SPECIFICATION FairSpec
CONSTANTS
  Calls = {c1, c2}
  NoCall = NoCall
  Kinds <- AllKinds
  PredictLength = 2
INVARIANT TypeOK NativeIsAlive OneAtATime
PROPERTY KeepsConversation FollowsPhases BlockedReturn
