SPECIFICATION Spec
CONSTANTS
  Calls = {c1, c2}
  NoCall = NoCall
  Kinds <- AllKinds
  PredictLength = 1
INVARIANT CutByItsOwn
