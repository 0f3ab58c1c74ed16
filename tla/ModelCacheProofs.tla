--------------------------- MODULE ModelCacheProofs ---------------------------
(***************************************************************************)
(* Proofs about ModelCache for any list of model files, any packaging, any *)
(* number of loads, crashes and failed copies: in a process in which no    *)
(* two loads have run at the same time, a whole file stays whole.          *)
(***************************************************************************)
EXTENDS ModelCache, TLAPS

Distinct(s) == \A i, j \in 1..Len(s) : s[i] = s[j] => i = j

(* A load that writes a file writes it into an existing directory.         *)
DirInv ==
  /\ TypeOK
  /\ \A l \in Loads : load[l] = "write" => dir /\ todo[l] # <<>>

(* Without an overlap there is one running load, and what it still has to  *)
(* copy is not in the cache at all: the copy only starts on an empty       *)
(* directory, and no name comes twice.                                     *)
LoneInv(l) ==
  /\ load[l] \in {"copy", "write"} => Distinct(todo[l])
  /\ load[l] = "mkdir" => \A f \in Files : disk[f] = "absent"
  /\ load[l] = "copy" => \A i \in 1..Len(todo[l]) : disk[todo[l][i]] = "absent"
  /\ load[l] = "write" =>
       /\ disk[Head(todo[l])] = "partial"
       /\ \A i \in 2..Len(todo[l]) : disk[todo[l][i]] = "absent"

CopyInv ==
  ~overlap => \A l \in Loads : load[l] \in Running => Alone(l) /\ LoneInv(l)

LEMMA InitInv == Init => DirInv /\ CopyInv
<1> SUFFICES ASSUME Init PROVE DirInv /\ CopyInv
  OBVIOUS
<1> USE CacheAssumption DEF Init
<1>1. TypeOK
  <2>1. 0 \in 0..MaxCrashes
    OBVIOUS
  <2>2. <<>> \in Seq(Files)
    OBVIOUS
  <2> QED
    BY <2>1, <2>2 DEF TypeOK, LoadStates
<1>2. CopyInv
  BY DEF CopyInv, Running, LoadStates
<1> QED
  BY <1>1, <1>2 DEF DirInv

LEMMA TailOfDistinct ==
  ASSUME NEW s \in Seq(Files), s # <<>>, Distinct(s)
  PROVE  /\ Tail(s) \in Seq(Files)
         /\ Distinct(Tail(s))
         /\ Len(Tail(s)) = Len(s) - 1
         /\ \A i \in 1..Len(Tail(s)) : Tail(s)[i] = s[i + 1]
BY DEF Distinct

LEMMA HeadComesOnce ==
  ASSUME NEW s \in Seq(Files), s # <<>>, Distinct(s)
  PROVE  /\ 1 \in 1..Len(s) /\ Head(s) = s[1]
         /\ \A i \in 2..Len(s) : s[i] # Head(s)
BY DEF Distinct

LEMMA TypeStep == DirInv /\ [Next]_vars => DirInv'
<1> SUFFICES ASSUME DirInv, [Next]_vars PROVE DirInv'
  OBVIOUS
<1> USE CacheAssumption
    DEF DirInv, TypeOK, LoadStates, At, Report, diskVars, loadVars
<1>1. ASSUME NEW l \in Loads, Start(l) PROVE DirInv'
  BY <1>1 DEF Start
<1>2. ASSUME NEW l \in Loads, FindAssets(l) PROVE DirInv'
  <2>1. CASE GoStub(l, "assets")
    BY <1>2, <2>1 DEF FindAssets, GoStub
  <2>2. CASE At(l, "assets", "cache") /\ UNCHANGED <<loadProgress, path>>
    BY <1>2, <2>2 DEF FindAssets
  <2> QED
    BY <1>2, <2>1, <2>2 DEF FindAssets
<1>3. ASSUME NEW l \in Loads, OpenCache(l) PROVE DirInv'
  BY <1>3 DEF OpenCache
<1>4. ASSUME NEW l \in Loads, MakeDir(l) PROVE DirInv'
  <2>1. dir' \in BOOLEAN /\ (dir => dir')
    BY <1>4 DEF MakeDir
  <2> QED
    BY <1>4, <2>1 DEF MakeDir, ToCopy
<1>5. ASSUME NEW l \in Loads, OpenFile(l) PROVE DirInv'
  BY <1>5 DEF OpenFile
<1>6. ASSUME NEW l \in Loads, SkipFile(l) PROVE DirInv'
  <2>1. Tail(todo[l]) \in Seq(Files)
    BY <1>6 DEF SkipFile
  <2>2. (Head(todo[l]) \notin Packaged) \in BOOLEAN
    OBVIOUS
  <2>3. clean' \in [Loads -> BOOLEAN]
    BY <1>6, <2>2 DEF SkipFile
  <2> QED
    BY <1>6, <2>1, <2>3 DEF SkipFile
<1>7. ASSUME NEW l \in Loads, WriteFile(l) PROVE DirInv'
  <2>1. dir /\ Tail(todo[l]) \in Seq(Files)
    BY <1>7 DEF WriteFile
  <2>2. disk' \in [Files -> {"absent", "partial", "whole"}] /\ clean' \in [Loads -> BOOLEAN]
    BY <1>7, ZenonT(40) DEF WriteFile
  <2>3. /\ load' = [load EXCEPT ![l] = "copy"]
        /\ todo' = [todo EXCEPT ![l] = Tail(todo[l])]
        /\ UNCHANGED <<dir, writer, overlap, loadProgress, isModelLoaded, path, crashes>>
    BY <1>7 DEF WriteFile
  <2> QED
    BY <2>1, <2>2, <2>3
<1>8. ASSUME NEW l \in Loads, Copied(l) \/ CheckDir(l) PROVE DirInv'
  <2>1. CASE Copied(l)
    BY <2>1 DEF Copied
  <2>2. CASE CheckDir(l)
    <3>1. CASE dir
      <4>1. /\ load' \in [Loads -> LoadStates]
            /\ load' = [load EXCEPT ![l] = "native"]
        BY <2>2, <3>1, ZenonT(40) DEF CheckDir
      <4>2. path' \in [Loads -> {"none", "stub", "dir"}] /\ loadProgress' = 7
        BY <2>2, <3>1, ZenonT(40) DEF CheckDir
      <4> QED
        BY <2>2, <3>1, <4>1, <4>2, ZenonT(40) DEF CheckDir
    <3>2. CASE ~dir
      <4>1. /\ load' \in [Loads -> LoadStates]
            /\ load' = [load EXCEPT ![l] = "flag"]
        BY <2>2, <3>2, ZenonT(40) DEF CheckDir, GoStub
      <4>2. path' \in [Loads -> {"none", "stub", "dir"}] /\ loadProgress' = 10
        BY <2>2, <3>2, ZenonT(40) DEF CheckDir, GoStub
      <4> QED
        BY <2>2, <3>2, <4>1, <4>2, ZenonT(40) DEF CheckDir
    <3> QED
      BY <3>1, <3>2
  <2> QED
    BY <1>8, <2>1, <2>2
<1>9. ASSUME NEW l \in Loads, InitNative(l) \/ LoadNative(l) \/ SetLoaded(l)
      PROVE  DirInv'
  <2>1. CASE InitNative(l)
    BY <2>1 DEF InitNative
  <2>2. CASE LoadNative(l)
    BY <2>2 DEF LoadNative
  <2>3. CASE SetLoaded(l)
    BY <2>3 DEF SetLoaded
  <2> QED
    BY <1>9, <2>1, <2>2, <2>3
<1>10. CASE Crash
  <2>1. crashes' \in 0..MaxCrashes /\ <<>> \in Seq(Files)
    BY <1>10 DEF Crash
  <2>2. todo' \in [Loads -> Seq(Files)]
    BY <1>10, <2>1 DEF Crash
  <2> QED
    BY <1>10, <2>1, <2>2 DEF Crash
<1>11. CASE UNCHANGED vars
  BY <1>11 DEF vars
<1> QED
  BY <1>1, <1>2, <1>3, <1>4, <1>5, <1>6, <1>7, <1>8, <1>9, <1>10, <1>11
  DEF Next, LoadStep

(* Every variable of the model cache keeps its type, and nothing is on the *)
(* disk without the directory.                                             *)
THEOREM CacheTypes == Spec => []TypeOK
<1>1. Init => DirInv
  BY InitInv
<1>2. DirInv /\ [Next]_vars => DirInv'
  BY TypeStep
<1>3. DirInv => TypeOK
  BY DEF DirInv
<1> QED
  BY <1>1, <1>2, <1>3, PTL DEF Spec

------------------------------------------------------------------------------
(* A step of the one running load only has to keep what is true of it. *)
LEMMA LoneStep ==
  ASSUME DirInv, CopyInv, ~overlap, NEW l \in Loads, Alone(l),
         overlap' = overlap, LoneInv(l)',
         \A m \in Loads \ {l} : load'[m] = load[m]
  PROVE  CopyInv'
BY DEF CopyInv, Alone

(* A step of a load is its own: it was running, no other load's place,     *)
(* list or mark changes, and only the last step raises the flag.           *)
LEMMA OneLoadMoves ==
  ASSUME TypeOK, NEW l \in Loads, LoadStep(l)
  PROVE  /\ load[l] \in Running
         /\ overlap' = overlap
         /\ clean'[l] = TRUE => clean[l] = TRUE
         /\ ~SetLoaded(l) => isModelLoaded' = isModelLoaded /\ load'[l] # "done"
         /\ \A m \in Loads \ {l} :
              load'[m] = load[m] /\ clean'[m] = clean[m] /\ todo'[m] = todo[m]
<1> USE DEF TypeOK, At, diskVars, loadVars, LoadStates, Running
<1>1. CASE FindAssets(l)
  BY <1>1 DEF FindAssets, GoStub
<1>2. CASE OpenCache(l)
  BY <1>2 DEF OpenCache
<1>3. CASE MakeDir(l)
  BY <1>3 DEF MakeDir
<1>4. CASE OpenFile(l)
  BY <1>4 DEF OpenFile
<1>5. CASE SkipFile(l)
  BY <1>5 DEF SkipFile
<1>6. CASE WriteFile(l)
  BY <1>6 DEF WriteFile
<1>7. CASE Copied(l)
  BY <1>7 DEF Copied
<1>8. CASE CheckDir(l)
  BY <1>8 DEF CheckDir, GoStub
<1>9. CASE InitNative(l) \/ LoadNative(l)
  BY <1>9 DEF InitNative, LoadNative
<1>10. CASE SetLoaded(l)
  BY <1>10 DEF SetLoaded
<1> QED
  BY <1>1, <1>2, <1>3, <1>4, <1>5, <1>6, <1>7, <1>8, <1>9, <1>10 DEF LoadStep

LEMMA CopyStep ==
  ASSUME DirInv, CopyInv, [Next]_vars
  PROVE  CopyInv'
<1>0. ASSUME NEW l \in Loads, LoadStep(l)
      PROVE  /\ overlap' = overlap /\ load[l] \in Running
             /\ \A m \in Loads \ {l} : load'[m] = load[m]
  BY <1>0, OneLoadMoves DEF DirInv
<1> USE CacheAssumption
    DEF DirInv, TypeOK, At, Report, diskVars, loadVars, LoadStates, Running
<1>1. ASSUME NEW l \in Loads, Start(l) PROVE CopyInv'
  <2> SUFFICES ASSUME ~overlap, Alone(l) PROVE CopyInv'
    BY <1>1 DEF Start, CopyInv
  <2> QED
    BY <1>1 DEF Start, CopyInv, LoneInv, Alone
<1>2. ASSUME NEW l \in Loads, LoadStep(l) PROVE CopyInv'
  <2>1. overlap' = overlap /\ load[l] \in Running
    BY <1>2, <1>0
  <2>2. \A m \in Loads \ {l} : load'[m] = load[m]
    BY <1>2, <1>0
  <2> SUFFICES ASSUME ~overlap PROVE CopyInv'
    BY <2>1 DEF CopyInv
  <2>3. Alone(l) /\ LoneInv(l)
    BY <2>1 DEF CopyInv
  <2> SUFFICES LoneInv(l)'
    BY <2>1, <2>2, <2>3, LoneStep
  <2>4. CASE FindAssets(l)
    BY <2>4 DEF FindAssets, GoStub, LoneInv
  <2>5. CASE OpenCache(l)
    BY <2>5 DEF OpenCache, Cached, LoneInv
  <2>6. CASE MakeDir(l)
    <3>1. todo'[l] = ModelFiles /\ disk' = disk /\ load'[l] = "copy"
      BY <2>6 DEF MakeDir, ToCopy
    <3>2. Distinct(ModelFiles)
      BY DEF Distinct
    <3>3. \A i \in 1..Len(ModelFiles) : disk[ModelFiles[i]] = "absent"
      BY <2>3, <2>6 DEF MakeDir, LoneInv
    <3> QED
      BY <3>1, <3>2, <3>3 DEF LoneInv
  <2>7. CASE OpenFile(l)
    <3>1. /\ todo[l] # <<>> /\ todo[l] \in Seq(Files) /\ todo' = todo
          /\ load[l] = "copy" /\ load'[l] = "write"
      BY <2>7 DEF OpenFile
    <3>2. \A i \in 2..Len(todo[l]) : todo[l][i] # Head(todo[l])
      BY <2>3, <3>1, HeadComesOnce DEF LoneInv
    <3>3. disk' = [disk EXCEPT ![Head(todo[l])] = "partial"]
      BY <2>7 DEF OpenFile
    <3>4. \A i \in 2..Len(todo[l]) : disk'[todo[l][i]] = "absent"
      BY <2>3, <3>1, <3>2, <3>3 DEF LoneInv
    <3>5. disk'[Head(todo[l])] = "partial"
      BY <3>1, <3>3
    <3>6. Distinct(todo'[l])
      BY <2>3, <3>1 DEF LoneInv
    <3> QED
      BY <3>1, <3>4, <3>5, <3>6 DEF LoneInv
  <2>8. CASE SkipFile(l)
    <3>1. /\ todo[l] # <<>> /\ todo[l] \in Seq(Files) /\ todo'[l] = Tail(todo[l])
          /\ disk' = disk /\ load[l] = "copy" /\ load'[l] = "copy"
      BY <2>8 DEF SkipFile
    <3>2. Distinct(todo[l]) /\ \A i \in 1..Len(todo[l]) : disk[todo[l][i]] = "absent"
      BY <2>3, <3>1 DEF LoneInv
    <3>3. /\ Distinct(Tail(todo[l]))
          /\ Len(Tail(todo[l])) = Len(todo[l]) - 1
          /\ \A i \in 1..Len(Tail(todo[l])) : Tail(todo[l])[i] = todo[l][i + 1]
      BY <3>1, <3>2, TailOfDistinct
    <3>4. Distinct(todo'[l])
      BY <3>1, <3>3
    <3>5. \A i \in 1..Len(todo'[l]) : disk'[todo'[l][i]] = "absent"
      BY <3>1, <3>2, <3>3
    <3> QED
      BY <3>1, <3>4, <3>5 DEF LoneInv
  <2>9. CASE WriteFile(l)
    <3>1. /\ todo[l] # <<>> /\ todo[l] \in Seq(Files) /\ todo'[l] = Tail(todo[l])
          /\ load[l] = "write" /\ load'[l] = "copy"
      BY <2>9 DEF WriteFile
    <3>2. \A f \in Files : f # Head(todo[l]) => disk'[f] = disk[f]
      BY <2>9 DEF WriteFile
    <3>3. Distinct(todo[l]) /\ \A i \in 2..Len(todo[l]) : disk[todo[l][i]] = "absent"
      BY <2>3, <3>1 DEF LoneInv
    <3>4. /\ Distinct(Tail(todo[l]))
          /\ Len(Tail(todo[l])) = Len(todo[l]) - 1
          /\ \A i \in 1..Len(Tail(todo[l])) : Tail(todo[l])[i] = todo[l][i + 1]
      BY <3>1, <3>3, TailOfDistinct
    <3>5. \A i \in 2..Len(todo[l]) : todo[l][i] # Head(todo[l])
      BY <3>1, <3>3, HeadComesOnce
    <3>6. \A i \in 1..Len(Tail(todo[l])) : disk'[Tail(todo[l])[i]] = "absent"
      BY <3>1, <3>2, <3>3, <3>4, <3>5
    <3>7. Distinct(todo'[l])
      BY <3>1, <3>4
    <3>8. \A i \in 1..Len(todo'[l]) : disk'[todo'[l][i]] = "absent"
      BY <3>1, <3>6
    <3> QED
      BY <3>1, <3>7, <3>8 DEF LoneInv
  <2>10. CASE Copied(l) \/ CheckDir(l) \/ InitNative(l) \/ LoadNative(l) \/ SetLoaded(l)
    BY <2>10
    DEF Copied, CheckDir, GoStub, InitNative, LoadNative, SetLoaded, LoneInv
  <2> QED
    BY <1>2, <2>4, <2>5, <2>6, <2>7, <2>8, <2>9, <2>10 DEF LoadStep
<1>3. CASE Crash
  BY <1>3 DEF Crash, CopyInv
<1>4. CASE UNCHANGED vars
  BY <1>4 DEF vars, CopyInv, LoneInv, Alone
<1> QED
  BY <1>1, <1>2, <1>3, <1>4 DEF Next

(* No step damages a file that is whole, unless loads have overlapped: a   *)
(* file is only truncated while nothing of it is on the disk.              *)
LEMMA KeepsWhole ==
  ASSUME DirInv, CopyInv, [Next]_vars, ~overlap, NEW f \in Files,
         disk[f] = "whole"
  PROVE  disk'[f] = "whole"
<1> USE CacheAssumption
    DEF DirInv, TypeOK, At, Report, diskVars, loadVars, LoadStates, Running
<1>1. ASSUME NEW l \in Loads, OpenFile(l) PROVE disk'[f] = "whole"
  <2>1. todo[l] # <<>> /\ todo[l] \in Seq(Files) /\ load[l] = "copy"
    BY <1>1 DEF OpenFile
  <2>2. disk[Head(todo[l])] = "absent"
    <3>1. Distinct(todo[l]) /\ \A i \in 1..Len(todo[l]) : disk[todo[l][i]] = "absent"
      BY <2>1 DEF CopyInv, LoneInv
    <3> QED
      BY <2>1, <3>1, HeadComesOnce
  <2> QED
    BY <1>1, <2>2 DEF OpenFile
<1>2. ASSUME NEW l \in Loads, WriteFile(l) PROVE disk'[f] = "whole"
  BY <1>2 DEF WriteFile
<1>3. ASSUME NEW l \in Loads,
             \/ Start(l) \/ FindAssets(l) \/ OpenCache(l) \/ MakeDir(l) \/ SkipFile(l)
             \/ Copied(l) \/ CheckDir(l) \/ InitNative(l) \/ LoadNative(l)
             \/ SetLoaded(l)
      PROVE  disk' = disk
  BY <1>3
  DEF Start, FindAssets, GoStub, OpenCache, MakeDir, SkipFile, Copied, CheckDir,
      InitNative, LoadNative, SetLoaded
<1>4. CASE Crash \/ UNCHANGED vars
  BY <1>4 DEF Crash, vars
<1> QED
  BY <1>1, <1>2, <1>3, <1>4 DEF Next, LoadStep

(* A file that has been copied whole stays whole through any number of     *)
(* retries, failures and crashes, until two loads of one process overlap.  *)
THEOREM WholeFilesAreSafe == Spec => WholeStaysWhole
<1>1. Init => DirInv /\ CopyInv
  BY InitInv
<1>2. DirInv /\ CopyInv /\ [Next]_vars => (DirInv /\ CopyInv)'
  BY TypeStep, CopyStep
<1>3. DirInv /\ CopyInv /\ [Next]_vars =>
        [~overlap => \A f \in Files : disk[f] = "whole" => disk'[f] = "whole"]_vars
  BY KeepsWhole
<1> QED
  BY <1>1, <1>2, <1>3, PTL DEF Spec, WholeStaysWhole

------------------------------------------------------------------------------
(* A clean load runs alone, and what is not whole is still to be copied.   *)
CleanInv(l) ==
  clean[l] = TRUE /\ load[l] \in Running =>
    /\ Alone(l)
    /\ load[l] \in {"copy", "write"} =>
         \A f \in Packaged : \/ disk[f] = "whole"
                            \/ \E i \in 1..Len(todo[l]) : todo[l][i] = f
    /\ load[l] = "write" => writer[Head(todo[l])] = l

LEMMA HeadOrTail ==
  ASSUME NEW s \in Seq(Files), s # <<>>, NEW i \in 1..Len(s)
  PROVE  \/ s[i] = Head(s)
         \/ \E j \in 1..Len(Tail(s)) : Tail(s)[j] = s[i]
<1>1. CASE i = 1
  BY <1>1
<1>2. CASE i # 1
  <2>1. i - 1 \in 1..Len(Tail(s)) /\ Tail(s)[i - 1] = s[i]
    BY <1>2
  <2> QED
    BY <2>1
<1> QED
  BY <1>1, <1>2

(* What a load does to itself and to the disk while the others stand.      *)
LEMMA CleanStepAlone ==
  ASSUME DirInv, NEW l \in Loads, LoadStep(l), CleanInv(l)
  PROVE  CleanInv(l)'
<1>1. \A m \in Loads \ {l} : load'[m] = load[m]
  BY OneLoadMoves DEF DirInv
<1>2. load[l] \in Running /\ (clean'[l] = TRUE => clean[l] = TRUE)
  BY OneLoadMoves DEF DirInv
<1> USE CacheAssumption
    DEF DirInv, TypeOK, At, Report, diskVars, loadVars, LoadStates, Running
<1> SUFFICES ASSUME clean'[l] = TRUE PROVE CleanInv(l)'
  BY DEF CleanInv
<1>3. Alone(l) /\ CleanInv(l)
  BY <1>2 DEF CleanInv
<1>9. Alone(l)'
  BY <1>1, <1>3 DEF Alone
<1> SUFFICES
      /\ load'[l] \in {"copy", "write"} =>
           \A f \in Packaged : \/ disk'[f] = "whole"
                              \/ \E i \in 1..Len(todo'[l]) : todo'[l][i] = f
      /\ load'[l] = "write" => writer'[Head(todo'[l])] = l
  BY <1>9 DEF CleanInv
<1>4. CASE MakeDir(l)
  <2>1. todo'[l] = ModelFiles /\ load'[l] = "copy"
    BY <1>4 DEF MakeDir, ToCopy
  <2>2. \A f \in Packaged : \E i \in 1..Len(ModelFiles) : ModelFiles[i] = f
    BY DEF Files
  <2> QED
    BY <2>1, <2>2
<1>5. CASE OpenFile(l)
  <2>1. /\ todo[l] # <<>> /\ todo[l] \in Seq(Files) /\ todo' = todo
        /\ load[l] = "copy" /\ load'[l] = "write"
    BY <1>5 DEF OpenFile
  <2>2. Head(todo[l]) \in Files /\ Head(todo[l]) = todo[l][1] /\ 1 \in 1..Len(todo[l])
    BY <2>1
  <2>3. writer'[Head(todo[l])] = l
    BY <1>5, <2>2 DEF OpenFile
  <2>4. \A f \in Files : f # Head(todo[l]) => disk'[f] = disk[f]
    BY <1>5 DEF OpenFile
  <2>5. ASSUME NEW f \in Packaged
        PROVE  disk'[f] = "whole" \/ \E i \in 1..Len(todo[l]) : todo[l][i] = f
    <3>1. CASE f = Head(todo[l])
      BY <3>1, <2>2
    <3>2. CASE f # Head(todo[l])
      BY <3>2, <2>1, <2>4, <1>2, <1>3 DEF CleanInv
    <3> QED
      BY <3>1, <3>2
  <2>6. todo'[l] = todo[l]
    BY <2>1
  <2>7. \A f \in Packaged : \/ disk'[f] = "whole"
                            \/ \E i \in 1..Len(todo'[l]) : todo'[l][i] = f
    BY ONLY <2>5, <2>6
  <2>8. writer'[Head(todo'[l])] = l
    BY ONLY <2>3, <2>6
  <2> QED
    BY ONLY <2>7, <2>8
(* A packaged file is not skipped by a clean load.                         *)
<1>6. CASE SkipFile(l)
  <2>1. /\ todo[l] # <<>> /\ todo[l] \in Seq(Files) /\ todo'[l] = Tail(todo[l])
        /\ disk' = disk /\ load[l] = "copy" /\ load'[l] = "copy"
    BY <1>6 DEF SkipFile
  <2>2. Head(todo[l]) \notin Packaged
    <3>1. clean'[l] = (clean[l] /\ Head(todo[l]) \notin Packaged)
      BY <1>6 DEF SkipFile
    <3> QED
      BY <3>1
  <2>3. ASSUME NEW f \in Packaged
        PROVE  \/ disk'[f] = "whole"
               \/ \E i \in 1..Len(Tail(todo[l])) : Tail(todo[l])[i] = f
    <3>1. disk[f] = "whole" \/ \E i \in 1..Len(todo[l]) : todo[l][i] = f
      BY <2>1, <1>2, <1>3 DEF CleanInv
    <3> QED
      BY <3>1, <2>1, <2>2, HeadOrTail
  <2> QED
    BY <2>1, <2>3
<1>7. CASE WriteFile(l)
  <2>1. /\ todo[l] # <<>> /\ todo[l] \in Seq(Files) /\ todo'[l] = Tail(todo[l])
        /\ load[l] = "write" /\ load'[l] = "copy"
    BY <1>7 DEF WriteFile
  <2>2. writer[Head(todo[l])] = l /\ Head(todo[l]) \in Files
    BY <2>1, <1>2, <1>3 DEF CleanInv
  <2>3. disk' = [disk EXCEPT ![Head(todo[l])] = "whole"]
    <3>1. \/ disk' = [disk EXCEPT ![Head(todo[l])] =
                        IF writer[Head(todo[l])] = l THEN "whole" ELSE @]
          \/ clean' = [clean EXCEPT ![l] = FALSE]
      BY <1>7 DEF WriteFile
    <3>2. clean' # [clean EXCEPT ![l] = FALSE]
      OBVIOUS
    <3> QED
      BY <2>2, <3>1, <3>2
  <2>4. ASSUME NEW f \in Packaged
        PROVE  \/ disk'[f] = "whole"
               \/ \E i \in 1..Len(Tail(todo[l])) : Tail(todo[l])[i] = f
    <3>1. disk[f] = "whole" \/ \E i \in 1..Len(todo[l]) : todo[l][i] = f
      BY <2>1, <1>2, <1>3 DEF CleanInv
    <3>2. CASE f = Head(todo[l])
      BY <3>2, <2>2, <2>3
    <3>3. CASE f # Head(todo[l])
      <4>1. disk'[f] = disk[f]
        BY <3>3, <2>3
      <4>2. ASSUME NEW i \in 1..Len(todo[l]), todo[l][i] = f
            PROVE  \E j \in 1..Len(Tail(todo[l])) : Tail(todo[l])[j] = f
        BY <2>1, <3>3, <4>2, HeadOrTail
      <4> QED
        BY <3>1, <4>1, <4>2
    <3> QED
      BY <3>2, <3>3
  <2> QED
    BY <2>1, <2>4
<1>8. CASE \/ FindAssets(l) \/ OpenCache(l) \/ Copied(l) \/ CheckDir(l)
           \/ InitNative(l) \/ LoadNative(l) \/ SetLoaded(l)
  BY <1>8
  DEF FindAssets, GoStub, OpenCache, Copied, CheckDir, InitNative, LoadNative,
      SetLoaded
<1> QED
  BY <1>4, <1>5, <1>6, <1>7, <1>8 DEF LoadStep

LEMMA CleanStep ==
  ASSUME DirInv, \A l \in Loads : CleanInv(l), [Next]_vars
  PROVE  \A l \in Loads : CleanInv(l)'
<1>0. ASSUME NEW l \in Loads, LoadStep(l)
      PROVE  /\ load[l] \in Running
             /\ \A m \in Loads \ {l} : load'[m] = load[m] /\ clean'[m] = clean[m]
  BY <1>0, OneLoadMoves DEF DirInv
<1> USE DEF DirInv, TypeOK, Running, LoadStates
<1>1. ASSUME NEW l \in Loads, Start(l) PROVE \A k \in Loads : CleanInv(k)'
  <2>1. clean' = [k \in Loads |-> k = l /\ Alone(l)]
    BY <1>1 DEF Start
  <2>2. load' = [load EXCEPT ![l] = "assets"]
    BY <1>1 DEF Start
  <2>3. ASSUME NEW k \in Loads, clean'[k] = TRUE PROVE k = l /\ Alone(l)
    BY <2>1, <2>3
  <2>4. Alone(l) => Alone(l)'
    BY <2>2 DEF Alone
  <2>5. ASSUME NEW k \in Loads, clean'[k] = TRUE PROVE CleanInv(k)'
    <3>1. k = l /\ Alone(k)'
      BY <2>3, <2>4, <2>5
    <3>2. load'[k] = "assets"
      BY <2>2, <3>1
    <3> QED
      BY <3>1, <3>2 DEF CleanInv
  <2> QED
    BY <2>5 DEF CleanInv
(* The step of one load finds every other that runs no longer clean.       *)
<1>2. ASSUME NEW l \in Loads, LoadStep(l) PROVE \A k \in Loads : CleanInv(k)'
  <2>1. /\ load[l] \in Running
        /\ \A m \in Loads \ {l} : load'[m] = load[m] /\ clean'[m] = clean[m]
    BY <1>2, <1>0
  <2>2. ASSUME NEW k \in Loads \ {l} PROVE CleanInv(k)'
    BY <2>1, <2>2 DEF CleanInv, Alone
  <2> QED
    BY <1>2, <2>2, CleanStepAlone
<1>3. CASE Crash
  BY <1>3 DEF Crash, CleanInv
<1>4. CASE UNCHANGED vars
  BY <1>4 DEF vars, diskVars, loadVars, CleanInv, Alone
<1> QED
  BY <1>1, <1>2, <1>3, <1>4 DEF Next

(* A load that is alone and meets no error leaves every packaged file      *)
(* whole, for any list of files and after any number of crashes.           *)
THEOREM CleanCopies == Spec => []CleanCopyIsWhole
<1> DEFINE Clean == DirInv /\ \A l \in Loads : CleanInv(l)
<1>1. Init => Clean
  BY InitInv DEF Init, CleanInv
<1>2. Clean /\ [Next]_vars => Clean'
  BY TypeStep, CleanStep
<1>3. Clean => CleanCopyIsWhole
  <2> SUFFICES ASSUME Clean, NEW l \in Loads, clean[l], load[l] = "copy",
                      todo[l] = <<>>, NEW f \in Packaged
               PROVE  disk[f] = "whole"
    BY DEF CleanCopyIsWhole
  <2>1. clean[l] = TRUE
    BY DEF DirInv, TypeOK
  <2> QED
    BY <2>1 DEF CleanInv, Running, LoadStates
<1> QED
  BY <1>1, <1>2, <1>3, PTL DEF Spec

------------------------------------------------------------------------------
(* How far the bar is at most when a load is at a stage.                   *)
Reached(s) ==
  CASE s \in {"exists"} -> 5 [] s = "native" -> 7 [] s = "last" -> 9
    [] s = "flag" -> 10 [] OTHER -> 2

BarInv ==
  ~overlap => \A l \in Loads : load[l] \in Running => loadProgress <= Reached(load[l])

LEMMA BarStep ==
  ASSUME DirInv, CopyInv, BarInv, NEW l \in Loads, LoadStep(l), ~overlap
  PROVE  loadProgress <= loadProgress' /\ BarInv'
<1>0. load[l] \in Running /\ \A m \in Loads \ {l} : load'[m] = load[m]
  BY OneLoadMoves DEF DirInv
<1>1. load[l] \in Running /\ \A m \in Loads \ {l} : load'[m] \notin Running
  BY <1>0 DEF CopyInv, Alone
<1> USE DEF DirInv, TypeOK, At, Report, diskVars, loadVars, LoadStates, Running
<1>2. loadProgress \in Nat /\ loadProgress <= Reached(load[l])
  BY <1>1 DEF BarInv
<1> SUFFICES /\ loadProgress <= loadProgress'
             /\ load'[l] \in Running => loadProgress' <= Reached(load'[l])
  BY <1>1 DEF BarInv
<1>3. CASE FindAssets(l)
  BY <1>2, <1>3 DEF FindAssets, GoStub, Reached
<1>4. CASE OpenCache(l)
  <2>1. CASE Cached
    BY <1>2, <1>4, <2>1 DEF OpenCache, Reached
  <2>2. CASE ~Cached
    BY <1>2, <1>4, <2>2 DEF OpenCache, Reached
  <2> QED
    BY <2>1, <2>2
<1>5. CASE MakeDir(l) \/ OpenFile(l) \/ SkipFile(l) \/ WriteFile(l)
  <2>1. /\ load[l] \in {"mkdir", "copy", "write"} /\ load'[l] \in {"copy", "write"}
        /\ loadProgress' = loadProgress
    BY <1>5 DEF MakeDir, OpenFile, SkipFile, WriteFile
  <2> QED
    BY <1>2, <2>1 DEF Reached
<1>6. CASE Copied(l) \/ InitNative(l) \/ LoadNative(l) \/ SetLoaded(l)
  BY <1>2, <1>6 DEF Copied, InitNative, LoadNative, SetLoaded, Reached
<1>7. CASE CheckDir(l)
  BY <1>2, <1>7 DEF CheckDir, GoStub, Reached
<1> QED
  BY <1>3, <1>4, <1>5, <1>6, <1>7 DEF LoadStep

(* Without an overlap the progress bar only moves forward, on the error    *)
(* paths too; only a new load or a new process sets it back.               *)
THEOREM BarMovesForward == Spec => ProgressMovesForward
<1> DEFINE Bar == DirInv /\ CopyInv /\ BarInv
<1>1. Init => Bar
  BY InitInv DEF Init, BarInv, Running
<1>2. Bar /\ [Next]_vars => Bar'
  <2> SUFFICES ASSUME Bar, [Next]_vars PROVE BarInv'
    BY TypeStep, CopyStep
  <2>1. ASSUME NEW l \in Loads, Start(l) PROVE BarInv'
    <3> SUFFICES ASSUME ~overlap, Alone(l) PROVE BarInv'
      BY <2>1 DEF Start, BarInv, DirInv, TypeOK
    <3> QED
      BY <2>1 DEF Start, BarInv, Reached, Report, Alone, DirInv, TypeOK
  <2>2. ASSUME NEW l \in Loads, LoadStep(l) PROVE BarInv'
    <3>1. overlap' = overlap
      BY <2>2
      DEF LoadStep, FindAssets, GoStub, OpenCache, MakeDir, OpenFile, SkipFile,
          WriteFile, Copied, CheckDir, InitNative, LoadNative, SetLoaded, diskVars
    <3> QED
      BY <2>2, <3>1, BarStep DEF BarInv
  <2>3. CASE Crash
    BY <2>3 DEF Crash, BarInv, Running
  <2>4. CASE UNCHANGED vars
    BY <2>4 DEF vars, diskVars, BarInv
  <2> QED
    BY <2>1, <2>2, <2>3, <2>4 DEF Next
<1>3. Bar /\ [Next]_vars =>
        [~overlap /\ loadProgress' < loadProgress =>
           \/ crashes' # crashes
           \/ \E l \in Loads : load[l] \notin Running /\ load'[l] = "assets"]_vars
  <2> SUFFICES ASSUME Bar, Next, ~overlap, loadProgress' < loadProgress
               PROVE  \/ crashes' # crashes
                      \/ \E l \in Loads : load[l] \notin Running /\ load'[l] = "assets"
    OBVIOUS
  <2>1. ASSUME NEW l \in Loads, Start(l)
        PROVE  load[l] \notin Running /\ load'[l] = "assets"
    BY <2>1 DEF Start, Running, LoadStates, DirInv, TypeOK
  <2>2. ASSUME NEW l \in Loads, LoadStep(l) PROVE FALSE
    <3>1. loadProgress <= loadProgress'
      BY <2>2, BarStep
    <3>2. loadProgress \in Nat /\ loadProgress' \in Nat
      BY TypeStep DEF DirInv, TypeOK
    <3> QED
      BY <3>1, <3>2
  <2>3. CASE Crash
    BY <2>3, CacheAssumption DEF Crash, DirInv, TypeOK
  <2> QED
    BY <2>1, <2>2, <2>3 DEF Next
<1> QED
  BY <1>1, <1>2, <1>3, PTL DEF Spec, ProgressMovesForward

------------------------------------------------------------------------------
(* What is behind LoadsEnd *)

(* A load that has ended leaves a chat that opens, stub or model, whatever *)
(* failed on the way (MlcLlm.kt 160-193); only a new process forgets it.   *)
EndedMeansLoaded ==
  \A l \in Loads : load[l] = "done" => isModelLoaded

(* Every exit of loadModelFromAssets raises isModelLoaded, and no exit, no *)
(* failure and no other load takes it down again.                          *)
THEOREM EndedLoadsCount == Spec => []EndedMeansLoaded
<1> DEFINE Ended == DirInv /\ EndedMeansLoaded
<1>1. Init => Ended
  BY InitInv DEF Init, EndedMeansLoaded
<1>2. Ended /\ [Next]_vars => Ended'
  <2> SUFFICES ASSUME DirInv, EndedMeansLoaded, [Next]_vars PROVE EndedMeansLoaded'
    BY TypeStep
  <2> USE DEF DirInv, TypeOK, EndedMeansLoaded
  <2>1. ASSUME NEW l \in Loads, Start(l) PROVE EndedMeansLoaded'
    BY <2>1 DEF Start
  <2>2. ASSUME NEW l \in Loads, LoadStep(l) PROVE EndedMeansLoaded'
    <3>1. CASE SetLoaded(l)
      BY <3>1 DEF SetLoaded
    <3>2. CASE ~SetLoaded(l)
      <4>1. /\ isModelLoaded' = isModelLoaded
            /\ load'[l] # "done"
            /\ \A m \in Loads \ {l} : load'[m] = load[m]
        BY <2>2, <3>2, OneLoadMoves
      <4>2. QED
        BY <4>1
    <3>3. QED
      BY <3>1, <3>2
  <2>3. CASE Crash \/ UNCHANGED vars
    BY <2>3 DEF Crash, vars
  <2>4. QED
    BY <2>1, <2>2, <2>3 DEF Next
<1>3. QED
  BY <1>1, <1>2, PTL DEF Spec

(* Steps a load has before it, at most. *)
StepsLeft(l) ==
  CASE load[l] = "assets" -> 2 * Len(ModelFiles) + 8
    [] load[l] = "cache"  -> 2 * Len(ModelFiles) + 7
    [] load[l] = "mkdir"  -> 2 * Len(ModelFiles) + 6
    [] load[l] = "copy"   -> 2 * Len(todo[l]) + 5
    [] load[l] = "write"  -> 2 * Len(todo[l]) + 4
    [] load[l] = "exists" -> 4
    [] load[l] = "native" -> 3
    [] load[l] = "last"   -> 2
    [] load[l] = "flag"   -> 1
    [] OTHER              -> 0

(* Whoever takes a step, a running load stays where it is or comes closer  *)
(* to its end: no failure and no other load sends it round again.          *)
LoadsComeCloser ==
  \A l \in Loads : load[l] \in Running =>
    \/ UNCHANGED <<load[l], todo[l]>>
    \/ StepsLeft(l)' \in 0..(StepsLeft(l) - 1)

(* A load ends after at most 2 * Len(ModelFiles) + 8 steps of its own, for *)
(* any list of files (MlcLlm.kt 88-194, 385-414).                          *)
THEOREM LoadsGetOn == Spec => [][LoadsComeCloser]_vars
<1>1. DirInv /\ [Next]_vars => LoadsComeCloser
  <2> SUFFICES ASSUME DirInv, [Next]_vars, NEW k \in Loads, load[k] \in Running
               PROVE  \/ UNCHANGED <<load[k], todo[k]>>
                      \/ StepsLeft(k)' \in 0..(StepsLeft(k) - 1)
    BY DEF LoadsComeCloser
  <2> DEFINE n == Len(ModelFiles)
             m == Len(todo[k])
  <2>1. /\ n \in Nat /\ m \in Nat
        /\ todo[k] \in Seq(Files)
        /\ todo[k] # <<>> => Len(Tail(todo[k])) = m - 1 /\ m > 0
    BY CacheAssumption DEF DirInv, TypeOK
  <2>2. ASSUME NEW l \in Loads, Start(l)
        PROVE  UNCHANGED <<load[k], todo[k]>>
    BY <2>2 DEF Start, DirInv, TypeOK, Running
  <2>3. ASSUME NEW l \in Loads, LoadStep(l), l # k
        PROVE  UNCHANGED <<load[k], todo[k]>>
    BY <2>3, OneLoadMoves DEF DirInv
  <2>4. CASE FindAssets(k) \/ OpenCache(k)
    <3>1. \/ load[k] = "assets" /\ load'[k] \in {"cache", "flag"}
          \/ load[k] = "cache" /\ load'[k] \in {"exists", "mkdir"}
      BY <2>4 DEF FindAssets, GoStub, At, OpenCache, DirInv, TypeOK
    <3>2. QED
      BY <2>1, <3>1 DEF StepsLeft
  <2>5. CASE MakeDir(k)
    <3>1. load[k] = "mkdir" /\ load'[k] = "copy" /\ todo'[k] = ModelFiles
      BY <2>5 DEF MakeDir, At, ToCopy, DirInv, TypeOK
    <3>2. QED
      BY <2>1, <3>1 DEF StepsLeft
  <2>6. CASE OpenFile(k)
    <3>1. load[k] = "copy" /\ load'[k] = "write" /\ todo'[k] = todo[k]
      BY <2>6 DEF OpenFile, At, loadVars, DirInv, TypeOK
    <3>2. QED
      BY <2>1, <3>1 DEF StepsLeft
  <2>7. CASE SkipFile(k) \/ WriteFile(k)
    <3>1. /\ load[k] \in {"copy", "write"} /\ load'[k] = "copy"
          /\ todo[k] # <<>> /\ todo'[k] = Tail(todo[k])
      BY <2>7 DEF SkipFile, WriteFile, At, DirInv, TypeOK
    <3>2. QED
      BY <2>1, <3>1 DEF StepsLeft
  <2>8. CASE Copied(k) \/ CheckDir(k)
    <3>1. \/ load[k] = "copy" /\ load'[k] = "exists"
          \/ load[k] = "exists" /\ load'[k] \in {"native", "flag"}
      BY <2>8 DEF Copied, CheckDir, GoStub, At, DirInv, TypeOK
    <3>2. QED
      BY <2>1, <3>1 DEF StepsLeft
  <2>9. CASE InitNative(k) \/ LoadNative(k) \/ SetLoaded(k)
    <3>1. \/ load[k] = "native" /\ load'[k] = "last"
          \/ load[k] = "last" /\ load'[k] = "flag"
          \/ load[k] = "flag" /\ load'[k] = "done"
      BY <2>9 DEF InitNative, LoadNative, SetLoaded, At, DirInv, TypeOK
    <3>2. QED
      BY <3>1 DEF StepsLeft
  <2>10. CASE Crash
    <3>1. load'[k] = "idle" /\ todo'[k] = <<>>
      BY <2>10 DEF Crash
    <3>2. load[k] \in {"assets", "cache", "mkdir", "copy", "write", "exists",
                       "native", "last", "flag"}
      BY DEF Running, LoadStates
    <3>3. QED
      BY <2>1, <3>1, <3>2 DEF StepsLeft
  <2>11. CASE UNCHANGED vars
    BY <2>11 DEF vars, loadVars
  <2>12. QED
    BY <2>2, <2>3, <2>4, <2>5, <2>6, <2>7, <2>8, <2>9, <2>10, <2>11
    DEF Next, LoadStep
<1>2. Init => DirInv
  BY InitInv
<1>3. DirInv /\ [Next]_vars => DirInv'
  BY TypeStep
<1>4. QED
  BY <1>1, <1>2, <1>3, PTL DEF Spec
===============================================================================
