------------------------------ MODULE ModelCache ------------------------------
(***************************************************************************)
(* Loading the model of the Kaede app: loadModelFromAssets of MlcLlm.kt    *)
(* and copyModelToCache, which copies the model's files into the cache     *)
(* directory unless that directory has something in it.  The files outlive *)
(* the process; the load does not.                                         *)
(*                                                                         *)
(* A load is one coroutine on Dispatchers.IO; retryModelLoad can start one *)
(* while another runs.  A file is opened, which truncates it, and written  *)
(* in two steps.                                                           *)
(***************************************************************************)
EXTENDS Integers, Sequences, FiniteSets

CONSTANTS
  ModelFiles,   \* modelFiles: the names to copy, in order
  Packaged,     \* those of them the APK has; none: it has no model
  Loads,        \* coroutines that run loadModelFromAssets
  NoLoad,       \* nobody has opened a file
  IOErrors,     \* TRUE: mkdirs, reads and writes of files may fail
  MaxCrashes    \* deaths of the process (bound)

Files == {ModelFiles[i] : i \in 1..Len(ModelFiles)}

ASSUME CacheAssumption ==
  /\ ModelFiles \in Seq(Files)
  /\ \A i, j \in 1..Len(ModelFiles) : ModelFiles[i] = ModelFiles[j] => i = j
  /\ Packaged \subseteq Files
  /\ NoLoad \notin Loads
  /\ IOErrors \in BOOLEAN
  /\ MaxCrashes \in Nat

VARIABLES
  dir,            \* modelDir exists
  disk,           \* how much of each file is in it
  writer,         \* the load that opened a file last
  loadProgress,   \* _loadProgress, in tenths
  isModelLoaded,  \* isModelLoaded
  load,           \* where each load is
  todo,           \* the files a load has yet to copy
  path,           \* the path a load reports: the directory or "stub"
  clean,          \* a load has met no error and no other load
  overlap,        \* two loads of this process have run at the same time
  crashes         \* deaths of the process so far

diskVars == <<dir, disk, writer, overlap>>
loadVars == <<todo, path, clean>>
vars == <<diskVars, loadProgress, isModelLoaded, load, loadVars, crashes>>

------------------------------------------------------------------------------
LoadStates == {"idle", "assets", "cache", "mkdir", "copy", "write", "exists",
               "native", "last", "flag", "done"}
Running == LoadStates \ {"idle", "done"}

TypeOK ==
  /\ dir \in BOOLEAN
  /\ disk \in [Files -> {"absent", "partial", "whole"}]
  /\ writer \in [Files -> Loads \cup {NoLoad}]
  /\ loadProgress \in {0, 2, 5, 7, 9, 10}
  /\ isModelLoaded \in BOOLEAN
  /\ load \in [Loads -> LoadStates]
  /\ todo \in [Loads -> Seq(Files)]
  /\ path \in [Loads -> {"none", "stub", "dir"}]
  /\ clean \in [Loads -> BOOLEAN]
  /\ overlap \in BOOLEAN
  /\ crashes \in 0..MaxCrashes
  /\ ~dir => \A f \in Files : disk[f] = "absent"

Init ==
  /\ dir = FALSE
  /\ disk = [f \in Files |-> "absent"]
  /\ writer = [f \in Files |-> NoLoad]
  /\ loadProgress = 0
  /\ isModelLoaded = FALSE
  /\ load = [l \in Loads |-> "idle"]
  /\ todo = [l \in Loads |-> <<>>]
  /\ path = [l \in Loads |-> "none"]
  /\ clean = [l \in Loads |-> FALSE]
  /\ overlap = FALSE
  /\ crashes = 0

At(l, from, to) ==
  /\ load[l] = from
  /\ load' = [load EXCEPT ![l] = to]

Report(p) == loadProgress' = p

------------------------------------------------------------------------------
Alone(l) == \A m \in Loads \ {l} : load[m] \notin Running

(* loadModelFromAssets: the constructor's load, or a retry. *)
Start(l) ==
  /\ load[l] \in {"idle", "done"}
  /\ load' = [load EXCEPT ![l] = "assets"]
  /\ Report(2)
  /\ path' = [path EXCEPT ![l] = "none"]
  /\ clean' = [k \in Loads |-> k = l /\ Alone(l)]
  /\ overlap' = (overlap \/ ~Alone(l))
  /\ UNCHANGED <<dir, disk, writer, isModelLoaded, todo, crashes>>

(* No model among the assets, or an exception on the way to them. *)
GoStub(l, from) ==
  /\ At(l, from, "flag")
  /\ Report(10)
  /\ path' = [path EXCEPT ![l] = "stub"]

FindAssets(l) ==
  /\ \/ /\ Packaged # {}
        /\ At(l, "assets", "cache")
        /\ UNCHANGED <<loadProgress, path>>
     \/ (Packaged = {} \/ IOErrors) /\ GoStub(l, "assets")
  /\ UNCHANGED <<diskVars, isModelLoaded, todo, clean, crashes>>

(* Mutation: what is there is never trusted. *)
NeverCached == FALSE

(* modelDir.exists() && listFiles().isNotEmpty() *)
Cached == \E f \in Files : disk[f] # "absent"

OpenCache(l) ==
  /\ At(l, "cache", IF Cached THEN "exists" ELSE "mkdir")
  /\ IF Cached THEN Report(5) ELSE UNCHANGED loadProgress
  /\ UNCHANGED <<diskVars, isModelLoaded, loadVars, crashes>>

(* Mutation: the last file of the list is forgotten. *)
AllButLast == SubSeq(ModelFiles, 1, Len(ModelFiles) - 1)

ToCopy == ModelFiles

MakeDir(l) ==
  /\ At(l, "mkdir", "copy")
  /\ dir' \in (IF dir \/ ~IOErrors THEN {TRUE} ELSE BOOLEAN)
  /\ todo' = [todo EXCEPT ![l] = ToCopy]
  /\ UNCHANGED <<disk, writer, overlap, loadProgress, isModelLoaded, path, clean,
                 crashes>>

(* Mutation: nobody looks whether mkdirs has made the directory. *)
OpenAnyway(l) ==
  /\ todo[l] # <<>>
  /\ At(l, "copy", "write")
  /\ Head(todo[l]) \in Packaged
  /\ disk' = [disk EXCEPT ![Head(todo[l])] = "partial"]
  /\ writer' = [writer EXCEPT ![Head(todo[l])] = l]
  /\ UNCHANGED <<dir, overlap, loadProgress, isModelLoaded, loadVars, crashes>>

(* The next file's asset is opened, and then the file, truncated.          *)
OpenFile(l) ==
  /\ todo[l] # <<>>
  /\ At(l, "copy", "write")
  /\ Head(todo[l]) \in Packaged
  /\ dir
  /\ disk' = [disk EXCEPT ![Head(todo[l])] = "partial"]
  /\ writer' = [writer EXCEPT ![Head(todo[l])] = l]
  /\ UNCHANGED <<dir, overlap, loadProgress, isModelLoaded, loadVars, crashes>>

(* It cannot be opened: the loop goes on with the next.                    *)
SkipFile(l) ==
  /\ todo[l] # <<>>
  /\ load[l] = "copy"
  /\ Head(todo[l]) \notin Packaged \/ ~dir \/ IOErrors
  /\ todo' = [todo EXCEPT ![l] = Tail(@)]
  /\ clean' = [clean EXCEPT ![l] = @ /\ Head(todo[l]) \notin Packaged]
  /\ UNCHANGED <<diskVars, loadProgress, isModelLoaded, load, path, crashes>>

(* copyTo.  A file two loads write is whole once the one that truncated it *)
(* last has written it; a write that fails leaves what it has written.     *)
WriteFile(l) ==
  /\ At(l, "write", "copy")
  /\ \/ /\ disk' = [disk EXCEPT ![Head(todo[l])] =
                      IF writer[Head(todo[l])] = l THEN "whole" ELSE @]
        /\ UNCHANGED clean
     \/ /\ IOErrors
        /\ clean' = [clean EXCEPT ![l] = FALSE]
        /\ UNCHANGED disk
  /\ todo' = [todo EXCEPT ![l] = Tail(@)]
  /\ UNCHANGED <<dir, writer, overlap, loadProgress, isModelLoaded, path, crashes>>

Copied(l) ==
  /\ todo[l] = <<>>
  /\ At(l, "copy", "exists")
  /\ Report(5)
  /\ UNCHANGED <<diskVars, isModelLoaded, loadVars, crashes>>

CheckDir(l) ==
  /\ IF dir
       THEN /\ At(l, "exists", "native")
            /\ Report(7)
            /\ path' = [path EXCEPT ![l] = "dir"]
       ELSE GoStub(l, "exists")
  /\ UNCHANGED <<diskVars, isModelLoaded, todo, clean, crashes>>

(* Mutation: the progress of an earlier stage. *)
InitNativeBack(l) ==
  /\ At(l, "native", "last")
  /\ Report(5)
  /\ UNCHANGED <<diskVars, isModelLoaded, loadVars, crashes>>

(* nativeInit and nativeLoadModel; what they throw is caught on the spot.  *)
InitNative(l) ==
  /\ At(l, "native", "last")
  /\ Report(9)
  /\ UNCHANGED <<diskVars, isModelLoaded, loadVars, crashes>>

LoadNative(l) ==
  /\ At(l, "last", "flag")
  /\ Report(10)
  /\ UNCHANGED <<diskVars, isModelLoaded, loadVars, crashes>>

(* Mutation: a load that falls back to the stub reports no model. *)
FlagUnlessStub(l) ==
  /\ At(l, "flag", "done")
  /\ isModelLoaded' = (isModelLoaded \/ path[l] # "stub")
  /\ UNCHANGED <<diskVars, loadProgress, loadVars, crashes>>

SetLoaded(l) ==
  /\ At(l, "flag", "done")
  /\ isModelLoaded' = TRUE
  /\ UNCHANGED <<diskVars, loadProgress, loadVars, crashes>>

------------------------------------------------------------------------------
(* The system kills the process; the next one starts with the same disk.   *)
Crash ==
  /\ crashes < MaxCrashes
  /\ crashes' = crashes + 1
  /\ load' = [l \in Loads |-> "idle"]
  /\ todo' = [l \in Loads |-> <<>>]
  /\ path' = [l \in Loads |-> "none"]
  /\ clean' = [l \in Loads |-> FALSE]
  /\ writer' = [f \in Files |-> NoLoad]
  /\ overlap' = FALSE
  /\ loadProgress' = 0
  /\ isModelLoaded' = FALSE
  /\ UNCHANGED <<dir, disk>>

LoadStep(l) ==
  \/ FindAssets(l) \/ OpenCache(l) \/ MakeDir(l) \/ OpenFile(l) \/ SkipFile(l)
  \/ WriteFile(l) \/ Copied(l) \/ CheckDir(l) \/ InitNative(l) \/ LoadNative(l)
  \/ SetLoaded(l)

Next == (\E l \in Loads : Start(l) \/ LoadStep(l)) \/ Crash

Spec == Init /\ [][Next]_vars

(* Dispatchers.IO runs every load; nobody has to start one. *)
FairSpec == Spec /\ \A l \in Loads : WF_vars(LoadStep(l))

------------------------------------------------------------------------------
(* Properties *)

(* A load that is alone and meets no error, on a cache that was empty when *)
(* it began to copy, leaves every packaged file whole, after any number of *)
(* crashes and failed loads before it (MlcLlm.kt 385-414).                 *)
CleanCopyIsWhole ==
  \A l \in Loads :
    clean[l] /\ load[l] = "copy" /\ todo[l] = <<>> =>
      \A f \in Packaged : disk[f] = "whole"

(* Unless two loads have run at the same time in this process, a file that *)
(* has been copied whole is never touched again, by no retry and no        *)
(* restart (MlcLlm.kt 385-388).                                            *)
WholeStaysWhole ==
  [][~overlap => \A f \in Files : disk[f] = "whole" => disk'[f] = "whole"]_vars

(* Without such an overlap the progress bar only moves forward, on the     *)
(* error paths too; only a new load or a new process sets it back.         *)
ProgressMovesForward ==
  [][~overlap /\ loadProgress' < loadProgress =>
       \/ crashes' # crashes
       \/ \E l \in Loads : load[l] \notin Running /\ load'[l] = "assets"]_vars

(* The chat opens after every load, whatever fails: a load ends, unless    *)
(* its process dies, and then the model counts as loaded (100-193).        *)
LoadsEnd ==
  \A l \in Loads :
    load[l] \in Running ~> load[l] = "idle" \/ (load[l] = "done" /\ isModelLoaded)

------------------------------------------------------------------------------
(* What the code's own texts claim of it *)

(* MlcLlm.kt 379: "Copy model directory from assets to cache".  A load     *)
(* that goes on with the cached directory has the whole of it.             *)
CacheIsComplete ==
  \A l \in Loads : load[l] = "native" => \A f \in Packaged : disk[f] = "whole"

===============================================================================
