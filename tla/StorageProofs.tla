---------------------------- MODULE StorageProofs ----------------------------
(***************************************************************************)
(* AtomicWrite for any number of goroutines, paths and contents: types, no *)
(* torn file, and the implementation of AtomicFile.                        *)
(***************************************************************************)
EXTENDS Storage, Naturals, TLAPS

(* What an inode may become when the machine stops: nothing else where it  *)
(* was synced (the fsync of AtomicWrite).                                  *)
LEMMA Inodes ==
  /\ Sound \subseteq Inode
  /\ NoInode \in Sound
  /\ [data |-> Torn, synced |-> FALSE] \in Inode
  /\ \A i \in Inode, c \in Contents : [i EXCEPT !.data = c] \in Inode
  /\ \A i \in Inode : [i EXCEPT !.synced = TRUE] \in Inode
  /\ \A i \in Sound : AfterStop(i) = {i}
  BY DEF Sound, Inode, NoInode, AfterStop

(* The registry starts with no call in flight and complete files.          *)
LEMMA InitIInv == Init => IInv
  BY Inodes, MarksDiffer DEF Init, IInv, TypeOK, OwnTemps, Steps

(* A call that makes no change but to its place: mkdir, chmod and close    *)
(* leave the files and the temporary files alone.                          *)
LEMMA QuietStep ==
  ASSUME IInv, NEW w \in Writers,
         MkdirAll(w) \/ Chmod(w) \/ Close(w) \/ FailedCall(w)
  PROVE  IInv'
<1>1. TypeOK'
  BY DEF IInv, TypeOK, MkdirAll, Chmod, Close, FailedCall, GoTo, Steps
<1>2. OwnTemps'
  BY DEF IInv, TypeOK, OwnTemps, MkdirAll, Chmod, Close, FailedCall, At, GoTo, Steps
<1>3. QED
  BY <1>1, <1>2 DEF IInv, MkdirAll, Chmod, Close, FailedCall

LEMMA CallStep ==
  ASSUME IInv, NEW w \in Writers, Call(w)
  PROVE  IInv'
<1>1. TypeOK'
  BY DEF IInv, TypeOK, Call, GoTo, Steps
<1>2. OwnTemps'
  BY DEF IInv, TypeOK, OwnTemps, Call, At, GoTo, Steps
<1>3. QED
  BY <1>1, <1>2 DEF IInv, Call

(* O_EXCL: the new temporary file belongs to nobody else.                  *)
LEMMA CreateTempStep ==
  ASSUME IInv, NEW w \in Writers, CreateTemp(w)
  PROVE  IInv'
<1>1. PICK n \in Names : 
        /\ \A v \in Writers : name[v] # n
        /\ tmp' = [tmp EXCEPT ![n] = [data |-> Torn, synced |-> FALSE]]
        /\ name' = [name EXCEPT ![w] = n]
  BY DEF CreateTemp
<1>2. TypeOK'
  BY <1>1, Inodes DEF IInv, TypeOK, CreateTemp, GoTo, Steps
<1>3. OwnTemps'
  BY <1>1, <1>2, MarksDiffer DEF IInv, TypeOK, OwnTemps, CreateTemp, At, GoTo, Steps
<1>4. QED
  BY <1>2, <1>3 DEF IInv, CreateTemp

(* Write and Sync touch the temporary file of their own call only.         *)
LEMMA WriteStep ==
  ASSUME IInv, NEW w \in Writers, Write(w)
  PROVE  IInv'
<1>1. name[w] \in Names /\ job[w].data \in Contents
  BY DEF IInv, TypeOK, OwnTemps, Job, Write, At
<1>2. TypeOK'
  BY <1>1, Inodes DEF IInv, TypeOK, Write, GoTo, Steps
<1>3. tmp'[name[w]].data = job[w].data
  BY <1>1 DEF IInv, TypeOK, Inode, Write
<1>4. \A v \in Writers : v # w /\ name[v] \in Names => tmp'[name[v]] = tmp[name[v]]
  BY <1>1, MarksDiffer DEF IInv, TypeOK, OwnTemps, Write
<1>5. OwnTemps'
  <2>1. /\ name' = name /\ job' = job /\ failed' = failed
        /\ pc'[w] = "sync" /\ pc[w] = "write"
    BY DEF IInv, TypeOK, Write, At, GoTo
  <2>2. \A v \in Writers : v # w => pc'[v] = pc[v]
    BY DEF IInv, TypeOK, Write, GoTo
  <2>3. QED
    <3>1. \A v \in Writers : pc'[v] \in Steps => ~failed'[v]
      BY <2>1, <2>2 DEF IInv, OwnTemps, Steps
    <3>2. \A v \in Writers :
            /\ pc'[v] \in {"idle", "mkdir", "create"} => name[v] = NoName
            /\ pc'[v] \in {"chmod", "write", "sync", "close", "rename"} => name[v] \in Names
            /\ pc'[v] \in {"sync", "close", "rename"} => tmp'[name[v]].data = job[v].data
            /\ pc'[v] \in {"close", "rename"} => tmp'[name[v]].synced
      BY <1>1, <1>3, <1>4, <2>1, <2>2 DEF IInv, OwnTemps
    <3>3. QED
      BY <2>1, <3>1, <3>2 DEF IInv, OwnTemps
<1>6. QED
  BY <1>2, <1>5 DEF IInv, Write

LEMMA SyncStep ==
  ASSUME IInv, NEW w \in Writers, Sync(w)
  PROVE  IInv'
<1>1. name[w] \in Names /\ tmp[name[w]].data = job[w].data
  BY DEF IInv, OwnTemps, Sync, At
<1>2. TypeOK'
  BY <1>1, Inodes DEF IInv, TypeOK, Sync, GoTo, Steps
<1>3. tmp'[name[w]].data = job[w].data /\ tmp'[name[w]].synced
  BY <1>1 DEF IInv, TypeOK, Inode, Sync
<1>4. \A v \in Writers : v # w /\ name[v] \in Names => tmp'[name[v]] = tmp[name[v]]
  BY <1>1, MarksDiffer DEF IInv, TypeOK, OwnTemps, Sync
<1>5. OwnTemps'
  BY <1>1, <1>2, <1>3, <1>4 DEF IInv, TypeOK, OwnTemps, Sync, At, GoTo, Steps
<1>6. QED
  BY <1>2, <1>5 DEF IInv, Sync

(* Only a complete and synced inode is renamed over the path.              *)
LEMMA RenameStep ==
  ASSUME IInv, NEW w \in Writers, Rename(w)
  PROVE  IInv'
<1>1. /\ name[w] \in Names
      /\ tmp[name[w]].data = job[w].data
      /\ tmp[name[w]].synced
  BY DEF IInv, OwnTemps, Rename, At
<1>2. tmp[name[w]] \in Sound /\ job[w].path \in Files
  BY <1>1 DEF IInv, TypeOK, Inode, Sound, Job
<1>3. TypeOK'
  BY <1>1, <1>2, Inodes DEF IInv, TypeOK, Rename, GoTo, Steps
<1>4. \A v \in Writers : v # w /\ name[v] \in Names => tmp'[name[v]] = tmp[name[v]]
  BY <1>1, MarksDiffer DEF IInv, TypeOK, OwnTemps, Rename
<1>5. OwnTemps'
  BY <1>1, <1>3, <1>4 DEF IInv, TypeOK, OwnTemps, Rename, At, GoTo, Steps
<1>6. \A f \in Files : file'[f] \in Sound /\ durable'[f] \in Sound
  BY <1>2 DEF IInv, TypeOK, Rename
<1>7. QED
  BY <1>3, <1>5, <1>6 DEF IInv

(* The deferred Remove takes nobody else's temporary file away.            *)
LEMMA ReturnStep ==
  ASSUME IInv, NEW w \in Writers, Return(w)
  PROVE  IInv'
<1>1. TypeOK'
  BY Inodes DEF IInv, TypeOK, Return, GoTo, Steps
<1>2. \A v \in Writers : v # w /\ name[v] \in Names => tmp'[name[v]] = tmp[name[v]]
  BY MarksDiffer DEF IInv, TypeOK, OwnTemps, Return
<1>3. OwnTemps'
  BY <1>1, <1>2, MarksDiffer DEF IInv, TypeOK, OwnTemps, Return, At, GoTo, Steps
<1>4. QED
  BY <1>1, <1>3 DEF IInv, Return

(* The operating system: a kill drops the calls, a loss of power also what *)
(* was not synced, which no path names.                                    *)
LEMMA SystemStep ==
  ASSUME IInv, (\E f \in Files : Flush(f)) \/ Kill \/ PowerLoss
  PROVE  IInv'
<1>1. ASSUME NEW f \in Files, Flush(f) PROVE IInv'
  BY <1>1, Inodes DEF IInv, TypeOK, OwnTemps, Flush
<1>2. CASE Kill
  BY <1>2, MarksDiffer DEF IInv, TypeOK, OwnTemps, Kill, CallsDropped, Steps
<1>3. CASE PowerLoss
  <2>1. \A f \in Files : file'[f] \in Sound /\ durable'[f] \in Sound
    BY <1>3, Inodes DEF IInv, PowerLoss
  <2>2. TypeOK'
    BY <1>3, Inodes DEF IInv, TypeOK, PowerLoss, CallsDropped, Steps
  <2>3. OwnTemps'
    BY <1>3, MarksDiffer DEF OwnTemps, PowerLoss, CallsDropped, Steps
  <2>4. QED
    BY <2>1, <2>2, <2>3 DEF IInv
<1>4. QED
  BY <1>1, <1>2, <1>3

LEMMA NextIInv == IInv /\ [Next]_vars => IInv'
<1>1. IInv /\ UNCHANGED vars => IInv'
  BY DEF IInv, TypeOK, OwnTemps, vars
<1>2. QED
  BY <1>1, QuietStep, CallStep, CreateTempStep, WriteStep, SyncStep, RenameStep,
     ReturnStep, SystemStep DEF Next, Step

(* The invariant that the other theorems rest on.                          *)
THEOREM Inductive == Spec => []IInv
  BY InitIInv, NextIInv, PTL DEF Spec

(* Every variable of AtomicWrite keeps to its type under every             *)
(* interleaving of calls, failures, kills and losses of power.             *)
THEOREM TypeCorrect == Spec => []TypeOK
<1>1. IInv => TypeOK
  BY DEF IInv
<1>2. QED
  BY <1>1, Inductive, PTL

(* Whatever calls overlap, fail or die, and wherever the machine stops, no *)
(* reader finds a part of a content at a path: AtomicWrite syncs before it *)
(* renames, and renames nothing but its own temporary file.                *)
THEOREM Untorn == Spec => []NeverTorn
<1>1. IInv => NeverTorn
  BY MarksDiffer DEF IInv, NeverTorn, Sound
<1>2. QED
  BY <1>1, Inductive, PTL

(* A temporary file outlives its call for two reasons only.                *)
LEMMA TempsStep ==
  ASSUME IInv, [Next]_vars, NEW n \in Names, ~Orphan(n), Orphan(n)'
  PROVE  Kill \/ PowerLoss \/ \E w \in Writers : RemoveFails(w)
<1>1. tmp'[n] # NoInode /\ \A v \in Writers : name'[v] # n
  BY DEF Orphan
<1>2. tmp[n] = NoInode \/ \E v \in Writers : name[v] = n
  BY DEF Orphan
<1>3. /\ tmp \in [Names -> Inode] /\ name \in [Writers -> Names \cup {NoName}]
      /\ \A w \in Writers : pc[w] \in {"write", "sync", "rename"} => name[w] \in Names
  BY DEF IInv, TypeOK, OwnTemps
<1>4. ASSUME NEW w \in Writers, Call(w)
      PROVE  FALSE
  <2>1. name[w] # n
    BY <1>4, MarksDiffer DEF IInv, OwnTemps, Call, At
  <2> QED BY <1>1, <1>2, <1>3, <1>4, <2>1 DEF Call
<1>5. ASSUME NEW w \in Writers, MkdirAll(w) \/ Chmod(w) \/ Close(w) \/ FailedCall(w)
      PROVE  FALSE
  BY <1>1, <1>2, <1>5 DEF MkdirAll, Chmod, Close, FailedCall
<1>6. ASSUME NEW w \in Writers, CreateTemp(w)
      PROVE  FALSE
  <2>1. PICK m \in Names :
          /\ tmp' = [tmp EXCEPT ![m] = [data |-> Torn, synced |-> FALSE]]
          /\ name' = [name EXCEPT ![w] = m]
    BY <1>6 DEF CreateTemp
  <2>2. name[w] # n
    BY <1>6, MarksDiffer DEF IInv, OwnTemps, CreateTemp, At
  <2>3. n # m
    BY <1>1, <1>3, <2>1
  <2> QED BY <1>1, <1>2, <1>3, <2>1, <2>2, <2>3
<1>7. ASSUME NEW w \in Writers, Write(w) \/ Sync(w) \/ Rename(w)
      PROVE  FALSE
  <2>1. name' = name /\ name[w] \in Names
    BY <1>3, <1>7 DEF Write, Sync, Rename, At
  <2>2. tmp[n] = NoInode /\ n # name[w]
    BY <1>1, <1>2, <2>1
  <2>3. tmp'[n] = tmp[n]
    BY <1>3, <1>7, <2>2 DEF Write, Sync, Rename
  <2> QED BY <1>1, <2>2, <2>3
<1>8. ASSUME NEW w \in Writers, Return(w)
      PROVE  RemoveFails(w)
  <2>1. CASE tmp' = [x \in Names |-> IF x = name[w] THEN NoInode ELSE tmp[x]]
    <3>1. n # name[w] /\ tmp[n] # NoInode
      BY <1>1, <2>1
    <3> QED BY <1>1, <1>2, <1>3, <1>8, <3>1 DEF Return
  <2>2. CASE UNCHANGED tmp
    BY <1>8, <2>2 DEF RemoveFails
  <2> QED BY <1>8, <2>1, <2>2 DEF Return
<1>9. ASSUME (\E f \in Files : Flush(f)) \/ UNCHANGED vars
      PROVE  FALSE
  BY <1>1, <1>2, <1>9 DEF Flush, vars
<1> QED BY <1>4, <1>5, <1>6, <1>7, <1>8, <1>9 DEF Next, Step

(* AtomicWrite itself leaves no temporary file on any of its paths.        *)
THEOREM TempsRemoved == Spec => LeavesNoTemps
<1>1. IInv /\ [Next]_vars =>
        [\A n \in Names : ~Orphan(n) /\ Orphan(n)' =>
           Kill \/ PowerLoss \/ \E w \in Writers : RemoveFails(w)]_vars
  BY TempsStep
<1> QED BY <1>1, Inductive, PTL DEF Spec, LeavesNoTemps

-----------------------------------------------------------------------------
(* The implementation of AtomicFile.                                       *)

LEMMA AbsInit == Init => Abs!Init
<1> SUFFICES ASSUME Init PROVE Abs!Init
  OBVIOUS
<1>1. \A f \in Files : file[f].data \in Contents \cup {Absent} /\ durable[f] = file[f]
  BY DEF Init, Sound
<1>2. \A w \in Writers : pc[w] = "idle"
  BY DEF Init
<1>3. job \in [Writers -> Abs!Job]
  BY DEF Init, Job, Abs!Job
<1>4. QED
  BY <1>1, <1>2, <1>3 DEF Abs!Init

(* Every step before the rename, but the failure of one, is invisible.     *)
LEMMA AbsQuiet ==
  ASSUME IInv, NEW w \in Writers,
         MkdirAll(w) \/ CreateTemp(w) \/ Chmod(w) \/ Write(w) \/ Sync(w) \/ Close(w)
  PROVE  UNCHANGED Abs!vars
  BY DEF IInv, TypeOK, MkdirAll, CreateTemp, Chmod, Write, Sync, Close, At, GoTo, Abs!vars

LEMMA AbsCall ==
  ASSUME IInv, NEW w \in Writers, Call(w)
  PROVE  Abs!Begin(w)
  BY DEF IInv, TypeOK, Call, At, GoTo, Job, Abs!Begin, Abs!Job

LEMMA AbsFailed ==
  ASSUME IInv, NEW w \in Writers, FailedCall(w)
  PROVE  Abs!Fail(w)
  BY DEF IInv, TypeOK, FailedCall, GoTo, Steps, Abs!Fail

(* The rename is the step that replaces the content.                       *)
LEMMA AbsRename ==
  ASSUME IInv, NEW w \in Writers, Rename(w)
  PROVE  Abs!Commit(w)
  BY DEF IInv, TypeOK, OwnTemps, Rename, At, GoTo, Steps, Abs!Commit

LEMMA AbsReturn ==
  ASSUME IInv, NEW w \in Writers, Return(w)
  PROVE  Abs!Return(w)
  BY DEF IInv, TypeOK, Return, At, GoTo, Abs!Return

LEMMA AbsSystem ==
  ASSUME IInv, (\E f \in Files : Flush(f)) \/ Kill \/ PowerLoss
  PROVE  (\E f \in Files : Abs!Flush(f)) \/ Abs!Kill \/ Abs!PowerLoss
<1>1. ASSUME NEW f \in Files, Flush(f) PROVE Abs!Flush(f)
  BY <1>1 DEF IInv, TypeOK, Flush, Abs!Flush
<1>2. CASE Kill
  BY <1>2 DEF Kill, CallsDropped, Abs!Kill
<1>3. CASE PowerLoss
  <2>1. PICK kept \in SUBSET Files :
          \A f \in Files :
            file'[f] \in AfterStop(IF f \in kept THEN file[f] ELSE durable[f])
    BY <1>3 DEF PowerLoss
  <2>2. \A f \in Files : file'[f] = IF f \in kept THEN file[f] ELSE durable[f]
    BY <2>1, Inodes DEF IInv
  <2>3. QED
    BY <1>3, <2>2 DEF PowerLoss, CallsDropped, Abs!PowerLoss
<1>4. QED
  BY <1>1, <1>2, <1>3

(* AtomicWrite implements AtomicFile: with the temporary files hidden, a   *)
(* call replaces one file in one step or fails and leaves it alone, and a  *)
(* loss of power takes a path back to a complete version at most.          *)
THEOREM Implements == Spec => Atomic
<1>1. IInv /\ [Next]_vars => [Abs!Next]_(Abs!vars)
  BY AbsQuiet, AbsCall, AbsFailed, AbsRename, AbsReturn, AbsSystem
     DEF Next, Step, Abs!Next, vars, Abs!vars
<1>2. QED
  BY AbsInit, <1>1, Inductive, PTL DEF Spec, Atomic, Abs!Spec

-----------------------------------------------------------------------------
(* How far a call of AtomicWrite is from its return.                       *)

Left(w) ==
  CASE pc[w] = "mkdir"  -> 8
    [] pc[w] = "create" -> 7
    [] pc[w] = "chmod"  -> 6
    [] pc[w] = "write"  -> 5
    [] pc[w] = "sync"   -> 4
    [] pc[w] = "close"  -> 3
    [] pc[w] = "rename" -> 2
    [] pc[w] = "return" -> 1
    [] OTHER            -> 0

\* A call in flight: each of its own steps brings its return nearer, and the
\* steps of the others leave its place, its arguments and its name alone, or
\* end it with the process.
CallsAdvance ==
  [][\A w \in Writers : pc[w] # "idle" =>
       IF Step(w) THEN Left(w)' < Left(w)
       ELSE pc'[w] = "idle" \/ UNCHANGED <<pc[w], job[w], name[w]>>]_vars

LEMMA StepLowers ==
  ASSUME TypeOK, NEW w \in Writers, Step(w)
  PROVE  Left(w)' < Left(w)
<1>1. \/ pc[w] \in Steps /\ pc'[w] = "return"
      \/ pc[w] = "mkdir" /\ pc'[w] = "create"
      \/ pc[w] = "create" /\ pc'[w] = "chmod"
      \/ pc[w] = "chmod" /\ pc'[w] = "write"
      \/ pc[w] = "write" /\ pc'[w] = "sync"
      \/ pc[w] = "sync" /\ pc'[w] = "close"
      \/ pc[w] = "close" /\ pc'[w] = "rename"
      \/ pc[w] = "rename" /\ pc'[w] = "return"
      \/ pc[w] = "return" /\ pc'[w] = "idle"
  BY DEF TypeOK, Steps, Step, GoTo, At, MkdirAll, CreateTemp, Chmod, Write, Sync, Close,
         Rename, FailedCall, Return
<1> QED
  BY <1>1 DEF Left, Steps

LEMMA OthersKeepOut ==
  ASSUME TypeOK, Next, NEW w \in Writers, pc[w] # "idle", ~Step(w)
  PROVE  pc'[w] = "idle" \/ UNCHANGED <<pc[w], job[w], name[w]>>
<1> USE DEF TypeOK, GoTo, At
<1>1. ASSUME NEW v \in Writers, Call(v)
      PROVE  UNCHANGED <<pc[w], job[w], name[w]>>
  BY <1>1 DEF Call
<1>2. ASSUME NEW v \in Writers \ {w}, Step(v)
      PROVE  UNCHANGED <<pc[w], job[w], name[w]>>
  BY <1>2 DEF Step, MkdirAll, CreateTemp, Chmod, Write, Sync, Close, Rename, FailedCall, Return
<1>3. Kill \/ PowerLoss => pc'[w] = "idle"
  BY DEF Kill, PowerLoss, CallsDropped
<1>4. ASSUME NEW f \in Files, Flush(f)
      PROVE  UNCHANGED <<pc[w], job[w], name[w]>>
  BY <1>4 DEF Flush
<1> QED
  BY <1>1, <1>2, <1>3, <1>4 DEF Next

(* AtomicWrite neither loops nor is restarted, and no other call reaches   *)
(* into it: the safety behind EveryCallReturns, which needs nothing more   *)
(* than that system calls return.                                          *)
THEOREM CallsOnlyAdvance == Spec => CallsAdvance
<1> DEFINE Advances(w) ==
      pc[w] # "idle" =>
        IF Step(w) THEN Left(w)' < Left(w)
        ELSE pc'[w] = "idle" \/ UNCHANGED <<pc[w], job[w], name[w]>>
<1>1. ASSUME TypeOK, Next, NEW w \in Writers
      PROVE  Advances(w)
  BY <1>1, StepLowers, OthersKeepOut
<1>2. TypeOK /\ [Next]_vars => [\A w \in Writers : Advances(w)]_vars
  BY <1>1
<1> QED
  BY <1>2, TypeCorrect, PTL DEF Spec, CallsAdvance
=============================================================================
