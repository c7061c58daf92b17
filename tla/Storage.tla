------------------------------- MODULE Storage -------------------------------
(***************************************************************************)
(* storage.Store.AtomicWrite, system call by system call: the goroutines   *)
(* of the server write small files of the data directory through           *)
(* temporary files that they rename into place, with no lock.  Any system  *)
(* call may fail, the process may die between two of them, and the machine *)
(* may stop, which loses whatever had not reached the disk.                *)
(*                                                                         *)
(* A file is an inode: what was written to it and whether fsync returned.  *)
(* A path is an entry that names an inode; durable[f] is the entry the     *)
(* directory on disk has, which AtomicWrite never syncs.                   *)
(***************************************************************************)
EXTENDS FiniteSets

CONSTANTS
  Writers,    \* goroutines
  Files,      \* paths that are written
  Contents,   \* complete contents
  Names,      \* names os.CreateTemp may pick in the directory
  Absent,     \* nothing there
  Torn,       \* an empty or a partial content
  NoName      \* no temporary file yet

ASSUME MarksDiffer ==
  /\ Absent \notin Contents
  /\ Torn \notin Contents \cup {Absent}
  /\ NoName \notin Names

VARIABLES
  file,       \* file[f]: the inode the path f names
  durable,    \* durable[f]: the inode f names in the directory on disk
  tmp,        \* tmp[n]: the inode of the temporary name n
  pc,         \* pc[w]: the system call w makes next
  job,        \* job[w]: the arguments of the call of w
  name,       \* name[w]: its temporary file
  failed      \* failed[w]: it is returning an error

vars == <<file, durable, tmp, pc, job, name, failed>>

Job == [path : Files, data : Contents]

Inode == [data : Contents \cup {Absent, Torn}, synced : BOOLEAN]

\* An inode that no loss of power can spoil.
Sound == [data : Contents \cup {Absent}, synced : {TRUE}]

NoInode == [data |-> Absent, synced |-> TRUE]

\* The calls that may fail, in their order.
Steps == {"mkdir", "create", "chmod", "write", "sync", "close", "rename"}

TypeOK ==
  /\ file \in [Files -> Inode]
  /\ durable \in [Files -> Inode]
  /\ tmp \in [Names -> Inode]
  /\ pc \in [Writers -> Steps \cup {"idle", "return"}]
  /\ job \in [Writers -> Job]
  /\ name \in [Writers -> Names \cup {NoName}]
  /\ failed \in [Writers -> BOOLEAN]

Init ==
  /\ file \in [Files -> Sound]
  /\ durable = file
  /\ tmp = [n \in Names |-> NoInode]
  /\ pc = [w \in Writers |-> "idle"]
  /\ job \in [Writers -> Job]
  /\ name = [w \in Writers |-> NoName]
  /\ failed = [w \in Writers |-> FALSE]

-----------------------------------------------------------------------------
(* One call of AtomicWrite.                                                *)

At(w, step) == pc[w] = step

GoTo(w, step) == pc' = [pc EXCEPT ![w] = step]

Call(w) ==
  /\ At(w, "idle")
  /\ \E j \in Job : job' = [job EXCEPT ![w] = j]
  /\ name' = [name EXCEPT ![w] = NoName]
  /\ failed' = [failed EXCEPT ![w] = FALSE]
  /\ GoTo(w, "mkdir")
  /\ UNCHANGED <<file, durable, tmp>>

MkdirAll(w) ==
  /\ At(w, "mkdir")
  /\ GoTo(w, "create")
  /\ UNCHANGED <<file, durable, tmp, job, name, failed>>

CreateTempShared(w) ==                  \* mutant: one fixed temporary name
  /\ At(w, "create")
  /\ \E n \in Names :
       /\ tmp' = [tmp EXCEPT ![n] = [data |-> Torn, synced |-> FALSE]]
       /\ name' = [name EXCEPT ![w] = n]
  /\ GoTo(w, "chmod")
  /\ UNCHANGED <<file, durable, job, failed>>

\* O_EXCL: the name is free.  The random part of the name keeps two calls in
\* flight apart even where the first has already renamed its file away.
CreateTemp(w) ==
  /\ At(w, "create")
  /\ \E n \in Names :
       /\ tmp[n] = NoInode
       /\ \A v \in Writers : name[v] # n
       /\ tmp' = [tmp EXCEPT ![n] = [data |-> Torn, synced |-> FALSE]]
       /\ name' = [name EXCEPT ![w] = n]
  /\ GoTo(w, "chmod")
  /\ UNCHANGED <<file, durable, job, failed>>

Chmod(w) ==
  /\ At(w, "chmod")
  /\ GoTo(w, "write")
  /\ UNCHANGED <<file, durable, tmp, job, name, failed>>

Write(w) ==
  /\ At(w, "write")
  /\ tmp' = [tmp EXCEPT ![name[w]].data = job[w].data]
  /\ GoTo(w, "sync")
  /\ UNCHANGED <<file, durable, job, name, failed>>

SyncSkipped(w) ==                       \* mutant: no fsync before the rename
  /\ At(w, "sync")
  /\ GoTo(w, "close")
  /\ UNCHANGED <<file, durable, tmp, job, name, failed>>

Sync(w) ==
  /\ At(w, "sync")
  /\ tmp' = [tmp EXCEPT ![name[w]].synced = TRUE]
  /\ GoTo(w, "close")
  /\ UNCHANGED <<file, durable, job, name, failed>>

Close(w) ==
  /\ At(w, "close")
  /\ GoTo(w, "rename")
  /\ UNCHANGED <<file, durable, tmp, job, name, failed>>

Rename(w) ==
  /\ At(w, "rename")
  /\ file' = [file EXCEPT ![job[w].path] = tmp[name[w]]]
  /\ tmp' = [tmp EXCEPT ![name[w]] = NoInode]
  /\ GoTo(w, "return")
  /\ UNCHANGED <<durable, job, name, failed>>

FailedCallIgnored(w) ==                 \* mutant: an error of Write is dropped
  /\ pc[w] \in Steps
  /\ failed' = [failed EXCEPT ![w] = ~At(w, "write")]
  /\ GoTo(w, IF At(w, "write") THEN "sync" ELSE "return")
  /\ UNCHANGED <<file, durable, tmp, job, name>>

FailedCallRetried(w) ==                 \* mutant: an error starts over, for ever
  /\ pc[w] \in Steps
  /\ GoTo(w, "mkdir")
  /\ name' = [name EXCEPT ![w] = NoName]
  /\ tmp' = [n \in Names |-> IF n = name[w] THEN NoInode ELSE tmp[n]]
  /\ UNCHANGED <<file, durable, job, failed>>

FailedCallEarly(w) ==                   \* mutant: the Remove is deferred after Chmod
  /\ pc[w] \in Steps
  /\ failed' = [failed EXCEPT ![w] = TRUE]
  /\ GoTo(w, IF At(w, "chmod") THEN "idle" ELSE "return")
  /\ name' = [name EXCEPT ![w] = IF At(w, "chmod") THEN NoName ELSE @]
  /\ UNCHANGED <<file, durable, tmp, job>>

\* An early return: the system call at hand failed and changed nothing, or it
\* wrote a part of the content, which leaves it torn.
FailedCall(w) ==
  /\ pc[w] \in Steps
  /\ failed' = [failed EXCEPT ![w] = TRUE]
  /\ GoTo(w, "return")
  /\ UNCHANGED <<file, durable, tmp, job, name>>

\* The deferred os.Remove, once the temporary file exists; its own error is
\* ignored, and after a rename it finds nothing to remove.
Return(w) ==
  /\ At(w, "return")
  /\ \/ tmp' = [n \in Names |-> IF n = name[w] THEN NoInode ELSE tmp[n]]
     \/ UNCHANGED tmp
  /\ name' = [name EXCEPT ![w] = NoName]
  /\ GoTo(w, "idle")
  /\ UNCHANGED <<file, durable, job, failed>>

-----------------------------------------------------------------------------
(* The operating system.                                                   *)

\* The entry of f reaches the disk.
Flush(f) ==
  /\ durable' = [durable EXCEPT ![f] = file[f]]
  /\ UNCHANGED <<file, tmp, pc, job, name, failed>>

CallsDropped ==
  /\ pc' = [w \in Writers |-> "idle"]
  /\ name' = [w \in Writers |-> NoName]
  /\ UNCHANGED <<job, failed>>

\* The process dies and is started again.  Nothing removes the temporary
\* files that it leaves.
Kill ==
  /\ CallsDropped
  /\ UNCHANGED <<file, durable, tmp>>

\* What may be left of an inode when the machine stops.
AfterStop(inode) ==
  {inode} \cup (IF inode.synced THEN {} ELSE {[data |-> Torn, synced |-> TRUE]})

PowerLoss ==
  /\ CallsDropped
  /\ \E kept \in SUBSET Files :
       /\ file' \in [Files -> Inode]
       /\ \A f \in Files :
            file'[f] \in AfterStop(IF f \in kept THEN file[f] ELSE durable[f])
  /\ durable' = file'
  /\ \E kept \in SUBSET Names :
       tmp' = [n \in Names |-> IF n \in kept THEN tmp[n] ELSE NoInode]

-----------------------------------------------------------------------------

Step(w) ==
  \/ MkdirAll(w) \/ CreateTemp(w) \/ Chmod(w) \/ Write(w) \/ Sync(w)
  \/ Close(w) \/ Rename(w) \/ FailedCall(w) \/ Return(w)

Next ==
  \/ \E w \in Writers : Call(w) \/ Step(w)
  \/ \E f \in Files : Flush(f)
  \/ Kill
  \/ PowerLoss

Spec == Init /\ [][Next]_vars

\* A system call returns, with or without an error.
FairSpec == Spec /\ \A w \in Writers : WF_vars(Step(w))

-----------------------------------------------------------------------------
(* Properties.                                                             *)

\* No reader of a path ever finds a part of a content there, whatever calls
\* overlap, fail or die, and wherever the machine stops: the order of Write,
\* Sync and Rename in AtomicWrite.
NeverTorn == \A f \in Files : file[f].data # Torn

\* The one way of a call itself to leave its temporary file behind.
RemoveFails(w) == Return(w) /\ UNCHANGED tmp

Orphan(n) == tmp[n] # NoInode /\ \A w \in Writers : name[w] # n

\* Nothing ever removes a temporary file that its call has left.  So none is
\* left on any path through AtomicWrite, however its calls fail: it takes the
\* end of the process, or os.Remove itself to fail.
LeavesNoTemps ==
  [][\A n \in Names : ~Orphan(n) /\ Orphan(n)' =>
       Kill \/ PowerLoss \/ \E w \in Writers : RemoveFails(w)]_vars

\* Two calls never work on one temporary file, and the one a call holds has
\* what the calls made so far put there, with no error among them: what the
\* rename relies on.
OwnTemps ==
  /\ \A v, w \in Writers : name[v] = name[w] => v = w \/ name[v] = NoName
  /\ \A w \in Writers :
       /\ pc[w] \in {"idle", "mkdir", "create"} => name[w] = NoName
       /\ pc[w] \in {"chmod", "write", "sync", "close", "rename"} => name[w] \in Names
       /\ pc[w] \in {"sync", "close", "rename"} => tmp[name[w]].data = job[w].data
       /\ pc[w] \in {"close", "rename"} => tmp[name[w]].synced
       /\ pc[w] \in Steps => ~failed[w]

\* The inductive invariant behind NeverTorn.
IInv ==
  /\ TypeOK
  /\ OwnTemps
  /\ \A f \in Files : file[f] \in Sound /\ durable[f] \in Sound

\* A call that was made returns, whatever fails on the way.
EveryCallReturns == \A w \in Writers : pc[w] # "idle" ~> pc[w] = "idle"

\* AtomicWrite keeps the promise its name makes: Storage implements
\* AtomicFile when the inodes and the temporary files are hidden.
Abs == INSTANCE AtomicFile WITH
  file    <- [f \in Files |-> file[f].data],
  durable <- [f \in Files |-> durable[f].data],
  phase   <- [w \in Writers |->
                IF pc[w] = "idle" THEN "idle"
                ELSE IF pc[w] # "return" THEN "pending"
                ELSE IF failed[w] THEN "failed" ELSE "committed"]

Atomic == Abs!Spec
=============================================================================
