------------------------------ MODULE AtomicFile ------------------------------
(***************************************************************************)
(* What storage.Store.AtomicWrite promises its callers, with no temporary  *)
(* file in sight: a call replaces the whole content of one file in a       *)
(* single step, or fails and leaves the file as it was.  Losing the        *)
(* process drops the calls in flight; losing the machine may also take a   *)
(* file back to an older complete version, the one the directory on disk   *)
(* still names.                                                            *)
(*                                                                         *)
(* Storage.tla models the code and implements this specification.          *)
(***************************************************************************)

CONSTANTS
  Writers,    \* the goroutines that call AtomicWrite
  Files,      \* paths under the data directory
  Contents,   \* what may be written
  Absent      \* the file does not exist

VARIABLES
  file,       \* file[f]: what a reader of f sees
  durable,    \* durable[f]: what f holds if the machine stops now
  phase,      \* phase[w]: how far the call of w has come
  job         \* job[w]: the path and the content the call of w was given

vars == <<file, durable, phase, job>>

Job == [path : Files, data : Contents]

Phases == {"idle", "pending", "committed", "failed"}

TypeOK ==
  /\ file \in [Files -> Contents \cup {Absent}]
  /\ durable \in [Files -> Contents \cup {Absent}]
  /\ phase \in [Writers -> Phases]
  /\ job \in [Writers -> Job]

Init ==
  /\ file \in [Files -> Contents \cup {Absent}]
  /\ durable = file
  /\ phase = [w \in Writers |-> "idle"]
  /\ job \in [Writers -> Job]

-----------------------------------------------------------------------------

Begin(w) ==
  /\ phase[w] = "idle"
  /\ \E j \in Job : job' = [job EXCEPT ![w] = j]
  /\ phase' = [phase EXCEPT ![w] = "pending"]
  /\ UNCHANGED <<file, durable>>

\* The one step in which the content changes, and it changes completely.
Commit(w) ==
  /\ phase[w] = "pending"
  /\ file' = [file EXCEPT ![job[w].path] = job[w].data]
  /\ phase' = [phase EXCEPT ![w] = "committed"]
  /\ UNCHANGED <<durable, job>>

Fail(w) ==
  /\ phase[w] = "pending"
  /\ phase' = [phase EXCEPT ![w] = "failed"]
  /\ UNCHANGED <<file, durable, job>>

Return(w) ==
  /\ phase[w] \in {"committed", "failed"}
  /\ phase' = [phase EXCEPT ![w] = "idle"]
  /\ UNCHANGED <<file, durable, job>>

\* The kernel writes the directory back at a moment of its own choice.
Flush(f) ==
  /\ durable' = [durable EXCEPT ![f] = file[f]]
  /\ UNCHANGED <<file, phase, job>>

Kill ==
  /\ phase' = [w \in Writers |-> "idle"]
  /\ UNCHANGED <<file, durable, job>>

PowerLoss ==
  /\ phase' = [w \in Writers |-> "idle"]
  /\ \E kept \in SUBSET Files :
       file' = [f \in Files |-> IF f \in kept THEN file[f] ELSE durable[f]]
  /\ durable' = file'
  /\ UNCHANGED job

Next ==
  \/ \E w \in Writers : Begin(w) \/ Commit(w) \/ Fail(w) \/ Return(w)
  \/ \E f \in Files : Flush(f)
  \/ Kill
  \/ PowerLoss

Spec == Init /\ [][Next]_vars
=============================================================================
