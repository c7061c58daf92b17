------------------------------- MODULE MCBastion -------------------------------
(***************************************************************************)
(* One target, two requests to change the file and one edit: enough for a  *)
(* stale save around a raised generation and around a poll.                *)
(***************************************************************************)
EXTENDS Bastion

CONSTANT a

MCWanted ==
  [op : {"mode"}, mode : {"none"}] \cup
  [op : {"add", "disable", "delete"}, rule : {a}]

\* No file yet, or one that allows the target.
MCExisting == {Absent, [mode |-> "custom", targets |-> Added(a, TRUE), gen |-> 0]}
=============================================================================
