------------------------- MODULE MCForwardingRegistry -------------------------
(***************************************************************************)
(* Two handlers and an operator over two rules: enough for a change to be  *)
(* lost, for a rule to be added twice and for a deleted one to return.     *)
(***************************************************************************)
EXTENDS ForwardingRegistry, TLC

Symmetric == Permutations(Requests) \cup Permutations(Rules)
=============================================================================
