------------------------------ MODULE MCStorage ------------------------------
(***************************************************************************)
(* Two goroutines that may write the same path: any interleaving of two    *)
(* calls, and temporary names that killed processes use up.                *)
(***************************************************************************)
EXTENDS Storage, TLC

\* Writers, contents and temporary names are never told apart by an action.
\* Liveness runs do not use it.
Symmetric ==
  Permutations(Writers) \cup Permutations(Contents) \cup Permutations(Names)
=============================================================================
