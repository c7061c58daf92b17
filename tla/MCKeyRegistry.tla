---------------------------- MODULE MCKeyRegistry ----------------------------
(***************************************************************************)
(* Small registries.  One text per key is enough to tell keys apart.       *)
(***************************************************************************)
EXTENDS KeyRegistry

CONSTANTS k1, k2, t1, t2

MCFirstKey == [t \in Texts |-> IF t = t2 THEN k2 ELSE k1]

MCKeysIn == [t \in Texts |-> {MCFirstKey[t]}]
=============================================================================
