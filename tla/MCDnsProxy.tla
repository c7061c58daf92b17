------------------------------ MODULE MCDnsProxy ------------------------------
(***************************************************************************)
(* Two admin requests and a query over two names: either may be an alias   *)
(* of the other or of itself, so that aliases chain and cross.             *)
(***************************************************************************)
EXTENDS DnsProxy, TLC

Symmetric == Permutations(Requests) \cup Permutations(Names)
=============================================================================
