-------------------------- MODULE MCSshdEntrypoint --------------------------
(***************************************************************************)
(* One rule that sshd accepts and one that it does not.                    *)
(***************************************************************************)
EXTENDS SshdEntrypoint
=============================================================================
