--------------------------- MODULE MCAuditLedger ---------------------------
(* Instances of AuditLedger for TLC. *)
EXTENDS AuditLedger, TLC

Threads == Permutations(Txns)
=============================================================================
