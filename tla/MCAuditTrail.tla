----------------------------- MODULE MCAuditTrail -----------------------------
(* TLC instances of AuditTrail.                                             *)
EXTENDS AuditTrail, TLC
=============================================================================
