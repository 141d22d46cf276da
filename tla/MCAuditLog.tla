----------------------------- MODULE MCAuditLog -----------------------------
(* Instances of AuditLog for TLC.                                          *)
EXTENDS AuditLog

CONSTANTS a1, a2

=============================================================================
