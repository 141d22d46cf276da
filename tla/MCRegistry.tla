----------------------------- MODULE MCRegistry -----------------------------
(* Instances of Registry for TLC.                                          *)
EXTENDS Registry

CONSTANTS c1, c2, n1, n2

=============================================================================
