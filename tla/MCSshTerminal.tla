--------------------------- MODULE MCSshTerminal ----------------------------
(* Instances of SshTerminal for TLC.                                       *)
EXTENDS SshTerminal, TLC

CONSTANTS q1, q2, r1, r2

=============================================================================
