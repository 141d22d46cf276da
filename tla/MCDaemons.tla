----------------------------- MODULE MCDaemons ------------------------------
(* Instances of Daemons for TLC.                                           *)
EXTENDS Daemons

CONSTANTS c1, c2, d1, d2, d3

=============================================================================
