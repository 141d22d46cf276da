------------------------------- MODULE MCSync -------------------------------
(* Instances of Sync for TLC.                                              *)
EXTENDS Sync, TLC

CONSTANTS c1, c2, h1, h2, i1, i2, t1, t2

\* Server threads, and clients, are interchangeable.
Symmetry == Permutations(Handler) \cup Permutations(Client)

=============================================================================
