----------------------------- MODULE MCIdentity -----------------------------
(* Instances of Identity for TLC.                                          *)
EXTENDS Identity, TLC

CONSTANTS c1, c2, i1, i2, p1, p2, v1, v2, w1, w2

Symmetry == Permutations(Command) \cup Permutations(WebThread)
            \cup Permutations(Password) \cup Permutations(Value) \cup Permutations(Id)

=============================================================================
