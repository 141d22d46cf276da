------------------------------ MODULE MCVault -------------------------------
(* Instances of Vault for TLC: who runs which process, per run.            *)
EXTENDS Vault, TLC

CONSTANTS alice, bob, cli, web, t1, t2, s1, s2, v1, v2

\* Alice and Bob each run commands in a process of their own.
TwoUsers == cli :> alice @@ web :> bob
TwoProcesses == t1 :> cli @@ t2 :> web

\* Alice runs commands beside her web UI.
OneUser == cli :> alice @@ web :> alice

\* Two requests handled by one web UI.
OneProcess == t1 :> web @@ t2 :> web

=============================================================================
