------------------------------ MODULE TeamVault ------------------------------
(***************************************************************************)
(* What a team vault promises to its members: a map from secret ids to     *)
(* values, and a role per member, changed by one atomic step per command   *)
(* and only by a member whose role permits the command.                    *)
(*                                                                         *)
(* There are no keys here.  Rotating the vault key, unlocking it, caching  *)
(* it and crashing half-way through any of these must all be invisible.    *)
(* Module Vault is shown to implement this one.                            *)
(***************************************************************************)

CONSTANTS User, Founder, SecretId, Value,
          Absent,      \* the content of an id not drawn yet
          Gone         \* the content of an id whose secret was deleted

VARIABLES content, roles

avars == <<content, roles>>

\* VaultRole, and "none" for a user without a row in the members table.
Role == {"viewer", "editor", "admin"}

\* The roles that ROLE_PERMISSIONS allows to change secrets.
Writer == {"editor", "admin"}

AInit ==
    /\ content = [s \in SecretId |-> Absent]
    /\ roles = [u \in User |-> IF u = Founder THEN "admin" ELSE "none"]

\* save_secret draws an id that was never used.
Save(u, s, v) ==
    /\ roles[u] \in Writer
    /\ content[s] = Absent
    /\ content' = [content EXCEPT ![s] = v]
    /\ UNCHANGED roles

Update(u, s, v) ==
    /\ roles[u] \in Writer
    /\ content[s] \in Value
    /\ content' = [content EXCEPT ![s] = v]
    /\ UNCHANGED roles

Delete(u, s) ==
    /\ roles[u] \in Writer
    /\ content[s] \in Value
    /\ content' = [content EXCEPT ![s] = Gone]
    /\ UNCHANGED roles

\* add_member, set_member_role.
Grant(u, w, r) ==
    /\ roles[u] = "admin"
    /\ roles' = [roles EXCEPT ![w] = r]
    /\ UNCHANGED content

\* remove_member: nobody removes himself.
Expel(u, w) ==
    /\ roles[u] = "admin"
    /\ w # u
    /\ roles' = [roles EXCEPT ![w] = "none"]
    /\ UNCHANGED content

ANext ==
    \E u \in User :
        \/ \E s \in SecretId, v \in Value : Save(u, s, v) \/ Update(u, s, v)
        \/ \E s \in SecretId : Delete(u, s)
        \/ \E w \in User, r \in Role : Grant(u, w, r)
        \/ \E w \in User : Expel(u, w)

ASpec == AInit /\ [][ANext]_avars

=============================================================================
