------------------------------ MODULE Identity ------------------------------
(***************************************************************************)
(* The personal store with what else is encrypted under the master         *)
(* password: the private key in the user's identity file, and his row in   *)
(* a team vault (sinduk/vault.py, get_user_private_key, unlock_vault).     *)
(* The vault itself is module Vault's subject, where every password is     *)
(* right and none changes.                                                 *)
(***************************************************************************)
EXTENDS PersonalStore

VARIABLES
    private,     \* the key that the private key is encrypted with
    wrapped      \* what opens the vault key in the user's row

vars == <<storeVars, private, wrapped>>

\* What no password gives: a private key that is not encrypted, one encrypted
\* after it was decoded wrongly, a vault key wrapped for the public key.
Plain == [NoKey EXCEPT !.salt = 1]
Mangled == [NoKey EXCEPT !.salt = 2]
PublicLock == [NoKey EXCEPT !.salt = 1]

TypeOK ==
    /\ StoreTypeOK
    /\ private \in Key \cup {NoKey, Plain, Mangled}
    /\ wrapped \in Key \cup {NoKey, PublicLock}

Init ==
    /\ StoreInit
    /\ private = NoKey
    /\ wrapped = NoKey

Team(t) == "team" \in env /\ pc[t] = "ready"

\* team init: the first identity.  Its store has not been unlocked, so that
\* the private key is not encrypted yet.
SetIdentity(t) ==
    /\ "team" \in env /\ t \in Command /\ Free(t) /\ private = NoKey
    /\ private' = Plain
    /\ UNCHANGED <<storeVars, wrapped>>

\* create_vault wraps the vault key with the master password.
CreateVault(t) ==
    /\ Team(t) /\ private # NoKey /\ wrapped = NoKey
    /\ wrapped' = Held(t)
    /\ Finish(t)
    /\ UNCHANGED <<env, files, signedIn, known, private>>

\* Another admin adds the user, or removes and adds him again.
Admitted ==
    /\ "team" \in env /\ private # NoKey
    /\ wrapped' = PublicLock
    /\ UNCHANGED <<storeVars, private>>

\* Variant: the key is written again when it did open.
OpenIdentityDecodes(t) ==
    /\ Team(t) /\ wrapped = PublicLock
    /\ private' = IF private = Plain THEN Held(t) ELSE Mangled
    /\ Goto(t, "rewrap")
    /\ UNCHANGED <<fernet, typed, seen, snap>>
    /\ UNCHANGED <<env, files, signedIn, known, wrapped>>

\* unlock_vault of a row wrapped for the public key.  A plain private key is
\* encrypted now.  One that does not open is taken for a plain one: it is
\* decoded, which a Fernet token allows, and encrypted again, before its
\* length is found wrong.
OpenIdentity(t) ==
    /\ Team(t) /\ wrapped = PublicLock
    /\ \/ /\ private \in {Plain, Held(t)}
          /\ private' = Held(t)
          /\ Goto(t, "rewrap")
          /\ UNCHANGED <<fernet, typed, seen, snap>>
       \/ /\ private \notin {Plain, Held(t)}
          /\ private' = Mangled
          /\ Finish(t)
    /\ UNCHANGED <<env, files, signedIn, known, wrapped>>

Rewrap(t) ==
    /\ pc[t] = "rewrap"
    /\ wrapped' = Held(t)
    /\ Finish(t)
    /\ UNCHANGED <<env, files, signedIn, known, private>>

TeamStep(t) == SetIdentity(t) \/ CreateVault(t) \/ OpenIdentity(t) \/ Rewrap(t)

Next ==
    \/ StoreNext /\ UNCHANGED <<private, wrapped>>
    \/ \E t \in Thread : TeamStep(t)
    \/ Admitted

Spec == Init /\ [][Next]_vars

-----------------------------------------------------------------------------
(* Properties.                                                             *)

\* A user who neither changes nor mistypes his password can open his identity
\* and his row in the vault with it, whatever crashes or overlaps.
PasswordOpensTeam ==
    ~SetupRace /\ env \cap {"typo", "passwd"} = {} =>
        LET good == {Derived(p, salt) : p \in known} IN
        private \in good \cup {NoKey, Plain} /\ wrapped \in good \cup {NoKey, PublicLock}

\* Why: nobody is a member without an identity, and without a change of password
\* or a race of setups there is only one password, so one key, at all.
TeamInv ==
    /\ wrapped # NoKey => private # NoKey
    /\ \A t \in Thread : pc[t] = "rewrap" => private # NoKey
    /\ ~SetupRace /\ "passwd" \notin env =>
        /\ \A p, q \in known : p = q
        /\ ~marker => known = {}
    /\ PasswordOpensTeam

\* passwd does not lose secrets (README.md:72): the private key of the
\* identity stays one that some password opens.
IdentityIntact == "typo" \notin env => private # Mangled

=============================================================================
