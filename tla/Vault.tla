------------------------------- MODULE Vault --------------------------------
(***************************************************************************)
(* One team vault (sinduk/vault.py): its database vault.db, shared by the  *)
(* members, and the processes that run VaultManager operations on it.      *)
(*                                                                         *)
(* A step is one transaction on vault.db or one access to the cache of     *)
(* unlocked keys that a VaultManager keeps in memory.  Between two steps   *)
(* of an operation any other thread may run, or the process may die.       *)
(*                                                                         *)
(* Keys are numbered in the order rotations commit; the newest is keyCount.*)
(* A key k in a row or a secret stands for a ciphertext under k.  Audit    *)
(* rows are left out: they follow the commit, their failure is swallowed   *)
(* (_log_audit) and no operation reads them.                               *)
(***************************************************************************)
EXTENDS Naturals

CONSTANTS
    User,          \* team members, present and future
    Founder,       \* the user who created the vault
    Manager,       \* VaultManager instances, one per process
    UserOf,        \* the user whose identity file a manager reads
    Thread,        \* threads that run one operation at a time
    ManagerOf,     \* the manager a thread uses (web requests share one)
    LongLived,     \* managers that outlive an operation (the web UI)
    Exclusive,     \* TRUE: an operation starts only when no other runs
    KeylessAdds,   \* TRUE: add_member may be called without a public key
    SecretId, Value,
    Absent,        \* the value of an id that was never drawn
    Gone,          \* the value of an id whose secret was deleted
    MaxKey,        \* bound on the vault keys generated
    MaxGen         \* bound on the keypairs generated per user

ASSUME VaultAssumption ==
    /\ Founder \in User
    /\ UserOf \in [Manager -> User]
    /\ ManagerOf \in [Thread -> Manager]
    /\ LongLived \subseteq Manager
    /\ Exclusive \in BOOLEAN /\ KeylessAdds \in BOOLEAN
    /\ Absent \notin Value /\ Gone \notin Value /\ Absent # Gone
    /\ MaxKey \in Nat \ {0} /\ MaxGen \in Nat \ {0}

VARIABLES
    members,    \* the members table
    secrets,    \* the secrets table
    keypair,    \* the generation of each user's X25519 keypair
    keyCount,   \* vault keys generated and committed so far
    cache,      \* _vault_fernets of each manager: a key, or 0 for none
    op,         \* the operation each thread runs
    pc,         \* its next step
    key,        \* the vault key it holds in a local variable
    snap        \* the secrets a rotation has read

vars == <<members, secrets, keypair, keyCount, cache, op, pc, key, snap>>

-----------------------------------------------------------------------------

Role == {"viewer", "editor", "admin"}

Op == {"get_secret", "create_secret", "update_secret", "delete_secret",
       "add_member", "remove_member", "set_role", "rotate_key"}

\* ROLE_PERMISSIONS.
Permits(role, o) ==
    \/ role = "admin"
    \/ role = "editor" /\ o \in {"get_secret", "create_secret",
                                 "update_secret", "delete_secret"}
    \/ role = "viewer" /\ o = "get_secret"

\* Operations that call unlock_vault after the permission check.
NeedsKey == {"get_secret", "create_secret", "update_secret",
             "add_member", "rotate_key"}

\* What wraps a vault key: a user's master key, or his public key.
Master(u) == [kind |-> "master", user |-> u, gen |-> 0]
X25519(u, g) == [kind |-> "x25519", user |-> u, gen |-> g]
Lock == [kind : {"master", "x25519"}, user : User, gen : 0..MaxGen]

\* A row of members: role, wrapped_key (a key and its lock), public_key (the
\* generation recorded, 0 for none).
Row == [role : Role \cup {"none"}, key : 0..MaxKey, lock : Lock, pub : 0..MaxGen]
NoRow == [role |-> "none", key |-> 0, lock |-> Master(Founder), pub |-> 0]

Member(u) == members[u].role # "none"

\* u's master password or current private key opens u's own row.
Opens(u) ==
    /\ Member(u)
    /\ members[u].lock \in {Master(u), X25519(u, keypair[u])}

Cell == [val : Value \cup {Absent, Gone}, key : 0..MaxKey]
Live(s) == secrets[s].val \in Value
NoCells == [s \in SecretId |-> [val |-> Absent, key |-> 0]]

Self(t) == UserOf[ManagerOf[t]]
Cached(t) == cache[ManagerOf[t]]

Phase == {"idle", "check", "unlock", "rewrap", "cache", "work", "commit",
          "publish"}

TypeOK ==
    /\ members \in [User -> Row]
    /\ secrets \in [SecretId -> Cell]
    /\ keypair \in [User -> 1..MaxGen]
    /\ keyCount \in 1..MaxKey
    /\ cache \in [Manager -> 0..MaxKey]
    /\ op \in [Thread -> Op]
    /\ pc \in [Thread -> Phase]
    /\ key \in [Thread -> 0..MaxKey]
    /\ snap \in [Thread -> [SecretId -> Cell]]

\* create_vault: the creator is the only member, an admin.
Init ==
    /\ members = [u \in User |->
                    IF u = Founder
                    THEN [role |-> "admin", key |-> 1,
                          lock |-> Master(u), pub |-> 1]
                    ELSE NoRow]
    /\ secrets = NoCells
    /\ keypair = [u \in User |-> 1]
    /\ keyCount = 1
    /\ cache = [m \in Manager |-> 0]
    /\ op = [t \in Thread |-> "get_secret"]
    /\ pc = [t \in Thread |-> "idle"]
    /\ key = [t \in Thread |-> 0]
    /\ snap = [t \in Thread |-> NoCells]

-----------------------------------------------------------------------------
(* Starting and ending an operation.                                       *)

At(t, o, p) == op[t] = o /\ pc[t] = p

Goto(t, p) == pc' = [pc EXCEPT ![t] = p]

\* The operation returns or raises.  Its locals die, and with them the
\* process if it is a command-line one.
Return(t, c) ==
    /\ pc' = [pc EXCEPT ![t] = "idle"]
    /\ op' = [op EXCEPT ![t] = "get_secret"]
    /\ key' = [key EXCEPT ![t] = 0]
    /\ snap' = [snap EXCEPT ![t] = NoCells]
    /\ cache' = IF ManagerOf[t] \in LongLived
                THEN c ELSE [c EXCEPT ![ManagerOf[t]] = 0]

AfterCheck(o) == IF o \in NeedsKey THEN "unlock" ELSE "work"

\* Variant: the caller's role is not checked.
BeginUnchecked(t, o) ==
    /\ pc[t] = "idle"
    /\ Exclusive => \A t2 \in Thread : pc[t2] = "idle"
    /\ op' = [op EXCEPT ![t] = o]
    /\ Goto(t, AfterCheck(o))
    /\ UNCHANGED <<members, secrets, keypair, keyCount, cache, key, snap>>

\* An operation starts with _check_permission on the caller's row.
Begin(t, o) ==
    /\ pc[t] = "idle"
    /\ Exclusive => \A t2 \in Thread : pc[t2] = "idle"
    /\ Permits(members[Self(t)].role, o)
    /\ op' = [op EXCEPT ![t] = o]
    /\ Goto(t, AfterCheck(o))
    /\ UNCHANGED <<members, secrets, keypair, keyCount, cache, key, snap>>

\* Any step may raise: no such id, not a member any more, key does not open,
\* "database is locked".  What was not committed is not done.
Raise(t) ==
    /\ pc[t] \in {"check", "unlock", "work", "commit"}
    /\ Return(t, cache)
    /\ UNCHANGED <<members, secrets, keypair, keyCount>>

\* The process dies: every thread of the manager and its cache are gone.
Crash(m) ==
    LET Dead(t) == ManagerOf[t] = m IN
    /\ cache' = [cache EXCEPT ![m] = 0]
    /\ pc' = [t \in Thread |-> IF Dead(t) THEN "idle" ELSE pc[t]]
    /\ op' = [t \in Thread |-> IF Dead(t) THEN "get_secret" ELSE op[t]]
    /\ key' = [t \in Thread |-> IF Dead(t) THEN 0 ELSE key[t]]
    /\ snap' = [t \in Thread |-> IF Dead(t) THEN NoCells ELSE snap[t]]
    /\ UNCHANGED <<members, secrets, keypair, keyCount>>

-----------------------------------------------------------------------------
(* unlock_vault.                                                           *)

\* A cached key is returned without a look at the database.
UnlockCached(t) ==
    /\ pc[t] = "unlock"
    /\ Cached(t) # 0
    /\ key' = [key EXCEPT ![t] = Cached(t)]
    /\ Goto(t, "work")
    /\ UNCHANGED <<members, secrets, keypair, keyCount, cache, op, snap>>

\* Otherwise the caller's row is read and unwrapped.
UnlockRow(t) ==
    LET row == members[Self(t)] IN
    /\ pc[t] = "unlock"
    /\ Cached(t) = 0
    /\ Opens(Self(t))
    /\ key' = [key EXCEPT ![t] = row.key]
    /\ Goto(t, IF row.lock.kind = "x25519" THEN "rewrap" ELSE "cache")
    /\ UNCHANGED <<members, secrets, keypair, keyCount, cache, op, snap>>

\* "Re-wrap locally with master_fernet for fast future unlocks": an UPDATE of
\* the row read before, whatever it holds now.  A failure is swallowed.
Rewrap(t) ==
    LET u == Self(t) IN
    /\ pc[t] = "rewrap"
    /\ \/ members' = IF Member(u)
                     THEN [members EXCEPT ![u].key = key[t], ![u].lock = Master(u)]
                     ELSE members
       \/ UNCHANGED members
    /\ Goto(t, "cache")
    /\ UNCHANGED <<secrets, keypair, keyCount, cache, op, key, snap>>

CacheKey(t) ==
    /\ pc[t] = "cache"
    /\ cache' = [cache EXCEPT ![ManagerOf[t]] = key[t]]
    /\ Goto(t, "work")
    /\ UNCHANGED <<members, secrets, keypair, keyCount, op, key, snap>>

-----------------------------------------------------------------------------
(* Secrets.                                                                *)

\* get_secret, get_secrets_by_label: nothing is written.
GetSecret(t) ==
    /\ At(t, "get_secret", "work")
    /\ Return(t, cache)
    /\ UNCHANGED <<members, secrets, keypair, keyCount>>

\* save_secret: a fresh id (uuid4), the value under the key held.
SaveSecret(t, s, v) ==
    /\ At(t, "create_secret", "work")
    /\ secrets[s].val = Absent
    /\ secrets' = [secrets EXCEPT ![s] = [val |-> v, key |-> key[t]]]
    /\ Return(t, cache)
    /\ UNCHANGED <<members, keypair, keyCount>>

UpdateSecret(t, s, v) ==
    /\ At(t, "update_secret", "work")
    /\ Live(s)
    /\ secrets' = [secrets EXCEPT ![s] = [val |-> v, key |-> key[t]]]
    /\ Return(t, cache)
    /\ UNCHANGED <<members, keypair, keyCount>>

DeleteSecret(t, s) ==
    /\ At(t, "delete_secret", "work")
    /\ Live(s)
    /\ secrets' = [secrets EXCEPT ![s] = [val |-> Gone, key |-> 0]]
    /\ Return(t, cache)
    /\ UNCHANGED <<members, keypair, keyCount>>

-----------------------------------------------------------------------------
(* Members.                                                                *)

\* add_member, first half: get_raw_vault_key reads the caller's row again.
ReadRawKey(t) ==
    /\ At(t, "add_member", "work")
    /\ Opens(Self(t))
    /\ key' = [key EXCEPT ![t] = members[Self(t)].key]
    /\ Goto(t, "commit")
    /\ UNCHANGED <<members, secrets, keypair, keyCount, cache, op, snap>>

\* Variant: the branch that wraps for a public key is never taken.
InsertMemberSelfWrapped(t, w, r, g) ==
    /\ At(t, "add_member", "commit")
    /\ ~Member(w)
    /\ g \in 1..keypair[w]
    /\ members' = [members EXCEPT ![w] =
                     [role |-> r, key |-> key[t], pub |-> g, lock |-> Master(Self(t))]]
    /\ Return(t, cache)
    /\ UNCHANGED <<secrets, keypair, keyCount>>

\* Second half: the INSERT, which fails if the user has a row.  The key is
\* wrapped for the public key given (one of w's keypairs), or without one
\* for the caller himself.
InsertMember(t, w, r, g) ==
    /\ At(t, "add_member", "commit")
    /\ ~Member(w)
    /\ g \in 0..keypair[w]
    /\ g = 0 => KeylessAdds
    /\ members' = [members EXCEPT ![w] =
                     [role |-> r, key |-> key[t], pub |-> g,
                      lock |-> IF g = 0 THEN Master(Self(t)) ELSE X25519(w, g)]]
    /\ Return(t, cache)
    /\ UNCHANGED <<secrets, keypair, keyCount>>

\* Variant: "Cannot remove yourself from the vault" is not checked.
RemoveAnyMember(t, w, rotate) ==
    /\ At(t, "remove_member", "work")
    /\ Member(w)
    /\ members' = [members EXCEPT ![w] = NoRow]
    /\ Return(t, cache)
    /\ UNCHANGED <<secrets, keypair, keyCount>>

\* remove_member: the DELETE commits, then, if asked, rotate_vault_key starts.
RemoveMember(t, w, rotate) ==
    /\ At(t, "remove_member", "work")
    /\ w # Self(t)
    /\ Member(w)
    /\ members' = [members EXCEPT ![w] = NoRow]
    /\ IF rotate
       THEN /\ op' = [op EXCEPT ![t] = "rotate_key"]
            /\ Goto(t, "check")
            /\ UNCHANGED <<cache, key, snap>>
       ELSE Return(t, cache)
    /\ UNCHANGED <<secrets, keypair, keyCount>>

RotateCheck(t) ==
    /\ At(t, "rotate_key", "check")
    /\ Permits(members[Self(t)].role, "rotate_key")
    /\ Goto(t, "unlock")
    /\ UNCHANGED <<members, secrets, keypair, keyCount, cache, op, key, snap>>

\* Variant: the new role is not checked against VaultRole.
SetAnyRole(t, w, r) ==
    /\ At(t, "set_role", "work")
    /\ Member(w)
    /\ members' = [members EXCEPT ![w].role = "owner"]
    /\ Return(t, cache)
    /\ UNCHANGED <<secrets, keypair, keyCount>>

SetMemberRole(t, w, r) ==
    /\ At(t, "set_role", "work")
    /\ Member(w)
    /\ members' = [members EXCEPT ![w].role = r]
    /\ Return(t, cache)
    /\ UNCHANGED <<secrets, keypair, keyCount>>

\* set_user_identity on an existing identity: same user id, new keypair.
RenewIdentity(u) ==
    /\ keypair[u] < MaxGen
    /\ keypair' = [keypair EXCEPT ![u] = @ + 1]
    /\ UNCHANGED <<members, secrets, keyCount, cache, op, pc, key, snap>>

-----------------------------------------------------------------------------
(* rotate_vault_key.                                                       *)

\* The secrets are fetched before the write transaction starts.
ReadSecrets(t) ==
    /\ At(t, "rotate_key", "work")
    /\ snap' = [snap EXCEPT ![t] = secrets]
    /\ Goto(t, "commit")
    /\ UNCHANGED <<members, secrets, keypair, keyCount, cache, op, key>>

\* Variant: the new ciphertext is made with the old Fernet.
ReencryptedWithOldKey(t, s, k) ==
    LET fetched == snap[t][s] IN
    IF Live(s) /\ fetched.val \in Value /\ fetched.key = key[t]
    THEN [val |-> fetched.val, key |-> key[t]]
    ELSE secrets[s]

\* Variant: INSERT OR REPLACE in place of UPDATE.
ReencryptedByReplace(t, s, k) ==
    LET fetched == snap[t][s] IN
    IF fetched.val \in Value /\ fetched.key = key[t]
    THEN [val |-> fetched.val, key |-> k]
    ELSE secrets[s]

\* The row of s after the rotation: an UPDATE with the plaintext fetched
\* before, for each secret fetched that the old key opened.
Reencrypted(t, s, k) ==
    LET fetched == snap[t][s] IN
    IF Live(s) /\ fetched.val \in Value /\ fetched.key = key[t]
    THEN [val |-> fetched.val, key |-> k]
    ELSE secrets[s]

\* Variant: the loop over the other members is missing.
RewrappedCallerOnly(u, w, k) ==
    IF Member(w) /\ w = u
    THEN [members[w] EXCEPT !.key = k, !.lock = Master(w)]
    ELSE members[w]

\* Variant: the caller's own row is forgotten.
RewrappedOthersOnly(u, w, k) ==
    IF Member(w) /\ w # u /\ members[w].pub # 0
    THEN [members[w] EXCEPT !.key = k, !.lock = X25519(w, members[w].pub)]
    ELSE members[w]

\* The row of w after the rotation: the caller's under his master key, the
\* others' under the public key recorded, if there is one.
Rewrapped(u, w, k) ==
    IF ~Member(w) THEN members[w]
    ELSE IF w = u THEN [members[w] EXCEPT !.key = k, !.lock = Master(w)]
    ELSE IF members[w].pub # 0
    THEN [members[w] EXCEPT !.key = k, !.lock = X25519(w, members[w].pub)]
    ELSE members[w]

\* One transaction writes secrets and members.
RotateCommit(t) ==
    LET k == keyCount + 1 IN
    /\ At(t, "rotate_key", "commit")
    /\ k <= MaxKey
    /\ keyCount' = k
    /\ secrets' = [s \in SecretId |-> Reencrypted(t, s, k)]
    /\ members' = [w \in User |-> Rewrapped(Self(t), w, k)]
    /\ key' = [key EXCEPT ![t] = k]
    /\ Goto(t, "publish")
    /\ UNCHANGED <<keypair, cache, op, snap>>

\* "Update cached fernet".
PublishKey(t) ==
    /\ pc[t] = "publish"
    /\ Return(t, [cache EXCEPT ![ManagerOf[t]] = key[t]])
    /\ UNCHANGED <<members, secrets, keypair, keyCount>>

-----------------------------------------------------------------------------

UnlockStep(t) == UnlockCached(t) \/ UnlockRow(t) \/ Rewrap(t) \/ CacheKey(t)

SecretStep(t) ==
    \/ GetSecret(t)
    \/ \E s \in SecretId, v \in Value : SaveSecret(t, s, v) \/ UpdateSecret(t, s, v)
    \/ \E s \in SecretId : DeleteSecret(t, s)

MemberStep(t) ==
    \/ ReadRawKey(t)
    \/ \E w \in User, r \in Role, g \in 0..MaxGen : InsertMember(t, w, r, g)
    \/ \E w \in User, rotate \in BOOLEAN : RemoveMember(t, w, rotate)
    \/ \E w \in User, r \in Role : SetMemberRole(t, w, r)

RotateStep(t) ==
    RotateCheck(t) \/ ReadSecrets(t) \/ RotateCommit(t) \/ PublishKey(t)

Next ==
    \/ \E t \in Thread :
          \/ \E o \in Op : Begin(t, o)
          \/ Raise(t) \/ UnlockStep(t) \/ SecretStep(t)
          \/ MemberStep(t) \/ RotateStep(t)
    \/ \E m \in Manager : Crash(m)
    \/ \E u \in User : RenewIdentity(u)

Spec == Init /\ [][Next]_vars

-----------------------------------------------------------------------------
(* Properties.                                                             *)

\* Every stored secret is encrypted under the newest vault key: after
\* rotate_vault_key commits, nothing is left under, or written under, an old one.
SecretsUnderCurrentKey ==
    \A s \in SecretId : Live(s) => secrets[s].key = keyCount

\* Every member whose public key is on record holds the newest vault key in a
\* row he can open, at every step of a rotation, of an unlock and after a crash.
HoldersReachCurrentKey ==
    \A u \in User : Member(u) /\ members[u].pub # 0
                     => Opens(u) /\ members[u].key = keyCount

\* Every member can open his own row of the members table.
EveryMemberCanOpen == \A u \in User : Member(u) => Opens(u)

\* Some member can open a row that holds the key of each stored secret, so that
\* no sequence of removals, role changes and rotations makes one unreadable.
SecretsRecoverable ==
    \A s \in SecretId :
        Live(s) => \E u \in User : Opens(u) /\ members[u].key = secrets[s].key

\* The steps at which a thread holds an unlocked vault key.
HasKey(t) ==
    \/ pc[t] \in {"rewrap", "cache", "commit"}
    \/ pc[t] = "work" /\ op[t] \in NeedsKey

\* One thread at a time is in the middle of an operation.
OneRuns ==
    \A ta, tb \in Thread : pc[ta] # "idle" /\ pc[tb] # "idle" => ta = tb

\* Only operations that need the vault key unlock the vault.
UnlockWanted ==
    \A t \in Thread : pc[t] \notin {"idle", "work"} => op[t] \in NeedsKey

\* Only the process of a running operation that needs it has a key cached, and
\* until a rotation commits it is the newest.
CacheFresh ==
    \A m \in Manager : cache[m] # 0 =>
        \E t \in Thread : /\ ManagerOf[t] = m /\ op[t] \in NeedsKey
                          /\ pc[t] \in {"work", "commit", "publish"}
                          /\ pc[t] = "publish" \/ cache[m] = keyCount

\* The key in a local variable is the newest, and its holder could unwrap it
\* because his row carries a public key.
HeldKeyFresh ==
    \A t \in Thread :
        /\ HasKey(t) => /\ key[t] = keyCount
                        /\ Member(Self(t)) /\ members[Self(t)].pub # 0
        /\ pc[t] = "publish" => key[t] = keyCount

\* What a rotation has fetched is still what the table holds.
SnapFresh ==
    \A t \in Thread : At(t, "rotate_key", "commit") => snap[t] = secrets

\* A row with a public key holds the newest key, for its owner; a row
\* without one is locked for somebody else.
RowsFresh ==
    \A u \in User : Member(u) =>
        IF members[u].pub = 0 THEN members[u].lock.user # u
        ELSE /\ members[u].key = keyCount
             /\ members[u].pub \in 1..keypair[u]
             /\ members[u].lock \in {Master(u), X25519(u, members[u].pub)}

\* Why the two invariants above hold when commands run one at a time: keys in
\* rows, caches, locals and fetched secrets advance together.
SerialInv ==
    /\ OneRuns /\ UnlockWanted /\ CacheFresh /\ HeldKeyFresh /\ SnapFresh /\ RowsFresh
    /\ SecretsUnderCurrentKey

\* The role that was checked when an operation began still permits it at each of
\* its steps, the rotation after a removal included.
CallerPermitted ==
    \A t \in Thread : pc[t] # "idle" => Permits(members[Self(t)].role, op[t])

\* The vault is never without members, and each has a public key on record.
MembersHoldKeys ==
    /\ \E u \in User : Member(u)
    /\ \A u \in User : Member(u) => members[u].pub # 0

\* A stored value changes only when update_secret writes it: re-encryption
\* during a rotation never puts back an older value.
UpdatesAreNotReverted ==
    [][\A s \in SecretId :
          Live(s) /\ Live(s)' /\ secrets'[s].val # secrets[s].val
          => \E t \in Thread : At(t, "update_secret", "work") /\ pc'[t] = "idle"]_vars

\* Whatever runs beside it, the transaction of a rotation leaves the new key
\* with every member on record with a public key, those added since the
\* rotation started included.
RotationReachesHolders ==
    [][keyCount' # keyCount
       => \A u \in User :
            Member(u) /\ members[u].pub # 0
            => /\ members'[u].key = keyCount'
               /\ members'[u].lock \in {Master(u), X25519(u, members[u].pub)}]_vars

\* Whatever runs beside it, a rotation neither drops a secret saved nor revives
\* a secret deleted since it fetched the table.
RotationKeepsTheTable ==
    [][keyCount' # keyCount => \A s \in SecretId : Live(s)' = Live(s)]_vars

\* The vault as its members see it, opened with the newest key, is module
\* TeamVault: rotations, unlocks and crashes change nothing in it.
Seen(s) == IF Live(s) /\ secrets[s].key # keyCount
           THEN Absent ELSE secrets[s].val

Abstract == INSTANCE TeamVault
    WITH content <- [s \in SecretId |-> Seen(s)],
         roles <- [u \in User |-> members[u].role]

ImplementsTeamVault == Abstract!ASpec

=============================================================================
