------------------------------ MODULE Registry ------------------------------
(***************************************************************************)
(* The vaults of one user on one machine (sinduk/vault.py): registry.json, *)
(* the directory of each vault, the copy of the registry and the cache of  *)
(* vault keys in each VaultManager, and invites to vaults of others.       *)
(*                                                                         *)
(* A vault is known by the number of its key: 0 is no vault.  What happens *)
(* inside a vault is module Vault's subject, the sync status that the      *)
(* registry also keeps is module Sync's; here it is a reason to save.      *)
(***************************************************************************)
EXTENDS Naturals, FiniteSets

CONSTANTS
    Name,            \* vault names
    Command, Web,    \* processes of commands, and the web UI
    Environments,    \* what may happen in a behaviour: sets of the words below
    MaxKey           \* bound on the vaults made

\* "commands", "web": who runs.  "overlap": operations interleave.  "crash":
\* processes die.  "clash": the user accepts an invite to a vault that has the
\* name of one of his own.
Hazard == {"commands", "web", "overlap", "crash", "clash"}

ASSUME RegistryAssumption ==
    /\ Web \notin Command /\ Name # {}
    /\ Environments \subseteq SUBSET Hazard
    /\ MaxKey \in Nat

VARIABLES
    env,         \* what may happen in this behaviour
    disk,        \* registry.json: the vault of each name
    torn,        \* it is cut short: opened for writing and not yet written
    db,          \* each vault.db: its key, the key in the user's row, his role
    vaults,      \* vaults made so far, here or elsewhere
    invites,     \* tokens the user has, none of which is ever used up
    mem,         \* _registry of each manager
    cache,       \* _vault_fernets of each manager
    pc,          \* where each process is
    on           \* the name and key its operation is about; is the key cached

files == <<disk, torn, db>>
vars == <<env, files, vaults, invites, mem, cache, pc, on>>

Proc == Command \cup {Web}
Vault == 0..MaxKey
Db == [key : Vault \ {0}, row : Vault \ {0}, admin : BOOLEAN]
NoDb == [key |-> 0, row |-> 0, admin |-> FALSE]
Token == [name : Name, key : Vault \ {0}, admin : BOOLEAN]
Nothing == [n \in Name |-> 0]
NoOp == [name |-> CHOOSE n \in Name : TRUE, key |-> 0, caches |-> FALSE]
Phase == {"off", "ready", "create", "rmtree", "forget", "accept", "enter", "save", "write"}

TypeOK ==
    /\ env \in Environments
    /\ disk \in [Name -> Vault] /\ torn \in BOOLEAN
    /\ db \in [Name -> Db \cup {NoDb}]
    /\ vaults \in Vault
    /\ invites \subseteq Token
    /\ mem \in [Proc -> [Name -> Vault]] /\ cache \in [Proc -> [Name -> Vault]]
    /\ pc \in [Proc -> Phase]
    /\ on \in [Proc -> [name : Name, key : Vault, caches : BOOLEAN]]

Init ==
    /\ env \in Environments
    /\ disk = Nothing /\ torn = FALSE
    /\ db = [n \in Name |-> NoDb]
    /\ vaults = 0 /\ invites = {}
    /\ mem = [p \in Proc |-> Nothing] /\ cache = [p \in Proc |-> Nothing]
    /\ pc = [p \in Proc |-> "off"]
    /\ on = [p \in Proc |-> NoOp]

-----------------------------------------------------------------------------

Goto(p, s) == pc' = [pc EXCEPT ![p] = s]
Set(f, p, n, k) == [f EXCEPT ![p][n] = k]

\* A command is at work from the moment it reads the registry.
Busy(p) == pc[p] # "off" /\ (p = Web => pc[p] # "ready")

\* The process may begin, or go on to, an operation.
Free(p) == "overlap" \in env \/ \A q \in Proc \ {p} : ~Busy(q)

\* The operation ends; a command's manager dies with it.
Quit(p) ==
    /\ Goto(p, IF p = Web THEN "ready" ELSE "off")
    /\ on' = [on EXCEPT ![p] = NoOp]
Lose(f, p) == IF p = Web THEN f ELSE [f EXCEPT ![p] = Nothing]

\* A manager reads the registry once; a torn file ends the process.
Load(p) ==
    /\ pc[p] = "off" /\ Free(p) /\ ~torn
    /\ (IF p = Web THEN "web" ELSE "commands") \in env
    /\ mem' = [mem EXCEPT ![p] = disk]
    /\ Goto(p, "ready")
    /\ UNCHANGED <<env, files, vaults, invites, cache, on>>

Start(p, n, k, s) ==
    /\ pc[p] = "ready" /\ Free(p)
    /\ on' = [on EXCEPT ![p] = [name |-> n, key |-> k, caches |-> (s = "accept")]]
    /\ Goto(p, s)
    /\ UNCHANGED <<env, files, vaults, invites, mem, cache>>

-----------------------------------------------------------------------------
(* create_vault.                                                           *)

StartCreate(p, n) == mem[p][n] = 0 /\ Start(p, n, 0, "create")

\* Variant: a row that is there is replaced.
CreateOverRow(p) ==
    LET n == on[p].name IN
    /\ pc[p] = "create" /\ vaults < MaxKey
    /\ vaults' = vaults + 1
    /\ db' = [db EXCEPT ![n] = [key |-> IF @ = NoDb THEN vaults' ELSE @.key,
                                row |-> vaults', admin |-> TRUE]]
    /\ on' = [on EXCEPT ![p].key = vaults']
    /\ Goto(p, "enter")
    /\ UNCHANGED <<env, disk, torn, invites, mem, cache>>

\* One transaction makes the tables and the creator's row, which must be new.
CreateDb(p) ==
    LET n == on[p].name IN
    /\ pc[p] = "create" /\ vaults < MaxKey
    /\ db[n] = NoDb
    /\ vaults' = vaults + 1
    /\ db' = [db EXCEPT ![n] = [key |-> vaults', row |-> vaults', admin |-> TRUE]]
    /\ on' = [on EXCEPT ![p].key = vaults']
    /\ Goto(p, "enter")
    /\ UNCHANGED <<env, disk, torn, invites, mem, cache>>

\* The entry goes into the manager's copy.
EnterVault(p) ==
    /\ pc[p] = "enter"
    /\ mem' = Set(mem, p, on[p].name, on[p].key)
    /\ Goto(p, "save")
    /\ UNCHANGED <<env, files, vaults, invites, cache, on>>

-----------------------------------------------------------------------------
(* delete_vault.                                                           *)

\* Only an admin of a vault that is there.
StartDelete(p, n) ==
    /\ mem[p][n] # 0
    /\ db[n] # NoDb /\ db[n].admin
    /\ Start(p, n, 0, "rmtree")

\* Variant: the entry is kept.
RmtreeOnly(p) ==
    /\ pc[p] = "rmtree"
    /\ db' = [db EXCEPT ![on[p].name] = NoDb]
    /\ Goto(p, "save")
    /\ UNCHANGED <<env, disk, torn, vaults, invites, mem, cache, on>>

Rmtree(p) ==
    /\ pc[p] = "rmtree"
    /\ db' = [db EXCEPT ![on[p].name] = NoDb]
    /\ Goto(p, "forget")
    /\ UNCHANGED <<env, disk, torn, vaults, invites, mem, cache, on>>

\* The entry leaves the copy.
Forget(p) ==
    /\ pc[p] = "forget"
    /\ mem' = Set(mem, p, on[p].name, 0)
    /\ Goto(p, "save")
    /\ UNCHANGED <<env, files, vaults, invites, cache, on>>

-----------------------------------------------------------------------------
(* _save_registry: the whole copy replaces the file.                       *)

Truncate(p) ==
    /\ pc[p] = "save"
    /\ torn' = TRUE
    /\ Goto(p, "write")
    /\ UNCHANGED <<env, disk, db, vaults, invites, mem, cache, on>>

\* Variant: the key of a deleted vault stays in the cache.
WriteKeepingKey(p) ==
    /\ pc[p] = "write"
    /\ disk' = mem[p] /\ torn' = FALSE
    /\ Quit(p)
    /\ mem' = Lose(mem, p)
    /\ cache' = IF on[p].caches THEN Lose(Set(cache, p, on[p].name, on[p].key), p)
                                ELSE Lose(cache, p)
    /\ UNCHANGED <<env, db, vaults, invites>>

\* Then the key of a deleted vault leaves the cache, and that of an accepted
\* one enters it; a new vault has none there.
WriteRegistry(p) ==
    /\ pc[p] = "write"
    /\ disk' = mem[p] /\ torn' = FALSE
    /\ Quit(p)
    /\ mem' = Lose(mem, p)
    /\ cache' = Lose(Set(cache, p, on[p].name, IF on[p].caches THEN on[p].key ELSE 0), p)
    /\ UNCHANGED <<env, db, vaults, invites>>

\* update_sync_status after a push or a pull: the copy is saved as it is.  The
\* web UI's pushes and pulls make managers of their own: commands here.
SaveStatus(p, n) == p # Web /\ mem[p][n] # 0 /\ Start(p, n, 0, "save")

-----------------------------------------------------------------------------
(* Invites and keys.                                                       *)

\* create_vault_invite: the token carries the key of the user's row.
Invite(p, n, a) ==
    /\ pc[p] = "ready" /\ Free(p)
    /\ mem[p][n] # 0 /\ db[n] # NoDb /\ db[n].admin
    /\ invites' = invites \cup {[name |-> n, key |-> db[n].row, admin |-> a]}
    /\ Quit(p)
    /\ mem' = Lose(mem, p) /\ cache' = Lose(cache, p)
    /\ UNCHANGED <<env, files, vaults>>

\* Another user invites this one to a vault of his.
Invited(n, a) ==
    /\ vaults < MaxKey
    /\ vaults' = vaults + 1
    /\ invites' = invites \cup {[name |-> n, key |-> vaults', admin |-> a]}
    /\ UNCHANGED <<env, files, mem, cache, pc, on>>

\* accept_vault_invite.  Unless "clash", the user has no vault of that name.
StartAccept(p, t) ==
    /\ t \in invites
    /\ "clash" \in env \/ db[t.name] = NoDb
    /\ Start(p, t.name, t.key, "accept")

\* Variant: the user's row gets its key when the vault is first unlocked.
AcceptWithoutRow(p, a) ==
    LET n == on[p].name IN
    /\ pc[p] = "accept"
    /\ [name |-> n, key |-> on[p].key, admin |-> a] \in invites
    /\ db' = [db EXCEPT ![n] = [key |-> IF @ = NoDb THEN on[p].key ELSE @.key,
                                row |-> 0, admin |-> a]]
    /\ Goto(p, "enter")
    /\ UNCHANGED <<env, disk, torn, vaults, invites, mem, cache, on>>

\* INSERT OR REPLACE: a row that is there is overwritten.
AcceptRow(p, a) ==
    LET n == on[p].name
        k == on[p].key IN
    /\ pc[p] = "accept"
    /\ [name |-> n, key |-> k, admin |-> a] \in invites
    /\ db' = [db EXCEPT ![n] = [key |-> IF @ = NoDb THEN k ELSE @.key, row |-> k, admin |-> a]]
    /\ Goto(p, "enter")
    /\ UNCHANGED <<env, disk, torn, vaults, invites, mem, cache, on>>

\* unlock_vault on behalf of any command on secrets.
Unlock(p, n) ==
    /\ pc[p] = "ready" /\ Free(p)
    /\ mem[p][n] # 0 /\ cache[p][n] = 0 /\ db[n] # NoDb
    /\ cache' = Set(cache, p, n, db[n].row)
    /\ UNCHANGED <<env, files, vaults, invites, mem, pc, on>>

-----------------------------------------------------------------------------

\* Nothing to do, or an error: a name taken, no permission, a row that exists.
Raise(p) ==
    /\ pc[p] \in {"ready", "create"}
    /\ p = Web => pc[p] = "create"
    /\ Quit(p)
    /\ mem' = Lose(mem, p) /\ cache' = Lose(cache, p)
    /\ UNCHANGED <<env, files, vaults, invites>>

\* A process dies, or the web UI is restarted.
Crash(p) ==
    /\ "crash" \in env /\ pc[p] # "off"
    /\ Goto(p, "off")
    /\ on' = [on EXCEPT ![p] = NoOp]
    /\ mem' = [mem EXCEPT ![p] = Nothing]
    /\ cache' = [cache EXCEPT ![p] = Nothing]
    /\ UNCHANGED <<env, files, vaults, invites>>

ProcStep(p) ==
    \/ Load(p) \/ CreateDb(p) \/ EnterVault(p) \/ Rmtree(p) \/ Forget(p)
    \/ Truncate(p) \/ WriteRegistry(p) \/ Raise(p) \/ Crash(p)
    \/ \E n \in Name : StartCreate(p, n) \/ StartDelete(p, n) \/ SaveStatus(p, n) \/ Unlock(p, n)
    \/ \E n \in Name, a \in BOOLEAN : Invite(p, n, a)
    \/ \E t \in Token : StartAccept(p, t)
    \/ \E a \in BOOLEAN : AcceptRow(p, a)

Next ==
    \/ \E p \in Proc : ProcStep(p)
    \/ \E n \in Name, a \in BOOLEAN : Invited(n, a)

Spec == Init /\ [][Next]_vars

-----------------------------------------------------------------------------
(* Properties.                                                             *)

\* One manager at a time works on the machine, and none dies: commands, each
\* of which reads the registry anew, or one web UI.
Alone == env \cap {"overlap", "crash", "clash"} = {} /\ ~({"commands", "web"} \subseteq env)

\* Then, between operations, the registry names the vaults that are there: no
\* name is stuck, with an entry that delete_vault cannot delete or a directory
\* that create_vault cannot enter.
RegistryNamesVaults ==
    Alone /\ (\A p \in Proc : ~Busy(p)) =>
        ~torn /\ \A n \in Name : disk[n] = db[n].key

\* Then the key that a manager has cached is that of the vault it is used on,
\* also after the vault has been deleted and another one made with its name.
CachedKeyOpens ==
    Alone => \A p \in Proc, n \in Name :
        cache[p][n] # 0 /\ db[n] # NoDb => cache[p][n] = db[n].key

\* The user's row holds the key of the vault it is in, whatever dies and
\* however old a manager's copy is, so long as he does not accept invites to
\* names that he has (the INSERT in create_vault, the REPLACE in
\* accept_vault_invite).
RowOpensVault ==
    env \cap {"clash", "overlap"} = {} => \A n \in Name : db[n].row = db[n].key

\* Why: one operation at a time, on a name that is new if a row is about to be
\* written.
RowInv ==
    "overlap" \notin env =>
        /\ \A p, q \in Proc : Busy(p) /\ Busy(q) => p = q
        /\ "clash" \notin env => \A p \in Proc : pc[p] = "accept" => db[on[p].name] = NoDb

There == [n \in Name |-> db[n].key]
Saving == {"enter", "forget", "save", "write"}

\* A manager's copy, with what its operation has still to enter in it.
Entered(p) ==
    CASE pc[p] = "enter"  -> [mem[p] EXCEPT ![on[p].name] = on[p].key]
      [] pc[p] = "forget" -> [mem[p] EXCEPT ![on[p].name] = 0]
      [] OTHER            -> mem[p]

CopyInv ==
    /\ \A p \in Proc : pc[p] # "off" => (IF p = Web THEN "web" ELSE "commands") \in env
    /\ Alone =>
        /\ \A p \in Proc : pc[p] # "off" => Entered(p) = There
        /\ disk = There \/ \E p \in Proc : pc[p] \in Saving
        /\ torn => \E p \in Proc : pc[p] = "write"

\* The key of a deleted vault is cached until the registry is written.
CacheOf(p) ==
    /\ pc[p] = "rmtree" => ~on[p].caches
    /\ on[p].caches /\ pc[p] \in Saving => on[p].key = db[on[p].name].key
    /\ \A n \in Name : cache[p][n] \notin {0, db[n].key} =>
        db[n] = NoDb /\ on[p].name = n /\ pc[p] \in Saving \ {"enter"}

CacheInv ==
    /\ \A p \in Proc : pc[p] = "off" => cache[p] = Nothing
    /\ Alone => \A p \in Proc : CacheOf(p)

\* The three together, with RowOpensVault: the inductive invariant.
RegistryInv == RowInv /\ RowOpensVault /\ CopyInv /\ CacheInv

=============================================================================
