# Verification of sinduk

TLA+ models of sinduk (`src/sinduk`, Python), a secrets manager with team
vaults, with TLC runs on small instances and proofs checked by TLAPS.
`PROJECT.json` lists the runs, the code each definition stands for, the
hazards, the findings and the theorems.

Contents: [the system](#the-system), [plan](#plan), [modules](#modules),
[runs](#runs), [findings](#findings), [proofs](#proofs),
[limits](#limits).

## The system

Two kinds of processes touch a user's files: short `sinduk` commands, each a
process with its own `VaultManager` and `SecretStore`, and two long-lived
Flask servers with threads, the web UI (one `VaultManager`, one `SecretStore`
for all requests) and the sync server. They share SQLite databases and JSON
files under `~/.config/sinduk`. Nothing in the Python code locks across
processes; the only mutual exclusion is SQLite's, one writer per transaction.

| component (source) | state | operations | interacts with |
|---|---|---|---|
| team vault (`vault.py`) | `vault.db`: tables `secrets`, `members` (role, wrapped key, public key), `audit_log`; cache of unlocked keys; identity file with an X25519 keypair | create, unlock, save/get/update/delete secret, add/remove member, set role, rotate key | every user of the vault, through the database |
| registry (`vault.py`) | `registry.json`, read once per manager | create/delete/list vaults, sync status | all processes, through the file |
| invites (`vault.py`, `commands/team.py`) | none: the token carries the key | create, accept | members table |
| backup and bundles (`vault.py`, `commands/backup.py`) | a file | export, import with merge or overwrite | secrets table, sync |
| personal store (`store.py`, `commands/admin.py`) | `sqlite3.db`, `salt.bin`, `salt.bin.set`; Fernet in memory | first-run setup, save/get/update/delete, change of master password, backup | CLI and web UI, through the database |
| sync server (`server.py`) | tables `tokens`, `vault_blobs` (version, checksum), `server_audit` | push, pull, status, create/revoke token | sync clients, over HTTP |
| sync client (`sync_client.py`, `commands/sync.py`) | sync status in the registry | automatic and explicit push/pull, to a server or a shared directory | server, team vault |
| team and secret commands (`commands/team.py`, `commands/secrets.py`) | none | wrap the calls above, then push | |
| web UI (`web/app.py`) | sessions, shared store and manager | routes for all of the above | browser |
| web terminal (`web/ssh_handler.py`) | connections, output queue, reader thread | connect, send, stream, disconnect | socket events, SSH channel |
| audit log (`audit.py`) | a JSONL file, a sequence number per process | record, rotate, query | |
| daemons (`commands/web.py`, `commands/server.py`) | pid and state files | start, stop, status | operating system |
| strength, validators, helpers | none | pure functions, prompts | |

What is hard in it, and what makes each part correct:

- *Team vault.* A rotation replaces the key under which every secret and every
  member's row is written. Correct: no secret stays under an old key, every
  member keeps a row he can open, rotations are invisible in the contents,
  and only permitted members change anything; whatever is unlocked, cached,
  half done or crashed meanwhile.
- *Registry.* Whole-file saves of stale copies. Correct: no vault is lost, a
  listed vault exists.
- *Personal store.* The password hash, the rows and the keys derived from the
  password change in several files. Correct: whatever password is accepted
  opens everything.
- *Sync.* Copies of one vault on several machines and a relay that keeps the
  last blob. Correct: versions identify blobs, acknowledged changes are not
  lost, copies converge.
- *Web terminal.* A reader thread, a streaming thread and socket handlers.
  Correct: output arrives once and in order, threads end.
- *Audit log.* Sequence numbers taken from memory by several processes.

## Plan

In order of importance; all items are built but the last.

1. `TeamVault` (abstract), `Vault` (detailed), `MCVault`, `VaultProofs`: the
   core of the program, with all interleavings of processes on `vault.db`.
2. `BlobStore` (abstract), `SyncServer` (a component), `Sync` (clients composed
   with the server), `MCSync`: copies of a vault on several machines.
3. `SecretMap` (abstract), `PersonalStore`, `Identity` (the store composed with
   the user's keys to team vaults), `MCIdentity`: first setup, logins, change of
   the master password.
4. `Registry`, `MCRegistry`: creation, deletion and acceptance of vaults with
   stale copies of the registry.
5. `OutputPipe` (abstract), `SshTerminal`, `MCSshTerminal`; `BoundedLog`
   (abstract), `AuditLog`, `MCAuditLog`; `Daemons`, `MCDaemons`: the small
   concurrent components, with liveness of the terminal's threads and of stop.
6. Proofs, a module each for every component: the type invariant and every
   invariant of the runs, the two action properties of rotations, and the
   refinements of `TeamVault`, `SecretMap`, `BlobStore` and `OutputPipe`.
7. Left: `KeepsRecords`, of which the step of each action could be proved once
   `BoundedLog` speaks of positions instead of a flattened sequence.

## Modules

**`TeamVault`** is what a vault promises: contents and roles, one atomic step
per command, only by members whose role permits it. It knows no keys.

**`Vault`** models `VaultManager` on one vault. Variables and the code's state:

| variable | code |
|---|---|
| `members` | table `members`: role, wrapped key (which key, and what it is wrapped with), recorded public key |
| `secrets` | table `secrets`: the value and the key it is encrypted with |
| `keypair` | the identity file of each user: the generation of his keypair |
| `keyCount` | number of vault keys committed; key *k* is the *k*-th |
| `cache` | `_vault_fernets` of each manager |
| `op`, `pc`, `key`, `snap` | what each thread runs, where it is, and its locals |

One action is one SQLite transaction or one access to the cache, because these
are the points at which processes see each other. An operation is a sequence:
`Begin` (`_check_permission`), the steps of `unlock_vault` if it calls it
(`UnlockCached`, or `UnlockRow`, `Rewrap`, `CacheKey`), then its own
transactions: one for the secret operations, `ReadRawKey` and `InsertMember`
for `add_member`, `RemoveMember` followed by a rotation if asked, `ReadSecrets`,
`RotateCommit` and `PublishKey` for `rotate_vault_key`. The transaction of a
rotation starts at its first UPDATE, after the secrets have been fetched, which
is why `ReadSecrets` is a step of its own. `Raise` ends an operation with an
error, `Crash` kills a process with all its threads and its cache.
`RenewIdentity` is `set_user_identity` on an existing identity.

Cryptography is modelled by who can undo it: a ciphertext is a pair of value
and key, a wrapped key a pair of key and lock (`Master(u)` or `X25519(u, g)`).
Arguments (ids, roles, users) are chosen at the write; an earlier check of the
same argument (role name, existing member) is repeated there by the guard.

Three constants describe the environment, not the code: `Exclusive` makes
operations run one at a time, `LongLived` names the managers that survive their
operation (a web UI), `KeylessAdds` allows `add_member` without a public key.
`MaxKey` and `MaxGen` bound rotations and identity renewals.

Definitions marked *Variant* are the code with one plausible mistake; they
serve to show that each checked property can fail.

**`BlobStore`** is what the sync server promises for one vault: a register whose
version goes up by one each time, and only when, a different blob is stored.

**`SyncServer`** models `server.py`. `stored` and `version` are the row of
`vault_blobs` (a blob is a number that stands for its checksum), `revoked` the
tokens with `active = 0`; `phase`, `request` and `result` are the locals of the
threads Flask starts, one per request. One action is one SQL statement:
`Receive` is `require_token`, `SelectVersion` and `WriteRow` are the two
halves of `save_blob`, `ReadRow` is `pull_blob`. `Answer` is the end of a
handler, which fails if `log_audit` raises, after the blob has been stored.
`Revoke` is run by an administrator, `ServerRestart` loses all requests.

**`Sync`** extends it with the clients. A client has its own copy of the secrets
(`local`: id to revision) and what `sync_status` and the configuration
remember (`pulled`, `pushed`, `token`); `gone`, `clock` and `bundles` only
record the past: ids deleted, edits made, bundles exported. A client runs one
command at a time: `Push` is `export_vault_backup` and the POST, `PushAnswered`
the rest of `auto_push_vault`; `Pull` the GET, with or without
`If-None-Match`, `PullAnswered` its answer and `import_vault_backup`, which only
works if the bundle was pushed with the same token, `RecordPull` the
`update_sync_status` after it. `GiveUp` is a timeout, an error or a crash at any
point, `DropAnswer` an answer nobody waits for, `RepeatPush` a proxy that sends
a push again, `Restart` a server that dies under its clients. An edit is
followed by a push or not, so that edits and pushes are separate actions.
The constants `Overlap`, `Repeats`, `Revocable` and `Fragile` (rows whose import
may fail) say what the environment does; `MaxBlob`, `MaxVersion` and `MaxEdit`
are bounds.

**`SecretMap`** is what the personal store promises: a map from ids to values,
and the contents of the last backup.

**`PersonalStore`** models `SecretStore`, the commands on it and the web UI:

| variable | code |
|---|---|
| `salt`, `marker`, `hash` | `salt.bin` (its generation), `salt.bin.set`, `password_hash.bin` |
| `rows`, `backup` | table `secrets`: value and the key it is encrypted with; the last exported file |
| `fernet` | `SecretStore.fernet` of each process; the web UI's is shared by its threads |
| `signedIn` | `session["authenticated"]` |
| `pc`, `typed`, `seen`, `snap` | where each thread is, and its locals |
| `known` | passwords the user has chosen, a record of the past |

A step is an access to one file, one transaction, or one assignment to the
shared `fernet`; so the setup is `FindSalt`, `WriteSalt`, `Confirm`, `WriteHash`,
`CacheFirst`, and a change of password `ReadAll`, `Rekey`, `WriteNewHash`,
`Reencrypt`, with crashes between them. A command unlocks with whatever is typed,
as `require_fernet` does; only the web UI verifies.

**`Identity`** extends it with the two other things that the master password
encrypts: `private`, the private key in the identity file, and `wrapped`, the
user's row in one team vault. `OpenIdentity` is `get_user_private_key` with its
except branch, `Rewrap` the UPDATE of `unlock_vault`.

**`Registry`** has `disk` and `torn` (the registry file, and that it is open and
not yet written), `db` (each vault directory: its key, the key in the user's row,
his role), `mem` and `cache` (the copy of the registry and the keys of each
manager), `invites`. `create_vault` is `StartCreate`, `CreateDb`, `EnterVault`,
`Truncate`, `WriteRegistry`; `delete_vault` is `StartDelete`, `Rmtree`, `Forget`
and the same two; `accept_vault_invite` is `StartAccept`, `AcceptRow`,
`EnterVault` and the same two. A vault is known by the number of its key. A command is at work
from the moment it reads the registry, the web UI only while it handles a request:
its copy of the registry may be as old as the web UI.

**`OutputPipe`** is what a terminal promises to the browser: `PipeSpec` says what may
arrive and in which order, the liveness property `Arrives` that it does. **`SshTerminal`** models one connection: the request that
connects, the reader thread (`ReaderChecks`, `ReadAndQueue` per stream,
`ReadRaises`), the streaming thread (`Look`, `DrainOne`, `Emit`), REST pollers and
requests that close (`Enter` under the manager's lock, `SetStop`, `Join`,
`Delist`). `DrainOne` takes one chunk, so two consumers may divide the queue.

**`BoundedLog`** is a log that loses only its oldest records. **`AuditLog`** has
the files (`file[0]` is `audit.log`, `file[i]` archive *i*) as sequences of lines,
and `_seq` of each process. A record is `CheckSize`, the renames of a rotation one
by one (`Shift`, `RotateLog`), and `Write`. A line has the offset at which it ends:
the log is full at `Full` bytes, and a process that starts sees the lines that lie
whole in the last `Window` bytes (512 in the code). Records have any size up to a
bound: a third of the window, the window ("large") or more ("long"), as the
environment says. A write that tears leaves a scrap of any size, and the next record
continues its line, which then is one line that nobody can read.

**`Daemons`** has the system's processes (`proc`, with zombies), the pid file, and
where each shell's command is. The sync server and the web UI differ in what they
check and in who writes the pid file; a behaviour is about one of them.

In these modules the variable `env`, chosen at the start from the constant
`Environments`, says what may happen in a behaviour: "crash", "overlap", "fail"
and so on, words each module explains. So one run covers several environments, and
each property names those for which it holds: what it excludes is what the code
does not withstand.

**`MCVault`** gives TLC two users, two processes and two threads, **`MCSync`**
two clients and two server threads; `MCIdentity`, `MCRegistry`, `MCSshTerminal`,
`MCAuditLog` and `MCDaemons` name the model values of the others and the
symmetries. 
The theorems are in modules of their own, each of which extends its component:
**`VaultProofs`** and **`VaultRefinement`** (about `Vault`), **`StoreProofs`** (`PersonalStore`
and `Identity`), **`SyncProofs`** (`SyncServer` and `Sync`), **`TerminalProofs`** (`SshTerminal`),
**`RegistryProofs`**, **`DaemonsProofs`** and **`AuditProofs`** (`AuditLog`).

Definitions marked *Variant* are the code with one plausible mistake, here too.

## Runs

| run | instance | shows |
|---|---|---|
| `VaultSerial` | two users, each with a process; 2 secrets, 2 values, 3 keys, 2 keypairs; one operation at a time | the type invariant, `SecretsUnderCurrentKey`, `CallerPermitted`, the inductive invariant `SerialInv`, and that `Vault` implements `TeamVault` |
| `VaultConcurrent` | a command and a web UI of two users, all interleavings; 3 keys | `RotationReachesHolders`, `RotationKeepsTheTable`: what a rotation guarantees even when it races |
| `VaultRecoverable` | one operation at a time, public keys only, no renewals; 4 keys, 2 secrets | `HoldersReachCurrentKey`, `MembersHoldKeys`, `SecretsRecoverable` |
| `SyncConcurrent` | two clients, one token, two server threads at once; 2 bundles, 2 edits, 1 secret id | `KnownMeansImported`: a client that the server will answer 304 for a bundle has had every secret of it |
| `SyncSerial` | two clients, two tokens of which one is revoked, requests one at a time, pushes repeated; 2 bundles, 3 versions | `VersionNamesBundle`, and that the server's row implements `BlobStore` |
| `SyncMerge` | two clients, one id, two edits | a violation, see findings |
| `PersonalStore` | two commands and one web thread; 2 passwords, 2 salts, 2 ids, 2 values; seven environments | `RowsRecoverable`, `PasswordOpensRows`, `WebKeyChosen`, `PasswordOpensTeam`, and that the store implements `SecretMap` (`KeepsContents`) |
| `PersonalPasswd` | the same, with a change of password and a team vault | a violation, see findings |
| `SshTerminal` | one connection, two chunks per stream, a poller, two closers, reads that may raise, with and without a socket | `ToldMeansClosed`, `GoneMeansDisconnected`, `CloseEndsThreads`, `LockIsFreed`, `OutputArrives`, `PathInv`, and that queue and threads implement `OutputPipe` (`ImplementsPipe`) |
| `Registry` | two shells and a web UI, two names, two vaults in a lifetime; commands, a web UI, or both with crashes | `RegistryNamesVaults`, `CachedKeyOpens`, `RowOpensVault` |
| `AuditLog` | two processes, three archives, records of one to four bytes, a log of two, a window of three, two numbers per file; failed renames and writes, a torn write, restarts, records larger than the window, two processes at once | `NumbersIncrease`, `OwnNumbersIncrease`, and that log and archives implement `BoundedLog` (`KeepsRecords`) |
| `Daemons` | two shells, three pids; server and web UI, deaths, reuse of pids, overlap, crashes | `PidFileNamesDaemon`, `OthersSpared`, `StopEnds` |

Bounds. Two users are enough for an admin and a member in every combination of
roles (either may become the only admin); a race needs two threads. Three keys
give two rotations, so that an old key can be older than the previous one. Two
secrets let one be re-encrypted and the other not. Two values tell an updated
value from an older one. Two bundles and three versions let a repeated push bring
back a bundle that was replaced; two bundles are enough for a client to import one
while the other is stored. Two passwords give any number of changes, back and
forth; two salts are those of two setups that race. Two vaults let one be deleted
and another made with its name, or be invited to. Two chunks per stream have an
order, and can be drained apart; two closers wait for each other. With three
archives a shift has a middle. A window of three bytes holds three small records or
one large one, so that a record, a scrap and what is glued to it just fit or just do
not, and records of four bytes are longer than it. A log of two bytes is full at
the first or the second record; it outgrows the window when rotations fail. Two
numbers per file are enough to give one twice. Three pids are a daemon, another that
fails to bind, and one that gets the pid of a dead one. Server threads, clients,
commands, passwords, ids and values are interchangeable, hence the symmetries,
used in runs without liveness only.

Deadlock is checked where some operation can always begin. It is not in
`SshTerminal` (a closed connection is over), `Registry` (a torn registry stops
every command, after which nothing can happen), `AuditLog` (numbers are bounded)
and `Daemons` (all pids may be in use).

Fairness is assumed in two modules only, since elsewhere an operation may always
fail or its process die. In `SshTerminal` the reader, the streaming thread, a poll
that has begun, a close that has the lock, and a request that has connected go on:
each loop sleeps for a fixed time, the wait for the reader has a timeout of two
seconds, and Python's threads are scheduled. Weak fairness is enough, because each
of these steps stays enabled until it is taken. Nobody has to connect, write, poll
or close, and a waiting closer need not get the lock. In `Daemons` a stop that has
begun goes on (its loop counts to twenty) unless its environment has crashes, and
the system ends a process that was sent SIGKILL; one that was sent SIGTERM may take
any time.

## Findings

Two runs show the code doing something other than it says; `PROJECT.json`
quotes the texts.

- `SyncMerge`: a pull without `overwrite` never brings an update of a secret that
  the client has, and records the bundle as pulled.
- `PersonalPasswd`: `passwd` re-encrypts the personal secrets, and neither the
  private key of the identity nor the wrapped vault keys. The next unlock of a
  vault row that is wrapped for the public key takes the private key, which it
  cannot decrypt, for one that is not encrypted; it decodes the ciphertext,
  encrypts that and writes it back. The key is gone, whatever password is set then.

Nine more are shown by configurations that are not among the runs, each of which
TLC finds violated within seconds:

- `VaultRace` (`MCVault`, `SecretsUnderCurrentKey`): a secret saved while a rotation
  is under way stays under the old key (`vault.py:768`), though "Re-encrypts all
  secrets" (`vault.py:745`).
- `VaultUpdate` (`MCVault`, `UpdatesAreNotReverted`): an update that commits between a
  rotation's SELECT and its first UPDATE is replaced by the older value
  (`vault.py:776`).
- `VaultRewrap` (`MCVault`, `HoldersReachCurrentKey`): a member's unlock can overwrite
  the new key, which a rotation just wrote to his row, with the old one
  (`vault.py:557`).
- `VaultCache` (`MCVault`, `SecretsUnderCurrentKey`): without any overlap of operations,
  a web UI that unlocked a vault before a rotation by a command stores secrets under
  the old key (`vault.py:520`).
- `VaultKeyless` (`MCVault`, `EveryMemberCanOpen`): a member added without a public key
  gets a key wrapped for the admin who added him, and can never open the vault
  (`vault.py:683`).
- `SyncOverlap` (`MCSync`, `VersionNamesBundle`): two pushes handled at once are both
  acknowledged with the same version, for different bundles (`server.py:141`).
- `SyncFragile` (`MCSync`, `KnownMeansImported`): rows that an import failed to write are
  counted and forgotten, and the next automatic pull reports that the vault is up to
  date (`sync_client.py:312`).
- `AuditTorn` (`MCAuditLog`, `Monotonic`): 512 bytes are "enough for one JSONL record"
  (`audit.py:290`), but not for a record, a scrap that a torn write left behind it and
  the next record, which continues the scrap's line. With records of more than a third
  of them the process that starts next finds no number, and begins again at 1 in the
  same file.
- `AuditShared` (`MCAuditLog`, `Monotonic`): two processes at once give the same numbers
  (`audit.py:171`).

What the environments of the other modules exclude from a property is equally what
the code does, where no text of the repository promises more:

- *Personal store.* Two first uses at once draw two salts; a setup that dies
  before the hash is written, or is on its way, leaves the web UI to accept whatever password opens some
  row; a password mistyped in a command encrypts under it; a web UI that was signed in before
  `passwd` goes on writing under the old password, and a `passwd` that dies after
  the hash leaves rows that only the old password opens, which `Unlock` accepts and
  `Login` does not.
- *Registry.* A command and a web UI, or two commands at once, lose each other's
  vaults, as each saves its own copy whole. A process that dies in
  `_save_registry` leaves a file that no later command loads; one that dies in
  `delete_vault` or `create_vault` leaves a name that can be neither deleted nor
  created. An invite that is called one-time can be accepted again, also over a
  vault of the user's own with the same name, whose key it replaces.
- *Terminal.* Output queued when a close begins may be dropped. A reader that fails
  leaves the terminal connected and the streaming thread running until a request
  closes it, and a browser that goes away closes nothing.
- *Audit log.* Two processes, a torn write beside a record of more than a third of the
  window, and a record longer than it make numbers repeat. A failed write uses its number
  up, so that a gap, which `audit.py:96` says shows a removed line, may show
  nothing. Failed rotations make the next one drop an archive too many.
- *Daemons.* `server start` looks for a child that has failed with
  `os.kill(pid, 0)`, which succeeds on a zombie: its message "Server failed to
  start" (`commands/server.py:130`) cannot appear. `server stop` signals whatever
  process has the pid. Two starts at once may leave a daemon that no file names.

`Sync` shows more that no text rules out: a push replaces what another client pushed
since the last pull, a deleted secret comes back with the next pull, and after a
change of token nobody can import the stored bundle until somebody pushes again.

## Proofs

Every theorem holds for any numbers of users, processes, threads, names, ids, values
and chunks, and any bounds. The only assumptions about constants are the `...Assumption`
of each module, which say what a constant is, and the hypotheses named here, which
are about the environment: without them the findings are counterexamples. In the
modules with the variable `env` there are no hypotheses at all: the properties name the
environments for which they hold, and the theorems are about every set of them.

Each safety theorem has the same form: a type invariant and an inductive
invariant hold at the start and after each step (one lemma for each group of
actions), and imply the property. What follows is why the property is not enough by
itself. `SerialInv` and `PathInv` are checked by the runs, too; the other inductive
invariants are not, since the runs check what they imply: each of them also holds
as an INVARIANT of the run of its module, to which it can be added.

**`VaultProofs`**

- `TypeCorrect`: `Spec => []TypeOK`.
- `SerialCorrect`: if operations run one at a time (`Exclusive`) and no manager
  outlives its operation (`LongLived = {}`), `Spec => []SerialInv`.
- `RotationIsComplete`: then `Spec => []SecretsUnderCurrentKey`.
- `HoldersKeepAccess`: then, if keypairs are not renewed (`MaxGen = 1`),
  `Spec => []HoldersReachCurrentKey`, also with members added without a key.

"Every secret is under the newest key" is not inductive: the transaction of a rotation
re-encrypts only the secrets it fetched earlier and only those that the key it unlocked
earlier opens, and a save writes under a key read some steps before. `SerialInv` adds
what relates these: only one thread is inside an operation (`OneRuns`), which needs the
key if it unlocks (`UnlockWanted`), no other process has a key cached and this one the
newest (`CacheFresh`), the key in a local variable is the newest (`HeldKeyFresh`), what a
rotation fetched is still in the table (`SnapFresh`), and every row with a public key
holds the newest key locked for its owner, while a row without one is locked for
somebody else (`RowsFresh`), so that whoever opens a row gets the newest key. An
operation that ends brings the vault back to a state in which nothing is in flight
(`ReturnSerial`, `QuietSerial`).

**`VaultRefinement`**

- `RotationReaches`, `RotationKeeps`: the action properties `RotationReachesHolders` and
  `RotationKeepsTheTable`, in every environment: no number of interleaved operations and
  crashes makes a commit miss a member's row, drop a secret or revive one.
- `PermitCorrect`: under `Exclusive` and `LongLived = {}`, `Spec => []CallerPermitted`. The
  roles change in three transactions only, each the last of its operation, or, in
  a removal, followed by a rotation; there the caller is not who is removed.
- `MembersCorrect`, `SecretsStayReadable`: then, if everybody is added with a public key
  (`~KeylessAdds`), somebody always is a member, and if keypairs are not renewed
  either, every secret can be read by some member. The second
  follows from `MembersHoldKeys`, `HoldersReachCurrentKey` and `SecretsUnderCurrentKey`.
- `VaultImplements`: under `Exclusive` and `LongLived = {}`, `Spec => ImplementsTeamVault`. The
  abstract value of an id is what its row decrypts to; a step of a vault is a step of
  `TeamVault` by the same user, or leaves contents and roles alone. That a rotation
  is of the second kind takes `SnapFresh` and `HeldKeyFresh`; that the abstract step is
  permitted takes `CallerPermitted`.

**`StoreProofs`**: `TypeCorrect`, `StoreCorrect`, `RowsCorrect`, `PasswordCorrect`, `WebCorrect`
(`PersonalStore`), `TeamCorrect`, `PasswordOpens` (`Identity`), `StoreImplements`
(`Spec => KeepsContents`). A key is a password and a salt, and both change on disk while
threads hold older ones. `StoreInv` says which locals a thread has at each point
(`LocalInv`), that a setup without a rival draws the only salt (`SetupInv`), that
passwords come from the user, one step back from where they are used (`KnownInv`), that
what a change of password has read is still there (`SnapInv`), and that in orderly
environments every key in use is the one of the hash on file, except between the two
halves of a change (`OrderlyInv`). `TeamInv` adds that nobody is a member without an
identity, and that without a change of password there is one password, so one key. For
`KeepsContents`, `SnapInv` makes `Reencrypt` a stutter of `SecretMap`; each other write is
one of its actions.

**`SyncProofs`**

- `TypeCorrect`, `KnownCorrect`: `Spec => []KnownInv`, in every environment; so each client
  has had what it is known to have, rows in `Fragile` apart.
- `ImportedCorrect`: if every row can be written (`Fragile = {}`), `Spec => []KnownMeansImported`.
  A bundle passes through the request, the table, the answer and the client before
  it counts as imported; `KnownInv` follows it: an answer in flight names a bundle that
  exists (`AnswerInv`), each client waits for a thread of its own that answers what it
  asked (`ConnInv`), and what a client records or is about to record it has had (`HadInv`).
- `VersionCorrect`, and under `~Overlap` (requests one at a time) `NamesCorrect`
  (`VersionNamesBundle`) and `BlobStoreImplemented` (`ImplementsBlobStore`). `VersionInv` says
  that the row a push has read is the one on disk when it writes, and relates
  every acknowledgement, on its way or received, to the row.

**`TerminalProofs`**: `TypeCorrect`, `CloseCorrect`, `ToldCorrect`, `GoneCorrect`, `PathCorrect`,
`PipeCorrect` (`Spec => ImplementsPipe`), for any pollers, closers and chunks. `CloseInv`
relates the place of each closer to the two flags and the table. For `PipeCorrect`, the
path of a chunk (what the browser has, what the streaming thread holds, the queue) is
one sequence, of which the reader extends the end and a poller takes the first
chunk of the last part out; `PathInv` says that it is sorted, and complete but for what
pollers took. `ThreeParts`, `RangeAppend`, `PrefixOfConcat` are lemmas about sequences.

**`RegistryProofs`**: `TypeCorrect`, `RegistryCorrect`, `NamesCorrect`, `CacheCorrect`, `RowsCorrect`.
Between operations the registry, the copies and the databases agree; inside one they do
not, since databases change first and the registry last. `RegistryInv` states the agreement
with what is still to be entered or forgotten filled in (`Entered`), and that a cached
key outlives its vault only until the registry is written (`CacheOf`).

**`DaemonsProofs`**: `TypeCorrect`, `DaemonsCorrect`, `PidCorrect`, `SpareCorrect`. The pid file is
written and removed at other steps than those at which daemons are born and die;
`Expected` says of each place in a command which daemon there can be that nobody has told
to end: none, the one the command holds, or the one of the file.

**`AuditProofs`**: `TypeCorrect`, `AuditCorrect`, `NumbersCorrect`, `OwnNumbersCorrect`, for a
window, records and files of any size. A process that starts takes the last number it
finds in the window at the end of the log. `LogInv` says that at most one line is scrap,
`SizeInv` how long the lines are, and `SeqInv` that no record of the log has a number
beyond that of the process that writes next. That the window holds a record if the log
does follows from the first two where `WindowFits`: without scrap the last line is a
record and fits; with scrap, and all records at most a third of the window, what is
glued has two thirds at most, so that it fits together with the record before
it. `AuditTorn` shows that this bound cannot be dropped.
A greatest element exists by `WFMin` of the library, applied to the numbers above it.

Model-checked only:

- `CloseEndsThreads`, `LockIsFreed`, `OutputArrives`, `StopEnds`: liveness. The proof system
  handles neither fairness nor `ENABLED`.
- `KeepsRecords`: `BoundedLog` compares the records of all archives, one after the other, and
  that is a flattening and a selection, recursive over data; their values for
  every input cannot be proved, since no induction theorem of the library can be applied.


## Limits

`Vault` leaves out the audit rows, whose failure is swallowed and which no
operation reads; migrations of old databases; labels and time stamps; `list_*`
operations, which write nothing. A uuid that repeats is taken as impossible.
Power loss below SQLite's commit is SQLite's concern.

`Sync` leaves out bundles in a shared directory; the vault that a first import
creates; rows that an export skips because the vault key does not open them (keys
are `Vault`'s subject); creation of tokens; the rows of `server_audit`; two
commands of one client at the same time. Two exports never have the same bytes,
since each draws a new salt, so only a repeated push finds its own content stored.

`PersonalStore` writes each small file in one step, so that a torn salt or hash is
not a state; the copy of a legacy configuration is left out. `Identity` has one
identity that is not renewed (`Vault` renews keypairs) and one vault.

`Registry` has one thread in the web UI; its automatic pushes and pulls make
managers of their own, which are commands there. Creation writes the vault's salt
and key files and its database in one step: no operation reads the files.

`SshTerminal` has no text: a chunk that is empty once escape sequences are removed
is not queued by the code, and is not written in the model. The remote side may fall
silent but its end is not told from silence, as the reader does not tell them
apart either (`recv_ready` is false).

`AuditLog` has at most one torn write in a behaviour. A torn line ends anywhere but
just before its newline. `Daemons` knows the user's own processes; that web stop
also refuses those of others is not modelled. Pids are reused only while no command
runs.

Not modelled, with the reason: `strength.py` and `validators.py`, pure functions of
one string whose correctness is a table of examples; `helpers.py`, `ssh_utils.py`,
`linklyhq.py`, `log.py`, `cli.py` and the commands `ssh` and `ai`: prompts, output and
calls of other programs, without state of the program's own.
