-------------------------------- MODULE Sync --------------------------------
(***************************************************************************)
(* Clients that share a team vault through the sync server: each has its   *)
(* own copy of the vault (vault.db), edits it, and pushes and pulls        *)
(* bundles (sinduk/sync_client.py, commands/sync.py, and the export and    *)
(* import of vault.py).  The server is module SyncServer.                  *)
(*                                                                         *)
(* A secret is known by its revision, the moment of its last edit, which   *)
(* stands for its value and its update_time.  A bundle is the map from ids *)
(* to revisions that an export found, encrypted with the token of the      *)
(* client that pushes it; its number is its checksum.  Keys, members and   *)
(* the vault's own encryption are module Vault's subject.                  *)
(***************************************************************************)
EXTENDS SyncServer, Sequences

CONSTANTS
    Client,      \* machines with a copy of the vault, one command at a time each
    NoHandler,   \* no connection
    Id,          \* secret ids
    Fragile,     \* ids whose row an import may fail to write
    MaxEdit      \* bound on the edits of all clients

ASSUME SyncAssumption ==
    /\ NoHandler \notin Handler
    /\ Fragile \subseteq Id
    /\ MaxEdit \in Nat

VARIABLES
    token,       \* the token in each client's configuration
    local,       \* the secrets table of each client: id -> revision, 0 for none
    gone,        \* ids a client has deleted from its table
    clock,       \* edits made so far
    bundles,     \* the bundles exported so far
    step,        \* where each client is in a push or pull
    conn,        \* the server thread it waits for
    got,         \* the bundle it has imported, 0 for none
    pulled,      \* last_pull_checksum, 0 for none
    pushed       \* last_push_version, last_push_checksum

clientVars == <<token, local, gone, clock, bundles, step, conn, got, pulled, pushed>>
vars == <<serverVars, clientVars>>

Revision == 0..MaxEdit
Content == [Id -> Revision]
Bundle == [lock : Token, secrets : Content]
ClientStep == {"idle", "pushing", "pulling", "imported"}

TypeOK ==
    /\ ServerTypeOK
    /\ token \in [Client -> Token \cup {NoToken}]
    /\ local \in [Client -> Content]
    /\ gone \in [Client -> SUBSET Id]
    /\ clock \in Revision
    /\ bundles \in Seq(Bundle) /\ Len(bundles) <= MaxBlob
    /\ step \in [Client -> ClientStep]
    /\ conn \in [Client -> Handler \cup {NoHandler}]
    /\ got \in [Client -> 0..MaxBlob]
    /\ pulled \in [Client -> 0..MaxBlob] /\ pushed \in [Client -> Result]

Init ==
    /\ ServerInit
    /\ token = [c \in Client |-> NoToken]
    /\ local = [c \in Client |-> [i \in Id |-> 0]]
    /\ gone = [c \in Client |-> {}]
    /\ clock = 0
    /\ bundles = <<>>
    /\ step = [c \in Client |-> "idle"]
    /\ conn = [c \in Client |-> NoHandler]
    /\ got = [c \in Client |-> 0]
    /\ pulled = [c \in Client |-> 0]
    /\ pushed = [c \in Client |-> NoResult]

Goto(c, s) == step' = [step EXCEPT ![c] = s]

\* The command ends; its locals die.
Finish(c) ==
    /\ Goto(c, "idle")
    /\ conn' = [conn EXCEPT ![c] = NoHandler]
    /\ got' = [got EXCEPT ![c] = 0]

\* sync config set.
Configure(c, k) ==
    /\ step[c] = "idle"
    /\ k # token[c]
    /\ token' = [token EXCEPT ![c] = k]
    /\ UNCHANGED <<serverVars, local, gone, clock, bundles, step, conn, got, pulled, pushed>>

-----------------------------------------------------------------------------
(* Edits.  Each is followed by auto_push_vault: a Push, or none if there is  *)
(* no configuration or the command fails.                                  *)

Edit(c, i, r) ==
    /\ step[c] = "idle"
    /\ local' = [local EXCEPT ![c][i] = r]
    /\ UNCHANGED <<serverVars, token, bundles, step, conn, got, pulled, pushed>>

\* The new row is stamped with the time.
Stamp(c, i) ==
    /\ clock < MaxEdit
    /\ clock' = clock + 1
    /\ Edit(c, i, clock + 1)
    /\ UNCHANGED gone

\* save_secret draws an id that no client has ever had.
Add(c, i) ==
    /\ \A d \in Client : local[d][i] = 0 /\ i \notin gone[d]
    /\ Stamp(c, i)

Update(c, i) ==
    /\ local[c][i] # 0
    /\ Stamp(c, i)

Delete(c, i) ==
    /\ local[c][i] # 0
    /\ Edit(c, i, 0)
    /\ gone' = [gone EXCEPT ![c] = @ \cup {i}]
    /\ UNCHANGED clock

-----------------------------------------------------------------------------
(* Push.                                                                   *)

\* export_vault_backup and the POST of push_to_server, in a command of its own or after an edit.
Push(c, h) ==
    LET b == Len(bundles) + 1 IN
    /\ step[c] = "idle"
    /\ token[c] # NoToken
    /\ b <= MaxBlob
    /\ bundles' = Append(bundles, [lock |-> token[c], secrets |-> local[c]])
    /\ Receive(h, [kind |-> "push", token |-> token[c], blob |-> b])
    /\ conn' = [conn EXCEPT ![c] = h]
    /\ Goto(c, "pushing")
    /\ UNCHANGED <<token, local, gone, clock, got, pulled, pushed>>

\* The answer arrives.  The command goes on if it is 200, else it ends.
Answered(c) ==
    /\ conn[c] # NoHandler /\ phase[conn[c]] = "done"
    /\ Release(conn[c])

\* The rest of push_to_server and update_sync_status.
PushAnswered(c) ==
    LET r == result[conn[c]] IN
    /\ step[c] = "pushing"
    /\ Answered(c)
    /\ pushed' = IF r.code = 200 THEN [pushed EXCEPT ![c] = r] ELSE pushed
    /\ Finish(c)
    /\ UNCHANGED <<token, local, gone, clock, bundles, pulled>>

-----------------------------------------------------------------------------
(* Pull.                                                                   *)

\* The checksum that auto_pull_vault sends: that of the last pull, if any.
Known(c) == IF pulled[c] # 0 THEN pulled[c] ELSE pushed[c].blob

\* auto_pull_vault sends If-None-Match, sync pull does not.
Pull(c, h, auto) ==
    /\ step[c] = "idle"
    /\ token[c] # NoToken
    /\ Receive(h, [kind |-> "pull", token |-> token[c], blob |-> IF auto THEN Known(c) ELSE 0])
    /\ conn' = [conn EXCEPT ![c] = h]
    /\ Goto(c, "pulling")
    /\ UNCHANGED <<token, local, gone, clock, bundles, got, pulled, pushed>>

\* What import_vault_backup leaves in the table for one id: a merge skips ids
\* that exist, and nothing is ever deleted.
Imported(mine, theirs, overwrite) ==
    IF theirs # 0 /\ (mine = 0 \/ overwrite) THEN theirs ELSE mine

\* import_vault_backup, one transaction.  A row whose statement raises is counted
\* as an error and the import goes on.
Import(c, n, overwrite) ==
    \E failed \in SUBSET Fragile :
        LET theirs == [i \in Id |-> IF i \in failed THEN 0 ELSE bundles[n].secrets[i]]
        IN  /\ local' = [local EXCEPT ![c] =
                            [i \in Id |-> Imported(@[i], theirs[i], overwrite)]]
            /\ gone' = [gone EXCEPT ![c] = {i \in @ : theirs[i] = 0}]
            /\ got' = [got EXCEPT ![c] = n]

\* A bundle is imported if its lock is this client's token.
PullAnswered(c, overwrite) ==
    LET r == result[conn[c]] IN
    /\ step[c] = "pulling"
    /\ Answered(c)
    /\ IF r.code = 200 /\ bundles[r.blob].lock = token[c]
       THEN /\ Import(c, r.blob, overwrite)
            /\ Goto(c, "imported")
            /\ conn' = [conn EXCEPT ![c] = NoHandler]
       ELSE /\ Finish(c)
            /\ UNCHANGED <<local, gone>>
    /\ UNCHANGED <<token, clock, bundles, pulled, pushed>>

\* Variant: the checksum is asked of the server once the import is done.
RecordLatest(c) ==
    /\ step[c] = "imported"
    /\ pulled' = [pulled EXCEPT ![c] = stored]
    /\ Finish(c)
    /\ UNCHANGED <<serverVars, token, local, gone, clock, bundles, pushed>>

\* update_sync_status after a pull.
RecordPull(c) ==
    /\ step[c] = "imported"
    /\ pulled' = [pulled EXCEPT ![c] = got[c]]
    /\ Finish(c)
    /\ UNCHANGED <<serverVars, token, local, gone, clock, bundles, pushed>>

-----------------------------------------------------------------------------

\* A timeout, an error or a crash ends the command between two steps; the
\* server goes on with a request it has received.
GiveUp(c) ==
    /\ step[c] # "idle"
    /\ Finish(c)
    /\ UNCHANGED <<serverVars, token, local, gone, clock, bundles, pulled, pushed>>

\* Nobody waits for the answer any more.
DropAnswer(h) ==
    /\ \A c \in Client : conn[c] # h
    /\ Release(h)
    /\ UNCHANGED clientVars

\* A proxy repeats a push whose answer it has not passed on.
RepeatPush(g, h) ==
    /\ Repeats /\ request[g].kind = "push"
    /\ Receive(h, request[g])
    /\ UNCHANGED clientVars

ServerStep ==
    /\ \/ \E h \in Handler : HandlerStep(h)
       \/ \E k \in Token : Revoke(k)
    /\ UNCHANGED clientVars

\* The connections to a server that dies break.
Restart ==
    /\ ServerRestart
    /\ step' = [c \in Client |-> IF conn[c] = NoHandler THEN step[c] ELSE "idle"]
    /\ conn' = [c \in Client |-> NoHandler]
    /\ UNCHANGED <<token, local, gone, clock, bundles, got, pulled, pushed>>

ClientNext(c) ==
    \/ \E k \in Token : Configure(c, k)
    \/ \E i \in Id : Add(c, i) \/ Update(c, i) \/ Delete(c, i)
    \/ \E h \in Handler : Push(c, h)
    \/ PushAnswered(c)
    \/ \E h \in Handler, auto \in BOOLEAN : Pull(c, h, auto)
    \/ \E overwrite \in BOOLEAN : PullAnswered(c, overwrite)
    \/ RecordPull(c) \/ GiveUp(c)

Next ==
    \/ \E c \in Client : ClientNext(c)
    \/ ServerStep \/ Restart
    \/ \E h \in Handler : DropAnswer(h)
    \/ \E g, h \in Handler : RepeatPush(g, h)

Spec == Init /\ [][Next]_vars

-----------------------------------------------------------------------------
(* Properties.                                                             *)

\* A client that will be told "304, up to date" for a bundle has had every
\* secret of it in its own table, whatever was lost, repeated or interrupted.
KnownMeansImported ==
    \A c \in Client : Known(c) # 0 =>
        \A i \in Id : bundles[Known(c)].secrets[i] # 0 => local[c][i] # 0 \/ i \in gone[c]

\* Two pushes acknowledged with the same version stored the same bundle: the
\* version that sync status shows tells a client whose bundle the server has.
VersionNamesBundle ==
    \A c, d \in Client :
        pushed[c].version = pushed[d].version => pushed[c].blob = pushed[d].blob

\* A pull leaves the client with a revision at least as new as the bundle's.
PulledUpdatesArrive ==
    [][\A c \in Client :
          step[c] = "pulling" /\ step'[c] = "imported"
          => \A i \in Id : local'[c][i] >= bundles[got'[c]].secrets[i]]_vars

\* The row of the server is a register with a version counter.
Store == INSTANCE BlobStore
    WITH Blob <- 1..MaxBlob, Nothing <- 0, blob <- stored, number <- version

ImplementsBlobStore == Store!BSpec

-----------------------------------------------------------------------------
(* Why they hold: the inductive invariants behind them.                    *)

\* Bundle n held no secret that c has not had, rows that cannot be written apart.
Had(c, n) ==
    \A i \in Id \ Fragile :
        bundles[n].secrets[i] # 0 => local[c][i] # 0 \/ i \in gone[c]

Exported == 1..Len(bundles)

\* The server names only bundles that were exported, and answers a push with the
\* bundle of its own request.
AnswerInv ==
    /\ stored \in Exported \cup {0} /\ (stored = 0 <=> version = 0)
    /\ \A h \in Handler :
        /\ request[h].blob \in Exported \cup {0}
        /\ request[h].kind = "push" => request[h].blob # 0
        /\ phase[h] \in {"push", "write"} => request[h].kind = "push"
        /\ phase[h] = "pull" => request[h].kind = "pull"
        /\ result[h].code = 200 =>
            /\ phase[h] = "done" /\ result[h].blob \in Exported
            /\ request[h].kind = "push" => result[h].blob = request[h].blob

\* A client waits for a thread of its own, which has its request.
ConnInv ==
    \A c \in Client :
        /\ step[c] \in {"pushing", "pulling"} <=> conn[c] # NoHandler
        /\ conn[c] # NoHandler =>
            /\ phase[conn[c]] # "free"
            /\ \A d \in Client : conn[d] = conn[c] => d = c
        /\ step[c] = "pushing" =>
            request[conn[c]].kind = "push" /\ Had(c, request[conn[c]].blob)

\* What a client records of a push or pull is a bundle that it has had.
HadInv ==
    \A c \in Client :
        /\ step[c] = "imported" => got[c] \in Exported /\ Had(c, got[c])
        /\ pulled[c] # 0 => pulled[c] \in Exported /\ Had(c, pulled[c])
        /\ pushed[c].blob # 0 => pushed[c].blob \in Exported /\ Had(c, pushed[c].blob)

KnownInv == AnswerInv /\ ConnInv /\ HadInv

\* What the server has told, and clients remember, of versions and bundles.
Told == {pushed[c] : c \in Client} \cup {result[h] : h \in {h \in Handler : result[h].code = 200}}

\* With requests one at a time a row that was read is still the one on disk when
\* it is written, so that a version is given out once.
VersionInv ==
    ~Overlap =>
        /\ \A g, h \in Handler : phase[g] \notin {"free", "done"} /\ phase[h] \notin {"free", "done"} => g = h
        /\ \A h \in Handler : phase[h] = "write" =>
            /\ result[h].version = version
            /\ stored # request[h].blob
        /\ \A x \in Told : x.version <= version /\ (x.version = version => x.blob = stored)
        /\ \A x, y \in Told : x.version = y.version => x.blob = y.blob

=============================================================================
