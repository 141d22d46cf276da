--------------------------- MODULE PersonalStore ----------------------------
(***************************************************************************)
(* The personal store of one user (sinduk/store.py), the commands that use *)
(* it and the change of the master password (commands/admin.py), and the   *)
(* web UI (web/app.py), one process whose threads share a SecretStore.     *)
(*                                                                         *)
(* A step is one access to a file, one SQLite transaction or one           *)
(* assignment to the shared fernet.  Key [password, salt] is what          *)
(* _derive_fernet makes of them; a row is a value encrypted under a key,   *)
(* and another key does not open it.                                       *)
(***************************************************************************)
EXTENDS Naturals, FiniteSets

CONSTANTS
    Password, NoPassword,
    Id, Value, NoValue,
    Command,         \* processes that run one sinduk command at a time
    WebThread,       \* threads of the web UI
    Web,             \* its process
    Environments,    \* what may happen in a behaviour: sets of the words below
    MaxSalt          \* bound on the salts drawn

\* "fresh": no password is set yet.  "overlap": operations interleave.
\* "crash": processes die.  "typo": a prompt gets a wrong password, or, if
\* "old", one that the user had before.
\* "web": the web UI runs.  "passwd": the master password is changed.
Hazard == {"fresh", "overlap", "crash", "typo", "old", "web", "passwd", "team"}

ASSUME StoreAssumption ==
    /\ NoPassword \notin Password /\ NoValue \notin Value
    /\ Command \cap WebThread = {} /\ Web \notin Command
    /\ Environments \subseteq SUBSET Hazard
    /\ MaxSalt \in Nat \ {0}

VARIABLES
    env,         \* what may happen in this behaviour
    salt,        \* salt.bin, 0 for no file
    marker,      \* salt.bin.set exists
    hash,        \* the password in password_hash.bin, NoPassword for no file
    rows,        \* table secrets
    backup,      \* the last exported backup
    fernet,      \* the fernet of each process's SecretStore
    signedIn,    \* the browser's session holds "authenticated"
    pc,          \* where each thread is
    typed,       \* the password its prompt has got
    seen,        \* the salt its get_salt has returned
    snap,        \* all_secrets of a change of password
    known        \* passwords the user has chosen so far

files == <<salt, marker, hash, rows, backup>>
storeVars == <<env, files, fernet, signedIn, pc, typed, seen, snap, known>>

Thread == Command \cup WebThread
Proc(t) == IF t \in WebThread THEN Web ELSE t
Key == [password : Password, salt : 1..MaxSalt]
NoKey == [password |-> NoPassword, salt |-> 0]
Row == [value : Value, key : Key]
NoRow == [value |-> NoValue, key |-> NoKey]
Content == [Id -> Value \cup {NoValue}]
NoContent == [i \in Id |-> NoValue]
Phase == {"idle", "salt", "newsalt", "confirm", "hash", "cache", "login",
          "ready", "newpassword", "newhash", "reencrypt", "identity", "rewrap"}

StoreTypeOK ==
    /\ env \in Environments
    /\ salt \in 0..MaxSalt /\ marker \in BOOLEAN
    /\ hash \in Password \cup {NoPassword}
    /\ rows \in [Id -> Row \cup {NoRow}]
    /\ backup \in Content
    /\ fernet \in [Command \cup {Web} -> Key \cup {NoKey}]
    /\ signedIn \in BOOLEAN
    /\ pc \in [Thread -> Phase]
    /\ typed \in [Thread -> Password \cup {NoPassword}]
    /\ seen \in [Thread -> 0..MaxSalt]
    /\ snap \in [Thread -> Content]
    /\ known \subseteq Password

\* A user who has not run sinduk yet, or one who has set his password.
StoreInit ==
    /\ env \in Environments
    /\ \/ "fresh" \in env /\ salt = 0 /\ hash = NoPassword /\ known = {}
       \/ "fresh" \notin env /\ salt = 1 /\ hash \in Password /\ known = {hash}
    /\ marker = ("fresh" \notin env)
    /\ rows = [i \in Id |-> NoRow]
    /\ backup = NoContent
    /\ fernet = [p \in Command \cup {Web} |-> NoKey]
    /\ signedIn = FALSE
    /\ pc = [t \in Thread |-> "idle"]
    /\ typed = [t \in Thread |-> NoPassword]
    /\ seen = [t \in Thread |-> 0]
    /\ snap = [t \in Thread |-> NoContent]

-----------------------------------------------------------------------------

Goto(t, p) == pc' = [pc EXCEPT ![t] = p]
Derived(p, s) == [password |-> p, salt |-> s]
Opens(k, i) == rows[i] # NoRow /\ rows[i].key = k

\* A thread may start: it is there, and operations interleave or none runs.
Free(t) ==
    /\ pc[t] = "idle"
    /\ t \in WebThread => "web" \in env
    /\ "overlap" \in env \/ \A u \in Thread : pc[u] = "idle"

\* What the user may type where his password is asked for.
MayType ==
    {p \in Password : \/ p = hash
                      \/ p \in known /\ ("old" \in env \/ hash = NoPassword)
                      \/ "typo" \in env}

\* The operation ends.  A command's process ends with it.
Finish(t) ==
    /\ Goto(t, "idle")
    /\ typed' = [typed EXCEPT ![t] = NoPassword]
    /\ seen' = [seen EXCEPT ![t] = 0]
    /\ snap' = [snap EXCEPT ![t] = NoContent]
    /\ fernet' = IF t \in Command THEN [fernet EXCEPT ![t] = NoKey] ELSE fernet

-----------------------------------------------------------------------------
(* Setting the first password: setup_first_run, set_master_password and,   *)
(* in the web UI, setup_init.                                              *)

StartSetup(t) ==
    /\ Free(t) /\ ~marker
    /\ Goto(t, "salt")
    /\ UNCHANGED <<env, files, fernet, signedIn, typed, seen, snap, known>>

\* Variant: get_salt is taken to have found a file.
FindSaltAlways(t) ==
    /\ pc[t] = "salt"
    /\ seen' = [seen EXCEPT ![t] = salt]
    /\ Goto(t, "confirm")
    /\ UNCHANGED <<env, files, fernet, signedIn, typed, snap, known>>

\* get_salt finds the file, or will write one.
FindSalt(t) ==
    /\ pc[t] = "salt"
    /\ seen' = [seen EXCEPT ![t] = salt]
    /\ Goto(t, IF salt = 0 THEN "newsalt" ELSE "confirm")
    /\ UNCHANGED <<env, files, fernet, signedIn, typed, snap, known>>

WriteSalt(t) ==
    /\ pc[t] = "newsalt" /\ salt < MaxSalt
    /\ salt' = salt + 1
    /\ seen' = [seen EXCEPT ![t] = salt + 1]
    /\ Goto(t, "confirm")
    /\ UNCHANGED <<env, marker, hash, rows, backup, fernet, signedIn, typed, snap, known>>

\* The user has chosen p; the marker is written before the hash.
Confirm(t, p) ==
    /\ pc[t] = "confirm"
    /\ typed' = [typed EXCEPT ![t] = p]
    /\ known' = known \cup {p}
    /\ marker' = TRUE
    /\ Goto(t, "hash")
    /\ UNCHANGED <<env, salt, hash, rows, backup, fernet, signedIn, seen, snap>>

WriteHash(t) ==
    /\ pc[t] = "hash"
    /\ hash' = typed[t]
    /\ Goto(t, "cache")
    /\ UNCHANGED <<env, salt, marker, rows, backup, fernet, signedIn, typed, seen, snap, known>>

\* A command goes on with what it was called for; the web UI has signed in.
CacheFirst(t) ==
    /\ pc[t] = "cache"
    /\ fernet' = [fernet EXCEPT ![Proc(t)] = Derived(typed[t], seen[t])]
    /\ signedIn' = (signedIn \/ t \in WebThread)
    /\ Goto(t, IF t \in WebThread THEN "idle" ELSE "ready")
    /\ typed' = [typed EXCEPT ![t] = NoPassword]
    /\ seen' = [seen EXCEPT ![t] = 0]
    /\ UNCHANGED <<env, files, snap, known>>

-----------------------------------------------------------------------------
(* Getting the key.                                                        *)

\* A command: require_fernet derives the key of whatever is typed.
Unlock(t, p) ==
    /\ t \in Command /\ Free(t) /\ marker
    /\ p \in MayType
    /\ fernet' = [fernet EXCEPT ![t] = Derived(p, salt)]
    /\ Goto(t, "ready")
    /\ UNCHANGED <<env, files, signedIn, typed, seen, snap, known>>

\* Variant: any password that opens a row will do.
VerifiesAnyRow(p) ==
    p = hash \/ \E i \in Id : Opens(Derived(p, salt), i)

\* verify_master_password: the hash, or without one the first row, decides.
Verifies(p) ==
    IF hash # NoPassword THEN p = hash
    ELSE \E i \in Id : Opens(Derived(p, salt), i)

Login(t, p) ==
    /\ t \in WebThread /\ Free(t) /\ marker
    /\ p \in MayType
    /\ Verifies(p)
    /\ typed' = [typed EXCEPT ![t] = p]
    /\ signedIn' = TRUE
    /\ Goto(t, "login")
    /\ UNCHANGED <<env, files, fernet, seen, snap, known>>

\* require_fernet(password) in login: a cached key is kept.
CacheLogin(t) ==
    /\ pc[t] = "login"
    /\ fernet' = [fernet EXCEPT ![Web] =
                    IF @ = NoKey THEN Derived(typed[t], salt) ELSE @]
    /\ typed' = [typed EXCEPT ![t] = NoPassword]
    /\ Goto(t, "idle")
    /\ UNCHANGED <<env, files, signedIn, seen, snap, known>>

\* The key outlives the session.
Logout(t) ==
    /\ t \in WebThread /\ Free(t) /\ signedIn
    /\ signedIn' = FALSE
    /\ UNCHANGED <<env, files, fernet, pc, typed, seen, snap, known>>

\* require_auth: without a key the session ends.
Request(t) ==
    /\ t \in WebThread /\ Free(t) /\ signedIn
    /\ IF fernet[Web] = NoKey
       THEN signedIn' = FALSE /\ UNCHANGED pc
       ELSE Goto(t, "ready") /\ UNCHANGED signedIn
    /\ UNCHANGED <<env, files, fernet, typed, seen, snap, known>>

-----------------------------------------------------------------------------
(* What commands and requests do with the key.                             *)

Held(t) == fernet[Proc(t)]

WriteRows(t, new) ==
    /\ pc[t] = "ready"
    /\ rows' = new
    /\ Finish(t)
    /\ UNCHANGED <<env, salt, marker, hash, backup, signedIn, known>>

Save(t, i, v) ==
    /\ rows[i] = NoRow
    /\ WriteRows(t, [rows EXCEPT ![i] = [value |-> v, key |-> Held(t)]])

Update(t, i, v) ==
    /\ rows[i] # NoRow
    /\ WriteRows(t, [rows EXCEPT ![i] = [value |-> v, key |-> Held(t)]])

Delete(t, i) ==
    /\ rows[i] # NoRow
    /\ WriteRows(t, [rows EXCEPT ![i] = NoRow])

Readable(k) == {i \in Id : Opens(k, i)}

\* Rows that the key does not open are left out of the backup.
Export(t) ==
    /\ pc[t] = "ready"
    /\ backup' = [i \in Id |-> IF i \in Readable(Held(t)) THEN rows[i].value ELSE NoValue]
    /\ Finish(t)
    /\ UNCHANGED <<env, salt, marker, hash, rows, signedIn, known>>

\* Variant: the rows are deleted first, unless they are merged with.
ImportReplaces(t, merge, failed) ==
    LET ids == {i \in Id \ failed : backup[i] # NoValue /\ (merge => rows[i] = NoRow)} IN
    WriteRows(t, [i \in Id |-> IF i \in ids THEN [value |-> backup[i], key |-> Held(t)]
                              ELSE IF merge THEN rows[i] ELSE NoRow])

\* Rows that cannot be written are counted and passed over.
Import(t, merge, failed) ==
    LET ids == {i \in Id \ failed : backup[i] # NoValue /\ (merge => rows[i] = NoRow)} IN
    WriteRows(t, [i \in Id |-> IF i \in ids THEN [value |-> backup[i], key |-> Held(t)]
                                            ELSE rows[i]])

\* A read, a prompt without an answer, an error.
End(t) ==
    /\ pc[t] \in {"salt", "confirm", "ready", "newpassword"}
    /\ Finish(t)
    /\ UNCHANGED <<env, files, signedIn, known>>

-----------------------------------------------------------------------------
(* _execute_change_master_password.                                        *)

\* It gives up if a row does not open.
ReadAll(t) ==
    /\ "passwd" \in env
    /\ t \in Command /\ pc[t] = "ready"
    /\ \A i \in Id : rows[i] # NoRow => Opens(Held(t), i)
    /\ snap' = [snap EXCEPT ![t] = [i \in Id |-> rows[i].value]]
    /\ Goto(t, "newpassword")
    /\ UNCHANGED <<env, files, fernet, signedIn, typed, seen, known>>

\* Variant: the store keeps the fernet it has.
RekeyKeepsKey(t, p) ==
    /\ pc[t] = "newpassword"
    /\ known' = known \cup {p}
    /\ typed' = [typed EXCEPT ![t] = p]
    /\ Goto(t, "newhash")
    /\ UNCHANGED <<env, files, fernet, signedIn, seen, snap>>

\* Variant: the new password gets a new salt.
RekeySalted(t, p) ==
    /\ pc[t] = "newpassword" /\ salt < MaxSalt
    /\ known' = known \cup {p}
    /\ typed' = [typed EXCEPT ![t] = p]
    /\ salt' = salt + 1
    /\ fernet' = [fernet EXCEPT ![t] = Derived(p, salt')]
    /\ Goto(t, "newhash")
    /\ UNCHANGED <<env, marker, hash, rows, backup, signedIn, seen, snap>>

\* update_master_password takes the salt, and sets the key before the hash.
Rekey(t, p) ==
    /\ pc[t] = "newpassword"
    /\ known' = known \cup {p}
    /\ typed' = [typed EXCEPT ![t] = p]
    /\ fernet' = [fernet EXCEPT ![t] = Derived(p, salt)]
    /\ Goto(t, "newhash")
    /\ UNCHANGED <<env, files, signedIn, seen, snap>>

WriteNewHash(t) ==
    /\ pc[t] = "newhash"
    /\ hash' = typed[t]
    /\ Goto(t, "reencrypt")
    /\ UNCHANGED <<env, salt, marker, rows, backup, fernet, signedIn, typed, seen, snap, known>>

\* One transaction writes what ReadAll has read, where a row is still there.
Reencrypt(t) ==
    /\ pc[t] = "reencrypt"
    /\ rows' = [i \in Id |->
                  IF rows[i] # NoRow /\ snap[t][i] # NoValue
                  THEN [value |-> snap[t][i], key |-> fernet[t]]
                  ELSE rows[i]]
    /\ Finish(t)
    /\ UNCHANGED <<env, salt, marker, hash, backup, signedIn, known>>

-----------------------------------------------------------------------------

\* A command dies, or the web UI with all its threads, to be started again.
Crash(p) ==
    /\ "crash" \in env
    /\ LET dead == {t \in Thread : Proc(t) = p} IN
       /\ fernet[p] # NoKey \/ \E t \in dead : pc[t] # "idle"
       /\ pc' = [t \in Thread |-> IF t \in dead THEN "idle" ELSE pc[t]]
       /\ typed' = [t \in Thread |-> IF t \in dead THEN NoPassword ELSE typed[t]]
       /\ seen' = [t \in Thread |-> IF t \in dead THEN 0 ELSE seen[t]]
       /\ snap' = [t \in Thread |-> IF t \in dead THEN NoContent ELSE snap[t]]
    /\ fernet' = [fernet EXCEPT ![p] = NoKey]
    /\ UNCHANGED <<env, files, signedIn, known>>

SetupStep(t) ==
    \/ StartSetup(t) \/ FindSalt(t) \/ WriteSalt(t)
    \/ \E p \in Password : Confirm(t, p)
    \/ WriteHash(t) \/ CacheFirst(t)

SessionStep(t) ==
    \/ \E p \in Password : Login(t, p)
    \/ CacheLogin(t) \/ Logout(t) \/ Request(t)

SecretStep(t) ==
    \/ \E i \in Id, v \in Value : Save(t, i, v) \/ Update(t, i, v)
    \/ \E i \in Id : Delete(t, i)

BackupStep(t) ==
    \/ Export(t)
    \/ \E merge \in BOOLEAN, failed \in SUBSET Id : Import(t, merge, failed)

PasswdStep(t) ==
    \/ ReadAll(t) \/ WriteNewHash(t) \/ Reencrypt(t)
    \/ \E p \in Password : Rekey(t, p)

StoreStep(t) ==
    \/ SetupStep(t) \/ SessionStep(t) \/ SecretStep(t) \/ BackupStep(t)
    \/ PasswdStep(t) \/ End(t)
    \/ \E p \in Password : Unlock(t, p)

StoreNext ==
    \/ \E t \in Thread : StoreStep(t)
    \/ \E p \in Command \cup {Web} : Crash(p)

-----------------------------------------------------------------------------
(* Properties.                                                             *)

\* Two first uses at once draw two salts and set two passwords.
SetupRace == {"fresh", "overlap"} \subseteq env

\* No crash or race leaves a row that none of the user's passwords opens with
\* the salt on disk, so long as he does not mistype one: a change of password
\* that dies half way leaves rows that the old password opens
\* (update_master_password and _execute_change_master_password).
RowsRecoverable ==
    ~SetupRace /\ "typo" \notin env =>
        \A i \in Id : rows[i] # NoRow =>
            rows[i].key.salt = salt /\ rows[i].key.password \in known

\* Operations run one at a time to their end, with the right password, and no
\* web UI outlives a change of it.
Orderly ==
    /\ env \cap {"crash", "overlap", "typo", "old"} = {}
    /\ ~({"web", "passwd"} \subseteq env)

\* Then the password whose hash is on file opens every row.
PasswordOpensRows ==
    Orderly /\ (\A t \in Thread : pc[t] # "reencrypt")
    => \A i \in Id : rows[i] # NoRow => rows[i].key = Derived(hash, salt)

\* Passwords are mistyped while a first setup is on its way, or after one died.
UnsettledTypos == {"fresh", "typo"} \subseteq env /\ env \cap {"crash", "overlap"} # {}

\* The web UI works with a password that the user has chosen, whatever wrong
\* ones were given to commands or to its login, unless the hash that decides
\* is not written yet (verify_master_password).
WebKeyChosen ==
    ~UnsettledTypos /\ fernet[Web] # NoKey => fernet[Web].password \in known

\* The store implements the map of its contents: no setup, login, change of
\* password or crash alters a value, and each command writes what it says,
\* unless a change of password overlaps with another operation.
Map == INSTANCE SecretMap WITH content <- [i \in Id |-> rows[i].value], saved <- backup
KeepsContents ==
    Map!MapInit /\ [][~({"overlap", "passwd"} \subseteq env) => Map!MapNext]_Map!contentVars


-----------------------------------------------------------------------------
(* Why they hold: the inductive invariants behind them.                    *)

Setup == {"salt", "newsalt", "confirm", "hash", "cache"}
Keyed == {"ready", "newpassword", "newhash", "reencrypt", "rewrap"}
Changing == {"newpassword", "newhash", "reencrypt"}

\* Locals have their values where they are used, and keys and rows exist only
\* once a password has been chosen.
LocalInv ==
    /\ marker => salt # 0
    /\ \A p \in Command \cup {Web} : fernet[p] # NoKey => marker
    /\ \A i \in Id : rows[i] # NoRow => marker
    /\ \A t \in Thread :
        /\ pc[t] \in {"confirm", "hash", "cache"} => seen[t] # 0 /\ seen[t] <= salt
        /\ pc[t] \in {"hash", "cache", "login"} => marker
        /\ pc[t] \in {"hash", "cache", "login", "newhash"} => typed[t] \in Password
        /\ pc[t] \in Keyed => Held(t) # NoKey
        /\ pc[t] \in Changing => t \in Command /\ "passwd" \in env
        /\ pc[t] = "login" => t \in WebThread

\* Who runs with whom: a setup that has no rival draws the only salt.
SetupInv ==
    /\ "overlap" \notin env =>
        \A t, u \in Thread : pc[t] # "idle" /\ pc[u] # "idle" => t = u
    /\ "fresh" \notin env => marker /\ hash # NoPassword /\ \A t \in Thread : pc[t] \notin Setup
    /\ "crash" \notin env /\ marker => hash # NoPassword \/ \E t \in Thread : pc[t] = "hash"
    /\ ~SetupRace => \A t \in Thread :
        /\ \A u \in Thread : pc[t] \in Setup /\ pc[u] \in Setup => t = u
        /\ pc[t] = "newsalt" => salt = 0
        /\ pc[t] \in {"salt", "newsalt", "confirm"} => ~marker
        /\ pc[t] \in {"confirm", "hash", "cache"} => seen[t] = salt

\* Passwords come from the user: what is hashed always, what a web UI holds if
\* the hash decides, and what is used at all if nothing is mistyped.
KnownInv ==
    /\ hash \in known \cup {NoPassword}
    /\ \A t \in Thread : pc[t] \in {"hash", "cache", "newhash"} => typed[t] \in known
    /\ ~UnsettledTypos => \A t \in Thread : pc[t] = "login" => typed[t] \in known
    /\ WebKeyChosen
    /\ "typo" \notin env =>
        /\ \A p \in Command \cup {Web} : fernet[p] # NoKey => fernet[p].password \in known
        /\ \A i \in Id : rows[i] # NoRow => rows[i].key.password \in known
    /\ ~SetupRace =>
        /\ \A p \in Command \cup {Web} : fernet[p] # NoKey => fernet[p].salt = salt
        /\ \A i \in Id : rows[i] # NoRow => rows[i].key.salt = salt

\* What a change of password has read is still there, if nothing runs beside it.
SnapInv ==
    "overlap" \notin env => \A t \in Thread :
        pc[t] \in Changing => \A i \in Id : snap[t][i] = rows[i].value

\* Then every key in use is the one of the hash on file, except between the two
\* halves of a change of password.
OrderlyInv ==
    Orderly =>
        /\ fernet[Web] # NoKey => "web" \in env /\ fernet[Web] = Derived(hash, salt)
        /\ \A t \in Command : pc[t] \notin Keyed => fernet[t] = NoKey
        /\ \A t \in Thread :
            /\ pc[t] # "idle" /\ t \in WebThread => "web" \in env
            /\ pc[t] \in {"hash", "cache"} =>
                /\ \A p \in Command \cup {Web} : fernet[p] = NoKey
                /\ \A i \in Id : rows[i] = NoRow
            /\ pc[t] \in {"cache", "login"} => typed[t] = hash
            /\ pc[t] \in Keyed \ {"newhash"} => Held(t) = Derived(hash, salt)
            /\ pc[t] = "newhash" => fernet[t] = Derived(typed[t], salt)
        /\ PasswordOpensRows

StoreInv == LocalInv /\ SetupInv /\ KnownInv /\ SnapInv /\ OrderlyInv

=============================================================================
