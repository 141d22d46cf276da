----------------------------- MODULE StoreProofs -----------------------------
(***************************************************************************)
(* What is proved of modules PersonalStore and Identity for any passwords, *)
(* ids, commands and web threads, and in every environment.                *)
(***************************************************************************)
EXTENDS Identity, TLAPS

Process == Command \cup {Web}

-----------------------------------------------------------------------------
(* The kinds of steps.  What the steps of a kind have in common is all that *)
(* most invariants need to know of them.                                   *)

\* The store, its keys and its threads stay as they are.
Silent ==
    /\ UNCHANGED <<env, files, fernet, pc, typed, seen, snap, known>>
    /\ signedIn' \in BOOLEAN

\* An operation ends and leaves the rows as they are.
Ends(t) ==
    /\ pc[t] \in {"salt", "confirm", "ready", "newpassword", "rewrap"}
    /\ Finish(t)
    /\ UNCHANGED <<env, salt, marker, hash, rows, signedIn, known>>
    /\ backup' \in Content

\* An operation ends with a transaction on the rows.
Writes(t) ==
    /\ pc[t] = "ready"
    /\ Finish(t)
    /\ \A i \in Id : \/ rows'[i] \in {rows[i], NoRow}
                     \/ \E v \in Value : rows'[i] = [value |-> v, key |-> Held(t)]
    /\ rows' = [i \in Id |-> rows'[i]]
    /\ UNCHANGED <<env, salt, marker, hash, backup, signedIn, known>>

\* A thread goes on, and nothing else changes.
Moves(t, p, q) ==
    /\ pc[t] = p /\ Goto(t, q)
    /\ UNCHANGED <<env, files, fernet, typed, seen, snap, known>>
    /\ signedIn' \in BOOLEAN

LEMMA ProcType ==
    ASSUME NEW t \in Thread
    PROVE  /\ Proc(t) \in Process
           /\ t \in Command => Proc(t) = t
           /\ t \in WebThread => Proc(t) = Web
BY StoreAssumption DEF Proc, Thread, Process

\* A key is told from none by its password.
LEMMA KeyType ==
    ASSUME StoreTypeOK
    PROVE  /\ NoKey \notin Key
           /\ \A p \in Process : fernet[p] # NoKey => fernet[p] \in Key
           /\ \A t \in Thread : Held(t) # NoKey => Held(t) \in Key
           /\ \A i \in Id : rows[i] # NoRow => rows[i] \in Row
<1>1. NoKey \notin Key
  BY StoreAssumption DEF NoKey, Key
<1>2. \A p \in Process : fernet[p] # NoKey => fernet[p] \in Key
  BY DEF StoreTypeOK, Process
<1>3. \A t \in Thread : Held(t) # NoKey => Held(t) \in Key
  BY <1>2, ProcType DEF Held
<1>4. QED
  BY <1>1, <1>2, <1>3 DEF StoreTypeOK

LEMMA DerivedType ==
    ASSUME NEW p \in Password, NEW s \in 1..MaxSalt
    PROVE  /\ Derived(p, s) \in Key /\ Derived(p, s) # NoKey
           /\ Derived(p, s).password = p /\ Derived(p, s).salt = s
BY StoreAssumption DEF Derived, Key, NoKey

\* What the end of an operation leaves.
LEMMA FinishEffect ==
    ASSUME StoreTypeOK, NEW t \in Thread, Finish(t)
    PROVE  /\ pc' = [pc EXCEPT ![t] = "idle"] /\ pc'[t] = "idle"
           /\ typed' = [typed EXCEPT ![t] = NoPassword]
           /\ seen' = [seen EXCEPT ![t] = 0]
           /\ snap' = [snap EXCEPT ![t] = NoContent]
           /\ \A u \in Thread : u # t =>
                pc'[u] = pc[u] /\ typed'[u] = typed[u] /\ seen'[u] = seen[u] /\ snap'[u] = snap[u]
           /\ fernet' \in [Process -> Key \cup {NoKey}]
           /\ \A p \in Process : fernet'[p] = IF p = t /\ p \in Command THEN NoKey ELSE fernet[p]
           /\ \A u \in Thread : u # t => Held(u)' = Held(u)
<1>1. /\ pc' = [pc EXCEPT ![t] = "idle"] /\ pc'[t] = "idle"
      /\ typed' = [typed EXCEPT ![t] = NoPassword] /\ seen' = [seen EXCEPT ![t] = 0]
      /\ snap' = [snap EXCEPT ![t] = NoContent]
      /\ \A u \in Thread : u # t =>
           pc'[u] = pc[u] /\ typed'[u] = typed[u] /\ seen'[u] = seen[u] /\ snap'[u] = snap[u]
  BY DEF StoreTypeOK, Finish, Goto
<1>2. CASE t \in Command
  <2>1. fernet' = [fernet EXCEPT ![t] = NoKey]
    BY <1>2 DEF Finish
  <2>2. /\ fernet' \in [Process -> Key \cup {NoKey}]
        /\ \A p \in Process : fernet'[p] = IF p = t /\ p \in Command THEN NoKey ELSE fernet[p]
    BY <1>2, <2>1 DEF StoreTypeOK, Process
  <2>3. \A u \in Thread : u # t => Proc(u) # t
    BY <1>2, StoreAssumption DEF Proc, Thread
  <2>4. QED
    BY <1>1, <2>2, <2>3, ProcType DEF Held
<1>3. CASE t \notin Command
  <2>1. fernet' = fernet
    BY <1>3 DEF Finish
  <2>2. /\ fernet' \in [Process -> Key \cup {NoKey}]
        /\ \A p \in Process : fernet'[p] = IF p = t /\ p \in Command THEN NoKey ELSE fernet[p]
    BY <1>3, <2>1 DEF StoreTypeOK, Process
  <2>3. QED
    BY <1>1, <2>1, <2>2 DEF Held
<1>4. QED
  BY <1>2, <1>3

-----------------------------------------------------------------------------
(* Every step is of one of these kinds.                                    *)

LEMMA WritesKind ==
    ASSUME StoreTypeOK, NEW t \in Thread,
           SecretStep(t) \/ \E merge \in BOOLEAN, failed \in SUBSET Id : Import(t, merge, failed)
    PROVE  Writes(t)
<1>1. ASSUME NEW new, WriteRows(t, new), new = [i \in Id |-> new[i]],
             \A i \in Id : \/ new[i] \in {rows[i], NoRow}
                           \/ \E v \in Value : new[i] = [value |-> v, key |-> Held(t)]
      PROVE  Writes(t)
  BY <1>1 DEF WriteRows, Writes
<1>2. ASSUME NEW i \in Id, NEW v \in Value, Save(t, i, v) \/ Update(t, i, v) PROVE Writes(t)
  <2> DEFINE row == [value |-> v, key |-> Held(t)]
  <2>1. WriteRows(t, [rows EXCEPT ![i] = row])
    BY <1>2 DEF Save, Update
  <2> DEFINE new == [rows EXCEPT ![i] = row]
  <2>2. \A j \in Id : new[j] = rows[j] \/ new[j] = row
    BY DEF StoreTypeOK
  <2>3. new = [j \in Id |-> new[j]]
    BY DEF StoreTypeOK
  <2> HIDE DEF new
  <2>4. QED
    BY <1>1, <2>1, <2>2, <2>3 DEF new
<1>3. ASSUME NEW i \in Id, Delete(t, i) PROVE Writes(t)
  <2> DEFINE new == [rows EXCEPT ![i] = NoRow]
  <2>1. WriteRows(t, new)
    BY <1>3 DEF Delete
  <2>2. \A j \in Id : new[j] = rows[j] \/ new[j] = NoRow
    BY DEF StoreTypeOK
  <2>3. new = [j \in Id |-> new[j]]
    BY DEF StoreTypeOK
  <2> HIDE DEF new
  <2>4. QED
    BY <1>1, <2>1, <2>2, <2>3
<1>4. ASSUME NEW merge \in BOOLEAN, NEW failed \in SUBSET Id, Import(t, merge, failed)
      PROVE  Writes(t)
  <2> DEFINE ids == {i \in Id \ failed : backup[i] # NoValue /\ (merge => rows[i] = NoRow)}
             new == [i \in Id |-> IF i \in ids THEN [value |-> backup[i], key |-> Held(t)]
                                               ELSE rows[i]]
  <2>1. WriteRows(t, new)
    BY <1>4 DEF Import
  <2>2. \A i \in ids : backup[i] \in Value
    BY DEF StoreTypeOK, Content
  <2>3. \A j \in Id : \/ new[j] = rows[j]
                      \/ \E v \in Value : new[j] = [value |-> v, key |-> Held(t)]
    BY <2>2
  <2>4. new = [j \in Id |-> new[j]]
    OBVIOUS
  <2> HIDE DEF new
  <2>5. QED
    BY <1>1, <2>1, <2>3, <2>4
<1>5. QED
  BY <1>2, <1>3, <1>4 DEF SecretStep

LEMMA EndsKind ==
    ASSUME StoreTypeOK, NEW t \in Thread,
           Export(t) \/ End(t) \/ CreateVault(t) \/ Rewrap(t) \/ OpenIdentity(t)
    PROVE  Ends(t) \/ (Moves(t, "ready", "rewrap") /\ private' = Held(t))
<1>1. CASE Export(t)
  <2>1. backup' \in Content
    <3>1. \A i \in Id : rows[i].value \in Value \cup {NoValue}
      BY DEF StoreTypeOK, Row, NoRow
    <3>2. QED
      BY <1>1, <3>1 DEF Export, Content
  <2>2. QED
    BY <1>1, <2>1 DEF Export, Ends
<1>2. CASE End(t)
  BY <1>2 DEF End, Ends, files, StoreTypeOK
<1>3. CASE CreateVault(t) \/ Rewrap(t)
  BY <1>3 DEF CreateVault, Team, Rewrap, Ends, files, StoreTypeOK
<1>4. CASE OpenIdentity(t)
  <2>1. CASE Finish(t)
    BY <1>4, <2>1 DEF OpenIdentity, Team, Ends, files, StoreTypeOK
  <2>2. CASE /\ private' = Held(t) /\ Goto(t, "rewrap")
             /\ UNCHANGED <<fernet, typed, seen, snap>>
    BY <1>4, <2>2 DEF OpenIdentity, Team, Moves, StoreTypeOK
  <2>3. QED
    BY <1>4, <2>1, <2>2 DEF OpenIdentity
<1>5. QED
  BY <1>1, <1>2, <1>3, <1>4

LEMMA StepKinds ==
    ASSUME StoreTypeOK, [Next]_vars
    PROVE  \/ Silent
           \/ \E t \in Thread :
                \/ Ends(t) \/ Writes(t)
                \/ Moves(t, "ready", "rewrap") /\ private' = Held(t)
                \/ t \in WebThread /\ Free(t) /\ fernet[Web] # NoKey /\ Moves(t, "idle", "ready")
                \/ Free(t) /\ ~marker /\ Moves(t, "idle", "salt")
                \/ FindSalt(t) \/ WriteSalt(t) \/ WriteHash(t) \/ CacheFirst(t)
                \/ CacheLogin(t) \/ ReadAll(t) \/ WriteNewHash(t) \/ Reencrypt(t)
                \/ \E p \in Password : Confirm(t, p) \/ Unlock(t, p) \/ Login(t, p) \/ Rekey(t, p)
           \/ \E p \in Process : Crash(p)
<1>1. CASE UNCHANGED storeVars
  BY <1>1 DEF Silent, storeVars, StoreTypeOK
<1>2. ASSUME NEW t \in Thread, TeamStep(t) \/ BackupStep(t) \/ End(t)
      PROVE  \/ Silent \/ Ends(t) \/ Writes(t)
             \/ Moves(t, "ready", "rewrap") /\ private' = Held(t)
  <2>1. CASE SetIdentity(t)
    BY <2>1 DEF SetIdentity, Silent, storeVars, StoreTypeOK
  <2>2. QED
    BY <1>2, <2>1, EndsKind, WritesKind DEF TeamStep, BackupStep
<1>3. ASSUME NEW t \in Thread, Logout(t) \/ Request(t)
      PROVE  \/ Silent
             \/ t \in WebThread /\ Free(t) /\ fernet[Web] # NoKey /\ Moves(t, "idle", "ready")
  BY <1>3 DEF Logout, Request, Free, Silent, Moves, StoreTypeOK
<1>4. ASSUME NEW t \in Thread, StartSetup(t) PROVE Free(t) /\ ~marker /\ Moves(t, "idle", "salt")
  BY <1>4 DEF StartSetup, Free, Moves, StoreTypeOK
<1>5. ASSUME NEW t \in Thread, SecretStep(t) PROVE Writes(t)
  BY <1>5, WritesKind
<1>6. CASE Admitted \/ UNCHANGED vars
  BY <1>1, <1>6 DEF Admitted, vars, storeVars
<1>7. QED
  BY <1>2, <1>3, <1>4, <1>5, <1>6
     DEF Next, StoreNext, StoreStep, SetupStep, SessionStep, PasswdStep, Process

-----------------------------------------------------------------------------
(* Types, which rest on LocalInv: what is derived, hashed or encrypted with *)
(* is there when it is used.                                               *)

LEMMA InitLocal == Init => TypeOK /\ LocalInv
<1> SUFFICES ASSUME Init PROVE TypeOK /\ LocalInv
  OBVIOUS
<1>1. 0 \in 0..MaxSalt /\ 1 \in 0..MaxSalt
  BY StoreAssumption
<1>2. NoContent \in Content
  BY DEF NoContent, Content
<1>3. StoreTypeOK
  BY <1>1, <1>2 DEF Init, StoreInit, StoreTypeOK, Phase
<1>4. LocalInv
  <2>1. marker => salt # 0
    <3>1. marker => "fresh" \notin env
      BY Zenon DEF Init, StoreInit
    <3>2. QED
      BY <3>1 DEF Init, StoreInit
  <2>2. /\ \A p \in Command \cup {Web} : fernet[p] = NoKey
        /\ \A i \in Id : rows[i] = NoRow
        /\ \A t \in Thread : pc[t] = "idle"
    BY DEF Init, StoreInit
  <2>3. QED
    BY <2>1, <2>2 DEF LocalInv, Keyed, Changing
<1>5. QED
  BY <1>3, <1>4 DEF Init, TypeOK

\* The end of an operation.
LEMMA FinishType ==
    ASSUME StoreTypeOK, NEW t \in Thread, Finish(t)
    PROVE  /\ pc' \in [Thread -> Phase] /\ typed' \in [Thread -> Password \cup {NoPassword}]
           /\ seen' \in [Thread -> 0..MaxSalt] /\ snap' \in [Thread -> Content]
           /\ fernet' \in [Command \cup {Web} -> Key \cup {NoKey}]
<1>1. NoContent \in Content /\ 0 \in 0..MaxSalt
  BY StoreAssumption DEF NoContent, Content
<1>2. pc' \in [Thread -> Phase]
  BY DEF Finish, Goto, StoreTypeOK, Phase
<1>3. typed' \in [Thread -> Password \cup {NoPassword}] /\ seen' \in [Thread -> 0..MaxSalt]
  BY <1>1 DEF Finish, StoreTypeOK
<1>4. snap' \in [Thread -> Content]
  BY <1>1 DEF Finish, StoreTypeOK
<1>5. QED
  BY <1>2, <1>3, <1>4, FinishEffect DEF Process

LEMMA WritesType ==
    ASSUME StoreTypeOK, LocalInv, NEW t \in Thread, Writes(t) PROVE StoreTypeOK'
<1>1. Held(t) \in Key
  BY KeyType DEF LocalInv, Writes, Keyed
<1>2. \A i \in Id : rows'[i] \in Row \cup {NoRow}
  <2>1. \A v \in Value : [value |-> v, key |-> Held(t)] \in Row
    BY <1>1 DEF Row
  <2>2. \A i \in Id : rows[i] \in Row \cup {NoRow}
    BY DEF StoreTypeOK
  <2>3. QED
    BY <2>1, <2>2 DEF Writes
<1>3. rows' \in [Id -> Row \cup {NoRow}]
  BY <1>2, Zenon DEF Writes
<1>4. QED
  BY <1>3, FinishType DEF Writes, StoreTypeOK

LEMMA CrashType ==
    ASSUME StoreTypeOK, NEW p \in Process, Crash(p) PROVE StoreTypeOK'
<1>1. NoContent \in Content /\ 0 \in 0..MaxSalt
  BY StoreAssumption DEF NoContent, Content
<1>2. pc' \in [Thread -> Phase] /\ typed' \in [Thread -> Password \cup {NoPassword}]
  BY DEF Crash, StoreTypeOK, Phase
<1>3. seen' \in [Thread -> 0..MaxSalt] /\ snap' \in [Thread -> Content]
  BY <1>1 DEF Crash, StoreTypeOK
<1>4. fernet' \in [Command \cup {Web} -> Key \cup {NoKey}]
  BY DEF Crash, StoreTypeOK, Process
<1>5. UNCHANGED <<env, files, signedIn, known>>
  BY DEF Crash
<1>6. QED
  BY <1>2, <1>3, <1>4, <1>5 DEF StoreTypeOK, files

\* The steps that derive a key.
LEMMA DerivesType ==
    ASSUME StoreTypeOK, LocalInv, NEW t \in Thread,
           \/ CacheFirst(t) \/ CacheLogin(t)
           \/ \E p \in Password : Unlock(t, p) \/ Rekey(t, p)
    PROVE  StoreTypeOK'
<1>1. ASSUME NEW q \in Process, NEW k, k \in Key, fernet' = [fernet EXCEPT ![q] = k]
      PROVE  fernet' \in [Command \cup {Web} -> Key \cup {NoKey}]
  BY <1>1 DEF StoreTypeOK, Process
<1>2. salt \in 0..MaxSalt /\ seen[t] \in 0..MaxSalt
  BY DEF StoreTypeOK
<1>3. CASE CacheFirst(t)
  <2>1. Derived(typed[t], seen[t]) \in Key
    BY <1>2, <1>3, DerivedType DEF LocalInv, CacheFirst
  <2>2. fernet' \in [Command \cup {Web} -> Key \cup {NoKey}]
    BY <1>1, <1>3, <2>1, ProcType DEF CacheFirst
  <2>3. 0 \in 0..MaxSalt
    BY StoreAssumption
  <2>4. seen' \in [Thread -> 0..MaxSalt] /\ typed' \in [Thread -> Password \cup {NoPassword}]
    BY <1>3, <2>3 DEF CacheFirst, StoreTypeOK
  <2>5. pc' \in [Thread -> Phase]
    BY <1>3 DEF CacheFirst, Goto, StoreTypeOK, Phase
  <2>6. signedIn' \in BOOLEAN
    BY <1>3 DEF CacheFirst
  <2>7. QED
    BY <1>3, <2>2, <2>4, <2>5, <2>6 DEF CacheFirst, StoreTypeOK, files
<1>4. CASE CacheLogin(t)
  <2>1. Derived(typed[t], salt) \in Key
    BY <1>2, <1>4, DerivedType DEF LocalInv, CacheLogin
  <2>2. fernet' \in [Command \cup {Web} -> Key \cup {NoKey}]
    <3>1. \E k \in Key \cup {NoKey} : fernet' = [fernet EXCEPT ![Web] = k]
      BY <1>4, <2>1 DEF CacheLogin, StoreTypeOK
    <3>2. QED
      BY <3>1 DEF StoreTypeOK
  <2>3. pc' \in [Thread -> Phase] /\ typed' \in [Thread -> Password \cup {NoPassword}]
    BY <1>4 DEF CacheLogin, Goto, StoreTypeOK, Phase
  <2>4. QED
    BY <1>4, <2>2, <2>3 DEF CacheLogin, StoreTypeOK, files
<1>5. ASSUME NEW p \in Password, Unlock(t, p) PROVE StoreTypeOK'
  <2>1. Derived(p, salt) \in Key
    BY <1>2, <1>5, DerivedType DEF LocalInv, Unlock
  <2>2. fernet' \in [Command \cup {Web} -> Key \cup {NoKey}]
    BY <1>1, <1>5, <2>1 DEF Unlock, Process
  <2>3. pc' \in [Thread -> Phase]
    BY <1>5 DEF Unlock, Goto, StoreTypeOK, Phase
  <2>4. QED
    BY <1>5, <2>2, <2>3 DEF Unlock, StoreTypeOK, files
<1>6. ASSUME NEW p \in Password, Rekey(t, p) PROVE StoreTypeOK'
  <2>1. t \in Command /\ salt # 0
    BY <1>6, ProcType DEF LocalInv, Rekey, Changing, Keyed, Held
  <2>2. Derived(p, salt) \in Key
    BY <1>2, <2>1, DerivedType
  <2>3. fernet' \in [Command \cup {Web} -> Key \cup {NoKey}]
    BY <1>1, <1>6, <2>1, <2>2 DEF Rekey, Process
  <2>4. /\ pc' \in [Thread -> Phase] /\ typed' \in [Thread -> Password \cup {NoPassword}]
        /\ known' \in SUBSET Password
    BY <1>6 DEF Rekey, Goto, StoreTypeOK, Phase
  <2>5. QED
    BY <1>6, <2>3, <2>4 DEF Rekey, StoreTypeOK, files
<1>7. QED
  BY <1>3, <1>4, <1>5, <1>6

\* The other steps of a setup or a change of password.
LEMMA ChangesType ==
    ASSUME StoreTypeOK, LocalInv, NEW t \in Thread,
           \/ FindSalt(t) \/ WriteSalt(t) \/ WriteHash(t)
           \/ ReadAll(t) \/ WriteNewHash(t) \/ Reencrypt(t)
           \/ \E p \in Password : Confirm(t, p) \/ Login(t, p)
    PROVE  StoreTypeOK'
<1>1. CASE FindSalt(t)
  BY <1>1 DEF FindSalt, Goto, StoreTypeOK, Phase, files
<1>2. CASE WriteSalt(t)
  <2>1. salt + 1 \in 0..MaxSalt
    BY <1>2, StoreAssumption DEF WriteSalt, StoreTypeOK
  <2>2. QED
    BY <1>2, <2>1 DEF WriteSalt, Goto, StoreTypeOK, Phase
<1>3. CASE WriteHash(t) \/ WriteNewHash(t)
  BY <1>3 DEF WriteHash, WriteNewHash, Goto, StoreTypeOK, Phase
<1>4. CASE ReadAll(t)
  <2>1. [i \in Id |-> rows[i].value] \in Content
    BY DEF StoreTypeOK, Content, Row, NoRow
  <2>2. snap' \in [Thread -> Content] /\ pc' \in [Thread -> Phase]
    BY <1>4, <2>1 DEF ReadAll, Goto, StoreTypeOK, Phase
  <2>3. QED
    BY <1>4, <2>2 DEF ReadAll, StoreTypeOK, files
<1>5. CASE Reencrypt(t)
  <2>1. fernet[t] \in Key
    BY <1>5, KeyType, ProcType DEF Reencrypt, LocalInv, Changing, Keyed, Held
  <2>2. \A i \in Id : snap[t][i] # NoValue => [value |-> snap[t][i], key |-> fernet[t]] \in Row
    BY <2>1 DEF StoreTypeOK, Content, Row
  <2>3. rows' \in [Id -> Row \cup {NoRow}]
    BY <1>5, <2>2 DEF Reencrypt, StoreTypeOK
  <2>4. QED
    BY <1>5, <2>3, FinishType DEF Reencrypt, StoreTypeOK
<1>6. ASSUME NEW p \in Password, Confirm(t, p) PROVE StoreTypeOK'
  <2>1. /\ pc' \in [Thread -> Phase] /\ typed' \in [Thread -> Password \cup {NoPassword}]
        /\ known' \in SUBSET Password /\ marker' = TRUE
    BY <1>6 DEF Confirm, Goto, StoreTypeOK, Phase
  <2>2. QED
    BY <1>6, <2>1 DEF Confirm, StoreTypeOK
<1>7. ASSUME NEW p \in Password, Login(t, p) PROVE StoreTypeOK'
  BY <1>7 DEF Login, Goto, StoreTypeOK, Phase, files
<1>8. QED
  BY <1>1, <1>2, <1>3, <1>4, <1>5, <1>6, <1>7

LEMMA EndsType ==
    ASSUME StoreTypeOK, NEW t \in Thread, Ends(t) PROVE StoreTypeOK'
BY FinishType DEF Ends, StoreTypeOK

LEMMA StoreType ==
    ASSUME TypeOK, LocalInv, [Next]_vars PROVE StoreTypeOK'
<1>1. StoreTypeOK
  BY DEF TypeOK
<1>2. CASE Silent
  BY <1>1, <1>2 DEF Silent, StoreTypeOK, files
<1>3. ASSUME NEW t \in Thread, NEW p, NEW q \in Phase, Moves(t, p, q) PROVE StoreTypeOK'
  BY <1>1, <1>3 DEF Moves, Goto, StoreTypeOK, files
<1>4. "ready" \in Phase /\ "rewrap" \in Phase /\ "salt" \in Phase
  BY DEF Phase
<1>5. QED
  BY <1>1, <1>2, <1>3, <1>4, StepKinds, EndsType, WritesType, CrashType, DerivesType,
     ChangesType

\* Keys are kept where vaults and identities are only by threads that have one.
LEMMA TypeStep ==
    ASSUME TypeOK, LocalInv, [Next]_vars PROVE TypeOK'
<1>1. \A t \in Thread : pc[t] \in {"ready", "rewrap"} => Held(t) \in Key
  BY KeyType DEF TypeOK, LocalInv, Keyed
<1>2. /\ private' \in Key \cup {NoKey, Plain, Mangled}
      /\ wrapped' \in Key \cup {NoKey, PublicLock}
  <2>1. CASE UNCHANGED <<private, wrapped>>
    BY <2>1 DEF TypeOK
  <2>2. ASSUME NEW t \in Thread, TeamStep(t) PROVE <1>2!1 /\ <1>2!2
    BY <1>1, <2>2 DEF TeamStep, SetIdentity, CreateVault, OpenIdentity, Rewrap, Team, TypeOK
  <2>3. CASE Admitted
    BY <2>3 DEF Admitted, TypeOK
  <2>4. QED
    BY <2>1, <2>2, <2>3 DEF Next, vars
<1>3. QED
  BY <1>2, StoreType DEF TypeOK

-----------------------------------------------------------------------------
(* LocalInv.                                                               *)

LEMMA GotoEffect ==
    ASSUME StoreTypeOK, NEW t \in Thread, NEW q, Goto(t, q)
    PROVE  pc'[t] = q /\ \A u \in Thread : u # t => pc'[u] = pc[u]
BY DEF Goto, StoreTypeOK

\* A step gives the process of t the key k.
Derives(t, k) ==
    /\ k \in Key /\ k # NoKey
    /\ fernet'[Proc(t)] = k
    /\ \A p \in Process : p # Proc(t) => fernet'[p] = fernet[p]

LEMMA DerivesEffect ==
    ASSUME StoreTypeOK, LocalInv, NEW t \in Thread
    PROVE  /\ CacheFirst(t) => Derives(t, Derived(typed[t], seen[t]))
           /\ CacheLogin(t) =>
                Derives(t, IF fernet[Web] = NoKey THEN Derived(typed[t], salt) ELSE fernet[Web])
           /\ \A p \in Password :
                Unlock(t, p) \/ Rekey(t, p) => Derives(t, Derived(p, salt))
<1>1. ASSUME NEW k \in Key, fernet' = [fernet EXCEPT ![Proc(t)] = k] PROVE Derives(t, k)
  BY <1>1, ProcType, KeyType DEF Derives, StoreTypeOK, Process
<1>2. salt \in 0..MaxSalt /\ seen[t] \in 0..MaxSalt
  BY DEF StoreTypeOK
<1>3. marker => salt # 0
  BY DEF LocalInv
<1>4. CacheFirst(t) => Derives(t, Derived(typed[t], seen[t]))
  <2> SUFFICES ASSUME CacheFirst(t) PROVE Derives(t, Derived(typed[t], seen[t]))
    OBVIOUS
  <2>1. Derived(typed[t], seen[t]) \in Key
    BY <1>2, DerivedType DEF LocalInv, CacheFirst
  <2>2. QED
    BY <1>1, <2>1 DEF CacheFirst
<1>5. CacheLogin(t) =>
        Derives(t, IF fernet[Web] = NoKey THEN Derived(typed[t], salt) ELSE fernet[Web])
  <2> DEFINE k == IF fernet[Web] = NoKey THEN Derived(typed[t], salt) ELSE fernet[Web]
  <2> SUFFICES ASSUME CacheLogin(t) PROVE Derives(t, k)
    OBVIOUS
  <2>1. t \in WebThread
    BY DEF LocalInv, CacheLogin
  <2>2. Derived(typed[t], salt) \in Key
    BY <1>2, <1>3, DerivedType DEF LocalInv, CacheLogin
  <2>3. k \in Key
    BY <2>2, KeyType DEF Process
  <2>4. fernet' = [fernet EXCEPT ![Web] = k]
    BY DEF CacheLogin
  <2> HIDE DEF k
  <2>5. QED
    BY <1>1, <2>1, <2>3, <2>4, ProcType
<1>6. ASSUME NEW p \in Password, Unlock(t, p) \/ Rekey(t, p)
      PROVE  Derives(t, Derived(p, salt))
  <2>1. t \in Command /\ salt # 0
    BY <1>3, <1>6, ProcType DEF LocalInv, Unlock, Rekey, Changing, Keyed, Held
  <2>2. Derived(p, salt) \in Key
    BY <1>2, <2>1, DerivedType
  <2>3. QED
    BY <1>1, <1>6, <2>1, <2>2, ProcType DEF Unlock, Rekey
<1>7. QED
  BY <1>4, <1>5, <1>6

\* The locals of a thread.
Locals(t) ==
    /\ pc[t] \in {"confirm", "hash", "cache"} => seen[t] # 0 /\ seen[t] <= salt
    /\ pc[t] \in {"hash", "cache", "login"} => marker
    /\ pc[t] \in {"hash", "cache", "login", "newhash"} => typed[t] \in Password
    /\ pc[t] \in Keyed => Held(t) # NoKey
    /\ pc[t] \in Changing => t \in Command /\ "passwd" \in env
    /\ pc[t] = "login" => t \in WebThread

LEMMA LocalsStep ==
    ASSUME StoreTypeOK, LocalInv, NEW t \in Thread,
           \/ FindSalt(t) \/ WriteSalt(t) \/ WriteHash(t) \/ CacheFirst(t)
           \/ CacheLogin(t) \/ ReadAll(t) \/ WriteNewHash(t)
           \/ \E p \in Password : Confirm(t, p) \/ Unlock(t, p) \/ Login(t, p) \/ Rekey(t, p)
    PROVE  \A u \in Thread : Locals(u)'
<1>1. \A u \in Thread : Locals(u)
  BY DEF LocalInv, Locals
<1>2. CASE FindSalt(t)
  BY <1>1, <1>2, GotoEffect DEF FindSalt, Locals, Held, Keyed, Changing, StoreTypeOK, files
<1>3. CASE WriteSalt(t)
  BY <1>1, <1>3, GotoEffect DEF WriteSalt, Locals, Held, Keyed, Changing, StoreTypeOK
<1>4. CASE WriteHash(t)
  BY <1>1, <1>4, GotoEffect DEF WriteHash, Locals, Held, Keyed, Changing, StoreTypeOK
<1>5. ASSUME NEW k, Derives(t, k)
      PROVE  Held(t)' # NoKey /\ \A u \in Thread : Held(u) # NoKey => Held(u)' # NoKey
  BY <1>5, ProcType DEF Derives, Held
<1>6. CASE CacheFirst(t)
  <2>1. Held(t)' # NoKey /\ \A u \in Thread : Held(u) # NoKey => Held(u)' # NoKey
    BY <1>5, <1>6, DerivesEffect
  <2>2. pc'[t] \in {"idle", "ready"} /\ \A u \in Thread : u # t => pc'[u] = pc[u]
    BY <1>6, GotoEffect DEF CacheFirst
  <2>3. /\ \A u \in Thread : u # t => typed'[u] = typed[u] /\ seen'[u] = seen[u]
        /\ UNCHANGED <<env, marker, salt>>
    BY <1>6 DEF CacheFirst, files
  <2>4. QED
    BY <1>1, <2>1, <2>2, <2>3 DEF Locals, Keyed, Changing
<1>7. CASE CacheLogin(t)
  BY <1>1, <1>7, GotoEffect DEF CacheLogin, Locals, Held, Keyed, Changing, StoreTypeOK, files
<1>8. CASE ReadAll(t)
  BY <1>1, <1>8, GotoEffect DEF ReadAll, Locals, Held, Keyed, Changing, StoreTypeOK, files
<1>9. CASE WriteNewHash(t)
  BY <1>1, <1>9, GotoEffect DEF WriteNewHash, Locals, Held, Keyed, Changing, StoreTypeOK
<1>10. ASSUME NEW p \in Password, Confirm(t, p) PROVE \A u \in Thread : Locals(u)'
  BY <1>1, <1>10, GotoEffect DEF Confirm, Locals, Held, Keyed, Changing, StoreTypeOK
<1>11. ASSUME NEW p \in Password, Login(t, p) PROVE \A u \in Thread : Locals(u)'
  BY <1>1, <1>11, GotoEffect DEF Login, Locals, Held, Keyed, Changing, StoreTypeOK, files
<1>12. ASSUME NEW p \in Password, Unlock(t, p) \/ Rekey(t, p)
       PROVE  \A u \in Thread : Locals(u)'
  <2>1. Held(t)' # NoKey /\ \A u \in Thread : Held(u) # NoKey => Held(u)' # NoKey
    BY <1>5, <1>12, DerivesEffect
  <2>2. /\ pc'[t] \in {"ready", "newhash"} /\ \A u \in Thread : u # t => pc'[u] = pc[u]
        /\ pc'[t] = "newhash" => pc[t] = "newpassword" /\ typed'[t] = p
    BY <1>12, GotoEffect DEF Unlock, Rekey, StoreTypeOK
  <2>3. /\ \A u \in Thread : u # t => typed'[u] = typed[u] /\ seen'[u] = seen[u]
        /\ UNCHANGED <<env, marker, salt>>
    BY <1>12 DEF Unlock, Rekey, files, StoreTypeOK
  <2>4. QED
    BY <1>1, <2>1, <2>2, <2>3 DEF Locals, Keyed, Changing
<1>13. QED
  BY <1>2, <1>3, <1>4, <1>6, <1>7, <1>8, <1>9, <1>10, <1>11, <1>12

LEMMA LocalStep ==
    ASSUME TypeOK, LocalInv, [Next]_vars PROVE LocalInv'
<1>1. StoreTypeOK /\ \A u \in Thread : Locals(u)
  BY DEF TypeOK, LocalInv, Locals
<1>2. LocalInv' <=> /\ marker' => salt' # 0
                    /\ \A p \in Process : fernet'[p] # NoKey => marker'
                    /\ \A i \in Id : rows'[i] # NoRow => marker'
                    /\ \A u \in Thread : Locals(u)'
  BY DEF LocalInv, Locals, Process
<1>3. CASE Silent
  BY <1>1, <1>3 DEF LocalInv, Locals, Silent, files, Held
<1>4. ASSUME NEW t \in Thread, Ends(t) \/ Writes(t) PROVE LocalInv'
  <2>1. UNCHANGED <<env, salt, marker>> /\ Finish(t)
    BY <1>4 DEF Ends, Writes
  <2>5. \A i \in Id : rows'[i] # NoRow => marker
    <3>1. CASE Ends(t)
      BY <3>1 DEF Ends, LocalInv
    <3>2. CASE Writes(t)
      BY <1>1, <3>2, ProcType DEF Writes, LocalInv, Locals, Keyed, Held, Process
    <3>3. QED
      BY <1>4, <3>1, <3>2
  <2>2. \A p \in Process : fernet'[p] # NoKey => marker'
    BY <1>1, <2>1, FinishEffect DEF LocalInv, Process
  <2>3. \A u \in Thread : Locals(u)'
    BY <1>1, <2>1, FinishEffect DEF Locals, Keyed, Changing
  <2>4. QED
    BY <1>2, <2>1, <2>2, <2>3, <2>5 DEF LocalInv
<1>5. ASSUME NEW t \in Thread, NEW p, NEW q, Moves(t, p, q),
             q \in {"salt", "ready", "rewrap"}, q # "salt" => Held(t) # NoKey
      PROVE  LocalInv'
  BY <1>1, <1>5, GotoEffect DEF LocalInv, Locals, Moves, files, Held, Keyed, Changing
<1>6. ASSUME NEW t \in Thread,
             \/ Moves(t, "ready", "rewrap")
             \/ t \in WebThread /\ Free(t) /\ fernet[Web] # NoKey /\ Moves(t, "idle", "ready")
             \/ Free(t) /\ ~marker /\ Moves(t, "idle", "salt")
      PROVE  LocalInv'
  BY <1>1, <1>5, <1>6, ProcType DEF Locals, Keyed, Held, Moves
<1>7. ASSUME NEW t \in Thread, Reencrypt(t) PROVE LocalInv'
  <2>1. UNCHANGED <<env, salt, marker>> /\ Finish(t) /\ marker
    BY <1>1, <1>7, ProcType DEF Reencrypt, LocalInv, Locals, Keyed, Held, Process
  <2>2. \A p \in Process : fernet'[p] # NoKey => marker'
    BY <1>1, <2>1, FinishEffect DEF LocalInv, Process
  <2>3. \A u \in Thread : Locals(u)'
    BY <1>1, <2>1, FinishEffect DEF Locals, Keyed, Changing
  <2>4. QED
    BY <1>2, <2>1, <2>2, <2>3 DEF LocalInv
<1>8. ASSUME NEW p \in Process, Crash(p) PROVE LocalInv'
  BY <1>1, <1>8, ProcType DEF Crash, LocalInv, Locals, Held, Keyed, Changing, files, StoreTypeOK, Process
<1>9. ASSUME NEW t \in Thread,
             \/ FindSalt(t) \/ WriteSalt(t) \/ WriteHash(t) \/ CacheFirst(t)
             \/ CacheLogin(t) \/ ReadAll(t) \/ WriteNewHash(t)
             \/ \E p \in Password : Confirm(t, p) \/ Unlock(t, p) \/ Login(t, p) \/ Rekey(t, p)
      PROVE  LocalInv'
  <2>1. \A u \in Thread : Locals(u)'
    BY <1>1, <1>9, LocalsStep
  <2>2. rows' = rows /\ (marker => marker') /\ (marker' => salt' # 0)
    BY <1>1, <1>9 DEF FindSalt, WriteSalt, WriteHash, CacheFirst, CacheLogin, ReadAll,
       WriteNewHash, Confirm, Unlock, Login, Rekey, files, LocalInv, Locals, StoreTypeOK
  <2>3. \A p \in Process : fernet'[p] # NoKey => marker'
    <3>1. CASE fernet' = fernet
      BY <2>2, <3>1 DEF LocalInv, Process
    <3>2. ASSUME NEW k, Derives(t, k), marker PROVE <2>3
      BY <2>2, <3>2 DEF LocalInv, Derives
    <3>3. CASE \/ FindSalt(t) \/ WriteSalt(t) \/ WriteHash(t) \/ ReadAll(t) \/ WriteNewHash(t)
               \/ \E p \in Password : Confirm(t, p) \/ Login(t, p)
      BY <3>1, <3>3 DEF FindSalt, WriteSalt, WriteHash, ReadAll, WriteNewHash, Confirm, Login
    <3>4. CASE CacheFirst(t) \/ CacheLogin(t)
      <4>1. marker
        BY <1>1, <3>4 DEF CacheFirst, CacheLogin, Locals
      <4>2. QED
        BY <1>1, <3>2, <3>4, <4>1, DerivesEffect
    <3>5. ASSUME NEW p \in Password, Unlock(t, p) \/ Rekey(t, p) PROVE <2>3
      <4>1. marker
        BY <1>1, <3>5, ProcType DEF Unlock, Rekey, LocalInv, Locals, Keyed, Held, Process
      <4>2. QED
        BY <1>1, <3>2, <3>5, <4>1, DerivesEffect
    <3>6. QED
      BY <1>9, <3>3, <3>4, <3>5
  <2>4. QED
    BY <1>2, <2>1, <2>2, <2>3 DEF LocalInv
<1>10. QED
  BY <1>1, <1>3, <1>4, <1>6, <1>7, <1>8, <1>9, StepKinds

-----------------------------------------------------------------------------
(* SetupInv: setups with and without rivals.                               *)

\* A step of t that is none of a setup before the hash is on file.
Beside(t) ==
    /\ UNCHANGED <<env, salt, marker>> /\ hash' \in Password \cup {hash}
    /\ pc[t] # "hash" /\ pc'[t] \notin Setup
    /\ pc[t] = "idle" => pc'[t] = "idle" \/ Free(t)
    /\ \A u \in Thread : u # t => pc'[u] = pc[u] /\ seen'[u] = seen[u]

\* A step of no thread: nothing happens to threads, or some of them die.
Dies ==
    /\ UNCHANGED <<env, salt, marker, hash>>
    /\ \A u \in Thread : \/ pc'[u] = pc[u] /\ seen'[u] = seen[u]
                         \/ pc'[u] = "idle" /\ "crash" \in env

LEMMA SetupKinds ==
    ASSUME TypeOK, LocalInv, [Next]_vars
    PROVE  \/ Dies
           \/ \E t \in Thread :
                \/ Beside(t)
                \/ Free(t) /\ ~marker /\ Moves(t, "idle", "salt")
                \/ FindSalt(t) \/ WriteSalt(t) \/ WriteHash(t)
                \/ \E p \in Password : Confirm(t, p)
<1>1. StoreTypeOK
  BY DEF TypeOK
<1>2. CASE Silent
  BY <1>2 DEF Silent, Dies, files
<1>3. ASSUME NEW p \in Process, Crash(p) PROVE Dies
  BY <1>1, <1>3 DEF Crash, Dies, StoreTypeOK, files
<1>4. ASSUME NEW t \in Thread, Ends(t) \/ Writes(t) \/ Reencrypt(t) PROVE Beside(t)
  BY <1>1, <1>4, FinishEffect DEF Ends, Writes, Reencrypt, Beside, Setup
<1>5. ASSUME NEW t \in Thread,
             \/ Moves(t, "ready", "rewrap")
             \/ t \in WebThread /\ Free(t) /\ fernet[Web] # NoKey /\ Moves(t, "idle", "ready")
      PROVE  Beside(t)
  BY <1>1, <1>5, GotoEffect DEF Moves, Beside, Setup, files
<1>6. ASSUME NEW t \in Thread, CacheFirst(t) \/ CacheLogin(t) \/ ReadAll(t)
      PROVE  Beside(t)
  BY <1>1, <1>6, GotoEffect DEF CacheFirst, CacheLogin, ReadAll, Beside, Setup, files, StoreTypeOK
<1>7. ASSUME NEW t \in Thread, WriteNewHash(t) PROVE Beside(t)
  BY <1>1, <1>7, GotoEffect DEF WriteNewHash, Beside, Setup, LocalInv
<1>8. ASSUME NEW t \in Thread, NEW p \in Password, Unlock(t, p) \/ Login(t, p) \/ Rekey(t, p)
      PROVE  Beside(t)
  BY <1>1, <1>8, GotoEffect DEF Unlock, Login, Rekey, Beside, Setup, Free, files, StoreTypeOK
<1>9. QED
  BY <1>1, <1>2, <1>3, <1>4, <1>5, <1>6, <1>7, <1>8, StepKinds

\* The parts of SetupInv.
OneRuns ==
    "overlap" \notin env => \A t, u \in Thread : pc[t] # "idle" /\ pc[u] # "idle" => t = u
SetUp ==
    "fresh" \notin env => marker /\ hash # NoPassword /\ \A t \in Thread : pc[t] \notin Setup
HashComes ==
    "crash" \notin env /\ marker => hash # NoPassword \/ \E t \in Thread : pc[t] = "hash"
SetsUp(t) ==
    /\ \A u \in Thread : pc[t] \in Setup /\ pc[u] \in Setup => t = u
    /\ pc[t] = "newsalt" => salt = 0
    /\ pc[t] \in {"salt", "newsalt", "confirm"} => ~marker
    /\ pc[t] \in {"confirm", "hash", "cache"} => seen[t] = salt

LEMMA InitSetup == Init => SetupInv
<1> SUFFICES ASSUME Init PROVE SetupInv
  OBVIOUS
<1>1. \A t \in Thread : pc[t] = "idle"
  BY DEF Init, StoreInit
<1>2. "fresh" \in env => ~marker
  BY Zenon DEF Init, StoreInit
<1>3. "fresh" \notin env => marker /\ hash # NoPassword
  <2>1. "fresh" \notin env => marker
    BY Zenon DEF Init, StoreInit
  <2>2. QED
    BY <2>1, StoreAssumption DEF Init, StoreInit
<1>4. QED
  BY <1>1, <1>2, <1>3 DEF SetupInv, Setup

LEMMA SetupStepInv ==
    ASSUME TypeOK, LocalInv, SetupInv, [Next]_vars PROVE SetupInv'
<1>1. StoreTypeOK /\ OneRuns /\ SetUp /\ HashComes /\ (~SetupRace => \A t \in Thread : SetsUp(t))
  BY DEF TypeOK, SetupInv, OneRuns, SetUp, HashComes, SetsUp
<1>2. SUFFICES
        /\ OneRuns' /\ SetUp' /\ HashComes'
        /\ (~SetupRace)' => \A t \in Thread : SetsUp(t)'
  BY DEF SetupInv, OneRuns, SetUp, HashComes, SetsUp
<1>3. CASE Dies
  <2>1. OneRuns' /\ SetUp' /\ HashComes'
    BY <1>1, <1>3 DEF Dies, OneRuns, SetUp, HashComes, Setup
  <2>2. (~SetupRace)' => \A t \in Thread : SetsUp(t)'
    BY <1>1, <1>3 DEF Dies, SetsUp, SetupRace, Setup
  <2>3. QED
    BY <2>1, <2>2
<1>4. ASSUME NEW t \in Thread, Beside(t)
      PROVE  /\ OneRuns' /\ SetUp' /\ HashComes'
             /\ (~SetupRace)' => \A u \in Thread : SetsUp(u)'
  <2>1. OneRuns'
    BY <1>1, <1>4 DEF Beside, OneRuns, Free
  <2>2. SetUp' /\ HashComes'
    BY <1>1, <1>4, StoreAssumption DEF Beside, SetUp, HashComes
  <2>3. (~SetupRace)' => \A u \in Thread : SetsUp(u)'
    BY <1>1, <1>4 DEF Beside, SetsUp, SetupRace, Setup
  <2>4. QED
    BY <2>1, <2>2, <2>3
<1>5. ASSUME NEW t \in Thread,
             \/ Free(t) /\ ~marker /\ Moves(t, "idle", "salt")
             \/ FindSalt(t) \/ WriteSalt(t) \/ WriteHash(t)
             \/ \E p \in Password : Confirm(t, p)
      PROVE  /\ OneRuns' /\ SetUp' /\ HashComes'
             /\ (~SetupRace)' => \A u \in Thread : SetsUp(u)'
  <2>1. /\ env' = env
        /\ pc[t] = "idle" => Free(t) /\ ~marker
        /\ pc[t] \in Setup \cup {"idle"} /\ pc'[t] \in Setup
        /\ \A u \in Thread : u # t => pc'[u] = pc[u] /\ seen'[u] = seen[u]
    BY <1>1, <1>5, GotoEffect
       DEF Moves, FindSalt, WriteSalt, WriteHash, Confirm, Setup, files, StoreTypeOK
  <2>2. OneRuns'
    BY <1>1, <2>1 DEF OneRuns, Free, Setup
  <2>3. SetUp'
    BY <1>1, <2>1 DEF SetUp
  <2>4. HashComes'
    <3>1. CASE WriteHash(t)
      BY <1>1, <3>1, StoreAssumption DEF WriteHash, HashComes, LocalInv
    <3>2. CASE \E p \in Password : Confirm(t, p)
      BY <1>1, <3>2, GotoEffect DEF Confirm, HashComes
    <3>3. CASE ~WriteHash(t) /\ ~\E p \in Password : Confirm(t, p)
      <4>1. UNCHANGED <<marker, hash>> /\ pc[t] # "hash"
        BY <1>5, <3>3 DEF Moves, FindSalt, WriteSalt, files
      <4>2. QED
        BY <1>1, <2>1, <4>1 DEF HashComes
    <3>4. QED
      BY <3>1, <3>2, <3>3
  <2>5. ASSUME ~SetupRace, NEW u \in Thread PROVE SetsUp(u)'
    <3>1. \A v \in Thread : SetsUp(v)
      BY <1>1, <2>5
    <3>2. \A v \in Thread : v # t => pc[v] \notin Setup
      <4>1. CASE pc[t] = "idle"
        BY <1>1, <2>1, <2>5, <4>1 DEF SetupRace, SetUp, Free, Setup
      <4>2. CASE pc[t] # "idle"
        BY <2>1, <3>1, <4>2 DEF SetsUp
      <4>3. QED
        BY <4>1, <4>2
    <3>3. CASE u # t
      BY <2>1, <3>2, <3>3 DEF SetsUp, Setup
    <3>4. CASE u = t
      <4>1. \A v \in Thread : pc'[v] \in Setup => v = t
        BY <2>1, <3>2
      <4>2. /\ pc'[t] = "newsalt" => salt' = 0
            /\ pc'[t] \in {"salt", "newsalt", "confirm"} => ~marker'
            /\ pc'[t] \in {"confirm", "hash", "cache"} => seen'[t] = salt'
        BY <1>1, <1>5, <3>1, GotoEffect
           DEF Moves, FindSalt, WriteSalt, WriteHash, Confirm, files, StoreTypeOK, SetsUp
      <4>3. QED
        BY <3>4, <4>1, <4>2 DEF SetsUp
    <3>5. QED
      BY <3>3, <3>4
  <2>6. QED
    BY <2>1, <2>2, <2>3, <2>4, <2>5 DEF SetupRace
<1>6. QED
  BY <1>2, <1>3, <1>4, <1>5, SetupKinds

-----------------------------------------------------------------------------
(* KnownInv: where passwords, keys and rows come from.                     *)

\* What a thread has been told at a prompt that it has not acted on yet.
LEMMA TypedFlow ==
    ASSUME TypeOK, LocalInv, [Next]_vars
    PROVE  /\ env' = env /\ known \subseteq known'
           /\ hash' = hash \/ \E t \in Thread : pc[t] \in {"hash", "newhash"} /\ hash' = typed[t]
           /\ \A u \in Thread : pc'[u] \in {"hash", "cache", "newhash", "login"} =>
                \/ pc'[u] = pc[u] /\ typed'[u] = typed[u]
                \/ pc[u] = "hash" /\ pc'[u] = "cache" /\ typed'[u] = typed[u]
                \/ pc'[u] \in {"hash", "newhash"} /\ typed'[u] \in known'
                \/ pc'[u] = "login" /\ \E p \in Password : Login(u, p) /\ typed'[u] = p
<1> DEFINE Flow(u) == pc'[u] \in {"hash", "cache", "newhash", "login"} =>
             \/ pc'[u] = pc[u] /\ typed'[u] = typed[u]
             \/ pc[u] = "hash" /\ pc'[u] = "cache" /\ typed'[u] = typed[u]
             \/ pc'[u] \in {"hash", "newhash"} /\ typed'[u] \in known'
             \/ pc'[u] = "login" /\ \E p \in Password : Login(u, p) /\ typed'[u] = p
           Flows == /\ env' = env /\ known \subseteq known'
                    /\ \/ hash' = hash
                       \/ \E t \in Thread : pc[t] \in {"hash", "newhash"} /\ hash' = typed[t]
                    /\ \A u \in Thread : Flow(u)
<1>1. StoreTypeOK
  BY DEF TypeOK
<1>2. CASE Silent
  BY <1>2 DEF Silent, files
<1>3. ASSUME NEW p \in Process, Crash(p) PROVE Flows
  BY <1>1, <1>3 DEF Crash, StoreTypeOK, files
<1>4. ASSUME NEW t \in Thread, Ends(t) \/ Writes(t) \/ Reencrypt(t) PROVE Flows
  <2>1. UNCHANGED <<env, hash, known>> /\ Finish(t)
    BY <1>4 DEF Ends, Writes, Reencrypt
  <2>2. QED
    BY <1>1, <2>1, FinishEffect
<1>5. ASSUME NEW t \in Thread, NEW p, NEW q \in {"salt", "ready", "rewrap"}, Moves(t, p, q) PROVE Flows
  BY <1>1, <1>5, GotoEffect DEF Moves, files
<1>6. ASSUME NEW t \in Thread, CacheFirst(t) \/ CacheLogin(t) \/ ReadAll(t) PROVE Flows
  BY <1>1, <1>6, GotoEffect DEF CacheFirst, CacheLogin, ReadAll, files, StoreTypeOK
<1>7. ASSUME NEW t \in Thread, FindSalt(t) \/ WriteSalt(t) \/ WriteHash(t) \/ WriteNewHash(t) PROVE Flows
  BY <1>1, <1>7, GotoEffect DEF FindSalt, WriteSalt, WriteHash, WriteNewHash, files, StoreTypeOK
<1>8. ASSUME NEW t \in Thread, NEW p \in Password, Confirm(t, p) \/ Unlock(t, p) \/ Rekey(t, p)
      PROVE  Flows
  BY <1>1, <1>8, GotoEffect DEF Confirm, Unlock, Rekey, files, StoreTypeOK
<1>9. ASSUME NEW t \in Thread, NEW p \in Password, Login(t, p) PROVE Flows
  <2>1. /\ UNCHANGED <<env, hash, known>> /\ typed'[t] = p
        /\ pc'[t] = "login" /\ \A u \in Thread : u # t => pc'[u] = pc[u] /\ typed'[u] = typed[u]
    BY <1>1, <1>9, GotoEffect DEF Login, files, StoreTypeOK
  <2>2. QED
    BY <1>9, <2>1
<1>10. QED
  BY <1>1, <1>2, <1>3, <1>4, <1>5, <1>6, <1>7, <1>8, <1>9, StepKinds

\* A new key is derived from what t has been told; a new row is encrypted with
\* a key that somebody holds.
NewKey(t, k) ==
    \/ CacheFirst(t) /\ k = Derived(typed[t], seen[t])
    \/ CacheLogin(t) /\ k = Derived(typed[t], salt)
    \/ \E p \in Password : (Unlock(t, p) \/ Rekey(t, p)) /\ k = Derived(p, salt)

RowsFlow ==
    \A i \in Id : rows'[i] # NoRow =>
        \/ rows[i] # NoRow /\ rows'[i].key = rows[i].key
        \/ \E t \in Thread : Held(t) # NoKey /\ rows'[i].key = Held(t)

LEMMA KeyFlow ==
    ASSUME TypeOK, LocalInv, [Next]_vars
    PROVE  /\ RowsFlow
           /\ \/ \A p \in Process : fernet'[p] \in {fernet[p], NoKey}
              \/ /\ rows' = rows /\ salt' = salt
                 /\ \E t \in Thread :
                      /\ fernet'[Proc(t)] # fernet[Proc(t)] => NewKey(t, fernet'[Proc(t)])
                      /\ \A p \in Process : p # Proc(t) => fernet'[p] = fernet[p]
<1> DEFINE Kept == \A p \in Process : fernet'[p] \in {fernet[p], NoKey}
           Gained(t) ==
             /\ fernet'[Proc(t)] # fernet[Proc(t)] => NewKey(t, fernet'[Proc(t)])
             /\ \A p \in Process : p # Proc(t) => fernet'[p] = fernet[p]
<1>1. StoreTypeOK
  BY DEF TypeOK
<1>2. rows' = rows => RowsFlow
  BY DEF RowsFlow
<1>3. CASE Silent
  BY <1>2, <1>3 DEF Silent, files
<1>4. ASSUME NEW p \in Process, Crash(p) PROVE RowsFlow /\ Kept
  BY <1>1, <1>2, <1>4 DEF Crash, StoreTypeOK, files, Process
<1>5. ASSUME NEW t \in Thread, Ends(t) PROVE RowsFlow /\ Kept
  <2>1. rows' = rows /\ Finish(t)
    BY <1>5 DEF Ends
  <2>2. QED
    BY <1>1, <1>2, <2>1, FinishEffect
<1>6. ASSUME NEW t \in Thread, Writes(t) PROVE RowsFlow /\ Kept
  <2>1. Finish(t) /\ Held(t) # NoKey
    BY <1>6 DEF Writes, LocalInv, Keyed
  <2>2. RowsFlow
    BY <1>6, <2>1 DEF Writes, RowsFlow
  <2>3. QED
    BY <1>1, <2>1, <2>2, FinishEffect
<1>7. ASSUME NEW t \in Thread, Reencrypt(t) PROVE RowsFlow /\ Kept
  <2>1. Finish(t) /\ Held(t) # NoKey /\ Held(t) = fernet[t]
    BY <1>7, ProcType DEF Reencrypt, LocalInv, Keyed, Changing, Held
  <2>2. \A i \in Id : \/ rows'[i] = rows[i]
                     \/ rows'[i].key = Held(t)
    BY <1>7, <2>1 DEF Reencrypt
  <2>3. RowsFlow
    <3> SUFFICES ASSUME NEW i \in Id, rows'[i] # NoRow
                 PROVE  \/ rows[i] # NoRow /\ rows'[i].key = rows[i].key
                        \/ \E u \in Thread : Held(u) # NoKey /\ rows'[i].key = Held(u)
      BY DEF RowsFlow
    <3>1. CASE rows'[i] = rows[i]
      BY <3>1
    <3>2. CASE rows'[i].key = Held(t)
      BY <2>1, <3>2
    <3>3. QED
      BY <2>2, <3>1, <3>2
  <2>4. QED
    BY <1>1, <2>1, <2>3, FinishEffect
<1>8. ASSUME NEW t \in Thread,
             \/ \E p, q : Moves(t, p, q)
             \/ FindSalt(t) \/ WriteSalt(t) \/ WriteHash(t) \/ ReadAll(t) \/ WriteNewHash(t)
             \/ \E p \in Password : Confirm(t, p) \/ Login(t, p)
      PROVE  RowsFlow /\ Kept
  BY <1>2, <1>8 DEF Moves, FindSalt, WriteSalt, WriteHash, ReadAll, WriteNewHash, Confirm, Login, files
<1>9. ASSUME NEW t \in Thread, CacheFirst(t) \/ CacheLogin(t)
      PROVE  rows' = rows /\ salt' = salt /\ Gained(t)
  <2>1. UNCHANGED <<rows, salt>>
    BY <1>9 DEF CacheFirst, CacheLogin, files
  <2>2. CASE CacheFirst(t)
    BY <1>1, <2>1, <2>2, DerivesEffect DEF Derives, NewKey
  <2>3. CASE CacheLogin(t)
    <3>1. Proc(t) = Web
      BY <2>3, ProcType DEF CacheLogin, LocalInv
    <3>2. QED
      BY <1>1, <2>1, <2>3, <3>1, DerivesEffect DEF Derives, NewKey
  <2>4. QED
    BY <1>9, <2>2, <2>3, <2>1
<1>10. ASSUME NEW t \in Thread, NEW p \in Password, Unlock(t, p) \/ Rekey(t, p)
       PROVE  rows' = rows /\ salt' = salt /\ Gained(t)
  <2>1. UNCHANGED <<rows, salt>>
    BY <1>10 DEF Unlock, Rekey, files
  <2>2. QED
    BY <1>1, <1>10, <2>1, DerivesEffect DEF Derives, NewKey
<1> HIDE DEF Kept, Gained
<1>11. QED
  <2>1. (RowsFlow /\ Kept) \/ \E t \in Thread : rows' = rows /\ salt' = salt /\ Gained(t)
    <3>1. CASE Silent
      BY <1>2, <3>1 DEF Silent, files, Kept
    <3>2. QED
      BY <1>1, <3>1, <1>4, <1>5, <1>6, <1>7, <1>8, <1>9, <1>10, StepKinds
  <2>2. QED
    BY <1>2, <2>1 DEF Kept, Gained

\* The password of a login has been chosen, unless a setup may be unfinished.
LEMMA LoginKnown ==
    ASSUME TypeOK, SetupInv, KnownInv, ~UnsettledTypos,
           NEW t \in Thread, NEW p \in Password, Login(t, p)
    PROVE  p \in known
<1>1. hash # NoPassword => hash \in known
  BY DEF KnownInv
<1>2. CASE hash # NoPassword
  BY <1>1, <1>2 DEF Login, Verifies
<1>3. CASE hash = NoPassword
  <2>1. "typo" \notin env
    <3>1. marker /\ "fresh" \in env
      BY <1>3 DEF SetupInv, Login
    <3>2. "overlap" \notin env => \A u \in Thread : pc[u] = "idle"
      BY DEF Login, Free
    <3>3. "overlap" \notin env => "crash" \in env
      BY <1>3, <3>1, <3>2 DEF SetupInv
    <3>4. QED
      BY <3>1, <3>3 DEF UnsettledTypos
  <2>2. p \in known
    BY <1>3, <2>1, StoreAssumption DEF Login, MayType
  <2>3. QED
    BY <2>2
<1>4. QED
  BY <1>2, <1>3

LEMMA InitKnown == Init => KnownInv
BY StoreAssumption DEF Init, StoreInit, KnownInv, WebKeyChosen

LEMMA KnownStep ==
    ASSUME TypeOK, LocalInv, SetupInv, KnownInv, [Next]_vars PROVE KnownInv'
<1>1. StoreTypeOK /\ env' = env /\ known \subseteq known'
  BY TypedFlow DEF TypeOK
<1>2. hash' \in known' \cup {NoPassword}
  BY TypedFlow DEF KnownInv
<1>3. \A t \in Thread : pc'[t] \in {"hash", "cache", "newhash"} => typed'[t] \in known'
  BY TypedFlow DEF KnownInv
<1>4. ASSUME ~UnsettledTypos, NEW t \in Thread, pc'[t] = "login" PROVE typed'[t] \in known'
  BY <1>4, TypedFlow, LoginKnown DEF KnownInv
<1> DEFINE Sound(t, k) ==
             /\ (~UnsettledTypos /\ t \in WebThread) \/ "typo" \notin env => k.password \in known'
             /\ ~SetupRace => k.salt = salt
<1>5. ASSUME NEW t \in Thread, NEW k, NewKey(t, k) PROVE Sound(t, k)
  <2>1. CASE CacheFirst(t) /\ k = Derived(typed[t], seen[t])
    BY <1>1, <2>1 DEF CacheFirst, KnownInv, SetupInv, Derived
  <2>2. CASE CacheLogin(t) /\ k = Derived(typed[t], salt)
    BY <1>1, <2>2 DEF CacheLogin, KnownInv, UnsettledTypos, Derived
  <2>3. ASSUME NEW p \in Password, Unlock(t, p), k = Derived(p, salt) PROVE Sound(t, k)
    BY <1>1, <2>3, StoreAssumption DEF Unlock, MayType, KnownInv, Derived
  <2>4. ASSUME NEW p \in Password, Rekey(t, p), k = Derived(p, salt) PROVE Sound(t, k)
    BY <2>4 DEF Rekey, Derived
  <2>5. QED
    BY <1>5, <2>1, <2>2, <2>3, <2>4 DEF NewKey
<1> HIDE DEF Sound
<1>6. /\ (~SetupRace => \A p \in Process : fernet[p] # NoKey => fernet[p].salt = salt)
      /\ (~SetupRace => \A i \in Id : rows[i] # NoRow => rows[i].key.salt = salt)
      /\ ("typo" \notin env => \A p \in Process : fernet[p] # NoKey => fernet[p].password \in known)
      /\ ("typo" \notin env => \A i \in Id : rows[i] # NoRow => rows[i].key.password \in known)
      /\ (~UnsettledTypos /\ fernet[Web] # NoKey => fernet[Web].password \in known)
  BY DEF KnownInv, Process, WebKeyChosen
\* The salt changes only where there are neither keys nor rows.
<1>7. ASSUME ~SetupRace, salt' # salt
      PROVE  /\ \A p \in Process : fernet'[p] = NoKey
             /\ \A i \in Id : rows'[i] = NoRow
  <2>1. PICK t \in Thread : WriteSalt(t)
    BY <1>1, <1>7, SetupKinds DEF Dies, Beside, Moves, FindSalt, WriteHash, Confirm, files
  <2>2. ~marker
    BY <1>7, <2>1 DEF WriteSalt, SetupInv
  <2>3. QED
    BY <2>1, <2>2 DEF WriteSalt, LocalInv, Process
<1>8. ASSUME NEW p \in Process, fernet'[p] # NoKey
      PROVE  /\ ~SetupRace => fernet'[p].salt = salt'
             /\ "typo" \notin env => fernet'[p].password \in known'
             /\ p = Web /\ ~UnsettledTypos => fernet'[p].password \in known'
  <2>1. CASE fernet'[p] = fernet[p]
    BY <1>1, <1>6, <1>7, <1>8, <2>1
  <2>2. CASE fernet'[p] # fernet[p]
    <3>1. PICK t \in Thread : p = Proc(t) /\ NewKey(t, fernet'[p]) /\ salt' = salt
      BY <1>8, <2>2, KeyFlow
    <3>2. Sound(t, fernet'[p])
      BY <1>5, <3>1
    <3>3. p = Web => t \in WebThread
      BY <3>1, StoreAssumption, ProcType DEF Proc, Thread
    <3>4. QED
      BY <3>1, <3>2, <3>3 DEF Sound
  <2>3. QED
    BY <2>1, <2>2
<1>9. ASSUME NEW i \in Id, rows'[i] # NoRow
      PROVE  /\ ~SetupRace => rows'[i].key.salt = salt'
             /\ "typo" \notin env => rows'[i].key.password \in known'
  <2>1. \/ rows[i] # NoRow /\ rows'[i].key = rows[i].key
        \/ \E t \in Thread : Held(t) # NoKey /\ rows'[i].key = Held(t)
    BY <1>9, KeyFlow DEF RowsFlow
  <2>2. ~SetupRace => rows'[i].key.salt = salt /\ salt' = salt
    BY <1>6, <1>7, <1>9, <2>1, ProcType DEF Held
  <2>3. "typo" \notin env => rows'[i].key.password \in known'
    BY <1>1, <1>6, <2>1, ProcType DEF Held
  <2>4. QED
    BY <2>2, <2>3
<1>10. WebKeyChosen'
  BY <1>1, <1>8 DEF WebKeyChosen, UnsettledTypos, Process
<1>11. QED
  BY <1>1, <1>2, <1>3, <1>4, <1>8, <1>9, <1>10 DEF KnownInv, SetupRace, UnsettledTypos, Process

-----------------------------------------------------------------------------
(* SnapInv and OrderlyInv: what holds of operations that run to their end. *)

\* The rows change only when an operation ends.
LEMMA SnapStep ==
    ASSUME TypeOK, LocalInv, SetupInv, SnapInv, [Next]_vars PROVE SnapInv'
<1>1. StoreTypeOK /\ env' = env
  BY TypedFlow DEF TypeOK
<1> SUFFICES ASSUME "overlap" \notin env, NEW u \in Thread, pc'[u] \in Changing
             PROVE  \A i \in Id : snap'[u][i] = rows'[i].value
  BY <1>1 DEF SnapInv
<1>2. pc[u] \in Changing => \A i \in Id : snap[u][i] = rows[i].value
  BY DEF SnapInv
<1>3. CASE Silent
  BY <1>2, <1>3 DEF Silent, files
<1>4. ASSUME NEW p \in Process, Crash(p) PROVE \A i \in Id : snap'[u][i] = rows'[i].value
  BY <1>2, <1>4 DEF Crash, files, Changing
<1>5. ASSUME NEW t \in Thread, Ends(t) PROVE \A i \in Id : snap'[u][i] = rows'[i].value
  <2>1. rows' = rows /\ Finish(t)
    BY <1>5 DEF Ends
  <2>2. pc'[u] = pc[u] /\ snap'[u] = snap[u]
    BY <1>1, <2>1, FinishEffect DEF Changing
  <2>3. QED
    BY <1>2, <2>1, <2>2
<1>6. ASSUME NEW t \in Thread, Writes(t) \/ Reencrypt(t) PROVE FALSE
  <2>1. Finish(t) /\ pc[t] # "idle"
    BY <1>6 DEF Writes, Reencrypt
  <2>2. u # t /\ pc[u] # "idle"
    BY <1>1, <2>1, FinishEffect DEF Changing
  <2>3. QED
    BY <2>1, <2>2 DEF SetupInv
<1>7. ASSUME NEW t \in Thread, ReadAll(t) PROVE \A i \in Id : snap'[u][i] = rows'[i].value
  BY <1>1, <1>2, <1>7, GotoEffect DEF ReadAll, files, StoreTypeOK
<1>8. ASSUME NEW t \in Thread,
             \/ \E p, q \in {"idle", "ready", "salt", "rewrap"} : Moves(t, p, q)
             \/ FindSalt(t) \/ WriteSalt(t) \/ WriteHash(t) \/ CacheFirst(t)
             \/ CacheLogin(t) \/ WriteNewHash(t)
             \/ \E p \in Password : Confirm(t, p) \/ Unlock(t, p) \/ Login(t, p) \/ Rekey(t, p)
      PROVE  \A i \in Id : snap'[u][i] = rows'[i].value
  <2>1. snap' = snap /\ rows' = rows
    BY <1>8 DEF Moves, FindSalt, WriteSalt, WriteHash, CacheFirst, CacheLogin, WriteNewHash,
       Confirm, Unlock, Login, Rekey, files
  <2>2. pc[u] \in Changing
    BY <1>1, <1>8, GotoEffect DEF Moves, FindSalt, WriteSalt, WriteHash, CacheFirst, CacheLogin,
       WriteNewHash, Confirm, Unlock, Login, Rekey, Changing
  <2>3. QED
    BY <1>2, <2>1, <2>2
<1>9. QED
  BY <1>1, <1>3, <1>4, <1>5, <1>6, <1>7, <1>8, StepKinds

\* OrderlyInv, when t is the only thread that runs.
Alone(t) == \A u \in Thread : u # t => pc[u] = "idle"

OrderlyAt(t) ==
    /\ fernet[Web] # NoKey => "web" \in env /\ fernet[Web] = Derived(hash, salt)
    /\ \A u \in Command : u # t \/ pc[u] \notin Keyed => fernet[u] = NoKey
    /\ pc[t] # "idle" /\ t \in WebThread => "web" \in env
    /\ pc[t] \in {"hash", "cache"} =>
         /\ \A p \in Process : fernet[p] = NoKey
         /\ \A i \in Id : rows[i] = NoRow
    /\ pc[t] \in {"cache", "login"} => typed[t] = hash
    /\ pc[t] \in Keyed \ {"newhash"} => Held(t) = Derived(hash, salt)
    /\ pc[t] = "newhash" => fernet[t] = Derived(typed[t], salt)
    /\ pc[t] # "reencrypt" => \A i \in Id : rows[i] # NoRow => rows[i].key = Derived(hash, salt)

LEMMA OrderlyAlone ==
    ASSUME NEW t \in Thread
    PROVE  /\ Orderly /\ Alone(t) => (OrderlyInv <=> OrderlyAt(t))
           /\ Orderly' /\ Alone(t)' => (OrderlyInv' <=> OrderlyAt(t)')
<1>1. Orderly /\ Alone(t) => (OrderlyInv <=> OrderlyAt(t))
  BY DEF OrderlyInv, OrderlyAt, Alone, Keyed, PasswordOpensRows, Process, Thread
<1>2. Orderly' /\ Alone(t)' => (OrderlyInv' <=> OrderlyAt(t)')
  BY DEF OrderlyInv, OrderlyAt, Alone, Keyed, PasswordOpensRows, Process, Thread
<1>3. QED
  BY <1>1, <1>2

LEMMA InitOrderly == Init => SnapInv /\ OrderlyInv
<1> SUFFICES ASSUME Init PROVE SnapInv /\ OrderlyInv
  OBVIOUS
<1>1. /\ \A t \in Thread : pc[t] = "idle"
      /\ \A p \in Process : fernet[p] = NoKey
      /\ \A i \in Id : rows[i] = NoRow
  BY DEF Init, StoreInit, Process
<1>2. QED
  BY <1>1 DEF SnapInv, OrderlyInv, PasswordOpensRows, Changing, Keyed, Process

\* The keys and rows that t leaves when its operation ends.
LEMMA OrderlyEnds ==
    ASSUME StoreTypeOK, LocalInv, SnapInv, Orderly, NEW t \in Thread, Alone(t), OrderlyAt(t),
           Ends(t) \/ Writes(t) \/ Reencrypt(t)
    PROVE  OrderlyAt(t)'
<1>1. Finish(t) /\ UNCHANGED <<env, salt, hash>>
  BY DEF Ends, Writes, Reencrypt
<1>2. fernet'[Web] # NoKey => "web" \in env /\ fernet'[Web] = Derived(hash, salt)
  BY <1>1, FinishEffect DEF OrderlyAt, Process
<1>3. \A u \in Command : fernet'[u] = NoKey
  BY <1>1, FinishEffect DEF OrderlyAt, Process
<1>4. \A i \in Id : rows'[i] # NoRow => rows'[i].key = Derived(hash, salt)
  <2>1. CASE Ends(t)
    BY <2>1 DEF Ends, OrderlyAt
  <2>2. CASE Writes(t)
    <3>1. Held(t) = Derived(hash, salt) /\ \A i \in Id : rows[i] # NoRow => rows[i].key = Held(t)
      BY <2>2 DEF Writes, OrderlyAt, Keyed
    <3>2. QED
      BY <2>2, <3>1 DEF Writes
  <2>3. CASE Reencrypt(t)
    <3>1. fernet[t] = Derived(hash, salt)
      BY <2>3, ProcType DEF Reencrypt, OrderlyAt, Keyed, Held, LocalInv, Changing
    <3>2. ASSUME NEW i \in Id, rows[i] # NoRow PROVE snap[t][i] # NoValue
      BY <2>3, <3>2, StoreAssumption DEF Reencrypt, SnapInv, Orderly, Changing, StoreTypeOK, Row
    <3>3. QED
      BY <2>3, <3>1, <3>2 DEF Reencrypt
  <2>4. QED
    BY <2>1, <2>2, <2>3
<1>5. QED
  BY <1>1, <1>2, <1>3, <1>4, FinishEffect DEF OrderlyAt, Keyed

\* The first password.
LEMMA OrderlySetup ==
    ASSUME TypeOK, LocalInv, SetupInv, Orderly, NEW t \in Thread, Alone(t), OrderlyAt(t),
           \/ Free(t) /\ ~marker /\ Moves(t, "idle", "salt")
           \/ FindSalt(t) \/ WriteSalt(t) \/ WriteHash(t) \/ CacheFirst(t)
           \/ \E p \in Password : Confirm(t, p)
    PROVE  OrderlyAt(t)'
<1>1. StoreTypeOK
  BY DEF TypeOK
<1>2. ~SetupRace
  BY DEF Orderly, SetupRace
<1>3. ~marker => \A p \in Process : fernet[p] = NoKey
  BY DEF LocalInv, Process
<1>4. ~marker => \A i \in Id : rows[i] = NoRow
  BY DEF LocalInv
<1>5. CASE Free(t) /\ ~marker /\ Moves(t, "idle", "salt")
  BY <1>1, <1>5, GotoEffect DEF Free, Moves, files, OrderlyAt, Keyed
<1>6. CASE FindSalt(t)
  BY <1>1, <1>6, GotoEffect DEF FindSalt, files, OrderlyAt, Keyed
<1>7. ASSUME WriteSalt(t) \/ \E p \in Password : Confirm(t, p) PROVE OrderlyAt(t)'
  <2>1. ~marker /\ rows' = rows /\ fernet' = fernet /\ env' = env
    BY <1>2, <1>7 DEF SetupInv, WriteSalt, Confirm
  <2>2. /\ \A p \in Process : fernet'[p] = NoKey
        /\ \A i \in Id : rows'[i] = NoRow
    BY <1>3, <1>4, <2>1
  <2>3. pc'[t] \in {"confirm", "hash"} /\ pc[t] # "idle"
    BY <1>1, <1>7, GotoEffect DEF WriteSalt, Confirm
  <2>4. QED
    BY <2>1, <2>2, <2>3 DEF OrderlyAt, Keyed, Process
<1>8. CASE WriteHash(t)
  <2>1. /\ \A p \in Process : fernet[p] = NoKey
        /\ \A i \in Id : rows[i] = NoRow
    BY <1>8 DEF WriteHash, OrderlyAt
  <2>2. /\ UNCHANGED <<env, rows, fernet>> /\ pc'[t] = "cache" /\ pc[t] # "idle"
        /\ typed'[t] = hash'
    BY <1>1, <1>8, GotoEffect DEF WriteHash
  <2>3. QED
    BY <2>1, <2>2 DEF OrderlyAt, Keyed, Process
<1>9. CASE CacheFirst(t)
  <2>1. Derived(typed[t], seen[t]) = Derived(hash, salt)
    BY <1>2, <1>9 DEF CacheFirst, SetupInv, OrderlyAt
  <2>2. /\ fernet'[Proc(t)] = Derived(hash, salt)
        /\ \A p \in Process : p # Proc(t) => fernet'[p] = NoKey
    BY <1>1, <1>9, <2>1, DerivesEffect DEF Derives, CacheFirst, OrderlyAt
  <2>3. /\ UNCHANGED <<env, salt, hash>> /\ \A i \in Id : rows'[i] = NoRow
        /\ pc[t] = "cache" /\ pc'[t] = IF t \in WebThread THEN "idle" ELSE "ready"
    BY <1>1, <1>9, GotoEffect DEF CacheFirst, files, OrderlyAt
  <2>4. CASE t \in WebThread
    BY <2>2, <2>3, <2>4, ProcType, StoreAssumption DEF OrderlyAt, Keyed, Process
  <2>5. CASE t \in Command
    BY <2>2, <2>3, <2>5, ProcType, StoreAssumption DEF OrderlyAt, Keyed, Process, Held
  <2>6. QED
    BY <2>4, <2>5 DEF Thread
<1>10. QED
  BY <1>5, <1>6, <1>7, <1>8, <1>9

\* Sessions and keys.
LEMMA OrderlyKeys ==
    ASSUME TypeOK, LocalInv, SetupInv, Orderly, NEW t \in Thread, Alone(t), OrderlyAt(t),
           \/ Moves(t, "ready", "rewrap")
           \/ t \in WebThread /\ Free(t) /\ fernet[Web] # NoKey /\ Moves(t, "idle", "ready")
           \/ CacheLogin(t)
           \/ \E p \in Password : Unlock(t, p) \/ Login(t, p)
    PROVE  OrderlyAt(t)'
<1>1. StoreTypeOK
  BY DEF TypeOK
<1>2. CASE Moves(t, "ready", "rewrap")
  BY <1>1, <1>2, GotoEffect DEF Moves, files, OrderlyAt, Keyed, Held
<1>3. CASE t \in WebThread /\ Free(t) /\ fernet[Web] # NoKey /\ Moves(t, "idle", "ready")
  BY <1>1, <1>3, GotoEffect, ProcType, StoreAssumption DEF Moves, Free, files, OrderlyAt, Keyed, Held
\* The password whose hash is on file is the one that is typed.
<1>4. ASSUME NEW p \in Password, Free(t), marker, p \in MayType PROVE p = hash
  <2>1. \A u \in Thread : pc[u] = "idle"
    BY <1>4 DEF Free, Orderly
  <2>2. hash # NoPassword
    BY <1>4, <2>1 DEF SetupInv, Orderly
  <2>3. QED
    BY <1>4, <2>2 DEF MayType, Orderly
<1>5. CASE CacheLogin(t)
  <2>1. t \in WebThread /\ typed[t] = hash
    BY <1>5 DEF CacheLogin, LocalInv, OrderlyAt
  <2>2. /\ fernet'[Web] = Derived(hash, salt)
        /\ \A p \in Process : p # Web => fernet'[p] = fernet[p]
    BY <1>1, <1>5, <2>1, DerivesEffect, ProcType DEF Derives, OrderlyAt
  <2>3. /\ UNCHANGED <<env, salt, hash, rows>>
        /\ pc[t] = "login" /\ pc'[t] = "idle"
    BY <1>1, <1>5, GotoEffect DEF CacheLogin, files
  <2>4. QED
    BY <2>1, <2>2, <2>3, StoreAssumption DEF OrderlyAt, Keyed, Process
<1>6. ASSUME NEW p \in Password, Unlock(t, p) PROVE OrderlyAt(t)'
  <2>1. p = hash /\ t \in Command
    BY <1>4, <1>6 DEF Unlock
  <2>2. /\ fernet'[t] = Derived(hash, salt)
        /\ \A q \in Process : q # t => fernet'[q] = fernet[q]
    BY <1>1, <1>6, <2>1, DerivesEffect, ProcType DEF Derives
  <2>3. /\ UNCHANGED <<env, salt, hash, rows>>
        /\ pc[t] = "idle" /\ pc'[t] = "ready"
    BY <1>1, <1>6, GotoEffect DEF Unlock, Free, files
  <2>4. QED
    BY <2>1, <2>2, <2>3, ProcType, StoreAssumption DEF OrderlyAt, Keyed, Process, Held
<1>7. ASSUME NEW p \in Password, Login(t, p) PROVE OrderlyAt(t)'
  <2>1. p = hash
    BY <1>4, <1>7 DEF Login
  <2>2. /\ UNCHANGED <<env, salt, hash, rows, fernet>> /\ typed'[t] = p
        /\ pc[t] = "idle" /\ pc'[t] = "login" /\ "web" \in env
    BY <1>1, <1>7, GotoEffect DEF Login, Free, files, StoreTypeOK
  <2>3. QED
    BY <2>1, <2>2 DEF OrderlyAt, Keyed
<1>8. QED
  BY <1>2, <1>3, <1>5, <1>6, <1>7

\* The change of password up to its last step.
LEMMA OrderlyChange ==
    ASSUME TypeOK, LocalInv, Orderly, NEW t \in Thread, Alone(t), OrderlyAt(t),
           ReadAll(t) \/ WriteNewHash(t) \/ \E p \in Password : Rekey(t, p)
    PROVE  OrderlyAt(t)'
<1>1. StoreTypeOK
  BY DEF TypeOK
<1>2. t \in Command /\ "passwd" \in env /\ fernet[Web] = NoKey
  BY DEF ReadAll, WriteNewHash, Rekey, LocalInv, Changing, OrderlyAt, Orderly
<1>3. CASE ReadAll(t)
  BY <1>1, <1>3, GotoEffect DEF ReadAll, files, OrderlyAt, Keyed, Held
<1>4. CASE WriteNewHash(t)
  <2>1. /\ UNCHANGED <<env, salt, rows, fernet>> /\ hash' = typed[t]
        /\ pc[t] = "newhash" /\ pc'[t] = "reencrypt"
    BY <1>1, <1>4, GotoEffect DEF WriteNewHash
  <2>2. fernet[t] = Derived(hash', salt')
    BY <2>1 DEF OrderlyAt
  <2>3. QED
    BY <1>2, <2>1, <2>2, ProcType DEF OrderlyAt, Keyed, Held
<1>5. ASSUME NEW p \in Password, Rekey(t, p) PROVE OrderlyAt(t)'
  <2>1. /\ fernet'[t] = Derived(p, salt)
        /\ \A q \in Process : q # t => fernet'[q] = fernet[q]
    BY <1>1, <1>2, <1>5, DerivesEffect, ProcType DEF Derives
  <2>2. /\ UNCHANGED <<env, salt, hash, rows>> /\ typed'[t] = p
        /\ pc[t] = "newpassword" /\ pc'[t] = "newhash"
    BY <1>1, <1>5, GotoEffect DEF Rekey, files, StoreTypeOK
  <2>3. fernet'[Web] = NoKey
    BY <1>2, <2>1, StoreAssumption DEF Process
  <2>4. QED
    BY <1>2, <2>1, <2>2, <2>3, StoreAssumption DEF OrderlyAt, Keyed, Process
<1>6. QED
  BY <1>3, <1>4, <1>5

LEMMA OrderlyStep ==
    ASSUME TypeOK, LocalInv, SetupInv, SnapInv, OrderlyInv, [Next]_vars PROVE OrderlyInv'
<1>1. StoreTypeOK /\ env' = env /\ (Orderly' => Orderly)
  BY TypedFlow DEF TypeOK, Orderly
<1> SUFFICES ASSUME Orderly, Orderly' PROVE OrderlyInv'
  BY <1>1 DEF OrderlyInv
<1>2. CASE Silent
  BY <1>2 DEF Silent, files, OrderlyInv, PasswordOpensRows, Orderly, Held
<1>3. ASSUME NEW p \in Process, Crash(p) PROVE FALSE
  BY <1>3 DEF Crash, Orderly
\* Only the thread that steps runs, before the step and after it.
<1>4. ASSUME NEW t \in Thread, pc[t] # "idle" \/ Free(t) PROVE Alone(t) /\ OrderlyAt(t)
  <2>1. Alone(t)
    BY <1>4 DEF Alone, SetupInv, Orderly, Free
  <2>2. QED
    BY <2>1, OrderlyAlone
<1>5. ASSUME NEW t \in Thread, Alone(t), OrderlyAt(t)',
             \A u \in Thread : u # t => pc'[u] = pc[u]
      PROVE  OrderlyInv'
  BY <1>5, OrderlyAlone DEF Alone
<1>6. ASSUME NEW t \in Thread, Ends(t) \/ Writes(t) \/ Reencrypt(t) PROVE OrderlyInv'
  <2>1. Finish(t) /\ pc[t] # "idle"
    BY <1>6 DEF Ends, Writes, Reencrypt
  <2>2. \A u \in Thread : u # t => pc'[u] = pc[u]
    BY <1>1, <2>1, FinishEffect
  <2>3. QED
    BY <1>1, <1>4, <1>5, <1>6, <2>1, <2>2, OrderlyEnds
<1>7. ASSUME NEW t \in Thread,
             \/ Free(t) /\ ~marker /\ Moves(t, "idle", "salt")
             \/ FindSalt(t) \/ WriteSalt(t) \/ WriteHash(t) \/ CacheFirst(t)
             \/ \E p \in Password : Confirm(t, p)
      PROVE  OrderlyInv'
  <2>1. /\ pc[t] # "idle" \/ Free(t)
        /\ \A u \in Thread : u # t => pc'[u] = pc[u]
    BY <1>1, <1>7, GotoEffect DEF Moves, FindSalt, WriteSalt, WriteHash, CacheFirst, Confirm
  <2>2. QED
    BY <1>4, <1>5, <1>7, <2>1, OrderlySetup
<1>8. ASSUME NEW t \in Thread,
             \/ Moves(t, "ready", "rewrap")
             \/ t \in WebThread /\ Free(t) /\ fernet[Web] # NoKey /\ Moves(t, "idle", "ready")
             \/ CacheLogin(t)
             \/ \E p \in Password : Unlock(t, p) \/ Login(t, p)
      PROVE  OrderlyInv'
  <2>1. /\ pc[t] # "idle" \/ Free(t)
        /\ \A u \in Thread : u # t => pc'[u] = pc[u]
    BY <1>1, <1>8, GotoEffect DEF Moves, CacheLogin, Unlock, Login
  <2>2. QED
    BY <1>4, <1>5, <1>8, <2>1, OrderlyKeys
<1>9. ASSUME NEW t \in Thread,
             ReadAll(t) \/ WriteNewHash(t) \/ \E p \in Password : Rekey(t, p)
      PROVE  OrderlyInv'
  <2>1. /\ pc[t] # "idle"
        /\ \A u \in Thread : u # t => pc'[u] = pc[u]
    BY <1>1, <1>9, GotoEffect DEF ReadAll, WriteNewHash, Rekey
  <2>2. QED
    BY <1>4, <1>5, <1>9, <2>1, OrderlyChange
<1>10. QED
  BY <1>1, <1>2, <1>3, <1>6, <1>7, <1>8, <1>9, StepKinds

-----------------------------------------------------------------------------
(* The theorems.                                                           *)

\* Every behaviour keeps the types: no thread uses a key, a salt or a password
\* that it has not got.
THEOREM TypeCorrect == Spec => []TypeOK
<1>1. Init => TypeOK /\ LocalInv
  BY InitLocal
<1>2. TypeOK /\ LocalInv /\ [Next]_vars => TypeOK' /\ LocalInv'
  BY TypeStep, LocalStep
<1>3. QED
  BY <1>1, <1>2, PTL DEF Spec

\* The inductive invariant of the store, in every environment.
THEOREM StoreCorrect == Spec => []StoreInv
<1>1. Init => TypeOK /\ StoreInv
  BY InitLocal, InitSetup, InitKnown, InitOrderly DEF StoreInv
<1>2. TypeOK /\ StoreInv /\ [Next]_vars => TypeOK' /\ StoreInv'
  BY TypeStep, LocalStep, SetupStepInv, KnownStep, SnapStep, OrderlyStep DEF StoreInv
<1>3. QED
  BY <1>1, <1>2, PTL DEF Spec

\* No crash, race or half-finished change of password leaves a row that none of
\* the user's passwords opens with the salt on disk.
THEOREM RowsCorrect == Spec => []RowsRecoverable
<1>1. StoreInv => RowsRecoverable
  BY DEF StoreInv, KnownInv, RowsRecoverable
<1>2. QED
  BY <1>1, StoreCorrect, PTL

\* Of operations that run to their end, the password whose hash is on file opens
\* every row.
THEOREM PasswordCorrect == Spec => []PasswordOpensRows
<1>1. StoreInv => PasswordOpensRows
  BY DEF StoreInv, OrderlyInv, PasswordOpensRows
<1>2. QED
  BY <1>1, StoreCorrect, PTL

\* The web UI works with a password that the user has chosen.
THEOREM WebCorrect == Spec => []WebKeyChosen
<1>1. StoreInv => WebKeyChosen
  BY DEF StoreInv, KnownInv
<1>2. QED
  BY <1>1, StoreCorrect, PTL

-----------------------------------------------------------------------------
(* TeamInv: where only one password is ever chosen, all keys are the same. *)

LEMMA PasswordKinds ==
    ASSUME TypeOK, LocalInv, [Next]_vars
    PROVE  \/ UNCHANGED <<salt, marker, known>>
           \/ \E t \in Thread :
                WriteSalt(t) \/ \E p \in Password : Confirm(t, p) \/ Rekey(t, p)
<1>1. StoreTypeOK
  BY DEF TypeOK
<1>2. CASE Silent
  BY <1>2 DEF Silent, files
<1>3. ASSUME NEW p \in Process, Crash(p) PROVE UNCHANGED <<salt, marker, known>>
  BY <1>3 DEF Crash, files
<1>4. ASSUME NEW t \in Thread, Ends(t) \/ Writes(t) \/ Reencrypt(t)
      PROVE  UNCHANGED <<salt, marker, known>>
  BY <1>4 DEF Ends, Writes, Reencrypt
<1>5. ASSUME NEW t \in Thread,
             \/ \E p, q : Moves(t, p, q)
             \/ FindSalt(t) \/ WriteHash(t) \/ CacheFirst(t) \/ CacheLogin(t) \/ ReadAll(t)
             \/ WriteNewHash(t) \/ \E p \in Password : Unlock(t, p) \/ Login(t, p)
      PROVE  UNCHANGED <<salt, marker, known>>
  BY <1>5 DEF Moves, FindSalt, WriteHash, CacheFirst, CacheLogin, ReadAll, WriteNewHash,
     Unlock, Login, files
<1>6. QED
  BY <1>1, <1>2, <1>3, <1>4, <1>5, StepKinds

\* Keys of a vault or an identity change only with the store at rest.
LEMMA TeamKinds ==
    ASSUME TypeOK, [Next]_vars
    PROVE  \/ UNCHANGED <<private, wrapped>>
           \/ /\ UNCHANGED <<env, salt, marker, known>>
              /\ \/ wrapped' = PublicLock /\ private' = private /\ private # NoKey
                 \/ \E t \in Thread :
                      \/ SetIdentity(t)
                      \/ /\ wrapped' = Held(t) /\ private' = private /\ pc[t] \in {"ready", "rewrap"}
                         /\ private # NoKey \/ pc[t] = "rewrap"
                      \/ OpenIdentity(t)
<1>1. CASE Admitted
  BY <1>1 DEF Admitted, storeVars, files
<1>2. ASSUME NEW t \in Thread, TeamStep(t)
      PROVE  /\ UNCHANGED <<env, salt, marker, known>>
             /\ \/ SetIdentity(t)
                \/ /\ wrapped' = Held(t) /\ private' = private /\ pc[t] \in {"ready", "rewrap"}
                   /\ private # NoKey \/ pc[t] = "rewrap"
                \/ OpenIdentity(t)
  BY <1>2 DEF TeamStep, SetIdentity, CreateVault, OpenIdentity, Rewrap, Team, storeVars, files
<1>3. QED
  BY <1>1, <1>2 DEF Next, vars

OneKnown ==
    ~SetupRace /\ "passwd" \notin env => (\A p, q \in known : p = q) /\ (~marker => known = {})

LEMMA OneKnownStep ==
    ASSUME TypeOK, LocalInv, SetupInv, OneKnown, [Next]_vars PROVE OneKnown'
<1>1. env' = env
  BY TypedFlow
<1>2. CASE UNCHANGED <<salt, marker, known>>
  BY <1>1, <1>2 DEF OneKnown, SetupRace
<1>3. ASSUME NEW t \in Thread, WriteSalt(t) PROVE OneKnown'
  BY <1>3 DEF WriteSalt, OneKnown, SetupRace
<1>4. ASSUME NEW t \in Thread, NEW p \in Password, Confirm(t, p) PROVE OneKnown'
  BY <1>4 DEF Confirm, OneKnown, SetupRace, SetupInv
<1>5. ASSUME NEW t \in Thread, NEW p \in Password, Rekey(t, p) PROVE OneKnown'
  BY <1>1, <1>5 DEF Rekey, OneKnown, LocalInv, Changing
<1>6. QED
  BY <1>2, <1>3, <1>4, <1>5, PasswordKinds

\* An identity comes before the user's row in a vault, and is never withdrawn.
IdentityFirst == /\ wrapped # NoKey => private # NoKey
                 /\ \A t \in Thread : pc[t] = "rewrap" => private # NoKey

LEMMA IdentityFirstStep ==
    ASSUME TypeOK, LocalInv, IdentityFirst, [Next]_vars PROVE IdentityFirst'
<1>1. StoreTypeOK /\ \A t \in Thread : pc[t] \in {"ready", "rewrap"} => Held(t) \in Key /\ Held(t) # NoKey
  BY KeyType DEF TypeOK, LocalInv, Keyed
<1>2. Plain # NoKey /\ Mangled # NoKey /\ PublicLock # NoKey
  BY DEF Plain, Mangled, PublicLock, NoKey
\* The private key stays.
<1>3. private # NoKey => private' # NoKey
  BY <1>1, <1>2, TeamKinds DEF SetIdentity, OpenIdentity, Team
<1>4. wrapped' # NoKey => private' # NoKey
  BY <1>1, <1>2, <1>3, TeamKinds DEF IdentityFirst, SetIdentity, OpenIdentity, Team, storeVars
\* Only who has encrypted it goes on to wrap the vault key.
<1>5. ASSUME NEW u \in Thread, pc'[u] = "rewrap" PROVE pc[u] = "rewrap" \/ (private' = Held(u) /\ pc[u] = "ready")
  <2>1. CASE Silent
    BY <1>5, <2>1 DEF Silent
  <2>2. ASSUME NEW p \in Process, Crash(p) PROVE pc[u] = "rewrap"
    BY <1>1, <1>5, <2>2 DEF Crash
  <2>3. ASSUME NEW t \in Thread, Ends(t) \/ Writes(t) \/ Reencrypt(t) PROVE pc[u] = "rewrap"
    <3>1. Finish(t)
      BY <2>3 DEF Ends, Writes, Reencrypt
    <3>2. QED
      BY <1>1, <1>5, <3>1, FinishEffect
  <2>4. ASSUME NEW t \in Thread, Moves(t, "ready", "rewrap"), private' = Held(t)
        PROVE  pc[u] = "rewrap" \/ (private' = Held(u) /\ pc[u] = "ready")
    BY <1>1, <1>5, <2>4, GotoEffect DEF Moves
  <2>5. ASSUME NEW t \in Thread,
               \/ \E p, q \in {"idle", "ready", "salt"} : Moves(t, p, q)
               \/ FindSalt(t) \/ WriteSalt(t) \/ WriteHash(t) \/ CacheFirst(t)
               \/ CacheLogin(t) \/ ReadAll(t) \/ WriteNewHash(t)
               \/ \E p \in Password : Confirm(t, p) \/ Unlock(t, p) \/ Login(t, p) \/ Rekey(t, p)
        PROVE  pc[u] = "rewrap"
    BY <1>1, <1>5, <2>5, GotoEffect DEF Moves, FindSalt, WriteSalt, WriteHash, CacheFirst,
       CacheLogin, ReadAll, WriteNewHash, Confirm, Unlock, Login, Rekey
  <2>6. QED
    BY <1>1, <2>1, <2>2, <2>3, <2>4, <2>5, StepKinds
<1>6. QED
  BY <1>1, <1>3, <1>4, <1>5 DEF IdentityFirst

\* Without typos, changes and races, whoever holds a key holds the same one.
LEMMA OneKey ==
    ASSUME TypeOK, KnownInv, OneKnown, ~SetupRace, env \cap {"typo", "passwd"} = {},
           NEW k \in {Derived(p, salt) : p \in known}, NEW t \in Thread, Held(t) # NoKey
    PROVE  Held(t) = k
<1>1. PICK p \in known : k = Derived(p, salt)
  OBVIOUS
<1>2. Held(t) \in Key /\ Held(t).password \in known /\ Held(t).salt = salt
  BY KeyType, ProcType DEF TypeOK, KnownInv, Held, Process
<1>3. Held(t).password = p
  BY <1>2 DEF OneKnown
<1>4. QED
  BY <1>1, <1>2, <1>3 DEF Key, Derived

LEMMA PasswordOpensStep ==
    ASSUME TypeOK, LocalInv, SetupInv, KnownInv, OneKnown, IdentityFirst, PasswordOpensTeam,
           [Next]_vars
    PROVE  PasswordOpensTeam'
<1> DEFINE good == {Derived(p, salt) : p \in known}
<1>1. env' = env /\ known \subseteq known'
  BY TypedFlow
<1> SUFFICES ASSUME ~SetupRace, env \cap {"typo", "passwd"} = {}
             PROVE  /\ private' \in good' \cup {NoKey, Plain}
                    /\ wrapped' \in good' \cup {NoKey, PublicLock}
  BY <1>1 DEF PasswordOpensTeam, SetupRace
<1>2. private \in good \cup {NoKey, Plain} /\ wrapped \in good \cup {NoKey, PublicLock}
  BY DEF PasswordOpensTeam
\* The salt changes only before a password is chosen.
<1>3. good \subseteq good'
  <2>1. CASE salt' = salt
    BY <1>1, <2>1
  <2>2. CASE salt' # salt
    <3>1. PICK t \in Thread : WriteSalt(t)
      BY <2>2, PasswordKinds DEF Confirm, Rekey, files
    <3>2. known = {}
      BY <3>1 DEF WriteSalt, SetupInv, OneKnown
    <3>3. QED
      BY <3>2
  <2>3. QED
    BY <2>1, <2>2
<1>4. ASSUME NEW t \in Thread, pc[t] \in {"ready", "rewrap"} PROVE Held(t) \in good
  <2>1. Held(t) # NoKey
    BY <1>4 DEF LocalInv, Keyed
  <2>2. Held(t) \in Key /\ Held(t).password \in known /\ Held(t).salt = salt
    BY <2>1, KeyType, ProcType DEF TypeOK, KnownInv, Held, Process
  <2>3. Held(t) = Derived(Held(t).password, salt)
    BY <2>2 DEF Key, Derived
  <2>4. QED
    BY <2>2, <2>3
<1>5. CASE UNCHANGED <<private, wrapped>>
  BY <1>2, <1>3, <1>5
<1>6. ASSUME NEW t \in Thread, OpenIdentity(t)
      PROVE  private' = Held(t) /\ wrapped' = wrapped /\ pc[t] = "ready"
  <2>1. Held(t) # NoKey /\ private # NoKey /\ pc[t] = "ready"
    BY <1>6 DEF OpenIdentity, Team, LocalInv, Keyed, IdentityFirst, PublicLock, NoKey
  <2>2. private \in {Plain, Held(t)}
    BY <1>2, <2>1, OneKey
  <2>3. QED
    BY <1>6, <2>1, <2>2 DEF OpenIdentity
<1> HIDE DEF good
<1>7. QED
  BY <1>2, <1>3, <1>4, <1>5, <1>6, TeamKinds DEF SetIdentity

\* The user's password opens his identity and his row in the vault, as long as
\* he neither changes nor mistypes it.
THEOREM TeamCorrect == Spec => []TeamInv
<1> DEFINE Inv == TypeOK /\ StoreInv /\ OneKnown /\ IdentityFirst /\ PasswordOpensTeam
<1>1. Init => Inv
  <2> SUFFICES ASSUME Init PROVE OneKnown /\ IdentityFirst /\ PasswordOpensTeam
    BY InitLocal, InitSetup, InitKnown, InitOrderly DEF StoreInv
  <2>1. OneKnown
    <3>1. ~marker => "fresh" \in env
      BY Zenon DEF Init, StoreInit
    <3>2. QED
      BY <3>1 DEF Init, StoreInit, OneKnown
  <2>2. QED
    BY <2>1 DEF Init, StoreInit, IdentityFirst, PasswordOpensTeam
<1>2. Inv /\ [Next]_vars => Inv'
  <2>1. Inv /\ [Next]_vars => TypeOK' /\ StoreInv'
    BY TypeStep, LocalStep, SetupStepInv, KnownStep, SnapStep, OrderlyStep DEF StoreInv
  <2>2. Inv /\ [Next]_vars => OneKnown' /\ IdentityFirst' /\ PasswordOpensTeam'
    BY OneKnownStep, IdentityFirstStep, PasswordOpensStep DEF StoreInv
  <2>3. QED
    BY <2>1, <2>2
<1>3. Inv => TeamInv
  BY DEF OneKnown, IdentityFirst, TeamInv
<1>4. QED
  BY <1>1, <1>2, <1>3, PTL DEF Spec

\* The user's password opens his private key and his row in the vault, as long
\* as he neither changes nor mistypes it (get_user_private_key, unlock_vault).
THEOREM PasswordOpens == Spec => []PasswordOpensTeam
<1>1. TeamInv => PasswordOpensTeam
  BY DEF TeamInv
<1>2. QED
  BY <1>1, TeamCorrect, PTL

-----------------------------------------------------------------------------
(* The store implements the map of its contents.                           *)

LEMMA ContentKinds ==
    ASSUME StoreTypeOK, [Next]_vars
    PROVE  \/ UNCHANGED <<rows, backup>>
           \/ \E t \in Thread : SecretStep(t) \/ BackupStep(t) \/ Reencrypt(t)
<1>1. CASE UNCHANGED storeVars
  BY <1>1 DEF storeVars, files
<1>2. ASSUME NEW t \in Thread, TeamStep(t) \/ End(t) PROVE UNCHANGED <<rows, backup>>
  BY <1>2 DEF TeamStep, SetIdentity, CreateVault, OpenIdentity, Rewrap, Team, End, storeVars, files
<1>3. ASSUME NEW t \in Thread, SetupStep(t) PROVE UNCHANGED <<rows, backup>>
  BY <1>3 DEF SetupStep, StartSetup, FindSalt, WriteSalt, Confirm, WriteHash, CacheFirst, files
<1>4. ASSUME NEW t \in Thread, SessionStep(t) \/ \E p \in Password : Unlock(t, p)
      PROVE  UNCHANGED <<rows, backup>>
  BY <1>4 DEF SessionStep, Login, CacheLogin, Logout, Request, Unlock, files
<1>5. ASSUME NEW t \in Thread, PasswdStep(t), ~Reencrypt(t) PROVE UNCHANGED <<rows, backup>>
  BY <1>5 DEF PasswdStep, ReadAll, WriteNewHash, Rekey, files
<1>6. ASSUME NEW p \in Process, Crash(p) PROVE UNCHANGED <<rows, backup>>
  BY <1>6 DEF Crash, files
<1>7. CASE Admitted
  BY <1>1, <1>7 DEF Admitted
<1>8. CASE UNCHANGED vars
  BY <1>1, <1>8 DEF vars
<1>9. QED
  BY <1>2, <1>3, <1>4, <1>5, <1>6, <1>7, <1>8 DEF Next, StoreNext, StoreStep, Process

\* The map in the terms of the store.
Contents == [i \in Id |-> rows[i].value]

LEMMA MapTerms ==
    /\ Map!MapInit <=> Contents = [i \in Id |-> NoValue] /\ backup = [i \in Id |-> NoValue]
    /\ UNCHANGED Map!contentVars <=> Contents' = Contents /\ backup' = backup
    /\ \A i \in Id, v \in Value \cup {NoValue} :
         Contents' = [Contents EXCEPT ![i] = v] /\ backup' = backup => Map!MapNext
    /\ \A ids \in SUBSET Id :
         \/ /\ backup' = [i \in Id |-> IF i \in ids THEN Contents[i] ELSE NoValue]
            /\ Contents' = Contents
         \/ /\ \A i \in ids : backup[i] # NoValue
            /\ Contents' = [i \in Id |-> IF i \in ids THEN backup[i] ELSE Contents[i]]
            /\ backup' = backup
         => Map!MapNext
<1>1. Map!MapInit <=> Contents = [i \in Id |-> NoValue] /\ backup = [i \in Id |-> NoValue]
  BY DEF Map!MapInit, Contents
<1>2. UNCHANGED Map!contentVars <=> Contents' = Contents /\ backup' = backup
  BY DEF Map!contentVars, Contents
<1>3. ASSUME NEW i \in Id, NEW v \in Value \cup {NoValue},
             Contents' = [Contents EXCEPT ![i] = v], backup' = backup
      PROVE  Map!MapNext
  BY <1>3 DEF Map!MapNext, Map!Put, Contents
<1>4. ASSUME NEW ids \in SUBSET Id, Contents' = Contents,
             backup' = [i \in Id |-> IF i \in ids THEN Contents[i] ELSE NoValue]
      PROVE  Map!MapNext
  BY <1>4 DEF Map!MapNext, Map!Backup, Contents
<1>5. ASSUME NEW ids \in SUBSET Id, backup' = backup, \A i \in ids : backup[i] # NoValue,
             Contents' = [i \in Id |-> IF i \in ids THEN backup[i] ELSE Contents[i]]
      PROVE  Map!MapNext
  BY <1>5 DEF Map!MapNext, Map!Restore, Contents
<1>6. QED
  BY <1>1, <1>2, <1>3, <1>4, <1>5

LEMMA SecretPuts ==
    ASSUME StoreTypeOK, NEW t \in Thread, SecretStep(t) PROVE Map!MapNext
<1>1. ASSUME NEW i \in Id, NEW r, r.value \in Value \cup {NoValue},
             rows' = [rows EXCEPT ![i] = r], backup' = backup
      PROVE  Map!MapNext
  <2>1. Contents' = [Contents EXCEPT ![i] = r.value]
    BY <1>1 DEF Contents, StoreTypeOK
  <2>2. QED
    BY <1>1, <2>1, MapTerms
<1>2. ASSUME NEW i \in Id, NEW v \in Value, Save(t, i, v) \/ Update(t, i, v) PROVE Map!MapNext
  <2> DEFINE r == [value |-> v, key |-> Held(t)]
  <2>1. rows' = [rows EXCEPT ![i] = r] /\ backup' = backup /\ r.value = v
    BY <1>2 DEF Save, Update, WriteRows
  <2> HIDE DEF r
  <2>2. QED
    BY <1>1, <2>1
<1>3. ASSUME NEW i \in Id, Delete(t, i) PROVE Map!MapNext
  <2>1. rows' = [rows EXCEPT ![i] = NoRow] /\ backup' = backup /\ NoRow.value = NoValue
    BY <1>3 DEF Delete, WriteRows, NoRow
  <2>2. QED
    BY <1>1, <2>1
<1>4. QED
  BY <1>2, <1>3 DEF SecretStep

LEMMA BackupSaves ==
    ASSUME StoreTypeOK, NEW t \in Thread, BackupStep(t) PROVE Map!MapNext
<1>1. CASE Export(t)
  <2> DEFINE ids == Readable(Held(t))
  <2>1. ids \in SUBSET Id
    BY DEF Readable
  <2>2. backup' = [i \in Id |-> IF i \in ids THEN Contents[i] ELSE NoValue] /\ rows' = rows
    BY <1>1 DEF Export, Contents
  <2> HIDE DEF ids
  <2>3. Contents' = Contents
    BY <2>2 DEF Contents
  <2>4. QED
    BY <2>1, <2>2, <2>3, MapTerms
<1>2. ASSUME NEW merge \in BOOLEAN, NEW failed \in SUBSET Id, Import(t, merge, failed)
      PROVE  Map!MapNext
  <2> DEFINE ids == {i \in Id \ failed : backup[i] # NoValue /\ (merge => rows[i] = NoRow)}
  <2>1. /\ rows' = [i \in Id |-> IF i \in ids THEN [value |-> backup[i], key |-> Held(t)]
                                              ELSE rows[i]]
        /\ backup' = backup
    BY <1>2 DEF Import, WriteRows
  <2>2. ids \in SUBSET Id /\ \A i \in ids : backup[i] # NoValue
    OBVIOUS
  <2> HIDE DEF ids
  <2>3. Contents' = [i \in Id |-> IF i \in ids THEN backup[i] ELSE Contents[i]]
    BY <2>1, <2>2 DEF Contents
  <2>4. QED
    BY <2>1, <2>2, <2>3, MapTerms
<1>3. QED
  BY <1>1, <1>2 DEF BackupStep

\* A change of password that nothing runs beside writes what it has read.
LEMMA ReencryptKeeps ==
    ASSUME StoreTypeOK, LocalInv, SnapInv, ~({"overlap", "passwd"} \subseteq env),
           NEW t \in Thread, Reencrypt(t)
    PROVE  UNCHANGED Map!contentVars
<1>1. "overlap" \notin env /\ backup' = backup
  BY DEF Reencrypt, LocalInv, Changing
<1>2. \A i \in Id : rows'[i].value = rows[i].value
  BY <1>1 DEF Reencrypt, SnapInv, Changing
<1>3. Contents' = Contents
  BY <1>2 DEF Contents
<1>4. QED
  BY <1>1, <1>3, MapTerms

\* No setup, login, change of password or crash alters a value, and each command
\* writes what it says, unless a change of password overlaps with another
\* operation: the store implements SecretMap.
THEOREM StoreImplements == Spec => KeepsContents
<1>1. Init => Map!MapInit
  <2> SUFFICES ASSUME Init PROVE Map!MapInit
    OBVIOUS
  <2>1. Contents = [i \in Id |-> NoValue] /\ backup = [i \in Id |-> NoValue]
    BY DEF Init, StoreInit, Contents, NoRow, NoContent
  <2>2. QED
    BY <2>1, MapTerms
<1>2. TypeOK /\ StoreInv /\ [Next]_vars
      => [~({"overlap", "passwd"} \subseteq env) => Map!MapNext]_Map!contentVars
  <2> SUFFICES ASSUME TypeOK, StoreInv, [Next]_vars, ~({"overlap", "passwd"} \subseteq env)
               PROVE  Map!MapNext \/ UNCHANGED Map!contentVars
    OBVIOUS
  <2>1. StoreTypeOK /\ LocalInv /\ SnapInv
    BY DEF TypeOK, StoreInv
  <2>2. CASE UNCHANGED <<rows, backup>>
    BY <2>2, MapTerms DEF Contents
  <2>3. QED
    BY <2>1, <2>2, ContentKinds, SecretPuts, BackupSaves, ReencryptKeeps
<1>3. QED
  BY <1>1, <1>2, TypeCorrect, StoreCorrect, PTL DEF Spec, KeepsContents

=============================================================================
