--------------------------- MODULE RegistryProofs ---------------------------
(***************************************************************************)
(* What is proved of module Registry for any names, commands and number of *)
(* vaults: types, and its three invariants from RegistryInv.               *)
(***************************************************************************)
EXTENDS Registry, TLAPS

-----------------------------------------------------------------------------
(* Types.                                                                  *)

LEMMA Constants ==
    /\ 0 \in Vault /\ Web \in Proc
    /\ Nothing \in [Name -> Vault]
    /\ NoOp \in [name : Name, key : Vault, caches : BOOLEAN]
<1>1. 0 \in 0..MaxKey
  BY RegistryAssumption
<1>2. (CHOOSE n \in Name : TRUE) \in Name
  BY RegistryAssumption
<1>3. QED
  BY <1>1, <1>2 DEF Vault, Proc, Nothing, NoOp

LEMMA InitType == Init => TypeOK
<1> SUFFICES ASSUME Init PROVE TypeOK
  OBVIOUS
<1>1. /\ mem \in [Proc -> [Name -> Vault]] /\ cache \in [Proc -> [Name -> Vault]]
      /\ on \in [Proc -> [name : Name, key : Vault, caches : BOOLEAN]]
      /\ disk \in [Name -> Vault] /\ vaults \in Vault
  BY Constants DEF Init
<1>2. /\ env \in Environments /\ torn \in BOOLEAN /\ invites \subseteq Token
      /\ db \in [Name -> Db \cup {NoDb}] /\ pc \in [Proc -> Phase]
  BY DEF Init, Phase
<1>3. QED
  BY <1>1, <1>2 DEF TypeOK

\* What a process that ends, or begins an operation, makes of its variables.
LEMMA Ending ==
    ASSUME TypeOK, NEW p \in Proc, Quit(p)
    PROVE  /\ pc' = [pc EXCEPT ![p] = IF p = Web THEN "ready" ELSE "off"]
           /\ pc' \in [Proc -> Phase]
           /\ on' \in [Proc -> [name : Name, key : Vault, caches : BOOLEAN]]
BY Constants DEF TypeOK, Quit, Goto, Phase

LEMMA Beginning ==
    ASSUME TypeOK, NEW p \in Proc, NEW n \in Name, NEW k \in Vault,
           NEW s \in {"create", "rmtree", "accept", "save"}, Start(p, n, k, s)
    PROVE  TypeOK'
<1>1. [name |-> n, key |-> k, caches |-> (s = "accept")] \in
          [name : Name, key : Vault, caches : BOOLEAN]
  OBVIOUS
<1>2. on' \in [Proc -> [name : Name, key : Vault, caches : BOOLEAN]]
  BY <1>1 DEF TypeOK, Start
<1>3. pc' \in [Proc -> Phase]
  BY DEF TypeOK, Start, Goto, Phase
<1>4. QED
  BY <1>2, <1>3 DEF TypeOK, Start, files

LEMMA Losing ==
    ASSUME NEW f \in [Proc -> [Name -> Vault]], NEW p \in Proc
    PROVE  Lose(f, p) \in [Proc -> [Name -> Vault]]
BY Constants DEF Lose

LEMMA Setting ==
    ASSUME NEW f \in [Proc -> [Name -> Vault]], NEW p \in Proc, NEW n \in Name, NEW k \in Vault
    PROVE  Set(f, p, n, k) \in [Proc -> [Name -> Vault]]
BY DEF Set

LEMMA StepType == ASSUME TypeOK, NEW p \in Proc, ProcStep(p) PROVE TypeOK'
<1>0. on[p].name \in Name /\ on[p].key \in Vault /\ on[p].caches \in BOOLEAN
  BY DEF TypeOK
<1>1. CASE Load(p)
  BY <1>1 DEF TypeOK, Load, Goto, Phase, files
<1>2. CASE CreateDb(p)
  <2>1. vaults + 1 \in Vault \ {0}
    BY <1>2, RegistryAssumption DEF CreateDb, TypeOK, Vault
  <2>2. [key |-> vaults + 1, row |-> vaults + 1, admin |-> TRUE] \in Db
    BY <2>1 DEF Db
  <2>3. db' \in [Name -> Db \cup {NoDb}]
    BY <1>2, <2>2 DEF CreateDb, TypeOK
  <2>4. on' \in [Proc -> [name : Name, key : Vault, caches : BOOLEAN]]
    BY <1>2, <2>1 DEF CreateDb, TypeOK
  <2>5. pc' \in [Proc -> Phase]
    BY <1>2 DEF CreateDb, TypeOK, Goto, Phase
  <2>6. QED
    BY <1>2, <2>1, <2>3, <2>4, <2>5 DEF CreateDb, TypeOK
<1>3. CASE EnterVault(p) \/ Forget(p)
  <2>1. PICK k \in Vault : mem' = Set(mem, p, on[p].name, k)
    BY <1>0, <1>3, Constants DEF EnterVault, Forget
  <2>2. mem' \in [Proc -> [Name -> Vault]]
    BY <1>0, <2>1, Setting DEF TypeOK
  <2>3. QED
    BY <1>3, <2>2 DEF TypeOK, EnterVault, Forget, Goto, Phase, files
<1>4. CASE Rmtree(p) \/ Truncate(p)
  BY <1>4 DEF TypeOK, Rmtree, Truncate, Goto, Phase
<1>5. CASE WriteRegistry(p)
  <2>1. mem[p] \in [Name -> Vault]
    BY DEF TypeOK
  <2>2. (IF on[p].caches THEN on[p].key ELSE 0) \in Vault
    BY <1>0, Constants
  <2>3. mem' \in [Proc -> [Name -> Vault]] /\ cache' \in [Proc -> [Name -> Vault]]
    BY <1>0, <1>5, <2>2, Setting, Losing DEF TypeOK, WriteRegistry
  <2>4. QED
    BY <1>5, <2>1, <2>3, Ending DEF TypeOK, WriteRegistry
<1>6. CASE Raise(p)
  BY <1>6, Losing, Ending DEF TypeOK, Raise, files
<1>7. CASE Crash(p)
  BY <1>7, Constants DEF TypeOK, Crash, Goto, Phase, files
<1>8. CASE \E n \in Name : StartCreate(p, n) \/ StartDelete(p, n) \/ SaveStatus(p, n)
  BY <1>8, Beginning, Constants DEF StartCreate, StartDelete, SaveStatus
<1>9. ASSUME NEW n \in Name, Unlock(p, n) PROVE TypeOK'
  <2>1. db[n].row \in Vault
    BY <1>9 DEF TypeOK, Unlock, Db
  <2>2. QED
    BY <1>9, <2>1, Setting DEF TypeOK, Unlock, files
<1>10. ASSUME NEW n \in Name, NEW a \in BOOLEAN, Invite(p, n, a) PROVE TypeOK'
  <2>1. db[n].row \in Vault \ {0}
    BY <1>10 DEF TypeOK, Invite, Db
  <2>2. [name |-> n, key |-> db[n].row, admin |-> a] \in Token
    BY <2>1 DEF Token
  <2>3. QED
    BY <1>10, <2>2, Losing, Ending DEF TypeOK, Invite, files
<1>11. CASE \E t \in Token : StartAccept(p, t)
  BY <1>11, Beginning DEF StartAccept, Token
<1>12. ASSUME NEW a \in BOOLEAN, AcceptRow(p, a) PROVE TypeOK'
  <2>1. on[p].key \in Vault \ {0}
    BY <1>12 DEF TypeOK, AcceptRow, Token
  <2>2. ASSUME db[on[p].name] # NoDb PROVE db[on[p].name].key \in Vault \ {0}
    BY <1>0, <2>2 DEF TypeOK, Db
  <2>3. [key |-> IF db[on[p].name] = NoDb THEN on[p].key ELSE db[on[p].name].key,
         row |-> on[p].key, admin |-> a] \in Db
    BY <2>1, <2>2 DEF Db
  <2>4. db' \in [Name -> Db \cup {NoDb}]
    BY <1>0, <1>12, <2>3 DEF TypeOK, AcceptRow
  <2>5. pc' \in [Proc -> Phase]
    BY <1>12 DEF TypeOK, AcceptRow, Goto, Phase
  <2>6. QED
    BY <1>12, <2>4, <2>5 DEF TypeOK, AcceptRow
<1>13. QED
  BY <1>1, <1>2, <1>3, <1>4, <1>5, <1>6, <1>7, <1>8, <1>9, <1>10, <1>11, <1>12 DEF ProcStep

LEMMA InvitedType ==
    ASSUME TypeOK, NEW n \in Name, NEW a \in BOOLEAN, Invited(n, a) PROVE TypeOK'
<1>1. vaults + 1 \in Vault \ {0}
  BY RegistryAssumption DEF Invited, TypeOK, Vault
<1>2. [name |-> n, key |-> vaults + 1, admin |-> a] \in Token
  BY <1>1 DEF Token
<1>3. QED
  BY <1>1, <1>2 DEF TypeOK, Invited, files

LEMMA NextType == TypeOK /\ [Next]_vars => TypeOK'
<1>1. TypeOK /\ Next => TypeOK'
  BY StepType, InvitedType DEF Next
<1>2. TypeOK /\ UNCHANGED vars => TypeOK'
  BY DEF TypeOK, vars, files
<1>3. QED
  BY <1>1, <1>2

\* Registry, databases, copies and caches keep their types: in particular every
\* row and every invite has a key (create_vault, accept_vault_invite).
THEOREM TypeCorrect == Spec => []TypeOK
BY InitType, NextType, PTL DEF Spec
-----------------------------------------------------------------------------
(* One operation at a time, on rows that are new.                          *)

\* A step moves one process, and the variables of no other.
LEMMA Others ==
    ASSUME TypeOK, NEW p \in Proc, ProcStep(p)
    PROVE  /\ env' = env
           /\ pc' = [pc EXCEPT ![p] = pc'[p]] /\ on' = [on EXCEPT ![p] = on'[p]]
           /\ mem' = [mem EXCEPT ![p] = mem'[p]] /\ cache' = [cache EXCEPT ![p] = cache'[p]]
<1>1. CASE Load(p) \/ CreateDb(p) \/ EnterVault(p) \/ Rmtree(p) \/ Forget(p) \/ Truncate(p) \/ Crash(p)
  BY <1>1 DEF TypeOK, Load, CreateDb, EnterVault, Rmtree, Forget, Truncate, Crash, Goto, Set
<1>2. CASE WriteRegistry(p) \/ Raise(p) \/ \E n \in Name, a \in BOOLEAN : Invite(p, n, a)
  BY <1>2 DEF TypeOK, WriteRegistry, Raise, Invite, Quit, Goto, Lose, Set
<1>3. CASE \E n \in Name : StartCreate(p, n) \/ StartDelete(p, n) \/ SaveStatus(p, n) \/ Unlock(p, n)
  BY <1>3 DEF TypeOK, StartCreate, StartDelete, SaveStatus, Unlock, Start, Goto, Set
<1>4. CASE \/ \E t \in Token : StartAccept(p, t)
           \/ \E a \in BOOLEAN : AcceptRow(p, a)
  BY <1>4 DEF TypeOK, StartAccept, AcceptRow, Start, Goto
<1>5. QED
  BY <1>1, <1>2, <1>3, <1>4 DEF ProcStep

\* A process that is not at work begins only if no other is.
LEMMA Begins ==
    ASSUME TypeOK, NEW p \in Proc, ProcStep(p), Busy(p)'
    PROVE  Busy(p) \/ Free(p)
<1>1. CASE Load(p) \/ CreateDb(p) \/ EnterVault(p) \/ Rmtree(p) \/ Forget(p) \/ Truncate(p) \/ Crash(p)
  BY <1>1 DEF TypeOK, Load, CreateDb, EnterVault, Rmtree, Forget, Truncate, Crash, Goto, Busy
<1>2. CASE WriteRegistry(p) \/ Raise(p) \/ \E n \in Name, a \in BOOLEAN : Invite(p, n, a)
  BY <1>2 DEF TypeOK, WriteRegistry, Raise, Invite, Busy
<1>3. CASE \E n \in Name : StartCreate(p, n) \/ StartDelete(p, n) \/ SaveStatus(p, n) \/ Unlock(p, n)
  BY <1>3 DEF StartCreate, StartDelete, SaveStatus, Unlock, Start
<1>4. CASE \/ \E t \in Token : StartAccept(p, t)
           \/ \E a \in BOOLEAN : AcceptRow(p, a)
  BY <1>4 DEF StartAccept, AcceptRow, Start, Busy
<1>5. QED
  BY <1>1, <1>2, <1>3, <1>4 DEF ProcStep

\* Who writes a database is at work.
LEMMA Writes ==
    ASSUME TypeOK, NEW p \in Proc, ProcStep(p), db' # db
    PROVE  Busy(p) /\ (CreateDb(p) \/ Rmtree(p) \/ \E a \in BOOLEAN : AcceptRow(p, a))
<1>1. CASE CreateDb(p) \/ Rmtree(p) \/ \E a \in BOOLEAN : AcceptRow(p, a)
  BY <1>1 DEF CreateDb, Rmtree, AcceptRow, Busy
<1>2. CASE Load(p) \/ EnterVault(p) \/ Forget(p) \/ Truncate(p) \/ Crash(p) \/ WriteRegistry(p) \/ Raise(p)
  BY <1>2 DEF Load, EnterVault, Forget, Truncate, Crash, WriteRegistry, Raise, files
<1>3. CASE \E n \in Name : StartCreate(p, n) \/ StartDelete(p, n) \/ SaveStatus(p, n) \/ Unlock(p, n)
  BY <1>3 DEF StartCreate, StartDelete, SaveStatus, Unlock, Start, files
<1>4. CASE \/ \E n \in Name, a \in BOOLEAN : Invite(p, n, a)
           \/ \E t \in Token : StartAccept(p, t)
  BY <1>4 DEF Invite, StartAccept, Start, files
<1>5. QED
  BY <1>1, <1>2, <1>3, <1>4 DEF ProcStep

\* An invite is accepted where there is no database, or with a clash.
LEMMA Accepts ==
    ASSUME TypeOK, NEW p \in Proc, ProcStep(p), pc'[p] = "accept"
    PROVE  "clash" \in env \/ db[on'[p].name] = NoDb
<1>1. CASE \E t \in Token : StartAccept(p, t)
  <2>1. PICK t \in Token : StartAccept(p, t)
    BY <1>1
  <2>2. on'[p].name = t.name
    BY <2>1 DEF StartAccept, Start, TypeOK
  <2>3. QED
    BY <2>1, <2>2 DEF StartAccept
<1>2. CASE Load(p) \/ CreateDb(p) \/ EnterVault(p) \/ Rmtree(p) \/ Forget(p) \/ Truncate(p) \/ Crash(p)
  BY <1>2 DEF TypeOK, Load, CreateDb, EnterVault, Rmtree, Forget, Truncate, Crash, Goto
<1>3. CASE WriteRegistry(p) \/ Raise(p) \/ \E n \in Name, a \in BOOLEAN : Invite(p, n, a)
  BY <1>3 DEF TypeOK, WriteRegistry, Raise, Invite, Quit, Goto
<1>4. CASE \/ \E n \in Name : StartCreate(p, n) \/ StartDelete(p, n) \/ SaveStatus(p, n) \/ Unlock(p, n)
           \/ \E a \in BOOLEAN : AcceptRow(p, a)
  BY <1>4 DEF TypeOK, StartCreate, StartDelete, SaveStatus, Unlock, AcceptRow, Start, Goto
<1>5. QED
  BY <1>1, <1>2, <1>3, <1>4 DEF ProcStep

LEMMA StepRows ==
    ASSUME TypeOK, RowInv, RowOpensVault, NEW p \in Proc, ProcStep(p)
    PROVE  RowInv' /\ RowOpensVault'
<1>1. env' = env /\ \A q \in Proc \ {p} : pc'[q] = pc[q] /\ on'[q] = on[q]
  BY Others DEF TypeOK
<1>2. \A q \in Proc \ {p} : Busy(q)' <=> Busy(q)
  BY <1>1 DEF Busy
<1>3. ASSUME "overlap" \notin env, NEW q \in Proc, NEW r \in Proc, Busy(q)', Busy(r)'
      PROVE  q = r
  <2>1. CASE q # p /\ r # p
    BY <1>2, <1>3, <2>1 DEF RowInv
  <2>2. CASE Busy(p)'
    <3>1. \A s \in Proc \ {p} : ~Busy(s)
      BY <1>3, <2>2, Begins DEF RowInv, Free
    <3>2. QED
      BY <1>2, <1>3, <3>1
  <2>3. QED
    BY <1>3, <2>1, <2>2
<1>4. ASSUME env \cap {"clash", "overlap"} = {}, NEW q \in Proc, pc'[q] = "accept"
      PROVE  db'[on'[q].name] = NoDb
  <2>1. Busy(q)'
    BY <1>4 DEF Busy
  <2>2. db[on'[q].name] = NoDb
    BY <1>1, <1>4, Accepts DEF RowInv
  <2>3. ASSUME db' # db PROVE FALSE
    <3>1. Busy(p) /\ (CreateDb(p) \/ Rmtree(p) \/ \E a \in BOOLEAN : AcceptRow(p, a))
      BY <2>3, Writes
    <3>2. q = p
      BY <1>2, <1>4, <2>1, <3>1 DEF RowInv
    <3>3. pc'[p] # "accept"
      BY <3>1 DEF TypeOK, CreateDb, Rmtree, AcceptRow, Goto
    <3>4. QED
      BY <1>4, <3>2, <3>3
  <2>4. QED
    BY <2>2, <2>3
<1>5. ASSUME env \cap {"clash", "overlap"} = {}, NEW n \in Name
      PROVE  db'[n].row = db'[n].key
  <2>0. on[p].name \in Name /\ db[n].row = db[n].key
    BY <1>5 DEF RowOpensVault, TypeOK
  <2>1. CASE db' = db
    BY <2>0, <2>1
  <2>2. CASE CreateDb(p) \/ Rmtree(p)
    BY <2>0, <2>2 DEF TypeOK, CreateDb, Rmtree, NoDb
  <2>3. ASSUME NEW a \in BOOLEAN, AcceptRow(p, a) PROVE db'[n].row = db'[n].key
    <3>1. db[on[p].name] = NoDb
      BY <1>5, <2>3 DEF RowInv, AcceptRow
    <3>2. QED
      BY <2>0, <2>3, <3>1 DEF TypeOK, AcceptRow
  <2>4. QED
    BY <2>1, <2>2, <2>3, Writes
<1>6. QED
  BY <1>1, <1>3, <1>4, <1>5 DEF RowInv, RowOpensVault
-----------------------------------------------------------------------------
(* The copy of one manager.                                                *)

\* With one manager at a time all other processes are off.
LEMMA Sole ==
    ASSUME TypeOK, RowInv, CopyInv, Alone, NEW p \in Proc, pc[p] # "off", NEW q \in Proc \ {p}
    PROVE  pc[q] = "off"
<1> SUFFICES ASSUME pc[q] # "off" PROVE FALSE
  OBVIOUS
<1>1. p # Web /\ q # Web
  BY DEF CopyInv, Alone, Proc
<1>2. Busy(p) /\ Busy(q)
  BY <1>1 DEF Busy
<1>3. QED
  BY <1>2 DEF RowInv, Alone

LEMMA StepSides ==
    ASSUME TypeOK, CopyInv, NEW p \in Proc, ProcStep(p), NEW q \in Proc, pc'[q] # "off"
    PROVE  (IF q = Web THEN "web" ELSE "commands") \in env'
<1>1. pc[q] # "off" \/ (q = p /\ Load(p))
  <2>1. CASE q # p
    BY <2>1, Others DEF TypeOK
  <2>2. CASE q = p
    BY <2>2 DEF ProcStep, CreateDb, EnterVault, Rmtree, Forget, Truncate, WriteRegistry, Raise, Crash,
           StartCreate, StartDelete, SaveStatus, Unlock, Invite, StartAccept, AcceptRow, Start
  <2>3. QED
    BY <2>1, <2>2
<1>2. QED
  BY <1>1, Others DEF CopyInv, Load

LEMMA StepSole ==
    ASSUME TypeOK, RowInv, RowOpensVault, CopyInv, Alone, NEW p \in Proc, ProcStep(p),
           NEW q \in Proc \ {p}
    PROVE  pc[q] = "off" /\ pc'[q] = "off"
<1>1. pc'[q] = pc[q]
  BY Others DEF TypeOK
<1>2. CASE pc[p] # "off"
  BY <1>1, <1>2, Sole
<1>3. CASE pc[p] = "off"
  <2>1. Load(p)
    BY <1>3 DEF ProcStep, CreateDb, EnterVault, Rmtree, Forget, Truncate, WriteRegistry, Raise, Crash,
           StartCreate, StartDelete, SaveStatus, Unlock, Invite, StartAccept, AcceptRow, Start
  <2>2. ~Busy(q)
    BY <2>1 DEF Load, Free, Alone
  <2>3. QED
    BY <1>1, <2>1, <2>2 DEF CopyInv, Alone, Load, Busy, Proc
<1>4. QED
  BY <1>2, <1>3

\* What CopyInv says of the one process that runs.
CopyOf(p) ==
    /\ pc[p] # "off" => Entered(p) = There
    /\ disk = There \/ pc[p] \in Saving
    /\ torn => pc[p] = "write"

LEMMA AtRest ==
    ASSUME TypeOK, NEW p \in Proc, CopyOf(p), pc[p] = "ready"
    PROVE  mem[p] = There /\ disk = There
BY DEF CopyOf, Entered, Saving

\* The states between two operations or before the first write of one.
LEMMA CopyUnwritten ==
    ASSUME TypeOK, NEW p \in Proc, CopyOf(p), pc'[p] \in {"ready", "create", "rmtree", "accept", "save"},
           pc[p] \notin Saving, UNCHANGED files, mem'[p] = There
    PROVE  CopyOf(p)'
BY DEF CopyOf, Entered, There, Saving, files

LEMMA StepCopyOf ==
    ASSUME TypeOK, TypeOK', RowInv, Alone, NEW p \in Proc, CopyOf(p), ProcStep(p)
    PROVE  CopyOf(p)'
<1>0. /\ on[p].name \in Name /\ on[p].key \in Vault /\ mem[p] \in [Name -> Vault]
      /\ There \in [Name -> Vault] /\ There' \in [Name -> Vault]
  <2>1. \A n \in Name : db[n].key \in Vault /\ db'[n].key \in Vault
    BY Constants DEF TypeOK, Db, NoDb
  <2>2. QED
    BY <2>1 DEF TypeOK, There
<1>1. CASE Load(p)
  <2>1. disk = There /\ mem'[p] = disk /\ pc'[p] = "ready"
    BY <1>1 DEF Load, CopyOf, Saving, TypeOK, Goto
  <2>2. QED
    BY <1>1, <2>1, CopyUnwritten DEF Load, Saving
<1>2. CASE CreateDb(p) \/ \E a \in BOOLEAN : AcceptRow(p, a)
  <2>1. There' = [There EXCEPT ![on[p].name] = on'[p].key] /\ on'[p].name = on[p].name
    <3>1. CASE CreateDb(p)
      <4>1. db' = [db EXCEPT ![on[p].name] = [key |-> vaults', row |-> vaults', admin |-> TRUE]]
        BY <3>1 DEF CreateDb
      <4>2. on'[p].key = vaults' /\ on'[p].name = on[p].name
        BY <3>1 DEF CreateDb, TypeOK
      <4>3. \A n \in Name : db'[n].key = IF n = on[p].name THEN vaults' ELSE db[n].key
        BY <1>0, <4>1 DEF TypeOK
      <4>4. QED
        BY <1>0, <4>2, <4>3 DEF There
    <3>2. ASSUME NEW a \in BOOLEAN, AcceptRow(p, a)
          PROVE  There' = [There EXCEPT ![on[p].name] = on'[p].key] /\ on'[p].name = on[p].name
      <4>1. db[on[p].name] = NoDb /\ on' = on
        BY <3>2 DEF RowInv, Alone, AcceptRow
      <4>2. db' = [db EXCEPT ![on[p].name] = [key |-> on[p].key, row |-> on[p].key, admin |-> a]]
        BY <3>2, <4>1 DEF AcceptRow
      <4>3. \A n \in Name : db'[n].key = IF n = on[p].name THEN on[p].key ELSE db[n].key
        BY <1>0, <4>2 DEF TypeOK
      <4>4. QED
        BY <1>0, <4>1, <4>3 DEF There
    <3>3. QED
      BY <1>2, <3>1, <3>2
  <2>2. mem' = mem /\ mem[p] = There /\ pc'[p] = "enter" /\ ~torn'
    BY <1>2 DEF CreateDb, AcceptRow, TypeOK, Goto, CopyOf, Entered
  <2>3. QED
    BY <2>1, <2>2 DEF CopyOf, Entered, Saving
<1>3. CASE EnterVault(p) \/ Forget(p)
  <2>1. mem'[p] = Entered(p) /\ pc'[p] = "save" /\ UNCHANGED files
    BY <1>0, <1>3 DEF EnterVault, Forget, TypeOK, Goto, Set, Entered
  <2>2. QED
    BY <1>3, <2>1 DEF CopyOf, Entered, There, Saving, files, EnterVault, Forget
<1>4. CASE Rmtree(p)
  <2>1. There' = [There EXCEPT ![on[p].name] = 0]
    BY <1>0, <1>4 DEF Rmtree, There, NoDb, TypeOK
  <2>2. mem' = mem /\ on' = on /\ mem[p] = There /\ pc'[p] = "forget" /\ ~torn'
    BY <1>4 DEF Rmtree, TypeOK, Goto, CopyOf, Entered
  <2>3. QED
    BY <2>1, <2>2 DEF CopyOf, Entered, Saving
<1>5. CASE Truncate(p)
  <2>1. mem[p] = There /\ pc'[p] = "write" /\ There' = There /\ mem' = mem
    BY <1>5 DEF Truncate, TypeOK, Goto, CopyOf, Entered, There
  <2>2. QED
    BY <2>1 DEF CopyOf, Entered, Saving
<1>6. CASE WriteRegistry(p)
  <2>1. disk' = There /\ There' = There /\ ~torn'
    BY <1>6 DEF WriteRegistry, CopyOf, Entered, There
  <2>2. pc'[p] # "off" => pc'[p] = "ready" /\ mem'[p] = There
    BY <1>6 DEF WriteRegistry, TypeOK, Quit, Goto, Lose, CopyOf, Entered
  <2>3. QED
    BY <2>1, <2>2 DEF CopyOf, Entered
<1>7. CASE Raise(p) \/ \E n \in Name, a \in BOOLEAN : Invite(p, n, a)
  <2>1. /\ pc[p] \in {"ready", "create"} /\ mem[p] = There /\ disk = There /\ ~torn
        /\ UNCHANGED files
    BY <1>7 DEF Raise, Invite, CopyOf, Entered, Saving
  <2>2. pc'[p] # "off" => pc'[p] = "ready" /\ mem'[p] = There
    BY <1>7, <2>1 DEF Raise, Invite, TypeOK, Quit, Goto, Lose
  <2>3. QED
    BY <2>1, <2>2 DEF CopyOf, Entered, There, files
<1>8. CASE Crash(p)
  BY <1>8 DEF Crash, Alone
<1>9. ASSUME NEW n \in Name, NEW k \in Vault, NEW s \in {"create", "rmtree", "accept", "save"},
             Start(p, n, k, s)
      PROVE  CopyOf(p)'
  <2>1. mem'[p] = There /\ pc[p] = "ready" /\ pc'[p] = s /\ UNCHANGED files
    BY <1>9, AtRest DEF Start, TypeOK, Goto
  <2>2. QED
    BY <2>1, CopyUnwritten DEF Saving
<1>10. CASE \E n \in Name : Unlock(p, n)
  <2>1. mem'[p] = There /\ pc[p] = "ready" /\ pc'[p] = "ready" /\ UNCHANGED files
    BY <1>10, AtRest DEF Unlock
  <2>2. QED
    BY <2>1, CopyUnwritten DEF Saving
<1>11. CASE \/ \E n \in Name : StartCreate(p, n) \/ StartDelete(p, n) \/ SaveStatus(p, n)
            \/ \E t \in Token : StartAccept(p, t)
  BY <1>9, <1>11, Constants DEF StartCreate, StartDelete, SaveStatus, StartAccept, Token
<1>12. QED
  BY <1>1, <1>2, <1>3, <1>4, <1>5, <1>6, <1>7, <1>8, <1>10, <1>11 DEF ProcStep

LEMMA StepCopy ==
    ASSUME TypeOK, TypeOK', RowInv, RowOpensVault, CopyInv, NEW p \in Proc, ProcStep(p)
    PROVE  CopyInv'
<1>1. env' = env /\ (Alone' <=> Alone)
  BY Others DEF Alone
<1>2. ASSUME Alone
      PROVE  /\ \A q \in Proc : pc'[q] # "off" => Entered(q)' = There'
             /\ disk' = There' \/ \E q \in Proc : pc'[q] \in Saving
             /\ torn' => \E q \in Proc : pc'[q] = "write"
  <2>1. \A q \in Proc \ {p} : pc[q] = "off" /\ pc'[q] = "off"
    BY <1>2, StepSole
  <2>2. CopyOf(p)
    BY <1>2, <2>1 DEF CopyInv, CopyOf, Saving
  <2>3. CopyOf(p)'
    BY <1>2, <2>2, StepCopyOf
  <2>4. QED
    BY <2>1, <2>3 DEF CopyOf
<1>3. \A q \in Proc : pc'[q] # "off" => (IF q = Web THEN "web" ELSE "commands") \in env'
  BY StepSides
<1>4. QED
  BY <1>1, <1>2, <1>3 DEF CopyInv

-----------------------------------------------------------------------------
(* The cache.                                                              *)

\* A process that is off has cached nothing.
LEMMA StepOff ==
    ASSUME TypeOK, CacheInv, NEW p \in Proc, ProcStep(p), NEW q \in Proc, pc'[q] = "off"
    PROVE  cache'[q] = Nothing
<1>1. CASE q # p
  BY <1>1, Others DEF TypeOK, CacheInv
<1>2. CASE q = p
  <2>1. CASE WriteRegistry(p) \/ Raise(p) \/ \E n \in Name, a \in BOOLEAN : Invite(p, n, a)
    <3>1. p # Web
      BY <1>2, <2>1 DEF TypeOK, WriteRegistry, Raise, Invite, Quit, Goto
    <3>2. \E f \in [Proc -> [Name -> Vault]] : cache' = [f EXCEPT ![p] = Nothing]
      <4>1. \A n \in Name, k \in Vault : Set(cache, p, n, k) \in [Proc -> [Name -> Vault]]
        BY Setting DEF TypeOK
      <4>2. (IF on[p].caches THEN on[p].key ELSE 0) \in Vault /\ on[p].name \in Name
        BY Constants DEF TypeOK
      <4>3. QED
        BY <2>1, <3>1, <4>1, <4>2 DEF TypeOK, WriteRegistry, Raise, Invite, Lose
    <3>3. QED
      BY <1>2, <3>2
  <2>2. CASE Crash(p)
    BY <1>2, <2>2 DEF TypeOK, Crash
  <2>3. CASE Load(p) \/ CreateDb(p) \/ EnterVault(p) \/ Rmtree(p) \/ Forget(p) \/ Truncate(p)
    BY <1>2, <2>3 DEF TypeOK, Load, CreateDb, EnterVault, Rmtree, Forget, Truncate, Goto
  <2>4. CASE \/ \E n \in Name : StartCreate(p, n) \/ StartDelete(p, n) \/ SaveStatus(p, n) \/ Unlock(p, n)
             \/ \E t \in Token : StartAccept(p, t)
             \/ \E a \in BOOLEAN : AcceptRow(p, a)
    BY <1>2, <2>4 DEF TypeOK, StartCreate, StartDelete, SaveStatus, Unlock, StartAccept, AcceptRow,
         Start, Goto
  <2>5. QED
    BY <2>1, <2>2, <2>3, <2>4 DEF ProcStep
<1>3. QED
  BY <1>1, <1>2

\* Nothing is written to a database, nor cached.
LEMMA CacheUnwritten ==
    ASSUME TypeOK, NEW p \in Proc, CacheOf(p), UNCHANGED <<db, cache>>,
           pc'[p] = "rmtree" => ~on'[p].caches,
           \/ pc[p] \notin Saving /\ pc'[p] \notin Saving
           \/ pc[p] \notin Saving /\ pc'[p] = "save" /\ ~on'[p].caches
           \/ pc[p] \in Saving /\ pc'[p] \in Saving \ {"enter"} /\ on' = on
    PROVE  CacheOf(p)'
BY DEF CacheOf, Saving

LEMMA StepCacheOf ==
    ASSUME TypeOK, RowInv, RowOpensVault, Alone, NEW p \in Proc, CacheOf(p), ProcStep(p)
    PROVE  CacheOf(p)'
<1>0. /\ on[p].name \in Name /\ on[p].key \in Vault /\ on[p].caches \in BOOLEAN
      /\ cache[p] \in [Name -> Vault]
  BY DEF TypeOK
<1>1. CASE Load(p)
  BY <1>1, CacheUnwritten DEF TypeOK, Load, Goto, files, Saving
<1>2. CASE CreateDb(p) \/ \E a \in BOOLEAN : AcceptRow(p, a)
  <2>1. db[on[p].name] = NoDb
    BY <1>2 DEF CreateDb, AcceptRow, RowInv, Alone
  <2>2. cache[p][on[p].name] = 0 /\ \A n \in Name : cache[p][n] \in {0, db[n].key}
    <3>1. pc[p] \notin Saving
      BY <1>2 DEF CreateDb, AcceptRow, Saving
    <3>2. db[on[p].name].key = 0
      BY <2>1 DEF NoDb
    <3>3. QED
      BY <1>0, <3>1, <3>2 DEF CacheOf
  <2>3. db'[on[p].name].key = on'[p].key /\ on'[p].name = on[p].name
    <3>1. CASE CreateDb(p)
      BY <1>0, <3>1 DEF CreateDb, TypeOK
    <3>2. CASE \E a \in BOOLEAN : AcceptRow(p, a)
      BY <1>0, <2>1, <3>2 DEF AcceptRow, TypeOK
    <3>3. QED
      BY <1>2, <3>1, <3>2
  <2>4. \A n \in Name \ {on[p].name} : db'[n] = db[n]
    BY <1>2 DEF CreateDb, AcceptRow, TypeOK
  <2>5. \A n \in Name : cache'[p][n] \in {0, db'[n].key}
    BY <1>2, <2>2, <2>4 DEF CreateDb, AcceptRow
  <2>6. QED
    <3>1. pc'[p] = "enter"
      BY <1>2 DEF CreateDb, AcceptRow, TypeOK, Goto
    <3>2. QED
      BY <2>3, <2>5, <3>1 DEF CacheOf
<1>3. CASE EnterVault(p) \/ Forget(p) \/ Truncate(p)
  <2>1. pc[p] \in Saving /\ pc'[p] \in Saving \ {"enter"} /\ UNCHANGED <<on, db, cache>>
    BY <1>3 DEF EnterVault, Forget, Truncate, TypeOK, Goto, files, Saving
  <2>2. QED
    BY <2>1, CacheUnwritten DEF Saving
<1>4. CASE Rmtree(p)
  <2>1. \A n \in Name : cache[p][n] \in {0, db[n].key}
    BY <1>4 DEF Rmtree, CacheOf, Saving
  <2>2. \A n \in Name : IF n = on[p].name THEN db'[n] = NoDb ELSE db'[n] = db[n]
    BY <1>4 DEF Rmtree, TypeOK
  <2>3. /\ UNCHANGED <<on, cache>> /\ pc'[p] = "forget"
        /\ ~on[p].caches
    BY <1>4 DEF Rmtree, TypeOK, Goto, CacheOf
  <2>4. QED
    BY <2>1, <2>2, <2>3 DEF CacheOf, Saving
<1>5. CASE WriteRegistry(p)
  <2>1. \A n \in Name : cache'[p][n] \in {0, db'[n].key}
    <3>1. db' = db /\ cache' = Lose(Set(cache, p, on[p].name, IF on[p].caches THEN on[p].key ELSE 0), p)
      BY <1>5 DEF WriteRegistry
    <3>2. \A n \in Name : cache'[p][n] \in
              {0, IF n = on[p].name THEN IF on[p].caches THEN on[p].key ELSE 0 ELSE cache[p][n]}
      BY <1>0, <3>1 DEF Lose, Set, TypeOK, Nothing
    <3>3. on[p].caches => on[p].key = db[on[p].name].key
      BY <1>5 DEF WriteRegistry, CacheOf, Saving
    <3>4. \A n \in Name \ {on[p].name} : cache[p][n] \in {0, db[n].key}
      BY DEF CacheOf
    <3>5. QED
      BY <1>0, <3>1, <3>2, <3>3, <3>4
  <2>2. pc'[p] \notin Saving \cup {"rmtree"}
    BY <1>5 DEF WriteRegistry, TypeOK, Quit, Goto, Saving
  <2>3. QED
    BY <2>1, <2>2 DEF CacheOf
<1>6. CASE Raise(p) \/ \E n \in Name, a \in BOOLEAN : Invite(p, n, a)
  <2>1. \A n \in Name : cache[p][n] \in {0, db[n].key}
    BY <1>6 DEF Raise, Invite, CacheOf, Saving
  <2>2. db' = db /\ \A n \in Name : cache'[p][n] \in {0, cache[p][n]}
    BY <1>0, <1>6 DEF Raise, Invite, TypeOK, Lose, Nothing, files
  <2>3. pc'[p] \notin Saving \cup {"rmtree"}
    BY <1>6 DEF Raise, Invite, TypeOK, Quit, Goto, Saving
  <2>4. QED
    BY <2>1, <2>2, <2>3 DEF CacheOf
<1>7. CASE Crash(p)
  BY <1>7 DEF Crash, Alone
<1>8. CASE \E n \in Name : StartCreate(p, n) \/ StartDelete(p, n) \/ SaveStatus(p, n)
  <2>1. PICK n \in Name, s \in {"create", "rmtree", "save"} : Start(p, n, 0, s)
    BY <1>8 DEF StartCreate, StartDelete, SaveStatus
  <2>2. pc[p] = "ready" /\ pc'[p] = s /\ UNCHANGED <<db, cache>>
    BY <2>1 DEF Start, TypeOK, Goto, files
  <2>3. ~on'[p].caches
    <3>1. on'[p] = [name |-> n, key |-> 0, caches |-> (s = "accept")]
      BY <2>1 DEF Start, TypeOK
    <3>2. s # "accept"
      BY <2>1
    <3>3. (s = "accept") = FALSE
      BY <3>2, Zenon
    <3>4. on'[p] = [name |-> n, key |-> 0, caches |-> FALSE]
      BY <3>1, <3>3, Zenon
    <3>5. QED
      BY <3>4
  <2>4. QED
    BY <2>1, <2>2, <2>3, CacheUnwritten DEF Saving
<1>9. CASE \E t \in Token : StartAccept(p, t)
  <2>1. pc[p] \notin Saving /\ UNCHANGED <<db, cache>> /\ pc'[p] = "accept"
    BY <1>9 DEF StartAccept, Start, TypeOK, Goto, files, Saving
  <2>2. QED
    BY <2>1, CacheUnwritten DEF Saving
<1>10. ASSUME NEW n \in Name, Unlock(p, n) PROVE CacheOf(p)'
  <2>1. db' = db /\ db[n].row = db[n].key
    BY <1>10 DEF Unlock, RowOpensVault, Alone, files
  <2>2. \A k \in Name : cache'[p][k] = IF k = n THEN db[n].key ELSE cache[p][k]
    BY <1>0, <1>10, <2>1 DEF Unlock, Set, TypeOK
  <2>3. UNCHANGED <<pc, on>> /\ pc[p] = "ready"
    BY <1>10 DEF Unlock
  <2>4. QED
    BY <2>1, <2>2, <2>3 DEF CacheOf, Saving
<1>11. QED
  BY <1>1, <1>2, <1>3, <1>4, <1>5, <1>6, <1>7, <1>8, <1>9, <1>10 DEF ProcStep

LEMMA StepCache ==
    ASSUME TypeOK, RowInv, RowOpensVault, CopyInv, CacheInv, NEW p \in Proc, ProcStep(p)
    PROVE  CacheInv'
<1>1. Alone' <=> Alone
  BY Others DEF Alone
<1>2. ASSUME Alone, NEW q \in Proc PROVE CacheOf(q)'
  <2>1. CacheOf(p)
    BY <1>2 DEF CacheInv, CacheOf
  <2>2. CASE q = p
    BY <1>2, <2>1, <2>2, StepCacheOf
  <2>3. CASE q # p
    <3>1. pc'[q] = "off"
      BY <1>2, <2>3, StepSole
    <3>2. cache'[q] = Nothing
      BY <3>1, StepOff
    <3>3. QED
      BY <3>1, <3>2 DEF CacheOf, Nothing, Saving
  <2>4. QED
    BY <2>2, <2>3
<1>3. \A q \in Proc : pc'[q] = "off" => cache'[q] = Nothing
  BY StepOff
<1>4. QED
  BY <1>1, <1>2, <1>3 DEF CacheInv, CacheOf

-----------------------------------------------------------------------------
(* The invariants.                                                         *)

LEMMA InitRegistry == Init => RegistryInv
<1> SUFFICES ASSUME Init PROVE RegistryInv
  OBVIOUS
<1>1. /\ \A p \in Proc : pc[p] = "off" /\ on[p] = NoOp /\ cache[p] = Nothing
      /\ \A n \in Name : db[n] = NoDb /\ disk = Nothing /\ ~torn
  BY DEF Init
<1>2. RowInv /\ RowOpensVault
  BY <1>1 DEF RowInv, RowOpensVault, Busy, NoDb
<1>3. There = Nothing
  BY <1>1 DEF There, Nothing, NoDb
<1>4. CopyInv
  BY <1>1, <1>3, RegistryAssumption DEF CopyInv, Init
<1>5. CacheInv
  <2>1. \A p \in Proc, n \in Name : cache[p][n] = 0
    BY <1>1 DEF Nothing
  <2>2. QED
    BY <1>1, <2>1 DEF CacheInv, CacheOf, Saving
<1>6. QED
  BY <1>2, <1>4, <1>5 DEF RegistryInv

\* Another user's vault and invite change nothing that the invariant is about.
LEMMA Unmoved ==
    ASSUME RegistryInv, UNCHANGED <<env, files, mem, cache, pc, on>> PROVE RegistryInv'
<1>1. RowInv' /\ RowOpensVault'
  BY DEF RegistryInv, RowInv, RowOpensVault, Busy, files
<1>2. CopyInv'
  BY DEF RegistryInv, CopyInv, Alone, Entered, There, files
<1>3. CacheInv'
  BY DEF RegistryInv, CacheInv, CacheOf, Alone, files
<1>4. QED
  BY <1>1, <1>2, <1>3 DEF RegistryInv

LEMMA NextRegistry == TypeOK /\ RegistryInv /\ [Next]_vars => RegistryInv'
<1> SUFFICES ASSUME TypeOK, RegistryInv, [Next]_vars PROVE RegistryInv'
  OBVIOUS
<1>1. ASSUME NEW p \in Proc, ProcStep(p) PROVE RegistryInv'
  BY <1>1, NextType, StepType, StepRows, StepCopy, StepCache DEF RegistryInv
<1>2. ASSUME NEW n \in Name, NEW a \in BOOLEAN, Invited(n, a) PROVE RegistryInv'
  BY <1>2, Unmoved DEF Invited
<1>3. CASE UNCHANGED vars
  BY <1>3, Unmoved DEF vars
<1>4. QED
  BY <1>1, <1>2, <1>3 DEF Next

\* What makes the three below inductive: operations that do not overlap work on
\* one name each, a copy of the registry is that of the databases but for the
\* entry that is still to be made, and a key outlives its vault in the cache
\* only until the registry is written (create_vault, delete_vault,
\* accept_vault_invite, _save_registry).
THEOREM RegistryCorrect == Spec => []RegistryInv
BY InitType, NextType, InitRegistry, NextRegistry, PTL DEF Spec

LEMMA Settled ==
    ASSUME TypeOK, RegistryInv, Alone, \A p \in Proc : ~Busy(p)
    PROVE  ~torn /\ disk = There
<1>1. \A p \in Proc : pc[p] \notin Saving \cup {"write"}
  BY DEF Busy, Saving
<1>2. QED
  BY <1>1 DEF RegistryInv, CopyInv, Saving

\* With one manager at a time, between operations, the registry names exactly
\* the vaults that are there, under their names (_save_registry, delete_vault).
THEOREM NamesCorrect == Spec => []RegistryNamesVaults
<1>1. TypeOK /\ RegistryInv => RegistryNamesVaults
  BY Settled DEF RegistryNamesVaults, There
<1>2. QED
  BY <1>1, TypeCorrect, RegistryCorrect, PTL

\* A cached key is never that of an earlier vault of the same name
\* (_vault_fernets in delete_vault, unlock_vault, accept_vault_invite).
THEOREM CacheCorrect == Spec => []CachedKeyOpens
<1>1. RegistryInv => CachedKeyOpens
  BY DEF RegistryInv, CacheInv, CacheOf, CachedKeyOpens
<1>2. QED
  BY <1>1, RegistryCorrect, PTL

\* The user's row opens his vault, whatever dies and however old a manager's
\* copy of the registry is.
THEOREM RowsCorrect == Spec => []RowOpensVault
<1>1. RegistryInv => RowOpensVault
  BY DEF RegistryInv
<1>2. QED
  BY <1>1, RegistryCorrect, PTL

=============================================================================
