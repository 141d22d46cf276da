----------------------------- MODULE VaultProofs ----------------------------
(***************************************************************************)
(* What is proved of module Vault for any users, managers, threads and     *)
(* secrets: type correctness, and the two safety invariants of commands    *)
(* that run one at a time, through the inductive invariant SerialInv.      *)
(***************************************************************************)
EXTENDS Vault, TLAPS

LEMMA LockType ==
    ASSUME NEW u \in User, NEW g \in 0..MaxGen
    PROVE  Master(u) \in Lock /\ X25519(u, g) \in Lock
BY VaultAssumption DEF Master, X25519, Lock

LEMMA NoRowType == NoRow \in Row
BY VaultAssumption, LockType DEF NoRow, Row, Role

LEMMA NoCellsType == NoCells \in [SecretId -> Cell]
BY VaultAssumption DEF NoCells, Cell

\* Who a thread works for.
LEMMA SelfType ==
    ASSUME NEW t \in Thread
    PROVE  ManagerOf[t] \in Manager /\ Self(t) \in User
BY VaultAssumption DEF Self

\* What Return does to the variables it sets, whatever cache it is given.
LEMMA ReturnType ==
    ASSUME TypeOK, NEW t \in Thread, NEW c \in [Manager -> 0..MaxKey], Return(t, c)
    PROVE  /\ pc' \in [Thread -> Phase] /\ op' \in [Thread -> Op]
           /\ key' \in [Thread -> 0..MaxKey]
           /\ snap' \in [Thread -> [SecretId -> Cell]]
           /\ cache' \in [Manager -> 0..MaxKey]
<1>1. 0 \in 0..MaxKey
  BY VaultAssumption
<1>2. pc' \in [Thread -> Phase] /\ op' \in [Thread -> Op]
  BY DEF TypeOK, Return, Phase, Op
<1>3. key' \in [Thread -> 0..MaxKey] /\ snap' \in [Thread -> [SecretId -> Cell]]
  BY <1>1, NoCellsType DEF TypeOK, Return
<1>4. cache' \in [Manager -> 0..MaxKey]
  BY <1>1 DEF Return
<1>5. QED
  BY <1>2, <1>3, <1>4

LEMMA InitType == Init => TypeOK
<1> SUFFICES ASSUME Init PROVE TypeOK
  OBVIOUS
<1>1. members \in [User -> Row]
  BY VaultAssumption, LockType, NoRowType DEF Init, Row, Role
<1>2. QED
  BY <1>1, VaultAssumption, NoCellsType DEF Init, TypeOK, Phase, Op

LEMMA UnlockType ==
    ASSUME TypeOK, NEW t \in Thread, UnlockStep(t) PROVE TypeOK'
<1>1. CASE UnlockCached(t)
  BY <1>1, SelfType DEF TypeOK, UnlockCached, Goto, Cached, Phase
<1>2. CASE UnlockRow(t)
  <2>1. members[Self(t)] \in Row
    BY SelfType DEF TypeOK
  <2>2. members[Self(t)].key \in 0..MaxKey
    BY <2>1 DEF Row
  <2>3. QED
    BY <1>2, <2>2 DEF TypeOK, UnlockRow, Goto, Phase
<1>3. CASE Rewrap(t)
  <2>1. Self(t) \in User /\ members[Self(t)] \in Row /\ key[t] \in 0..MaxKey
    BY SelfType DEF TypeOK
  <2>2. Master(Self(t)) \in Lock
    BY <2>1, VaultAssumption DEF Master, Lock
  <2>3. [members[Self(t)] EXCEPT !.key = key[t], !.lock = Master(Self(t))] \in Row
    BY <2>1, <2>2 DEF Row
  <2>4. members' \in [User -> Row]
    BY <1>3, <2>1, <2>3 DEF TypeOK, Rewrap
  <2>5. QED
    BY <1>3, <2>4 DEF TypeOK, Rewrap, Goto, Phase
<1>4. CASE CacheKey(t)
  BY <1>4, SelfType DEF TypeOK, CacheKey, Goto, Phase
<1>5. QED
  BY <1>1, <1>2, <1>3, <1>4 DEF UnlockStep

LEMMA SecretType ==
    ASSUME TypeOK, NEW t \in Thread, SecretStep(t) PROVE TypeOK'
<1> cache \in [Manager -> 0..MaxKey] /\ key[t] \in 0..MaxKey
  BY DEF TypeOK
<1>1. CASE GetSecret(t)
  BY <1>1, ReturnType DEF TypeOK, GetSecret
<1>2. ASSUME NEW s \in SecretId, NEW v \in Value,
             SaveSecret(t, s, v) \/ UpdateSecret(t, s, v)
      PROVE  TypeOK'
  <2>1. Return(t, cache) /\ UNCHANGED <<members, keypair, keyCount>>
    BY <1>2 DEF SaveSecret, UpdateSecret
  <2>2. [val |-> v, key |-> key[t]] \in Cell
    BY <1>2 DEF Cell
  <2>3. secrets' = [secrets EXCEPT ![s] = [val |-> v, key |-> key[t]]]
    BY <1>2 DEF SaveSecret, UpdateSecret
  <2>4. secrets' \in [SecretId -> Cell]
    BY <2>2, <2>3 DEF TypeOK
  <2>5. QED
    BY <2>1, <2>4, ReturnType DEF TypeOK
<1>3. ASSUME NEW s \in SecretId, DeleteSecret(t, s)
      PROVE  TypeOK'
  <2>1. secrets' \in [SecretId -> Cell]
    BY <1>3, VaultAssumption DEF TypeOK, DeleteSecret, Cell
  <2>2. QED
    BY <1>3, <2>1, ReturnType DEF TypeOK, DeleteSecret
<1>4. QED
  BY <1>1, <1>2, <1>3 DEF SecretStep

LEMMA MemberType ==
    ASSUME TypeOK, NEW t \in Thread, MemberStep(t) PROVE TypeOK'
<1>0. /\ cache \in [Manager -> 0..MaxKey] /\ key[t] \in 0..MaxKey
      /\ Self(t) \in User
  BY SelfType DEF TypeOK
<1>1. CASE ReadRawKey(t)
  <2>1. members[Self(t)] \in Row
    BY <1>0 DEF TypeOK
  <2>2. members[Self(t)].key \in 0..MaxKey
    BY <2>1 DEF Row
  <2>3. QED
    BY <1>1, <2>2 DEF TypeOK, ReadRawKey, Goto, Phase
<1>2. ASSUME NEW w \in User, NEW r \in Role, NEW g \in 0..MaxGen,
             InsertMember(t, w, r, g)
      PROVE  TypeOK'
  <2> DEFINE l == IF g = 0 THEN Master(Self(t)) ELSE X25519(w, g)
  <2>1. l \in Lock
    BY <1>0, LockType
  <2>2. [role |-> r, key |-> key[t], pub |-> g, lock |-> l] \in Row
    BY <1>0, <2>1 DEF Row
  <2>3. members' = [members EXCEPT ![w] =
                      [role |-> r, key |-> key[t], pub |-> g, lock |-> l]]
    BY <1>2 DEF InsertMember
  <2> HIDE DEF l
  <2>4. members' \in [User -> Row]
    BY <2>2, <2>3 DEF TypeOK
  <2>5. QED
    BY <1>0, <1>2, <2>4, ReturnType DEF TypeOK, InsertMember
<1>3. ASSUME NEW w \in User, NEW rotate \in BOOLEAN, RemoveMember(t, w, rotate)
      PROVE  TypeOK'
  <2>1. members' \in [User -> Row] /\ UNCHANGED <<secrets, keypair, keyCount>>
    BY <1>3, NoRowType DEF TypeOK, RemoveMember
  <2>2. CASE rotate
    BY <1>3, <2>1, <2>2 DEF TypeOK, RemoveMember, Goto, Phase, Op
  <2>3. CASE ~rotate
    BY <1>0, <1>3, <2>1, <2>3, ReturnType DEF TypeOK, RemoveMember
  <2>4. QED
    BY <2>2, <2>3
<1>4. ASSUME NEW w \in User, NEW r \in Role, SetMemberRole(t, w, r)
      PROVE  TypeOK'
  <2>1. [members[w] EXCEPT !.role = r] \in Row
    BY DEF TypeOK, Row
  <2>2. members' \in [User -> Row]
    BY <1>4, <2>1 DEF TypeOK, SetMemberRole
  <2>3. QED
    BY <1>0, <1>4, <2>2, ReturnType DEF TypeOK, SetMemberRole
<1>5. QED
  BY <1>1, <1>2, <1>3, <1>4 DEF MemberStep

LEMMA RewrappedType ==
    ASSUME TypeOK, NEW u \in User, NEW w \in User, NEW k \in 0..MaxKey
    PROVE  Rewrapped(u, w, k) \in Row
<1>1. members[w] \in Row
  BY DEF TypeOK
<1>2. members[w].pub \in 0..MaxGen
  BY <1>1 DEF Row
<1>3. Master(w) \in Lock /\ X25519(w, members[w].pub) \in Lock
  BY <1>2, LockType
<1>4. [members[w] EXCEPT !.key = k, !.lock = Master(w)] \in Row
  BY <1>1, <1>3 DEF Row
<1>5. [members[w] EXCEPT !.key = k, !.lock = X25519(w, members[w].pub)] \in Row
  BY <1>1, <1>3 DEF Row
<1>6. QED
  BY <1>1, <1>4, <1>5 DEF Rewrapped

LEMMA ReencryptedType ==
    ASSUME TypeOK, NEW t \in Thread, NEW s \in SecretId, NEW k \in 0..MaxKey
    PROVE  Reencrypted(t, s, k) \in Cell
<1>1. secrets[s] \in Cell
  BY DEF TypeOK
<1>2. ASSUME NEW v \in Value PROVE [val |-> v, key |-> k] \in Cell
  BY DEF Cell
<1>3. QED
  BY <1>1, <1>2 DEF Reencrypted

LEMMA RotateType ==
    ASSUME TypeOK, NEW t \in Thread, RotateStep(t) PROVE TypeOK'
<1>1. CASE RotateCheck(t)
  BY <1>1 DEF TypeOK, RotateCheck, Goto, Phase
<1>2. CASE ReadSecrets(t)
  BY <1>2 DEF TypeOK, ReadSecrets, Goto, Phase
<1>3. CASE RotateCommit(t)
  <2> DEFINE k == keyCount + 1
  <2>1. k \in 1..MaxKey /\ k \in 0..MaxKey /\ Self(t) \in User
    BY <1>3, SelfType, VaultAssumption DEF TypeOK, RotateCommit
  <2>2. members' \in [User -> Row]
    <3>1. members' = [w \in User |-> Rewrapped(Self(t), w, k)]
      BY <1>3 DEF RotateCommit
    <3> HIDE DEF k
    <3>2. QED
      BY <2>1, <3>1, RewrappedType
  <2>3. secrets' \in [SecretId -> Cell]
    <3>1. secrets' = [s \in SecretId |-> Reencrypted(t, s, k)]
      BY <1>3 DEF RotateCommit
    <3> HIDE DEF k
    <3>2. QED
      BY <2>1, <3>1, ReencryptedType
  <2>4. QED
    BY <1>3, <2>1, <2>2, <2>3 DEF TypeOK, RotateCommit, Goto, Phase
<1>4. CASE PublishKey(t)
  <2>1. [cache EXCEPT ![ManagerOf[t]] = key[t]] \in [Manager -> 0..MaxKey]
    BY DEF TypeOK
  <2>2. QED
    BY <1>4, <2>1, ReturnType DEF TypeOK, PublishKey
<1>5. QED
  BY <1>1, <1>2, <1>3, <1>4 DEF RotateStep

LEMMA NextType == TypeOK /\ [Next]_vars => TypeOK'
<1> SUFFICES ASSUME TypeOK, [Next]_vars PROVE TypeOK'
  OBVIOUS
<1>1. ASSUME NEW t \in Thread, NEW o \in Op, Begin(t, o) PROVE TypeOK'
  BY <1>1 DEF TypeOK, Begin, Goto, AfterCheck, Phase
<1>2. ASSUME NEW t \in Thread, Raise(t) PROVE TypeOK'
  BY <1>2, ReturnType DEF TypeOK, Raise
<1>3. ASSUME NEW m \in Manager, Crash(m) PROVE TypeOK'
  <2>1. 0 \in 0..MaxKey
    BY VaultAssumption
  <2>2. QED
    BY <1>3, <2>1, NoCellsType DEF TypeOK, Crash, Phase, Op
<1>4. ASSUME NEW u \in User, RenewIdentity(u) PROVE TypeOK'
  BY <1>4, VaultAssumption DEF TypeOK, RenewIdentity
<1>5. CASE UNCHANGED vars
  BY <1>5 DEF TypeOK, vars
<1>6. QED
  BY <1>1, <1>2, <1>3, <1>4, <1>5, UnlockType, SecretType, MemberType, RotateType
     DEF Next

\* Every reachable state is well typed: rows, ciphertexts and caches name keys
\* that a rotation generated, locks name keypairs that exist.
THEOREM TypeCorrect == Spec => []TypeOK
<1>1. QED
  BY InitType, NextType, PTL DEF Spec

-----------------------------------------------------------------------------
(* Commands that run one at a time, each in a process of its own.          *)

\* An operation that ends leaves no thread running and no key cached.
LEMMA ReturnSerial ==
    ASSUME TypeOK, OneRuns, CacheFresh, LongLived = {},
           NEW t \in Thread, pc[t] # "idle",
           NEW x \in 0..MaxKey, NEW c, c = cache \/ c = [cache EXCEPT ![ManagerOf[t]] = x],
           Return(t, c)
    PROVE  (\A t2 \in Thread : pc'[t2] = "idle") /\ (\A m \in Manager : cache'[m] = 0)
<1>1. \A t2 \in Thread : pc'[t2] = "idle"
  BY DEF TypeOK, OneRuns, Return
<1>2. cache' = [c EXCEPT ![ManagerOf[t]] = 0]
  BY DEF Return
<1>3. ASSUME NEW m \in Manager, m # ManagerOf[t] PROVE cache[m] = 0
  <2>1. \A t2 \in Thread : ManagerOf[t2] = m => pc[t2] = "idle"
    BY <1>3 DEF OneRuns
  <2>2. QED
    BY <2>1 DEF CacheFresh
<1>4. QED
  BY <1>1, <1>2, <1>3, SelfType DEF TypeOK

\* Such a state has nothing in flight: the invariant is about the tables only.
LEMMA QuietSerial ==
    ASSUME \A t2 \in Thread : pc'[t2] = "idle", \A m \in Manager : cache'[m] = 0,
           RowsFresh', SecretsUnderCurrentKey'
    PROVE  SerialInv'
BY DEF SerialInv, OneRuns, UnlockWanted, CacheFresh, HeldKeyFresh, HasKey, SnapFresh, At

\* A member who can open his row finds the newest key in it.
LEMMA OpensFresh ==
    ASSUME RowsFresh, NEW u \in User, Opens(u)
    PROVE  members[u].pub # 0 /\ members[u].key = keyCount
BY DEF RowsFresh, Opens, Master, X25519

LEMMA SerialInit == Init => SerialInv
<1> SUFFICES ASSUME Init PROVE SerialInv
  OBVIOUS
<1>1. RowsFresh
  BY VaultAssumption DEF Init, RowsFresh, Member, NoRow, Master
<1>2. SecretsUnderCurrentKey
  BY VaultAssumption DEF Init, SecretsUnderCurrentKey, Live, NoCells
<1>3. OneRuns /\ UnlockWanted /\ CacheFresh /\ HeldKeyFresh /\ SnapFresh
  BY DEF Init, OneRuns, UnlockWanted, CacheFresh, HeldKeyFresh, HasKey, SnapFresh, At
<1>4. QED
  BY <1>1, <1>2, <1>3 DEF SerialInv

LEMMA BeginSerial ==
    ASSUME TypeOK, SerialInv, Exclusive, NEW t \in Thread, NEW o \in Op, Begin(t, o)
    PROVE  SerialInv'
<1>1. \A t2 \in Thread : pc[t2] = "idle"
  BY DEF Begin
<1>2. /\ pc' = [pc EXCEPT ![t] = AfterCheck(o)] /\ op' = [op EXCEPT ![t] = o]
      /\ UNCHANGED <<members, secrets, keypair, keyCount, cache, key, snap>>
  BY DEF Begin, Goto
<1>3. /\ pc'[t] \in {"unlock", "work"}
      /\ pc'[t] = "unlock" <=> op'[t] \in NeedsKey
  BY <1>2 DEF TypeOK, AfterCheck
<1>4. \A t2 \in Thread : t2 # t => pc'[t2] = "idle"
  BY <1>1, <1>2 DEF TypeOK
<1>5. \A m \in Manager : cache'[m] = 0
  BY <1>1, <1>2 DEF SerialInv, CacheFresh
<1>6. OneRuns' /\ UnlockWanted' /\ CacheFresh' /\ HeldKeyFresh' /\ SnapFresh'
  BY <1>3, <1>4, <1>5 DEF OneRuns, UnlockWanted, CacheFresh, HeldKeyFresh, HasKey, SnapFresh, At
<1>7. RowsFresh' /\ SecretsUnderCurrentKey'
  BY <1>2 DEF SerialInv, RowsFresh, SecretsUnderCurrentKey, Member, Live
<1>8. QED
  BY <1>6, <1>7 DEF SerialInv

LEMMA UnlockSerial ==
    ASSUME TypeOK, SerialInv, NEW t \in Thread, UnlockStep(t)
    PROVE  SerialInv'
<1> USE DEF SerialInv
<1>0. /\ Self(t) \in User /\ ManagerOf[t] \in Manager
      /\ pc[t] # "idle" /\ (\A t2 \in Thread : t2 # t => pc[t2] = "idle")
      /\ op[t] \in NeedsKey
  BY SelfType
     DEF UnlockStep, UnlockCached, UnlockRow, Rewrap, CacheKey, OneRuns, UnlockWanted
<1>1. pc[t] \in {"unlock", "rewrap", "cache"} => \A m \in Manager : cache[m] = 0
  BY <1>0 DEF CacheFresh
<1>2. CASE UnlockCached(t)
  BY <1>0, <1>1, <1>2 DEF UnlockCached, Cached
<1>3. CASE UnlockRow(t)
  <2>1. members[Self(t)].pub # 0 /\ members[Self(t)].key = keyCount /\ Member(Self(t))
    BY <1>0, <1>3, OpensFresh DEF UnlockRow, Opens
  <2>2. /\ pc'[t] \in {"rewrap", "cache"} /\ key'[t] = keyCount
        /\ \A t2 \in Thread : t2 # t => pc'[t2] = "idle"
        /\ UNCHANGED <<members, secrets, keypair, keyCount, cache, op, snap>>
    BY <1>0, <1>3, <2>1 DEF TypeOK, UnlockRow, Goto
  <2>3. \A m \in Manager : cache'[m] = 0
    BY <1>1, <1>3, <2>2 DEF UnlockRow
  <2>4. OneRuns' /\ UnlockWanted' /\ CacheFresh' /\ HeldKeyFresh' /\ SnapFresh'
    BY <1>0, <2>1, <2>2, <2>3
       DEF OneRuns, UnlockWanted, CacheFresh, HeldKeyFresh, HasKey, SnapFresh, At, Member
  <2>5. RowsFresh' /\ SecretsUnderCurrentKey'
    BY <2>2 DEF RowsFresh, SecretsUnderCurrentKey, Member, Live
  <2>6. QED
    BY <2>4, <2>5
<1>4. CASE Rewrap(t)
  <2>1. /\ pc'[t] = "cache" /\ (\A t2 \in Thread : t2 # t => pc'[t2] = "idle")
        /\ UNCHANGED <<secrets, keypair, keyCount, cache, op, key, snap>>
    BY <1>0, <1>4 DEF TypeOK, Rewrap, Goto
  <2>2. key[t] = keyCount /\ Member(Self(t)) /\ members[Self(t)].pub # 0
    BY <1>4 DEF Rewrap, HeldKeyFresh, HasKey
  <2>3. \A m \in Manager : cache'[m] = 0
    BY <1>1, <1>4, <2>1 DEF Rewrap
  <2>4. members' \in {members,
           [members EXCEPT ![Self(t)].key = keyCount, ![Self(t)].lock = Master(Self(t))]}
    BY <1>4, <2>2 DEF Rewrap
  <2>5. RowsFresh' /\ Member(Self(t))' /\ members'[Self(t)].pub # 0
    BY <1>0, <2>1, <2>2, <2>4 DEF TypeOK, Row, RowsFresh, Member
  <2>6. OneRuns' /\ UnlockWanted' /\ CacheFresh' /\ HeldKeyFresh' /\ SnapFresh'
    BY <1>0, <2>1, <2>2, <2>3, <2>5
       DEF OneRuns, UnlockWanted, CacheFresh, HeldKeyFresh, HasKey, SnapFresh, At
  <2>7. SecretsUnderCurrentKey'
    BY <2>1 DEF SecretsUnderCurrentKey, Live
  <2>8. QED
    BY <2>5, <2>6, <2>7
<1>5. CASE CacheKey(t)
  <2>1. /\ pc'[t] = "work" /\ (\A t2 \in Thread : t2 # t => pc'[t2] = "idle")
        /\ UNCHANGED <<members, secrets, keypair, keyCount, op, key, snap>>
    BY <1>0, <1>5 DEF TypeOK, CacheKey, Goto
  <2>2. key[t] = keyCount /\ Member(Self(t)) /\ members[Self(t)].pub # 0
    BY <1>5 DEF CacheKey, HeldKeyFresh, HasKey
  <2>3. /\ cache'[ManagerOf[t]] = keyCount
        /\ \A m \in Manager : m # ManagerOf[t] => cache'[m] = 0
    BY <1>0, <1>1, <1>5, <2>2 DEF TypeOK, CacheKey
  <2>4. OneRuns' /\ UnlockWanted' /\ CacheFresh' /\ HeldKeyFresh' /\ SnapFresh'
    BY <1>0, <2>1, <2>2, <2>3
       DEF OneRuns, UnlockWanted, CacheFresh, HeldKeyFresh, HasKey, SnapFresh, At, Member
  <2>5. RowsFresh' /\ SecretsUnderCurrentKey'
    BY <2>1 DEF RowsFresh, SecretsUnderCurrentKey, Member, Live
  <2>6. QED
    BY <2>4, <2>5
<1>6. QED
  BY <1>2, <1>3, <1>4, <1>5 DEF UnlockStep

LEMMA SecretSerial ==
    ASSUME TypeOK, SerialInv, LongLived = {}, NEW t \in Thread, SecretStep(t)
    PROVE  SerialInv'
<1> USE DEF SerialInv
<1>1. /\ pc[t] = "work" /\ Return(t, cache)
      /\ UNCHANGED <<members, keypair, keyCount>>
  BY DEF SecretStep, GetSecret, SaveSecret, UpdateSecret, DeleteSecret, At
<1>2. (\A t2 \in Thread : pc'[t2] = "idle") /\ (\A m \in Manager : cache'[m] = 0)
  <2>1. 0 \in 0..MaxKey
    BY VaultAssumption
  <2>2. QED
    BY <1>1, <2>1, ReturnSerial
<1>3. RowsFresh'
  BY <1>1 DEF RowsFresh, Member
<1>4. SecretsUnderCurrentKey'
  <2>1. CASE GetSecret(t)
    BY <2>1 DEF GetSecret, SecretsUnderCurrentKey, Live
  <2>2. ASSUME NEW s \in SecretId, NEW v \in Value,
               SaveSecret(t, s, v) \/ UpdateSecret(t, s, v)
        PROVE  SecretsUnderCurrentKey'
    <3>1. key[t] = keyCount
      BY <2>2 DEF SaveSecret, UpdateSecret, At, HeldKeyFresh, HasKey, NeedsKey
    <3>2. secrets' = [secrets EXCEPT ![s] = [val |-> v, key |-> keyCount]]
      BY <2>2, <3>1 DEF SaveSecret, UpdateSecret
    <3>3. QED
      BY <1>1, <3>2 DEF TypeOK, SecretsUnderCurrentKey, Live
  <2>3. ASSUME NEW s \in SecretId, DeleteSecret(t, s)
        PROVE  SecretsUnderCurrentKey'
    BY <1>1, <2>3, VaultAssumption DEF TypeOK, DeleteSecret, SecretsUnderCurrentKey, Live
  <2>4. QED
    BY <2>1, <2>2, <2>3 DEF SecretStep
<1>5. QED
  BY <1>2, <1>3, <1>4, QuietSerial

LEMMA MemberSerial ==
    ASSUME TypeOK, SerialInv, LongLived = {}, NEW t \in Thread, MemberStep(t)
    PROVE  SerialInv'
<1> USE DEF SerialInv
<1>0. /\ Self(t) \in User /\ ManagerOf[t] \in Manager /\ 0 \in 0..MaxKey
      /\ pc[t] # "idle" /\ \A t2 \in Thread : t2 # t => pc[t2] = "idle"
  BY SelfType, VaultAssumption
     DEF MemberStep, ReadRawKey, InsertMember, RemoveMember, SetMemberRole, At, OneRuns
<1>1. SecretsUnderCurrentKey'
  BY DEF MemberStep, ReadRawKey, InsertMember, RemoveMember, SetMemberRole,
         SecretsUnderCurrentKey, Live
<1>2. Return(t, cache) =>
        (\A t2 \in Thread : pc'[t2] = "idle") /\ (\A m \in Manager : cache'[m] = 0)
  BY <1>0, ReturnSerial
<1>3. CASE ReadRawKey(t)
  <2>1. members[Self(t)].pub # 0 /\ members[Self(t)].key = keyCount /\ Member(Self(t))
    BY <1>0, <1>3, OpensFresh DEF ReadRawKey, Opens
  <2>2. /\ pc[t] = "work" /\ pc'[t] = "commit" /\ op[t] = "add_member"
        /\ key'[t] = keyCount
        /\ \A t2 \in Thread : t2 # t => pc'[t2] = "idle"
        /\ UNCHANGED <<members, secrets, keypair, keyCount, cache, op, snap>>
    BY <1>0, <1>3, <2>1 DEF TypeOK, ReadRawKey, Goto, At
  <2>3. OneRuns' /\ UnlockWanted' /\ HeldKeyFresh' /\ SnapFresh'
    BY <2>1, <2>2
       DEF OneRuns, UnlockWanted, NeedsKey, HeldKeyFresh, HasKey, SnapFresh, At, Member
  <2>4. CacheFresh'
    BY <1>0, <2>2 DEF CacheFresh
  <2>5. RowsFresh'
    BY <2>2 DEF RowsFresh, Member
  <2>6. QED
    BY <1>1, <2>3, <2>4, <2>5
<1>4. ASSUME NEW w \in User, NEW r \in Role, NEW g \in 0..MaxGen,
             InsertMember(t, w, r, g)
      PROVE  SerialInv'
  <2>1. key[t] = keyCount /\ Member(Self(t))
    BY <1>4 DEF InsertMember, At, HeldKeyFresh, HasKey
  <2>2. w # Self(t) /\ g \in 0..keypair[w]
    BY <1>4, <2>1 DEF InsertMember
  <2> DEFINE l == IF g = 0 THEN Master(Self(t)) ELSE X25519(w, g)
             row == [role |-> r, key |-> keyCount, pub |-> g, lock |-> l]
  <2>3. /\ members' = [members EXCEPT ![w] = row]
        /\ Return(t, cache) /\ UNCHANGED <<secrets, keypair, keyCount>>
    BY <1>4, <2>1 DEF InsertMember
  <2>4. IF row.pub = 0 THEN row.lock.user # w
        ELSE /\ row.key = keyCount /\ row.pub \in 1..keypair[w]
             /\ row.lock = X25519(w, row.pub)
    BY <2>2 DEF Master, TypeOK
  <2> HIDE DEF row
  <2>5. RowsFresh'
    BY <2>3, <2>4 DEF TypeOK, RowsFresh, Member
  <2>6. QED
    BY <1>1, <1>2, <2>3, <2>5, QuietSerial
<1>5. ASSUME NEW w \in User, NEW rotate \in BOOLEAN, RemoveMember(t, w, rotate)
      PROVE  SerialInv'
  <2>1. /\ members' = [members EXCEPT ![w] = NoRow] /\ w # Self(t)
        /\ UNCHANGED <<secrets, keypair, keyCount>>
    BY <1>5 DEF RemoveMember
  <2>2. RowsFresh'
    BY <2>1 DEF TypeOK, RowsFresh, Member, NoRow
  <2>3. CASE ~rotate
    BY <1>1, <1>2, <1>5, <2>2, <2>3, QuietSerial DEF RemoveMember
  <2>4. CASE rotate
    <3>1. /\ pc'[t] = "check" /\ op'[t] = "rotate_key" /\ \A t2 \in Thread : t2 # t => pc'[t2] = "idle"
          /\ UNCHANGED <<cache, key, snap>>
      BY <1>0, <1>5, <2>4 DEF TypeOK, RemoveMember, Goto
    <3>2. OneRuns' /\ UnlockWanted' /\ HeldKeyFresh' /\ SnapFresh'
      BY <3>1 DEF OneRuns, UnlockWanted, NeedsKey, HeldKeyFresh, HasKey, SnapFresh, At
    <3>3. \A m \in Manager : cache[m] = 0
      BY <1>0, <1>5 DEF CacheFresh, RemoveMember, At, NeedsKey
    <3>4. CacheFresh'
      BY <3>1, <3>3 DEF CacheFresh
    <3>5. QED
      BY <1>1, <2>2, <3>2, <3>4
  <2>5. QED
    BY <2>3, <2>4
<1>6. ASSUME NEW w \in User, NEW r \in Role, SetMemberRole(t, w, r)
      PROVE  SerialInv'
  <2>1. /\ members' = [members EXCEPT ![w].role = r] /\ Member(w)
        /\ Return(t, cache) /\ UNCHANGED <<secrets, keypair, keyCount>>
    BY <1>6 DEF SetMemberRole
  <2>2. RowsFresh'
    BY <2>1 DEF TypeOK, Row, RowsFresh, Member
  <2>3. QED
    BY <1>1, <1>2, <2>1, <2>2, QuietSerial
<1>7. QED
  BY <1>3, <1>4, <1>5, <1>6 DEF MemberStep

\* A rotation that nothing runs beside finds every secret under the key it
\* holds, so it re-encrypts them all and re-wraps every row with a public key.
LEMMA RotateCommitSerial ==
    ASSUME TypeOK, SerialInv, NEW t \in Thread, RotateCommit(t)
    PROVE  SerialInv'
<1> USE DEF SerialInv
<1>0. /\ Self(t) \in User /\ ManagerOf[t] \in Manager
      /\ \A t2 \in Thread : t2 # t => pc[t2] = "idle"
  BY SelfType DEF RotateCommit, At, OneRuns
<1>1. /\ key[t] = keyCount /\ members[Self(t)].pub # 0 /\ Member(Self(t))
      /\ snap[t] = secrets
  BY DEF RotateCommit, At, HeldKeyFresh, HasKey, SnapFresh
<1>2. /\ op'[t] = "rotate_key" /\ pc'[t] = "publish" /\ key'[t] = keyCount'
      /\ (\A t2 \in Thread : t2 # t => pc'[t2] = "idle")
      /\ UNCHANGED <<keypair, cache, op, snap>>
  BY <1>0 DEF TypeOK, RotateCommit, Goto, At
<1>3. SecretsUnderCurrentKey'
  <2>1. SUFFICES ASSUME NEW s \in SecretId, Live(s)'
                 PROVE  secrets'[s].key = keyCount'
    BY DEF SecretsUnderCurrentKey
  <2>2. secrets'[s] = Reencrypted(t, s, keyCount') /\ (~Live(s) => secrets'[s] = secrets[s])
    BY DEF RotateCommit, Reencrypted
  <2>3. Live(s)
    BY <2>1, <2>2 DEF Live
  <2>4. secrets[s].val \in Value /\ secrets[s].key = key[t]
    BY <1>1, <2>3 DEF Live, SecretsUnderCurrentKey
  <2>5. secrets'[s] = [val |-> secrets[s].val, key |-> keyCount']
    BY <1>1, <2>2, <2>3, <2>4 DEF Reencrypted
  <2>6. QED
    BY <2>5
<1>4. RowsFresh'
  <2>1. SUFFICES ASSUME NEW u \in User, Member(u)'
                 PROVE  IF members'[u].pub = 0 THEN members'[u].lock.user # u
                        ELSE /\ members'[u].key = keyCount'
                             /\ members'[u].pub \in 1..keypair'[u]
                             /\ members'[u].lock \in {Master(u), X25519(u, members'[u].pub)}
    BY DEF RowsFresh, Master, X25519
  <2>2. members'[u] = Rewrapped(Self(t), u, keyCount')
    BY DEF RotateCommit
  <2>3. Member(u) /\ members[u] \in Row
    BY <2>1, <2>2 DEF Rewrapped, Member, TypeOK
  <2>4. CASE u = Self(t)
    <3>1. members'[u] = [members[u] EXCEPT !.key = keyCount', !.lock = Master(u)]
      BY <2>2, <2>3, <2>4 DEF Rewrapped
    <3>2. /\ members'[u].key = keyCount' /\ members'[u].lock = Master(u)
          /\ members'[u].pub = members[u].pub
      BY <2>3, <3>1 DEF Row
    <3>3. QED
      BY <1>1, <1>2, <2>3, <2>4, <3>2 DEF RowsFresh
  <2>5. CASE u # Self(t) /\ members[u].pub # 0
    <3>1. members'[u] = [members[u] EXCEPT !.key = keyCount', !.lock = X25519(u, members[u].pub)]
      BY <2>2, <2>3, <2>5 DEF Rewrapped
    <3>2. /\ members'[u].key = keyCount' /\ members'[u].lock = X25519(u, members[u].pub)
          /\ members'[u].pub = members[u].pub
      BY <2>3, <3>1 DEF Row
    <3>3. QED
      BY <1>2, <2>3, <2>5, <3>2 DEF RowsFresh
  <2>6. CASE u # Self(t) /\ members[u].pub = 0
    <3>1. members'[u] = members[u]
      BY <2>2, <2>3, <2>6 DEF Rewrapped
    <3>2. QED
      BY <2>3, <2>6, <3>1 DEF RowsFresh
  <2>7. QED
    BY <2>4, <2>5, <2>6
<1>5. CacheFresh'
  <2>1. \A m \in Manager : cache[m] # 0 => m = ManagerOf[t]
    BY <1>0 DEF CacheFresh
  <2>2. QED
    BY <1>2, <2>1 DEF CacheFresh, NeedsKey
<1>6. OneRuns' /\ UnlockWanted' /\ HeldKeyFresh' /\ SnapFresh'
  BY <1>2 DEF OneRuns, UnlockWanted, NeedsKey, HeldKeyFresh, HasKey, SnapFresh, At
<1>7. QED
  BY <1>3, <1>4, <1>5, <1>6

LEMMA RotateSerial ==
    ASSUME TypeOK, SerialInv, LongLived = {}, NEW t \in Thread, RotateStep(t)
    PROVE  SerialInv'
<1> USE DEF SerialInv
<1>0. /\ Self(t) \in User /\ ManagerOf[t] \in Manager
      /\ pc[t] # "idle" /\ \A t2 \in Thread : t2 # t => pc[t2] = "idle"
  BY SelfType
     DEF RotateStep, RotateCheck, ReadSecrets, RotateCommit, PublishKey, At, OneRuns
<1>1. CASE RotateCheck(t)
  <2>1. /\ pc'[t] = "unlock" /\ (\A t2 \in Thread : t2 # t => pc'[t2] = "idle")
        /\ op[t] = "rotate_key"
        /\ UNCHANGED <<members, secrets, keypair, keyCount, cache, op, key, snap>>
    BY <1>0, <1>1 DEF TypeOK, RotateCheck, Goto, At
  <2>2. \A m \in Manager : cache[m] = 0
    BY <1>0, <1>1 DEF CacheFresh, RotateCheck, At
  <2>3. OneRuns' /\ UnlockWanted' /\ CacheFresh' /\ HeldKeyFresh' /\ SnapFresh'
    BY <2>1, <2>2 DEF OneRuns, UnlockWanted, NeedsKey, CacheFresh, HeldKeyFresh, HasKey,
                      SnapFresh, At
  <2>4. RowsFresh' /\ SecretsUnderCurrentKey'
    BY <2>1 DEF RowsFresh, SecretsUnderCurrentKey, Member, Live
  <2>5. QED
    BY <2>3, <2>4
<1>2. CASE ReadSecrets(t)
  <2>1. /\ pc[t] = "work" /\ pc'[t] = "commit" /\ op[t] = "rotate_key"
        /\ (\A t2 \in Thread : t2 # t => pc'[t2] = "idle")
        /\ snap'[t] = secrets
        /\ UNCHANGED <<members, secrets, keypair, keyCount, cache, op, key>>
    BY <1>0, <1>2 DEF TypeOK, ReadSecrets, Goto, At
  <2>2. key[t] = keyCount /\ Member(Self(t)) /\ members[Self(t)].pub # 0
    BY <2>1 DEF HeldKeyFresh, HasKey, NeedsKey
  <2>3. OneRuns' /\ UnlockWanted' /\ HeldKeyFresh' /\ SnapFresh'
    BY <2>1, <2>2 DEF OneRuns, UnlockWanted, NeedsKey, HeldKeyFresh, HasKey, SnapFresh, At,
                      Member
  <2>4. CacheFresh'
    BY <1>0, <2>1 DEF CacheFresh
  <2>5. RowsFresh' /\ SecretsUnderCurrentKey'
    BY <2>1 DEF RowsFresh, SecretsUnderCurrentKey, Member, Live
  <2>6. QED
    BY <2>3, <2>4, <2>5
<1>3. CASE RotateCommit(t)
  BY <1>3, RotateCommitSerial
<1>4. CASE PublishKey(t)
  <2>1. /\ key[t] \in 0..MaxKey /\ Return(t, [cache EXCEPT ![ManagerOf[t]] = key[t]])
        /\ UNCHANGED <<members, secrets, keypair, keyCount>>
    BY <1>4 DEF PublishKey, TypeOK
  <2>2. (\A t2 \in Thread : pc'[t2] = "idle") /\ (\A m \in Manager : cache'[m] = 0)
    BY <1>0, <2>1, ReturnSerial
  <2>3. RowsFresh' /\ SecretsUnderCurrentKey'
    BY <2>1 DEF RowsFresh, SecretsUnderCurrentKey, Member, Live
  <2>4. QED
    BY <2>2, <2>3, QuietSerial
<1>5. QED
  BY <1>1, <1>2, <1>3, <1>4 DEF RotateStep

\* An error, the death of a process and a new identity leave the tables alone.
LEMMA OtherSerial ==
    ASSUME TypeOK, SerialInv, LongLived = {},
           \/ \E t \in Thread : Raise(t)
           \/ \E m \in Manager : Crash(m)
           \/ \E u \in User : RenewIdentity(u)
    PROVE  SerialInv'
<1> USE DEF SerialInv
<1>1. ASSUME NEW t \in Thread, Raise(t) PROVE SerialInv'
  <2>1. /\ pc[t] # "idle" /\ Return(t, cache) /\ 0 \in 0..MaxKey
        /\ UNCHANGED <<members, secrets, keypair, keyCount>>
    BY <1>1, VaultAssumption DEF Raise
  <2>2. (\A t2 \in Thread : pc'[t2] = "idle") /\ (\A m \in Manager : cache'[m] = 0)
    BY <2>1, ReturnSerial
  <2>3. RowsFresh' /\ SecretsUnderCurrentKey'
    BY <2>1 DEF RowsFresh, SecretsUnderCurrentKey, Member, Live
  <2>4. QED
    BY <2>2, <2>3, QuietSerial
<1>2. ASSUME NEW m \in Manager, Crash(m) PROVE SerialInv'
  <2>1. /\ cache' = [cache EXCEPT ![m] = 0]
        /\ UNCHANGED <<members, secrets, keypair, keyCount>>
    BY <1>2 DEF Crash
  <2>2. \A t \in Thread :
          IF ManagerOf[t] = m THEN pc'[t] = "idle"
          ELSE pc'[t] = pc[t] /\ op'[t] = op[t] /\ key'[t] = key[t] /\ snap'[t] = snap[t]
    BY <1>2 DEF Crash
  <2>3. OneRuns' /\ UnlockWanted'
    BY <2>2 DEF OneRuns, UnlockWanted
  <2>4. CacheFresh'
    BY <2>1, <2>2 DEF CacheFresh, TypeOK
  <2>5. HeldKeyFresh'
    BY <2>1, <2>2 DEF HeldKeyFresh, HasKey, Member
  <2>6. SnapFresh'
    BY <2>1, <2>2 DEF SnapFresh, At
  <2>7. RowsFresh' /\ SecretsUnderCurrentKey'
    BY <2>1 DEF RowsFresh, SecretsUnderCurrentKey, Member, Live
  <2>8. QED
    BY <2>3, <2>4, <2>5, <2>6, <2>7
<1>3. ASSUME NEW u \in User, RenewIdentity(u) PROVE SerialInv'
  <2>1. /\ keypair' = [keypair EXCEPT ![u] = keypair[u] + 1]
        /\ UNCHANGED <<members, secrets, keyCount, cache, op, pc, key, snap>>
    BY <1>3 DEF RenewIdentity
  <2>2. RowsFresh'
    BY <2>1 DEF TypeOK, RowsFresh, Member
  <2>3. QED
    BY <2>1, <2>2
       DEF OneRuns, UnlockWanted, CacheFresh, HeldKeyFresh, HasKey, SnapFresh, At, Member,
           SecretsUnderCurrentKey, Live
<1>4. QED
  BY <1>1, <1>2, <1>3

LEMMA SerialNext ==
    ASSUME TypeOK, SerialInv, Exclusive, LongLived = {}, [Next]_vars
    PROVE  SerialInv'
<1>1. CASE Next
  BY <1>1, BeginSerial, UnlockSerial, SecretSerial, MemberSerial, RotateSerial, OtherSerial
     DEF Next
<1>2. CASE UNCHANGED vars
  BY <1>2 DEF vars, SerialInv, OneRuns, UnlockWanted, CacheFresh, HeldKeyFresh, HasKey,
              SnapFresh, At, Member, RowsFresh, SecretsUnderCurrentKey, Live
<1>3. QED
  BY <1>1, <1>2

\* Commands that run one at a time, each in its own process, keep the keys in
\* rows, caches, locals and fetched secrets in step through every unlock,
\* rotation, failure and crash, with any number of users, secrets and keys.
THEOREM SerialCorrect ==
    ASSUME Exclusive, LongLived = {}
    PROVE  Spec => []SerialInv
<1>1. Init => TypeOK /\ SerialInv
  BY InitType, SerialInit
<1>2. TypeOK /\ SerialInv /\ [Next]_vars => (TypeOK /\ SerialInv)'
  BY NextType, SerialNext
<1>3. QED
  BY <1>1, <1>2, PTL DEF Spec

\* Then no secret is ever left, or stored, under a key that a rotation replaced.
THEOREM RotationIsComplete ==
    ASSUME Exclusive, LongLived = {}
    PROVE  Spec => []SecretsUnderCurrentKey
<1>1. SerialInv => SecretsUnderCurrentKey
  BY DEF SerialInv
<1>2. QED
  BY <1>1, SerialCorrect, PTL

\* And as long as nobody replaces his keypair, every member with a public key
\* on record can open his row and finds the newest key in it.
THEOREM HoldersKeepAccess ==
    ASSUME Exclusive, LongLived = {}, MaxGen = 1
    PROVE  Spec => []HoldersReachCurrentKey
<1>1. TypeOK /\ SerialInv => HoldersReachCurrentKey
  <2>1. SUFFICES ASSUME TypeOK, RowsFresh, NEW u \in User,
                        Member(u), members[u].pub # 0
                 PROVE  Opens(u) /\ members[u].key = keyCount
    BY DEF SerialInv, HoldersReachCurrentKey
  <2>2. keypair[u] = 1 /\ members[u].pub \in 1..keypair[u]
    BY <2>1 DEF TypeOK, RowsFresh
  <2>3. QED
    BY <2>1, <2>2 DEF RowsFresh, Opens
<1>2. QED
  BY <1>1, TypeCorrect, SerialCorrect, PTL

=============================================================================
