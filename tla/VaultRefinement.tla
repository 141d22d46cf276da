--------------------------- MODULE VaultRefinement ---------------------------
(***************************************************************************)
(* What follows from the inductive invariant of VaultProofs when commands  *)
(* run one at a time: whoever writes has the role for it, secrets stay     *)
(* readable, and the vault implements module TeamVault.  Before that, what *)
(* a rotation guarantees whatever runs beside it.                          *)
(***************************************************************************)
EXTENDS VaultProofs

-----------------------------------------------------------------------------
(* Rotations, with any interleaving.                                       *)

\* Only the transaction of a rotation makes a key.
LEMMA KeyStep ==
    ASSUME TypeOK, [Next]_vars, keyCount' # keyCount
    PROVE  \E t \in Thread : RotateCommit(t)
BY DEF Next, vars, Begin, Raise, Crash, RenewIdentity,
       UnlockStep, UnlockCached, UnlockRow, Rewrap, CacheKey,
       SecretStep, GetSecret, SaveSecret, UpdateSecret, DeleteSecret,
       MemberStep, ReadRawKey, InsertMember, RemoveMember, SetMemberRole,
       RotateStep, RotateCheck, ReadSecrets, PublishKey

\* What it does to a row.
LEMMA RewrappedRow ==
    ASSUME TypeOK, NEW u \in User, NEW w \in User, NEW k
    PROVE  /\ Rewrapped(u, w, k).role = members[w].role
           /\ Rewrapped(u, w, k).pub = members[w].pub
           /\ Member(w) /\ members[w].pub # 0 =>
                /\ Rewrapped(u, w, k).key = k
                /\ Rewrapped(u, w, k).lock \in {Master(w), X25519(w, members[w].pub)}
<1>1. members[w] \in Row
  BY DEF TypeOK
<1>2. QED
  BY <1>1 DEF Rewrapped, Row

\* And to a secret.
LEMMA ReencryptedLive ==
    ASSUME TypeOK, NEW t \in Thread, NEW s \in SecretId, NEW k
    PROVE  (Reencrypted(t, s, k).val \in Value) <=> Live(s)
BY DEF Reencrypted, Live

\* However many operations and crashes interleave with a rotation, its commit
\* leaves the new key with every member on record with a public key.
THEOREM RotationReaches == Spec => RotationReachesHolders
<1>1. ASSUME TypeOK, [Next]_vars, keyCount' # keyCount, NEW u \in User,
             Member(u), members[u].pub # 0
      PROVE  /\ members'[u].key = keyCount'
             /\ members'[u].lock \in {Master(u), X25519(u, members[u].pub)}
  <2>1. PICK t \in Thread : RotateCommit(t)
    BY <1>1, KeyStep
  <2>2. members'[u] = Rewrapped(Self(t), u, keyCount') /\ Self(t) \in User
    BY <2>1, SelfType DEF RotateCommit
  <2>3. QED
    BY <1>1, <2>2, RewrappedRow
<1>2. TypeOK /\ [Next]_vars =>
        [keyCount' # keyCount
         => \A u \in User :
              Member(u) /\ members[u].pub # 0
              => /\ members'[u].key = keyCount'
                 /\ members'[u].lock \in {Master(u), X25519(u, members[u].pub)}]_vars
  BY <1>1
<1>3. QED
  BY <1>2, TypeCorrect, PTL DEF Spec, RotationReachesHolders

\* Nor does it drop a secret that was saved, or revive one that was deleted, since
\* it fetched the table.
THEOREM RotationKeeps == Spec => RotationKeepsTheTable
<1>1. ASSUME TypeOK, [Next]_vars, keyCount' # keyCount, NEW s \in SecretId
      PROVE  Live(s)' = Live(s)
  <2>1. PICK t \in Thread : RotateCommit(t)
    BY <1>1, KeyStep
  <2>2. secrets'[s] = Reencrypted(t, s, keyCount')
    BY <2>1 DEF RotateCommit
  <2>3. (secrets'[s].val \in Value) <=> Live(s)
    BY <1>1, <2>2, ReencryptedLive
  <2>4. QED
    BY <2>3 DEF Live
<1>2. TypeOK /\ [Next]_vars =>
        [keyCount' # keyCount => \A s \in SecretId : Live(s)' = Live(s)]_vars
  BY <1>1
<1>3. QED
  BY <1>2, TypeCorrect, PTL DEF Spec, RotationKeepsTheTable

-----------------------------------------------------------------------------
(* Permissions.                                                            *)

\* The steps after which the caller's role and operation are what they were.
LEMMA PermitSame ==
    ASSUME TypeOK, CallerPermitted,
           \A u \in User : members'[u].role = members[u].role,
           \A t \in Thread : pc'[t] # "idle" => pc[t] # "idle" /\ op'[t] = op[t]
    PROVE  CallerPermitted'
<1>1. SUFFICES ASSUME NEW t \in Thread, pc'[t] # "idle"
               PROVE  Permits(members'[Self(t)].role, op'[t])
  BY DEF CallerPermitted, Self
<1>2. Self(t) \in User /\ members'[Self(t)].role = members[Self(t)].role
  BY SelfType
<1>3. QED
  BY <1>1, <1>2 DEF CallerPermitted

\* An operation that ends leaves nobody who needs a role.
LEMMA PermitReturn ==
    ASSUME TypeOK, OneRuns, NEW t \in Thread, pc[t] # "idle", NEW c, Return(t, c)
    PROVE  CallerPermitted' /\ \A t2 \in Thread : pc'[t2] = "idle"
<1>1. \A t2 \in Thread : pc'[t2] = "idle"
  BY DEF TypeOK, OneRuns, Return
<1>2. QED
  BY <1>1 DEF CallerPermitted

LEMMA RewrapRoles ==
    ASSUME TypeOK, NEW t \in Thread, Rewrap(t)
    PROVE  \A u \in User : members'[u].role = members[u].role
<1>1. members' \in {members,
        [members EXCEPT ![Self(t)].key = key[t], ![Self(t)].lock = Master(Self(t))]}
  BY DEF Rewrap
<1>2. \A u \in User : members[u] \in Row
  BY DEF TypeOK
<1>3. ASSUME NEW u \in User PROVE members'[u].role = members[u].role
  <2>1. members'[u] \in {members[u], [members[u] EXCEPT !.key = key[t], !.lock = Master(u)]}
    BY <1>1, SelfType DEF TypeOK
  <2>2. QED
    BY <1>2, <2>1 DEF Row
<1>4. QED
  BY <1>3

LEMMA CommitRoles ==
    ASSUME TypeOK, NEW t \in Thread, RotateCommit(t)
    PROVE  \A u \in User : members'[u].role = members[u].role /\ members'[u].pub = members[u].pub
<1>1. \A u \in User : members'[u] = Rewrapped(Self(t), u, keyCount + 1)
  BY DEF RotateCommit
<1>2. QED
  BY <1>1, SelfType, RewrappedRow

LEMMA PermitNext ==
    ASSUME TypeOK, OneRuns, CallerPermitted, Exclusive, [Next]_vars
    PROVE  CallerPermitted'
<1>1. ASSUME NEW t \in Thread, NEW o \in Op, Begin(t, o) PROVE CallerPermitted'
  <2>1. \A t2 \in Thread : t2 # t => pc'[t2] = "idle"
    BY <1>1 DEF TypeOK, Begin, Goto
  <2>2. op'[t] = o /\ members' = members /\ Permits(members[Self(t)].role, o)
    BY <1>1 DEF TypeOK, Begin
  <2>3. QED
    BY <2>1, <2>2 DEF CallerPermitted, Self
<1>2. ASSUME NEW t \in Thread, Raise(t) \/ SecretStep(t) \/ PublishKey(t) PROVE CallerPermitted'
  <2>1. /\ pc[t] # "idle"
        /\ Return(t, cache) \/ Return(t, [cache EXCEPT ![ManagerOf[t]] = key[t]])
    BY <1>2 DEF Raise, SecretStep, GetSecret, SaveSecret, UpdateSecret, DeleteSecret,
                PublishKey, At
  <2>2. QED
    BY <2>1, PermitReturn
<1>3. ASSUME NEW t \in Thread, UnlockStep(t) PROVE CallerPermitted'
  <2>1. /\ op' = op /\ pc[t] # "idle" /\ \A t2 \in Thread : t2 # t => pc'[t2] = pc[t2]
        /\ UNCHANGED members \/ Rewrap(t)
    BY <1>3 DEF TypeOK, UnlockStep, UnlockCached, UnlockRow, Rewrap, CacheKey, Goto
  <2>2. QED
    BY <2>1, RewrapRoles, PermitSame
<1>4. ASSUME NEW t \in Thread, MemberStep(t) PROVE CallerPermitted'
  <2>1. CASE ReadRawKey(t)
    BY <2>1, PermitSame DEF TypeOK, ReadRawKey, Goto, At
  <2>2. ASSUME NEW w \in User, NEW r \in Role, NEW g \in 0..MaxGen,
               InsertMember(t, w, r, g) \/ SetMemberRole(t, w, r)
        PROVE  CallerPermitted'
    BY <2>2, PermitReturn DEF InsertMember, SetMemberRole, At
  <2>3. ASSUME NEW w \in User, NEW rotate \in BOOLEAN, RemoveMember(t, w, rotate)
        PROVE  CallerPermitted'
    <3>1. CASE ~rotate
      BY <2>3, <3>1, PermitReturn DEF RemoveMember, At
    <3>2. CASE rotate
      <4>1. op'[t] = "rotate_key" /\ \A t2 \in Thread : t2 # t => pc'[t2] = "idle"
        BY <2>3, <3>2 DEF TypeOK, OneRuns, RemoveMember, Goto, At
      <4>2. members'[Self(t)] = members[Self(t)]
        BY <2>3, SelfType DEF TypeOK, RemoveMember
      <4>3. members[Self(t)].role = "admin"
        BY <2>3 DEF CallerPermitted, RemoveMember, At, Permits
      <4>4. QED
        BY <4>1, <4>2, <4>3 DEF CallerPermitted, Permits, Self
    <3>3. QED
      BY <3>1, <3>2
  <2>4. QED
    BY <1>4, <2>1, <2>2, <2>3, VaultAssumption DEF MemberStep
<1>5. ASSUME NEW t \in Thread, RotateCheck(t) \/ ReadSecrets(t) PROVE CallerPermitted'
  BY <1>5, PermitSame DEF TypeOK, RotateCheck, ReadSecrets, Goto, At
<1>6. ASSUME NEW t \in Thread, RotateCommit(t) PROVE CallerPermitted'
  BY <1>6, CommitRoles, PermitSame DEF TypeOK, RotateCommit, Goto, At
<1>7. ASSUME NEW m \in Manager, Crash(m) PROVE CallerPermitted'
  <2>1. \A t \in Thread : pc'[t] # "idle" => pc[t] # "idle" /\ op'[t] = op[t]
    BY <1>7 DEF Crash
  <2>2. members' = members
    BY <1>7 DEF Crash
  <2>3. QED
    BY <2>1, <2>2, PermitSame
<1>8. ASSUME NEW u \in User, RenewIdentity(u) PROVE CallerPermitted'
  BY <1>8, PermitSame DEF RenewIdentity
<1>9. CASE UNCHANGED vars
  BY <1>9, PermitSame DEF vars
<1>10. QED
  BY <1>1, <1>2, <1>3, <1>4, <1>5, <1>6, <1>7, <1>8, <1>9 DEF Next, RotateStep

\* A command is still permitted when it writes: for commands that run one at a
\* time the check at the start is enough.
THEOREM PermitCorrect ==
    ASSUME Exclusive, LongLived = {}
    PROVE  Spec => []CallerPermitted
<1>1. Init => CallerPermitted
  BY DEF Init, CallerPermitted
<1>2. TypeOK /\ SerialInv /\ CallerPermitted /\ [Next]_vars => CallerPermitted'
  BY PermitNext DEF SerialInv
<1>3. QED
  BY <1>1, <1>2, TypeCorrect, SerialCorrect, PTL DEF Spec

-----------------------------------------------------------------------------
(* Secrets stay readable.                                                  *)

LEMMA MembersSame ==
    ASSUME TypeOK, MembersHoldKeys,
           \A u \in User : members'[u].role = members[u].role /\ members'[u].pub = members[u].pub
    PROVE  MembersHoldKeys'
BY DEF MembersHoldKeys, Member

LEMMA MembersNext ==
    ASSUME TypeOK, CallerPermitted, MembersHoldKeys, ~KeylessAdds, [Next]_vars
    PROVE  MembersHoldKeys'
<1>1. CASE UNCHANGED members
  BY <1>1, MembersSame
<1>2. ASSUME NEW t \in Thread, Rewrap(t) PROVE MembersHoldKeys'
  <2>1. \A u \in User :
          members'[u] \in {members[u], [members[u] EXCEPT !.key = key[t], !.lock = Master(u)]}
    BY <1>2, SelfType DEF TypeOK, Rewrap
  <2>2. \A u \in User : members[u] \in Row
    BY DEF TypeOK
  <2>3. \A u \in User : members'[u].role = members[u].role /\ members'[u].pub = members[u].pub
    BY <2>1, <2>2 DEF Row
  <2>4. QED
    BY <2>3, MembersSame
<1>3. ASSUME NEW t \in Thread, RotateCommit(t) PROVE MembersHoldKeys'
  BY <1>3, CommitRoles, MembersSame
<1>4. ASSUME NEW t \in Thread, NEW w \in User, NEW r \in Role, NEW g \in 0..MaxGen,
             InsertMember(t, w, r, g)
      PROVE  MembersHoldKeys'
  <2> DEFINE l == IF g = 0 THEN Master(Self(t)) ELSE X25519(w, g)
             row == [role |-> r, key |-> key[t], pub |-> g, lock |-> l]
  <2>1. members' = [members EXCEPT ![w] = row] /\ g # 0 /\ r # "none"
    BY <1>4 DEF InsertMember, Role
  <2>2. row.role # "none" /\ row.pub # 0
    BY <2>1
  <2> HIDE DEF row
  <2>3. QED
    BY <2>1, <2>2 DEF MembersHoldKeys, Member, TypeOK
<1>5. ASSUME NEW t \in Thread, NEW w \in User, NEW rotate \in BOOLEAN, RemoveMember(t, w, rotate)
      PROVE  MembersHoldKeys'
  <2>1. members[Self(t)].role = "admin" /\ Self(t) \in User /\ w # Self(t)
    BY <1>5, SelfType DEF CallerPermitted, RemoveMember, At, Permits
  <2>2. members' = [members EXCEPT ![w] = NoRow]
    BY <1>5 DEF RemoveMember
  <2>3. QED
    BY <2>1, <2>2 DEF MembersHoldKeys, Member, TypeOK, NoRow
<1>6. ASSUME NEW t \in Thread, NEW w \in User, NEW r \in Role, SetMemberRole(t, w, r)
      PROVE  MembersHoldKeys'
  <2>1. members' = [members EXCEPT ![w].role = r] /\ r # "none" /\ Member(w)
    BY <1>6 DEF SetMemberRole, Role
  <2>2. \A u \in User : members[u] \in Row
    BY DEF TypeOK
  <2>3. members'[w].role = r /\ members'[w].pub = members[w].pub
    BY <2>1, <2>2 DEF TypeOK, Row
  <2>4. \A u \in User : u # w => members'[u] = members[u]
    BY <2>1 DEF TypeOK
  <2>5. QED
    BY <2>1, <2>3, <2>4 DEF MembersHoldKeys, Member
<1>7. UNCHANGED members
      \/ \E t \in Thread :
           \/ Rewrap(t) \/ RotateCommit(t)
           \/ \E w \in User, r \in Role, g \in 0..MaxGen : InsertMember(t, w, r, g)
           \/ \E w \in User, rotate \in BOOLEAN : RemoveMember(t, w, rotate)
           \/ \E w \in User, r \in Role : SetMemberRole(t, w, r)
  BY DEF Next, vars, Begin, Raise, Crash, RenewIdentity,
         UnlockStep, UnlockCached, UnlockRow, CacheKey,
         SecretStep, GetSecret, SaveSecret, UpdateSecret, DeleteSecret,
         MemberStep, ReadRawKey, RotateStep, RotateCheck, ReadSecrets, PublishKey
<1>8. QED
  BY <1>1, <1>2, <1>3, <1>4, <1>5, <1>6, <1>7

\* An admin never removes himself, so somebody is left who holds the key.
THEOREM MembersCorrect ==
    ASSUME Exclusive, LongLived = {}, ~KeylessAdds
    PROVE  Spec => []MembersHoldKeys
<1>1. Init => MembersHoldKeys
  BY VaultAssumption DEF Init, MembersHoldKeys, Member, NoRow
<1>2. TypeOK /\ CallerPermitted /\ MembersHoldKeys /\ [Next]_vars => MembersHoldKeys'
  BY MembersNext
<1>3. QED
  BY <1>1, <1>2, TypeCorrect, PermitCorrect, PTL DEF Spec

\* No sequence of removals, role changes and rotations makes a secret unreadable
\* for everybody: some member opens a row with the key it is stored under.
THEOREM SecretsStayReadable ==
    ASSUME Exclusive, LongLived = {}, ~KeylessAdds, MaxGen = 1
    PROVE  Spec => []SecretsRecoverable
<1>1. MembersHoldKeys /\ HoldersReachCurrentKey /\ SecretsUnderCurrentKey => SecretsRecoverable
  BY DEF MembersHoldKeys, HoldersReachCurrentKey, SecretsUnderCurrentKey, SecretsRecoverable
<1>2. QED
  BY <1>1, MembersCorrect, HoldersKeepAccess, RotationIsComplete, PTL

-----------------------------------------------------------------------------
(* Refinement of TeamVault.                                                *)

\* With every secret under the newest key, what members see is what is stored.
LEMMA SeenValue ==
    ASSUME SecretsUnderCurrentKey, NEW s \in SecretId PROVE Seen(s) = secrets[s].val
BY DEF SecretsUnderCurrentKey, Seen

\* The same for what they see after the step.
LEMMA SeenValueNext ==
    ASSUME SecretsUnderCurrentKey', NEW s \in SecretId PROVE Seen(s)' = secrets'[s].val
BY DEF SecretsUnderCurrentKey, Seen, Live

\* A step that keeps the values and the roles is invisible.
LEMMA Invisible ==
    ASSUME SecretsUnderCurrentKey, SecretsUnderCurrentKey',
           \A s \in SecretId : secrets'[s].val = secrets[s].val,
           \A u \in User : members'[u].role = members[u].role
    PROVE  UNCHANGED Abstract!avars
<1>1. \A s \in SecretId : Seen(s)' = Seen(s)
  BY SeenValue, SeenValueNext
<1>2. [s \in SecretId |-> Seen(s)]' = [s \in SecretId |-> Seen(s)]
  BY <1>1
<1>3. [u \in User |-> members[u].role]' = [u \in User |-> members[u].role]
  OBVIOUS
<1>4. QED
  BY <1>2, <1>3 DEF Abstract!avars

\* What a step that writes one secret or one row looks like from above.
LEMMA SeenWrite ==
    ASSUME TypeOK, SecretsUnderCurrentKey, SecretsUnderCurrentKey',
           NEW s \in SecretId, NEW c, secrets' = [secrets EXCEPT ![s] = c]
    PROVE  [r \in SecretId |-> Seen(r)]' = [[r \in SecretId |-> Seen(r)] EXCEPT ![s] = c.val]
<1>1. \A r \in SecretId : Seen(r)' = IF r = s THEN c.val ELSE Seen(r)
  BY SeenValue, SeenValueNext DEF TypeOK
<1>2. QED
  BY <1>1

LEMMA RoleWrite ==
    ASSUME TypeOK, NEW w \in User, NEW r,
           \A u \in User : members'[u].role = IF u = w THEN r ELSE members[u].role
    PROVE  [u \in User |-> members[u].role]' = [[u \in User |-> members[u].role] EXCEPT ![w] = r]
OBVIOUS

LEMMA SecretRefines ==
    ASSUME TypeOK, CallerPermitted, SecretsUnderCurrentKey, SecretsUnderCurrentKey',
           NEW t \in Thread, SecretStep(t)
    PROVE  [Abstract!ANext]_(Abstract!avars)
<1> DEFINE content == [s \in SecretId |-> Seen(s)]
           roles == [u \in User |-> members[u].role]
<1>1. CASE GetSecret(t)
  BY <1>1, Invisible DEF GetSecret
<1>2. Self(t) \in User /\ \A s \in SecretId : content[s] = secrets[s].val
  BY SelfType, SeenValue
<1>3. ASSUME op[t] \in {"create_secret", "update_secret", "delete_secret"}, pc[t] = "work"
      PROVE  roles[Self(t)] \in Abstract!Writer
  BY <1>2, <1>3 DEF CallerPermitted, Permits, Abstract!Writer
<1>4. ASSUME NEW s \in SecretId, NEW v \in Value, SaveSecret(t, s, v)
      PROVE  Abstract!Save(Self(t), s, v)
  <2> DEFINE c == [val |-> v, key |-> key[t]]
  <2>0. secrets' = [secrets EXCEPT ![s] = c] /\ c.val = v
    BY <1>4 DEF SaveSecret
  <2> HIDE DEF c
  <2>1. content' = [content EXCEPT ![s] = v]
    BY <2>0, SeenWrite
  <2>2. roles[Self(t)] \in Abstract!Writer /\ content[s] = Absent /\ roles' = roles
    BY <1>2, <1>3, <1>4 DEF SaveSecret, At
  <2>3. QED
    BY <2>1, <2>2 DEF Abstract!Save
<1>5. ASSUME NEW s \in SecretId, NEW v \in Value, UpdateSecret(t, s, v)
      PROVE  Abstract!Update(Self(t), s, v)
  <2> DEFINE c == [val |-> v, key |-> key[t]]
  <2>0. secrets' = [secrets EXCEPT ![s] = c] /\ c.val = v
    BY <1>5 DEF UpdateSecret
  <2> HIDE DEF c
  <2>1. content' = [content EXCEPT ![s] = v]
    BY <2>0, SeenWrite
  <2>2. roles[Self(t)] \in Abstract!Writer /\ content[s] \in Value /\ roles' = roles
    BY <1>2, <1>3, <1>5 DEF UpdateSecret, At, Live
  <2>3. QED
    BY <2>1, <2>2 DEF Abstract!Update
<1>6. ASSUME NEW s \in SecretId, DeleteSecret(t, s) PROVE Abstract!Delete(Self(t), s)
  <2> DEFINE c == [val |-> Gone, key |-> 0]
  <2>0. secrets' = [secrets EXCEPT ![s] = c] /\ c.val = Gone
    BY <1>6 DEF DeleteSecret
  <2> HIDE DEF c
  <2>1. content' = [content EXCEPT ![s] = Gone]
    BY <2>0, SeenWrite
  <2>2. roles[Self(t)] \in Abstract!Writer /\ content[s] \in Value /\ roles' = roles
    BY <1>2, <1>3, <1>6 DEF DeleteSecret, At, Live
  <2>3. QED
    BY <2>1, <2>2 DEF Abstract!Delete
<1>7. QED
  BY <1>1, <1>2, <1>4, <1>5, <1>6 DEF SecretStep, Abstract!ANext

LEMMA MemberRefines ==
    ASSUME TypeOK, CallerPermitted, SecretsUnderCurrentKey, SecretsUnderCurrentKey',
           NEW t \in Thread, MemberStep(t)
    PROVE  [Abstract!ANext]_(Abstract!avars)
<1> DEFINE content == [s \in SecretId |-> Seen(s)]
           roles == [u \in User |-> members[u].role]
<1>1. CASE ReadRawKey(t)
  BY <1>1, Invisible DEF ReadRawKey
<1>2. Self(t) \in User /\ \A u \in User : members[u] \in Row
  BY SelfType DEF TypeOK
<1>3. ASSUME op[t] \in {"add_member", "remove_member", "set_role"}, pc[t] # "idle"
      PROVE  roles[Self(t)] = "admin"
  BY <1>2, <1>3 DEF CallerPermitted, Permits
<1>4. ASSUME UNCHANGED <<secrets, keyCount>> PROVE content' = content
  BY <1>4 DEF Seen, Live
<1>5. ASSUME NEW w \in User, NEW r \in Role, NEW g \in 0..MaxGen, InsertMember(t, w, r, g)
      PROVE  Abstract!Grant(Self(t), w, r)
  <2>1. \A u \in User : members'[u].role = IF u = w THEN r ELSE members[u].role
    BY <1>5 DEF TypeOK, InsertMember
  <2>2. roles' = [roles EXCEPT ![w] = r]
    BY <2>1, RoleWrite
  <2>3. roles[Self(t)] = "admin" /\ content' = content
    BY <1>3, <1>4, <1>5 DEF InsertMember, At
  <2>4. QED
    BY <2>2, <2>3 DEF Abstract!Grant
<1>6. ASSUME NEW w \in User, NEW r \in Role, SetMemberRole(t, w, r)
      PROVE  Abstract!Grant(Self(t), w, r)
  <2>1. \A u \in User : members'[u].role = IF u = w THEN r ELSE members[u].role
    BY <1>2, <1>6 DEF TypeOK, Row, SetMemberRole
  <2>2. roles' = [roles EXCEPT ![w] = r]
    BY <2>1, RoleWrite
  <2>3. roles[Self(t)] = "admin" /\ content' = content
    BY <1>3, <1>4, <1>6 DEF SetMemberRole, At
  <2>4. QED
    BY <2>2, <2>3 DEF Abstract!Grant
<1>7. ASSUME NEW w \in User, NEW rotate \in BOOLEAN, RemoveMember(t, w, rotate)
      PROVE  Abstract!Expel(Self(t), w)
  <2>1. \A u \in User : members'[u].role = IF u = w THEN "none" ELSE members[u].role
    BY <1>7 DEF TypeOK, RemoveMember, NoRow
  <2>2. roles' = [roles EXCEPT ![w] = "none"]
    BY <2>1, RoleWrite
  <2>3. roles[Self(t)] = "admin" /\ content' = content /\ w # Self(t)
    BY <1>3, <1>4, <1>7 DEF RemoveMember, At
  <2>4. QED
    BY <2>2, <2>3 DEF Abstract!Expel
<1>8. QED
  BY <1>1, <1>2, <1>5, <1>6, <1>7 DEF MemberStep, Abstract!ANext, Role, Abstract!Role

\* A rotation writes back what it fetched, which nobody has changed since.
LEMMA RotateInvisible ==
    ASSUME TypeOK, SerialInv, SerialInv', NEW t \in Thread, RotateCommit(t)
    PROVE  UNCHANGED Abstract!avars
<1>1. snap[t] = secrets
  BY DEF SerialInv, SnapFresh, RotateCommit
<1>2. \A s \in SecretId : secrets'[s].val = secrets[s].val
  BY <1>1 DEF RotateCommit, Reencrypted
<1>3. QED
  BY <1>2, CommitRoles, Invisible DEF SerialInv

LEMMA VaultStep ==
    ASSUME TypeOK, SerialInv, SerialInv', CallerPermitted, [Next]_vars
    PROVE  [Abstract!ANext]_(Abstract!avars)
<1>1. SecretsUnderCurrentKey /\ SecretsUnderCurrentKey'
  BY DEF SerialInv
<1>2. CASE UNCHANGED <<members, secrets>>
  BY <1>1, <1>2, Invisible
<1>3. ASSUME NEW t \in Thread, UnlockStep(t) PROVE [Abstract!ANext]_(Abstract!avars)
  <2>1. secrets' = secrets /\ (UNCHANGED members \/ Rewrap(t))
    BY <1>3 DEF UnlockStep, UnlockCached, UnlockRow, Rewrap, CacheKey
  <2>2. QED
    BY <1>1, <2>1, RewrapRoles, Invisible
<1>4. ASSUME NEW t \in Thread, RotateStep(t) PROVE [Abstract!ANext]_(Abstract!avars)
  <2>1. UNCHANGED <<members, secrets>> \/ RotateCommit(t)
    BY <1>4 DEF RotateStep, RotateCheck, ReadSecrets, PublishKey
  <2>2. QED
    BY <1>2, <2>1, RotateInvisible
<1>5. QED
  BY <1>1, <1>2, <1>3, <1>4, SecretRefines, MemberRefines
     DEF Next, vars, Begin, Raise, Crash, RenewIdentity

\* To its members a vault whose commands run one at a time is a map from ids to
\* values, and a role each, that change in one step and only by permission: keys,
\* rotations, unlocks, failures and crashes are invisible.
THEOREM VaultImplements ==
    ASSUME Exclusive, LongLived = {}
    PROVE  Spec => ImplementsTeamVault
<1>1. Init => Abstract!AInit
  <2>1. SUFFICES ASSUME Init PROVE Abstract!AInit
    OBVIOUS
  <2>2. \A s \in SecretId : Seen(s) = Absent
    BY <2>1, VaultAssumption DEF Init, NoCells, Seen, Live
  <2>3. \A u \in User : members[u].role = IF u = Founder THEN "admin" ELSE "none"
    BY <2>1 DEF Init, NoRow
  <2>4. QED
    BY <2>2, <2>3 DEF Abstract!AInit
<1>2. TypeOK /\ SerialInv /\ SerialInv' /\ CallerPermitted /\ [Next]_vars
      => [Abstract!ANext]_(Abstract!avars)
  BY VaultStep
<1>3. QED
  BY <1>1, <1>2, TypeCorrect, SerialCorrect, PermitCorrect, PTL
     DEF Spec, ImplementsTeamVault, Abstract!ASpec

=============================================================================
