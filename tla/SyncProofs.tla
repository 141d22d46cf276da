----------------------------- MODULE SyncProofs -----------------------------
(***************************************************************************)
(* What is proved of modules Sync and SyncServer for any clients, handlers *)
(* and tokens, whatever is lost, repeated or interrupted.                  *)
(***************************************************************************)
EXTENDS Sync, TLAPS

-----------------------------------------------------------------------------
(* The server's side of a step.                                            *)

LEMMA FailedType ==
    ASSUME NEW code \in {304, 401, 404, 500}
    PROVE  /\ Failed(code) \in Result /\ Failed(code).code = code
           /\ Failed(code).version = 0 /\ Failed(code).blob = 0
BY ServerAssumption DEF Failed, NoResult, Result

LEMMA NoneType == NoResult \in Result /\ NoResult.code = 0 /\ NoRequest \in Request
BY ServerAssumption DEF NoResult, Result, NoRequest, Request

LEMMA EnterEffect ==
    ASSUME ServerTypeOK, NEW h \in Handler, NEW p, NEW r, Enter(h, p, r)
    PROVE  /\ phase'[h] = p /\ result'[h] = r
           /\ \A g \in Handler : g # h => phase'[g] = phase[g] /\ result'[g] = result[g]
           /\ p \in HandlerPhase => phase' \in [Handler -> HandlerPhase]
           /\ r \in Result => result' \in [Handler -> Result]
BY DEF Enter, ServerTypeOK

\* What a handler does with the request it has: it comes to phase p with r.
Handles(h, p, r) ==
    /\ phase[h] \in {"push", "write", "pull"}
    /\ Enter(h, p, r)
    /\ UNCHANGED <<revoked, request>>

\* An answer is of the row as it is after the step.
HandlerKind(h, r) ==
    \/ /\ Handles(h, "write", r) /\ UNCHANGED <<stored, version>>
       /\ phase[h] = "push" /\ r = [code |-> 0, version |-> version, blob |-> stored]
       /\ stored # request[h].blob \/ version = 0
    \/ /\ Handles(h, "done", r)
       /\ \/ r.code # 200
          \/ r = [code |-> 200, version |-> version', blob |-> stored']
       /\ \/ /\ UNCHANGED <<stored, version>>
             /\ r.code = 200 => version # 0 /\ (phase[h] = "pull" \/ stored = request[h].blob)
          \/ /\ phase[h] = "write" /\ stored' = request[h].blob
             /\ version' = result[h].version + 1 /\ version' <= MaxVersion
             /\ result[h].version = 0 => version = 0

LEMMA HandlerKinds ==
    ASSUME ServerTypeOK, NEW h \in Handler, HandlerStep(h)
    PROVE  \E r \in Result : HandlerKind(h, r)
<1>1. \A v \in 0..MaxVersion, b \in 0..MaxBlob, code \in {0, 200} :
        [code |-> code, version |-> v, blob |-> b] \in Result
  BY DEF Result
<1>2. stored \in 0..MaxBlob /\ version \in 0..MaxVersion /\ request[h].blob \in 0..MaxBlob
  BY DEF ServerTypeOK, Request
<1>3. ASSUME NEW code \in {304, 404, 500}, Enter(h, "done", Failed(code)),
             phase[h] \in {"push", "write", "pull"}, UNCHANGED <<stored, version, revoked, request>>
      PROVE  \E r \in Result : HandlerKind(h, r)
  BY <1>3, FailedType DEF HandlerKind, Handles
<1>4. CASE SelectVersion(h)
  <2>1. CASE version # 0 /\ stored = request[h].blob
    <3>1. CASE Enter(h, "done", [code |-> 200, version |-> version, blob |-> stored])
      BY <1>1, <1>2, <1>4, <2>1, <3>1 DEF SelectVersion, HandlerKind, Handles
    <3>2. CASE Enter(h, "done", Failed(500))
      BY <1>3, <1>4, <3>2 DEF SelectVersion
    <3>3. QED
      BY <1>4, <2>1, <3>1, <3>2 DEF SelectVersion, Answer
  <2>2. CASE ~(version # 0 /\ stored = request[h].blob)
    BY <1>1, <1>2, <1>4, <2>2 DEF SelectVersion, HandlerKind, Handles
  <2>3. QED
    BY <2>1, <2>2
<1>5. CASE WriteRow(h)
  <2> DEFINE v == result[h].version + 1
  <2>1. v \in 0..MaxVersion /\ version' = v /\ stored' = request[h].blob
    BY <1>5, ServerAssumption DEF WriteRow, ServerTypeOK, Result
  <2>2. CASE Enter(h, "done", [code |-> 200, version |-> v, blob |-> request[h].blob])
    BY <1>1, <1>2, <1>5, <2>1, <2>2 DEF WriteRow, HandlerKind, Handles
  <2>3. CASE Enter(h, "done", Failed(500))
    BY <1>5, <2>1, <2>3, FailedType DEF WriteRow, HandlerKind, Handles
  <2>4. QED
    BY <1>5, <2>2, <2>3 DEF WriteRow, Answer
<1>6. CASE ReadRow(h)
  <2>1. CASE Enter(h, "done", [code |-> 200, version |-> version, blob |-> stored]) /\ version # 0
    BY <1>1, <1>2, <1>6, <2>1 DEF ReadRow, HandlerKind, Handles
  <2>2. ASSUME NEW code \in {304, 404, 500}, Enter(h, "done", Failed(code))
        PROVE  \E r \in Result : HandlerKind(h, r)
    BY <1>3, <1>6, <2>2 DEF ReadRow
  <2>3. QED
    BY <1>6, <2>1, <2>2 DEF ReadRow, Answer
<1>7. CASE HandlerFails(h)
  BY <1>3, <1>7 DEF HandlerFails
<1>8. QED
  BY <1>4, <1>5, <1>6, <1>7 DEF HandlerStep

\* A request that a client may send.
Sound(r) ==
    /\ r \in Request /\ r.kind \in {"push", "pull"}
    /\ r.blob \in 0..Len(bundles') /\ (r.kind = "push" => r.blob # 0)

LEMMA BundlesGrow ==
    ASSUME TypeOK, [Next]_vars
    PROVE  /\ bundles' \in Seq(Bundle) /\ Len(bundles') <= MaxBlob /\ Len(bundles) <= Len(bundles')
           /\ \A n \in Exported : n \in Exported' /\ bundles'[n] = bundles[n]
<1>1. CASE bundles' = bundles
  BY <1>1 DEF TypeOK, Exported
<1>2. ASSUME NEW c \in Client, NEW h \in Handler, Push(c, h)
      PROVE  /\ bundles' \in Seq(Bundle) /\ Len(bundles') = Len(bundles) + 1 /\ Len(bundles') <= MaxBlob
             /\ \A n \in Exported : bundles'[n] = bundles[n]
  <2> DEFINE b == [lock |-> token[c], secrets |-> local[c]]
  <2>1. b \in Bundle
    BY <1>2 DEF Push, TypeOK, Bundle
  <2>2. bundles' = Append(bundles, b) /\ Len(bundles) + 1 <= MaxBlob
    BY <1>2 DEF Push
  <2> HIDE DEF b
  <2>3. QED
    BY <2>1, <2>2 DEF TypeOK, Exported
<1>3. bundles' = bundles \/ \E c \in Client, h \in Handler : Push(c, h)
  BY DEF Next, vars, clientVars, ClientNext, Configure, Add, Update, Delete, Stamp, Edit,
     PushAnswered, Pull, PullAnswered, RecordPull, GiveUp, ServerStep, Restart, DropAnswer, RepeatPush
<1>4. CASE \E c \in Client, h \in Handler : Push(c, h)
  <2>1. /\ bundles' \in Seq(Bundle) /\ Len(bundles') = Len(bundles) + 1 /\ Len(bundles') <= MaxBlob
        /\ \A n \in Exported : bundles'[n] = bundles[n]
    BY <1>2, <1>4
  <2>2. QED
    BY <2>1 DEF TypeOK, Exported
<1>5. QED
  BY <1>1, <1>3, <1>4

LEMMA KnownSound ==
    ASSUME TypeOK, HadInv, NEW c \in Client
    PROVE  Known(c) \in 0..Len(bundles)
BY DEF Known, HadInv, Exported, TypeOK

LEMMA ServerKinds ==
    ASSUME TypeOK, KnownInv, [Next]_vars
    PROVE  \/ UNCHANGED serverVars
           \/ \E h \in Handler : \/ HandlerStep(h) \/ Release(h)
                                 \/ \E r : Sound(r) /\ Receive(h, r)
           \/ \E k \in Token : Revoke(k)
           \/ ServerRestart
<1>1. Len(bundles) \in Nat /\ Len(bundles') \in Nat /\ Len(bundles) <= Len(bundles') /\ Len(bundles') <= MaxBlob
  BY BundlesGrow DEF TypeOK
<1>2. ASSUME NEW c \in Client, NEW h \in Handler, Push(c, h)
      PROVE  \E r : Sound(r) /\ Receive(h, r)
  <2> DEFINE r == [kind |-> "push", token |-> token[c], blob |-> Len(bundles) + 1]
  <2>1. Len(bundles') = Len(bundles) + 1
    BY <1>2 DEF Push, TypeOK
  <2>2. Len(bundles) + 1 \in 0..MaxBlob
    BY <1>1, <2>1, ServerAssumption
  <2>3. Sound(r)
    BY <1>1, <2>1, <2>2 DEF Sound, Request, TypeOK
  <2>4. Receive(h, r)
    BY <1>2 DEF Push
  <2>5. QED
    BY <2>3, <2>4
<1>3. ASSUME NEW c \in Client, NEW h \in Handler, NEW auto \in BOOLEAN, Pull(c, h, auto)
      PROVE  \E r : Sound(r) /\ Receive(h, r)
  <2> DEFINE b == IF auto THEN Known(c) ELSE 0
             r == [kind |-> "pull", token |-> token[c], blob |-> b]
  <2>1. b \in 0..Len(bundles)
    BY <1>1, KnownSound DEF KnownInv
  <2>2. Receive(h, r)
    BY <1>3 DEF Pull
  <2> HIDE DEF b
  <2>3. Sound(r)
    BY <1>1, <2>1, ServerAssumption DEF Sound, Request, TypeOK
  <2>4. QED
    BY <2>2, <2>3
<1>4. ASSUME NEW g \in Handler, NEW h \in Handler, RepeatPush(g, h)
      PROVE  \E r : Sound(r) /\ Receive(h, r)
  <2>1. Sound(request[g]) /\ Receive(h, request[g])
    BY <1>1, <1>4 DEF RepeatPush, Sound, KnownInv, AnswerInv, Exported, TypeOK, ServerTypeOK, Request
  <2>2. QED
    BY <2>1
<1>5. ASSUME NEW c \in Client, Answered(c) PROVE \E h \in Handler : Release(h)
  BY <1>5 DEF Answered, TypeOK
<1>6. ASSUME NEW c \in Client, ClientNext(c)
      PROVE  \/ UNCHANGED serverVars
             \/ \E h \in Handler : \/ HandlerStep(h) \/ Release(h)
                                   \/ \E r : Sound(r) /\ Receive(h, r)
  <2>1. ASSUME PushAnswered(c) \/ \E overwrite \in BOOLEAN : PullAnswered(c, overwrite)
        PROVE  \E h \in Handler : Release(h)
    BY <1>5, <2>1 DEF PushAnswered, PullAnswered
  <2>2. ASSUME \/ \E k \in Token : Configure(c, k)
               \/ \E i \in Id : Add(c, i) \/ Update(c, i) \/ Delete(c, i)
               \/ RecordPull(c) \/ GiveUp(c)
        PROVE  UNCHANGED serverVars
    BY <2>2 DEF Configure, Add, Update, Delete, Stamp, Edit, RecordPull, GiveUp
  <2>3. QED
    BY <1>2, <1>3, <1>6, <2>1, <2>2 DEF ClientNext
<1>7. QED
  BY <1>4, <1>6 DEF Next, vars, ServerStep, Restart, DropAnswer

LEMMA ServerType ==
    ASSUME TypeOK, KnownInv, [Next]_vars PROVE ServerTypeOK'
<1>1. ServerTypeOK
  BY DEF TypeOK
<1>2. ASSUME NEW h \in Handler, HandlerStep(h) PROVE ServerTypeOK'
  <2>1. PICK r \in Result : HandlerKind(h, r)
    BY <1>1, <1>2, HandlerKinds
  <2>2. /\ phase' \in [Handler -> HandlerPhase] /\ result' \in [Handler -> Result]
        /\ UNCHANGED <<revoked, request>>
    BY <1>1, <2>1, EnterEffect DEF HandlerKind, Handles, HandlerPhase
  <2>3. stored' \in 0..MaxBlob /\ version' \in 0..MaxVersion
    BY <1>1, <2>1, ServerAssumption DEF HandlerKind, ServerTypeOK, Request, Result
  <2>4. QED
    BY <1>1, <2>2, <2>3 DEF ServerTypeOK
<1>3. ASSUME NEW h \in Handler, Release(h) PROVE ServerTypeOK'
  <2>1. phase' \in [Handler -> HandlerPhase] /\ result' \in [Handler -> Result]
    BY <1>1, <1>3, NoneType, EnterEffect DEF Release, HandlerPhase
  <2>2. request' \in [Handler -> Request]
    BY <1>1, <1>3, NoneType DEF Release, ServerTypeOK
  <2>3. QED
    BY <1>1, <1>3, <2>1, <2>2 DEF Release, ServerTypeOK
<1>4. ASSUME NEW h \in Handler, NEW r, Sound(r), Receive(h, r) PROVE ServerTypeOK'
  <2>1. /\ phase' \in [Handler -> HandlerPhase] /\ result' \in [Handler -> Result]
    BY <1>1, <1>4, NoneType, FailedType, EnterEffect DEF Receive, Sound, HandlerPhase
  <2>2. request' \in [Handler -> Request]
    BY <1>1, <1>4 DEF Receive, Sound, ServerTypeOK
  <2>3. QED
    BY <1>1, <1>4, <2>1, <2>2 DEF Receive, ServerTypeOK
<1>5. ASSUME NEW k \in Token, Revoke(k) PROVE ServerTypeOK'
  BY <1>1, <1>5 DEF Revoke, ServerTypeOK
<1>6. CASE ServerRestart
  BY <1>1, <1>6, NoneType DEF ServerRestart, ServerTypeOK, HandlerPhase
<1>7. CASE UNCHANGED serverVars
  BY <1>1, <1>7 DEF serverVars, ServerTypeOK
<1>8. QED
  BY <1>2, <1>3, <1>4, <1>5, <1>6, <1>7, ServerKinds

LEMMA AnswerStep ==
    ASSUME TypeOK, KnownInv, [Next]_vars PROVE AnswerInv'
<1>1. ServerTypeOK /\ Len(bundles) \in Nat /\ Len(bundles') \in Nat /\ Len(bundles) <= Len(bundles')
  BY BundlesGrow DEF TypeOK
<1>2. AnswerInv /\ Exported \subseteq Exported'
  BY <1>1 DEF KnownInv, Exported
<1> HIDE DEF Exported
<1>3. ASSUME NEW h \in Handler, HandlerStep(h) PROVE AnswerInv'
  <2>1. PICK r \in Result : HandlerKind(h, r)
    BY <1>1, <1>3, HandlerKinds
  <2>2. /\ phase'[h] \in {"write", "done"} /\ result'[h] = r /\ request' = request
        /\ \A g \in Handler : g # h => phase'[g] = phase[g] /\ result'[g] = result[g]
    BY <1>1, <2>1, EnterEffect DEF HandlerKind, Handles
  <2>3. stored' \in Exported' \cup {0} /\ (stored' = 0 <=> version' = 0)
    <3>1. CASE UNCHANGED <<stored, version>>
      BY <1>2, <3>1 DEF AnswerInv
    <3>2. CASE phase[h] = "write" /\ stored' = request[h].blob /\ version' = result[h].version + 1
      BY <1>1, <1>2, <3>2, ServerAssumption DEF AnswerInv, ServerTypeOK, Result, Exported
    <3>3. QED
      BY <2>1, <3>1, <3>2 DEF HandlerKind
  <2>4. r.code = 200 => /\ phase'[h] = "done" /\ r.blob \in Exported'
                        /\ request[h].kind = "push" => r.blob = request[h].blob
    <3>1. r.code = 200 => /\ Handles(h, "done", r) /\ r.blob = stored' /\ version' # 0
                          /\ phase[h] = "pull" \/ stored' = request[h].blob
      BY <1>1, <2>1, ServerAssumption DEF HandlerKind, ServerTypeOK, Result
    <3>2. QED
      BY <1>1, <1>2, <2>2, <2>3, <3>1, EnterEffect DEF Handles, AnswerInv
  <2>5. phase'[h] = "write" => request[h].kind = "push"
    BY <1>1, <1>2, <2>1, EnterEffect DEF HandlerKind, Handles, AnswerInv
  <2>6. QED
    BY <1>2, <2>2, <2>3, <2>4, <2>5 DEF AnswerInv
<1>4. ASSUME NEW h \in Handler, Release(h) PROVE AnswerInv'
  <2>1. /\ phase'[h] = "free" /\ result'[h] = NoResult /\ request'[h] = NoRequest
        /\ \A g \in Handler : g # h =>
             phase'[g] = phase[g] /\ result'[g] = result[g] /\ request'[g] = request[g]
        /\ UNCHANGED <<stored, version>>
    BY <1>1, <1>4, EnterEffect DEF Release, ServerTypeOK
  <2>2. QED
    BY <1>2, <2>1 DEF AnswerInv, NoResult, NoRequest
<1>5. ASSUME NEW h \in Handler, NEW r, Sound(r), Receive(h, r) PROVE AnswerInv'
  <2>1. /\ phase'[h] \in {"done", r.kind} /\ result'[h].code # 200 /\ request'[h] = r
        /\ \A g \in Handler : g # h =>
             phase'[g] = phase[g] /\ result'[g] = result[g] /\ request'[g] = request[g]
        /\ UNCHANGED <<stored, version>>
    BY <1>1, <1>5, EnterEffect, FailedType, NoneType DEF Receive, ServerTypeOK
  <2>2. r.blob \in Exported' \cup {0}
    BY <1>1, <1>5 DEF Sound, Exported
  <2>3. QED
    BY <1>2, <1>5, <2>1, <2>2 DEF AnswerInv, Sound
<1>6. ASSUME NEW k \in Token, Revoke(k) PROVE AnswerInv'
  BY <1>2, <1>6 DEF Revoke, AnswerInv
<1>7. CASE ServerRestart
  BY <1>2, <1>7 DEF ServerRestart, AnswerInv, NoRequest, NoResult
<1>8. CASE UNCHANGED serverVars
  BY <1>2, <1>8 DEF serverVars, AnswerInv
<1>9. QED
  BY <1>3, <1>4, <1>5, <1>6, <1>7, <1>8, ServerKinds

-----------------------------------------------------------------------------
(* The clients' side of a step.                                            *)

\* The tables of clients change by an edit or an import.
LEMMA TableKinds ==
    ASSUME [Next]_vars
    PROVE  \/ UNCHANGED <<local, gone, clock>>
           \/ \E c \in Client :
                \/ \E i \in Id : Add(c, i) \/ Update(c, i) \/ Delete(c, i)
                \/ /\ \E overwrite \in BOOLEAN : Import(c, result[conn[c]].blob, overwrite)
                   /\ step[c] = "pulling" /\ result[conn[c]].code = 200 /\ UNCHANGED clock
<1>1. ASSUME NEW c \in Client, NEW overwrite \in BOOLEAN, PullAnswered(c, overwrite)
      PROVE  \/ UNCHANGED <<local, gone, clock>>
             \/ /\ Import(c, result[conn[c]].blob, overwrite)
                /\ step[c] = "pulling" /\ result[conn[c]].code = 200 /\ UNCHANGED clock
  BY <1>1 DEF PullAnswered
<1>2. CASE ~\E c \in Client, overwrite \in BOOLEAN : PullAnswered(c, overwrite)
  BY <1>2 DEF Next, vars, clientVars, ClientNext, Configure, Push, PushAnswered, Pull, RecordPull,
     GiveUp, ServerStep, Restart, DropAnswer, RepeatPush
<1>3. QED
  BY <1>1, <1>2

\* What an edit or an import leaves of the table of d.
LEMMA TableStep ==
    ASSUME TypeOK, KnownInv, [Next]_vars
    PROVE  /\ local' \in [Client -> Content] /\ gone' \in [Client -> SUBSET Id] /\ clock' \in Revision
           /\ \A d \in Client, i \in Id :
                local[d][i] # 0 \/ i \in gone[d] => local'[d][i] # 0 \/ i \in gone'[d]
<1> DEFINE Keeps == \A d \in Client, i \in Id :
             local[d][i] # 0 \/ i \in gone[d] => local'[d][i] # 0 \/ i \in gone'[d]
           Goal == /\ local' \in [Client -> Content] /\ gone' \in [Client -> SUBSET Id]
                   /\ clock' \in Revision /\ Keeps
<1>1. local \in [Client -> Content] /\ gone \in [Client -> SUBSET Id] /\ clock \in Revision
  BY DEF TypeOK
<1>2. ASSUME NEW c \in Client, NEW i \in Id, NEW r \in Revision,
             local' = [local EXCEPT ![c][i] = r],
             (r # 0 /\ gone' = gone) \/ gone' = [gone EXCEPT ![c] = @ \cup {i}]
      PROVE  local' \in [Client -> Content] /\ gone' \in [Client -> SUBSET Id] /\ Keeps
  BY <1>1, <1>2 DEF Content
<1>3. ASSUME NEW c \in Client, NEW i \in Id, Stamp(c, i) PROVE Goal
  <2>1. clock + 1 \in Revision /\ clock + 1 # 0
    BY <1>1, <1>3, SyncAssumption DEF Stamp, Revision
  <2>2. local' = [local EXCEPT ![c][i] = clock + 1] /\ gone' = gone /\ clock' = clock + 1
    BY <1>3 DEF Stamp, Edit
  <2>3. QED
    BY <1>2, <2>1, <2>2
<1>4. ASSUME NEW c \in Client, NEW i \in Id, Delete(c, i) PROVE Goal
  <2>1. 0 \in Revision
    BY SyncAssumption DEF Revision
  <2>2. local' = [local EXCEPT ![c][i] = 0] /\ gone' = [gone EXCEPT ![c] = @ \cup {i}] /\ clock' = clock
    BY <1>4 DEF Delete, Edit
  <2>3. QED
    BY <1>1, <1>2, <2>1, <2>2
<1>5. ASSUME NEW c \in Client, NEW overwrite \in BOOLEAN, NEW n \in Exported,
             Import(c, n, overwrite), UNCHANGED clock
      PROVE  Goal
  <2>1. PICK failed \in SUBSET Fragile :
          LET theirs == [i \in Id |-> IF i \in failed THEN 0 ELSE bundles[n].secrets[i]]
          IN  /\ local' = [local EXCEPT ![c] = [i \in Id |-> Imported(@[i], theirs[i], overwrite)]]
              /\ gone' = [gone EXCEPT ![c] = {i \in @ : theirs[i] = 0}]
    BY <1>5 DEF Import
  <2> DEFINE theirs == [i \in Id |-> IF i \in failed THEN 0 ELSE bundles[n].secrets[i]]
             mine == [i \in Id |-> Imported(local[c][i], theirs[i], overwrite)]
  <2>2. bundles[n].secrets \in Content
    <3>1. bundles[n] \in Bundle
      BY DEF TypeOK, Exported
    <3>2. QED
      BY <3>1 DEF Bundle
  <2>3. \A i \in Id : theirs[i] \in Revision
    BY <2>2, SyncAssumption DEF Content, Revision
  <2>4. local' = [local EXCEPT ![c] = mine] /\ gone' = [gone EXCEPT ![c] = {i \in @ : theirs[i] = 0}]
    BY <2>1
  <2> HIDE DEF theirs
  <2>5. mine \in Content
    BY <1>1, <2>3 DEF Content, Imported
  <2>6. \A i \in Id : local[c][i] # 0 \/ theirs[i] # 0 => mine[i] # 0
    BY DEF Imported
  <2> HIDE DEF mine
  <2>7. local' \in [Client -> Content] /\ gone' \in [Client -> SUBSET Id]
    BY <1>1, <2>4, <2>5
  <2>8. Keeps
    BY <1>1, <2>4, <2>6
  <2>9. QED
    BY <1>1, <1>5, <2>7, <2>8
<1>6. CASE UNCHANGED <<local, gone, clock>>
  BY <1>1, <1>6
\* A client that is told of a bundle has a thread of its own, which knows it.
<1>7. ASSUME NEW c \in Client, step[c] = "pulling", result[conn[c]].code = 200
      PROVE  result[conn[c]].blob \in Exported
  BY <1>7 DEF KnownInv, ConnInv, AnswerInv, TypeOK
<1> HIDE DEF Goal
<1>8. ASSUME NEW c \in Client, NEW i \in Id, Add(c, i) \/ Update(c, i) PROVE Goal
  BY <1>3, <1>8 DEF Add, Update
<1>9. Goal
  BY <1>4, <1>5, <1>6, <1>7, <1>8, TableKinds DEF Goal
<1>10. QED
  BY <1>9 DEF Goal

\* What a client has had of a bundle it goes on having.
LEMMA HadStays ==
    ASSUME TypeOK, KnownInv, [Next]_vars, NEW c \in Client, NEW n \in Exported, Had(c, n)
    PROVE  n \in Exported' /\ Had(c, n)'
BY TableStep, BundlesGrow DEF Had

LEMMA TypeStep ==
    ASSUME TypeOK, KnownInv, [Next]_vars PROVE TypeOK'
<1>1. /\ NoHandler \in Handler \cup {NoHandler} /\ 0 \in 0..MaxBlob
      /\ \A h \in Handler : result[h] \in Result
  BY ServerAssumption DEF TypeOK, ServerTypeOK
<1>2. \A c \in Client : conn[c] # NoHandler => conn[c] \in Handler
  BY DEF TypeOK
<1> DEFINE Locals ==
             /\ token' \in [Client -> Token \cup {NoToken}]
             /\ step' \in [Client -> ClientStep] /\ conn' \in [Client -> Handler \cup {NoHandler}]
             /\ got' \in [Client -> 0..MaxBlob]
             /\ pulled' \in [Client -> 0..MaxBlob] /\ pushed' \in [Client -> Result]
<1>3. ASSUME NEW c \in Client, Finish(c)
      PROVE  /\ step' \in [Client -> ClientStep] /\ conn' \in [Client -> Handler \cup {NoHandler}]
             /\ got' \in [Client -> 0..MaxBlob]
  BY <1>1, <1>3 DEF Finish, Goto, TypeOK, ClientStep
<1>4. ASSUME NEW c \in Client, NEW k \in Token, Configure(c, k) PROVE Locals
  BY <1>4 DEF Configure, TypeOK
<1>5. ASSUME NEW c \in Client, NEW i \in Id, Add(c, i) \/ Update(c, i) \/ Delete(c, i) PROVE Locals
  BY <1>5 DEF Add, Update, Delete, Stamp, Edit, TypeOK
<1>6. ASSUME NEW c \in Client, NEW h \in Handler, Push(c, h) \/ \E auto \in BOOLEAN : Pull(c, h, auto)
      PROVE  Locals
  BY <1>6 DEF Push, Pull, Goto, TypeOK, ClientStep
<1>7. ASSUME NEW c \in Client, PushAnswered(c) PROVE Locals
  <2>1. result[conn[c]] \in Result
    BY <1>1, <1>2, <1>7 DEF PushAnswered, Answered
  <2>2. QED
    BY <1>3, <1>7, <2>1 DEF PushAnswered, TypeOK
<1>8. ASSUME NEW c \in Client, NEW overwrite \in BOOLEAN, PullAnswered(c, overwrite) PROVE Locals
  <2>1. result[conn[c]].blob \in 0..MaxBlob
    BY <1>1, <1>2, <1>8 DEF PullAnswered, Answered, Result
  <2>2. CASE Finish(c)
    BY <1>3, <1>8, <2>2 DEF PullAnswered, TypeOK
  <2>3. CASE /\ got' = [got EXCEPT ![c] = result[conn[c]].blob] /\ Goto(c, "imported")
             /\ conn' = [conn EXCEPT ![c] = NoHandler]
    BY <1>1, <1>8, <2>1, <2>3 DEF PullAnswered, TypeOK, Goto, ClientStep
  <2>4. QED
    BY <1>8, <2>2, <2>3 DEF PullAnswered, Import
<1>9. ASSUME NEW c \in Client, RecordPull(c) \/ GiveUp(c) PROVE Locals
  BY <1>3, <1>9 DEF RecordPull, GiveUp, TypeOK
<1>10. ASSUME Restart PROVE Locals
  BY <1>1, <1>10 DEF Restart, TypeOK, ClientStep
<1>11. ASSUME UNCHANGED clientVars PROVE Locals
  BY <1>11 DEF clientVars, TypeOK
<1> HIDE DEF Locals
<1>12. Locals
  BY <1>4, <1>5, <1>6, <1>7, <1>8, <1>9, <1>10, <1>11
     DEF Next, ClientNext, ServerStep, DropAnswer, RepeatPush, vars
<1>13. QED
  BY <1>12, ServerType, BundlesGrow, TableStep DEF TypeOK, Locals


-----------------------------------------------------------------------------
(* ConnInv and HadInv.                                                     *)

\* A thread that a client goes on waiting for keeps its request.
Waits(d) == conn'[d] # NoHandler /\ conn'[d] = conn[d]

LEMMA WaitedFor ==
    ASSUME TypeOK, KnownInv, [Next]_vars, NEW d \in Client, Waits(d)
    PROVE  phase'[conn[d]] # "free" /\ request'[conn[d]] = request[conn[d]]
<1> DEFINE Kept == phase'[conn[d]] # "free" /\ request'[conn[d]] = request[conn[d]]
<1>1. /\ ServerTypeOK /\ conn[d] \in Handler /\ phase[conn[d]] # "free"
      /\ \A c \in Client : conn[c] = conn[d] => c = d
  BY DEF TypeOK, KnownInv, ConnInv, Waits
<1>2. ASSUME NEW h \in Handler, NEW r, Receive(h, r) PROVE Kept
  <2>1. h # conn[d]
    BY <1>1, <1>2 DEF Receive
  <2>2. phase'[conn[d]] = phase[conn[d]]
    BY <1>1, <1>2, <2>1, EnterEffect DEF Receive
  <2>3. request'[conn[d]] = request[conn[d]]
    BY <1>1, <1>2, <2>1 DEF Receive, ServerTypeOK
  <2>4. QED
    BY <1>1, <2>2, <2>3
<1>3. ASSUME NEW h \in Handler, Release(h), h # conn[d] PROVE Kept
  BY <1>1, <1>3, EnterEffect DEF Release, ServerTypeOK
<1>4. ASSUME NEW c \in Client, PushAnswered(c) \/ \E overwrite \in BOOLEAN : PullAnswered(c, overwrite)
      PROVE  Kept
  <2>1. conn'[c] = NoHandler /\ conn[c] \in Handler /\ Release(conn[c])
    BY <1>4 DEF PushAnswered, PullAnswered, Finish, Answered, TypeOK
  <2>2. conn[c] # conn[d]
    BY <1>1, <2>1 DEF Waits
  <2>3. QED
    BY <1>3, <2>1, <2>2
<1>5. ASSUME NEW h \in Handler, DropAnswer(h) PROVE Kept
  BY <1>3, <1>5 DEF DropAnswer
<1>6. ASSUME NEW h \in Handler, HandlerStep(h) PROVE Kept
  <2>1. PICK r \in Result : HandlerKind(h, r)
    BY <1>1, <1>6, HandlerKinds
  <2>2. QED
    BY <1>1, <2>1, EnterEffect DEF HandlerKind, Handles
<1>7. ASSUME UNCHANGED <<phase, request>> PROVE Kept
  BY <1>1, <1>7
<1>8. ASSUME Restart PROVE Kept
  BY <1>8 DEF Restart, Waits
<1> HIDE DEF Kept
<1>9. ASSUME NEW c \in Client, ClientNext(c) PROVE Kept
  BY <1>2, <1>4, <1>7, <1>9 DEF ClientNext, Push, Pull, Configure, Add, Update, Delete, Stamp, Edit,
     RecordPull, GiveUp, serverVars
<1>10. ASSUME ServerStep PROVE Kept
  BY <1>6, <1>7, <1>10 DEF ServerStep, Revoke
<1>11. Kept
  BY <1>2, <1>5, <1>7, <1>8, <1>9, <1>10 DEF Next, RepeatPush, vars, serverVars
<1>12. QED
  BY <1>11 DEF Kept

\* What clients do with their connections and records.
Begins(c, h) ==
    /\ step[c] = "idle" /\ phase[h] = "free" /\ phase'[h] # "free"
    /\ conn' = [conn EXCEPT ![c] = h] /\ UNCHANGED <<got, pulled, pushed>>
    /\ \/ step' = [step EXCEPT ![c] = "pulling"]
       \/ /\ step' = [step EXCEPT ![c] = "pushing"] /\ request'[h].kind = "push"
          /\ Had(c, request[h].blob)'

Ends(c) ==
    /\ step[c] # "idle" /\ Finish(c)
    /\ \/ UNCHANGED <<pulled, pushed>>
       \/ /\ step[c] = "pushing" /\ conn[c] # NoHandler /\ result[conn[c]].code = 200
          /\ pushed' = [pushed EXCEPT ![c] = result[conn[c]]] /\ UNCHANGED pulled
       \/ /\ step[c] = "imported"
          /\ pulled' = [pulled EXCEPT ![c] = got[c]] /\ UNCHANGED pushed

Imports(c, n) ==
    /\ step[c] = "pulling" /\ Goto(c, "imported") /\ conn' = [conn EXCEPT ![c] = NoHandler]
    /\ n \in Exported /\ Had(c, n)' /\ got' = [got EXCEPT ![c] = n]
    /\ UNCHANGED <<pulled, pushed>>

LEMMA ImportHas ==
    ASSUME TypeOK, NEW c \in Client, NEW n \in Exported, NEW overwrite \in BOOLEAN,
           Import(c, n, overwrite), bundles' = bundles
    PROVE  Had(c, n)'
<1>1. PICK failed \in SUBSET Fragile :
        LET theirs == [i \in Id |-> IF i \in failed THEN 0 ELSE bundles[n].secrets[i]]
        IN  local' = [local EXCEPT ![c] = [i \in Id |-> Imported(@[i], theirs[i], overwrite)]]
  BY DEF Import
<1>2. ASSUME NEW i \in Id \ Fragile, bundles[n].secrets[i] # 0 PROVE local'[c][i] # 0
  <2>1. local'[c][i] = Imported(local[c][i], bundles[n].secrets[i], overwrite)
    BY <1>1, <1>2 DEF TypeOK
  <2>2. QED
    BY <1>2, <2>1 DEF Imported
<1>3. QED
  BY <1>2 DEF Had

LEMMA ClientKinds ==
    ASSUME TypeOK, KnownInv, [Next]_vars
    PROVE  \/ UNCHANGED <<step, conn, got, pulled, pushed>>
           \/ Restart
           \/ \E c \in Client :
                \/ Ends(c) \/ \E n \in Exported : Imports(c, n)
                \/ \E h \in Handler : Begins(c, h)
<1>1. ServerTypeOK
  BY DEF TypeOK
<1>2. ASSUME NEW h \in Handler, NEW r, Receive(h, r), r.kind # "free"
      PROVE  phase[h] = "free" /\ phase'[h] # "free" /\ request'[h] = r
  BY <1>1, <1>2, EnterEffect DEF Receive, ServerTypeOK
<1>3. ASSUME NEW c \in Client, NEW h \in Handler, NEW auto \in BOOLEAN, Pull(c, h, auto)
      PROVE  Begins(c, h)
  BY <1>2, <1>3 DEF Pull, Begins, Goto
<1>4. ASSUME NEW c \in Client, NEW h \in Handler, Push(c, h) PROVE Begins(c, h)
  <2>1. PICK b \in Nat : b = Len(bundles) + 1
    BY DEF TypeOK
  <2>2. /\ phase[h] = "free" /\ phase'[h] # "free"
        /\ request'[h].kind = "push" /\ request'[h].blob = b
    BY <1>2, <1>4, <2>1 DEF Push
  <2>3. bundles'[b].secrets = local'[c]
    BY <1>4, <2>1 DEF Push, TypeOK
  <2>4. Had(c, b)'
    BY <2>3 DEF Had
  <2>5. Had(c, request[h].blob)'
    BY <2>2, <2>4 DEF Had
  <2>6. QED
    BY <1>4, <2>2, <2>5 DEF Push, Begins, Goto
<1>5. ASSUME NEW c \in Client, PushAnswered(c) PROVE Ends(c)
  BY <1>5 DEF PushAnswered, Answered, Ends
<1>6. ASSUME NEW c \in Client, NEW overwrite \in BOOLEAN, PullAnswered(c, overwrite)
      PROVE  Ends(c) \/ \E n \in Exported : Imports(c, n)
  <2>1. CASE Finish(c)
    BY <1>6, <2>1 DEF PullAnswered, Ends
  <2>2. CASE /\ result[conn[c]].code = 200 /\ Import(c, result[conn[c]].blob, overwrite)
             /\ Goto(c, "imported") /\ conn' = [conn EXCEPT ![c] = NoHandler]
    <3>1. PICK n \in Exported : n = result[conn[c]].blob
      BY <1>6, <2>2 DEF PullAnswered, Answered, KnownInv, AnswerInv, TypeOK
    <3>2. Import(c, n, overwrite) /\ bundles' = bundles
      BY <1>6, <2>2, <3>1 DEF PullAnswered
    <3>3. Had(c, n)' /\ got' = [got EXCEPT ![c] = n]
      BY <3>2, ImportHas DEF Import
    <3>4. Imports(c, n)
      BY <1>6, <2>2, <3>3 DEF PullAnswered, Imports
    <3>5. QED
      BY <3>4
  <2>3. QED
    BY <1>6, <2>1, <2>2 DEF PullAnswered
<1>7. ASSUME NEW c \in Client, RecordPull(c) \/ GiveUp(c) PROVE Ends(c)
  BY <1>7 DEF RecordPull, GiveUp, Ends
<1>8. ASSUME NEW c \in Client, NEW i \in Id, Add(c, i) \/ Update(c, i) \/ Delete(c, i)
      PROVE  UNCHANGED <<step, conn, got, pulled, pushed>>
  BY <1>8 DEF Add, Update, Delete, Stamp, Edit
<1>9. ASSUME NEW c \in Client, NEW k \in Token, Configure(c, k)
      PROVE  UNCHANGED <<step, conn, got, pulled, pushed>>
  BY <1>9 DEF Configure
<1>10. CASE UNCHANGED clientVars
  BY <1>10 DEF clientVars
<1>11. QED
  BY <1>3, <1>4, <1>5, <1>6, <1>7, <1>8, <1>9, <1>10
     DEF Next, ClientNext, ServerStep, DropAnswer, RepeatPush, vars

\* What is known of one client.
Waiting(c) ==
    /\ step[c] \in {"pushing", "pulling"} <=> conn[c] # NoHandler
    /\ conn[c] # NoHandler =>
        /\ phase[conn[c]] # "free"
        /\ \A d \in Client : conn[d] = conn[c] => d = c
    /\ step[c] = "pushing" =>
        request[conn[c]].kind = "push" /\ Had(c, request[conn[c]].blob)

\* A client whose command is not touched waits on.
LEMMA WaitsOn ==
    ASSUME TypeOK, KnownInv, [Next]_vars, NEW d \in Client, step'[d] = step[d], conn'[d] = conn[d]
    PROVE  /\ step'[d] \in {"pushing", "pulling"} <=> conn'[d] # NoHandler
           /\ conn'[d] # NoHandler => phase'[conn'[d]] # "free"
           /\ step'[d] = "pushing" =>
                request'[conn'[d]].kind = "push" /\ Had(d, request[conn[d]].blob)'
<1>1. Waiting(d)
  BY DEF KnownInv, ConnInv, Waiting
<1>2. conn'[d] # NoHandler => phase'[conn[d]] # "free" /\ request'[conn[d]] = request[conn[d]]
  BY WaitedFor DEF Waits
<1>3. ASSUME step'[d] = "pushing"
      PROVE  request'[conn'[d]].kind = "push" /\ Had(d, request[conn[d]].blob)'
  <2>1. /\ conn[d] \in Handler /\ request[conn[d]].kind = "push" /\ Had(d, request[conn[d]].blob)
        /\ request'[conn'[d]] = request[conn[d]]
    BY <1>1, <1>2, <1>3 DEF Waiting, TypeOK
  <2>2. PICK n \in Exported : n = request[conn[d]].blob
    BY <2>1 DEF KnownInv, AnswerInv
  <2>3. Had(d, n)
    BY <2>1, <2>2
  <2>4. Had(d, n)'
    BY <2>3, HadStays
  <2>5. QED
    BY <2>1, <2>2, <2>4 DEF Had
<1>4. QED
  BY <1>1, <1>2, <1>3 DEF Waiting

LEMMA ConnStep ==
    ASSUME TypeOK, KnownInv, [Next]_vars PROVE ConnInv'
<1>1. /\ step \in [Client -> ClientStep] /\ conn \in [Client -> Handler \cup {NoHandler}]
      /\ \A c \in Client : Waiting(c)
  BY DEF TypeOK, KnownInv, ConnInv, Waiting
<1> SUFFICES ASSUME NEW d \in Client PROVE Waiting(d)'
  BY DEF ConnInv, Waiting
<1>2. CASE UNCHANGED <<step, conn, got, pulled, pushed>>
  BY <1>1, <1>2, WaitsOn DEF Waiting
<1>3. CASE Restart
  BY <1>1, <1>3 DEF Restart, Waiting
\* The command of c has its answer, or gives up.
<1>4. ASSUME NEW c \in Client, NEW s \in {"idle", "imported"},
             step' = [step EXCEPT ![c] = s], conn' = [conn EXCEPT ![c] = NoHandler]
      PROVE  Waiting(d)'
  <2>1. CASE d = c
    BY <1>1, <1>4, <2>1 DEF Waiting
  <2>2. CASE d # c
    <3>1. step'[d] = step[d] /\ conn'[d] = conn[d]
      BY <1>1, <1>4, <2>2
    <3>2. conn'[d] # NoHandler => \A e \in Client : conn'[e] = conn'[d] => e = d
      BY <1>1, <1>4, <3>1 DEF Waiting
    <3>3. QED
      BY <3>1, <3>2, WaitsOn DEF Waiting
  <2>3. QED
    BY <2>1, <2>2
<1>5. ASSUME NEW c \in Client, NEW h \in Handler, Begins(c, h) PROVE Waiting(d)'
  <2>1. /\ conn'[c] = h /\ \A e \in Client : e # c => conn'[e] = conn[e] /\ step'[e] = step[e]
        /\ phase'[h] # "free" /\ h # NoHandler
    BY <1>1, <1>5, SyncAssumption DEF Begins
  <2>2. \A e \in Client : conn[e] # h
    BY <1>1, <1>5, <2>1 DEF Begins, Waiting
  <2>3. conn'[d] # NoHandler => \A e \in Client : conn'[e] = conn'[d] => e = d
    BY <1>1, <2>1, <2>2 DEF Waiting
  <2>4. CASE d = c
    <3>1. /\ step'[c] \in {"pushing", "pulling"}
          /\ step'[c] = "pushing" => request'[h].kind = "push" /\ Had(c, request[h].blob)'
      BY <1>1, <1>5 DEF Begins
    <3>2. QED
      BY <2>1, <2>3, <2>4, <3>1 DEF Waiting, Had
  <2>5. CASE d # c
    BY <2>1, <2>3, <2>5, WaitsOn DEF Waiting
  <2>6. QED
    BY <2>4, <2>5
<1>6. QED
  BY <1>2, <1>3, <1>4, <1>5, ClientKinds DEF Ends, Imports, Finish, Goto

LEMMA HadStep ==
    ASSUME TypeOK, KnownInv, [Next]_vars PROVE HadInv'
<1> SUFFICES ASSUME NEW d \in Client
             PROVE  /\ step'[d] = "imported" => got'[d] \in Exported' /\ Had(d, got[d])'
                    /\ pulled'[d] # 0 => pulled'[d] \in Exported' /\ Had(d, pulled[d])'
                    /\ pushed'[d].blob # 0 => pushed'[d].blob \in Exported' /\ Had(d, pushed[d].blob)'
  BY DEF HadInv
<1>1. /\ step \in [Client -> ClientStep] /\ got \in [Client -> 0..MaxBlob]
      /\ pulled \in [Client -> 0..MaxBlob] /\ pushed \in [Client -> Result]
  BY DEF TypeOK
<1>3. step'[d] = "imported" => got'[d] \in Exported' /\ Had(d, got[d])'
  <2> SUFFICES ASSUME step'[d] = "imported" PROVE got'[d] \in Exported' /\ Had(d, got[d])'
    OBVIOUS
  <2>1. CASE step[d] = "imported" /\ got'[d] = got[d]
    <3>1. PICK n \in Exported : n = got[d] /\ Had(d, n)
      BY <2>1 DEF KnownInv, HadInv
    <3>2. n \in Exported' /\ Had(d, n)'
      BY <3>1, HadStays
    <3>3. QED
      BY <2>1, <3>1, <3>2 DEF Had
  <2>2. CASE \E n \in Exported : Imports(d, n)
    <3>1. PICK n \in Exported : Imports(d, n)
      BY <2>2
    <3>2. got'[d] = n /\ Had(d, n)' /\ n \in Exported'
      BY <1>1, <3>1, BundlesGrow DEF Imports
    <3>3. QED
      BY <3>2 DEF Had
  <2>3. (step[d] = "imported" /\ got'[d] = got[d]) \/ \E n \in Exported : Imports(d, n)
    BY <1>1, ClientKinds DEF Restart, Ends, Finish, Goto, Imports, Begins
  <2>4. QED
    BY <2>1, <2>2, <2>3
<1>4. pulled'[d] # 0 => pulled'[d] \in Exported' /\ Had(d, pulled[d])'
  <2> SUFFICES ASSUME pulled'[d] # 0 PROVE pulled'[d] \in Exported' /\ Had(d, pulled[d])'
    OBVIOUS
  <2>1. pulled'[d] = pulled[d] \/ (step[d] = "imported" /\ pulled'[d] = got[d])
    BY <1>1, ClientKinds DEF Restart, Ends, Imports, Begins
  <2>2. PICK n \in Exported : n = pulled'[d] /\ Had(d, n)
    BY <2>1 DEF KnownInv, HadInv
  <2>3. n \in Exported' /\ Had(d, n)'
    BY <2>2, HadStays
  <2>4. QED
    BY <2>2, <2>3 DEF Had
<1>5. pushed'[d].blob # 0 => pushed'[d].blob \in Exported' /\ Had(d, pushed[d].blob)'
  <2> SUFFICES ASSUME pushed'[d].blob # 0
               PROVE  pushed'[d].blob \in Exported' /\ Had(d, pushed[d].blob)'
    OBVIOUS
  <2>1. \/ pushed'[d] = pushed[d]
        \/ /\ step[d] = "pushing" /\ conn[d] # NoHandler /\ result[conn[d]].code = 200
           /\ pushed'[d] = result[conn[d]]
    BY <1>1, ClientKinds DEF Restart, Ends, Imports, Begins
  <2>2. PICK n \in Exported : n = pushed'[d].blob /\ Had(d, n)
    <3>1. CASE pushed'[d] = pushed[d]
      BY <3>1 DEF KnownInv, HadInv
    <3>2. CASE /\ step[d] = "pushing" /\ conn[d] # NoHandler /\ result[conn[d]].code = 200
               /\ pushed'[d] = result[conn[d]]
      BY <3>2 DEF KnownInv, ConnInv, AnswerInv, TypeOK
    <3>3. QED
      BY <2>1, <3>1, <3>2
  <2>3. n \in Exported' /\ Had(d, n)'
    BY <2>2, HadStays
  <2>4. QED
    BY <2>2, <2>3 DEF Had
<1>6. QED
  BY <1>3, <1>4, <1>5

LEMMA InitKnown == Init => TypeOK /\ KnownInv
<1> SUFFICES ASSUME Init PROVE TypeOK /\ KnownInv
  OBVIOUS
<1>1. 0 \in 0..MaxBlob /\ 0 \in 0..MaxVersion /\ 0 \in Revision
  BY ServerAssumption, SyncAssumption DEF Revision
<1>2. bundles \in Seq(Bundle) /\ Len(bundles) = 0
  BY DEF Init
<1>3. ServerTypeOK
  BY <1>1, NoneType DEF Init, ServerInit, ServerTypeOK, HandlerPhase
<1>4. TypeOK
  BY <1>1, <1>2, <1>3, NoneType, ServerAssumption DEF Init, TypeOK, Content, ClientStep
<1>5. KnownInv
  BY <1>2, NoneType DEF Init, ServerInit, KnownInv, AnswerInv, ConnInv, HadInv, Exported, NoRequest, NoResult
<1>6. QED
  BY <1>4, <1>5

-----------------------------------------------------------------------------
(* The theorems.                                                           *)

\* Requests, answers, tables and bundles keep their types.
THEOREM TypeCorrect == Spec => []TypeOK
<1>1. Init => TypeOK /\ KnownInv
  BY InitKnown
<1>2. TypeOK /\ KnownInv /\ [Next]_vars => TypeOK' /\ KnownInv'
  BY TypeStep, AnswerStep, ConnStep, HadStep DEF KnownInv
<1>3. QED
  BY <1>1, <1>2, PTL DEF Spec

\* Each client waits for a thread of its own, which answers its own request, and
\* every bundle that it records it has had, rows that cannot be written apart.
THEOREM KnownCorrect == Spec => []KnownInv
<1>1. Init => TypeOK /\ KnownInv
  BY InitKnown
<1>2. TypeOK /\ KnownInv /\ [Next]_vars => TypeOK' /\ KnownInv'
  BY TypeStep, AnswerStep, ConnStep, HadStep DEF KnownInv
<1>3. QED
  BY <1>1, <1>2, PTL DEF Spec

\* A client that will be told "304, up to date" for a bundle has had every secret
\* of it, if every row of an import can be written.
THEOREM ImportedCorrect ==
    ASSUME Fragile = {}
    PROVE  Spec => []KnownMeansImported
<1>1. TypeOK /\ KnownInv => KnownMeansImported
  BY DEF KnownInv, HadInv, Had, Known, KnownMeansImported
<1>2. QED
  BY <1>1, TypeCorrect, KnownCorrect, PTL

-----------------------------------------------------------------------------
(* Versions, when requests are handled one at a time.                      *)

Busy(h) == phase[h] \notin {"free", "done"}

LEMMA ToldType == TypeOK => Told \subseteq Result
BY DEF Told, TypeOK, ServerTypeOK

\* What is told was told before, or is of the row as it is now.
LEMMA ToldGrows ==
    ASSUME TypeOK, KnownInv, [Next]_vars, NEW x \in Told'
    PROVE  x \in Told \/ (x.version = version' /\ x.blob = stored')
<1>1. ServerTypeOK
  BY DEF TypeOK
<1>2. ASSUME NEW g \in Handler, result'[g].code = 200, x = result'[g]
      PROVE  x \in Told \/ (x.version = version' /\ x.blob = stored')
  <2>1. CASE result'[g] = result[g]
    BY <1>2, <2>1 DEF Told
  <2>2. ASSUME NEW h \in Handler, HandlerStep(h)
        PROVE  x \in Told \/ (x.version = version' /\ x.blob = stored')
    <3>1. PICK r \in Result : HandlerKind(h, r)
      BY <1>1, <2>2, HandlerKinds
    <3>2. result'[h] = r /\ \A f \in Handler : f # h => result'[f] = result[f]
      BY <1>1, <3>1, EnterEffect DEF HandlerKind, Handles
    <3>3. CASE g = h
      BY <1>2, <3>1, <3>2, <3>3 DEF HandlerKind
    <3>4. QED
      BY <2>1, <3>2, <3>3
  <2>3. ASSUME NEW h \in Handler, Release(h) PROVE result'[g] = result[g]
    BY <1>1, <1>2, <2>3, EnterEffect, NoneType DEF Release
  <2>4. ASSUME NEW h \in Handler, NEW r, Receive(h, r) PROVE result'[g] = result[g]
    BY <1>1, <1>2, <2>4, EnterEffect, NoneType, FailedType DEF Receive
  <2>5. ASSUME NEW k \in Token, Revoke(k) PROVE result'[g] = result[g]
    BY <2>5 DEF Revoke
  <2>6. CASE ServerRestart
    BY <1>2, <2>6, NoneType DEF ServerRestart
  <2>7. CASE UNCHANGED serverVars
    BY <2>1, <2>7 DEF serverVars
  <2>8. QED
    BY <2>1, <2>2, <2>3, <2>4, <2>5, <2>6, <2>7, ServerKinds
<1>3. ASSUME NEW c \in Client, x = pushed'[c] PROVE x \in Told
  <2>1. \/ pushed'[c] = pushed[c]
        \/ conn[c] # NoHandler /\ result[conn[c]].code = 200 /\ pushed'[c] = result[conn[c]]
    BY ClientKinds DEF Restart, Ends, Imports, Begins, TypeOK
  <2>2. QED
    BY <1>3, <2>1 DEF Told, TypeOK
<1>4. QED
  BY <1>2, <1>3 DEF Told

\* A row that is written is the one that was read.
LEMMA WriteKinds ==
    ASSUME TypeOK, KnownInv, VersionInv, [Next]_vars, ~Overlap
    PROVE  \/ UNCHANGED <<stored, version>>
           \/ /\ version' = version + 1 /\ stored' # stored /\ stored' \in 1..MaxBlob
              /\ \E h \in Handler : Busy(h) /\ ~Busy(h)' /\ \A g \in Handler : g # h => phase'[g] = phase[g]
<1>1. ServerTypeOK /\ AnswerInv /\ Len(bundles) \in Nat /\ Len(bundles) <= MaxBlob
  BY DEF TypeOK, KnownInv
<1>2. ASSUME NEW h \in Handler, HandlerStep(h), ~UNCHANGED <<stored, version>>
      PROVE  /\ version' = version + 1 /\ stored' # stored /\ stored' \in 1..MaxBlob
             /\ Busy(h) /\ ~Busy(h)' /\ \A g \in Handler : g # h => phase'[g] = phase[g]
  <2>1. PICK r \in Result : HandlerKind(h, r)
    BY <1>1, <1>2, HandlerKinds
  <2>2. /\ phase[h] = "write" /\ Handles(h, "done", r)
        /\ stored' = request[h].blob /\ version' = result[h].version + 1
    BY <1>2, <2>1 DEF HandlerKind
  <2>3. result[h].version = version /\ stored # request[h].blob
    BY <2>2 DEF VersionInv
  <2>4. request[h].blob \in 1..MaxBlob
    BY <1>1, <2>2, ServerAssumption DEF AnswerInv, Exported
  <2>5. QED
    BY <1>1, <2>2, <2>3, <2>4, EnterEffect DEF Handles, Busy
<1>3. QED
  BY <1>2, ServerKinds DEF Release, Receive, Revoke, ServerRestart, serverVars

LEMMA VersionStep ==
    ASSUME TypeOK, KnownInv, VersionInv, [Next]_vars PROVE VersionInv'
<1>1. ServerTypeOK /\ AnswerInv /\ version \in Nat
  BY DEF TypeOK, KnownInv, ServerTypeOK
<1> SUFFICES ASSUME ~Overlap
             PROVE  /\ \A g, h \in Handler : Busy(g)' /\ Busy(h)' => g = h
                    /\ \A h \in Handler : phase'[h] = "write" =>
                         result'[h].version = version' /\ stored' # request'[h].blob
                    /\ \A x \in Told' : x.version <= version' /\ (x.version = version' => x.blob = stored')
                    /\ \A x, y \in Told' : x.version = y.version => x.blob = y.blob
  BY DEF VersionInv, Busy
<1>2. \A g, h \in Handler : Busy(g) /\ Busy(h) => g = h
  BY DEF VersionInv, Busy
<1>3. \A h \in Handler : phase[h] = "write" => result[h].version = version /\ stored # request[h].blob
  BY DEF VersionInv
<1>4. /\ \A x \in Told : x.version <= version /\ (x.version = version => x.blob = stored)
      /\ \A x, y \in Told : x.version = y.version => x.blob = y.blob
      /\ \A x \in Told : x.version \in Nat
  <2>1. \A x \in Told : x.version \in Nat
    BY ToldType DEF Result
  <2>2. QED
    BY <2>1 DEF VersionInv
<1>5. \A g, h \in Handler : Busy(g)' /\ Busy(h)' => g = h
  <2>1. ASSUME NEW h \in Handler, NEW r, Receive(h, r) PROVE <1>5
    BY <1>1, <2>1, EnterEffect DEF Receive, Busy
  <2>2. ASSUME NEW h \in Handler, HandlerStep(h) \/ Release(h) PROVE <1>5
    <3>1. \A g \in Handler : Busy(g)' => Busy(g)
      <4>1. CASE Release(h)
        BY <1>1, <4>1, EnterEffect DEF Release, Busy
      <4>2. CASE HandlerStep(h)
        <5>1. PICK r \in Result : HandlerKind(h, r)
          BY <1>1, <4>2, HandlerKinds
        <5>2. QED
          BY <1>1, <5>1, EnterEffect DEF HandlerKind, Handles, Busy
      <4>3. QED
        BY <2>2, <4>1, <4>2
    <3>2. QED
      BY <1>2, <3>1
  <2>3. CASE ServerRestart
    BY <2>3 DEF ServerRestart, Busy
  <2>4. CASE UNCHANGED phase
    BY <1>2, <2>4 DEF Busy
  <2>5. QED
    BY <2>1, <2>2, <2>3, <2>4, ServerKinds DEF Revoke, serverVars
<1>6. ASSUME NEW h \in Handler, phase'[h] = "write"
      PROVE  result'[h].version = version' /\ stored' # request'[h].blob
  <2>1. CASE phase[h] = "write" /\ UNCHANGED <<stored, version>>
             /\ result'[h] = result[h] /\ request'[h] = request[h]
    BY <1>3, <2>1
  <2>2. ASSUME NEW g \in Handler, HandlerStep(g)
        PROVE  result'[h].version = version' /\ stored' # request'[h].blob
    <3>1. PICK r \in Result : HandlerKind(g, r)
      BY <1>1, <2>2, HandlerKinds
    <3>2. /\ phase'[g] \in {"write", "done"} /\ result'[g] = r /\ request' = request /\ Busy(g)
          /\ \A f \in Handler : f # g => phase'[f] = phase[f] /\ result'[f] = result[f]
      BY <1>1, <3>1, EnterEffect DEF HandlerKind, Handles, Busy
    <3>3. h = g
      BY <1>2, <1>6, <3>2 DEF Busy
    <3>4. /\ phase[h] = "push" /\ UNCHANGED <<stored, version>>
          /\ r.version = version /\ (stored # request[h].blob \/ version = 0)
      BY <1>1, <1>6, <3>1, <3>3, EnterEffect DEF HandlerKind, Handles
    <3>5. version = 0 => stored # request[h].blob
      BY <1>1, <3>4 DEF AnswerInv
    <3>6. QED
      BY <3>2, <3>3, <3>4, <3>5
  <2>3. ASSUME NEW g \in Handler, Release(g) \/ \E r : Sound(r) /\ Receive(g, r)
        PROVE  result'[h].version = version' /\ stored' # request'[h].blob
    <3>1. phase'[g] # "write" /\ UNCHANGED <<stored, version>>
          /\ \A f \in Handler : f # g =>
               phase'[f] = phase[f] /\ result'[f] = result[f] /\ request'[f] = request[f]
      BY <1>1, <2>3, EnterEffect DEF Release, Receive, Sound, ServerTypeOK
    <3>2. QED
      BY <1>6, <2>1, <3>1
  <2>4. QED
    BY <1>6, <2>1, <2>2, <2>3, ServerKinds DEF Revoke, ServerRestart, serverVars
<1>7. ASSUME NEW x \in Told' PROVE x.version <= version' /\ (x.version = version' => x.blob = stored')
  BY <1>1, <1>4, ToldGrows, WriteKinds
<1>8. ASSUME NEW x \in Told', NEW y \in Told', x.version = y.version PROVE x.blob = y.blob
  <2>1. CASE x \in Told /\ y \in Told
    BY <1>4, <1>8, <2>1
  <2>2. CASE x.version = version' /\ x.blob = stored'
    BY <1>7, <1>8, <2>2
  <2>3. CASE y.version = version' /\ y.blob = stored'
    BY <1>7, <1>8, <2>3
  <2>4. QED
    BY <2>1, <2>2, <2>3, ToldGrows
<1>9. QED
  BY <1>5, <1>6, <1>7, <1>8

\* With requests one at a time the server gives out each version once.
THEOREM VersionCorrect == Spec => []VersionInv
<1>1. Init => VersionInv
  <2> SUFFICES ASSUME Init PROVE VersionInv
    OBVIOUS
  <2>1. /\ \A h \in Handler : phase[h] = "free" /\ result[h].code # 200
        /\ version = 0 /\ stored = 0
        /\ \A c \in Client : pushed[c].version = 0 /\ pushed[c].blob = 0
    BY DEF Init, ServerInit, NoResult
  <2>2. QED
    BY <2>1 DEF VersionInv, Told
<1>2. TypeOK /\ KnownInv /\ VersionInv /\ [Next]_vars => VersionInv'
  BY VersionStep
<1>3. QED
  BY <1>1, <1>2, TypeCorrect, KnownCorrect, PTL DEF Spec

\* Two pushes acknowledged with the same version stored the same bundle, if
\* requests are handled one at a time.
THEOREM NamesCorrect ==
    ASSUME ~Overlap
    PROVE  Spec => []VersionNamesBundle
<1>1. VersionInv => VersionNamesBundle
  BY DEF VersionInv, Told, VersionNamesBundle
<1>2. QED
  BY <1>1, VersionCorrect, PTL

\* Then the row of the server is a register whose version goes up by one when,
\* and only when, a different bundle is stored: repeated and interrupted pushes,
\* restarts and failures are invisible.
THEOREM BlobStoreImplemented ==
    ASSUME ~Overlap
    PROVE  Spec => ImplementsBlobStore
<1>1. Init => Store!BInit
  BY DEF Init, ServerInit, Store!BInit
<1>2. TypeOK /\ KnownInv /\ VersionInv /\ [Next]_vars => [Store!BNext]_<<stored, version>>
  BY WriteKinds DEF Store!BNext, Store!Store
<1>3. QED
  BY <1>1, <1>2, TypeCorrect, KnownCorrect, VersionCorrect, PTL
     DEF Spec, ImplementsBlobStore, Store!BSpec

=============================================================================
