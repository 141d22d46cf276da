--------------------------- MODULE TerminalProofs ---------------------------
(***************************************************************************)
(* What is proved of module SshTerminal for any pollers, closers and       *)
(* chunks: type correctness, the two invariants about closing, and that    *)
(* queue and threads implement OutputPipe.                                 *)
(***************************************************************************)
EXTENDS SshTerminal, SequenceTheorems, TLAPS

-----------------------------------------------------------------------------
(* Types.                                                                  *)

LEMMA InitType == Init => TypeOK
<1>1. <<>> \in Seq(Chunk)
  BY EmptySeq
<1>2. 0 \in 0..MaxChunk
  BY TerminalAssumption
<1>3. Init => output \in [Consumer -> Seq(Chunk)]
  BY <1>1 DEF Init
<1>4. QED
  BY <1>1, <1>2, <1>3 DEF Init, TypeOK

\* A chunk that is read joins the queue.
LEMMA ReadType ==
    ASSUME TypeOK, NEW s \in Stream, ReadAndQueue(s) PROVE TypeOK'
<1>1. received[s] \in 0..MaxChunk /\ sent[s] \in 0..MaxChunk
  BY DEF TypeOK
<1>2. CASE received[s] < sent[s]
  <2>1. [stream |-> s, number |-> received[s] + 1] \in Chunk /\ received[s] + 1 \in 0..MaxChunk
    BY <1>1, <1>2, TerminalAssumption DEF Chunk
  <2>2. queue' \in Seq(Chunk)
    <3>1. queue' = Append(queue, [stream |-> s, number |-> received[s] + 1])
      BY <1>2 DEF ReadAndQueue
    <3>2. QED
      BY <2>1, <3>1, AppendProperties DEF TypeOK
  <2>3. QED
    BY <1>2, <2>1, <2>2 DEF TypeOK, ReadAndQueue, NextPhase, terminal, watchers
<1>3. CASE ~(received[s] < sent[s])
  BY <1>3 DEF TypeOK, ReadAndQueue, NextPhase, terminal, watchers
<1>4. QED
  BY <1>2, <1>3

LEMMA DrainType ==
    ASSUME TypeOK, NEW w \in Consumer, DrainOne(w) PROVE TypeOK'
<1>1. Head(queue) \in Chunk /\ Tail(queue) \in Seq(Chunk)
  BY HeadTailProperties DEF TypeOK, DrainOne
<1>2. Append(output[w], Head(queue)) \in Seq(Chunk)
  BY <1>1, AppendProperties DEF TypeOK
<1>3. output' \in [Consumer -> Seq(Chunk)]
  BY <1>2 DEF TypeOK, DrainOne
<1>4. QED
  BY <1>1, <1>3 DEF TypeOK, DrainOne, terminal

LEMMA EmitType == ASSUME TypeOK, Emit PROVE TypeOK'
<1>1. got \o output[Streamer] \in Seq(Chunk)
  BY ConcatProperties DEF TypeOK, Consumer
<1>2. output' \in [Consumer -> Seq(Chunk)]
  BY EmptySeq DEF TypeOK, Emit
<1>3. QED
  BY <1>1, <1>2 DEF TypeOK, Emit, terminal

LEMMA AnswerType ==
    ASSUME TypeOK, NEW p \in Poller, AnswerPoll(p) PROVE TypeOK'
<1>1. Range(output[p]) \subseteq Chunk
  BY RangeOfSeq DEF TypeOK, Consumer
<1>2. output' \in [Consumer -> Seq(Chunk)]
  BY EmptySeq DEF TypeOK, AnswerPoll
<1>3. QED
  BY <1>1, <1>2 DEF TypeOK, AnswerPoll, terminal

LEMMA NextType == TypeOK /\ [Next]_vars => TypeOK'
<1> SUFFICES ASSUME TypeOK, [Next]_vars PROVE TypeOK'
  OBVIOUS
<1>1. CASE SetupStep
  BY <1>1 DEF TypeOK, SetupStep, Connect, Insert, Announce, StartStreaming, terminal, watchers
<1>2. CASE ReaderChecks \/ ReadRaises
  <2>1. reader' \in {"ended", "out", "failed"}
    BY <1>2, Zenon DEF ReaderChecks, ReadRaises
  <2>2. UNCHANGED <<socket, setup, terminal, table, lock, sent, received, queue, watchers, closing>>
    BY <1>2 DEF ReaderChecks, ReadRaises
  <2>3. reader' \in {"none", "check", "out", "err", "ended", "failed"}
    BY <2>1
  <2>4. QED
    BY <2>2, <2>3 DEF TypeOK, terminal, watchers
<1>3. ASSUME NEW s \in Stream, RemoteWrite(s) PROVE TypeOK'
  BY <1>3, TerminalAssumption DEF TypeOK, RemoteWrite, terminal, watchers
<1>4. CASE Look
  <2>1. streamer' \in {"drain", "ended"} /\ (told' = TRUE \/ told' = told)
    BY <1>4, Zenon DEF Look
  <2>2. QED
    <3>1. told' \in BOOLEAN
      BY <2>1 DEF TypeOK
    <3>2. streamer' \in {"none", "get", "drain", "ended"}
      BY <2>1
    <3>3. UNCHANGED <<socket, setup, connected, stop, table, lock, sent, received, reader, queue, output, polling, closing, got, polled>>
      BY <1>4 DEF Look, terminal
    <3>4. QED
      BY <3>1, <3>2, <3>3 DEF TypeOK
<1>5. ASSUME NEW p \in Poller, Poll(p) PROVE TypeOK'
  BY <1>5 DEF TypeOK, Poll, terminal
<1>6. ASSUME NEW c \in Closer, Enter(c) \/ CloserStep(c) PROVE TypeOK'
  <2>1. CASE Enter(c)
    <3>1. lock' \in {c, Nobody}
      BY <2>1, Zenon DEF Enter
    <3>2. \E p \in {"stop", "done"} : closing' = [closing EXCEPT ![c] = p]
      BY <2>1, Zenon DEF Enter, MoveCloser
    <3>3. QED
      BY <2>1, <3>1, <3>2 DEF TypeOK, Enter, terminal, watchers
  <2>2. CASE CloserStep(c)
    <3>1. CASE SetStop(c)
      BY <3>1 DEF TypeOK, SetStop, MoveCloser, watchers
    <3>2. CASE Join(c)
      BY <3>2 DEF TypeOK, Join, MoveCloser, watchers
    <3>3. CASE Delist(c)
      BY <3>3 DEF TypeOK, Delist, MoveCloser, terminal, watchers
    <3>4. QED
      BY <2>2, <3>1, <3>2, <3>3 DEF CloserStep
  <2>3. QED
    BY <1>6, <2>1, <2>2
<1>7. CASE UNCHANGED vars
  BY <1>7 DEF TypeOK, vars, terminal, watchers
<1>8. QED
  BY <1>1, <1>2, <1>3, <1>4, <1>5, <1>6, <1>7, ReadType, DrainType, EmitType, AnswerType
     DEF Next, ReaderStep, StreamerStep, PollerStep, Consumer

\* Every reachable state of a connection is well typed.
THEOREM TypeCorrect == Spec => []TypeOK
<1>1. QED
  BY InitType, NextType, PTL DEF Spec

-----------------------------------------------------------------------------
(* Closing.                                                                *)

\* Steps of the reader, of the remote side and of consumers do not close.
LEMMA CloseStutter ==
    ASSUME CloseInv, UNCHANGED <<setup, connected, stop, table, closing, streamer, told>>
    PROVE  CloseInv'
BY DEF CloseInv, Known

LEMMA CloseSetup == ASSUME TypeOK, CloseInv, SetupStep PROVE CloseInv'
<1>1. CASE Connect
  BY <1>1 DEF CloseInv, Known, Connect, watchers
<1>2. CASE Insert
  BY <1>2 DEF CloseInv, Known, Insert, watchers, terminal
<1>3. CASE Announce
  BY <1>3 DEF CloseInv, Known, Announce, watchers, terminal
<1>4. CASE StartStreaming
  BY <1>4 DEF CloseInv, Known, StartStreaming, terminal
<1>5. QED
  BY <1>1, <1>2, <1>3, <1>4 DEF SetupStep

\* The streaming thread finds the terminal gone only after a close.
LEMMA CloseLook == ASSUME TypeOK, CloseInv, Look PROVE CloseInv'
<1>1. setup = "done" /\ (~(table /\ connected) => stop)
  BY DEF CloseInv, Known, Look
<1>2. UNCHANGED <<setup, connected, stop, table, closing>> /\ (told' => told \/ stop)
  BY <1>1 DEF Look, terminal
<1>3. QED
  BY <1>1, <1>2 DEF CloseInv, Known

LEMMA CloseCloser ==
    ASSUME TypeOK, CloseInv, NEW c \in Closer, Enter(c) \/ CloserStep(c) PROVE CloseInv'
<1>1. UNCHANGED <<setup, streamer, told>>
  BY DEF Enter, CloserStep, SetStop, Join, Delist, watchers
<1>2. CASE Enter(c)
  <2>1. \E p \in {"stop", "done"} : closing' = [closing EXCEPT ![c] = p]
    BY <1>2, Zenon DEF Enter, MoveCloser
  <2>2. Known /\ UNCHANGED <<connected, stop, table>>
    BY <1>2 DEF Enter, terminal
  <2>3. QED
    BY <1>1, <2>1, <2>2 DEF TypeOK, CloseInv, Known
<1>3. CASE SetStop(c)
  BY <1>1, <1>3 DEF TypeOK, CloseInv, Known, SetStop, MoveCloser
<1>4. CASE Join(c)
  BY <1>1, <1>4 DEF TypeOK, CloseInv, Known, Join, MoveCloser
<1>5. CASE Delist(c)
  BY <1>1, <1>5 DEF TypeOK, CloseInv, Known, Delist, MoveCloser, terminal
<1>6. QED
  BY <1>2, <1>3, <1>4, <1>5 DEF CloserStep

LEMMA CloseNext == TypeOK /\ CloseInv /\ [Next]_vars => CloseInv'
<1> SUFFICES ASSUME TypeOK, CloseInv, [Next]_vars PROVE CloseInv'
  OBVIOUS
<1>1. ASSUME NEW s \in Stream, RemoteWrite(s) \/ ReadAndQueue(s) PROVE CloseInv'
  BY <1>1, CloseStutter DEF RemoteWrite, ReadAndQueue, watchers, terminal
<1>2. CASE ReaderChecks \/ ReadRaises
  BY <1>2, CloseStutter DEF ReaderChecks, ReadRaises, watchers, terminal
<1>3. ASSUME NEW w \in Consumer, DrainOne(w) PROVE CloseInv'
  BY <1>3, CloseStutter DEF DrainOne, terminal
<1>4. CASE Emit
  BY <1>4 DEF Emit, CloseInv, Known, terminal
<1>5. ASSUME NEW p \in Poller, Poll(p) \/ AnswerPoll(p) PROVE CloseInv'
  BY <1>5, CloseStutter DEF Poll, AnswerPoll, terminal
<1>6. CASE UNCHANGED vars
  BY <1>6, CloseStutter DEF vars, watchers, terminal
<1>7. QED
  BY <1>1, <1>2, <1>3, <1>4, <1>5, <1>6, CloseSetup, CloseLook, CloseCloser
     DEF Next, ReaderStep, StreamerStep, PollerStep, Consumer

\* Whoever closes, and however many close at once, the terminal leaves the table
\* stopped and disconnected, and nothing but a close stops it.
THEOREM CloseCorrect == Spec => []CloseInv
<1>1. Init => CloseInv
  BY DEF Init, CloseInv, Known
<1>2. QED
  BY <1>1, CloseNext, TypeCorrect, PTL DEF Spec

\* So a browser that is told of a disconnection has had its connection closed.
THEOREM ToldCorrect == Spec => []ToldMeansClosed
<1>1. CloseInv => ToldMeansClosed
  BY DEF CloseInv, ToldMeansClosed
<1>2. QED
  BY <1>1, CloseCorrect, PTL

\* And a connection that requests no longer find does not live on.
THEOREM GoneCorrect == Spec => []GoneMeansDisconnected
<1>1. CloseInv => GoneMeansDisconnected
  BY DEF CloseInv, GoneMeansDisconnected
<1>2. QED
  BY <1>1, CloseCorrect, PTL

-----------------------------------------------------------------------------
(* Output.                                                                 *)

\* Three sequences one after the other.
LEMMA ThreeParts ==
    ASSUME NEW S, NEW a \in Seq(S), NEW b \in Seq(S), NEW c \in Seq(S)
    PROVE  /\ a \o b \o c \in Seq(S)
           /\ Len(a \o b \o c) = Len(a) + Len(b) + Len(c)
           /\ \A i \in 1..Len(a) + Len(b) + Len(c) : (a \o b \o c)[i] =
                IF i <= Len(a) THEN a[i]
                ELSE IF i <= Len(a) + Len(b) THEN b[i - Len(a)]
                ELSE c[i - (Len(a) + Len(b))]
<1>1. /\ a \o b \in Seq(S) /\ Len(a \o b) = Len(a) + Len(b)
      /\ \A i \in 1..Len(a) + Len(b) :
            (a \o b)[i] = IF i <= Len(a) THEN a[i] ELSE b[i - Len(a)]
  BY ConcatProperties
<1> DEFINE ab == a \o b
<1>2. /\ ab \o c \in Seq(S) /\ Len(ab \o c) = Len(ab) + Len(c)
      /\ \A i \in 1..Len(ab) + Len(c) :
            (ab \o c)[i] = IF i <= Len(ab) THEN ab[i] ELSE c[i - Len(ab)]
  <2> HIDE DEF ab
  <2>1. ab \in Seq(S)
    BY <1>1 DEF ab
  <2>2. QED
    BY <2>1, ConcatProperties
<1>3. Len(a) \in Nat /\ Len(b) \in Nat /\ Len(c) \in Nat
  BY LenProperties
<1>4. ASSUME NEW i \in 1..Len(a) + Len(b) + Len(c)
      PROVE  (ab \o c)[i] = IF i <= Len(a) THEN a[i]
                            ELSE IF i <= Len(a) + Len(b) THEN b[i - Len(a)]
                            ELSE c[i - (Len(a) + Len(b))]
  <2>1. (ab \o c)[i] = IF i <= Len(ab) THEN ab[i] ELSE c[i - Len(ab)]
    BY <1>1, <1>2
  <2>2. i <= Len(a) + Len(b) => ab[i] = IF i <= Len(a) THEN a[i] ELSE b[i - Len(a)]
    BY <1>1, <1>3
  <2>3. QED
    BY <1>1, <1>3, <2>1, <2>2
<1>5. QED
  BY <1>1, <1>2, <1>4

LEMMA RangeAppend ==
    ASSUME NEW S, NEW s \in Seq(S), NEW e \in S
    PROVE  Range(Append(s, e)) = Range(s) \cup {e}
<1>1. /\ Append(s, e) \in Seq(S) /\ Len(Append(s, e)) = Len(s) + 1
      /\ \A i \in 1..Len(s) : Append(s, e)[i] = s[i]
      /\ Append(s, e)[Len(s) + 1] = e
  BY AppendProperties
<1>2. DOMAIN s = 1..Len(s) /\ DOMAIN Append(s, e) = 1..Len(s) + 1 /\ Len(s) \in Nat
  BY <1>1, LenProperties
<1> DEFINE f == Append(s, e)
<1> HIDE DEF f
<1>3. /\ DOMAIN f = 1..Len(s) + 1 /\ f[Len(s) + 1] = e
      /\ \A i \in 1..Len(s) : f[i] = s[i]
  BY <1>1, <1>2 DEF f
<1>4. Range(f) = Range(s) \cup {e}
  BY <1>2, <1>3 DEF Range
<1>5. QED
  BY <1>4 DEF f

LEMMA RangeEmpty == Range(<<>>) = {}
BY DEF Range

LEMMA PathType ==
    ASSUME TypeOK
    PROVE  /\ Path \in Seq(Chunk) /\ DOMAIN Path = 1..Len(Path)
           /\ Len(got) \in Nat /\ Len(output[Streamer]) \in Nat /\ Len(queue) \in Nat
           /\ Len(Path) = Len(got) + Len(output[Streamer]) + Len(queue)
           /\ \A i \in 1..Len(Path) : Path[i] =
                IF i <= Len(got) THEN got[i]
                ELSE IF i <= Len(got) + Len(output[Streamer]) THEN output[Streamer][i - Len(got)]
                ELSE queue[i - (Len(got) + Len(output[Streamer]))]
<1>1. got \in Seq(Chunk) /\ output[Streamer] \in Seq(Chunk) /\ queue \in Seq(Chunk)
  BY DEF TypeOK, Consumer
<1> DEFINE o == output[Streamer]
<1>2. o \in Seq(Chunk) /\ Path = got \o o \o queue
  BY <1>1 DEF Path
<1> HIDE DEF o
<1>3. /\ Path \in Seq(Chunk) /\ Len(Path) = Len(got) + Len(o) + Len(queue)
      /\ \A i \in 1..Len(got) + Len(o) + Len(queue) : Path[i] =
            IF i <= Len(got) THEN got[i]
            ELSE IF i <= Len(got) + Len(o) THEN o[i - Len(got)]
            ELSE queue[i - (Len(got) + Len(o))]
  BY <1>1, <1>2, ThreeParts
<1>4. Len(got) \in Nat /\ Len(o) \in Nat /\ Len(queue) \in Nat /\ DOMAIN Path = 1..Len(Path)
  BY <1>1, <1>2, <1>3, LenProperties
<1>5. QED
  BY <1>3, <1>4 DEF o

\* The streaming thread moves a chunk, or all it has drained, along the path.
LEMMA PathSame ==
    ASSUME TypeOK, DrainOne(Streamer) \/ Emit PROVE Path' = Path
<1> DEFINE o == output[Streamer]
<1>1. got \in Seq(Chunk) /\ o \in Seq(Chunk) /\ queue \in Seq(Chunk)
  BY DEF TypeOK, Consumer
<1>2. CASE Emit
  <2>1. got' = got \o o /\ output'[Streamer] = <<>> /\ queue = <<>> /\ queue' = <<>>
    BY <1>2 DEF Emit, TypeOK, Consumer
  <2>2. Path' = ((got \o o) \o <<>>) \o <<>> /\ Path = (got \o o) \o <<>>
    BY <2>1 DEF Path
  <2>3. got \o o \in Seq(Chunk)
    BY <1>1, ConcatProperties
  <2> HIDE DEF o
  <2>4. (got \o o) \o <<>> = got \o o
    BY <2>3, ConcatEmptySeq
  <2>5. QED
    BY <2>2, <2>4
<1>3. CASE DrainOne(Streamer)
  <2>1. /\ queue # <<>> /\ got' = got /\ queue' = Tail(queue)
        /\ output'[Streamer] = Append(o, Head(queue))
    BY <1>3 DEF DrainOne, TypeOK, Consumer
  <2> HIDE DEF o
  <2>2. Head(queue) \in Chunk /\ Tail(queue) \in Seq(Chunk)
    BY <1>1, <2>1, HeadTailProperties
  <2>3. <<Head(queue)>> \in Seq(Chunk) /\ queue = <<Head(queue)>> \o Tail(queue)
    BY <1>1, <2>1, <2>2
  <2>4. Append(o, Head(queue)) = o \o <<Head(queue)>>
    BY <1>1, <2>2, AppendIsConcat
  <2>5. got \o (o \o <<Head(queue)>>) = (got \o o) \o <<Head(queue)>>
    BY <1>1, <2>3, ConcatAssociative
  <2>6. got \o o \in Seq(Chunk)
    BY <1>1, ConcatProperties
  <2>7. ((got \o o) \o <<Head(queue)>>) \o Tail(queue) = (got \o o) \o (<<Head(queue)>> \o Tail(queue))
    BY <2>2, <2>3, <2>6, ConcatAssociative
  <2>8. QED
    BY <2>1, <2>3, <2>4, <2>5, <2>7 DEF Path, o
<1>4. QED
  BY <1>2, <1>3

\* What the reader reads goes to the end of the path.
LEMMA PathRead ==
    ASSUME TypeOK, NEW s \in Stream, ReadAndQueue(s), received[s] < sent[s]
    PROVE  LET c == [stream |-> s, number |-> received[s] + 1] IN
           c \in Chunk /\ Path' = Append(Path, c)
<1> DEFINE c == [stream |-> s, number |-> received[s] + 1]
           o == output[Streamer]
<1>1. got \in Seq(Chunk) /\ o \in Seq(Chunk) /\ queue \in Seq(Chunk)
  BY DEF TypeOK, Consumer
<1>2. c \in Chunk
  BY TerminalAssumption DEF TypeOK, Chunk
<1>3. queue' = Append(queue, c) /\ got' = got /\ output' = output
  BY DEF ReadAndQueue, watchers
<1> HIDE DEF c, o
<1>4. queue' = queue \o <<c>> /\ <<c>> \in Seq(Chunk) /\ got \o o \in Seq(Chunk)
  BY <1>1, <1>2, <1>3, AppendIsConcat, ConcatProperties
<1>5. (got \o o) \o (queue \o <<c>>) = ((got \o o) \o queue) \o <<c>>
  BY <1>1, <1>4, ConcatAssociative
<1>6. Append((got \o o) \o queue, c) = ((got \o o) \o queue) \o <<c>>
  BY <1>1, <1>2, <1>4, ConcatProperties, AppendIsConcat
<1>7. Path' = (got \o o) \o (queue \o <<c>>) /\ Path = (got \o o) \o queue
  BY <1>3, <1>4 DEF Path, o
<1>8. QED
  BY <1>2, <1>5, <1>6, <1>7 DEF c

\* A poller takes the first chunk of the queue out of the path.
LEMMA PathTake ==
    ASSUME TypeOK, NEW p \in Poller, DrainOne(p)
    PROVE  LET k == Len(got) + Len(output[Streamer]) + 1 IN
           /\ k \in 1..Len(Path) /\ Path[k] = Head(queue) /\ Head(queue) \in Chunk
           /\ Path' \in Seq(Chunk) /\ DOMAIN Path' = 1..Len(Path')
           /\ Len(Path') = Len(Path) - 1
           /\ \A i \in 1..Len(Path') : Path'[i] = IF i < k THEN Path[i] ELSE Path[i + 1]
<1> DEFINE o == output[Streamer]
           k == Len(got) + Len(o) + 1
           q == Tail(queue)
<1>1. got \in Seq(Chunk) /\ o \in Seq(Chunk) /\ queue \in Seq(Chunk) /\ queue # <<>>
  BY DEF TypeOK, Consumer, DrainOne
<1>2. p # Streamer
  BY TerminalAssumption DEF Streamer
<1>3. got' = got /\ output'[Streamer] = o /\ queue' = q
  BY <1>2 DEF TypeOK, Consumer, DrainOne
<1>4. Path' = got \o o \o q
  BY <1>3 DEF Path
<1> HIDE DEF o
<1>5. /\ Head(queue) \in Chunk /\ q \in Seq(Chunk) /\ Len(q) = Len(queue) - 1
      /\ \A i \in 1..Len(q) : q[i] = queue[i + 1]
  BY <1>1, HeadTailProperties
<1>6. Head(queue) = queue[1]
  BY <1>1
<1> HIDE DEF q
<1>7. /\ Path' \in Seq(Chunk) /\ Len(Path') = Len(got) + Len(o) + Len(q)
      /\ \A i \in 1..Len(got) + Len(o) + Len(q) : Path'[i] =
            IF i <= Len(got) THEN got[i]
            ELSE IF i <= Len(got) + Len(o) THEN o[i - Len(got)]
            ELSE q[i - (Len(got) + Len(o))]
  <2>1. q \in Seq(Chunk)
    BY <1>5
  <2>2. QED
    BY <1>1, <1>4, <2>1, ThreeParts
<1>8. /\ Len(got) \in Nat /\ Len(o) \in Nat /\ Len(queue) \in Nat /\ Len(q) \in Nat
      /\ Len(Path) = Len(got) + Len(o) + Len(queue)
      /\ \A i \in 1..Len(Path) : Path[i] =
            IF i <= Len(got) THEN got[i]
            ELSE IF i <= Len(got) + Len(o) THEN o[i - Len(got)]
            ELSE queue[i - (Len(got) + Len(o))]
  BY <1>5, PathType, LenProperties DEF o
<1>9. k \in 1..Len(Path) /\ Path[k] = queue[1] /\ Len(Path') = Len(Path) - 1
  BY <1>5, <1>7, <1>8
<1>10. \A i \in 1..Len(Path') : Path'[i] = IF i < k THEN Path[i] ELSE Path[i + 1]
  <2>1. SUFFICES ASSUME NEW i \in 1..Len(Path')
                 PROVE  Path'[i] = IF i < k THEN Path[i] ELSE Path[i + 1]
    OBVIOUS
  <2>2. CASE i < k
    <3>1. i \in 1..Len(Path) /\ i <= Len(got) + Len(o)
      BY <1>7, <1>8, <2>2, <1>5
    <3>2. Path'[i] = IF i <= Len(got) THEN got[i] ELSE o[i - Len(got)]
      BY <1>7, <3>1
    <3>3. Path[i] = IF i <= Len(got) THEN got[i] ELSE o[i - Len(got)]
      BY <1>8, <3>1
    <3>4. QED
      BY <2>2, <3>2, <3>3
  <2>3. CASE i >= k
    <3>1. Path'[i] = q[i - (Len(got) + Len(o))] /\ i - (Len(got) + Len(o)) \in 1..Len(q)
      BY <1>5, <1>7, <1>8, <2>3
    <3>2. Path[i + 1] = queue[i + 1 - (Len(got) + Len(o))]
      BY <1>5, <1>7, <1>8, <2>3
    <3>3. q[i - (Len(got) + Len(o))] = queue[i - (Len(got) + Len(o)) + 1]
      BY <1>5, <3>1
    <3>4. i + 1 - (Len(got) + Len(o)) = i - (Len(got) + Len(o)) + 1
      BY <1>8
    <3>5. ~(i < k)
      BY <1>8, <2>3
    <3>6. Path'[i] = Path[i + 1]
      BY <3>1, <3>2, <3>3, <3>4
    <3>7. QED
      BY <3>5, <3>6
  <2>4. QED
    BY <1>8, <2>2, <2>3
<1>11. DOMAIN Path' = 1..Len(Path')
  BY <1>7, LenProperties
<1>12. QED
  BY <1>5, <1>6, <1>7, <1>9, <1>10, <1>11 DEF o

\* What pollers have taken, as each of their steps changes it.
LEMMA TakenByPoller ==
    ASSUME TypeOK, NEW p \in Poller
    PROVE  /\ DrainOne(p) => Taken' = Taken \cup {Head(queue)}
           /\ AnswerPoll(p) => Taken' = Taken
<1>1. output[p] \in Seq(Chunk) /\ p # Streamer /\ p \in Consumer
  BY TerminalAssumption DEF TypeOK, Consumer, Streamer
<1>2. ASSUME DrainOne(p) PROVE Taken' = Taken \cup {Head(queue)}
  <2>1. Head(queue) \in Chunk
    BY <1>2, HeadTailProperties DEF TypeOK, DrainOne
  <2>2. Range(output'[p]) = Range(output[p]) \cup {Head(queue)}
    <3>1. output'[p] = Append(output[p], Head(queue))
      BY <1>1, <1>2 DEF TypeOK, DrainOne
    <3>2. QED
      BY <1>1, <2>1, <3>1, RangeAppend
  <2>3. polled' = polled /\ \A r \in Poller : r # p => output'[r] = output[r]
    BY <1>2 DEF TypeOK, DrainOne, Consumer
  <2>4. QED
    BY <2>2, <2>3 DEF Taken
<1>3. ASSUME AnswerPoll(p) PROVE Taken' = Taken
  <2>1. Range(output'[p]) = {}
    BY <1>1, <1>3, RangeEmpty DEF TypeOK, AnswerPoll
  <2>2. polled' = polled \cup Range(output[p]) /\ \A r \in Poller : r # p => output'[r] = output[r]
    BY <1>3 DEF TypeOK, AnswerPoll, Consumer
  <2>3. QED
    BY <2>1, <2>2 DEF Taken
<1>4. QED
  BY <1>2, <1>3

\* A step of anybody else leaves what pollers have taken.
LEMMA TakenSame ==
    ASSUME polled' = polled, \A p \in Poller : output'[p] = output[p]
    PROVE  Taken' = Taken
BY DEF Taken

LEMMA PathRest ==
    ASSUME TypeOK, PathInv, received' = received, Path' = Path, Taken' = Taken,
           \A s \in Stream : sent'[s] >= sent[s], sent' \in [Stream -> Nat]
    PROVE  PathInv'
<1>1. \A s \in Stream : received'[s] <= sent'[s]
  BY DEF TypeOK, PathInv
<1>2. QED
  BY <1>1 DEF PathInv

LEMMA PathReadInv ==
    ASSUME TypeOK, PathInv, NEW s \in Stream, ReadAndQueue(s) PROVE PathInv'
<1>1. sent' = sent /\ Taken' = Taken
  BY TakenSame DEF ReadAndQueue, watchers
<1>2. CASE received[s] < sent[s]
  <2> DEFINE c == [stream |-> s, number |-> received[s] + 1]
             m == Len(Path)
  <2>1. c \in Chunk /\ Path' = Append(Path, c) /\ received' = [received EXCEPT ![s] = @ + 1]
    BY <1>2, PathRead DEF ReadAndQueue
  <2>2. /\ Path \in Seq(Chunk) /\ m \in Nat /\ Len(Path') = m + 1
        /\ \A i \in 1..m : Path'[i] = Path[i] /\ Path[i] \in Range(Path) /\ Path[i] \in Chunk
        /\ Path'[m + 1] = c /\ Range(Path') = Range(Path) \cup {c}
    <3>1. Path \in Seq(Chunk) /\ m \in Nat /\ DOMAIN Path = 1..m
      BY PathType, LenProperties
    <3>2. /\ Len(Path') = m + 1 /\ Path'[m + 1] = c /\ Range(Path') = Range(Path) \cup {c}
          /\ \A i \in 1..m : Path'[i] = Path[i]
      BY <2>1, <3>1, AppendProperties, RangeAppend
    <3>3. \A i \in 1..m : Path[i] \in Range(Path) /\ Path[i] \in Chunk
      BY <3>1 DEF Range
    <3>4. QED
      BY <3>1, <3>2, <3>3
  <2>3. c.stream = s /\ c.number = received[s] + 1 /\ received[s] \in Nat /\ received'[s] = received[s] + 1
    BY <2>1 DEF TypeOK
  <2>4. \A r \in Stream : received'[r] <= sent'[r]
    BY <1>1, <1>2, <2>1 DEF TypeOK, PathInv
  <2>5. ASSUME NEW d \in Chunk
        PROVE  d.number <= received'[d.stream] <=> d \in Range(Path') \cup Taken'
    <3>1. d.stream \in Stream /\ d.number \in Nat /\ (d.number <= received[d.stream] <=> d \in Range(Path) \cup Taken)
      BY DEF Chunk, PathInv
    <3>2. CASE d.stream # s
      BY <1>1, <2>1, <2>2, <2>3, <3>1, <3>2 DEF TypeOK
    <3>3. CASE d.stream = s
      <4>1. d = c <=> d.number = received[s] + 1
        BY <2>3, <3>3 DEF Chunk
      <4>2. QED
        BY <1>1, <2>2, <2>3, <3>1, <3>3, <4>1
    <3>4. QED
      BY <3>2, <3>3
  <2>6. ASSUME NEW i \in 1..Len(Path'), NEW j \in 1..Len(Path'), i < j,
               Path'[i].stream = Path'[j].stream
        PROVE  Path'[i].number < Path'[j].number
    <3>1. i \in 1..m /\ Path'[i] = Path[i]
      BY <2>2, <2>6
    <3>2. CASE j \in 1..m
      BY <2>2, <2>6, <3>1, <3>2 DEF PathInv
    <3>3. CASE j = m + 1
      <4>1. Path[i] \in Chunk /\ Path[i].stream = s /\ Path[i] \in Range(Path) \cup Taken
        BY <2>2, <2>3, <2>6, <3>1, <3>3
      <4>2. Path[i].number <= received[s] /\ Path[i].number \in Nat
        BY <4>1 DEF PathInv, Chunk
      <4>3. QED
        BY <2>2, <2>3, <3>1, <3>3, <4>2
    <3>4. QED
      BY <2>2, <3>2, <3>3
  <2>7. Range(Path') \cap Taken' = {}
    <3>1. c \notin Taken
      BY <2>1, <2>3 DEF PathInv
    <3>2. QED
      BY <1>1, <2>2, <3>1 DEF PathInv
  <2>8. QED
    BY <2>4, <2>5, <2>6, <2>7 DEF PathInv
<1>3. CASE ~(received[s] < sent[s])
  <2>1. UNCHANGED <<received, queue, got, output>>
    BY <1>3 DEF ReadAndQueue, watchers
  <2>2. Path' = Path
    BY <2>1 DEF Path
  <2>3. QED
    BY <1>1, <2>1, <2>2 DEF PathInv
<1>4. QED
  BY <1>2, <1>3

\* The chunk that a poller takes is nowhere else.
LEMMA PathTakeInv ==
    ASSUME TypeOK, PathInv, NEW p \in Poller, DrainOne(p)
    PROVE  /\ PathInv'
           /\ Head(queue) \in Chunk /\ Head(queue) \notin Range(got) \cup Taken
           /\ Head(queue).number <= sent[Head(queue).stream]
<1> DEFINE k == Len(got) + Len(output[Streamer]) + 1
           c == Head(queue)
           m == Len(Path)
<1>1. /\ k \in 1..m /\ Path[k] = c /\ c \in Chunk
      /\ Path' \in Seq(Chunk) /\ DOMAIN Path' = 1..Len(Path') /\ Len(Path') = m - 1
      /\ \A i \in 1..Len(Path') : Path'[i] = IF i < k THEN Path[i] ELSE Path[i + 1]
  BY PathTake
<1>2. /\ Path \in Seq(Chunk) /\ DOMAIN Path = 1..m /\ m \in Nat /\ Len(got) \in Nat /\ Len(got) < k
      /\ \A i \in 1..Len(got) : i \in 1..m /\ Path[i] = got[i]
  <2>1. /\ Path \in Seq(Chunk) /\ DOMAIN Path = 1..m
        /\ Len(got) \in Nat /\ Len(output[Streamer]) \in Nat /\ Len(queue) \in Nat
        /\ m = Len(got) + Len(output[Streamer]) + Len(queue)
        /\ \A i \in 1..m : i <= Len(got) => Path[i] = got[i]
    BY PathType
  <2> HIDE DEF m
  <2>2. m \in Nat /\ Len(got) < k /\ \A i \in 1..Len(got) : i \in 1..m
    BY <2>1
  <2>3. QED
    BY <2>1, <2>2
<1>3. Taken' = Taken \cup {c} /\ UNCHANGED <<sent, received>>
  BY TakenByPoller DEF DrainOne
<1> HIDE DEF k, c, m
<1>4. \A i, j \in 1..m : Path[i] = Path[j] => i = j
  <2>1. SUFFICES ASSUME NEW i \in 1..m, NEW j \in 1..m, Path[i] = Path[j], i < j PROVE FALSE
    BY <1>2
  <2>2. Path[i].number < Path[j].number
    BY <2>1 DEF PathInv, m
  <2>3. Path[i] \in Chunk
    BY <1>2, <2>1
  <2>4. QED
    BY <2>1, <2>2, <2>3 DEF Chunk
<1>5. Range(Path') = Range(Path) \ {c}
  <2>1. ASSUME NEW d \in Range(Path') PROVE d \in Range(Path) \ {c}
    <3>1. PICK i \in 1..Len(Path') : d = Path'[i]
      BY <1>1, <2>1 DEF Range
    <3>2. PICK j \in 1..m : j # k /\ d = Path[j]
      <4>1. CASE i < k
        BY <1>1, <1>2, <3>1, <4>1
      <4>2. CASE ~(i < k)
        <5>1. i + 1 \in 1..m /\ i + 1 # k /\ d = Path[i + 1]
          BY <1>1, <1>2, <3>1, <4>2
        <5>2. QED
          BY <5>1
      <4>3. QED
        BY <4>1, <4>2
    <3>3. QED
      BY <1>1, <1>2, <1>4, <3>2 DEF Range
  <2>2. ASSUME NEW d \in Range(Path), d # c PROVE d \in Range(Path')
    <3>1. PICK j \in 1..m : j # k /\ d = Path[j]
      BY <1>1, <1>2, <2>2 DEF Range
    <3>2. CASE j < k
      BY <1>1, <1>2, <3>1, <3>2 DEF Range
    <3>3. CASE j > k
      <4>1. j - 1 \in 1..Len(Path') /\ Path'[j - 1] = Path[j - 1 + 1] /\ j - 1 + 1 = j
        BY <1>1, <1>2, <3>1, <3>3
      <4>2. QED
        BY <1>1, <3>1, <4>1 DEF Range
    <3>4. QED
      BY <1>1, <1>2, <3>1, <3>2, <3>3
  <2>3. QED
    BY <2>1, <2>2
<1>6. c \in Range(Path) /\ c \notin Taken
  BY <1>1, <1>2 DEF PathInv, Range
<1>7. PathInv'
  <2>1. \A s \in Stream : received'[s] <= sent'[s]
    BY <1>3 DEF PathInv
  <2>2. \A d \in Chunk : d.number <= received'[d.stream] <=> d \in Range(Path') \cup Taken'
    BY <1>3, <1>5, <1>6 DEF PathInv
  <2>3. ASSUME NEW i \in 1..Len(Path'), NEW j \in 1..Len(Path'), i < j,
               Path'[i].stream = Path'[j].stream
        PROVE  Path'[i].number < Path'[j].number
    <3> DEFINE f == IF i < k THEN i ELSE i + 1
               g == IF j < k THEN j ELSE j + 1
    <3>1. f \in 1..m /\ g \in 1..m /\ f < g /\ Path'[i] = Path[f] /\ Path'[j] = Path[g]
      BY <1>1, <1>2, <2>3
    <3> HIDE DEF f, g
    <3>2. QED
      BY <2>3, <3>1 DEF PathInv, m
  <2>4. Range(Path') \cap Taken' = {}
    BY <1>3, <1>5 DEF PathInv
  <2>5. QED
    BY <2>1, <2>2, <2>3, <2>4 DEF PathInv
<1>8. c \notin Range(got)
  <2>1. SUFFICES ASSUME c \in Range(got) PROVE FALSE
    OBVIOUS
  <2>2. PICK i \in 1..Len(got) : c = got[i]
    BY <2>1, LenProperties DEF Range, TypeOK
  <2>3. i \in 1..m /\ Path[i] = c /\ i # k
    BY <1>1, <1>2, <2>2
  <2>4. QED
    BY <1>1, <1>4, <2>3
<1>9. c.number <= sent[c.stream]
  <2>1. c.number <= received[c.stream] /\ c.number \in Nat /\ c.stream \in Stream
    BY <1>1, <1>6 DEF PathInv, Chunk
  <2>2. received[c.stream] <= sent[c.stream] /\ received[c.stream] \in Nat /\ sent[c.stream] \in Nat
    BY <2>1 DEF PathInv, TypeOK
  <2>3. QED
    BY <2>1, <2>2
<1>10. QED
  BY <1>1, <1>6, <1>7, <1>8, <1>9 DEF c

LEMMA PathNext == TypeOK /\ PathInv /\ [Next]_vars => PathInv'
<1> SUFFICES ASSUME TypeOK, PathInv, [Next]_vars PROVE PathInv'
  OBVIOUS
<1>0. \A s \in Stream : sent[s] >= sent[s] /\ sent \in [Stream -> Nat]
  BY DEF TypeOK
<1>1. ASSUME UNCHANGED <<sent, received, queue, got, output, polled>> PROVE PathInv'
  <2>1. Path' = Path /\ Taken' = Taken
    BY <1>1 DEF Path, Taken
  <2>2. QED
    BY <1>1, <2>1 DEF PathInv
<1>2. CASE SetupStep \/ ReaderChecks \/ ReadRaises
  BY <1>1, <1>2
     DEF SetupStep, Connect, Insert, Announce, StartStreaming, ReaderChecks, ReadRaises, watchers
<1>3. CASE Look
  BY <1>1, <1>3 DEF Look
<1>4. ASSUME NEW p \in Poller, Poll(p) PROVE PathInv'
  BY <1>1, <1>4 DEF Poll
<1>5. ASSUME NEW c \in Closer, Enter(c) \/ CloserStep(c) PROVE PathInv'
  BY <1>1, <1>5 DEF Enter, CloserStep, SetStop, Join, Delist, watchers
<1>6. ASSUME NEW s \in Stream, RemoteWrite(s) PROVE PathInv'
  <2>1. Path' = Path /\ Taken' = Taken /\ received' = received
    BY <1>6 DEF RemoteWrite, watchers, Path, Taken
  <2>2. sent' \in [Stream -> Nat] /\ \A r \in Stream : sent'[r] >= sent[r]
    BY <1>6 DEF TypeOK, RemoteWrite
  <2>3. QED
    BY <2>1, <2>2, PathRest
<1>7. CASE DrainOne(Streamer) \/ Emit
  <2>1. UNCHANGED <<sent, received, polled>> /\ \A p \in Poller : output'[p] = output[p]
    BY <1>7, TerminalAssumption DEF DrainOne, Emit, TypeOK, Consumer, Streamer
  <2>2. Path' = Path /\ Taken' = Taken
    BY <1>7, <2>1, PathSame, TakenSame
  <2>3. QED
    BY <2>1, <2>2 DEF PathInv
<1>8. ASSUME NEW p \in Poller, AnswerPoll(p) PROVE PathInv'
  <2>1. UNCHANGED <<sent, received, got, queue>> /\ output'[Streamer] = output[Streamer]
    BY <1>8, TerminalAssumption DEF AnswerPoll, TypeOK, Consumer, Streamer
  <2>2. Path' = Path /\ Taken' = Taken
    BY <1>8, <2>1, TakenByPoller DEF Path
  <2>3. QED
    BY <2>1, <2>2 DEF PathInv
<1>9. CASE UNCHANGED vars
  BY <1>1, <1>9 DEF vars, watchers
<1>10. QED
  BY <1>2, <1>3, <1>4, <1>5, <1>6, <1>7, <1>8, <1>9, PathReadInv, PathTakeInv
     DEF Next, ReaderStep, StreamerStep, PollerStep

LEMMA PathInit == Init => PathInv
<1> SUFFICES ASSUME Init PROVE PathInv
  OBVIOUS
<1>1. Path = <<>> /\ Taken = {} /\ received = [s \in Stream |-> 0] /\ sent = [s \in Stream |-> 0]
  <2>1. got = <<>> /\ queue = <<>> /\ output[Streamer] = <<>>
    BY DEF Init, Consumer
  <2>2. <<>> \o <<>> = <<>>
    OBVIOUS
  <2>3. polled = {} /\ \A p \in Poller : output[p] = <<>>
    BY DEF Init, Consumer
  <2>4. QED
    BY <2>1, <2>2, <2>3, RangeEmpty DEF Init, Path, Taken
<1>2. Len(<<>>) = 0 /\ Range(<<>>) = {}
  BY RangeEmpty
<1>3. \A c \in Chunk : c.stream \in Stream /\ ~(c.number <= 0)
  BY TerminalAssumption DEF Chunk
<1>4. \A s \in Stream : received[s] <= sent[s]
  BY <1>1
<1>5. \A c \in Chunk : c.number <= received[c.stream] <=> c \in Range(Path) \cup Taken
  BY <1>1, <1>2, <1>3
<1>6. \A m, n \in 1..Len(Path) :
        m < n /\ Path[m].stream = Path[n].stream => Path[m].number < Path[n].number
  BY <1>1, <1>2
<1>7. QED
  BY <1>1, <1>2, <1>4, <1>5, <1>6 DEF PathInv

\* However the queue is shared out among the streaming thread and pollers, a
\* chunk is in one place, and chunks on the way to the browser are in order.
THEOREM PathCorrect == Spec => []PathInv
<1>1. QED
  BY PathInit, PathNext, TypeCorrect, PTL DEF Spec

-----------------------------------------------------------------------------
(* Refinement: queue and threads implement OutputPipe.                     *)

LEMMA PrefixOfConcat ==
    ASSUME NEW S, NEW a \in Seq(S), NEW b \in Seq(S), b # <<>>
    PROVE  IsStrictPrefix(a, a \o b)
<1>1. /\ a \o b \in Seq(S) /\ Len(a \o b) = Len(a) + Len(b)
      /\ \A i \in 1..Len(a) + Len(b) :
            (a \o b)[i] = IF i <= Len(a) THEN a[i] ELSE b[i - Len(a)]
  BY ConcatProperties
<1>2. Len(a) \in Nat /\ Len(b) \in Nat /\ Len(b) # 0
  BY LenProperties, EmptySeq
<1> DEFINE ab == a \o b
<1> HIDE DEF ab
<1>3. ab \in Seq(S) /\ Len(ab) = Len(a) + Len(b) /\ \A i \in 1..Len(a) : ab[i] = a[i]
  BY <1>1, <1>2 DEF ab
<1>4. SubSeq(a, 1, Len(a)) = SubSeq(ab, 1, Len(a))
  BY <1>2, <1>3
<1>5. Len(a) <= Len(ab) /\ a # ab
  BY <1>2, <1>3
<1>6. IsStrictPrefix(a, ab)
  BY <1>4, <1>5 DEF IsStrictPrefix, IsPrefix
<1>7. QED
  BY <1>6 DEF ab

\* What the streaming thread emits arrives: it is the rest of the path.
LEMMA EmitDelivers ==
    ASSUME TypeOK, PathInv, Emit, output[Streamer] # <<>> PROVE Pipe!Deliver
<1> DEFINE o == output[Streamer]
<1>1. got \in Seq(Chunk) /\ o \in Seq(Chunk) /\ queue \in Seq(Chunk)
  BY DEF TypeOK, Consumer
<1>2. got' = got \o o /\ Path = got'
  <2>1. got' = got \o o /\ Path = (got \o o) \o <<>>
    BY DEF Emit, Path
  <2>2. got \o o \in Seq(Chunk)
    BY <1>1, ConcatProperties
  <2> HIDE DEF o
  <2>3. QED
    BY <2>1, <2>2, ConcatEmptySeq
<1>3. Pipe!IsStrictPrefix(got, got')
  <2>1. o # <<>>
    OBVIOUS
  <2> HIDE DEF o
  <2>2. IsStrictPrefix(got, got \o o)
    BY <1>1, <2>1, PrefixOfConcat
  <2>3. QED
    BY <1>2, <2>2 DEF Pipe!IsStrictPrefix, IsStrictPrefix, Pipe!IsPrefix, IsPrefix
<1>4. /\ Path \in Seq(Chunk) /\ DOMAIN Path = 1..Len(Path) /\ Len(got) \in Nat
      /\ Len(Path) \in Nat
  BY PathType, LenProperties
<1>5. ASSUME NEW n \in Len(got) + 1..Len(got')
      PROVE  LET before == {got'[m] : m \in 1..n - 1} \cup Taken IN
             /\ Pipe!Written(got'[n]) /\ got'[n] \notin before
             /\ \A m \in 1..got'[n].number - 1 : [got'[n] EXCEPT !.number = m] \in before
  <2> DEFINE c == Path[n]
             before == {Path[m] : m \in 1..n - 1} \cup Taken
  <2>1. n \in 1..Len(Path) /\ c \in Chunk /\ c \in Range(Path) /\ n \in Nat
    <3>1. n \in 1..Len(Path) /\ n \in Nat
      BY <1>2, <1>4, <1>5
    <3>2. QED
      BY <1>4, <3>1 DEF Range
  <2>2. /\ c.stream \in Stream /\ c.number \in Nat
        /\ received[c.stream] \in Nat /\ sent[c.stream] \in Nat
    BY <2>1 DEF Chunk, TypeOK
  <2>3. c.number <= received[c.stream] /\ received[c.stream] <= sent[c.stream]
    BY <2>1, <2>2 DEF PathInv
  <2>4. c \notin before
    <3>1. c \notin Taken
      BY <2>1 DEF PathInv
    <3>2. ASSUME NEW m \in 1..n - 1, Path[m] = c PROVE FALSE
      <4>1. m \in 1..Len(Path) /\ m < n
        BY <1>4, <2>1
      <4>2. Path[m].number < c.number
        BY <2>1, <3>2, <4>1 DEF PathInv
      <4>3. QED
        BY <2>2, <3>2, <4>2
    <3>3. QED
      BY <3>1, <3>2
  <2>5. ASSUME NEW m \in 1..c.number - 1 PROVE [c EXCEPT !.number = m] \in before
    <3> DEFINE d == [c EXCEPT !.number = m]
    <3>1. d \in Chunk /\ d.stream = c.stream /\ d.number = m /\ m < c.number
      BY <2>1, <2>2, TerminalAssumption DEF Chunk
    <3>2. d \in Range(Path) \cup Taken
      <4> HIDE DEF c, d
      <4>1. d.number <= received[d.stream]
        BY <2>2, <2>3, <3>1
      <4>2. QED
        BY <3>1, <4>1 DEF PathInv
    <3>3. CASE d \in Range(Path)
      <4>1. PICK j \in 1..Len(Path) : d = Path[j]
        BY <1>4, <3>3 DEF Range
      <4>2. ~(n < j) /\ j # n
        <5>1. ASSUME n < j PROVE FALSE
          <6>1. Path[n].stream = Path[j].stream
            BY <3>1, <4>1
          <6>2. Path[n].number < Path[j].number
            BY <2>1, <4>1, <5>1, <6>1 DEF PathInv
          <6> HIDE DEF d
          <6>3. QED
            BY <2>2, <3>1, <4>1, <6>2
        <5>2. j # n
          <6> HIDE DEF d
          <6>1. QED
            BY <2>2, <3>1, <4>1
        <5>3. QED
          BY <5>1, <5>2
      <4>3. j \in 1..n - 1
        BY <1>4, <2>1, <4>2
      <4>4. QED
        BY <4>1, <4>3
    <3>4. QED
      BY <3>2, <3>3
  <2>6. Pipe!Written(c)
    BY <2>2, <2>3 DEF Pipe!Written
  <2>7. got'[n] = c /\ {got'[m] : m \in 1..n - 1} \cup Taken = before
    BY <1>2
  <2> HIDE DEF c, before
  <2>8. QED
    BY <2>4, <2>5, <2>6, <2>7
<1>6. UNCHANGED <<sent, Taken, socket, setup, stop, reader>>
  <2>1. UNCHANGED <<sent, polled, socket, setup, stop, reader>>
    BY DEF Emit, terminal
  <2>2. \A p \in Poller : output'[p] = output[p]
    BY TerminalAssumption DEF Emit, TypeOK, Consumer, Streamer
  <2>3. QED
    BY <2>1, <2>2, TakenSame
<1>7. QED
  BY <1>3, <1>5, <1>6 DEF Pipe!Deliver

\* Every step of the terminal is a step of the pipe or none.
LEMMA PipeStep ==
    ASSUME TypeOK, PathInv, [Next]_vars PROVE [Pipe!PipeNext]_(Pipe!pipeVars)
<1> DEFINE Open == socket /\ setup = "done" /\ ~stop /\ reader # "failed"
<1>1. ASSUME UNCHANGED <<sent, got, Taken>> PROVE [Pipe!PipeNext]_(Pipe!pipeVars)
  BY <1>1, Zenon DEF Pipe!PipeNext, Pipe!OpenOrClose
<1>2. ASSUME UNCHANGED <<sent, got, polled, output>> PROVE [Pipe!PipeNext]_(Pipe!pipeVars)
  BY <1>1, <1>2 DEF Taken
<1>3. CASE SetupStep \/ ReaderChecks \/ ReadRaises \/ Look
  BY <1>2, <1>3
     DEF SetupStep, Connect, Insert, Announce, StartStreaming, ReaderChecks, ReadRaises, Look, watchers
<1>4. ASSUME NEW s \in Stream, ReadAndQueue(s) PROVE [Pipe!PipeNext]_(Pipe!pipeVars)
  BY <1>2, <1>4 DEF ReadAndQueue, watchers
<1>5. ASSUME NEW p \in Poller, Poll(p) PROVE [Pipe!PipeNext]_(Pipe!pipeVars)
  BY <1>2, <1>5 DEF Poll
<1>6. ASSUME NEW c \in Closer, Enter(c) \/ CloserStep(c) PROVE [Pipe!PipeNext]_(Pipe!pipeVars)
  BY <1>2, <1>6 DEF Enter, CloserStep, SetStop, Join, Delist, watchers
<1>7. ASSUME NEW s \in Stream, RemoteWrite(s) PROVE [Pipe!PipeNext]_(Pipe!pipeVars)
  <2>1. /\ sent' = [sent EXCEPT ![s] = @ + 1]
        /\ UNCHANGED <<got, Taken, socket, setup, stop, reader>>
    BY <1>7 DEF RemoteWrite, watchers, terminal, Taken
  <2>2. Pipe!Write(s)
    BY <2>1 DEF Pipe!Write
  <2>3. QED
    BY <2>2 DEF Pipe!PipeNext
<1>8. CASE DrainOne(Streamer)
  <2>1. UNCHANGED <<sent, got, polled>> /\ \A p \in Poller : output'[p] = output[p]
    BY <1>8, TerminalAssumption DEF DrainOne, TypeOK, Consumer, Streamer
  <2>2. QED
    BY <1>1, <2>1, TakenSame
<1>9. CASE Emit
  <2>1. CASE output[Streamer] # <<>>
    BY <1>9, <2>1, EmitDelivers DEF Pipe!PipeNext
  <2>2. CASE output[Streamer] = <<>>
    <3>1. got' = got
      <4>1. got' = got \o <<>> /\ got \in Seq(Chunk)
        BY <1>9, <2>2 DEF Emit, TypeOK
      <4>2. QED
        BY <4>1, ConcatEmptySeq
    <3>2. UNCHANGED <<sent, polled>> /\ \A p \in Poller : output'[p] = output[p]
      BY <1>9, TerminalAssumption DEF Emit, TypeOK, Consumer, Streamer
    <3>3. QED
      BY <1>1, <3>1, <3>2, TakenSame
  <2>3. QED
    BY <2>1, <2>2
<1>10. ASSUME NEW p \in Poller, DrainOne(p) PROVE [Pipe!PipeNext]_(Pipe!pipeVars)
  <2>1. /\ Taken' = Taken \cup {Head(queue)}
        /\ UNCHANGED <<sent, got, socket, setup, stop, reader>>
    BY <1>10, TakenByPoller DEF DrainOne, terminal
  <2>2. /\ Head(queue) \in Chunk /\ Head(queue) \notin Range(got) \cup Taken
        /\ Head(queue).number <= sent[Head(queue).stream]
    BY <1>10, PathTakeInv
  <2>3. Pipe!Take(Head(queue)) /\ Head(queue) \in Pipe!Chunk
    BY <2>1, <2>2 DEF Pipe!Take, Pipe!Written, Pipe!Chunk, Chunk, Pipe!Range, Range
  <2>4. QED
    BY <2>3 DEF Pipe!PipeNext
<1>11. ASSUME NEW p \in Poller, AnswerPoll(p) PROVE [Pipe!PipeNext]_(Pipe!pipeVars)
  <2>1. UNCHANGED <<sent, got, Taken>>
    BY <1>11, TakenByPoller DEF AnswerPoll
  <2>2. QED
    BY <1>1, <2>1
<1>12. CASE UNCHANGED vars
  BY <1>2, <1>12 DEF vars, watchers
<1>13. QED
  BY <1>3, <1>4, <1>5, <1>6, <1>7, <1>8, <1>9, <1>10, <1>11, <1>12
     DEF Next, ReaderStep, StreamerStep, PollerStep

\* For any pollers and closers, a chunk that the browser gets is one that was
\* written, comes once and after every earlier chunk of its stream that no
\* poller took.
THEOREM PipeCorrect == Spec => ImplementsPipe
<1>1. Init => Pipe!PipeInit
  <2>1. Init => Taken = {}
    <3> SUFFICES ASSUME Init PROVE Taken = {}
      OBVIOUS
    <3>1. polled = {} /\ \A p \in Poller : output[p] = <<>>
      BY DEF Init, Consumer
    <3>2. QED
      BY <3>1, RangeEmpty DEF Taken
  <2>2. QED
    BY <2>1 DEF Init, Pipe!PipeInit
<1>2. QED
  BY <1>1, PipeStep, TypeCorrect, PathCorrect, PTL DEF Spec, ImplementsPipe, Pipe!PipeSpec

=============================================================================
