---------------------------- MODULE SshTerminal -----------------------------
(***************************************************************************)
(* One SSH connection of the web UI (sinduk/web/ssh_handler.py and the     *)
(* handlers of web/app.py): the terminal with its reader thread and output *)
(* queue, its entry in the connection manager, the thread that streams     *)
(* output to the browser, REST requests that poll for it, and requests     *)
(* that close the connection.                                              *)
(*                                                                         *)
(* A step is what a thread does between two accesses to state it shares.   *)
(* What the remote side writes is a numbered chunk per stream (stdout and  *)
(* stderr); decoding and the removal of escape sequences are left out.     *)
(***************************************************************************)
EXTENDS Naturals, Sequences, SequencesExt

CONSTANTS
    Poller, Closer,  \* requests that poll, and that close
    Nobody,          \* no holder of the lock
    Sockets,         \* subset of BOOLEAN: TRUE streams over a WebSocket
    ReaderFails,     \* TRUE: a read may raise
    MaxChunk         \* bound on the chunks of a stream

ASSUME TerminalAssumption ==
    /\ Nobody \notin Closer /\ "streamer" \notin Poller
    /\ Sockets \subseteq BOOLEAN /\ ReaderFails \in BOOLEAN
    /\ MaxChunk \in Nat

VARIABLES
    socket,      \* the browser has a WebSocket
    setup,       \* where the request that connects is
    connected,   \* terminal.connected
    stop,        \* _stop_event
    table,       \* the connection manager has the terminal
    lock,        \* the holder of its lock
    sent,        \* chunks that have reached the channel, by stream
    received,    \* chunks the reader has received, by stream
    reader,      \* where the reader thread is
    queue,       \* output_queue
    streamer,    \* where the streaming thread is
    output,      \* what the streaming thread and each poller have drained
    polling,     \* where each poller is
    closing,     \* where each closer is
    got,         \* chunks sent to the browser over the socket
    polled,      \* chunks answered to polls
    told         \* the streaming thread has emitted ssh_disconnected

terminal == <<connected, stop>>
watchers == <<streamer, output, polling, got, polled, told>>
vars == <<socket, setup, terminal, table, lock, sent, received, reader, queue,
          watchers, closing>>

Stream == {"out", "err"}
Chunk == [stream : Stream, number : 1..MaxChunk]
Streamer == "streamer"
Consumer == Poller \cup {Streamer}

TypeOK ==
    /\ socket \in Sockets /\ connected \in BOOLEAN /\ stop \in BOOLEAN
    /\ table \in BOOLEAN /\ told \in BOOLEAN
    /\ setup \in {"new", "connected", "inserted", "announced", "done"}
    /\ lock \in Closer \cup {Nobody}
    /\ sent \in [Stream -> 0..MaxChunk] /\ received \in [Stream -> 0..MaxChunk]
    /\ reader \in {"none", "check", "out", "err", "ended", "failed"}
    /\ queue \in Seq(Chunk) /\ got \in Seq(Chunk) /\ polled \subseteq Chunk
    /\ streamer \in {"none", "get", "drain", "ended"}
    /\ output \in [Consumer -> Seq(Chunk)]
    /\ polling \in [Poller -> {"idle", "drain"}]
    /\ closing \in [Closer -> {"idle", "stop", "join", "remove", "done"}]

Init ==
    /\ socket \in Sockets
    /\ setup = "new"
    /\ connected = FALSE /\ stop = FALSE /\ table = FALSE
    /\ lock = Nobody
    /\ sent = [s \in Stream |-> 0] /\ received = [s \in Stream |-> 0]
    /\ reader = "none"
    /\ queue = <<>>
    /\ streamer = "none"
    /\ output = [w \in Consumer |-> <<>>]
    /\ polling = [p \in Poller |-> "idle"]
    /\ closing = [c \in Closer |-> "idle"]
    /\ got = <<>> /\ polled = {} /\ told = FALSE

-----------------------------------------------------------------------------
(* The request that connects: create_connection, the answer with the       *)
(* connection's id, and then, with a socket, the streaming thread.         *)

Connect ==
    /\ setup = "new" /\ setup' = "connected"
    /\ connected' = TRUE /\ stop' = FALSE
    /\ reader' = "check"
    /\ UNCHANGED <<socket, table, lock, sent, received, queue, watchers, closing>>

Insert ==
    /\ setup = "connected" /\ lock = Nobody
    /\ setup' = "inserted"
    /\ table' = TRUE
    /\ UNCHANGED <<socket, terminal, lock, sent, received, reader, queue, watchers, closing>>

Announce ==
    /\ setup = "inserted"
    /\ setup' = IF socket THEN "announced" ELSE "done"
    /\ UNCHANGED <<socket, terminal, table, lock, sent, received, reader, queue, watchers, closing>>

\* Variant: the thread is started before the terminal is in the table.
StreamAtOnce ==
    /\ setup = "connected" /\ socket /\ streamer = "none"
    /\ streamer' = "get"
    /\ UNCHANGED <<socket, setup, terminal, table, lock, sent, received, reader,
                   queue, output, polling, closing, got, polled, told>>

StartStreaming ==
    /\ setup = "announced" /\ setup' = "done"
    /\ streamer' = "get"
    /\ UNCHANGED <<socket, terminal, table, lock, sent, received, reader,
                   queue, output, polling, closing, got, polled, told>>

\* The browser knows the connection's id.
Known == setup \in {"announced", "done"}

-----------------------------------------------------------------------------
(* The reader thread: _read_output.                                        *)

\* Output arrives until the channel is closed.
RemoteWrite(s) ==
    /\ connected /\ sent[s] < MaxChunk
    /\ sent' = [sent EXCEPT ![s] = @ + 1]
    /\ UNCHANGED <<socket, setup, terminal, table, lock, received, reader, queue, watchers, closing>>

\* Variant: the loop ends only with the channel, which is never set to None.
ReaderLoops ==
    /\ reader = "check"
    /\ reader' = "out"
    /\ UNCHANGED <<socket, setup, terminal, table, lock, sent, received, queue, watchers, closing>>

ReaderChecks ==
    /\ reader = "check"
    /\ reader' = IF stop \/ ~connected THEN "ended" ELSE "out"
    /\ UNCHANGED <<socket, setup, terminal, table, lock, sent, received, queue, watchers, closing>>

NextPhase(s) == IF s = "out" THEN "err" ELSE "check"

\* Variant: recv is called whether or not anything is ready.
ReadUnready(s) ==
    /\ reader = s
    /\ reader' = NextPhase(s)
    /\ received' = [received EXCEPT ![s] = @ + 1]
    /\ queue' = Append(queue, [stream |-> s, number |-> received[s] + 1])
    /\ UNCHANGED <<socket, setup, terminal, table, lock, sent, watchers, closing>>

\* _read_and_queue: what is ready goes to the queue.
ReadAndQueue(s) ==
    /\ reader = s
    /\ reader' = NextPhase(s)
    /\ IF received[s] < sent[s]
       THEN /\ received' = [received EXCEPT ![s] = @ + 1]
            /\ queue' = Append(queue, [stream |-> s, number |-> received[s] + 1])
       ELSE UNCHANGED <<received, queue>>
    /\ UNCHANGED <<socket, setup, terminal, table, lock, sent, watchers, closing>>

\* A read raises: the thread ends and the terminal stays connected.
ReadRaises ==
    /\ ReaderFails /\ reader \in Stream
    /\ reader' = "failed"
    /\ UNCHANGED <<socket, setup, terminal, table, lock, sent, received, queue, watchers, closing>>

-----------------------------------------------------------------------------
(* Consumers of the queue: get_output takes chunks until there is none.    *)

DrainOne(w) ==
    /\ IF w = Streamer THEN streamer = "drain" ELSE polling[w] = "drain"
    /\ queue # <<>>
    /\ output' = [output EXCEPT ![w] = Append(@, Head(queue))]
    /\ queue' = Tail(queue)
    /\ UNCHANGED <<socket, setup, terminal, table, lock, sent, received, reader,
                   streamer, polling, closing, got, polled, told>>

\* stream(): without a connected terminal the browser is told and the thread ends.
Look ==
    /\ streamer = "get"
    /\ IF table /\ connected
       THEN streamer' = "drain" /\ UNCHANGED told
       ELSE streamer' = "ended" /\ told' = TRUE
    /\ UNCHANGED <<socket, setup, terminal, table, lock, sent, received, reader,
                   queue, output, polling, closing, got, polled>>

\* Variant: only the last piece of what was drained is sent.
EmitLast ==
    /\ streamer = "drain" /\ queue = <<>>
    /\ streamer' = "get"
    /\ got' = IF output[Streamer] = <<>> THEN got ELSE Append(got, Last(output[Streamer]))
    /\ output' = [output EXCEPT ![Streamer] = <<>>]
    /\ UNCHANGED <<socket, setup, terminal, table, lock, sent, received, reader,
                   queue, polling, closing, polled, told>>

Emit ==
    /\ streamer = "drain" /\ queue = <<>>
    /\ streamer' = "get"
    /\ got' = got \o output[Streamer]
    /\ output' = [output EXCEPT ![Streamer] = <<>>]
    /\ UNCHANGED <<socket, setup, terminal, table, lock, sent, received, reader,
                   queue, polling, closing, polled, told>>

\* ssh_get_output, and the wait of ssh_execute for an answer.
Poll(p) ==
    /\ Known /\ table /\ polling[p] = "idle"
    /\ polling' = [polling EXCEPT ![p] = "drain"]
    /\ UNCHANGED <<socket, setup, terminal, table, lock, sent, received, reader,
                   queue, streamer, output, closing, got, polled, told>>

AnswerPoll(p) ==
    /\ polling[p] = "drain" /\ queue = <<>>
    /\ polling' = [polling EXCEPT ![p] = "idle"]
    /\ polled' = polled \cup Range(output[p])
    /\ output' = [output EXCEPT ![p] = <<>>]
    /\ UNCHANGED <<socket, setup, terminal, table, lock, sent, received, reader,
                   queue, streamer, closing, got, told>>

-----------------------------------------------------------------------------
(* close_connection, under the manager's lock.                             *)

MoveCloser(c, p) == closing' = [closing EXCEPT ![c] = p]

\* Variant: the lock is not released if there is no such connection.
EnterHolding(c) ==
    /\ Known /\ closing[c] = "idle" /\ lock = Nobody
    /\ lock' = c
    /\ MoveCloser(c, IF table THEN "stop" ELSE "done")
    /\ UNCHANGED <<socket, setup, terminal, table, sent, received, reader, queue, watchers>>

\* Variant: the entry is taken out of the table first.
EnterPopping(c) ==
    /\ Known /\ closing[c] = "idle" /\ lock = Nobody
    /\ IF table THEN lock' = c /\ MoveCloser(c, "stop")
                ELSE lock' = Nobody /\ MoveCloser(c, "done")
    /\ table' = FALSE
    /\ UNCHANGED <<socket, setup, terminal, sent, received, reader, queue, watchers>>

Enter(c) ==
    /\ Known /\ closing[c] = "idle" /\ lock = Nobody
    /\ IF table THEN lock' = c /\ MoveCloser(c, "stop")
                ELSE lock' = Nobody /\ MoveCloser(c, "done")
    /\ UNCHANGED <<socket, setup, terminal, table, sent, received, reader, queue, watchers>>

\* disconnect sets the event and closes the channel.
SetStop(c) ==
    /\ closing[c] = "stop"
    /\ stop' = TRUE
    /\ MoveCloser(c, "join")
    /\ UNCHANGED <<socket, setup, connected, table, lock, sent, received, reader, queue, watchers>>

\* It waits for the reader, two seconds at most, so that the reader may still run.
Join(c) ==
    /\ closing[c] = "join"
    /\ connected' = FALSE
    /\ MoveCloser(c, "remove")
    /\ UNCHANGED <<socket, setup, stop, table, lock, sent, received, reader, queue, watchers>>

Delist(c) ==
    /\ closing[c] = "remove"
    /\ table' = FALSE
    /\ lock' = Nobody
    /\ MoveCloser(c, "done")
    /\ UNCHANGED <<socket, setup, terminal, sent, received, reader, queue, watchers>>

-----------------------------------------------------------------------------

SetupStep == Connect \/ Insert \/ Announce \/ StartStreaming
ReaderStep == ReaderChecks \/ \E s \in Stream : ReadAndQueue(s)
StreamerStep == Look \/ DrainOne(Streamer) \/ Emit
PollerStep(p) == DrainOne(p) \/ AnswerPoll(p)
CloserStep(c) == SetStop(c) \/ Join(c) \/ Delist(c)

Next ==
    \/ SetupStep \/ ReaderStep \/ ReadRaises \/ StreamerStep
    \/ \E s \in Stream : RemoteWrite(s)
    \/ \E p \in Poller : Poll(p) \/ PollerStep(p)
    \/ \E c \in Closer : Enter(c) \/ CloserStep(c)

\* Threads that have something to do go on: each loop sleeps for a fixed time,
\* and the wait for the reader has a timeout.  Nobody has to connect, write,
\* poll or close.
Fairness ==
    /\ WF_vars(Insert \/ Announce \/ StartStreaming)
    /\ WF_vars(ReaderStep) /\ WF_vars(StreamerStep)
    /\ \A p \in Poller : WF_vars(PollerStep(p))
    /\ \A c \in Closer : WF_vars(CloserStep(c))

Spec == Init /\ [][Next]_vars /\ Fairness

-----------------------------------------------------------------------------
(* Properties.                                                             *)

\* The browser is told that the connection is closed only after a request has
\* closed it: the thread is started once the table has the terminal.
ToldMeansClosed == told => stop

\* A connection that the manager no longer has was disconnected first, so that
\* no request can reach a live terminal and none is lost alive.
GoneMeansDisconnected == Known /\ ~table => stop /\ ~connected

\* A close ends the reader and the streaming thread, and the browser is told,
\* even if the reader outlives the wait for it.
CloseEndsThreads == stop ~> reader \in {"ended", "failed"} /\ (socket => told)

\* The lock is never held for ever: requests do not wait on a dead connection.
LockIsFreed == lock # Nobody ~> lock = Nobody

\* Why: after the setup the terminal is in the table unless a request has closed
\* it, and such a request stops it before it takes it out; the streaming thread
\* runs only once the setup is done.
CloseInv ==
    /\ setup = "new" \/ connected \/ stop
    /\ setup = "inserted" => table
    /\ Known => table \/ (stop /\ ~connected)
    /\ \A c \in Closer :
        /\ closing[c] # "idle" => Known
        /\ closing[c] \in {"join", "remove"} => stop
        /\ closing[c] = "remove" => ~connected
    /\ streamer # "none" \/ told => setup = "done"
    /\ told => stop

\* Chunks on their way to the browser, and those that pollers took.
Path == got \o output[Streamer] \o queue
Taken == polled \cup UNION {Range(output[p]) : p \in Poller}

\* A chunk that the reader has received is in one place, and those of a stream
\* are in order on the way to the browser.
PathInv ==
    /\ \A s \in Stream : received[s] <= sent[s]
    /\ \A c \in Chunk : c.number <= received[c.stream] <=> c \in Range(Path) \cup Taken
    /\ \A m, n \in 1..Len(Path) :
        m < n /\ Path[m].stream = Path[n].stream => Path[m].number < Path[n].number
    /\ Range(Path) \cap Taken = {}

\* The queue and its threads implement a pipe to the browser, from which pollers
\* may take chunks: nothing repeated, made up or out of order within a stream.
Pipe == INSTANCE OutputPipe WITH
    taken <- Taken,
    open <- socket /\ setup = "done" /\ ~stop /\ reader # "failed"
ImplementsPipe == Pipe!PipeSpec

\* Output reaches a browser with a socket while nobody closes the terminal and no
\* read fails.
OutputArrives == Pipe!Arrives

=============================================================================
