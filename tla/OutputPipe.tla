----------------------------- MODULE OutputPipe -----------------------------
(***************************************************************************)
(* What a terminal promises to the browser that watches it: every chunk    *)
(* that the remote side writes arrives once, after all earlier chunks of   *)
(* its stream, unless somebody else took it, and, while the pipe is open,  *)
(* it does arrive.                                                         *)
(***************************************************************************)
EXTENDS Naturals, Sequences, SequencesExt

CONSTANTS Stream, MaxChunk

VARIABLES
    sent,        \* number of chunks written to each stream
    got,         \* what the browser was sent
    taken,       \* chunks that others have taken
    open         \* the pipe promises to deliver

pipeVars == <<sent, got, taken, open>>

Chunk == [stream : Stream, number : 1..MaxChunk]
Written(c) == c.number <= sent[c.stream]

PipeInit == sent = [s \in Stream |-> 0] /\ got = <<>> /\ taken = {} /\ open = FALSE

Write(s) ==
    /\ sent' = [sent EXCEPT ![s] = @ + 1]
    /\ UNCHANGED <<got, taken, open>>

\* Chunks arrive, each for the first time and after those before it.
Deliver ==
    /\ IsStrictPrefix(got, got')
    /\ \A n \in Len(got) + 1..Len(got') :
         LET before == {got'[m] : m \in 1..n - 1} \cup taken IN
         /\ Written(got'[n]) /\ got'[n] \notin before
         /\ \A m \in 1..got'[n].number - 1 : [got'[n] EXCEPT !.number = m] \in before
    /\ UNCHANGED <<sent, taken, open>>

Take(c) ==
    /\ Written(c) /\ c \notin Range(got) \cup taken
    /\ taken' = taken \cup {c}
    /\ UNCHANGED <<sent, got, open>>

OpenOrClose == open' \in BOOLEAN /\ UNCHANGED <<sent, got, taken>>

PipeNext ==
    \/ \E s \in Stream : Write(s)
    \/ Deliver
    \/ \E c \in Chunk : Take(c)
    \/ OpenOrClose

PipeSpec == PipeInit /\ [][PipeNext]_pipeVars

\* What is written arrives, unless the pipe is closed or somebody else takes it.
Arrives ==
    \A c \in Chunk : open /\ Written(c) ~> ~open \/ c \in Range(got) \cup taken

=============================================================================
