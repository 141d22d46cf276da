------------------------------ MODULE AuditLog ------------------------------
(***************************************************************************)
(* The structured audit log (sinduk/audit.py): numbered records in one     *)
(* file that is rotated when it is full.  Each process numbers its records *)
(* from the number it has read when it started.                            *)
(*                                                                         *)
(* A file is a sequence of lines: a record with its number and writer, or  *)
(* what is left of records that did not get written whole, number 0; each  *)
(* with the offset at which it ends.  File 0 is audit.log, file i is       *)
(* audit.log.i; an empty one is not there.                                 *)
(***************************************************************************)
EXTENDS Naturals, Sequences, SequencesExt, FiniteSetsExt

CONSTANTS
    Process, NoProcess,
    First,           \* the process that runs when only one does
    Rotations,       \* _MAX_ROTATIONS
    Full,            \* _MAX_LOG_BYTES
    Window,          \* the 512 bytes that _read_last_seq reads
    MaxSize,         \* bound on the size of a record
    MaxSeq,          \* bound on the numbers in one file
    Environments     \* what may happen in a behaviour: sets of the words below

\* "two": processes run at the same time.  "restart": they end, or die at any
\* point.  "fail": a write or a rename fails.  "tear": a write stops half way,
\* once.  "large": a record has more than a third of 512 bytes, "long": or more
\* than all of them.
Hazard == {"two", "restart", "fail", "tear", "large", "long"}

ASSUME AuditAssumption ==
    /\ NoProcess \notin Process /\ First \in Process
    /\ {Rotations, Full, Window, MaxSize, MaxSeq} \subseteq Nat \ {0}
    /\ Environments \subseteq SUBSET Hazard

VARIABLES
    env,         \* what may happen in this behaviour
    file,        \* the log and its archives
    torn,        \* some write has stopped half way
    seq,         \* _seq of each process
    pc,          \* where each process is
    at           \* the archive its rotation has come to

vars == <<env, file, torn, seq, pc, at>>

Line == [by : Process, seq : 1..MaxSeq, to : Nat, ended : {TRUE}]
ScrapLine == [by : {NoProcess}, seq : {0}, to : Nat, ended : BOOLEAN]
LogLine == Line \cup ScrapLine
Phase == {"off", "ready", "rotate", "append"}

\* The size of a file, and where its line i begins.
Bytes(f) == IF f = <<>> THEN 0 ELSE Last(f).to
From(f, i) == IF i = 1 THEN 0 ELSE f[i - 1].to

\* The sizes a record may have.
Sizes ==
    {s \in 1..MaxSize : /\ "long" \notin env => s <= Window
                        /\ env \cap {"large", "long"} = {} => 3 * s <= Window}

\* Archives are full, if only one process has rotated at a time.
TypeOK ==
    /\ env \in Environments
    /\ file \in [0..Rotations -> Seq(LogLine)]
    /\ \A i \in 1..Rotations :
        "two" \notin env => file[i] = <<>> \/ Bytes(file[i]) >= Full
    /\ torn \in BOOLEAN
    /\ seq \in [Process -> 0..MaxSeq]
    /\ pc \in [Process -> Phase]
    /\ at \in [Process -> 0..Rotations]

Init ==
    /\ env \in Environments
    /\ file = [i \in 0..Rotations |-> <<>>]
    /\ torn = FALSE
    /\ seq = [p \in Process |-> 0]
    /\ pc = [p \in Process |-> "off"]
    /\ at = [p \in Process |-> 0]

Goto(p, s) == pc' = [pc EXCEPT ![p] = s]

-----------------------------------------------------------------------------

\* Variant: the first line of the window that can be read.
FirstSeq(f) ==
    LET seen == {i \in DOMAIN f : From(f, i) + Window >= Bytes(f)}
        good == {i \in seen : f[i].seq # 0}
    IN IF good = {} THEN 0 ELSE f[Min(good)].seq

\* _read_last_seq: the last line that can be read of those whole in the window.
LastSeq(f) ==
    LET seen == {i \in DOMAIN f : From(f, i) + Window >= Bytes(f)}
        good == {i \in seen : f[i].seq # 0}
    IN IF good = {} THEN 0 ELSE f[Max(good)].seq

Open(p) ==
    /\ pc[p] = "off"
    /\ "two" \in env \/ p = First
    /\ seq' = [seq EXCEPT ![p] = LastSeq(file[0])]
    /\ Goto(p, "ready")
    /\ UNCHANGED <<env, file, torn, at>>

\* Variant: the log is rotated when it is there.
CheckThere(p) ==
    /\ pc[p] = "ready"
    /\ Goto(p, IF file[0] = <<>> THEN "append" ELSE "rotate")
    /\ at' = [at EXCEPT ![p] = Rotations - 1]
    /\ UNCHANGED <<env, file, torn, seq>>

\* record begins: the size decides on a rotation.
CheckSize(p) ==
    /\ pc[p] = "ready"
    /\ Goto(p, IF Bytes(file[0]) < Full THEN "append" ELSE "rotate")
    /\ at' = [at EXCEPT ![p] = Rotations - 1]
    /\ UNCHANGED <<env, file, torn, seq>>

\* Variant: the archives are shifted in the order of their numbers.
ShiftUp(p) ==
    LET i == Rotations - at[p] IN
    /\ pc[p] = "rotate" /\ at[p] > 0
    /\ file' = IF file[i] = <<>> THEN file
               ELSE [file EXCEPT ![i + 1] = file[i], ![i] = <<>>]
    /\ at' = [at EXCEPT ![p] = @ - 1]
    /\ UNCHANGED <<env, torn, seq, pc>>

\* One rename of _rotate_if_needed; the archive of that number is replaced.
Shift(p) ==
    LET i == at[p] IN
    /\ pc[p] = "rotate" /\ i > 0
    /\ file' = IF file[i] = <<>> THEN file
               ELSE [file EXCEPT ![i + 1] = file[i], ![i] = <<>>]
    /\ at' = [at EXCEPT ![p] = i - 1]
    /\ UNCHANGED <<env, torn, seq, pc>>

\* The last one.  If another process has taken the log away the number is kept.
RotateLog(p) ==
    /\ pc[p] = "rotate" /\ at[p] = 0
    /\ IF file[0] = <<>> THEN UNCHANGED <<file, seq>>
       ELSE /\ file' = [file EXCEPT ![1] = file[0], ![0] = <<>>]
            /\ seq' = [seq EXCEPT ![p] = 0]
    /\ Goto(p, "append")
    /\ UNCHANGED <<env, torn, at>>

\* Variant: the number is reset all the same.
RotateFailsReset(p) ==
    /\ "fail" \in env /\ pc[p] = "rotate"
    /\ seq' = [seq EXCEPT ![p] = 0]
    /\ Goto(p, "append") /\ at' = [at EXCEPT ![p] = 0]
    /\ UNCHANGED <<env, file, torn>>

\* A rename fails: the record goes into the log as it is.
RotateFails(p) ==
    /\ "fail" \in env /\ pc[p] = "rotate"
    /\ Goto(p, "append") /\ at' = [at EXCEPT ![p] = 0]
    /\ UNCHANGED <<env, file, torn, seq>>

\* Text goes to the end of the log, on the line of what is unfinished there.
Put(line) ==
    LET f == file[0] IN
    file' = [file EXCEPT ![0] =
        IF f # <<>> /\ ~Last(f).ended
        THEN ReplaceAt(f, Len(f), [by |-> NoProcess, seq |-> 0, to |-> line.to, ended |-> line.ended])
        ELSE Append(f, line)]

Write(p, size) ==
    /\ pc[p] = "append" /\ seq[p] < MaxSeq
    /\ seq' = [seq EXCEPT ![p] = @ + 1]
    /\ Put([by |-> p, seq |-> seq'[p], to |-> Bytes(file[0]) + size, ended |-> TRUE])
    /\ Goto(p, "ready")
    /\ UNCHANGED <<env, torn, at>>

\* What a write that stops leaves of a record.
Tear(left) ==
    /\ "tear" \in env /\ ~torn /\ torn' = TRUE
    /\ Put([by |-> NoProcess, seq |-> 0, to |-> Bytes(file[0]) + left, ended |-> FALSE])

\* An OSError is passed over, and the number is used up.
WriteFails(p, left) ==
    /\ pc[p] = "append" /\ seq[p] < MaxSeq
    /\ seq' = [seq EXCEPT ![p] = @ + 1]
    /\ IF left = 0 THEN "fail" \in env /\ UNCHANGED <<torn, file>> ELSE Tear(left)
    /\ Goto(p, "ready")
    /\ UNCHANGED <<env, at>>

\* The process ends, or dies, perhaps in the middle of a write.
End(p, left) ==
    /\ "restart" \in env /\ pc[p] # "off"
    /\ IF left = 0 THEN UNCHANGED <<torn, file>> ELSE pc[p] = "append" /\ Tear(left)
    /\ Goto(p, "off")
    /\ seq' = [seq EXCEPT ![p] = 0] /\ at' = [at EXCEPT ![p] = 0]
    /\ UNCHANGED env

Next ==
    \E p \in Process :
        \/ Open(p) \/ CheckSize(p) \/ Shift(p) \/ RotateLog(p) \/ RotateFails(p)
        \/ \E size \in Sizes : Write(p, size)
        \/ \E left \in {0} \cup Sizes : WriteFails(p, left) \/ End(p, left)

Spec == Init /\ [][Next]_vars

-----------------------------------------------------------------------------
(* Properties.                                                             *)

\* Lines j and k of file i hold records, j the earlier one.
Earlier(i, j, k) == j < k /\ 0 \notin {file[i][j].seq, file[i][k].seq}

\* In each file the numbers of the records increase (AuditRecord.seq).
Monotonic ==
    \A i \in 0..Rotations : \A j, k \in DOMAIN file[i] :
        Earlier(i, j, k) => file[i][j].seq < file[i][k].seq

\* The window holds a whole record, if the log has one.
WindowFits == "long" \notin env /\ ~({"tear", "large"} \subseteq env)

\* With one process at a time and no record longer than the window the numbers
\* in each file increase, whatever fails, dies or is rotated in between: no
\* number is given twice, though some are given to nothing.  If writes may tear,
\* records have a third of the window at most, so that a record, the scrap after
\* it and what is glued to the scrap fit there together (_read_last_seq).
NumbersIncrease == "two" \notin env /\ WindowFits => Monotonic

\* Those of one process increase in each file, whatever others write to it or
\* rotate it, and however long its records are: it starts anew only when it has
\* itself taken away the file (_rotate_if_needed).
OwnNumbersIncrease ==
    "restart" \notin env =>
        \A i \in 0..Rotations : \A j, k \in DOMAIN file[i] :
            Earlier(i, j, k) /\ file[i][j].by = file[i][k].by => file[i][j].seq < file[i][k].seq

\* Why: one process works on the log unless two may, at most one line of it is
\* scrap, records are no larger than the environment says and two of them may be
\* glued, so that one in the window is a record, and a process at work has a
\* number that none of its records in the log exceeds.
LogInv ==
    /\ "two" \notin env => \A p \in Process \ {First} : pc[p] = "off"
    /\ \A p \in Process : pc[p] = "rotate" =>
        at[p] < Rotations /\ ("two" \notin env => Bytes(file[0]) >= Full)
    /\ torn => "tear" \in env
    /\ \A j, k \in DOMAIN file[0] : file[0][j].seq = 0 /\ file[0][k].seq = 0 => j = k
    /\ ~torn => \A j \in DOMAIN file[0] : file[0][j].seq # 0

\* Line j of f takes no more than so many thirds of the window.
Within(f, j, thirds) == 3 * f[j].to <= 3 * From(f, j) + thirds * Window
Glued(line) == line.seq = 0 /\ line.ended

SizeInv ==
    \A j \in DOMAIN file[0] :
        /\ "long" \notin env /\ file[0][j].seq # 0 => Within(file[0], j, 3)
        /\ env \cap {"large", "long"} = {} =>
            Within(file[0], j, IF Glued(file[0][j]) THEN 2 ELSE 1)

SeqInv ==
    /\ "two" \notin env /\ WindowFits /\ pc[First] # "off" =>
        \A j \in DOMAIN file[0] : file[0][j].seq <= seq[First]
    /\ "restart" \notin env => \A p \in Process : \A j \in DOMAIN file[0] :
        file[0][j].by = p => pc[p] # "off" /\ file[0][j].seq <= seq[p]

AuditInv == LogInv /\ SizeInv /\ SeqInv

\* What query reads of file i.
Records(i) ==
    LET whole == SelectSeq(file[i], LAMBDA l : l.seq # 0)
    IN [j \in DOMAIN whole |-> [by |-> whole[j].by, seq |-> whole[j].seq]]

\* All that is kept, the oldest first.
kept == FlattenSeq([i \in 1..Rotations + 1 |-> Records(Rotations + 1 - i)])

\* The fewest lines of a full file, if none is glued, and the records kept for
\* sure: those of all archives, or of one file but for what a tear has spoilt.
Lines == (Full + Max(Sizes) - 1) \div Max(Sizes)
Monus(a, b) == IF a > b THEN a - b ELSE 0
Promised ==
    IF env \cap {"restart", "fail", "tear"} = {} THEN Rotations * Lines
    ELSE Monus(Lines, IF "tear" \in env THEN 2 ELSE 0)

\* With one process at a time the log with its archives is a log that loses
\* only its oldest records, and only when all archives are full.  A rotation
\* that fails or dies half way leaves a gap among the archives, and the next one
\* drops the oldest all the same; what is in the log stays.
Bounded == INSTANCE BoundedLog WITH Record <- [by : Process, seq : 1..MaxSeq], records <- kept
KeepsRecords ==
    Bounded!LogInit /\ []["two" \notin env => Bounded!LogNext(Promised)]_kept

=============================================================================
