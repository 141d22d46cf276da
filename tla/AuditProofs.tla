---------------------------- MODULE AuditProofs -----------------------------
(***************************************************************************)
(* What is proved of module AuditLog for any processes, rotations, sizes   *)
(* and numbers: types, and that numbers increase.                          *)
(***************************************************************************)
EXTENDS AuditLog, SequenceTheorems, WellFoundedInduction, TLAPS

-----------------------------------------------------------------------------
(* Reading the last number.                                                *)

\* The greatest of some positions.
LEMMA Greatest ==
    ASSUME NEW n \in Nat, NEW S \in SUBSET (1..n), S # {}
    PROVE  Max(S) \in S /\ \A i \in S : i <= Max(S)
<1> DEFINE T == {n - i : i \in S}
<1>1. T \subseteq Nat /\ T # {}
  <2>1. \A i \in S : n - i \in Nat
    OBVIOUS
  <2>2. PICK i \in S : TRUE
    OBVIOUS
  <2>3. n - i \in T
    BY <2>2
  <2>4. QED
    BY <2>1, <2>3
<1>2. PICK x \in T : \A y \in T : ~(<<y, x>> \in OpToRel(<, Nat))
  BY <1>1, NatLessThanWellFounded, WFMin
<1>3. \A y \in T : ~(y < x)
  BY <1>1, <1>2 DEF OpToRel
<1>4. PICK i \in S : x = n - i
  BY <1>2
<1>5. \A j \in S : i >= j
  BY <1>3, <1>4
<1>6. QED
  BY <1>4, <1>5 DEF Max

Window0(f) == {i \in DOMAIN f : From(f, i) + Window >= Bytes(f)}
Good(f) == {i \in Window0(f) : f[i].seq # 0}

LEMMA LineType ==
    /\ \A l \in LogLine : l.seq \in 0..MaxSeq /\ l.to \in Nat /\ l.ended \in BOOLEAN
    /\ \A l \in LogLine : ~l.ended => l.seq = 0
    /\ \A l \in LogLine : l.seq # 0 => l.by \in Process /\ l.ended
    /\ \A l \in LogLine : l.seq = 0 => l.by = NoProcess
<1>1. 0 \in 0..MaxSeq
  BY AuditAssumption
<1>2. ASSUME NEW l \in Line
      PROVE  l.seq \in 0..MaxSeq /\ l.seq # 0 /\ l.to \in Nat /\ l.ended = TRUE /\ l.by \in Process
  <2>1. l.by \in Process /\ l.seq \in 1..MaxSeq /\ l.to \in Nat /\ l.ended \in {TRUE}
    BY DEF Line
  <2>2. l.ended = TRUE
    BY <2>1, Zenon
  <2>3. l.seq \in 0..MaxSeq /\ l.seq # 0
    BY <2>1, AuditAssumption
  <2>4. QED
    BY <2>1, <2>2, <2>3
<1>3. \A l \in ScrapLine : l.seq = 0 /\ l.by = NoProcess /\ l.to \in Nat /\ l.ended \in BOOLEAN
  BY DEF ScrapLine
<1>4. QED
  BY <1>1, <1>2, <1>3 DEF LogLine

\* A file ends where its last line does.
LEMMA FileSize ==
    ASSUME NEW f \in Seq(LogLine)
    PROVE  /\ DOMAIN f = 1..Len(f) /\ Len(f) \in Nat /\ Bytes(f) \in Nat
           /\ \A i \in DOMAIN f : From(f, i) \in Nat /\ f[i].to \in Nat /\ f[i].seq \in 0..MaxSeq
           /\ f # <<>> => Len(f) \in DOMAIN f /\ Bytes(f) = f[Len(f)].to
           /\ \A i \in DOMAIN f : i > 1 => i - 1 \in DOMAIN f /\ From(f, i) = f[i - 1].to
<1>1. DOMAIN f = 1..Len(f) /\ Len(f) \in Nat /\ \A i \in DOMAIN f : f[i] \in LogLine
  OBVIOUS
<1>2. f # <<>> => Len(f) \in DOMAIN f /\ Bytes(f) = f[Len(f)].to
  BY <1>1, EmptySeq DEF Bytes, Last
<1>3. \A i \in DOMAIN f : f[i].to \in Nat /\ f[i].seq \in 0..MaxSeq
  BY <1>1, LineType
<1>4. Bytes(f) \in Nat
  BY <1>2, <1>3 DEF Bytes
<1>5. \A i \in DOMAIN f : i > 1 => i - 1 \in DOMAIN f /\ From(f, i) = f[i - 1].to
  BY <1>1 DEF From
<1>6. \A i \in DOMAIN f : From(f, i) \in Nat
  BY <1>1, <1>3 DEF From
<1>7. QED
  BY <1>1, <1>2, <1>3, <1>4, <1>5, <1>6

LEMMA LastSeqIs ==
    ASSUME NEW f \in Seq(LogLine)
    PROVE  IF Good(f) = {} THEN LastSeq(f) = 0
           ELSE \E m \in Good(f) : LastSeq(f) = f[m].seq /\ \A i \in Good(f) : i <= m
<1>1. CASE Good(f) = {}
  BY <1>1 DEF LastSeq, Good, Window0
<1>2. CASE Good(f) # {}
  <2>1. Good(f) \subseteq 1..Len(f) /\ Len(f) \in Nat
    BY DEF Good, Window0
  <2>2. Max(Good(f)) \in Good(f) /\ \A i \in Good(f) : i <= Max(Good(f))
    BY <1>2, <2>1, Greatest
  <2>3. LastSeq(f) = f[Max(Good(f))].seq
    BY <1>2 DEF LastSeq, Good, Window0
  <2>4. QED
    BY <1>2, <2>2, <2>3
<1>3. QED
  BY <1>1, <1>2

LEMMA LastSeqType == ASSUME NEW f \in Seq(LogLine) PROVE LastSeq(f) \in 0..MaxSeq
<1>1. 0 \in 0..MaxSeq
  BY AuditAssumption
<1>2. \A m \in Good(f) : f[m].seq \in 0..MaxSeq
  BY LineType DEF Good, Window0
<1>3. QED
  BY <1>1, <1>2, LastSeqIs

\* What the sizes of lines must be for the window to hold the last record: no
\* more than the window if there is no scrap, a third of it otherwise.
Sized(f) ==
    \/ \A j \in DOMAIN f : f[j].seq # 0 /\ Within(f, j, 3)
    \/ \A j \in DOMAIN f : Within(f, j, IF Glued(f[j]) THEN 2 ELSE 1)

\* Then, if at most one line is scrap, it does.
LEMMA LastRecord ==
    ASSUME NEW f \in Seq(LogLine), Sized(f),
           \A j, k \in DOMAIN f : f[j].seq = 0 /\ f[k].seq = 0 => j = k,
           NEW j \in DOMAIN f, f[j].seq # 0
    PROVE  \E m \in Good(f) : j <= m
<1>0. /\ DOMAIN f = 1..Len(f) /\ Len(f) \in Nat /\ Window \in Nat /\ Bytes(f) = f[Len(f)].to
      /\ Len(f) \in DOMAIN f
      /\ \A i \in DOMAIN f : From(f, i) \in Nat /\ f[i].to \in Nat
      /\ \A i \in DOMAIN f : i > 1 => i - 1 \in DOMAIN f /\ From(f, i) = f[i - 1].to
  BY FileSize, EmptySeq, AuditAssumption
<1>1. CASE f[Len(f)].seq # 0
  <2>1. Within(f, Len(f), 3)
    <3>1. ~Glued(f[Len(f)])
      BY <1>1 DEF Glued
    <3>2. Within(f, Len(f), 3) \/ Within(f, Len(f), 1)
      BY <1>0, <3>1 DEF Sized
    <3>3. QED
      BY <1>0, <3>2 DEF Within
  <2>2. Len(f) \in Good(f)
    BY <1>0, <1>1, <2>1 DEF Good, Window0, Within
  <2>3. QED
    BY <1>0, <2>2
<1>2. CASE f[Len(f)].seq = 0
  <2>1. j < Len(f)
    BY <1>0, <1>2
  <2>2. /\ Len(f) - 1 \in DOMAIN f /\ Len(f) - 1 # Len(f)
        /\ From(f, Len(f)) = f[Len(f) - 1].to
    <3>1. Len(f) > 1 /\ Len(f) - 1 # Len(f)
      <4>1. j \in 1..Len(f) /\ Len(f) \in Nat
        BY <1>0
      <4>2. QED
        BY <2>1, <4>1
    <3>2. QED
      BY <1>0, <3>1
  <2>3. f[Len(f) - 1].seq # 0
    BY <1>0, <1>2, <2>2
  <2>4. \A i \in DOMAIN f : Within(f, i, IF Glued(f[i]) THEN 2 ELSE 1)
    BY <1>0, <1>2 DEF Sized
  <2>5. Within(f, Len(f) - 1, 1)
    BY <2>2, <2>3, <2>4 DEF Glued
  <2>6. Within(f, Len(f), 2)
    BY <1>0, <2>4 DEF Within
  <2>7. From(f, Len(f) - 1) + Window >= Bytes(f)
    <3>1. /\ From(f, Len(f) - 1) \in Nat /\ f[Len(f) - 1].to \in Nat /\ f[Len(f)].to \in Nat
          /\ Window \in Nat /\ From(f, Len(f)) = f[Len(f) - 1].to /\ Bytes(f) = f[Len(f)].to
      BY <1>0, <2>2
    <3>2. 3 * f[Len(f) - 1].to <= 3 * From(f, Len(f) - 1) + Window
      BY <2>5, <3>1 DEF Within
    <3>3. 3 * f[Len(f)].to <= 3 * f[Len(f) - 1].to + 2 * Window
      BY <2>6, <3>1 DEF Within
    <3>4. QED
      BY <3>1, <3>2, <3>3
  <2>8. Len(f) - 1 \in Good(f)
    BY <2>2, <2>3, <2>7 DEF Good, Window0
  <2>9. QED
    BY <1>0, <2>1, <2>8
<1>3. QED
  BY <1>1, <1>2

\* Where numbers increase besides, no record has a greater number than the one
\* read.
LEMMA LastSeqBounds ==
    ASSUME NEW f \in Seq(LogLine), Sized(f),
           \A j, k \in DOMAIN f : f[j].seq = 0 /\ f[k].seq = 0 => j = k,
           \A j, k \in DOMAIN f : j < k /\ 0 \notin {f[j].seq, f[k].seq} => f[j].seq < f[k].seq,
           NEW j \in DOMAIN f
    PROVE  f[j].seq <= LastSeq(f)
<1>0. DOMAIN f = 1..Len(f) /\ Len(f) \in Nat /\ \A i \in DOMAIN f : f[i].seq \in Nat
  BY FileSize
<1>1. CASE f[j].seq = 0
  BY <1>1, LastSeqType, AuditAssumption
<1>2. CASE f[j].seq # 0
  <2>1. PICK l \in Good(f) : j <= l
    BY <1>2, LastRecord
  <2>2. PICK m \in Good(f) : LastSeq(f) = f[m].seq /\ \A i \in Good(f) : i <= m
    BY <2>1, LastSeqIs
  <2>3. m \in DOMAIN f /\ l \in DOMAIN f /\ f[m].seq # 0 /\ j <= m
    BY <1>0, <2>1, <2>2 DEF Good, Window0
  <2>4. j = m \/ f[j].seq < f[m].seq
    BY <1>0, <1>2, <2>3
  <2>5. QED
    BY <1>0, <2>2, <2>3, <2>4
<1>3. QED
  BY <1>1, <1>2

-----------------------------------------------------------------------------
(* Writing.                                                                *)

\* What Put makes of the log: a line more, or scrap in place of scrap.
LEMMA Putting ==
    ASSUME TypeOK, NEW line \in LogLine, Put(line)
    PROVE  /\ file' \in [0..Rotations -> Seq(LogLine)]
           /\ \A i \in 1..Rotations : file'[i] = file[i]
           /\ Bytes(file'[0]) = line.to
           /\ \/ /\ DOMAIN file'[0] = DOMAIN file[0] /\ file[0] # <<>>
                 /\ ~file[0][Len(file[0])].ended
                 /\ file[0][Len(file[0])].seq = 0 /\ file'[0][Len(file[0])].seq = 0
                 /\ file'[0][Len(file[0])].to = line.to
                 /\ file'[0][Len(file[0])].ended = line.ended
                 /\ \A j \in DOMAIN file[0] : j # Len(file[0]) => file'[0][j] = file[0][j]
              \/ /\ DOMAIN file'[0] = 1..(Len(file[0]) + 1)
                 /\ \A j \in DOMAIN file[0] : file'[0][j] = file[0][j]
                 /\ file'[0][Len(file[0]) + 1] = line
<1> DEFINE f == file[0]
           s == [by |-> NoProcess, seq |-> 0, to |-> line.to, ended |-> line.ended]
<1>0. /\ 0 \in 0..Rotations /\ f \in Seq(LogLine) /\ Len(f) \in Nat /\ DOMAIN f = 1..Len(f)
      /\ file \in [0..Rotations -> Seq(LogLine)]
  <2>1. 0 \in 0..Rotations
    BY AuditAssumption
  <2>2. file \in [0..Rotations -> Seq(LogLine)]
    BY DEF TypeOK
  <2>3. f \in Seq(LogLine)
    BY <2>1, <2>2
  <2>4. Len(f) \in Nat /\ DOMAIN f = 1..Len(f)
    BY <2>3
  <2>5. QED
    BY <2>1, <2>2, <2>3, <2>4
<1>s. s \in LogLine /\ s.seq = 0 /\ s.to = line.to /\ s.ended = line.ended
  <2>1. line.to \in Nat /\ line.ended \in BOOLEAN
    BY LineType
  <2>2. s \in ScrapLine
    BY <2>1 DEF ScrapLine
  <2>3. QED
    BY <2>2 DEF LogLine
<1>1. CASE f # <<>> /\ ~Last(f).ended
  <2>1. file' = [file EXCEPT ![0] = [f EXCEPT ![Len(f)] = s]]
    BY <1>1 DEF Put, ReplaceAt
  <2>2. Len(f) \in DOMAIN f /\ ~f[Len(f)].ended /\ f[Len(f)].seq = 0
    BY <1>0, <1>1, LineType, EmptySeq DEF Last
  <2>3. [f EXCEPT ![Len(f)] = s] \in Seq(LogLine) /\ Len([f EXCEPT ![Len(f)] = s]) = Len(f)
    BY <1>0, <1>s, <2>2, ExceptSeq
  <2>4. file'[0] = [f EXCEPT ![Len(f)] = s]
    BY <1>0, <2>1
  <2>5. /\ file' \in [0..Rotations -> Seq(LogLine)]
        /\ \A i \in 1..Rotations : file'[i] = file[i]
    BY <1>0, <2>1, <2>3
  <2>6. /\ DOMAIN file'[0] = DOMAIN f /\ file'[0][Len(f)] = s
        /\ \A j \in DOMAIN f : j # Len(f) => file'[0][j] = f[j]
    BY <2>2, <2>4
  <2>7. Bytes(file'[0]) = line.to
    <3>1. file'[0] # <<>> /\ Len(file'[0]) = Len(f)
      BY <2>2, <2>3, <2>4, <2>6, EmptySeq
    <3>2. QED
      BY <1>s, <2>6, <3>1 DEF Bytes, Last
  <2>8. QED
    BY <1>s, <1>1, <2>2, <2>5, <2>6, <2>7
<1>2. CASE ~(f # <<>> /\ ~Last(f).ended)
  <2>1. file' = [file EXCEPT ![0] = Append(f, line)]
    BY <1>2 DEF Put
  <2>2. /\ Append(f, line) \in Seq(LogLine) /\ Len(Append(f, line)) = Len(f) + 1
        /\ DOMAIN Append(f, line) = 1..(Len(f) + 1)
        /\ \A j \in 1..Len(f) : Append(f, line)[j] = f[j]
        /\ Append(f, line)[Len(f) + 1] = line
    BY <1>0, AppendProperties
  <2>3. file'[0] = Append(f, line)
    BY <1>0, <2>1
  <2>4. /\ file' \in [0..Rotations -> Seq(LogLine)]
        /\ \A i \in 1..Rotations : file'[i] = file[i]
    BY <1>0, <2>1, <2>2
  <2>5. Bytes(file'[0]) = line.to
    <3>1. file'[0] # <<>>
      BY <1>0, <2>2, <2>3, EmptySeq
    <3>2. QED
      BY <2>2, <2>3, <3>1 DEF Bytes, Last
  <2>6. QED
    BY <1>0, <2>2, <2>3, <2>4, <2>5
<1>3. QED
  BY <1>1, <1>2

-----------------------------------------------------------------------------
(* Types, and what is known of the log.                                    *)

LEMMA Bounds ==
    /\ Rotations \in Nat /\ Rotations # 0 /\ 0 \in 0..Rotations /\ Rotations - 1 \in 0..Rotations
    /\ MaxSeq \in Nat /\ 0 \in 0..MaxSeq /\ Full \in Nat /\ Window \in Nat
BY AuditAssumption

LEMMA InitAudit == Init => TypeOK /\ AuditInv
<1> SUFFICES ASSUME Init PROVE TypeOK /\ AuditInv
  OBVIOUS
<1>1. <<>> \in Seq(LogLine) /\ DOMAIN <<>> = {} /\ file[0] = <<>>
  BY EmptySeq, Bounds DEF Init
<1>2. \A p \in Process : pc[p] = "off"
  BY DEF Init
<1>3. TypeOK
  <2>1. /\ file \in [0..Rotations -> Seq(LogLine)] /\ \A i \in 1..Rotations : file[i] = <<>>
        /\ seq \in [Process -> 0..MaxSeq] /\ at \in [Process -> 0..Rotations]
    BY <1>1, Bounds DEF Init
  <2>2. pc \in [Process -> Phase] /\ env \in Environments /\ torn \in BOOLEAN
    BY DEF Init, Phase
  <2>3. QED
    BY <2>1, <2>2 DEF TypeOK
<1>4. QED
  BY <1>1, <1>2, <1>3, AuditAssumption DEF AuditInv, LogInv, SizeInv, SeqInv, Init

\* With one process, only it is not off.
LEMMA Only ==
    ASSUME LogInv, NEW p \in Process, pc[p] # "off", "two" \notin env PROVE p = First
BY DEF LogInv

\* Files are left alone.
LEMMA StillType ==
    ASSUME TypeOK, LogInv, UNCHANGED <<env, file, torn>>, NEW p \in Process,
           seq' \in [Process -> 0..MaxSeq], at' \in [Process -> 0..Rotations],
           pc' \in [Process -> Phase], \A q \in Process \ {p} : pc'[q] = pc[q] /\ at'[q] = at[q],
           "two" \in env \/ p = First \/ pc'[p] = "off",
           pc'[p] = "rotate" => at'[p] < Rotations /\ ("two" \notin env => Bytes(file[0]) >= Full)
    PROVE  TypeOK' /\ LogInv'
<1>1. TypeOK'
  BY DEF TypeOK
<1>2. LogInv'
  BY DEF LogInv
<1>3. QED
  BY <1>1, <1>2

\* A line is put into the log.
LEMMA PutType ==
    ASSUME TypeOK, LogInv, NEW line \in LogLine, Put(line), line.to >= Bytes(file[0]),
           env' = env, NEW p \in Process,
           pc' = [pc EXCEPT ![p] = "ready"] \/ pc' = [pc EXCEPT ![p] = "off"], pc[p] # "off",
           seq' \in [Process -> 0..MaxSeq], at' \in [Process -> 0..Rotations],
           \A q \in Process \ {p} : at'[q] = at[q],
           IF line.seq = 0 THEN "tear" \in env /\ ~torn /\ torn' = TRUE ELSE torn' = torn
    PROVE  TypeOK' /\ LogInv'
<1>0. /\ file[0] \in Seq(LogLine) /\ Len(file[0]) \in Nat /\ DOMAIN file[0] = 1..Len(file[0])
      /\ file'[0] \in Seq(LogLine) /\ Len(file'[0]) \in Nat /\ DOMAIN file'[0] = 1..Len(file'[0])
      /\ torn \in BOOLEAN
  <2>1. file[0] \in Seq(LogLine) /\ file'[0] \in Seq(LogLine)
    BY Putting, Bounds DEF TypeOK
  <2>2. torn \in BOOLEAN
    BY DEF TypeOK
  <2>3. QED
    BY <2>1, <2>2
<1>1. TypeOK'
  <2>1. pc' \in [Process -> Phase] /\ torn' \in BOOLEAN
    BY DEF TypeOK, Phase
  <2>2. \A i \in 1..Rotations : "two" \notin env => file'[i] = <<>> \/ Bytes(file'[i]) >= Full
    BY Putting DEF TypeOK
  <2>3. QED
    BY <2>1, <2>2, Putting DEF TypeOK
<1>2. /\ "two" \notin env => \A q \in Process \ {First} : pc'[q] = "off"
      /\ \A q \in Process : pc'[q] = "rotate" =>
          at'[q] < Rotations /\ ("two" \notin env => Bytes(file'[0]) >= Full)
  <2>1. \A q \in Process \ {p} : pc'[q] = pc[q]
    BY DEF TypeOK
  <2>2. pc'[p] # "rotate"
    BY DEF TypeOK
  <2>3. Full \in Nat /\ Bytes(file[0]) \in Nat /\ Bytes(file'[0]) \in Nat /\ Bytes(file'[0]) >= Bytes(file[0])
    BY <1>0, Bounds, Putting, FileSize
  <2>4. "two" \notin env => p = First
    BY Only
  <2>5. QED
    BY <1>0, <2>1, <2>2, <2>3, <2>4 DEF LogInv
<1>3. /\ \A j, k \in DOMAIN file'[0] : file'[0][j].seq = 0 /\ file'[0][k].seq = 0 => j = k
      /\ ~torn' => \A j \in DOMAIN file'[0] : file'[0][j].seq # 0
      /\ torn' => "tear" \in env
  <2>1. CASE /\ DOMAIN file'[0] = DOMAIN file[0] /\ file[0] # <<>>
             /\ file[0][Len(file[0])].seq = 0 /\ file'[0][Len(file[0])].seq = 0
             /\ \A j \in DOMAIN file[0] : j # Len(file[0]) => file'[0][j] = file[0][j]
    <3>1. Len(file[0]) \in DOMAIN file[0]
      BY <1>0, <2>1, EmptySeq
    <3>2. torn
      BY <3>1, <2>1 DEF LogInv
    <3>3. torn'
      BY <3>2
    <3>4. \A j \in DOMAIN file'[0] : file'[0][j].seq = 0 => j = Len(file[0])
      BY <2>1, <3>1 DEF LogInv
    <3>5. "tear" \in env
      BY <3>2 DEF LogInv
    <3>6. QED
      BY <3>3, <3>4, <3>5
  <2>2. CASE /\ DOMAIN file'[0] = 1..(Len(file[0]) + 1)
             /\ \A j \in DOMAIN file[0] : file'[0][j] = file[0][j]
             /\ file'[0][Len(file[0]) + 1] = line
    <3>1. \A j \in DOMAIN file'[0] : j \in DOMAIN file[0] \/ j = Len(file[0]) + 1
      BY <1>0, <2>2
    <3>2. CASE line.seq = 0
      BY <2>2, <3>1, <3>2 DEF LogInv
    <3>3. CASE line.seq # 0
      BY <2>2, <3>1, <3>3 DEF LogInv
    <3>4. QED
      BY <3>2, <3>3
  <2>3. QED
    BY <2>1, <2>2, Putting
<1>4. LogInv'
  BY <1>2, <1>3 DEF LogInv
<1>5. QED
  BY <1>1, <1>4

\* The files of a rename: each is an old one, or gone.
LEMMA ShiftMoves ==
    ASSUME TypeOK, LogInv, NEW p \in Process, Shift(p)
    PROVE  /\ at[p] - 1 \in 0..Rotations /\ at[p] - 1 < Rotations /\ file'[0] = file[0]
           /\ file' \in [0..Rotations -> Seq(LogLine)]
           /\ \A i \in 1..Rotations :
               file'[i] = <<>> \/ \E k \in 1..Rotations : file'[i] = file[k]
<1>1. /\ at[p] \in 1..(Rotations - 1) /\ at[p] + 1 \in 1..Rotations /\ at[p] \in 1..Rotations
      /\ at[p] - 1 \in 0..Rotations /\ at[p] - 1 < Rotations
  BY Bounds DEF TypeOK, Shift, LogInv
<1>2. CASE file[at[p]] = <<>>
  BY <1>1, <1>2, Bounds DEF TypeOK, Shift
<1>3. CASE file[at[p]] # <<>>
  <2>1. file' = [file EXCEPT ![at[p] + 1] = file[at[p]], ![at[p]] = <<>>]
    BY <1>3 DEF Shift
  <2>2. \A i \in 0..Rotations : file'[i] = IF i = at[p] THEN <<>>
                                          ELSE IF i = at[p] + 1 THEN file[at[p]] ELSE file[i]
    BY <1>1, <2>1, Bounds DEF TypeOK
  <2>3. file' \in [0..Rotations -> Seq(LogLine)]
    BY <1>1, <2>1, EmptySeq, Bounds DEF TypeOK
  <2>4. file'[0] = file[0]
    BY <1>1, <2>2, Bounds
  <2>5. ASSUME NEW i \in 1..Rotations
        PROVE  file'[i] = <<>> \/ \E k \in 1..Rotations : file'[i] = file[k]
    BY <1>1, <2>2
  <2>6. QED
    BY <1>1, <2>3, <2>4, <2>5
<1>4. QED
  BY <1>2, <1>3

LEMMA RotateMoves ==
    ASSUME TypeOK, NEW p \in Process, RotateLog(p), file[0] # <<>>
    PROVE  /\ file' \in [0..Rotations -> Seq(LogLine)]
           /\ file'[0] = <<>> /\ file'[1] = file[0]
           /\ \A i \in 2..Rotations : file'[i] = file[i]
<1>1. file' = [file EXCEPT ![1] = file[0], ![0] = <<>>] /\ 1 \in 0..Rotations /\ 0 \in 0..Rotations
  BY Bounds DEF RotateLog
<1>2. \A i \in 0..Rotations : file'[i] = IF i = 0 THEN <<>> ELSE IF i = 1 THEN file[0] ELSE file[i]
  BY <1>1 DEF TypeOK
<1>3. file' \in [0..Rotations -> Seq(LogLine)]
  BY <1>1, EmptySeq DEF TypeOK
<1>4. \A i \in 2..Rotations : i \in 0..Rotations /\ i # 0 /\ i # 1
  OBVIOUS
<1>5. QED
  BY <1>1, <1>2, <1>3, <1>4

LEMMA SizesAre ==
    ASSUME NEW size \in Sizes
    PROVE  /\ size \in Nat \ {0} /\ ("long" \notin env => size <= Window)
           /\ env \cap {"large", "long"} = {} => 3 * size <= Window
BY AuditAssumption DEF Sizes

\* The line of a record that is written.
LEMMA WriteLine ==
    ASSUME TypeOK, NEW p \in Process, NEW size \in Sizes, Write(p, size)
    PROVE  \E line \in LogLine :
               /\ Put(line) /\ line.seq = seq[p] + 1 /\ line.seq # 0 /\ line.by = p
               /\ seq' = [seq EXCEPT ![p] = seq[p] + 1]
               /\ line.to = Bytes(file[0]) + size /\ line.to >= Bytes(file[0])
<1>0. Bytes(file[0]) \in Nat /\ size \in Nat
  BY SizesAre, FileSize, Bounds DEF TypeOK
<1>1. seq[p] + 1 \in 1..MaxSeq /\ seq' = [seq EXCEPT ![p] = seq[p] + 1] /\ seq'[p] = seq[p] + 1
  BY Bounds DEF Write, TypeOK
<1> DEFINE line == [by |-> p, seq |-> seq[p] + 1, to |-> Bytes(file[0]) + size, ended |-> TRUE]
<1>2. line \in LogLine
  <2>1. TRUE \in {TRUE}
    BY Zenon
  <2>2. Bytes(file[0]) + size \in Nat
    BY <1>0
  <2>3. line \in Line
    BY <1>1, <2>1, <2>2 DEF Line
  <2>4. QED
    BY <2>3 DEF LogLine
<1>3. Put(line)
  BY <1>1 DEF Write
<1>4. line.to = Bytes(file[0]) + size /\ line.to >= Bytes(file[0])
  BY <1>0
<1>5. line.seq = seq[p] + 1 /\ line.seq # 0 /\ line.by = p
  BY <1>1
<1>6. QED
  BY <1>1, <1>2, <1>3, <1>4, <1>5

\* The scrap of one that is not.
LEMMA TearLine ==
    ASSUME TypeOK, NEW left \in Sizes, Tear(left)
    PROVE  \E line \in LogLine :
               /\ Put(line) /\ line.seq = 0
               /\ line.to = Bytes(file[0]) + left /\ line.to >= Bytes(file[0])
               /\ "tear" \in env /\ ~torn /\ torn' = TRUE
<1>0. Bytes(file[0]) \in Nat /\ left \in Nat
  BY SizesAre, FileSize, Bounds DEF TypeOK
<1> DEFINE line == [by |-> NoProcess, seq |-> 0, to |-> Bytes(file[0]) + left, ended |-> FALSE]
<1>1. line \in LogLine
  <2>1. Bytes(file[0]) + left \in Nat
    BY <1>0
  <2>2. line \in ScrapLine
    BY <2>1 DEF ScrapLine
  <2>3. QED
    BY <2>2 DEF LogLine
<1>2. Put(line) /\ "tear" \in env /\ ~torn /\ torn' = TRUE
  BY DEF Tear
<1>3. line.seq = 0 /\ line.to = Bytes(file[0]) + left /\ line.to >= Bytes(file[0])
  BY <1>0
<1>4. QED
  BY <1>1, <1>2, <1>3

LEMMA StepType ==
    ASSUME TypeOK, LogInv, [Next]_vars PROVE TypeOK' /\ LogInv'
<1>0. \A p \in Process : seq[p] \in 0..MaxSeq /\ at[p] \in 0..Rotations /\ file[0] \in Seq(LogLine)
  BY Bounds DEF TypeOK
<1>1. ASSUME NEW p \in Process, Open(p) PROVE TypeOK' /\ LogInv'
  <2>1. seq' \in [Process -> 0..MaxSeq]
    BY <1>0, <1>1, LastSeqType DEF Open, TypeOK
  <2>2. pc' \in [Process -> Phase] /\ pc'[p] = "ready" /\ \A q \in Process \ {p} : pc'[q] = pc[q]
    BY <1>1 DEF Open, Goto, TypeOK, Phase
  <2>3. QED
    BY <1>1, <2>1, <2>2, StillType DEF Open, TypeOK
<1>2. ASSUME NEW p \in Process, CheckSize(p) PROVE TypeOK' /\ LogInv'
  <2>1. at' \in [Process -> 0..Rotations] /\ at'[p] < Rotations /\ \A q \in Process \ {p} : at'[q] = at[q]
    BY <1>2, Bounds DEF CheckSize, TypeOK
  <2>2. pc' \in [Process -> Phase] /\ \A q \in Process \ {p} : pc'[q] = pc[q]
    BY <1>2 DEF CheckSize, Goto, TypeOK, Phase
  <2>3. pc'[p] = "rotate" => Bytes(file[0]) >= Full
    <3>1. Bytes(file[0]) \in Nat /\ Full \in Nat
      BY <1>0, Bounds, FileSize DEF TypeOK
    <3>2. pc'[p] = IF Bytes(file[0]) < Full THEN "append" ELSE "rotate"
      BY <1>2 DEF CheckSize, Goto, TypeOK
    <3>3. QED
      BY <3>1, <3>2
  <2>4. "two" \in env \/ p = First
    BY <1>2, Only DEF CheckSize
  <2>5. QED
    BY <1>2, <2>1, <2>2, <2>3, <2>4, StillType DEF CheckSize, TypeOK
<1>3. ASSUME NEW p \in Process, Shift(p) PROVE TypeOK' /\ LogInv'
  <2>1. at' \in [Process -> 0..Rotations] /\ at'[p] < Rotations /\ \A q \in Process \ {p} : at'[q] = at[q]
    BY <1>3, ShiftMoves, Bounds DEF Shift, TypeOK
  <2>2. \A i \in 1..Rotations : "two" \notin env => file'[i] = <<>> \/ Bytes(file'[i]) >= Full
    BY <1>3, ShiftMoves DEF TypeOK
  <2>3. TypeOK'
    BY <1>3, <2>1, <2>2, ShiftMoves DEF TypeOK, Shift
  <2>4. LogInv'
    BY <1>3, <2>1, ShiftMoves DEF LogInv, Shift
  <2>5. QED
    BY <2>3, <2>4
<1>4. ASSUME NEW p \in Process, RotateLog(p), file[0] # <<>> PROVE TypeOK' /\ LogInv'
  <2>1. pc' = [pc EXCEPT ![p] = "append"] /\ UNCHANGED <<env, torn, at>> /\ pc[p] = "rotate"
    BY <1>4 DEF RotateLog, Goto
  <2>2. seq' \in [Process -> 0..MaxSeq]
    BY <1>4, Bounds DEF RotateLog, TypeOK
  <2>3. \A i \in 1..Rotations : "two" \notin env => file'[i] = <<>> \/ Bytes(file'[i]) >= Full
    <3>1. "two" \notin env => Bytes(file[0]) >= Full
      BY <2>1 DEF LogInv
    <3>2. \A i \in 1..Rotations : i = 1 \/ i \in 2..Rotations
      OBVIOUS
    <3>3. QED
      BY <1>4, <3>1, <3>2, RotateMoves DEF TypeOK
  <2>4. TypeOK'
    BY <1>4, <2>1, <2>2, <2>3, RotateMoves DEF TypeOK, Phase
  <2>5. DOMAIN file'[0] = {}
    BY <1>4, RotateMoves, EmptySeq
  <2>6. "two" \notin env => p = First
    BY <2>1, Only
  <2>7. \A q \in Process : pc'[q] = "rotate" => q # p /\ pc[q] = "rotate"
    BY <2>1 DEF TypeOK
  <2>8. \A q \in Process \ {First} : "two" \notin env => pc'[q] = "off" /\ pc[q] = "off"
    BY <2>1, <2>6 DEF LogInv, TypeOK
  <2>9. LogInv'
    BY <2>1, <2>5, <2>6, <2>7, <2>8 DEF LogInv
  <2>10. QED
    BY <2>4, <2>9
<1>5. ASSUME NEW p \in Process, RotateFails(p) \/ (RotateLog(p) /\ file[0] = <<>>)
      PROVE  TypeOK' /\ LogInv'
  <2>1. at' \in [Process -> 0..Rotations] /\ \A q \in Process \ {p} : at'[q] = at[q]
    BY <1>5, Bounds DEF RotateFails, RotateLog, TypeOK
  <2>2. pc' \in [Process -> Phase] /\ pc'[p] = "append" /\ \A q \in Process \ {p} : pc'[q] = pc[q]
    BY <1>5 DEF RotateFails, RotateLog, Goto, TypeOK, Phase
  <2>3. "two" \in env \/ p = First
    BY <1>5, Only DEF RotateFails, RotateLog
  <2>4. QED
    BY <1>5, <2>1, <2>2, <2>3, StillType DEF RotateFails, RotateLog, TypeOK
<1>6. ASSUME NEW p \in Process, NEW size \in Sizes, Write(p, size) PROVE TypeOK' /\ LogInv'
  <2>1. PICK line \in LogLine : Put(line) /\ line.seq # 0 /\ line.to >= Bytes(file[0])
    BY <1>6, WriteLine
  <2>2. seq' \in [Process -> 0..MaxSeq]
    BY <1>0, <1>6, Bounds DEF Write, TypeOK
  <2>3. pc' = [pc EXCEPT ![p] = "ready"] /\ pc[p] # "off" /\ UNCHANGED <<env, torn, at>>
    BY <1>6 DEF Write, Goto
  <2>4. QED
    BY <2>1, <2>2, <2>3, PutType DEF TypeOK
<1>7. ASSUME NEW p \in Process, NEW left \in {0} \cup Sizes, WriteFails(p, left) PROVE TypeOK' /\ LogInv'
  <2>1. seq' \in [Process -> 0..MaxSeq]
    BY <1>0, <1>7, Bounds DEF WriteFails, TypeOK
  <2>2. pc' = [pc EXCEPT ![p] = "ready"] /\ pc[p] = "append" /\ UNCHANGED <<env, at>>
    BY <1>7 DEF WriteFails, Goto
  <2>3. CASE left # 0
    <3>1. left \in Sizes /\ Tear(left)
      BY <1>7, <2>3 DEF WriteFails
    <3>2. PICK line \in LogLine :
              /\ Put(line) /\ line.seq = 0 /\ line.to >= Bytes(file[0])
              /\ "tear" \in env /\ ~torn /\ torn' = TRUE
      BY <3>1, TearLine
    <3>3. QED
      BY <2>1, <2>2, <3>2, PutType DEF TypeOK
  <2>4. CASE left = 0
    <3>1. UNCHANGED <<env, file, torn>>
      BY <1>7, <2>2, <2>4 DEF WriteFails
    <3>2. pc' \in [Process -> Phase] /\ pc'[p] = "ready" /\ \A q \in Process \ {p} : pc'[q] = pc[q]
      BY <2>2 DEF TypeOK, Phase
    <3>3. "two" \in env \/ p = First
      BY <2>2, Only
    <3>4. QED
      BY <2>1, <2>2, <3>1, <3>2, <3>3, StillType DEF TypeOK
  <2>5. QED
    BY <2>3, <2>4
<1>8. ASSUME NEW p \in Process, NEW left \in {0} \cup Sizes, End(p, left) PROVE TypeOK' /\ LogInv'
  <2>1. /\ seq' \in [Process -> 0..MaxSeq] /\ at' \in [Process -> 0..Rotations]
        /\ \A q \in Process \ {p} : at'[q] = at[q]
    BY <1>8, Bounds DEF End, TypeOK
  <2>2. pc' = [pc EXCEPT ![p] = "off"] /\ pc[p] # "off" /\ env' = env
    BY <1>8 DEF End, Goto
  <2>3. CASE left # 0
    <3>1. left \in Sizes /\ Tear(left)
      BY <1>8, <2>3 DEF End
    <3>2. PICK line \in LogLine :
              /\ Put(line) /\ line.seq = 0 /\ line.to >= Bytes(file[0])
              /\ "tear" \in env /\ ~torn /\ torn' = TRUE
      BY <3>1, TearLine
    <3>3. QED
      BY <2>1, <2>2, <3>2, PutType
  <2>4. CASE left = 0
    <3>1. UNCHANGED <<env, file, torn>>
      BY <1>8, <2>2, <2>4 DEF End
    <3>2. pc' \in [Process -> Phase] /\ pc'[p] = "off" /\ \A q \in Process \ {p} : pc'[q] = pc[q]
      BY <2>2 DEF TypeOK, Phase
    <3>3. QED
      BY <2>1, <3>1, <3>2, StillType
  <2>5. QED
    BY <2>3, <2>4
<1>9. CASE UNCHANGED vars
  BY <1>9 DEF vars, TypeOK, LogInv
<1>10. QED
  BY <1>1, <1>2, <1>3, <1>4, <1>5, <1>6, <1>7, <1>8, <1>9 DEF Next

-----------------------------------------------------------------------------
(* Sizes.                                                                  *)

\* A line that is put into the log is as large as it says, and half of one that
\* is glued is the scrap before it.
LEMMA PutSizes ==
    ASSUME TypeOK, LogInv, SizeInv, env' = env, NEW size \in Sizes,
           NEW line \in LogLine, Put(line), line.to = Bytes(file[0]) + size,
           line.seq = 0 => ~torn
    PROVE  SizeInv'
<1> DEFINE f == file[0]
           n == Len(f)
<1>0. f \in Seq(LogLine) /\ file'[0] \in Seq(LogLine) /\ size \in Nat /\ Window \in Nat
  BY Putting, SizesAre, Bounds DEF TypeOK
<1>1. /\ DOMAIN f = 1..n /\ n \in Nat /\ Bytes(f) \in Nat
      /\ \A i \in DOMAIN f : From(f, i) \in Nat /\ f[i].to \in Nat
      /\ f # <<>> => n \in DOMAIN f /\ Bytes(f) = f[n].to
  BY <1>0, FileSize
<1>2. CASE /\ DOMAIN file'[0] = DOMAIN f /\ f # <<>>
           /\ ~f[n].ended /\ f[n].seq = 0 /\ file'[0][n].seq = 0
           /\ file'[0][n].to = line.to /\ file'[0][n].ended = line.ended
           /\ \A j \in DOMAIN f : j # n => file'[0][j] = f[j]
  <2>1. line.seq # 0 /\ line.ended
    BY <1>1, <1>2, LineType DEF LogInv
  <2>2. \A j \in DOMAIN f : From(file'[0], j) = From(f, j)
    <3>1. \A j \in DOMAIN f : j # 1 => j - 1 \in DOMAIN f /\ j - 1 # n
      BY <1>1
    <3>2. QED
      BY <1>2, <3>1 DEF From
  <2>3. \A j \in DOMAIN f : j # n =>
            /\ "long" \notin env /\ file'[0][j].seq # 0 => Within(file'[0], j, 3)
            /\ env \cap {"large", "long"} = {} =>
                Within(file'[0], j, IF Glued(file'[0][j]) THEN 2 ELSE 1)
    BY <1>2, <2>2 DEF SizeInv, Within, Glued
  <2>4. ASSUME env \cap {"large", "long"} = {} PROVE Within(file'[0], n, 2)
    <3>1. 3 * f[n].to <= 3 * From(f, n) + Window
      BY <1>0, <1>1, <1>2, <2>4 DEF SizeInv, Within, Glued
    <3>2. 3 * size <= Window
      BY <2>4, SizesAre
    <3>3. file'[0][n].to = f[n].to + size
      BY <1>1, <1>2
    <3>4. From(file'[0], n) = From(f, n) /\ From(f, n) \in Nat /\ f[n].to \in Nat
      BY <1>1, <1>2, <2>2
    <3>5. 3 * (f[n].to + size) <= 3 * From(f, n) + 2 * Window
      <4>1. ASSUME NEW a \in Nat, NEW b \in Nat, NEW c \in Nat, NEW d \in Nat,
                   3 * a <= 3 * b + c, 3 * d <= c
            PROVE  3 * (a + d) <= 3 * b + 2 * c
        BY <4>1
      <4>2. QED
        BY <1>0, <3>1, <3>2, <3>4, <4>1
    <3>6. QED
      BY <3>3, <3>4, <3>5 DEF Within
  <2>5. Glued(file'[0][n])
    BY <1>2, <2>1 DEF Glued
  <2>6. QED
    BY <1>2, <2>3, <2>4, <2>5 DEF SizeInv
<1>3. CASE /\ DOMAIN file'[0] = 1..(n + 1)
           /\ \A j \in DOMAIN f : file'[0][j] = f[j]
           /\ file'[0][n + 1] = line
  <2>1. \A j \in DOMAIN f : From(file'[0], j) = From(f, j)
    <3>1. \A j \in DOMAIN f : j # 1 => j - 1 \in DOMAIN f
      BY <1>1
    <3>2. QED
      BY <1>3, <3>1 DEF From
  <2>2. From(file'[0], n + 1) = Bytes(f)
    <3>1. CASE f = <<>>
      BY <1>1, <3>1, EmptySeq DEF From, Bytes
    <3>2. CASE f # <<>>
      BY <1>1, <1>3, <3>2 DEF From
    <3>3. QED
      BY <3>1, <3>2
  <2>3. \A j \in DOMAIN f :
            /\ "long" \notin env /\ file'[0][j].seq # 0 => Within(file'[0], j, 3)
            /\ env \cap {"large", "long"} = {} =>
                Within(file'[0], j, IF Glued(file'[0][j]) THEN 2 ELSE 1)
    BY <1>3, <2>1 DEF SizeInv, Within, Glued
  <2>4. "long" \notin env => Within(file'[0], n + 1, 3)
    <3>1. "long" \notin env => size <= Window
      BY SizesAre
    <3>2. QED
      BY <1>0, <1>1, <1>3, <2>2, <3>1 DEF Within
  <2>5. env \cap {"large", "long"} = {} =>
            Within(file'[0], n + 1, 1) /\ Within(file'[0], n + 1, 2)
    <3>1. env \cap {"large", "long"} = {} => 3 * size <= Window
      BY SizesAre
    <3>2. QED
      BY <1>0, <1>1, <1>3, <2>2, <3>1 DEF Within
  <2>6. \A j \in DOMAIN file'[0] : j \in DOMAIN f \/ j = n + 1
    BY <1>1, <1>3
  <2>7. QED
    BY <2>3, <2>4, <2>5, <2>6 DEF SizeInv
<1>4. QED
  BY <1>2, <1>3, Putting

LEMMA StepSizes ==
    ASSUME TypeOK, LogInv, SizeInv, [Next]_vars PROVE SizeInv'
<1>1. CASE env' = env /\ file'[0] = file[0]
  BY <1>1 DEF SizeInv, Within, Glued, From
<1>2. ASSUME NEW p \in Process, Open(p) \/ CheckSize(p) \/ RotateFails(p) PROVE SizeInv'
  BY <1>1, <1>2 DEF Open, CheckSize, RotateFails
<1>3. ASSUME NEW p \in Process, Shift(p) PROVE SizeInv'
  BY <1>1, <1>3, ShiftMoves DEF Shift
<1>4. ASSUME NEW p \in Process, RotateLog(p) PROVE SizeInv'
  <2>1. CASE file[0] = <<>>
    BY <1>1, <1>4, <2>1 DEF RotateLog
  <2>2. CASE file[0] # <<>>
    <3>1. DOMAIN file'[0] = {}
      BY <1>4, <2>2, RotateMoves, EmptySeq
    <3>2. QED
      BY <3>1 DEF SizeInv
  <2>3. QED
    BY <2>1, <2>2
<1>5. ASSUME NEW p \in Process, NEW size \in Sizes, Write(p, size) PROVE SizeInv'
  <2>1. PICK line \in LogLine : Put(line) /\ line.seq # 0 /\ line.to = Bytes(file[0]) + size
    BY <1>5, WriteLine
  <2>2. env' = env
    BY <1>5 DEF Write
  <2>3. QED
    BY <2>1, <2>2, PutSizes
<1>6. ASSUME NEW left \in Sizes, Tear(left), env' = env PROVE SizeInv'
  <2>1. PICK line \in LogLine : Put(line) /\ line.to = Bytes(file[0]) + left /\ ~torn
    BY <1>6, TearLine
  <2>2. QED
    BY <1>6, <2>1, PutSizes
<1>7. ASSUME NEW p \in Process, NEW left \in {0} \cup Sizes, WriteFails(p, left) \/ End(p, left)
      PROVE  SizeInv'
  <2>1. env' = env
    BY <1>7 DEF WriteFails, End
  <2>2. CASE left = 0
    BY <1>1, <1>7, <2>1, <2>2 DEF WriteFails, End
  <2>3. CASE left # 0
    BY <1>6, <1>7, <2>1, <2>3 DEF WriteFails, End
  <2>4. QED
    BY <2>2, <2>3
<1>8. CASE UNCHANGED vars
  BY <1>1, <1>8 DEF vars
<1>9. QED
  BY <1>2, <1>3, <1>4, <1>5, <1>7, <1>8 DEF Next

\* Where the window is said to fit, sizes are what LastSeqBounds asks.
LEMMA LogSized ==
    ASSUME TypeOK, LogInv, SizeInv, WindowFits PROVE Sized(file[0])
<1>1. CASE "tear" \notin env
  BY <1>1 DEF Sized, LogInv, SizeInv, WindowFits
<1>2. CASE "large" \notin env
  <2>1. env \cap {"large", "long"} = {}
    BY <1>2 DEF WindowFits
  <2>2. QED
    BY <2>1 DEF Sized, SizeInv
<1>3. QED
  BY <1>1, <1>2 DEF WindowFits

-----------------------------------------------------------------------------
(* Numbers.                                                                *)

\* The two properties, file by file.
Sorted(f) ==
    \A j, k \in DOMAIN f : j < k /\ 0 \notin {f[j].seq, f[k].seq} => f[j].seq < f[k].seq
OwnSorted(f) ==
    \A j, k \in DOMAIN f :
        j < k /\ 0 \notin {f[j].seq, f[k].seq} /\ f[j].by = f[k].by => f[j].seq < f[k].seq

LEMMA ByFile ==
    /\ NumbersIncrease <=>
        ("two" \notin env /\ WindowFits => \A i \in 0..Rotations : Sorted(file[i]))
    /\ OwnNumbersIncrease <=>
        ("restart" \notin env => \A i \in 0..Rotations : OwnSorted(file[i]))
BY DEF NumbersIncrease, Monotonic, OwnNumbersIncrease, Earlier, Sorted, OwnSorted

\* The lines of the log after a line is put there.
LEMMA PutLines ==
    ASSUME TypeOK, NEW line \in LogLine, Put(line)
    PROVE  /\ \A j \in DOMAIN file'[0] :
               \/ file'[0][j].seq = 0
               \/ j \in DOMAIN file[0] /\ file'[0][j] = file[0][j]
               \/ file'[0][j] = line
           /\ \A j, k \in DOMAIN file'[0] :
               j < k /\ 0 \notin {file'[0][j].seq, file'[0][k].seq} =>
                   /\ j \in DOMAIN file[0] /\ file'[0][j] = file[0][j]
                   /\ \/ k \in DOMAIN file[0] /\ file'[0][k] = file[0][k]
                      \/ file'[0][k] = line
<1>0. Len(file[0]) \in Nat /\ DOMAIN file[0] = 1..Len(file[0])
  BY Bounds DEF TypeOK
<1>1. CASE /\ DOMAIN file'[0] = DOMAIN file[0] /\ file[0] # <<>>
           /\ file[0][Len(file[0])].seq = 0 /\ file'[0][Len(file[0])].seq = 0
           /\ \A j \in DOMAIN file[0] : j # Len(file[0]) => file'[0][j] = file[0][j]
  BY <1>1
<1>2. CASE /\ DOMAIN file'[0] = 1..(Len(file[0]) + 1)
           /\ \A j \in DOMAIN file[0] : file'[0][j] = file[0][j]
           /\ file'[0][Len(file[0]) + 1] = line
  <2>1. \A j \in DOMAIN file'[0] : j \in DOMAIN file[0] \/ j = Len(file[0]) + 1
    BY <1>0, <1>2
  <2>2. \A j, k \in DOMAIN file'[0] : j < k => j \in DOMAIN file[0]
    BY <1>0, <1>2
  <2>3. QED
    BY <1>2, <2>1, <2>2
<1>3. QED
  BY <1>1, <1>2, Putting

\* It sorts if its number is greater than those it follows.
LEMMA PutSorted ==
    ASSUME TypeOK, NEW line \in LogLine, Put(line), Sorted(file[0]),
           line.seq # 0 => \A j \in DOMAIN file[0] : file[0][j].seq < line.seq
    PROVE  Sorted(file'[0])
BY PutLines DEF Sorted

LEMMA PutOwnSorted ==
    ASSUME TypeOK, NEW line \in LogLine, Put(line), OwnSorted(file[0]),
           line.seq # 0 =>
               \A j \in DOMAIN file[0] : file[0][j].by = line.by => file[0][j].seq < line.seq
    PROVE  OwnSorted(file'[0])
BY PutLines DEF OwnSorted

LEMMA EmptySorted == Sorted(<<>>) /\ OwnSorted(<<>>)
BY EmptySeq DEF Sorted, OwnSorted

\* No rename puts a line into a file.
LEMMA MovesSorted ==
    ASSUME TypeOK, LogInv, NEW p \in Process, Shift(p) \/ RotateLog(p)
    PROVE  /\ (\A i \in 0..Rotations : Sorted(file[i])) => \A i \in 0..Rotations : Sorted(file'[i])
           /\ (\A i \in 0..Rotations : OwnSorted(file[i])) => \A i \in 0..Rotations : OwnSorted(file'[i])
<1>1. \A i \in 0..Rotations : file'[i] = <<>> \/ \E k \in 0..Rotations : file'[i] = file[k]
  <2>0. \A i \in 0..Rotations : i = 0 \/ i \in 1..Rotations
    OBVIOUS
  <2>1. CASE Shift(p)
    <3>1. /\ file'[0] = file[0] /\ 0 \in 0..Rotations
          /\ \A i \in 1..Rotations :
              file'[i] = <<>> \/ \E k \in 1..Rotations : file'[i] = file[k]
      BY <2>1, ShiftMoves, Bounds
    <3>2. \A k \in 1..Rotations : k \in 0..Rotations
      OBVIOUS
    <3>3. QED
      BY <2>0, <3>1, <3>2
  <2>2. CASE RotateLog(p) /\ file[0] = <<>>
    BY <2>2 DEF RotateLog
  <2>3. CASE RotateLog(p) /\ file[0] # <<>>
    <3>1. \A i \in 1..Rotations : i = 1 \/ i \in 2..Rotations
      OBVIOUS
    <3>2. QED
      BY <2>0, <2>3, <3>1, RotateMoves, Bounds
  <2>4. QED
    BY <2>1, <2>2, <2>3
<1>2. QED
  BY <1>1, EmptySorted

\* What is a number.
LEMMA Numbered ==
    ASSUME TypeOK
    PROVE  /\ file[0] \in Seq(LogLine)
           /\ \A j \in DOMAIN file[0] : file[0][j].seq \in Nat
           /\ \A q \in Process : seq[q] \in Nat
<1>1. file[0] \in Seq(LogLine) /\ seq \in [Process -> 0..MaxSeq]
  BY Bounds DEF TypeOK
<1>2. \A j \in DOMAIN file[0] : file[0][j] \in LogLine
  BY <1>1
<1>3. \A j \in DOMAIN file[0] : file[0][j].seq \in 0..MaxSeq
  BY <1>2, LineType
<1>4. QED
  BY <1>1, <1>3

\* The numbers of a process that stays at work, and files left alone.
LEMMA StillSeq ==
    ASSUME TypeOK, AuditInv, NumbersIncrease, OwnNumbersIncrease, UNCHANGED <<env, file>>,
           NEW p \in Process, \A q \in Process \ {p} : pc'[q] = pc[q] /\ seq'[q] = seq[q],
           \/ pc[p] # "off" /\ pc'[p] # "off" /\ seq'[p] \in Nat /\ seq[p] <= seq'[p]
           \/ pc[p] = "off" /\ pc'[p] # "off" /\ seq'[p] = LastSeq(file[0])
           \/ pc'[p] = "off" /\ "restart" \in env
    PROVE  SeqInv' /\ NumbersIncrease' /\ OwnNumbersIncrease'
<1>0. /\ file[0] \in Seq(LogLine)
      /\ \A j \in DOMAIN file[0] : file[0][j].seq \in Nat
      /\ \A q \in Process : seq[q] \in Nat
  BY Numbered
<1>1. NumbersIncrease' /\ OwnNumbersIncrease'
  BY DEF NumbersIncrease, Monotonic, WindowFits, OwnNumbersIncrease, Earlier
<1>2. ASSUME "two" \notin env, WindowFits, pc'[First] # "off", NEW j \in DOMAIN file[0]
      PROVE  file[0][j].seq <= seq'[First]
  <2>1. First \in Process
    BY AuditAssumption
  <2>2. CASE pc[First] # "off"
    BY <1>0, <1>2, <2>1, <2>2 DEF AuditInv, SeqInv, WindowFits
  <2>3. CASE pc[First] = "off"
    <3>1. p = First /\ seq'[First] = LastSeq(file[0])
      BY <1>2, <2>1, <2>3
    <3>2. Sorted(file[0])
      BY <1>2, ByFile, Bounds
    <3>3. QED
      BY <1>0, <1>2, <3>1, <3>2, LastSeqBounds, LogSized DEF Sorted, AuditInv, LogInv
  <2>4. QED
    BY <2>2, <2>3
<1>3. ASSUME "restart" \notin env, NEW q \in Process, NEW j \in DOMAIN file[0], file[0][j].by = q
      PROVE  pc'[q] # "off" /\ file[0][j].seq <= seq'[q]
  BY <1>0, <1>3 DEF AuditInv, SeqInv, WindowFits
<1>4. QED
  BY <1>1, <1>2, <1>3 DEF SeqInv, WindowFits

\* A record or scrap is put into the log by process p, which remembers its number.
LEMMA PutSeq ==
    ASSUME TypeOK, AuditInv, NumbersIncrease, OwnNumbersIncrease, env' = env,
           NEW p \in Process, pc[p] # "off", \A q \in Process \ {p} : pc'[q] = pc[q] /\ seq'[q] = seq[q],
           NEW line \in LogLine, Put(line), line.seq # 0 => line.by = p /\ line.seq = seq[p] + 1,
           \/ pc'[p] # "off" /\ seq'[p] = seq[p] + 1
           \/ pc'[p] = "off" /\ "restart" \in env /\ line.seq = 0
    PROVE  SeqInv' /\ NumbersIncrease' /\ OwnNumbersIncrease'
<1>0. /\ file[0] \in Seq(LogLine)
      /\ \A j \in DOMAIN file[0] : file[0][j].seq \in Nat
      /\ \A q \in Process : seq[q] \in Nat
  BY Numbered
<1>1. \A i \in 0..Rotations : i = 0 \/ file'[i] = file[i]
  BY Putting
<1>2. ASSUME "two" \notin env, WindowFits PROVE \A i \in 0..Rotations : Sorted(file'[i])
  <2>1. p = First
    BY <1>2, Only DEF AuditInv
  <2>2. \A j \in DOMAIN file[0] : file[0][j].seq < seq[p] + 1
    BY <1>0, <1>2, <2>1 DEF AuditInv, SeqInv, WindowFits
  <2>3. QED
    BY <1>1, <1>2, <2>2, ByFile, PutSorted, Bounds
<1>3. ASSUME "restart" \notin env PROVE \A i \in 0..Rotations : OwnSorted(file'[i])
  <2>1. \A j \in DOMAIN file[0] : file[0][j].by = p => file[0][j].seq < seq[p] + 1
    BY <1>0, <1>3 DEF AuditInv, SeqInv, WindowFits
  <2>2. QED
    BY <1>1, <1>3, <2>1, ByFile, PutOwnSorted, Bounds
<1>4. ASSUME "two" \notin env, WindowFits, pc'[First] # "off", NEW j \in DOMAIN file'[0]
      PROVE  file'[0][j].seq <= seq'[First]
  <2>1. p = First /\ seq'[p] = seq[p] + 1
    BY <1>4, Only DEF AuditInv
  <2>2. \A k \in DOMAIN file[0] : file[0][k].seq <= seq[p]
    BY <1>4, <2>1 DEF AuditInv, SeqInv, WindowFits
  <2>3. QED
    BY <1>0, <2>1, <2>2, PutLines
<1>5. ASSUME "restart" \notin env, NEW q \in Process, NEW j \in DOMAIN file'[0], file'[0][j].by = q
      PROVE  pc'[q] # "off" /\ file'[0][j].seq <= seq'[q]
  <2>1. \A k \in DOMAIN file[0] : file[0][k].by = q => pc[q] # "off" /\ file[0][k].seq <= seq[q]
    BY <1>5 DEF AuditInv, SeqInv, WindowFits
  <2>2. file'[0][j].seq # 0
    BY <1>5, Putting, LineType, AuditAssumption, Bounds
  <2>3. CASE j \in DOMAIN file[0] /\ file'[0][j] = file[0][j]
    BY <1>0, <1>5, <2>1, <2>3
  <2>4. CASE file'[0][j] = line
    BY <1>0, <1>5, <2>2, <2>4
  <2>5. QED
    BY <2>2, <2>3, <2>4, PutLines
<1>6. QED
  BY <1>2, <1>3, <1>4, <1>5 DEF SeqInv, NumbersIncrease, Monotonic, WindowFits, OwnNumbersIncrease, Earlier, Sorted, OwnSorted

LEMMA StepSeq ==
    ASSUME TypeOK, AuditInv, NumbersIncrease, OwnNumbersIncrease, [Next]_vars
    PROVE  SeqInv' /\ NumbersIncrease' /\ OwnNumbersIncrease'
<1>0. LogInv /\ \A p \in Process : seq[p] \in Nat
  BY Bounds DEF AuditInv, TypeOK
<1>1. ASSUME NEW p \in Process, Open(p) PROVE SeqInv' /\ NumbersIncrease' /\ OwnNumbersIncrease'
  <2>1. seq'[p] = LastSeq(file[0]) /\ pc'[p] = "ready"
        /\ \A q \in Process \ {p} : pc'[q] = pc[q] /\ seq'[q] = seq[q]
    BY <1>1 DEF Open, Goto, TypeOK
  <2>2. QED
    BY <1>1, <2>1, StillSeq DEF Open
<1>2. ASSUME NEW p \in Process,
             \/ CheckSize(p) \/ RotateFails(p) \/ (RotateLog(p) /\ file[0] = <<>>)
             \/ WriteFails(p, 0) \/ End(p, 0)
      PROVE  SeqInv' /\ NumbersIncrease' /\ OwnNumbersIncrease'
  <2>1. /\ UNCHANGED <<env, file>> /\ pc[p] # "off"
        /\ \A q \in Process \ {p} : pc'[q] = pc[q] /\ seq'[q] = seq[q]
    BY <1>2 DEF CheckSize, RotateFails, RotateLog, WriteFails, End, Goto, TypeOK
  <2>2. \/ pc'[p] # "off" /\ seq'[p] \in Nat /\ seq[p] <= seq'[p]
        \/ pc'[p] = "off" /\ "restart" \in env
    BY <1>0, <1>2 DEF CheckSize, RotateFails, RotateLog, WriteFails, End, Goto, TypeOK
  <2>3. QED
    BY <2>1, <2>2, StillSeq
<1>3. ASSUME NEW p \in Process, Shift(p) PROVE SeqInv' /\ NumbersIncrease' /\ OwnNumbersIncrease'
  <2>1. UNCHANGED <<env, seq, pc>> /\ file'[0] = file[0]
    BY <1>0, <1>3, ShiftMoves DEF Shift
  <2>2. NumbersIncrease' /\ OwnNumbersIncrease'
    BY <1>0, <1>3, <2>1, ByFile, MovesSorted DEF NumbersIncrease, Monotonic, WindowFits, OwnNumbersIncrease, Earlier, Sorted, OwnSorted
  <2>3. QED
    BY <2>1, <2>2 DEF AuditInv, SeqInv, WindowFits
<1>4. ASSUME NEW p \in Process, RotateLog(p), file[0] # <<>>
      PROVE  SeqInv' /\ NumbersIncrease' /\ OwnNumbersIncrease'
  <2>1. env' = env /\ DOMAIN file'[0] = {}
    BY <1>4, RotateMoves, EmptySeq DEF RotateLog
  <2>2. NumbersIncrease' /\ OwnNumbersIncrease'
    BY <1>0, <1>4, <2>1, ByFile, MovesSorted DEF NumbersIncrease, Monotonic, WindowFits, OwnNumbersIncrease, Earlier, Sorted, OwnSorted
  <2>3. QED
    BY <2>1, <2>2 DEF SeqInv, WindowFits
<1>5. ASSUME NEW p \in Process, NEW size \in Sizes, Write(p, size)
      PROVE  SeqInv' /\ NumbersIncrease' /\ OwnNumbersIncrease'
  <2>1. PICK line \in LogLine :
            /\ Put(line) /\ line.seq = seq[p] + 1 /\ line.by = p /\ seq' = [seq EXCEPT ![p] = seq[p] + 1]
    BY <1>5, WriteLine
  <2>2. /\ env' = env /\ pc[p] # "off" /\ pc'[p] # "off" /\ seq'[p] = seq[p] + 1
        /\ \A q \in Process \ {p} : pc'[q] = pc[q] /\ seq'[q] = seq[q]
    BY <1>5, <2>1 DEF Write, Goto, TypeOK
  <2>3. QED
    BY <2>1, <2>2, PutSeq
<1>6. ASSUME NEW p \in Process, NEW left \in Sizes, left # 0, WriteFails(p, left) \/ End(p, left)
      PROVE  SeqInv' /\ NumbersIncrease' /\ OwnNumbersIncrease'
  <2>1. /\ env' = env /\ Tear(left) /\ pc[p] # "off"
        /\ \A q \in Process \ {p} : pc'[q] = pc[q] /\ seq'[q] = seq[q]
    BY <1>6 DEF WriteFails, End, Goto, TypeOK
  <2>2. \/ pc'[p] # "off" /\ seq'[p] = seq[p] + 1
        \/ pc'[p] = "off" /\ "restart" \in env
    BY <1>6 DEF WriteFails, End, Goto, TypeOK
  <2>3. PICK line \in LogLine : Put(line) /\ line.seq = 0
    BY <2>1, TearLine
  <2>4. QED
    BY <2>1, <2>2, <2>3, PutSeq
<1>7. CASE UNCHANGED vars
  BY <1>7 DEF vars, AuditInv, SeqInv, NumbersIncrease, Monotonic, WindowFits, OwnNumbersIncrease, Earlier
<1>8. ASSUME NEW p \in Process, NEW left \in {0} \cup Sizes, WriteFails(p, left) \/ End(p, left)
      PROVE  SeqInv' /\ NumbersIncrease' /\ OwnNumbersIncrease'
  <2>1. left = 0 \/ (left \in Sizes /\ left # 0)
    OBVIOUS
  <2>2. QED
    BY <1>2, <1>6, <1>8, <2>1, Zenon
<1>9. QED
  BY <1>1, <1>2, <1>3, <1>4, <1>5, <1>7, <1>8 DEF Next

-----------------------------------------------------------------------------
(* The invariants.                                                         *)

LEMMA InitNumbers == Init => NumbersIncrease /\ OwnNumbersIncrease
BY EmptySorted, ByFile DEF Init

\* The inductive invariant is all four together.
LEMMA Invariants == Spec => [](TypeOK /\ AuditInv /\ NumbersIncrease /\ OwnNumbersIncrease)
<1>1. TypeOK /\ AuditInv /\ NumbersIncrease /\ OwnNumbersIncrease /\ [Next]_vars
      => (TypeOK /\ AuditInv /\ NumbersIncrease /\ OwnNumbersIncrease)'
  BY StepType, StepSizes, StepSeq DEF AuditInv
<1>2. QED
  BY <1>1, InitAudit, InitNumbers, PTL DEF Spec

\* Files, numbers and processes keep their types, and, with one process,
\* archives are full when they are there (_rotate_if_needed).
THEOREM TypeCorrect == Spec => []TypeOK
BY Invariants, PTL

\* What makes the two below inductive: one line of the log at most is scrap, its
\* size and those of the records are as the environment says, so that the window
\* holds the last record where it is said to fit, and no record of the log has a
\* number beyond that of the process that may write the next (_read_last_seq,
\* record).
THEOREM AuditCorrect == Spec => []AuditInv
BY Invariants, PTL

\* For any window, sizes and number of archives: with one process at a time and
\* no record longer than the window the numbers in a file increase, whatever
\* fails, dies or is rotated; if writes may tear, with records of a third of the
\* window at most (_read_last_seq).
THEOREM NumbersCorrect == Spec => []NumbersIncrease
BY Invariants, PTL

\* However many processes write to the log and rotate it, the numbers of each
\* increase in each file (_rotate_if_needed).
THEOREM OwnNumbersCorrect == Spec => []OwnNumbersIncrease
BY Invariants, PTL

=============================================================================
