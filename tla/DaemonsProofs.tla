---------------------------- MODULE DaemonsProofs ---------------------------
(***************************************************************************)
(* What is proved of module Daemons for any shells and pids: types, that   *)
(* the pid file names the daemon, and that web stop spares other processes *)
(* of the user.                                                            *)
(***************************************************************************)
EXTENDS Daemons, TLAPS

-----------------------------------------------------------------------------
(* Types.                                                                  *)

LEMMA InitType == Init => TypeOK
<1> SUFFICES ASSUME Init PROVE TypeOK
  OBVIOUS
<1>1. \A p \in Pid : port # p
  BY DaemonsAssumption DEF Init
<1>2. QED
  BY <1>1 DEF Init, TypeOK, ProcState, Phase

\* A process ends.
LEMMA Ending ==
    ASSUME TypeOK, NEW p \in Pid, Ends(p)
    PROVE  /\ proc' \in [Pid -> ProcState] /\ proc'[p] \in {"free", "zombie"}
           /\ \A q \in Pid \ {p} : proc'[q] = proc[q] /\ told'[q] = told[q]
           /\ front' = front \ {p}
           /\ told' \in [Pid -> {"nothing", "term", "kill"}]
           /\ port' = IF port = p THEN NoPid ELSE port
BY DEF TypeOK, Ends, ProcState

LEMMA EndingType ==
    ASSUME TypeOK, NEW p \in Pid, Ends(p), pidfile' \in Pid \cup {NoPid}, UNCHANGED <<env, pc, on, hurt>>
    PROVE  TypeOK'
<1>1. front' \subseteq {q \in Pid : proc'[q] \in {"binding", "serving"}}
  BY Ending DEF TypeOK
<1>2. \A q \in Pid : (port' = q) <=> (proc'[q] = "serving")
  BY Ending, DaemonsAssumption DEF TypeOK
<1>3. QED
  BY <1>1, <1>2, Ending DEF TypeOK

\* A command ends, and lets go of its child.
LEMMA Orphaning ==
    ASSUME TypeOK, NEW c \in Command, Orphan(c)
    PROVE  /\ proc' \in [Pid -> ProcState]
           /\ \A p \in Pid : proc'[p] # proc[p] => proc[p] = "zombie" /\ proc'[p] = "free"
BY DEF TypeOK, Orphan, ProcState

LEMMA Quitting ==
    ASSUME TypeOK, NEW c \in Command, Quit(c)
    PROVE  /\ pc' = [pc EXCEPT ![c] = "idle"] /\ pc' \in [Command -> Phase]
           /\ on' = [on EXCEPT ![c] = NoPid] /\ on' \in [Command -> Pid \cup {NoPid}]
BY DEF TypeOK, Quit, Goto, Phase

LEMMA Going ==
    ASSUME TypeOK, NEW c \in Command, NEW s \in Phase, Goto(c, s)
    PROVE  pc' = [pc EXCEPT ![c] = s] /\ pc' \in [Command -> Phase]
BY DEF TypeOK, Goto

\* Only the processes of commands, the files and the children left change.
LEMMA CommandType ==
    ASSUME TypeOK, UNCHANGED <<env, front, told, port>>, NEW c \in Command,
           proc' = proc \/ Orphan(c), pc' \in [Command -> Phase],
           on' \in [Command -> Pid \cup {NoPid}], pidfile' \in Pid \cup {NoPid}, hurt' \in BOOLEAN
    PROVE  TypeOK'
<1>1. /\ proc' \in [Pid -> ProcState]
      /\ \A p \in Pid : proc'[p] # proc[p] => proc[p] = "zombie" /\ proc'[p] = "free"
  BY Orphaning DEF TypeOK
<1>2. /\ front' \subseteq {q \in Pid : proc'[q] \in {"binding", "serving"}}
      /\ \A q \in Pid : (port' = q) <=> (proc'[q] = "serving")
  BY <1>1 DEF TypeOK
<1>3. QED
  BY <1>1, <1>2 DEF TypeOK

\* A process comes to be, and does not serve yet.
LEMMA SpawnType ==
    ASSUME TypeOK, NEW p \in Pid, proc[p] \in {"free", "starting"},
           NEW s \in {"starting", "binding"}, proc' = [proc EXCEPT ![p] = s],
           front' = front \/ (s = "binding" /\ front' = front \cup {p}),
           UNCHANGED <<env, told, port, hurt>>, pc' \in [Command -> Phase],
           on' \in [Command -> Pid \cup {NoPid}], pidfile' \in Pid \cup {NoPid}
    PROVE  TypeOK'
<1>1. proc' \in [Pid -> ProcState]
  BY DEF TypeOK, ProcState
<1>2. front' \subseteq {q \in Pid : proc'[q] \in {"binding", "serving"}}
  BY DEF TypeOK
<1>3. \A q \in Pid : (port' = q) <=> (proc'[q] = "serving")
  BY DEF TypeOK
<1>4. QED
  BY <1>1, <1>2, <1>3 DEF TypeOK

LEMMA CommandStepType ==
    ASSUME TypeOK, NEW c \in Command,
           \/ Start(c) \/ CleanStale(c) \/ PollChild(c) \/ WriteState(c) \/ CheckChild(c)
           \/ Stop(c) \/ StopStep(c) \/ Crash(c)
    PROVE  TypeOK'
<1>0. /\ on[c] \in Pid \cup {NoPid} /\ pidfile \in Pid \cup {NoPid}
      /\ on \in [Command -> Pid \cup {NoPid}] /\ hurt \in BOOLEAN
  BY DEF TypeOK
<1>1. CASE Start(c) \/ CleanStale(c)
  <2>1. pc' \in [Command -> Phase]
    BY <1>1, Going DEF Start, CleanStale, Phase
  <2>2. QED
    BY <1>0, <1>1, <2>1, CommandType DEF Start, CleanStale, procs
<1>2. CASE PollChild(c) \/ WriteState(c) \/ CheckChild(c) \/ Crash(c)
  <2>1. pc' \in [Command -> Phase] /\ on' \in [Command -> Pid \cup {NoPid}]
    BY <1>0, <1>2, Going, Quitting DEF PollChild, WriteState, CheckChild, Crash, Phase
  <2>2. pidfile' \in Pid \cup {NoPid}
    BY <1>0, <1>2 DEF PollChild, WriteState, CheckChild, Crash
  <2>3. (proc' = proc \/ Orphan(c)) /\ UNCHANGED <<env, front, told, port, hurt>>
    BY <1>2 DEF PollChild, WriteState, CheckChild, Crash
  <2>4. QED
    BY <1>0, <2>1, <2>2, <2>3, CommandType
<1>3. CASE Stop(c)
  <2>1. pc' \in [Command -> Phase] /\ on' \in [Command -> Pid \cup {NoPid}]
    BY <1>0, <1>3 DEF Stop, Goto, Phase, TypeOK
  <2>2. QED
    BY <1>0, <1>3, <2>1, CommandType DEF Stop, procs
<1>4. CASE Term(c) \/ Kill(c)
  <2>1. pc' \in [Command -> Phase] /\ on' \in [Command -> Pid \cup {NoPid}]
    BY <1>0, <1>4, Going, Quitting DEF Term, Kill, Phase
  <2>2. told' \in [Pid -> {"nothing", "term", "kill"}] /\ hurt' \in BOOLEAN
    <3>1. ASSUME NEW p \in Pid \cup {NoPid}, NEW s \in {"term", "kill"}, Signal(p, s)
          PROVE  told' \in [Pid -> {"nothing", "term", "kill"}] /\ hurt' \in BOOLEAN
      BY <1>0, <3>1 DEF Signal, TypeOK
    <3>2. QED
      BY <1>0, <1>4, <3>1 DEF Term, Kill, TypeOK
  <2>3. QED
    BY <1>4, <2>1, <2>2 DEF Term, Kill, TypeOK
<1>5. CASE Gone(c) \/ ClearState(c)
  <2>1. pc' \in [Command -> Phase] /\ on' \in [Command -> Pid \cup {NoPid}]
    BY <1>0, <1>5, Going, Quitting DEF Gone, ClearState, Phase
  <2>2. QED
    BY <1>0, <1>5, <2>1, CommandType DEF Gone, ClearState, procs
<1>6. QED
  BY <1>1, <1>2, <1>3, <1>4, <1>5 DEF StopStep

LEMMA ServeType ==
    ASSUME TypeOK, NEW c \in Command, NEW p \in Pid, Spawn(c, p) \/ ServeServer(c, p) \/ ServeWeb(c, p)
    PROVE  TypeOK'
<1>1. CASE Spawn(c, p)
  <2>1. pc' \in [Command -> Phase] /\ on' \in [Command -> Pid \cup {NoPid}]
    BY <1>1 DEF Spawn, Goto, Phase, TypeOK
  <2>2. QED
    BY <1>1, <2>1, SpawnType DEF Spawn, TypeOK
<1>2. CASE ServeServer(c, p)
  BY <1>2, SpawnType, Quitting DEF ServeServer
<1>3. CASE ServeWeb(c, p)
  BY <1>3, SpawnType DEF ServeWeb, TypeOK
<1>4. QED
  BY <1>1, <1>2, <1>3

LEMMA ProcessStepType ==
    ASSUME TypeOK, NEW p \in Pid, ProcessStep(p) PROVE TypeOK'
<1>1. CASE ChildStarts(p)
  BY <1>1, SpawnType DEF ChildStarts, Acts, TypeOK
<1>2. CASE Bind(p) /\ port = NoPid
  <2>1. proc' \in [Pid -> ProcState] /\ port' = p
    BY <1>2 DEF Bind, TypeOK, ProcState
  <2>2. \A q \in Pid : (port' = q) <=> (proc'[q] = "serving")
    BY <1>2, <2>1, DaemonsAssumption DEF Bind, TypeOK
  <2>3. front' \subseteq {q \in Pid : proc'[q] \in {"binding", "serving"}}
    BY <1>2 DEF Bind, TypeOK
  <2>4. QED
    BY <1>2, <2>1, <2>2, <2>3 DEF Bind, TypeOK
<1>3. CASE (Bind(p) /\ port # NoPid) \/ CtrlC(p) \/ Obey(p) \/ Die(p)
  <2>1. Ends(p) /\ UNCHANGED <<env, pc, on, hurt>>
    BY <1>3 DEF Bind, CtrlC, Obey, Die
  <2>2. pidfile' \in Pid \cup {NoPid}
    BY <1>3 DEF Bind, CtrlC, Obey, Die, Finally, TypeOK
  <2>3. QED
    BY <2>1, <2>2, EndingType
<1>4. CASE Reuse(p)
  <2>1. proc' \in [Pid -> ProcState] /\ told' \in [Pid -> {"nothing", "term", "kill"}]
    BY <1>4 DEF Reuse, TypeOK, ProcState
  <2>2. \A q \in Pid : (port' = q) <=> (proc'[q] = "serving")
    BY <1>4 DEF Reuse, TypeOK
  <2>3. front' \subseteq {q \in Pid : proc'[q] \in {"binding", "serving"}}
    BY <1>4 DEF Reuse, TypeOK
  <2>4. QED
    BY <1>4, <2>1, <2>2, <2>3 DEF Reuse, TypeOK
<1>5. QED
  BY <1>1, <1>2, <1>3, <1>4 DEF ProcessStep

LEMMA NextType == TypeOK /\ [Next]_vars => TypeOK'
<1>1. TypeOK /\ Next => TypeOK'
  BY CommandStepType, ServeType, ProcessStepType DEF Next, CommandStep
<1>2. TypeOK /\ UNCHANGED vars => TypeOK'
  BY DEF TypeOK, vars, procs
<1>3. QED
  BY <1>1, <1>2

\* Processes, files and commands keep their types; at most one process listens
\* on the port, and it is the one that serves.
THEOREM TypeCorrect == Spec => []TypeOK
BY InitType, NextType, PTL DEF Spec
-----------------------------------------------------------------------------
(* web stop spares others.                                                 *)

\* What a command is at, and what about, changes by its own steps only.
LEMMA Others ==
    ASSUME TypeOK, NEW c \in Command, CommandStep(c)
    PROVE  /\ env' = env
           /\ \A d \in Command \ {c} : pc'[d] = pc[d] /\ on'[d] = on[d]
           /\ \A q \in Pid : proc'[q] = "other" => proc[q] = "other"
<1>1. env' = env
  BY DEF CommandStep, Start, CleanStale, PollChild, WriteState, CheckChild, Spawn, ServeServer, ServeWeb, Stop,
     StopStep, Term, Gone, Kill, ClearState, Crash
<1>2. \A d \in Command \ {c} : pc'[d] = pc[d] /\ on'[d] = on[d]
  BY DEF TypeOK, CommandStep, Start, CleanStale, PollChild, WriteState, CheckChild, Spawn, ServeServer, ServeWeb,
     Stop, StopStep, Term, Gone, Kill, ClearState, Crash, Goto, Quit
<1>3. \A q \in Pid : proc'[q] = "other" => proc[q] = "other"
  <2>1. CASE \E p \in Pid : Spawn(c, p) \/ ServeServer(c, p) \/ ServeWeb(c, p)
    BY <2>1 DEF TypeOK, Spawn, ServeServer, ServeWeb
  <2>2. CASE PollChild(c) \/ WriteState(c) \/ CheckChild(c) \/ Crash(c)
    BY <2>2, Orphaning DEF PollChild, WriteState, CheckChild, Crash
  <2>3. CASE Start(c) \/ CleanStale(c) \/ Stop(c) \/ StopStep(c)
    BY <2>3 DEF Start, CleanStale, Stop, StopStep, Term, Gone, Kill, ClearState, procs
  <2>4. QED
    BY <2>1, <2>2, <2>3 DEF CommandStep
<1>4. QED
  BY <1>1, <1>2, <1>3

\* The command that looks at the process, or signals it.
LEMMA Signalling ==
    ASSUME TypeOK, SpareInv, ~server, NEW c \in Command, CommandStep(c)
    PROVE  /\ ~hurt' /\ pc'[c] # "wait"
           /\ pc'[c] = "term" => on'[c] \in Pid /\ proc'[on'[c]] # "other"
<1>1. CASE Stop(c)
  <2>1. pc'[c] # "wait" /\ on'[c] = pidfile /\ UNCHANGED <<proc, hurt>>
    BY <1>1 DEF Stop, TypeOK, Goto, procs
  <2>2. ASSUME pc'[c] = "term" PROVE Daemon(pidfile) /\ pidfile \in Pid
    BY <1>1, <2>2 DEF Stop, TypeOK, Goto
  <2>3. QED
    BY <2>1, <2>2 DEF Daemon, SpareInv
<1>2. CASE Term(c)
  <2>1. proc[on[c]] # "other" /\ ~hurt
    BY <1>2 DEF Term, SpareInv
  <2>2. pc'[c] \in {"clear", "idle"} /\ ~hurt'
    BY <1>2, <2>1 DEF Term, Signal, TypeOK, Goto, Quit
  <2>3. QED
    BY <2>2
<1>3. CASE Gone(c) \/ Kill(c)
  BY <1>3 DEF Gone, Kill, SpareInv
<1>4. CASE Start(c) \/ CleanStale(c) \/ PollChild(c) \/ WriteState(c) \/ CheckChild(c)
  BY <1>4 DEF SpareInv, Start, CleanStale, PollChild, WriteState, CheckChild, TypeOK, Goto, Quit
<1>5. CASE (\E p \in Pid : Spawn(c, p) \/ ServeServer(c, p)) \/ ClearState(c) \/ Crash(c)
  BY <1>5 DEF SpareInv, Spawn, ServeServer, ClearState, Crash, TypeOK, Goto, Quit
<1>6. CASE \E p \in Pid : ServeWeb(c, p)
  BY <1>6 DEF SpareInv, ServeWeb, Free
<1>7. QED
  BY <1>1, <1>2, <1>3, <1>4, <1>5, <1>6 DEF CommandStep, StopStep

\* Nor does a pid go to another process while a command is about to signal it.
LEMMA Reusing ==
    ASSUME TypeOK, SpareInv, NEW p \in Pid, ProcessStep(p) PROVE SpareInv'
<1>1. UNCHANGED <<env, pc, on, hurt>>
  BY DEF ProcessStep, ChildStarts, Bind, CtrlC, Obey, Die, Reuse
<1>2. CASE Reuse(p)
  BY <1>1, <1>2 DEF SpareInv, server, Reuse
<1>3. CASE ChildStarts(p) \/ Bind(p) \/ CtrlC(p) \/ Obey(p) \/ Die(p)
  <2>1. \A q \in Pid : proc'[q] = "other" => proc[q] = "other"
    <3>1. CASE Ends(p)
      BY <3>1, Ending
    <3>2. CASE ~Ends(p)
      BY <1>3, <3>2 DEF ChildStarts, Bind, CtrlC, Obey, Die, TypeOK
    <3>3. QED
      BY <3>1, <3>2
  <2>2. ASSUME ~server, NEW c \in Command, pc[c] = "term" PROVE proc'[on[c]] # "other"
    BY <2>1, <2>2 DEF SpareInv
  <2>3. QED
    BY <1>1, <2>2 DEF SpareInv, server
<1>4. QED
  BY <1>2, <1>3 DEF ProcessStep

LEMMA NextSpare == TypeOK /\ SpareInv /\ [Next]_vars => SpareInv'
<1> SUFFICES ASSUME TypeOK, SpareInv, [Next]_vars PROVE SpareInv'
  OBVIOUS
<1>1. ASSUME NEW c \in Command, CommandStep(c) PROVE SpareInv'
  <2>1. server' <=> server
    BY <1>1, Others DEF server
  <2>2. ASSUME ~server, NEW d \in Command
        PROVE  /\ ~hurt' /\ pc'[d] # "wait"
               /\ pc'[d] = "term" => on'[d] \in Pid /\ proc'[on'[d]] # "other"
    <3>1. CASE d = c
      BY <1>1, <2>2, <3>1, Signalling
    <3>2. CASE d # c
      BY <1>1, <2>2, <3>2, Others, Signalling DEF SpareInv
    <3>3. QED
      BY <3>1, <3>2
  <2>3. ~server => ~hurt'
    BY <1>1, Signalling
  <2>4. QED
    BY <2>1, <2>2, <2>3 DEF SpareInv
<1>2. CASE UNCHANGED vars
  BY <1>2 DEF vars, procs, SpareInv, server
<1>3. QED
  BY <1>1, <1>2, Reusing DEF Next
-----------------------------------------------------------------------------
(* The pid file.                                                           *)


\* What the processes do to it.
LEMMA ProcessPid ==
    ASSUME TypeOK, NEW p \in Pid, ProcessStep(p)
    PROVE  /\ UNCHANGED <<env, pc, on>> /\ Untold' \subseteq Untold
           /\ \/ pidfile' = pidfile
              \/ pidfile' = p /\ p \in Untold
              \/ p \in Untold /\ p \notin Untold'
<1>1. UNCHANGED <<env, pc, on>>
  BY DEF ProcessStep, ChildStarts, Bind, CtrlC, Obey, Die, Reuse
<1>2. CASE Ends(p)
  <2>1. Untold' \subseteq Untold \ {p}
    BY <1>1, <1>2, Ending DEF Untold, Daemon, server
  <2>2. pidfile' # pidfile => p \in Untold
    <3>1. CASE (Bind(p) /\ port # NoPid) \/ CtrlC(p)
      BY <3>1 DEF Bind, CtrlC, Finally, Acts, Untold, Daemon, server, TypeOK
    <3>2. CASE ~((Bind(p) /\ port # NoPid) \/ CtrlC(p))
      BY <1>2, <3>2 DEF ProcessStep, ChildStarts, Bind, Obey, Die, Reuse, Ends, TypeOK
    <3>3. QED
      BY <3>1, <3>2
  <2>3. QED
    BY <1>1, <2>1, <2>2
<1>3. CASE ChildStarts(p)
  <2>1. p \in Untold
    BY <1>3 DEF ChildStarts, Acts, Untold, Daemon, TypeOK
  <2>2. Untold' \subseteq Untold
    BY <1>3, <2>1 DEF ChildStarts, Untold, Daemon, server, TypeOK
  <2>3. QED
    BY <1>1, <1>3, <2>1, <2>2 DEF ChildStarts
<1>4. CASE Bind(p) /\ port = NoPid
  BY <1>1, <1>4 DEF Bind, Acts, Untold, Daemon, server, TypeOK
<1>5. CASE Reuse(p)
  <2>1. Untold' \subseteq Untold
    BY <1>5 DEF Reuse, Untold, Daemon, server, TypeOK
  <2>2. QED
    BY <1>1, <1>5, <2>1 DEF Reuse
<1>6. QED
  BY <1>2, <1>3, <1>4, <1>5 DEF ProcessStep, Bind, CtrlC, Obey, Die

LEMMA ProcessKeeps == ASSUME TypeOK, PidInv, NEW p \in Pid, ProcessStep(p) PROVE PidInv'
<1> SUFFICES ASSUME env \cap {"overlap", "crash"} = {}
             PROVE  /\ (\A c \in Command : pc[c] = "idle") => Untold' \subseteq {pidfile'}
                    /\ \A c \in Command : Expected(c)'
  BY ProcessPid DEF PidInv
<1>1. (\A c \in Command : pc[c] = "idle") => Untold' \subseteq {pidfile'}
  BY ProcessPid DEF PidInv
<1>2. ASSUME NEW c \in Command PROVE Expected(c)'
  BY ProcessPid DEF PidInv, Expected
<1>3. QED
  BY <1>1, <1>2

\* With commands one at a time no other is at work.
LEMMA Single ==
    ASSUME TypeOK, PidInv, env \cap {"overlap", "crash"} = {}, NEW c \in Command, CommandStep(c),
           NEW d \in Command \ {c}
    PROVE  pc[d] = "idle" /\ pc'[d] = "idle"
<1>1. pc'[d] = pc[d]
  BY Others
<1>2. CASE pc[c] # "idle"
  BY <1>1, <1>2 DEF PidInv
<1>3. CASE pc[c] = "idle"
  <2>1. Start(c) \/ Stop(c) \/ \E p \in Pid : ServeWeb(c, p)
    BY <1>3 DEF CommandStep, CleanStale, PollChild, WriteState, CheckChild, Spawn, ServeServer,
           StopStep, Term, Gone, Kill, ClearState, Crash
  <2>2. QED
    BY <1>1, <2>1 DEF Start, Stop, ServeWeb, Free
<1>4. QED
  BY <1>2, <1>3

\* Letting go of a child, and signals, make no daemon one that matters.
LEMMA Quiet ==
    ASSUME TypeOK, NEW c \in Command, proc' = proc \/ Orphan(c), UNCHANGED <<env, front>>,
           \A p \in Pid : told'[p] = told[p] \/ told'[p] # "nothing"
    PROVE  Untold' \subseteq Untold
<1>1. \A p \in Pid : proc'[p] # proc[p] => proc'[p] = "free"
  BY Orphaning
<1>2. QED
  BY <1>1 DEF Untold, Daemon, server

LEMMA CommandPid ==
    ASSUME TypeOK, env \cap {"overlap", "crash"} = {}, NEW c \in Command, CommandStep(c),
           Expected(c), pc[c] = "idle" => Untold \subseteq {pidfile}
    PROVE  Expected(c)' /\ (pc'[c] = "idle" => Untold' \subseteq {pidfile'})
<1>1. CASE Start(c)
  <2>1. pidfile \notin Untold
    BY <1>1, DaemonsAssumption DEF Start, Running, Untold, Daemon
  <2>2. Untold = {} /\ pc'[c] = "clean" /\ Untold' = Untold
    BY <1>1, <2>1 DEF Start, Free, TypeOK, Goto, Untold, Daemon, server, procs
  <2>3. QED
    BY <2>2 DEF Expected
<1>2. CASE CleanStale(c)
  BY <1>2, Quiet DEF CleanStale, Expected, procs, TypeOK, Goto
<1>3. ASSUME NEW p \in Pid, Spawn(c, p) PROVE Expected(c)' /\ pc'[c] # "idle"
  <2>1. Untold' \subseteq {p}
    BY <1>3 DEF Spawn, Expected, Untold, Daemon, server, TypeOK
  <2>2. on'[c] = p /\ pc'[c] \in {"poll", "write"}
    BY <1>3 DEF Spawn, TypeOK, Goto
  <2>3. QED
    BY <2>1, <2>2 DEF Expected
<1>4. CASE PollChild(c)
  <2>1. Untold' \subseteq Untold /\ Untold \subseteq {on[c]} /\ pidfile' = pidfile
    BY <1>4, Quiet DEF PollChild, Expected
  <2>2. CASE proc[on[c]] = "zombie"
    <3>1. Untold' = {} /\ pc'[c] = "idle"
      BY <1>4, <2>1, <2>2 DEF PollChild, TypeOK, Quit, Goto, Untold, Daemon
    <3>2. QED
      BY <3>1 DEF Expected
  <2>3. CASE proc[on[c]] # "zombie"
    <3>1. pc'[c] = "write" /\ on' = on
      BY <1>4, <2>3 DEF PollChild, TypeOK, Goto
    <3>2. QED
      BY <2>1, <3>1 DEF Expected
  <2>4. QED
    BY <2>2, <2>3
<1>5. CASE WriteState(c)
  <2>1. Untold' \subseteq Untold /\ Untold \subseteq {on[c]} /\ pidfile' = on[c]
    BY <1>5, Quiet DEF WriteState, Expected
  <2>2. pc'[c] \in {"check", "idle"}
    BY <1>5 DEF WriteState, TypeOK, Quit, Goto
  <2>3. QED
    BY <2>1, <2>2 DEF Expected
<1>6. CASE CheckChild(c)
  <2>1. Untold' \subseteq Untold /\ Untold \subseteq {pidfile} /\ pidfile' = pidfile
    BY <1>6, Quiet DEF CheckChild, Expected
  <2>2. pc'[c] = "idle"
    BY <1>6 DEF CheckChild, TypeOK, Quit, Goto
  <2>3. QED
    BY <2>1, <2>2 DEF Expected
<1>7. ASSUME NEW p \in Pid, ServeServer(c, p)
      PROVE  Expected(c)' /\ Untold' \subseteq {pidfile'}
  <2>1. Untold' \subseteq {p} /\ pidfile' = p
    BY <1>7 DEF ServeServer, Expected, Untold, Daemon, server, TypeOK
  <2>2. pc'[c] = "idle"
    BY <1>7 DEF ServeServer, TypeOK, Quit, Goto
  <2>3. QED
    BY <2>1, <2>2 DEF Expected
<1>8. ASSUME NEW p \in Pid, ServeWeb(c, p)
      PROVE  Expected(c)' /\ Untold' \subseteq {pidfile'}
  <2>1. Untold' \subseteq Untold /\ UNCHANGED <<pc, pidfile>>
    BY <1>8 DEF ServeWeb, Untold, Daemon, server, TypeOK
  <2>2. pc[c] = "idle"
    BY <1>8 DEF ServeWeb, Free
  <2>3. QED
    BY <2>1, <2>2 DEF Expected
<1>9. CASE Stop(c)
  <2>1. Untold \subseteq {pidfile} /\ on'[c] = pidfile /\ Untold' = Untold
    BY <1>9 DEF Stop, Free, TypeOK, Untold, Daemon, server, procs
  <2>2. CASE Running(pidfile)
    <3>1. pc'[c] = "term"
      BY <1>9, <2>2 DEF Stop, TypeOK, Goto
    <3>2. QED
      BY <2>1, <3>1 DEF Expected
  <2>3. CASE ~Running(pidfile)
    <3>1. pc'[c] = "clear"
      BY <1>9, <2>3 DEF Stop, TypeOK, Goto
    <3>2. pidfile \notin Untold
      BY <2>3, DaemonsAssumption DEF Running, Untold, Daemon
    <3>3. QED
      BY <2>1, <3>1, <3>2 DEF Expected
  <2>4. QED
    BY <2>2, <2>3
<1>10. CASE Term(c)
  <2>1. Untold \subseteq {on[c]} /\ UNCHANGED <<proc, front, env>>
    BY <1>10 DEF Term, Expected
  <2>2. Untold' = {} /\ pc'[c] \in {"wait", "clear", "idle"}
    <3>1. CASE Running(on[c])
      <4>1. Signal(on[c], "term") /\ pc'[c] \in {"wait", "clear"}
        BY <1>10, <3>1 DEF Term, TypeOK, Goto
      <4>2. \A p \in Pid : told'[p] = told[p] \/ told'[p] # "nothing"
        BY <4>1 DEF Signal, TypeOK
      <4>3. on[c] \notin Untold'
        BY <2>1, <4>1 DEF Signal, Untold, Daemon, TypeOK
      <4>4. QED
        BY <2>1, <4>1, <4>2, <4>3, Quiet
    <3>2. CASE ~Running(on[c])
      <4>1. pc'[c] = "idle" /\ told' = told
        BY <1>10, <3>2 DEF Term, TypeOK, Quit, Goto
      <4>2. on[c] \notin Untold
        BY <3>2, DaemonsAssumption DEF Running, Untold, Daemon
      <4>3. QED
        BY <2>1, <4>1, <4>2, Quiet
    <3>3. QED
      BY <3>1, <3>2
  <2>3. QED
    BY <2>2 DEF Expected
<1>11. CASE Gone(c) \/ Kill(c) \/ ClearState(c)
  <2>1. Untold = {} /\ UNCHANGED <<proc, front, env>>
    BY <1>11 DEF Gone, Kill, ClearState, Expected, procs
  <2>2. \A p \in Pid : told'[p] = told[p] \/ told'[p] # "nothing"
    BY <1>11 DEF Gone, Kill, ClearState, Signal, procs, TypeOK
  <2>3. Untold' = {}
    BY <2>1, <2>2, Quiet
  <2>4. pc'[c] \in {"clear", "idle"}
    BY <1>11 DEF Gone, Kill, ClearState, TypeOK, Quit, Goto
  <2>5. QED
    BY <2>3, <2>4 DEF Expected
<1>12. CASE Crash(c)
  BY <1>12 DEF Crash
<1>13. QED
  BY <1>1, <1>2, <1>3, <1>4, <1>5, <1>6, <1>7, <1>8, <1>9, <1>10, <1>11, <1>12 DEF CommandStep, StopStep

LEMMA CommandKeeps == ASSUME TypeOK, PidInv, NEW c \in Command, CommandStep(c) PROVE PidInv'
<1>1. env' = env
  BY Others
<1>2. SUFFICES ASSUME env \cap {"overlap", "crash"} = {}
      PROVE  /\ \A d, e \in Command : pc'[d] # "idle" /\ pc'[e] # "idle" => d = e
             /\ (\A d \in Command : pc'[d] = "idle") => Untold' \subseteq {pidfile'}
             /\ \A d \in Command : Expected(d)'
  BY <1>1 DEF PidInv
<1>3. \A d \in Command \ {c} : pc[d] = "idle" /\ pc'[d] = "idle"
  BY <1>2, Single
<1>4. Expected(c)' /\ (pc'[c] = "idle" => Untold' \subseteq {pidfile'})
  BY <1>2, <1>3, CommandPid DEF PidInv
<1>5. \A d \in Command \ {c} : Expected(d)'
  BY <1>3 DEF Expected
<1>6. QED
  BY <1>3, <1>4, <1>5

-----------------------------------------------------------------------------
(* The invariants.                                                         *)

LEMMA InitDaemons == Init => DaemonsInv
<1> SUFFICES ASSUME Init PROVE DaemonsInv
  OBVIOUS
<1>1. Untold = {} /\ \A c \in Command : pc[c] = "idle"
  BY DEF Init, Untold, Daemon
<1>2. QED
  BY <1>1 DEF Init, DaemonsInv, PidInv, Expected, SpareInv

LEMMA NextPid == TypeOK /\ PidInv /\ [Next]_vars => PidInv'
<1>1. PidInv /\ UNCHANGED vars => PidInv'
  BY DEF vars, procs, PidInv, Expected, Untold, Daemon, server
<1>2. QED
  BY <1>1, CommandKeeps, ProcessKeeps DEF Next

\* What makes the two below inductive: wherever a command is, it knows which
\* daemon there can be that has not been told to end, and none at all after
\* Start's look at the pid file and after Term; and the process that web stop is
\* about to signal stays a web UI until then (server_start, web start, stop).
THEOREM DaemonsCorrect == Spec => []DaemonsInv
<1>1. TypeOK /\ DaemonsInv /\ [Next]_vars => DaemonsInv'
  BY NextPid, NextSpare DEF DaemonsInv
<1>2. QED
  BY <1>1, InitType, NextType, InitDaemons, PTL DEF Spec

\* The pid file names the daemon in the background, whoever dies and whatever
\* gets its pid (server_start, internal_run, web start).
THEOREM PidCorrect == Spec => []PidFileNamesDaemon
<1>1. DaemonsInv => PidFileNamesDaemon
  BY DEF DaemonsInv, PidInv, PidFileNamesDaemon, Untold
<1>2. QED
  BY <1>1, DaemonsCorrect, PTL

\* web stop signals web UIs only (_is_expected_web_process).
THEOREM SpareCorrect == Spec => []OthersSpared
<1>1. DaemonsInv => OthersSpared
  BY DEF DaemonsInv, SpareInv, OthersSpared
<1>2. QED
  BY <1>1, DaemonsCorrect, PTL

=============================================================================
