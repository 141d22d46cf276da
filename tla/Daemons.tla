------------------------------ MODULE Daemons -------------------------------
(***************************************************************************)
(* The commands that start and stop the sync server and the web UI in the  *)
(* background (sinduk/commands/server.py, sinduk/commands/web.py), the pid *)
(* file each leaves, and the processes they signal.  The two are separate  *)
(* and alike: a behaviour has one of them.                                 *)
(*                                                                         *)
(* The state file is written and removed with the pid file, and is only    *)
(* shown to the user.                                                      *)
(***************************************************************************)
EXTENDS Naturals, FiniteSets

CONSTANTS
    Command,         \* shells that run the commands
    Pid, NoPid,
    Environments     \* what may happen in a behaviour: sets of the words below

\* "server", "web": which of the two.  "foreground": it is also run in the
\* foreground.  "die": daemons die by themselves.  "reuse": the pid of a dead
\* daemon goes to another process of the user, while no command runs.
\* "overlap": commands interleave.  "crash": commands die.
Hazard == {"server", "web", "foreground", "die", "reuse", "overlap", "crash"}

ASSUME DaemonsAssumption ==
    /\ NoPid \notin Pid
    /\ Environments \subseteq SUBSET Hazard
    /\ \A e \in Environments : "web" \in e <=> "server" \notin e

VARIABLES
    env,         \* what may happen in this behaviour
    proc,        \* what each pid is
    front,       \* the daemons in the foreground
    told,        \* the last signal sent to each
    port,        \* who listens
    pidfile,     \* server.pid or webui.pid
    pc,          \* where each command is
    on,          \* the pid it started, or is stopping
    hurt         \* a process that is no daemon has been sent a signal

procs == <<proc, front, told, port>>
vars == <<env, procs, pidfile, pc, on, hurt>>

ProcState == {"free", "starting", "binding", "serving", "zombie", "other"}
Phase == {"idle", "clean", "spawn", "poll", "write", "check", "term", "wait", "clear"}

TypeOK ==
    /\ env \in Environments
    /\ proc \in [Pid -> ProcState]
    /\ front \subseteq {p \in Pid : proc[p] \in {"binding", "serving"}}
    /\ told \in [Pid -> {"nothing", "term", "kill"}]
    /\ \A p \in Pid : (port = p) <=> (proc[p] = "serving")
    /\ pidfile \in Pid \cup {NoPid}
    /\ pc \in [Command -> Phase]
    /\ on \in [Command -> Pid \cup {NoPid}]
    /\ hurt \in BOOLEAN

Init ==
    /\ env \in Environments
    /\ proc = [p \in Pid |-> "free"]
    /\ front = {} /\ port = NoPid /\ pidfile = NoPid
    /\ told = [p \in Pid |-> "nothing"]
    /\ pc = [c \in Command |-> "idle"]
    /\ on = [c \in Command |-> NoPid]
    /\ hurt = FALSE

-----------------------------------------------------------------------------

server == "server" \in env
Daemon(p) == proc[p] \in {"starting", "binding", "serving"}

\* _is_pid_running.  It takes a zombie for a running process.
Running(p) == p # NoPid /\ proc[p] # "free"

Free(c) == pc[c] = "idle" /\ ("overlap" \in env \/ \A d \in Command : pc[d] = "idle")
Goto(c, s) == pc' = [pc EXCEPT ![c] = s]
Quit(c) == Goto(c, "idle") /\ on' = [on EXCEPT ![c] = NoPid]

\* The command that started p still runs, and has not waited for it.
Child(p) == \E c \in Command : on[c] = p /\ pc[c] \in {"poll", "write", "check"}

\* p is no more, but for its entry until its parent ends.
Ends(p) ==
    /\ proc' = [proc EXCEPT ![p] = IF Child(p) THEN "zombie" ELSE "free"]
    /\ front' = front \ {p}
    /\ told' = [told EXCEPT ![p] = "nothing"]
    /\ port' = IF port = p THEN NoPid ELSE port

\* What c's end does to the child it leaves.
Orphan(c) ==
    proc' = [p \in Pid |-> IF on[c] = p /\ proc[p] = "zombie" THEN "free" ELSE proc[p]]

-----------------------------------------------------------------------------
(* start.                                                                  *)

\* Variant: the pid file is taken for a stale one.
StartUnchecked(c) ==
    /\ Free(c)
    /\ Goto(c, "clean")
    /\ UNCHANGED <<env, procs, pidfile, on, hurt>>

\* It gives up if the pid in the file is that of a running process.
Start(c) ==
    /\ Free(c) /\ ~Running(pidfile)
    /\ Goto(c, "clean")
    /\ UNCHANGED <<env, procs, pidfile, on, hurt>>

CleanStale(c) ==
    /\ pc[c] = "clean"
    /\ pidfile' = NoPid
    /\ Goto(c, "spawn")
    /\ UNCHANGED <<env, procs, on, hurt>>

Spawn(c, p) ==
    /\ pc[c] = "spawn" /\ proc[p] = "free"
    /\ proc' = [proc EXCEPT ![p] = "starting"]
    /\ on' = [on EXCEPT ![c] = p]
    /\ Goto(c, IF server THEN "write" ELSE "poll")
    /\ UNCHANGED <<env, front, told, port, pidfile, hurt>>

\* web start only: a child that has exited at once is an error.
PollChild(c) ==
    /\ pc[c] = "poll"
    /\ Orphan(c)
    /\ IF proc[on[c]] = "zombie" THEN Quit(c) ELSE Goto(c, "write") /\ UNCHANGED on
    /\ UNCHANGED <<env, front, told, port, pidfile, hurt>>

WriteState(c) ==
    /\ pc[c] = "write"
    /\ pidfile' = on[c]
    /\ IF server THEN Goto(c, "check") /\ UNCHANGED <<on, proc>> ELSE Quit(c) /\ Orphan(c)
    /\ UNCHANGED <<env, front, told, port, hurt>>

\* server start, half a second later.  A child that has failed is a zombie
\* until this command ends, and so it is reported as started.
CheckChild(c) ==
    /\ pc[c] = "check"
    /\ Running(on[c])
    /\ Orphan(c)
    /\ Quit(c)
    /\ UNCHANGED <<env, front, told, port, pidfile, hurt>>

\* server start without -d: the command's own process is the daemon.
ServeServer(c, p) ==
    /\ server /\ "foreground" \in env
    /\ pc[c] = "spawn" /\ proc[p] = "free"
    /\ proc' = [proc EXCEPT ![p] = "binding"]
    /\ front' = front \cup {p}
    /\ pidfile' = p
    /\ Quit(c)
    /\ UNCHANGED <<env, told, port, hurt>>

\* web serve looks at no pid file and leaves none.
ServeWeb(c, p) ==
    /\ ~server /\ "foreground" \in env
    /\ Free(c) /\ proc[p] = "free"
    /\ proc' = [proc EXCEPT ![p] = "binding"]
    /\ front' = front \cup {p}
    /\ UNCHANGED <<env, told, port, pidfile, pc, on, hurt>>

-----------------------------------------------------------------------------
(* The daemons.  No handler of SIGTERM is installed: a process that has    *)
(* been sent a signal runs no further, and ends when the system ends it.   *)

Acts(p, s) == proc[p] = s /\ told[p] = "nothing"

\* _internal_run writes the pid file again; the web UI leaves that to start.
ChildStarts(p) ==
    /\ Acts(p, "starting")
    /\ proc' = [proc EXCEPT ![p] = "binding"]
    /\ pidfile' = IF server THEN p ELSE pidfile
    /\ UNCHANGED <<env, front, told, port, pc, on, hurt>>

\* A server in the foreground clears its state however app.run ends.
Finally(p) ==
    pidfile' = IF server /\ p \in front THEN NoPid ELSE pidfile

\* Variant: the port may be shared.
BindShared(p) ==
    /\ Acts(p, "binding")
    /\ port' = p
    /\ proc' = [proc EXCEPT ![p] = "serving"]
    /\ UNCHANGED <<env, front, told, pidfile, pc, on, hurt>>

\* A daemon that cannot listen ends.
Bind(p) ==
    /\ Acts(p, "binding")
    /\ IF port = NoPid
       THEN /\ port' = p
            /\ proc' = [proc EXCEPT ![p] = "serving"]
            /\ UNCHANGED <<front, told, pidfile>>
       ELSE Ends(p) /\ Finally(p)
    /\ UNCHANGED <<env, pc, on, hurt>>

CtrlC(p) ==
    /\ p \in front /\ told[p] = "nothing"
    /\ Ends(p) /\ Finally(p)
    /\ UNCHANGED <<env, pc, on, hurt>>

\* Nothing is cleared.
Obey(p) ==
    /\ proc[p] # "free" /\ told[p] # "nothing"
    /\ Ends(p)
    /\ UNCHANGED <<env, pidfile, pc, on, hurt>>

\* A daemon is killed by another, or fails.
Die(p) ==
    /\ "die" \in env /\ Daemon(p)
    /\ Ends(p)
    /\ UNCHANGED <<env, pidfile, pc, on, hurt>>

\* Another process has the pid for a while.
Reuse(p) ==
    /\ "reuse" \in env /\ \A c \in Command : pc[c] = "idle"
    /\ proc[p] \in {"free", "other"}
    /\ proc' = [proc EXCEPT ![p] = IF @ = "free" THEN "other" ELSE "free"]
    /\ told' = [told EXCEPT ![p] = "nothing"]
    /\ UNCHANGED <<env, front, port, pidfile, pc, on, hurt>>

-----------------------------------------------------------------------------
(* stop.                                                                   *)

\* Variant: web stop does not ask either.
StopAny(c) ==
    /\ Free(c) /\ pidfile # NoPid
    /\ on' = [on EXCEPT ![c] = pidfile]
    /\ Goto(c, IF Running(pidfile) THEN "term" ELSE "clear")
    /\ UNCHANGED <<env, procs, pidfile, hurt>>

\* The files of a dead daemon are removed.  Only web stop asks whether the
\* process is a web UI, one that web start has started.
Stop(c) ==
    /\ Free(c) /\ pidfile # NoPid
    /\ server \/ ~Running(pidfile) \/ (Daemon(pidfile) /\ pidfile \notin front)
    /\ on' = [on EXCEPT ![c] = pidfile]
    /\ Goto(c, IF Running(pidfile) THEN "term" ELSE "clear")
    /\ UNCHANGED <<env, procs, pidfile, hurt>>

Signal(p, s) ==
    /\ told' = [told EXCEPT ![p] = IF proc[p] = "zombie" THEN @ ELSE s]
    /\ hurt' = (hurt \/ proc[p] = "other")

\* An error, for a process that has just ended, leaves the files.  web stop
\* does not wait.
Term(c) ==
    /\ pc[c] = "term"
    /\ IF Running(on[c])
       THEN Signal(on[c], "term") /\ Goto(c, IF server THEN "wait" ELSE "clear") /\ UNCHANGED on
       ELSE Quit(c) /\ UNCHANGED <<told, hurt>>
    /\ UNCHANGED <<env, proc, front, port, pidfile>>

\* One of twenty looks at it finds it gone, or it is killed.
Gone(c) ==
    /\ pc[c] = "wait" /\ ~Running(on[c])
    /\ Goto(c, "clear")
    /\ UNCHANGED <<env, procs, pidfile, on, hurt>>

\* Variant: stop gives up on a process that does not end.
KillNot(c) ==
    /\ pc[c] = "wait" /\ Running(on[c])
    /\ Goto(c, "clear")
    /\ UNCHANGED <<env, procs, pidfile, on, hurt>>

Kill(c) ==
    /\ pc[c] = "wait" /\ Running(on[c])
    /\ Signal(on[c], "kill")
    /\ Goto(c, "clear")
    /\ UNCHANGED <<env, proc, front, port, pidfile, on>>

ClearState(c) ==
    /\ pc[c] = "clear"
    /\ pidfile' = NoPid
    /\ Quit(c)
    /\ UNCHANGED <<env, procs, hurt>>

Crash(c) ==
    /\ "crash" \in env /\ pc[c] # "idle"
    /\ Orphan(c)
    /\ Quit(c)
    /\ UNCHANGED <<env, front, told, port, pidfile, hurt>>

-----------------------------------------------------------------------------

StopStep(c) == Term(c) \/ Gone(c) \/ Kill(c) \/ ClearState(c)

CommandStep(c) ==
    \/ Start(c) \/ CleanStale(c) \/ PollChild(c) \/ WriteState(c) \/ CheckChild(c)
    \/ \E p \in Pid : Spawn(c, p) \/ ServeServer(c, p) \/ ServeWeb(c, p)
    \/ Stop(c) \/ StopStep(c) \/ Crash(c)

ProcessStep(p) == ChildStarts(p) \/ Bind(p) \/ CtrlC(p) \/ Obey(p) \/ Die(p) \/ Reuse(p)

Next == (\E c \in Command : CommandStep(c)) \/ (\E p \in Pid : ProcessStep(p))

\* A stop goes on, as its looks are counted, and the system ends a process
\* that was killed.  One that was sent SIGTERM may take any time, and starts
\* and daemons need not go on.
Fairness ==
    /\ \A c \in Command : WF_vars(StopStep(c))
    /\ \A p \in Pid : WF_vars(told[p] = "kill" /\ Obey(p))

Spec == Init /\ [][Next]_vars /\ Fairness

-----------------------------------------------------------------------------
(* Properties.                                                             *)

\* When commands run one at a time to their end, a daemon in the background,
\* or a server anywhere, that has not been told to end is the one the pid file
\* names, so that status, stop and the next start find it: whatever dies and
\* whoever gets the pids of the dead (server_start, internal_run, web start).
PidFileNamesDaemon ==
    env \cap {"overlap", "crash"} = {} /\ (\A c \in Command : pc[c] = "idle") =>
        \A p \in Pid : Daemon(p) /\ told[p] = "nothing" =>
            pidfile = p \/ (~server /\ p \in front)

\* web stop signals web UIs only: a pid file that has outlived its process does
\* not cost another one its life (_is_expected_web_process).
OthersSpared == ~server => ~hurt

\* Why the first holds: the daemons that matter, and which of them there can be
\* while a command is where it is.
Untold == {p \in Pid : Daemon(p) /\ told[p] = "nothing" /\ (server \/ p \notin front)}

Expected(c) ==
    /\ pc[c] \in {"clean", "spawn", "wait", "clear"} => Untold = {}
    /\ pc[c] \in {"poll", "write", "term"} => Untold \subseteq {on[c]}
    /\ pc[c] = "check" => Untold \subseteq {pidfile}

PidInv ==
    env \cap {"overlap", "crash"} = {} =>
        /\ \A c, d \in Command : pc[c] # "idle" /\ pc[d] # "idle" => c = d
        /\ (\A c \in Command : pc[c] = "idle") => Untold \subseteq {pidfile}
        /\ \A c \in Command : Expected(c)

\* Why the second does: no pid changes hands between the look at it and the
\* signal.
SpareInv ==
    ~server =>
        /\ ~hurt
        /\ \A c \in Command :
            /\ pc[c] # "wait"
            /\ pc[c] = "term" => on[c] \in Pid /\ proc[on[c]] # "other"

DaemonsInv == PidInv /\ SpareInv

\* server stop ends the process it has found: one that does not heed SIGTERM
\* does not outlive the state that names it (the for-else in server_stop).
StopEnds ==
    \A c \in Command, p \in Pid :
        (pc[c] = "wait" /\ on[c] = p /\ "crash" \notin env) ~> (proc[p] \in {"free", "zombie"})

=============================================================================
