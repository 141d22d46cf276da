\* Two shells and three pids, for the sync server and for the web UI.
SPECIFICATION Spec
CONSTANTS
    c1 = c1
    c2 = c2
    d1 = d1
    d2 = d2
    d3 = d3
    Command = {c1, c2}
    Pid = {d1, d2, d3}
    NoPid = NoPid
    Environments = {{"server", "foreground", "die", "reuse"}, {"web", "foreground", "die", "reuse"},
        {"server", "die", "overlap"}, {"web", "die", "overlap", "crash"}}
CHECK_DEADLOCK FALSE
INVARIANTS
    TypeOK
    PidFileNamesDaemon
    OthersSpared
PROPERTIES
    StopEnds
