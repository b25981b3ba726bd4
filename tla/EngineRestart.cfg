\* Two clients that save, and two runs, in a process that is killed twice.
SPECIFICATION RestartSpec
CONSTANTS
    Runs = {r1, r2}
    Stores = {"file", "memory"}
    Bits = 3
    MaxEvents = 3
    MaxCrashes = 2
    Clients = {c1, c2, c3}
    Graphs = {g1, g2}
    MaxSaves = 4
SYMMETRY ProcessSymmetry
CHECK_DEADLOCK FALSE
INVARIANT RecoveryComplete
INVARIANT HeadResolves
PROPERTY TerminalStable
