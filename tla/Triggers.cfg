SPECIFICATION FairSpec
CONSTANTS
    Clients = {c1}
    Graphs = {g1}
    MaxSaves = 1
    Crons = {t1, t2}
    EventCap = 1
    BroadcastCap = 1
    MaxSeconds = 1
    MaxEvents = 2
    MaxRuns = 2
CHECK_DEADLOCK FALSE
INVARIANT StartsOnce
PROPERTY EventsDispatched
