SPECIFICATION FairSpec
CONSTANTS
    Nodes <- FourNodes
    Graphs <- AllGraphs
    MaxTraversals = 2
    MaxItems = 2
    Panics = TRUE
INVARIANT TasksAccounted
INVARIANT StatusSound
INVARIANT NoReadyNodeLeftUnconditional
PROPERTY ImplementsFlowRun
PROPERTY StartsJustified
PROPERTY RunEnds
