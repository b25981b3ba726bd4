SPECIFICATION Spec
CONSTANTS
    Nodes <- ThreeNodes
    Graphs <- ConditionalJoin
    MaxTraversals = 1
    MaxItems = 0
    Panics = FALSE
INVARIANT NoReadyNodeLeft
