\* Every graph on five agents with every root: 5120 instances.
CONSTANTS
    Agents <- FiveAgents
    Graphs <- FiveGraphs
SPECIFICATION FairDfsSpec
INVARIANTS
    DfsInv
    NoProtocolError
PROPERTIES
    Verdict
    IsDepthFirst
CHECK_DEADLOCK FALSE
