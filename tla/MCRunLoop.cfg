\* Two agents over four epochs under forty studies, one fault in a run.
CONSTANTS
    Tie = 4
    Agents <- TwoAgents
    Scada <- ScadaAgents
    Cost <- StepCost
    Actuators <- Paths
    Configs <- Studies
    Epochs = 4
    MaxFaults = 1
SPECIFICATION FairSpec
INVARIANTS
    RunInv
    NoStaleWrite
    Regenerates
    Accounted
    PrivilegeSticks
    BoundedWait
PROPERTIES
    Completes
CHECK_DEADLOCK FALSE
