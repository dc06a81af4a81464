\* A latency equal to the period, on a grid that floating point misses.
CONSTANTS
    Tie = 4
    Agents <- TwoAgents
    Scada <- ScadaAgents
    Cost <- StepCost
    Actuators <- Paths
    Configs <- OnTheGrid
    Epochs = 4
    MaxFaults = 1
SPECIFICATION FairSpec
INVARIANTS
    ClockForward
CHECK_DEADLOCK FALSE
