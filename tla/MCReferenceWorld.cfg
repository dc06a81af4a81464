\* One site under every combination of disturbance, queue limit and pacing.
CONSTANTS
    Sites <- OneSite
    Legs <- TwoLegs
    Capacity <- Capacities
    Delay <- Delays
    RateTable <- Tables
    Size <- Sizes
    Period <- Periods
    Deadline <- Deadlines
    ProcessingDelay = 1
    PacingRate <- Pacing
    ProbePeriod = 5
    ProbeStart = 1
    ProbeTimeout = 5
    ProbeValidity = 6
    Worlds <- AllWorlds
    Horizon = 9
    End = 45
    MaxCommands = 1
    Offered <- Offers
    Expected <- Expectations
    MaxAge = 3
    Window = 3
    SummaryDelay = 1
    Agents <- TwoAgents
    Specs <- Cohorts
    Requirements <- AllRequirements
SPECIFICATION FairSpec
INVARIANTS
    WorldInv
    OneCopy
    EvidenceFades
PROPERTIES
    UncensoredIsFinal
    VerdictStands
    Drains
CHECK_DEADLOCK FALSE
