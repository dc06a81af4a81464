\* Evidence that contradicts itself nowhere, or a contradicting pair of strict or
\* of equal priorities, with and without a budget that binds.
CONSTANTS
    Labels = {1, 2, 3}
    Inventories <- AllClasses
    Budgets = {7, 40}
SPECIFICATION FairSpec
INVARIANTS
    BoardInv
    Agree
    WithheldForCause
PROPERTY Halts
CHECK_DEADLOCK FALSE
