\* A contradicting pair at equal authority, in the single engine.
CONSTANTS
    Labels = {1, 2, 3}
    Inventories <- Undecided
    Budgets = {100}
SPECIFICATION Spec
INVARIANT EngineLeavesUnresolved
CHECK_DEADLOCK FALSE
