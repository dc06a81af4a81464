\* Every connected graph on three agents with a fourth hung on, and seven
\* shapes on four agents: hard and soft edges, infeasible and disconnected
\* instances, every root, three budgets.
CONSTANTS
    Agents <- FourAgents
    Graphs <- AllGraphs
    Problems <- AllProblems
    Budgets <- AllBudgets
SPECIFICATION FairSpec
INVARIANTS
    NoProtocolError
    UtilExact
    ChoicesExtend
    BudgetVerdict
PROPERTIES
    IsExactSolver
    Terminates
CHECK_DEADLOCK FALSE
