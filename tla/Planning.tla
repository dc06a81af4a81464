-------------------------------- MODULE Planning --------------------------------
(***************************************************************************)
(* The searches of ecora/planning.py, one iteration or one call at a time: *)
(* uniform_cost and astar share their loop, with an estimate that is 0 for *)
(* the former; gps is a stack of calls of reduce_goal.  A plan names its   *)
(* operators by their places in the catalog.                               *)
(***************************************************************************)
EXTENDS Symbolic, FiniteSets, Functions, FiniteSetsExt

CONSTANT Longest   \* how many operators a cheapest plan can have

Searches == {"uniform_cost", "astar", "gps"}

VARIABLES
    problem,      \* known, unknown, goals, operators, budget, depth and weight of the heuristic
    search,       \* a member of Searches
    frontier,     \* the heap: [rank, cost, tie, state, plan]
    best,         \* the least cost known, by state
    tie,          \* entries pushed so far
    expansions,   \* of either procedure
    stack,        \* the calls of reduce_goal, the innermost last
    outcome       \* [status, plan]

bestFirstVars == <<frontier, best, tie>>
vars == <<problem, search, frontier, best, tie, expansions, stack, outcome>>

operators == problem.operators
Met(state) == ToSet(problem.goals) \subseteq state
Running == outcome.status = "searching"

(***************************************************************************)
(* uniform_cost and astar.                                                 *)
(***************************************************************************)

(* The caller's heuristic: here so much for every goal not met yet. *)
estimate(state) ==
    IF search = "uniform_cost" THEN 0
    ELSE problem.weight * Cardinality(ToSet(problem.goals) \ state)

Entry(cost, order, state, plan) ==
    [rank |-> cost + estimate(state), cost |-> cost, tie |-> order, state |-> state, plan |-> plan]

(* heapq's order of entries. *)
Before(d, e) ==
    \/ d.rank < e.rank
    \/ d.rank = e.rank /\ d.cost < e.cost
    \/ d.rank = e.rank /\ d.cost = e.cost /\ d.tie < e.tie

Popped == CHOOSE e \in frontier : \A d \in frontier \ {e} : Before(e, d)

(* A state found once is not reopened when it is reached at less cost. *)
DiscoveredOnce(found, k, from) ==
    LET following == Applied(operators[k], from.state)
        reached == from.cost + operators[k].cost
    IN  IF following \in DOMAIN found.best
        THEN found
        ELSE [best     |-> Priced(found.best, following, reached),
              tie      |-> found.tie + 1,
              frontier |-> found.frontier \cup
                  {Entry(reached, found.tie + 1, following, Append(from.plan, k))}]

(* One successor, of the state at the given cost: pushed if it is cheaper. *)
Discovered(found, k, from) ==
    LET following == Applied(operators[k], from.state)
        reached == from.cost + operators[k].cost
    IN  IF following \in DOMAIN found.best /\ found.best[following] <= reached
        THEN found
        ELSE [best     |-> Priced(found.best, following, reached),
              tie      |-> found.tie + 1,
              frontier |-> found.frontier \cup
                  {Entry(reached, found.tie + 1, following, Append(from.plan, k))}]

Expanded(from) ==
    FoldLeftDomain(LAMBDA found, k : IF k \in successors(from.state, problem.unknown, operators)
                                     THEN Discovered(found, k, from) ELSE found,
                   [best |-> best, tie |-> tie, frontier |-> frontier \ {from}],
                   operators)

BestFirst == Running /\ search # "gps"

ReturnPlan ==
    /\ BestFirst /\ frontier # {}
    /\ Met(Popped.state)
    /\ outcome' = [status |-> "found", plan |-> Popped.plan]
    /\ frontier' = frontier \ {Popped}
    /\ UNCHANGED <<problem, search, best, tie, expansions, stack>>

SkipStale ==
    /\ BestFirst /\ frontier # {}
    /\ ~Met(Popped.state)
    /\ Popped.cost > best[Popped.state]
    /\ frontier' = frontier \ {Popped}
    /\ UNCHANGED <<problem, search, best, tie, expansions, stack, outcome>>

(* The budget is used up one expansion early. *)
ExpandEarly ==
    /\ BestFirst /\ frontier # {}
    /\ ~Met(Popped.state)
    /\ Popped.cost <= best[Popped.state]
    /\ expansions' = expansions + 1
    /\ IF expansions' >= problem.budget
       THEN /\ frontier' = frontier \ {Popped}
            /\ outcome' = [status |-> "exhausted", plan |-> <<>>]
            /\ UNCHANGED <<best, tie>>
       ELSE /\ best' = Expanded(Popped).best
            /\ tie' = Expanded(Popped).tie
            /\ frontier' = Expanded(Popped).frontier
            /\ UNCHANGED outcome
    /\ UNCHANGED <<problem, search, stack>>

(* The state at the head of the heap is expanded, if the budget allows it. *)
Expand ==
    /\ BestFirst /\ frontier # {}
    /\ ~Met(Popped.state)
    /\ Popped.cost <= best[Popped.state]
    /\ expansions' = expansions + 1
    /\ IF expansions' > problem.budget
       THEN /\ frontier' = frontier \ {Popped}
            /\ outcome' = [status |-> "exhausted", plan |-> <<>>]
            /\ UNCHANGED <<best, tie>>
       ELSE /\ best' = Expanded(Popped).best
            /\ tie' = Expanded(Popped).tie
            /\ frontier' = Expanded(Popped).frontier
            /\ UNCHANGED outcome
    /\ UNCHANGED <<problem, search, stack>>

NothingLeft ==
    /\ BestFirst /\ frontier = {}
    /\ outcome' = [status |-> "none", plan |-> <<>>]
    /\ UNCHANGED <<problem, search, frontier, best, tie, expansions, stack>>

(***************************************************************************)
(* gps: a call has its state, the goals that remain, the plan so far, its  *)
(* depth, the states visited on the way, and the last operator it tried (0 *)
(* before its loop).  A call that returns None leaves the loop to its      *)
(* caller; one that returns a plan ends the search.                        *)
(***************************************************************************)
Call(state, remaining, plan, depth, visited) ==
    [state |-> state, remaining |-> remaining, plan |-> plan, depth |-> depth,
     visited |-> visited \cup {state}, tried |-> 0]

MeansEnds == Running /\ search = "gps"
Current == Last(stack)
Entering == MeansEnds /\ Current.tried = 0
OverBudget == expansions > problem.budget

ReturnNone ==
    /\ stack' = Front(stack)
    /\ outcome' = IF Len(stack) > 1 THEN outcome
                  ELSE [status |-> IF OverBudget THEN "exhausted" ELSE "none", plan |-> <<>>]
    /\ UNCHANGED <<problem, search, bestFirstVars, expansions>>

CutOff == Entering /\ OverBudget /\ ReturnNone

TooDeep ==
    /\ Entering /\ ~OverBudget
    /\ Current.remaining # <<>> /\ Current.depth > problem.depth
    /\ ReturnNone

(* No goal remains, and none is looked at again. *)
ConcludeUnchecked ==
    /\ Entering /\ ~OverBudget
    /\ Current.remaining = <<>>
    /\ outcome' = [status |-> "found", plan |-> Current.plan]
    /\ UNCHANGED <<problem, search, bestFirstVars, expansions, stack>>

(* No goal remains; one that a later subgoal undid makes the plan fail. *)
Conclude ==
    /\ Entering /\ ~OverBudget
    /\ Current.remaining = <<>>
    /\ IF Met(Current.state)
       THEN /\ outcome' = [status |-> "found", plan |-> Current.plan]
            /\ UNCHANGED <<problem, search, bestFirstVars, expansions, stack>>
       ELSE ReturnNone

InLoop ==
    /\ MeansEnds
    /\ Current.tried = 0 => /\ ~OverBudget
                            /\ Current.remaining # <<>>
                            /\ Current.depth <= problem.depth

(* The operators that would reduce the difference and have not been tried. *)
Reducing ==
    {k \in DOMAIN operators : /\ k > Current.tried
                              /\ Head(Current.remaining) \in operators[k].add}

Try ==
    /\ InLoop /\ Reducing # {}
    /\ expansions' = expansions + 1
    /\ LET k == Min(Reducing)
           following == Applied(operators[k], Current.state)
           waiting == [stack EXCEPT ![Len(stack)].tried = k]
           remaining == SelectSeq(Tail(Current.remaining), LAMBDA goal : goal \notin following)
       IN  stack' = IF /\ Applicable(operators[k], Current.state, problem.unknown)
                       /\ following \notin Current.visited
                    THEN Append(waiting, Call(following, remaining, Append(Current.plan, k),
                                              Current.depth + 1, Current.visited))
                    ELSE waiting
    /\ UNCHANGED <<problem, search, bestFirstVars, outcome>>

NothingReduces == InLoop /\ Reducing = {} /\ ReturnNone

-------------------------------------------------------------------------------
Start(p, method) ==
    /\ problem = p
    /\ search = method
    /\ expansions = 0
    /\ outcome = [status |-> "searching", plan |-> <<>>]
    /\ tie = 0
    /\ best = [s \in {p.known} |-> 0]
    /\ frontier = {Entry(0, 0, p.known, <<>>)}
    /\ stack = <<Call(p.known, SelectSeq(p.goals, LAMBDA goal : goal \notin p.known), <<>>, 0, {})>>

(* The same, for the search that follows another. *)
StartNext(p) ==
    /\ problem' = p /\ UNCHANGED search
    /\ expansions' = 0
    /\ outcome' = [status |-> "searching", plan |-> <<>>]
    /\ tie' = 0
    /\ best' = [s \in {p.known} |-> 0]
    /\ frontier' = {Entry(0, 0, problem.known, <<>>)'}
    /\ stack' = <<Call(p.known, SelectSeq(p.goals, LAMBDA goal : goal \notin p.known), <<>>, 0, {})>>

Step ==
    \/ ReturnPlan \/ SkipStale \/ Expand \/ NothingLeft
    \/ CutOff \/ TooDeep \/ Conclude \/ Try \/ NothingReduces

-------------------------------------------------------------------------------
(* Properties. *)

(* The space enumerate_space certifies: every configuration that a plan of   *)
(* up to n operators leads to in p, with what such plans cost.               *)
Onward(p, r, k) ==
    [state |-> Applied(p.operators[k], r.state), cost |-> r.cost + p.operators[k].cost]

Extended(p, space) ==
    space \cup UNION {{Onward(p, r, k) : k \in successors(r.state, p.unknown, p.operators)}
                         : r \in space}

Reached(p, n) ==
    LET reached[m \in 0 .. n] == IF m = 0 THEN {[state |-> p.known, cost |-> 0]}
                                 ELSE Extended(p, reached[m - 1])
    IN  reached[n]

Solutions(goals) == {r \in Reached(problem, Longest) : ToSet(goals) \subseteq r.state}
States == {r.state : r \in Reached(problem, Longest)}

Cheapest(goals, plan) ==
    LET run == Replayed(problem.known, problem.unknown, operators, plan)
    IN  /\ run.executable /\ ToSet(goals) \subseteq run.state
        /\ run.cost = Min({r.cost : r \in Solutions(goals)})

(* planning.py: "Every plan they emit is replayed through the validator", and *)
(* _plan_for requires its cost to be that of the enumerated table: what      *)
(* uniform_cost and astar return can be carried out, meets every goal and    *)
(* costs the least of all plans that do.                                     *)
Optimal == outcome.status = "found" /\ search # "gps" => Cheapest(problem.goals, outcome.plan)

(* planning.py: "A bounded search that finds nothing reports that it found   *)
(* nothing within its declared budget."  Where the budget is not blamed      *)
(* there is no plan, and it is blamed only where the configurations outnumber *)
(* it: an expansion is never spent twice on one.                             *)
Honest ==
    search # "gps" =>
        /\ outcome.status = "none" => Solutions(problem.goals) = {}
        /\ outcome.status = "exhausted" => problem.budget < Cardinality(States)

(* tests/test_planning.py: "every goal is one operator away, so uniform      *)
(* cost, A* and GPS all return the optimal cost on every problem in it":     *)
(* given the depth of one call for each goal, means-ends analysis over the   *)
(* catalog finds a cheapest plan wherever there is a plan, whatever was      *)
(* known and in whichever order it takes goals that undo each other.         *)
NoHeadroom ==
    search = "gps" /\ problem.domain = "configuration" /\ problem.depth >= Len(problem.goals) =>
        /\ outcome.status = "found" => Cheapest(problem.goals, outcome.plan)
        /\ outcome.status = "none" => Solutions(problem.goals) = {}
===============================================================================
