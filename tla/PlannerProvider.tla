----------------------------- MODULE PlannerProvider -----------------------------
(***************************************************************************)
(* PlannerProvider of ecora/planning.py and ExactPlannerProvider of        *)
(* ecora/exact.py: from a PlanningProblem to its proposals.  Each agent's  *)
(* goals are searched for in turn, the plan is replayed by the validator   *)
(* and, if the configuration says so, its cost is held to the certificate: *)
(* the table of what every configuration costs, filled by enumerate_space. *)
(* The exact reference fills the table first and plans once, for all goals.*)
(***************************************************************************)
EXTENDS Planning

CONSTANT Requests   \* what a provider is asked, and how it is configured

(* A request in the form the harness and OperatorSpec give it.  planning.py   *)
(* admits an estimate only "once its lower-bound property has been checked": *)
(* an operator costs at least what it takes off the estimate.  A table that  *)
(* may hold nothing is none: its limit is tested only when it grows.         *)
Asks(q) ==
    /\ q.operators \in Seq(ToSet(q.operators))
    /\ \A o \in ToSet(q.operators) :
          /\ o.cost \in Nat /\ IsFiniteSet(o.add)
          /\ q.weight * Cardinality(o.add) <= o.cost
    /\ q.goals \in Seq(ToSet(q.goals))
    /\ q.agents \in Seq({goals \in Seq(ToSet(q.goals)) : goals # <<>>}) \ {<<>>}
    /\ {q.budget, q.cap, q.depth, q.limit, q.weight} \subseteq Nat /\ q.limit # 0
    /\ q.certify \in BOOLEAN

(* Longest is long enough: one operator more leads nowhere new, nor anywhere *)
(* at less cost.                                                             *)
Explored(q) ==
    \A r \in Reached(q, Longest + 1) :
        \E s \in Reached(q, Longest) : s.state = r.state /\ s.cost <= r.cost

(* What of a request decides where its plans lead.                           *)
GraphOf(q) == [known |-> q.known, unknown |-> q.unknown, operators |-> q.operators]

ASSUME RequestsAssumption ==
    /\ Longest \in Nat
    /\ \A q \in Requests : Asks(q)
    /\ \A g \in {GraphOf(q) : q \in Requests} : Explored(g)

Providers == Searches \cup {"exact"}

VARIABLES
    request,     \* a member of Requests
    provider,    \* a member of Providers
    table,       \* of enumerate_space: its frontier, its costs, whether it outgrew the limit
    proposals,   \* of the agents so far
    report       \* "running", "ok" or "raised"

providerVars == <<request, provider, proposals, report>>
allVars == <<vars, table, providerVars>>

Exact == provider = "exact"

(* The exact reference plans for the whole goal set and ignores the cap. *)
Agents == IF Exact THEN <<request.goals>> ELSE request.agents
Budget == IF Exact THEN request.budget ELSE Min({request.budget, request.cap})

ProblemOf(agent) ==
    [domain |-> request.domain, known |-> request.known, unknown |-> request.unknown,
     operators |-> request.operators, goals |-> Agents[agent], budget |-> Budget,
     depth |-> request.depth, weight |-> request.weight]

Method == IF Exact THEN "uniform_cost" ELSE provider
NewTable == [frontier |-> {[cost |-> 0, state |-> request.known]},
             costs |-> [s \in {request.known} |-> 0], exceeded |-> FALSE]

(* Whose turn it is. *)
Agent == Len(proposals) + 1

Init ==
    /\ request \in Requests
    /\ provider \in Providers
    /\ proposals = <<>>
    /\ report = "running"
    /\ Start(ProblemOf(1), Method)
    /\ table = NewTable

-------------------------------------------------------------------------------
(* enumerate_space, one expansion at a time.                                 *)

Enumerated == table.frontier = {} \/ table.exceeded

(* A configuration keeps what it cost when it was found first. *)
TabulatedOnce(found, k, from) ==
    LET following == Applied(operators[k], from.state)
        reached == from.cost + operators[k].cost
    IN  IF following \in DOMAIN found.costs
        THEN found
        ELSE [found EXCEPT !.costs = Priced(@, following, reached),
                           !.frontier = @ \cup {[cost |-> reached, state |-> following]}]

Tabulated(found, k, from) ==
    LET following == Applied(operators[k], from.state)
        reached == from.cost + operators[k].cost
    IN  IF following \in DOMAIN found.costs /\ found.costs[following] <= reached
        THEN found
        ELSE [found EXCEPT !.costs = Priced(@, following, reached),
                           !.frontier = @ \cup {[cost |-> reached, state |-> following]}]

(* Which of several entries of one cost is taken first decides nothing. *)
Nearest == CHOOSE e \in table.frontier : \A d \in table.frontier : e.cost <= d.cost

Enumerate ==
    /\ report = "running" /\ ~Enumerated
    /\ IF Exact THEN Running ELSE outcome.status = "found" /\ request.certify
    /\ LET rest == [table EXCEPT !.frontier = @ \ {Nearest}]
           grown == FoldLeftDomain(
                        LAMBDA found, k :
                            IF k \in successors(Nearest.state, problem.unknown, operators)
                            THEN Tabulated(found, k, Nearest) ELSE found,
                        rest, operators)
       IN  table' = IF Nearest.cost > table.costs[Nearest.state] THEN rest
                    ELSE [grown EXCEPT !.exceeded = Cardinality(DOMAIN grown.costs) > request.limit]
    /\ UNCHANGED <<vars, providerVars>>

Search ==
    /\ report = "running"
    /\ Exact => Enumerated /\ ~table.exceeded
    /\ Step
    /\ UNCHANGED <<table, providerVars>>

-------------------------------------------------------------------------------
(* What was searched for, as the validator and the table see it.             *)

Replay == Replayed(problem.known, problem.unknown, operators, outcome.plan)
Achieved == Replay.executable /\ Met(Replay.state)

(* The two sources of a plan's cost. *)
Disagree ==
    /\ Exact \/ (Achieved /\ provider # "gps")
    /\ table.costs[Replay.state] # Replay.cost

Proposal(plan, status, certified, reason) ==
    [agent |-> Agent, goals |-> problem.goals, plan |-> plan, status |-> status,
     certified |-> certified, reason |-> reason]

Uncertified(reason) == Proposal(<<>>, "unknown", FALSE, reason)

(* A proposal is recorded; the next agent's search starts anew. *)
Propose(proposal) ==
    /\ proposals' = Append(proposals, proposal)
    /\ IF Agent < Len(Agents)
       THEN /\ StartNext(ProblemOf(Agent + 1))
            /\ table' = NewTable
            /\ UNCHANGED report
       ELSE /\ report' = "ok"
            /\ UNCHANGED <<vars, table>>
    /\ UNCHANGED <<request, provider>>

(* _plan_for without a plan; the exact reference says which of two reasons. *)
NoPlan ==
    /\ report = "running" /\ outcome.status \in {"none", "exhausted"}
    /\ Propose(Uncertified(
           IF ~Exact THEN "no_plan_within_budget"
           ELSE IF outcome.status = "exhausted" THEN "no plan within the declared budget"
           ELSE "no plan exists in this graph"))

(* The exact reference gives up where its table did. *)
SpaceExceeded ==
    /\ report = "running" /\ Exact /\ Running /\ table.exceeded
    /\ Propose(Uncertified("space_exceeded"))

Certified ==
    /\ Enumerated /\ ~table.exceeded
    /\ ~Disagree

Plan ==
    /\ report = "running" /\ outcome.status = "found"
    /\ Exact \/ request.certify => Certified
    /\ Propose(Proposal(outcome.plan, IF Achieved THEN "achieved_in_model" ELSE "unmet",
                        Exact \/ request.certify, "none"))

(* One agent's table that outgrows its limit, or disagrees, loses all.       *)
Raise ==
    /\ report = "running" /\ outcome.status = "found"
    /\ Exact \/ request.certify
    /\ Enumerated /\ (table.exceeded \/ Disagree)
    /\ report' = "raised"
    /\ proposals' = <<>>
    /\ UNCHANGED <<vars, table, request, provider>>

Next == Search \/ Enumerate \/ NoPlan \/ SpaceExceeded \/ Plan \/ Raise

Spec == Init /\ [][Next]_allVars

-------------------------------------------------------------------------------
(* exact.py: "A plan is only called optimal when its cost matches that       *)
(* table" and "A solver that exhausts its budget returns unknown ... and no  *)
(* certificate".  Whatever the agents before it planned: a proposal that     *)
(* claims its goals reaches them; a certified one is the cheapest there is,  *)
(* gps left aside; the exact reference certifies whenever table and budget   *)
(* suffice and otherwise gives the true reason; and an invocation fails only *)
(* because the configurations outnumber the limit, never because the search  *)
(* and the table disagree.                                                   *)
ProposalsEarned ==
    /\ report = "raised" => request.certify /\ ~Exact /\ Cardinality(States) > request.limit
    /\ \A p \in ToSet(proposals) :
          LET run == Replayed(request.known, request.unknown, request.operators, p.plan)
          IN  /\ p.status = "achieved_in_model" => run.executable /\ ToSet(p.goals) \subseteq run.state
              /\ p.status # "unmet"
              /\ p.certified => /\ p.status = "achieved_in_model"
                                /\ Cardinality(States) <= request.limit
                                /\ provider # "gps" => Cheapest(p.goals, p.plan)
              /\ p.reason = "no plan exists in this graph" => Solutions(p.goals) = {}
              /\ p.reason = "no plan within the declared budget" =>
                     request.budget < Cardinality(States)
              /\ p.reason = "space_exceeded" <=> Exact /\ Cardinality(States) > request.limit
===============================================================================
