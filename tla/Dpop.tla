-------------------------------- MODULE Dpop --------------------------------
(***************************************************************************)
(* The whole solve of dcop_channel_assignment/agents.py: the distributed   *)
(* DFS of PseudoTree, then UTIL tables up the tree and VALUE messages down  *)
(* it, driven by the harness _run_util and solve.                          *)
(*                                                                         *)
(* After the DFS the harness starts UTIL at every agent in name order and   *)
(* only then drains the queue; after UTIL it starts VALUE at the root, and  *)
(* only when the root's cost is finite.  A table above the entry budget     *)
(* ends the run with no assignment.                                        *)
(***************************************************************************)
EXTENDS PseudoTree, DcopTables

CONSTANTS
    Problems,    \* the instances a run may be given
    Budgets      \* the values max_entries may have

(* A problem maps each agent to its domain and each factor identifier to a   *)
(* table over one or two agents, with the domains of the agents.             *)
ASSUME ProblemsAssumption ==
    /\ IsFiniteSet(Agents)
    /\ \A p \in Problems :
          /\ DOMAIN p.dom = Agents
          /\ \A n \in Agents : /\ p.dom[n] # {}
                              /\ p.dom[n] \subseteq Nat \ {NoValue}
                              /\ IsFiniteSet(p.dom[n])
          /\ IsFiniteSet(DOMAIN p.factors)
          /\ \A k \in DOMAIN p.factors :
                LET f == p.factors[k]
                IN  /\ Scope(f) \subseteq Agents
                    /\ Cardinality(Scope(f)) \in {1, 2}
                    /\ f.dom = Restrict(p.dom, Scope(f))
                    /\ f.at \in [Contexts(f.dom) -> Nat \cup {Forbidden}]

ASSUME BudgetsAssumption == Budgets \subseteq Nat \ {0}

VARIABLES
    problem,     \* DcopInstance
    budget,      \* max_entries
    childTable,  \* AgentSession._child_tables
    projection,  \* .projection, its table and its choices
    value        \* .value

given == <<instance, problem, budget>>
tree == <<ancestors, remaining, pending, children, childSep, separator>>
vars == <<dfsVars, problem, budget, childTable, projection, value>>

(* DcopInstance.local_view: two agents are neighbours if they share a factor. *)
NeighborsIn(p) ==
    [a \in Agents |->
        (UNION {Scope(p.factors[k]) : k \in {k \in DOMAIN p.factors :
                                               a \in Scope(p.factors[k])}}) \ {a}]

NoTable == [dom |-> <<>>, at |-> <<>>]
NoProjection == [table |-> NoTable, choice |-> <<>>]

Init ==
    /\ problem \in Problems
    /\ nbrs = NeighborsIn(problem)
    /\ DfsInit
    /\ budget \in Budgets
    /\ childTable = [a \in Agents |-> <<>>]
    /\ projection = [a \in Agents |-> NoProjection]
    /\ value = [a \in Agents |-> NoValue]

(* _prepare.                                                                 *)
Traverse ==
    /\ Start \/ Deliver \/ Prepared("util")
    /\ UNCHANGED <<problem, budget, childTable, projection, value>>

-----------------------------------------------------------------------------
(* UTIL.                                                                     *)

(* position().owned_factors: what touches a and otherwise only its ancestors. *)
OwnedFactors(a) ==
    {k \in DOMAIN problem.factors :
        /\ a \in Scope(problem.factors[k])
        /\ Scope(problem.factors[k]) \ {a} \subseteq Above(a)}

(* What a joins: its factors and one table per child, or a zero table over   *)
(* its own domain when none of them mentions it.  The two kinds of key keep  *)
(* a factor and a child of the same name apart.                              *)
Contributions(a, tables) ==
    LET held == ({"local"} \X OwnedFactors(a)) \cup ({"child"} \X DOMAIN tables)
        own == [n \in {a} |-> problem.dom[n]]
        member(k) == CASE k[1] = "local" -> problem.factors[k[2]]
                       [] k[1] = "child" -> tables[k[2]]
                       [] k[1] = "zero" -> [dom |-> own, at |-> [v \in Contexts(own) |-> 0]]
        spare == IF \E k \in held : a \in Scope(member(k)) THEN {} ELSE {<<"zero", a>>}
    IN  [k \in held \cup spare |-> member(k)]

(* check_size; the comparison off by one.                                    *)
AtBudget(dom) == Entries(dom) >= budget

TooLarge(dom) == Entries(dom) > budget

(* A computation that raises ends the run.                                   *)
Fail(a, rest, verdict) ==
    /\ stage' = verdict
    /\ phase' = [phase EXCEPT ![a] = IF verdict = "budget_exceeded"
                                     THEN "failed" ELSE "util"]
    /\ queue' = rest
    /\ UNCHANGED <<sent, projection>>

(* _compute_util_if_ready, at an agent in its UTIL phase that holds tables;   *)
(* the bounded quantifiers name one value each.                               *)
ComputeUtil(a, rest, tables) ==
    \E family \in {Contributions(a, tables)} :
        IF DOMAIN tables # ToSet(children[a])
        THEN /\ phase' = [phase EXCEPT ![a] = "util"]
             /\ queue' = rest
             /\ UNCHANGED <<stage, sent, projection>>
        ELSE IF ~ SameDomains(family)
        THEN Fail(a, rest, "protocol_error")
        ELSE IF TooLarge(JoinedDomains(family))
        THEN Fail(a, rest, "budget_exceeded")
        ELSE \E result \in {Minimize(Join(family), a)} :
             IF Scope(result.table) # separator[a]
             THEN Fail(a, rest, "protocol_error")
             ELSE /\ phase' = [phase EXCEPT ![a] = "util_done"]
                  /\ projection' = [projection EXCEPT ![a] = result]
                  /\ UNCHANGED stage
                  /\ IF Parent(a) = NoAgent
                     THEN queue' = rest /\ UNCHANGED sent
                     ELSE Post(rest, a, Parent(a), "util", result.table)

(* The queue drained as soon as the first agent has started.                 *)
UtilStartedOnce == \E a \in Agents : phase[a] # "ready"

UtilStarted == \A a \in Agents : phase[a] # "ready"

(* The loop of _run_util over the agents in name order.                      *)
StartUtil ==
    /\ stage = "util"
    /\ ~ UtilStarted
    /\ LET a == Min({b \in Agents : phase[b] = "ready"})
       IN  ComputeUtil(a, queue, childTable[a])
    /\ UNCHANGED <<given, tree, received, childTable, value>>

GoodUtil(m) ==
    /\ m.kind = "util"
    /\ phase[m.to] = "util"
    /\ m.from \in ToSet(children[m.to])
    /\ m.from \notin DOMAIN childTable[m.to]
    /\ Scope(m.payload) = childSep[m.to][m.from]
    /\ \A n \in Scope(m.payload) \cap ({m.to} \cup nbrs[m.to]) :
          m.payload.dom[n] = problem.dom[n]
    /\ \A c \in DOMAIN childTable[m.to] :
          \A n \in Scope(m.payload) \cap Scope(childTable[m.to][c]) :
             m.payload.dom[n] = childTable[m.to][c].dom[n]

(* UTIL and VALUE are accepted after they are handled, unless that raises.   *)
AcceptUnless(raised, m) == IF raised THEN UNCHANGED received ELSE Accept(m)

(* The table stored, and no test of whether it was the last one awaited.     *)
StoreUtil(m) ==
    /\ Accept(m)
    /\ childTable' = [childTable EXCEPT ![m.to] = (m.from :> m.payload) @@ @]
    /\ queue' = Tail(queue)
    /\ UNCHANGED <<stage, phase, sent, projection>>

(* _receive_util: a table that is itself above the budget fails the agent.   *)
ReceiveUtil(m) ==
    LET tables == [c \in DOMAIN childTable[m.to] \cup {m.from} |->
                     IF c = m.from THEN m.payload ELSE childTable[m.to][c]]
    IN  IF TooLarge(m.payload.dom)
        THEN /\ Fail(m.to, Tail(queue), "budget_exceeded")
             /\ UNCHANGED <<received, childTable>>
        ELSE /\ childTable' = [childTable EXCEPT ![m.to] = tables]
             /\ ComputeUtil(m.to, Tail(queue), tables)
             /\ AcceptUnless(stage' # stage, m)

RejectLate ==
    /\ Reject
    /\ UNCHANGED <<childTable, projection, value>>

DeliverUtil ==
    /\ stage = "util"
    /\ UtilStarted
    /\ queue # <<>>
    /\ LET m == Head(queue)
       IN  IF Acceptable(m) /\ GoodUtil(m)
           THEN ReceiveUtil(m) /\ UNCHANGED <<tree, value>>
           ELSE RejectLate
    /\ UNCHANGED given

RootCost == projection[root].table.at[<<>>]

(* The status without the test for an infeasible root.                       *)
FinishUtilHasty ==
    /\ stage = "util"
    /\ UtilStarted
    /\ queue = <<>>
    /\ stage' = "optimal_cost"
    /\ UNCHANGED <<given, phase, tree, sent, received, queue, childTable,
                   projection, value>>

(* The end of _run_util: the status of the run.                              *)
FinishUtil ==
    /\ stage = "util"
    /\ UtilStarted
    /\ queue = <<>>
    /\ stage' = IF \E a \in Agents : phase[a] # "util_done" THEN "protocol_error"
                ELSE IF RootCost = Forbidden THEN "infeasible" ELSE "optimal_cost"
    /\ UNCHANGED <<given, phase, tree, sent, received, queue, childTable,
                   projection, value>>

-----------------------------------------------------------------------------
(* VALUE.                                                                    *)

(* The messages _choose sends, in the order of the children.                 *)
ChoiceMessages(a, known) ==
    [i \in DOMAIN children[a] |->
        [kind |-> "value", from |-> a, to |-> children[a][i],
         seq |-> sent[a] + i - 1,
         payload |-> Restrict(known, childSep[a][children[a][i]])]]

Choose(a, rest, context) ==
    LET choice == projection[a].choice[context]
        known == With(context, a, choice)
    IN  IF \/ choice = NoValue
           \/ \E c \in ToSet(children[a]) : ~ (childSep[a][c] \subseteq DOMAIN known)
        THEN /\ stage' = "protocol_error"
             /\ queue' = rest
             /\ UNCHANGED <<phase, sent, value>>
        ELSE /\ stage' = "value"
             /\ value' = [value EXCEPT ![a] = choice]
             /\ phase' = [phase EXCEPT ![a] = "assigned"]
             /\ queue' = rest \o ChoiceMessages(a, known)
             /\ sent' = [sent EXCEPT ![a] = @ + Len(children[a])]

(* solve: the harness tells the root to choose.                              *)
StartValue ==
    /\ stage = "optimal_cost"
    /\ Choose(root, queue, <<>>)
    /\ UNCHANGED <<given, tree, received, childTable, projection>>

GoodValue(m) ==
    /\ m.kind = "value"
    /\ phase[m.to] = "util_done"
    /\ m.from = Parent(m.to)
    /\ m.payload \in Contexts(projection[m.to].table.dom)

DeliverValue ==
    /\ stage = "value"
    /\ queue # <<>>
    /\ LET m == Head(queue)
       IN  IF Acceptable(m) /\ GoodValue(m)
           THEN /\ Choose(m.to, Tail(queue), m.payload)
                /\ AcceptUnless(stage' = "protocol_error", m)
                /\ UNCHANGED <<tree, childTable, projection>>
           ELSE RejectLate
    /\ UNCHANGED given

(* The end of solve: every agent has chosen, and the choices cost what the   *)
(* root's table promised.                                                    *)
FinishValue ==
    /\ stage = "value"
    /\ queue = <<>>
    /\ stage' = IF /\ \A a \in Agents : phase[a] = "assigned"
                   /\ Total(problem.factors, value) = RootCost
                THEN "solved" ELSE "protocol_error"
    /\ UNCHANGED <<given, phase, tree, sent, received, queue, childTable,
                   projection, value>>

Next ==
    \/ Traverse
    \/ StartUtil \/ DeliverUtil \/ FinishUtil
    \/ StartValue \/ DeliverValue \/ FinishValue

Spec == Init /\ [][Next]_vars

(* solve is one thread of the harness and it never blocks.  Every step moves *)
(* the harness or an agent's phase, sends a message or consumes one.           *)
progress == <<stage, phase, sent, Len(queue)>>
FairSpec == Spec /\ WF_progress(Next)

-----------------------------------------------------------------------------
(* Properties.                                                               *)

(* The factors that mention an agent of the subtree of a.                    *)
SubtreeFactors(a) ==
    {k \in DOMAIN problem.factors : Scope(problem.factors[k]) \cap Subtree(a) # {}}

(* The least cost of the subtree of a when its separator takes the values of *)
(* context, by enumerating every assignment of the subtree.                  *)
SubtreeOptimum(a, context) ==
    LET below == Restrict(problem.dom, Subtree(a))
        part == Restrict(problem.factors, SubtreeFactors(a))
        costs == {Total(part, [n \in Subtree(a) \cup DOMAIN context |->
                                 IF n \in Subtree(a) THEN v[n] ELSE context[n]])
                  : v \in Contexts(below)}
    IN  IF costs = {Forbidden} THEN Forbidden ELSE Min(costs \ {Forbidden})

(* Every UTIL table is exact: for each combination of its separator's values *)
(* it holds the least cost of the agent's whole subtree, each factor counted *)
(* once, although each agent only ever sees its own factors and the tables   *)
(* of its children.                                                          *)
UtilExact ==
    \A a \in Agents : phase[a] \in {"util_done", "assigned"} =>
        \A context \in DOMAIN projection[a].table.at :
            projection[a].table.at[context] = SubtreeOptimum(a, context)

(* Whatever part of the tree has chosen so far, some assignment of optimal   *)
(* cost agrees with all the choices made: no agent's local argmin ever paints *)
(* the run into a corner.                                                     *)
ChoicesExtend ==
    stage = "value" =>
        \E v \in Contexts(problem.dom) :
            /\ Total(problem.factors, v) = RootCost
            /\ \A a \in Agents : phase[a] = "assigned" => v[a] = value[a]

Width(a) == Entries(Restrict(problem.dom, {a} \cup separator[a]))

(* The entry budget ends a run exactly when some agent of the tree would     *)
(* have to join more entries than it allows, whatever order the tables       *)
(* arrive in, and never because of a table that was only received.           *)
BudgetVerdict ==
    /\ stage = "budget_exceeded" => \E a \in Agents : Width(a) > budget
    /\ stage \in {"optimal_cost", "infeasible", "value", "solved"} =>
          \A a \in Agents : Width(a) <= budget

(* Every run ends with one of the four verdicts its caller can be given.     *)
Outcomes == {"solved", "infeasible", "budget_exceeded", "disconnected"}
Terminates == <>(stage \in Outcomes)

(* The distributed run implements the exact solver: the verdict and the      *)
(* assignment the caller sees are those of exhaustive enumeration.           *)
Solver == INSTANCE ExactSolver
            WITH verdict <- IF stage \in Outcomes \cup {"protocol_error"}
                            THEN stage ELSE "running",
                 plan <- IF stage = "solved" THEN value
                         ELSE [a \in Agents |-> NoValue]

IsExactSolver == Solver!Spec
=============================================================================
