----------------------------- MODULE ExactSolver -----------------------------
(***************************************************************************)
(* What solve promises its caller (agents.solve, and exact_reference of    *)
(* evaluation.py as the definition of the optimum): one verdict about the  *)
(* problem, reached in one step.  A solved problem comes with an assignment *)
(* of least cost, an infeasible one has no assignment of finite cost, only  *)
(* a disconnected problem is refused, and only a budget below the number of *)
(* all assignments can be exhausted, which says no more about the problem.  *)
(***************************************************************************)
EXTENDS DcopTables

CONSTANTS
    Agents,
    Problems,
    Budgets

VARIABLES
    problem,
    budget,
    verdict,     \* "running", or the status the caller sees
    plan         \* the assignment returned

vars == <<problem, budget, verdict, plan>>

NoPlan == [a \in Agents |-> NoValue]

(* exact_reference: enumerate every assignment.                              *)
Optimum(p) ==
    LET costs == {Total(p.factors, v) : v \in Contexts(p.dom)}
    IN  IF costs = {Forbidden} THEN Forbidden ELSE Min(costs \ {Forbidden})

(* No part of the agents keeps all its factors to itself.                    *)
Connected(p) ==
    \A S \in (SUBSET Agents) \ {{}, Agents} :
        \E k \in DOMAIN p.factors :
            Scope(p.factors[k]) \cap S # {} /\ ~ (Scope(p.factors[k]) \subseteq S)

Init ==
    /\ problem \in Problems
    /\ budget \in Budgets
    /\ verdict = "running"
    /\ plan = NoPlan

Solved ==
    /\ verdict' = "solved"
    /\ Connected(problem)
    /\ plan' \in Contexts(problem.dom)
    /\ Total(problem.factors, plan') = Optimum(problem)
    /\ Optimum(problem) # Forbidden

Infeasible ==
    /\ verdict' = "infeasible"
    /\ Connected(problem)
    /\ Optimum(problem) = Forbidden
    /\ UNCHANGED plan

GiveUp ==
    /\ verdict' = "budget_exceeded"
    /\ Connected(problem)
    /\ Entries(problem.dom) > budget
    /\ UNCHANGED plan

Refuse ==
    /\ verdict' = "disconnected"
    /\ ~ Connected(problem)
    /\ UNCHANGED plan

Next ==
    /\ verdict = "running"
    /\ Solved \/ Infeasible \/ GiveUp \/ Refuse
    /\ UNCHANGED <<problem, budget>>

Spec == Init /\ [][Next]_vars
=============================================================================
