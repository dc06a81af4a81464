------------------------------- MODULE MCDpop -------------------------------
(***************************************************************************)
(* Instances for Dpop: every connected graph on three agents with hard and *)
(* soft edges, ties, forbidden unary costs and infeasible combinations.     *)
(***************************************************************************)
EXTENDS Dpop

TwoValues == {1, 2}
Pairs(S) == {e \in SUBSET S : Cardinality(e) = 2}
Domains(S) == [a \in S |-> TwoValues]

(* inequality_factor, and an asymmetric finite table.                        *)
EdgeCost(kind, lo, hi) ==
    IF kind = "hard" THEN IF lo = hi THEN Forbidden ELSE 0
    ELSE IF lo = hi THEN 2 ELSE IF lo < hi THEN 0 ELSE 1

EdgeFactor(e, kind) ==
    [dom |-> Domains(e),
     at |-> [v \in [e -> TwoValues] |-> EdgeCost(kind, v[Min(e)], v[Max(e)])]]

UnaryFactor(a, costs) ==
    [dom |-> Domains({a}), at |-> [v \in [{a} -> TwoValues] |-> costs[v[a]]]]

(* A problem on the agents S with the edges E, their kinds, and the unary    *)
(* costs U.                                                                  *)
Problem(S, E, kinds, U) ==
    [dom |-> Domains(S),
     factors |-> [k \in E \cup {{a} : a \in S} |->
                    IF k \in E THEN EdgeFactor(k, kinds[k])
                    ELSE UnaryFactor(Min(k), U[Min(k)])]]

UnaryCosts == {<<0, 1>>, <<1, 0>>, <<Forbidden, 1>>}

(* Every connected graph on three agents, every choice of kinds and costs,    *)
(* with a fourth agent of one value and no cost of its own hung on the third. *)
ThreeAgents == 1..3
ThreeProblems ==
    UNION {{Problem(ThreeAgents, E, kinds, U) :
              kinds \in [E -> {"hard", "soft"}], U \in [ThreeAgents -> UnaryCosts]} :
           E \in {E \in SUBSET Pairs(ThreeAgents) : Cardinality(E) >= 2}}
Hung(p) ==
    LET dom == (3 :> TwoValues) @@ (4 :> {1})
    IN  [dom |-> p.dom @@ (4 :> {1}),
         factors |-> p.factors @@ ({3, 4} :> [dom |-> dom, at |-> [v \in Contexts(dom) |-> 0]])]

(* Seven shapes on four agents: path, star, cycle, triangle with a tail,     *)
(* cycle with a chord, complete, and two separate edges.                     *)
FourAgents == 1..4
Shapes ==
    {{{1, 2}, {2, 3}, {3, 4}}, {{1, 2}, {1, 3}, {1, 4}},
     {{1, 2}, {2, 3}, {3, 4}, {1, 4}}, {{1, 2}, {2, 3}, {1, 3}, {3, 4}},
     {{1, 2}, {2, 3}, {3, 4}, {1, 4}, {2, 4}}, Pairs(FourAgents),
     {{1, 2}, {3, 4}}}
FourProblems ==
    {Problem(FourAgents, E, [e \in E |-> kind], U) :
        E \in Shapes, kind \in {"hard", "soft"},
        U \in {<<<<0, 1>>, <<0, 1>>, <<0, 1>>, <<0, 1>>>>,
               <<<<Forbidden, 1>>, <<0, 2>>, <<1, 0>>, <<3, 0>>>>}}

AllProblems == FourProblems \cup {Hung(p) : p \in ThreeProblems}
AllGraphs == {NeighborsIn(p) : p \in AllProblems}
AllBudgets == {4, 8, 16}
=============================================================================
