----------------------------- MODULE MCPseudoTree -----------------------------
(* Every graph on five agents and every choice of root.       *)
EXTENDS PseudoTreeInv

GraphsOn(S) ==
    LET pairs == {e \in SUBSET S : Cardinality(e) = 2}
    IN  {[a \in S |-> {b \in S : {a, b} \in E}] : E \in SUBSET pairs}

FiveAgents == 1..5
FiveGraphs == GraphsOn(FiveAgents)
=============================================================================
