------------------------------- MODULE MCPlanning -------------------------------
(* One site, everything a diagnosis may make known of it, and the goals of  *)
(* the studies in every order.                                              *)
EXTENDS PlannerProvider

OneSite == <<"s">>

On(path) == predicate("selected_path", "s", path)
Reach(path) == predicate("reachable", "s", path)
Pace(profile) == predicate("pacing", "s", profile)

(* studies/*.json, predicate_map: the predicates a label can make known. *)
Concluded == {On("lte"), On("alternative"), Reach("lte"), Reach("alternative"),
              Pace("normal"), Pace("restricted")}

Unknown(known) == {Reach("lte"), Reach("alternative")} \ known

(* The goals of one agent, or of two that plan one after the other.         *)
AgentLists == {<<<<On("alternative")>>>>, <<<<Pace("minimum")>>>>,
               <<<<Pace("restricted"), On("alternative")>>>>,
               <<<<Pace("minimum"), Pace("restricted"), On("alternative")>>>>,
               <<<<On("lte"), Pace("restricted"), Pace("minimum")>>>>,
               <<<<Pace("minimum")>>, <<Pace("restricted"), On("alternative")>>>>}

(* studies/*.json, and the other way round. *)
CostTables == {[select_path |-> 2, set_ami_pacing |-> 1], [select_path |-> 1, set_ami_pacing |-> 2]}

(* Budget, its cap in the configuration, depth, and the limit of the table.  *)
Limits == {[budget |-> b, cap |-> c, depth |-> d, limit |-> l] :
              <<b, c, d, l>> \in {<<1, 100, 8, 64>>, <<6, 100, 8, 6>>, <<100, 6, 1, 5>>,
                                 <<100, 100, 8, 64>>}}

Asked(domain, known, unknown, agents, edges, limits, certify, weight) ==
    [domain |-> domain, known |-> known, unknown |-> unknown, operators |-> edges,
     agents |-> agents, goals |-> FlattenSeq(agents), certify |-> certify, weight |-> weight] @@ limits

(* PlannerProvider gives astar no estimate, so its weight is 0. *)
Configuring ==
    UNION {LET edges == catalog(costs)
           IN  {Asked("configuration", known, Unknown(known), agents, edges, limits, TRUE, 0)
                  : known \in SUBSET Concluded, agents \in AgentLists, limits \in Limits}
           : costs \in CostTables}

(* Goals that interact, as in the test of gps: steps that are cheaper than   *)
(* the leap over them and undo what they start from; searched with and       *)
(* without an estimate, as tests/test_planning.py does.                      *)
Fact(value) == predicate("at", "s", value)
Move(from, to, cost) ==
    [action |-> "move", target |-> "s", preconditions |-> {Fact(from)},
     add |-> {Fact(to)}, delete |-> {Fact(from)}, cost |-> cost]
Moves == <<Move("a", "c", 3), Move("a", "b", 1), Move("b", "c", 1), Move("c", "d", 1),
           Move("d", "a", 1)>>

Interacting ==
    {Asked("interacting", known, {}, agents, Moves, limits, certify, weight)
       : known \in {{Fact("a")}, {Fact("a"), Fact("b")}, {Fact("c")}, {Fact("d"), Fact("b")}},
         agents \in {<<<<Fact("c")>>>>, <<<<Fact("c"), Fact("d")>>>>,
                     <<<<Fact("d")>>, <<Fact("d"), Fact("c")>>>>},
         limits \in Limits, certify \in BOOLEAN, weight \in {0, 1}}

AllRequests == Configuring \cup Interacting
===============================================================================
