-------------------------------- MODULE Symbolic --------------------------------
(***************************************************************************)
(* ecora/symbolic.py: what every planner searches over.  A state is the    *)
(* set of predicates known to hold, an operator a change of configuration  *)
(* with preconditions, effects and a cost.  A predicate is a fluent, a     *)
(* site and a value; PATHS and PACING are in the order of the code, which  *)
(* is the order operators are tried in.                                    *)
(***************************************************************************)
EXTENDS Naturals, Sequences, SequencesExt

CONSTANT Sites   \* the sites a planner configures, in order

PATHS == <<"lte", "alternative">>
PACING == <<"normal", "restricted", "minimum">>

predicate(fluent, site, value) == <<fluent, site, value>>

SelectPath(site, chosen, cost) ==
    [action        |-> "select_path",
     target        |-> site,
     preconditions |-> {predicate("reachable", site, chosen)},
     add           |-> {predicate("selected_path", site, chosen)},
     delete        |-> {predicate("selected_path", site, p) : p \in ToSet(PATHS) \ {chosen}},
     cost          |-> cost]

SetAmiPacing(site, current, profile, cost) ==
    [action        |-> "set_ami_pacing",
     target        |-> site,
     preconditions |-> {predicate("pacing", site, current)},
     add           |-> {predicate("pacing", site, profile)},
     delete        |-> {predicate("pacing", site, current)},
     cost          |-> cost]

(* The pairs of profiles, the new one first as in the loops. *)
ProfileChanges ==
    SelectSeq([k \in 1..9 |-> <<PACING[((k - 1) \div 3) + 1], PACING[((k - 1) % 3) + 1]>>],
              LAMBDA change : change[1] # change[2])

catalog(costs) ==
    FlattenSeq([s \in DOMAIN Sites |->
        [p \in DOMAIN PATHS |-> SelectPath(Sites[s], PATHS[p], costs.select_path)]
        \o [k \in DOMAIN ProfileChanges |->
               SetAmiPacing(Sites[s], ProfileChanges[k][2], ProfileChanges[k][1],
                            costs.set_ami_pacing)]])

(* An unknown precondition is not met, even if it is also known. *)
Applicable(operator, state, unknown) ==
    /\ operator.preconditions \cap unknown = {}
    /\ operator.preconditions \subseteq state

Applied(operator, state) == (state \ operator.delete) \cup operator.add

(* The operators with which successors goes on from a state; whoever asks    *)
(* goes through them in their order.                                         *)
successors(state, unknown, operators) ==
    {k \in DOMAIN operators : /\ Applicable(operators[k], state, unknown)
                              /\ Applied(operators[k], state) # state}

(* costs[state] = cost, in a table of what is known of each state. *)
Priced(costs, state, cost) ==
    [s \in DOMAIN costs \cup {state} |-> IF s = state THEN cost ELSE costs[s]]

(* validate_plan: whether every step of a plan is applicable in its state,   *)
(* the state it ends in or stops at, and what its operators cost.            *)
Replayed(initial, unknown, operators, plan) ==
    FoldLeft(LAMBDA run, k :
                 IF run.executable /\ Applicable(operators[k], run.state, unknown)
                 THEN [executable |-> TRUE, state |-> Applied(operators[k], run.state),
                       cost |-> run.cost + operators[k].cost]
                 ELSE [executable |-> FALSE, state |-> run.state, cost |-> run.cost],
             [executable |-> TRUE, state |-> initial, cost |-> 0], plan)
===============================================================================
