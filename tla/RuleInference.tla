----------------------------- MODULE RuleInference -----------------------------
(***************************************************************************)
(* _Inference of ecora/experts.py: what one activation of a rule does to   *)
(* the blackboard.  Both organisations of the rules share it.              *)
(*                                                                         *)
(* A rule's evidence does not change during a diagnosis, so all that is    *)
(* kept of it is whether the rule has its inputs and its condition holds:  *)
(* evaluate tells a false condition from an unknown one, consider does     *)
(* not.  The identifier of a rule is its place in the inventory.  The      *)
(* identifiers of the observations that support a conclusion are left out. *)
(***************************************************************************)
EXTENDS Integers, Sequences, FiniteSets

CONSTANT Labels   \* what rules conclude

Rule == [holds : BOOLEAN, premises : SUBSET Labels, concludes : Labels,
         contradicts : Seq(Labels), priority : Nat]

(* Study._check: a rule contradicts only what some rule concludes. *)
Admissible(rules) ==
    \A r \in DOMAIN rules :
        \A k \in DOMAIN rules[r].contradicts :
            \E a \in DOMAIN rules : rules[a].concludes = rules[r].contradicts[k]

(* A board is the result of the activations so far. *)
EmptyBoard == [concluded |-> {}, fired |-> {}, inhibited |-> {}, unresolved |-> {}]

(* _author: the first rule for the label, whichever rule concluded it. *)
Author(rules, label) ==
    CHOOSE a \in DOMAIN rules :
        /\ rules[a].concludes = label
        /\ \A b \in DOMAIN rules : rules[b].concludes = label => a <= b

(* A rule that may fire twice. *)
FiresAgain(rules, board, r) ==
    /\ rules[r].concludes \notin board.concluded
    /\ rules[r].holds
    /\ rules[r].premises \subseteq board.concluded

Fires(rules, board, r) ==
    /\ rules[r].concludes \notin board.concluded
    /\ r \notin board.fired
    /\ rules[r].holds
    /\ rules[r].premises \subseteq board.concluded

(* The places, in what the rule contradicts, of conclusions that have a      *)
(* winner.                                                                   *)
Losing(rules, board, r) ==
    {k \in DOMAIN rules[r].contradicts :
        /\ rules[r].contradicts[k] \in board.concluded
        /\ Author(rules, rules[r].contradicts[k]) \in board.fired}

Winner(rules, r, k) == Author(rules, rules[r].contradicts[k])

(* Whoever concluded first yields. *)
YieldsFirst(rules, winner, r) == rules[winner].priority > rules[r].priority

Yields(rules, winner, r) == rules[winner].priority < rules[r].priority

(* The loop goes through the places in their order and ends at the first     *)
(* whose winner does not yield.                                              *)
Resisting(rules, board, r) ==
    {k \in Losing(rules, board, r) : ~Yields(rules, Winner(rules, r, k), r)}

Overturned(rules, board, r) ==
    {k \in Losing(rules, board, r) : \A j \in Resisting(rules, board, r) : k < j}

Stopped(rules, board, r) == Resisting(rules, board, r) # {}

StoppedAt(rules, board, r) ==
    CHOOSE k \in Resisting(rules, board, r) : \A j \in Resisting(rules, board, r) : k <= j

LowerPriority(r, other) == [rule |-> r, reason |-> "lower_priority", against |-> other]
UnresolvedConflict(r, other) == [rule |-> r, reason |-> "unresolved_conflict", against |-> other]

Inhibitions(rules, board, r) ==
    {LowerPriority(Winner(rules, r, k), rules[r].concludes) : k \in Overturned(rules, board, r)}

(* What yields is recorded as inhibited, but stays concluded. *)
RetractedOnPaper(rules, board, r) ==
    [board EXCEPT !.inhibited = @ \cup Inhibitions(rules, board, r)]

(* The board after the conclusions that yield have been retracted. *)
Retracted(rules, board, r) ==
    [board EXCEPT
        !.concluded = @ \ {rules[r].contradicts[k] : k \in Overturned(rules, board, r)},
        !.inhibited = @ \cup Inhibitions(rules, board, r)]

(* The rule meets a stronger conclusion, or one of equal authority. *)
Defeated(rules, board, r) ==
    LET other == rules[r].contradicts[StoppedAt(rules, board, r)]
    IN  [Retracted(rules, board, r) EXCEPT !.inhibited = @ \cup {LowerPriority(r, other)}]

Tied(rules, board, r) ==
    LET k == StoppedAt(rules, board, r)
        other == rules[r].contradicts[k]
    IN  [Retracted(rules, board, r) EXCEPT
            !.concluded = @ \ {other},
            !.inhibited = @ \cup {UnresolvedConflict(r, other)},
            !.unresolved = @ \cup {r, Winner(rules, r, k)}]

Concluding(rules, board, r) ==
    [Retracted(rules, board, r) EXCEPT
        !.concluded = @ \cup {rules[r].concludes},
        !.fired = @ \cup {r}]

Ties(rules, board, r) ==
    /\ Stopped(rules, board, r)
    /\ rules[Winner(rules, r, StoppedAt(rules, board, r))].priority = rules[r].priority

(* consider: the board after an activation, and whether it reports a change. *)
Considered(rules, board, r) ==
    IF ~Fires(rules, board, r) THEN board
    ELSE IF ~Stopped(rules, board, r) THEN Concluding(rules, board, r)
    ELSE IF Ties(rules, board, r) THEN Tied(rules, board, r)
    ELSE Defeated(rules, board, r)

Changes(rules, board, r) ==
    /\ Fires(rules, board, r)
    /\ Stopped(rules, board, r) => Ties(rules, board, r)
===============================================================================
