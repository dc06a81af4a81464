------------------------------- MODULE MCExperts -------------------------------
(* Rule inventories for TLC. *)
EXTENDS Experts

RuleFor(holds, premises, label, contradicts, priority) ==
    [holds |-> holds, premises |-> premises, concludes |-> label,
     contradicts |-> contradicts, priority |-> priority]

(* Three rules for any labels, with premises, none of them contradicted by a *)
(* rule whose evidence holds too.                                            *)
NoRivals ==
    LET Candidates == {RuleFor(h, P, l, c, 1) : h \in BOOLEAN, P \in SUBSET {1, 2},
                          l \in Labels, c \in {<<>>, <<1>>}}
    IN  {inventory \in [1..3 -> Candidates] :
            /\ Admissible(inventory)
            /\ \A r, s \in 1..3 :
                  inventory[r].holds /\ inventory[s].holds =>
                      inventory[s].concludes \notin ToSet(inventory[r].contradicts)}

(* One rule for each label; two contradict each other, with priorities as    *)
(* given, and each may rest on others.                                       *)
Pairs(n) == {p \in SUBSET (1..n) : Cardinality(p) = 2}
Rival(pair, k) == IF k \in pair THEN SetToSeq(pair \ {k}) ELSE <<>>
OnePair(Priorities) ==
    {[k \in 1..3 |-> RuleFor(h[k], P[k], k, Rival(pair, k), q[k])] :
        h \in [1..3 -> BOOLEAN],
        P \in {f \in [1..3 -> SUBSET (1..3)] : \A k \in 1..3 : k \notin f[k]},
        pair \in Pairs(3), q \in Priorities}

StrictPriorities == {<<1, 2, 3>>, <<1, 3, 2>>, <<2, 1, 3>>, <<2, 3, 1>>, <<3, 1, 2>>, <<3, 2, 1>>}
EqualPriorities == {<<1, 1, 1>>}
Decisive == OnePair(StrictPriorities)
Undecided == OnePair(EqualPriorities)

AllClasses == NoRivals \cup Decisive \cup Undecided

ASSUME \A inventory \in AllClasses : Paired(inventory)

(* A rule that has two: rule 3 overrides rule 1, is beaten by rule 4 and     *)
(* reports no change.  The pass ends the diagnosis, although rule 2, which   *)
(* yielded to rule 1, would now conclude.                                    *)
Between ==
    <<RuleFor(TRUE, {}, 1, <<2, 3>>, 2), RuleFor(TRUE, {}, 2, <<1>>, 1),
      RuleFor(TRUE, {5}, 3, <<1, 4>>, 3), RuleFor(TRUE, {}, 4, <<3>>, 4), RuleFor(TRUE, {}, 5, <<>>, 1)>>
BoardAfter(b, sequence) == FoldLeft(LAMBDA c, r : Considered(Between, c, r), b, sequence)
OnePass(b) == BoardAfter(b, <<1, 2, 3, 4, 5>>)
ReportsChange(b) == \E r \in 1..5 : Changes(Between, BoardAfter(b, [k \in 1..(r - 1) |-> k]), r)

ASSUME
    LET first == OnePass(EmptyBoard)
        second == OnePass(first)
    IN  /\ Orderly(Between) /\ ~Paired(Between)
        /\ first.concluded = {4, 5} /\ ~ReportsChange(first) =>
               ReportsChange(second) /\ OnePass(second).concluded = {2, 4, 5}
===============================================================================
