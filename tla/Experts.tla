-------------------------------- MODULE Experts --------------------------------
(***************************************************************************)
(* The two organisations of ecora/experts.py over one rule inventory: a    *)
(* single engine that goes through the whole inventory until a pass        *)
(* changes nothing, and a blackboard controller that schedules one expert  *)
(* per rule while the revision moves.  They are run one after the other on *)
(* the same snapshot, as the comparison runs them.                         *)
(*                                                                         *)
(* infer, with which the diagnosis Oracle and the scorer reason, is the    *)
(* single engine without a budget.                                         *)
(***************************************************************************)
EXTENDS RuleInference, SequencesExt

CONSTANTS
    Inventories,   \* the rule inventories considered
    Budgets        \* activation_budget

ASSUME ExpertsAssumption ==
    /\ \A inventory \in Inventories :
          inventory \in Seq(Rule) /\ inventory # <<>> /\ Admissible(inventory)
    /\ Budgets \subseteq Nat \ {0}

Organisations == {"single_engine", "blackboard"}

VARIABLES
    rules, budget,   \* the configuration, the same for both
    board,           \* concluded, fired, inhibited and unresolved
    activations, passes,
    scheduled,       \* the rules still to be considered in this pass
    changed,         \* whether this pass of the single engine changed the board
    pending,         \* the experts the controller schedules in the next pass
    revision,        \* the revision of the blackboard
    outcome          \* how the diagnosis ended, if it has

config == <<rules, budget>>
vars == <<rules, budget, board, activations, passes, scheduled, changed, pending, revision, outcome>>

All == [k \in DOMAIN rules |-> k]

Init ==
    /\ rules \in Inventories
    /\ budget \in Budgets
    /\ board = [o \in Organisations |-> EmptyBoard]
    /\ activations = [o \in Organisations |-> 0]
    /\ passes = [o \in Organisations |-> 1]
    /\ scheduled = [o \in Organisations |-> All]
    /\ changed = FALSE
    /\ pending = <<>>
    /\ revision = 0
    /\ outcome = [o \in Organisations |-> "running"]

Running(o) ==
    /\ outcome[o] = "running"
    /\ o = "blackboard" => outcome["single_engine"] # "running"

(* One activation: consider, by either organisation. *)
Activate(o) ==
    LET r == Head(scheduled[o])
    IN  /\ Running(o)
        /\ scheduled[o] # <<>>
        /\ activations[o] < budget
        /\ board' = [board EXCEPT ![o] = Considered(rules, @, r)]
        /\ activations' = [activations EXCEPT ![o] = @ + 1]
        /\ scheduled' = [scheduled EXCEPT ![o] = Tail(@)]
        /\ UNCHANGED <<config, passes, outcome>>

ActivateRule ==
    LET r == Head(scheduled["single_engine"])
    IN  /\ Activate("single_engine")
        /\ changed' = (changed \/ Changes(rules, board["single_engine"], r))
        /\ UNCHANGED <<pending, revision>>

ActivateExpert ==
    LET r == Head(scheduled["blackboard"])
    IN  /\ Activate("blackboard")
        /\ IF Changes(rules, board["blackboard"], r)
           THEN revision' = revision + 1 /\ UNCHANGED pending
           ELSE /\ pending' = IF r \in board["blackboard"].fired THEN pending ELSE Append(pending, r)
                /\ UNCHANGED revision
        /\ UNCHANGED changed

(* The budget is looked at before every activation. *)
Exhaust(o) ==
    /\ Running(o)
    /\ scheduled[o] # <<>>
    /\ activations[o] >= budget
    /\ outcome' = [outcome EXCEPT ![o] = "exhausted"]
    /\ UNCHANGED <<config, board, activations, passes, scheduled, changed, pending, revision>>

NextPass(o, agenda) ==
    /\ passes' = [passes EXCEPT ![o] = @ + 1]
    /\ scheduled' = [scheduled EXCEPT ![o] = agenda]
    /\ UNCHANGED <<config, board, activations, revision, outcome>>

Record(o) ==
    /\ outcome' = [outcome EXCEPT ![o] = "recorded"]
    /\ UNCHANGED <<config, board, activations, passes, scheduled, changed, pending, revision>>

EndEnginePass ==
    /\ Running("single_engine")
    /\ scheduled["single_engine"] = <<>>
    /\ \/ changed /\ changed' = FALSE /\ NextPass("single_engine", All) /\ UNCHANGED pending
       \/ ~changed /\ Record("single_engine")

(* The controller stops one pass early. *)
QuietEarly == pending = <<>> \/ revision <= passes["blackboard"]

(* A pass that left the revision where it was; the count of passes tells. *)
Quiet ==
    \/ pending = <<>>
    \/ revision = 0
    \/ passes["blackboard"] > 1 /\ revision = passes["blackboard"] - 1

EndBoardPass ==
    /\ Running("blackboard")
    /\ scheduled["blackboard"] = <<>>
    /\ \/ ~Quiet /\ pending' = <<>> /\ NextPass("blackboard", pending) /\ UNCHANGED changed
       \/ Quiet /\ Record("blackboard")

Next ==
    \/ ActivateRule
    \/ ActivateExpert
    \/ \E o \in Organisations : Exhaust(o)
    \/ EndEnginePass
    \/ EndBoardPass

Spec == Init /\ [][Next]_vars
FairSpec == Spec /\ WF_vars(Next)

-------------------------------------------------------------------------------
(* Properties. *)

TypeOK ==
    /\ rules \in Inventories
    /\ budget \in Budgets
    /\ \A o \in Organisations :
          /\ board[o].concluded \subseteq Labels
          /\ board[o].fired \subseteq DOMAIN rules
          /\ board[o].unresolved \subseteq DOMAIN rules
          /\ activations[o] \in 0..budget
          /\ passes[o] \in Nat \ {0}
          /\ scheduled[o] \in Seq(DOMAIN rules)
    /\ changed \in BOOLEAN
    /\ pending \in Seq(DOMAIN rules)
    /\ revision \in Nat
    /\ outcome \in [Organisations -> {"running", "recorded", "exhausted"}]

Recorded(o) == outcome[o] = "recorded"

(* Two rules whose evidence holds, the first of which contradicts what the   *)
(* second concludes.                                                         *)
Rivals(inventory, r, s) ==
    /\ inventory[r].holds /\ inventory[s].holds
    /\ inventory[s].concludes \in ToSet(inventory[r].contradicts)

Consistent == \A r, s \in DOMAIN rules : ~Rivals(rules, r, s)

(* Rivals contradict each other, and nothing else concludes what they do.    *)
Orderly(inventory) ==
    \A r, s \in DOMAIN inventory : Rivals(inventory, r, s) =>
        /\ r # s
        /\ Rivals(inventory, s, r)
        /\ \A t \in DOMAIN inventory : inventory[t].concludes = inventory[s].concludes => t = s

(* And no rule has two of them. *)
Paired(inventory) ==
    /\ Orderly(inventory)
    /\ \A r, s, t \in DOMAIN inventory :
          Rivals(inventory, r, s) /\ Rivals(inventory, r, t) => s = t

Closed(S) ==
    \A r \in DOMAIN rules :
        rules[r].holds /\ rules[r].premises \subseteq S => rules[r].concludes \in S

LeastFixedPoint ==
    \A o \in Organisations :
        Recorded(o) /\ Consistent =>
            board[o].concluded =
                {label \in Labels : \A S \in SUBSET Labels : Closed(S) => label \in S}

(* RQ-E: "With identical snapshots, rules and conflict policy, single and    *)
(* multi-expert diagnoses agree", where no conflict was left unresolved.     *)
(* What they agree on, when the evidence contradicts itself nowhere, is what *)
(* follows from the rules that hold, and nothing less: the least set of      *)
(* labels closed under them, in any order of the inventory.  A diagnosis cut *)
(* short by its budget is never recorded.                                    *)
Agree ==
    /\ LeastFixedPoint
    /\ (\A o \in Organisations : Recorded(o) /\ board[o].unresolved = {}) =>
           board["single_engine"] = board["blackboard"]

(* No organisation ever holds two conclusions that a rule for one of them,   *)
(* if its evidence holds, declares contradictory, also not between two       *)
(* activations.                                                              *)
NoContradiction ==
    \A o \in Organisations : \A r \in DOMAIN rules :
        rules[r].holds /\ rules[r].concludes \in board[o].concluded =>
            board[o].concluded \cap ToSet(rules[r].contradicts) = {}

(* Whatever a recorded diagnosis withholds, although its rule holds and its  *)
(* premises are concluded, it withholds for a conclusion that contradicts    *)
(* it with greater priority, or because equal authority left it unresolved.  *)
WithheldForCause ==
    \A o \in Organisations : Recorded(o) =>
        \A r \in DOMAIN rules :
            /\ rules[r].holds
            /\ rules[r].premises \subseteq board[o].concluded
            /\ rules[r].concludes \notin board[o].concluded
            => \/ r \in board[o].unresolved
               \/ \E other \in board[o].concluded \cap ToSet(rules[r].contradicts) :
                     rules[Author(rules, other)].priority > rules[r].priority

BoardLeavesUnresolved ==
    \A r \in board["blackboard"].unresolved :
        rules[r].concludes \notin board["blackboard"].concluded

(* CHANGELOG: "Contradictions are settled by declared priority and recorded  *)
(* as inhibited; equal authority leaves the conflict unresolved".  Boards    *)
(* are well-formed, no contradiction is ever held, and the blackboard        *)
(* asserts neither conclusion that equal authority left unresolved ...       *)
BoardInv == TypeOK /\ NoContradiction /\ BoardLeavesUnresolved

(* ... and neither does what the single engine records.                      *)
(* tests/test_experts.py: "Neither contradictory conclusion is asserted as   *)
(* supported."                                                               *)
EngineLeavesUnresolved ==
    \A r \in board["single_engine"].unresolved :
        Recorded("single_engine") => rules[r].concludes \notin board["single_engine"].concluded

(* Both organisations end, by a diagnosis or for their budget; and a budget  *)
(* as large as Enough ends neither.  Enough: a rule changes the board twice  *)
(* at most, by firing and by a tie, and only the last pass changes nothing.  *)
Enough == Len(rules) * (2 * Len(rules) + 1)

Halts ==
    <>(\A o \in Organisations :
          Recorded(o) \/ (outcome[o] = "exhausted" /\ budget < Enough))
===============================================================================
