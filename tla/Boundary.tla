------------------------------ MODULE Boundary ------------------------------
(***************************************************************************)
(* Boundary.invoke and assemble of ecora/boundary.py: what one invocation  *)
(* of a stage leaves behind, whatever its provider does.                   *)
(*                                                                         *)
(* A label is the set of privileged references a dataset or a snapshot     *)
(* carries; here a reference is the epoch at which truth was read.  Beside *)
(* the label, which the code keeps, stands the influence: the reads the    *)
(* content really depends on.                                              *)
(***************************************************************************)

(* What can become of a permitted invocation: the provider answers; an input *)
(* check or the provider raises; a check on its result raises, after the     *)
(* reads it declared were taken.                                             *)
Outcomes == {"ok", "raised", "refused"}

Fresh == [label |-> {}, influence |-> {}]

Labels(parts) == UNION {part.label : part \in parts}
Influences(parts) == UNION {part.influence : part \in parts}

Permitted(binding, prior, inputs) ==
    Labels({prior} \cup inputs) = {} \/ binding.allow

LineageOfInputs(binding, prior, inputs, outcome) ==
    Labels(inputs)
        \cup IF Permitted(binding, prior, inputs) /\ outcome # "raised"
             THEN binding.reads ELSE {}

(* The lineage is gathered before permission is asked, and the reads of a    *)
(* truth-holding provider once it has answered.                              *)
Lineage(binding, prior, inputs, outcome) ==
    Labels({prior} \cup inputs)
        \cup IF Permitted(binding, prior, inputs) /\ outcome # "raised"
             THEN binding.reads ELSE {}

Succeeds(binding, prior, inputs, outcome) ==
    Permitted(binding, prior, inputs) /\ outcome = "ok"

(* What an output or a next state that the provider computed depends on.     *)
Drawn(binding, prior, inputs) == Influences({prior} \cup inputs) \cup binding.reads

(* _finish: the dataset and the next state are stored under the same label.   *)
Finished(ok, label, influence, kept) ==
    [ok |-> ok, label |-> label, influence |-> influence,
     next |-> [label |-> label, influence |-> kept]]

(* An invocation that fails leaves nothing but its outcome and the prior state. *)
Invocation(binding, prior, inputs, outcome) ==
    LET label == Lineage(binding, prior, inputs, outcome)
        drawn == Drawn(binding, prior, inputs)
    IN  IF Succeeds(binding, prior, inputs, outcome)
        THEN Finished(TRUE, label, drawn, drawn)
        ELSE Finished(FALSE, label, {}, prior.influence)

(* assemble and ingest: the harness passes on what it was given.             *)
Assembled(inputs) ==
    [ok |-> TRUE, label |-> Labels(inputs), influence |-> Influences(inputs)]
=============================================================================
