------------------------------- MODULE StoreLog -------------------------------
(***************************************************************************)
(* The journal of ecora/store.py: its events, and ArtifactStore._apply,    *)
(* which decides whether an event may follow those recorded before.        *)
(*                                                                         *)
(* The dictionaries _apply fills (_states, _runs, _datasets, _messages,    *)
(* _sequences, _dispatches, _claims, _delivered, _delivery_sequences) are  *)
(* functions of the sequence of events applied so far, and are written     *)
(* here as such: an operator with a log as its first argument is a lookup  *)
(* in one of them.                                                         *)
(*                                                                         *)
(* A record is identified with what it is about, since records are         *)
(* immutable and addressed by their content; the k-th message of           *)
(* invocation i is <<i, k>>, and its dataset is identified with i, whose   *)
(* name contains the invocation's (boundary.py).  Objects that are put     *)
(* together and read together are one object: Admission stands for the     *)
(* four records of a run, Input for the prior state and the context of an  *)
(* invocation, Output for its messages, snapshots, dataset and invocation  *)
(* record.  Field-by-field comparisons of records that one caller builds   *)
(* from one source (stage, provider, arm, scope, times) always agree and   *)
(* are left out; the checks that relate an event to earlier events, and    *)
(* the inheritance of privilege, are kept.                                 *)
(***************************************************************************)
EXTENDS Integers, Sequences, SequencesExt, FiniteSetsExt

CONSTANTS
    Runs,         \* run identities
    Treatments,   \* what a run may be registered with
    Invocations,  \* invocation identities
    Consumers,    \* consumer identities of deliver
    Refs,         \* references to privileged sources
    Cleared,      \* consumers called with allow_privileged
    RunOf,        \* the run in an invocation's scope
    Sources,      \* the invocations whose datasets it takes
    Streams,      \* the (run, source, destination) of each of its messages
    Commands      \* the idempotency keys of the commands it dispatches

ASSUME StoreAssumption ==
    /\ Cleared \subseteq Consumers
    /\ RunOf \in [Invocations -> Runs]
    /\ Sources \in [Invocations -> SUBSET Invocations]
    /\ DOMAIN Streams = Invocations
    /\ \A i \in Invocations : Streams[i] \in Seq(STRING)
    /\ DOMAIN Commands = Invocations

Message == UNION {{i} \X (1..Len(Streams[i])) : i \in Invocations}
StreamOf(m) == Streams[m[1]][m[2]]

Admission(r) == <<"admission", r>>
Input(i) == <<"input", i>>
Command(i) == <<"command", i>>
Output(i) == <<"output", i>>

Objects ==
    {Admission(r) : r \in Runs}
      \cup {Input(i) : i \in Invocations}
      \cup {Command(i) : i \in {j \in Invocations : Commands[j] # {}}}
      \cup {Output(i) : i \in Invocations}

RunAdmitted(r, t) == [type |-> "RunAdmitted", run |-> r, treatment |-> t]
InputRecorded(i) == [type |-> "InputRecorded", invocation |-> i]
Started(i) == [type |-> "Started", invocation |-> i]
OutputRecorded(i, numbers, refs) ==
    [type |-> "OutputRecorded", invocation |-> i, numbers |-> numbers, refs |-> refs]
DispatchIntent(i) == [type |-> "DispatchIntent", invocation |-> i]
DeliveryClaimed(c, m) == [type |-> "DeliveryClaimed", consumer |-> c, message |-> m]
Delivered(c, m) == [type |-> "Delivered", consumer |-> c, message |-> m]
IntegrityFailure == [type |-> "IntegrityFailure"]

Has(log, e) == e \in ToSet(log)
OfType(log, type) == {e \in ToSet(log) : e.type = type}

Admitted(log, r) == \E e \in OfType(log, "RunAdmitted") : e.run = r
Recorded(log, i) == \E e \in OfType(log, "OutputRecorded") : e.invocation = i
OutputOf(log, i) == CHOOSE e \in OfType(log, "OutputRecorded") : e.invocation = i

(***************************************************************************)
(* _states.  Its last value, Delivered, is never told from OutputRecorded  *)
(* by any check.                                                           *)
(***************************************************************************)
State(log, i) ==
    IF Recorded(log, i) THEN "OutputRecorded"
    ELSE IF Has(log, Started(i)) THEN "Started"
    ELSE IF Has(log, InputRecorded(i)) THEN "InputRecorded"
    ELSE "None"

Unfinished(log) ==
    \E i \in Invocations : State(log, i) \in {"InputRecorded", "Started"}

(***************************************************************************)
(* Sequence numbers: the next one of a stream, and the next one a consumer *)
(* may be given.                                                           *)
(***************************************************************************)
Number(log, m) == OutputOf(log, m[1]).numbers[m[2]]

After(numbers) == IF numbers = {} THEN 0 ELSE Max(numbers) + 1

NextSequence(log, s) ==
    After({Number(log, m) : m \in {x \in Message : Recorded(log, x[1]) /\ StreamOf(x) = s}})

NextDelivery(log, c, s) ==
    After({Number(log, m) : m \in {x \in Message : Has(log, Delivered(c, x)) /\ StreamOf(x) = s}})

Numbering(log, i) ==
    [k \in 1..Len(Streams[i]) |->
        NextSequence(log, Streams[i][k])
          + Cardinality({j \in 1..(k - 1) : Streams[i][j] = Streams[i][k]})]

(* What a caller may ask to record; the numbers come from next_sequence. *)
Proposals(log) ==
    {RunAdmitted(r, t) : r \in Runs, t \in Treatments}
      \cup {InputRecorded(i) : i \in Invocations}
      \cup {Started(i) : i \in Invocations}
      \cup {OutputRecorded(i, Numbering(log, i), refs) : i \in Invocations, refs \in SUBSET Refs}
      \cup {DispatchIntent(i) : i \in {j \in Invocations : Commands[j] # {}}}
      \cup {DeliveryClaimed(c, m) : c \in Consumers, m \in Message}
      \cup {Delivered(c, m) : c \in Consumers, m \in Message}
      \cup {IntegrityFailure}

-------------------------------------------------------------------------------
(* The checks of _apply, one operator per type of event. *)

CanAdmit(log, r) == ~Admitted(log, r)

CanRecordInput(log, i) ==
    /\ State(log, i) = "None"
    /\ \A j \in Sources[i] : Recorded(log, j)

CanStart(log, i) == State(log, i) = "InputRecorded"

(* An output that keeps only the privilege of its own reads. *)
CanRecordAnyOutput(log, i, refs) ==
    /\ Admitted(log, RunOf[i])
    /\ State(log, i) = "Started"
    /\ \A j \in Sources[i] : RunOf[j] = RunOf[i]

CanRecordOutput(log, i, refs) ==
    /\ Admitted(log, RunOf[i])
    /\ State(log, i) = "Started"
    /\ \A j \in Sources[i] : RunOf[j] = RunOf[i] /\ OutputOf(log, j).refs \subseteq refs

(* Keys kept apart within an invocation only. *)
CanDispatchOnce(log, i) ==
    /\ State(log, i) = "Started"
    /\ Admitted(log, RunOf[i])
    /\ ~Has(log, DispatchIntent(i))

CanDispatch(log, i) ==
    /\ State(log, i) = "Started"
    /\ Admitted(log, RunOf[i])
    /\ \A e \in OfType(log, "DispatchIntent") :
          RunOf[e.invocation] = RunOf[i] => Commands[e.invocation] \cap Commands[i] = {}

(* A delivery that was interrupted may be claimed again. *)
CanClaimAgain(log, c, m) ==
    /\ Recorded(log, m[1])
    /\ ~Has(log, Delivered(c, m))
    /\ Number(log, m) = NextDelivery(log, c, StreamOf(m))

(* A claim in any order. *)
CanClaimEarly(log, c, m) ==
    /\ Recorded(log, m[1])
    /\ ~Has(log, DeliveryClaimed(c, m))

CanClaim(log, c, m) ==
    /\ Recorded(log, m[1])
    /\ ~Has(log, DeliveryClaimed(c, m))
    /\ Number(log, m) = NextDelivery(log, c, StreamOf(m))

CanAcknowledge(log, c, m) ==
    /\ Recorded(log, m[1])
    /\ Has(log, DeliveryClaimed(c, m))
    /\ ~Has(log, Delivered(c, m))

Valid(log, e) ==
    \/ \E r \in Runs, t \in Treatments : e = RunAdmitted(r, t) /\ CanAdmit(log, r)
    \/ \E i \in Invocations : e = InputRecorded(i) /\ CanRecordInput(log, i)
    \/ \E i \in Invocations : e = Started(i) /\ CanStart(log, i)
    \/ \E i \in Invocations, refs \in SUBSET Refs :
          e = OutputRecorded(i, Numbering(log, i), refs) /\ CanRecordOutput(log, i, refs)
    \/ \E i \in Invocations : e = DispatchIntent(i) /\ CanDispatch(log, i)
    \/ \E c \in Consumers, m \in Message : e = DeliveryClaimed(c, m) /\ CanClaim(log, c, m)
    \/ \E c \in Consumers, m \in Message : e = Delivered(c, m) /\ CanAcknowledge(log, c, m)
    \/ e = IntegrityFailure

(***************************************************************************)
(* The objects _apply reads.  What dataset() reads again of an earlier     *)
(* invocation was needed by that invocation's own events.                  *)
(***************************************************************************)
Needs(e) ==
    CASE e.type = "RunAdmitted" -> {Admission(e.run)}
      [] e.type = "InputRecorded" -> {Input(e.invocation)}
      [] e.type = "OutputRecorded" -> {Output(e.invocation)}
      [] e.type = "DispatchIntent" -> {Command(e.invocation)}
      [] e.type \in {"DeliveryClaimed", "Delivered"} -> {Output(e.message[1])}
      [] OTHER -> {}
===============================================================================
