----------------------------- MODULE RunLoopProofs -----------------------------
(***************************************************************************)
(* What the run loop keeps for any agents, actuators, studies and number   *)
(* of epochs: no write is stale, what truth has influenced is labelled so  *)
(* and reaches the world only where the treatment allows it, every command *)
(* has one fate, a prefix regenerates from the record, the record cites    *)
(* the first observation that shows a write, and nobody waits for ever.    *)
(***************************************************************************)
EXTENDS Continuation, FiniteSetTheorems, SequenceTheorems, WellFoundedInduction, TLAPS

IsSeq(s) == s \in Seq(ToSet(s))

Command == [agent : Agents, actuator : Actuators, version : Nat]

(* The commands that name the actuators as a set of writes has left them.    *)
Current(writes) == {c \in Command : c.version = Version(writes, c.actuator)}

Sound(part) == part.influence \subseteq part.label

Shape ==
    /\ config \in Configs
    /\ IsSeq(decided)
    /\ IsSeq(exports)
    /\ Len(decided) <= Len(exports)
    /\ phase = "run" => Len(decided) = Len(exports)
    /\ pending \in Seq(Nat)
    /\ \A k \in 1 .. Len(pending) : pending[k] < Len(decided)
    /\ DOMAIN snapshots = Stages

(* A decision names the versions it was shown.                               *)
Informed == \A k \in 1 .. Len(decided) : decided[k].commands \subseteq Current(exports[k])

(* The writes to an actuator are numbered in the order of their arrival.     *)
Numbered ==
    \A a \in Actuators :
        /\ IsFiniteSet(WritesTo(log, a))
        /\ \A v \in WritesTo(log, a) : v.version \in Nat /\ v.version < Version(log, a)
        /\ \A v, w \in WritesTo(log, a) : v.version = w.version => v = w

Attributed ==
    \A w \in log :
        /\ w.actuator \in Actuators
        /\ w.epoch \in 0 .. Len(decided) - 1
        /\ w.version = Version(exports[w.epoch + 1], w.actuator)
        /\ DecisionAt(config, w.epoch) <= w.at
        /\ w.at < DecisionAt(config, w.epoch) + config.validity
        /\ ~config.allow => decided[w.epoch + 1].influence = {}

(* An observation shows the first writes to each actuator, so many it shows. *)
Shown ==
    \A k \in 1 .. Len(exports) :
        /\ exports[k] \subseteq log
        /\ \A v \in log : v.version < Version(exports[k], v.actuator) => v \in exports[k]

Labelled ==
    /\ \A k \in 1 .. Len(decided) : Sound(decided[k])
    /\ \A e \in DOMAIN receipts : Sound(receipts[e])
    /\ \A s \in Stages : Sound(snapshots[s])
    /\ Sound(report)

LoopInv == Shape /\ Informed /\ Numbered /\ Attributed /\ Shown /\ Labelled

-------------------------------------------------------------------------------
(* Sequences and the lineage of an invocation.                               *)

(* Appending to a sequence adds one element at its end. *)
LEMMA AppendToSeq ==
    ASSUME NEW s, IsSeq(s), NEW x
    PROVE  /\ IsSeq(Append(s, x))
           /\ Len(s) \in Nat
           /\ Len(Append(s, x)) = Len(s) + 1
           /\ \A i \in 1 .. Len(s) : Append(s, x)[i] = s[i]
           /\ Append(s, x)[Len(s) + 1] = x
  <1> DEFINE T == ToSet(s) \cup {x}
             t == Append(s, x)
  <1>1. s \in Seq(T) /\ x \in T
    BY DEF IsSeq
  <1> HIDE DEF T
  <1>2. /\ t \in Seq(T)
        /\ Len(s) \in Nat
        /\ Len(t) = Len(s) + 1
        /\ \A i \in 1 .. Len(s) : t[i] = s[i]
        /\ t[Len(s) + 1] = x
    BY <1>1
  <1> HIDE DEF t
  <1>3. DOMAIN t = 1 .. Len(t) /\ Len(t) \in Nat
    BY <1>2
  <1>4. t \in [1 .. Len(t) -> ToSet(t)]
    BY <1>2, <1>3 DEF ToSet
  <1>5. IsSeq(t)
    BY <1>3, <1>4 DEF IsSeq
  <1> QED BY <1>2, <1>5 DEF t

(* An output, a next state and an outcome are labelled with all they depend on. *)
LEMMA InvocationSound ==
    ASSUME NEW binding, NEW prior, NEW inputs, NEW outcome,
           Sound(prior), \A i \in inputs : Sound(i)
    PROVE  /\ Sound(Invocation(binding, prior, inputs, outcome))
           /\ Sound(Invocation(binding, prior, inputs, outcome).next)
  <1> DEFINE label == Lineage(binding, prior, inputs, outcome)
             drawn == Drawn(binding, prior, inputs)
  <1>1. Influences({prior} \cup inputs) \subseteq Labels({prior} \cup inputs)
    BY DEF Sound, Influences, Labels
  <1>2. Succeeds(binding, prior, inputs, outcome) => drawn \subseteq label
    BY <1>1 DEF Succeeds, Drawn, Lineage
  <1>3. prior.influence \subseteq label
    BY DEF Lineage, Labels, Sound
  <1>4. CASE Succeeds(binding, prior, inputs, outcome)
    <2>1. Invocation(binding, prior, inputs, outcome) = Finished(TRUE, label, drawn, drawn)
      BY <1>4 DEF Invocation
    <2> QED BY <1>2, <1>4, <2>1 DEF Finished, Sound
  <1>5. CASE ~Succeeds(binding, prior, inputs, outcome)
    <2>1. Invocation(binding, prior, inputs, outcome) = Finished(FALSE, label, {}, prior.influence)
      BY <1>5 DEF Invocation
    <2> QED BY <1>3, <2>1 DEF Finished, Sound
  <1> QED BY <1>4, <1>5

(* So is what the harness assembles. *)
LEMMA AssembledSound ==
    ASSUME NEW inputs, \A i \in inputs : Sound(i)
    PROVE  Sound(Assembled(inputs))
  BY DEF Assembled, Sound, Influences, Labels

-------------------------------------------------------------------------------
(* Decisions.                                                                *)

(* A round admits only agents that propose. *)
LEMMA AdmittedPropose ==
    ASSUME NEW m, NEW grants, NEW proposals, NEW since, NEW epoch, NEW issuable,
           NEW admitted \in Admitted(m, grants, proposals, since, epoch, issuable)
    PROVE  admitted \subseteq DOMAIN proposals
  <1>1. CASE m = "null"
    BY <1>1 DEF Admitted, FirstFeasible
  <1>2. CASE m = "exact"
    BY <1>2 DEF Admitted, Allocations
  <1>3. CASE m # "null" /\ m # "exact"
    <2>1. PICK delays : admitted = AdmittedByMechanism(m, grants, proposals, since, epoch, delays)
      BY <1>3 DEF Admitted
    <2>2. \A r : Winner(m, grants, proposals, since, epoch, delays, r) \subseteq DOMAIN proposals
      BY DEF Winner, Oldest, Eligible, Contenders
    <2> QED BY <2>1, <2>2 DEF AdmittedByMechanism
  <1> QED BY <1>1, <1>2, <1>3

(* A command is issued by an agent for an actuator, at the version it has. *)
LEMMA CommandsCurrent ==
    ASSUME Numbered,
           NEW proposals, DOMAIN proposals \subseteq Agents,
           NEW admitted, admitted \subseteq DOMAIN proposals,
           NEW issuable, issuable \subseteq Actuators
    PROVE  Commands(proposals, admitted, issuable) \subseteq Current(log)
  <1> SUFFICES ASSUME NEW a \in admitted, CanCommand(proposals[a], issuable)
               PROVE  [agent |-> a, actuator |-> Head(proposals[a]),
                       version |-> Version(log, Head(proposals[a]))] \in Current(log)
    BY DEF Commands
  <1>1. a \in Agents /\ Head(proposals[a]) \in Actuators
    BY DEF CanCommand
  <1>2. Version(log, Head(proposals[a])) \in Nat
    BY <1>1, FS_CardinalityType DEF Numbered, Version
  <1> QED BY <1>1, <1>2 DEF Current, Command

(* The decision of an epoch. *)
LEMMA DecideSound ==
    ASSUME LoopInv, NEW fault, NEW wants \in config.wants, Decide(fault, wants)
    PROVE  /\ \E d : /\ decided' = Append(decided, d)
                     /\ Sound(d)
                     /\ d.commands \subseteq Current(log)
           /\ DOMAIN snapshots' = Stages
           /\ \A s \in Stages : Sound(snapshots'[s])
  <1> DEFINE telemetry == Invoked("telemetry", {Assembled({})}, fault)
             diagnosis == Invoked("diagnosis", {telemetry}, fault)
             planning == Invoked("planning", {Assembled({telemetry, diagnosis})}, fault)
             resolution == Invoked("resolution", {planning}, fault)
  <1>1.   /\ snapshots' = [snapshots EXCEPT !["telemetry"] = telemetry.next,
                                            !["diagnosis"] = diagnosis.next,
                                            !["planning"] = planning.next,
                                            !["resolution"] = resolution.next]
          /\ Settle(resolution, Proposals(planning, Grounded(telemetry, diagnosis), wants),
                    Issuable(telemetry))
    BY DEF Decide
  <1>2. \A s \in Stages : Sound(snapshots[s])
    BY DEF LoopInv, Labelled
  <1>3. DOMAIN snapshots = Stages
    BY DEF LoopInv, Shape
  <1>4. Sound(telemetry) /\ Sound(telemetry.next)
    BY <1>2, InvocationSound, AssembledSound DEF Invoked, Stages, Deciding
  <1>5. Sound(diagnosis) /\ Sound(diagnosis.next)
    BY <1>2, <1>4, InvocationSound DEF Invoked, Stages, Deciding
  <1>6. Sound(planning) /\ Sound(planning.next)
    <2>1. Sound(Assembled({telemetry, diagnosis}))
      BY <1>4, <1>5, AssembledSound
    <2> QED BY <1>2, <2>1, InvocationSound DEF Invoked, Stages, Deciding
  <1>7. Sound(resolution) /\ Sound(resolution.next)
    BY <1>2, <1>6, InvocationSound DEF Invoked, Stages, Deciding
  <1>8. DOMAIN snapshots' = Stages /\ \A s \in Stages : Sound(snapshots'[s])
    BY <1>1, <1>2, <1>3, <1>4, <1>5, <1>6, <1>7
  <1> DEFINE proposals == Proposals(planning, Grounded(telemetry, diagnosis), wants)
             issuable == Issuable(telemetry)
  <1>9. config \in Configs
    BY DEF LoopInv, Shape
  <1>10. DOMAIN proposals \subseteq Agents
    BY <1>9, ConfigsAssumption DEF Proposals
  <1>11. issuable \subseteq Actuators
    BY <1>9, ConfigsAssumption DEF Issuable
  <1>12. \E commands \in SUBSET Current(log) : decided' = Append(decided, Decision(resolution, commands))
    <2>1. CASE resolution.ok
      <3>1. PICK admitted \in Admitted(config.mechanism, config.grants, proposals, waiting,
                                       Index, issuable) :
              decided' = Append(decided,
                           Decision(resolution, Commands(proposals, admitted, issuable)))
        BY <1>1, <2>1 DEF Settle
      <3>2. admitted \subseteq DOMAIN proposals
        BY AdmittedPropose
      <3>3. Commands(proposals, admitted, issuable) \subseteq Current(log)
        BY <1>10, <1>11, <3>2, CommandsCurrent DEF LoopInv
      <3> QED BY <3>1, <3>3
    <2>2. CASE ~resolution.ok
      <3>1. decided' = Append(decided, Decision(resolution, {}))
        BY <1>1, <2>2 DEF Settle
      <3> QED BY <3>1
    <2> QED BY <2>1, <2>2
  <1>13. \A commands : /\ Sound(Decision(resolution, commands))
                       /\ Decision(resolution, commands).commands = commands
    BY <1>7 DEF Decision, Sound
  <1> QED BY <1>8, <1>12, <1>13

-------------------------------------------------------------------------------
(* The world.                                                                *)

(* Of one dispatch at most one command takes effect on an actuator: one that *)
(* names its version, and gives its write the next number.                   *)
LEMMA AcceptedOnce ==
    ASSUME Numbered, NEW a \in Actuators, NEW epoch, NEW at,
           NEW commands \in SUBSET Command,
           NEW applied \in SUBSET Accepted(log, commands)
    PROVE  LET new == WritesTo(Written(epoch, at, applied), a)
           IN  /\ \A v \in new : v.version = Version(log, a)
               /\ \A v, w \in new : v = w
  <1> DEFINE write(c) == [epoch |-> epoch, agent |-> c.agent, actuator |-> c.actuator,
                          version |-> c.version, at |-> at]
             new == WritesTo(Written(epoch, at, applied), a)
  <1>1. \A v \in new : \E c \in applied : v = write(c) /\ c.actuator = a
    BY DEF WritesTo, Written
  <1>2. \A c \in applied : c \in Command /\ c.version = Version(log, c.actuator)
    BY DEF Accepted
  <1>3. \A c, d \in applied : c.actuator = d.actuator => c.agent <= d.agent /\ d.agent <= c.agent
    BY <1>2 DEF Accepted
  <1>4. \A c, d \in applied : c.actuator = d.actuator => write(c) = write(d)
    <2> SUFFICES ASSUME NEW c \in applied, NEW d \in applied, c.actuator = d.actuator
                 PROVE  c.agent = d.agent /\ c.version = d.version
      OBVIOUS
    <2>1. c.agent \in Nat /\ d.agent \in Nat
      BY <1>2, AgentsAssumption DEF Command
    <2>2. c.agent <= d.agent /\ d.agent <= c.agent
      BY <1>3
    <2>3. c.version = d.version
      BY <1>2
    <2> QED BY <2>1, <2>2, <2>3
  <1>5. \A v \in new : v.version = Version(log, a)
    BY <1>1, <1>2
  <1> QED BY <1>1, <1>4, <1>5

(* Numbers stay consecutive and single. *)
LEMMA NumberedGrows ==
    ASSUME Numbered, NEW epoch, NEW at,
           NEW commands \in SUBSET Command,
           NEW applied \in SUBSET Accepted(log, commands),
           log' = log \cup Written(epoch, at, applied)
    PROVE  Numbered'
  <1> SUFFICES ASSUME NEW a \in Actuators
               PROVE  /\ IsFiniteSet(WritesTo(log', a))
                      /\ \A v \in WritesTo(log', a) : v.version \in Nat /\ v.version < Version(log', a)
                      /\ \A v, w \in WritesTo(log', a) : v.version = w.version => v = w
    BY DEF Numbered
  <1> DEFINE old == WritesTo(log, a)
             new == WritesTo(Written(epoch, at, applied), a)
  <1>1. WritesTo(log', a) = old \cup new
    BY DEF WritesTo
  <1>2. /\ IsFiniteSet(old)
        /\ \A v \in old : v.version \in Nat /\ v.version < Version(log, a)
        /\ \A v, w \in old : v.version = w.version => v = w
    BY DEF Numbered
  <1>3. /\ \A v \in new : v.version = Version(log, a)
        /\ \A v, w \in new : v = w
    BY AcceptedOnce
  <1>4. Version(log, a) = Cardinality(old) /\ Version(log, a) \in Nat
    BY <1>2, FS_CardinalityType DEF Version
  <1> HIDE DEF old, new
  <1>5. CASE new = {}
    BY <1>1, <1>2, <1>4, <1>5 DEF Version
  <1>6. CASE new # {}
    <2>1. PICK w : new = {w} /\ w.version = Version(log, a)
      BY <1>3, <1>6
    <2>2. w \notin old
      BY <1>2, <1>4, <2>1
    <2>3. WritesTo(log', a) = old \cup {w}
      BY <1>1, <2>1
    <2>4. IsFiniteSet(old \cup {w}) /\ Cardinality(old \cup {w}) = Cardinality(old) + 1
      BY <1>2, <2>2, FS_AddElement
    <2>5. IsFiniteSet(WritesTo(log', a)) /\ Version(log', a) = Version(log, a) + 1
      BY <1>4, <2>3, <2>4 DEF Version
    <2>6. \A v \in old \cup {w} : v.version \in Nat /\ v.version < Version(log, a) + 1
      BY <1>2, <1>4, <2>1
    <2>7. \A v, u \in old \cup {w} : v.version = u.version => v = u
      BY <1>2, <1>4, <2>1
    <2> QED BY <2>3, <2>5, <2>6, <2>7
  <1> QED BY <1>5, <1>6

(* A dispatch leaves what was shown, and its writes belong to its decision.  *)
LEMMA WritesKeep ==
    ASSUME LoopInv, NEW epoch \in 0 .. Len(decided) - 1, NEW at,
           NEW commands \in SUBSET decided[epoch + 1].commands,
           NEW applied \in SUBSET Accepted(log, commands),
           commands # {} =>
               /\ DecisionAt(config, epoch) <= at
               /\ at < DecisionAt(config, epoch) + config.validity
               /\ ~config.allow => decided[epoch + 1].influence = {},
           log' = log \cup Written(epoch, at, applied),
           UNCHANGED <<config, decided, exports>>
    PROVE  Numbered' /\ Attributed' /\ Shown'
  <1>1. Len(decided) \in Nat /\ Len(exports) \in Nat /\ epoch + 1 \in 1 .. Len(decided)
        /\ Len(decided) <= Len(exports)
    BY DEF LoopInv, Shape, IsSeq
  <1>2. commands \subseteq Current(exports[epoch + 1])
    BY <1>1 DEF LoopInv, Informed
  <1>3. commands \in SUBSET Command
    BY <1>2 DEF Current
  <1>4. Numbered'
    BY <1>3, NumberedGrows DEF LoopInv
  <1>5. \A w \in Written(epoch, at, applied) :
          /\ w.actuator \in Actuators
          /\ w.epoch = epoch
          /\ w.at = at
          /\ w.version = Version(exports[epoch + 1], w.actuator)
          /\ w.version = Version(log, w.actuator)
          /\ commands # {}
    BY <1>2 DEF Written, Accepted, Current, Command
  <1>6. Attributed'
    <2> SUFFICES ASSUME NEW w \in log'
                 PROVE  /\ w.actuator \in Actuators
                        /\ w.epoch \in 0 .. Len(decided) - 1
                        /\ w.version = Version(exports[w.epoch + 1], w.actuator)
                        /\ DecisionAt(config, w.epoch) <= w.at
                        /\ w.at < DecisionAt(config, w.epoch) + config.validity
                        /\ ~config.allow => decided[w.epoch + 1].influence = {}
      BY DEF Attributed
    <2>1. CASE w \in log
      BY <2>1 DEF LoopInv, Attributed
    <2>2. CASE w \in Written(epoch, at, applied)
      BY <1>5, <2>2
    <2> QED BY <2>1, <2>2
  <1>7. Shown'
    <2> SUFFICES ASSUME NEW k \in 1 .. Len(exports)
                 PROVE  /\ exports[k] \subseteq log'
                        /\ \A v \in log' : v.version < Version(exports[k], v.actuator)
                                             => v \in exports[k]
      BY DEF Shown
    <2>1. /\ exports[k] \subseteq log
          /\ \A v \in log : v.version < Version(exports[k], v.actuator) => v \in exports[k]
      BY DEF LoopInv, Shown
    <2>2. \A v \in Written(epoch, at, applied) : ~(v.version < Version(exports[k], v.actuator))
      <3> SUFFICES ASSUME NEW v \in Written(epoch, at, applied)
                   PROVE  ~(v.version < Version(exports[k], v.actuator))
        OBVIOUS
      <3>1. IsFiniteSet(WritesTo(log, v.actuator))
        BY <1>5 DEF LoopInv, Numbered
      <3>2. WritesTo(exports[k], v.actuator) \subseteq WritesTo(log, v.actuator)
        BY <2>1 DEF WritesTo
      <3>3. /\ Version(exports[k], v.actuator) \in Nat
            /\ Version(log, v.actuator) \in Nat
            /\ Version(exports[k], v.actuator) <= Version(log, v.actuator)
        BY <3>1, <3>2, FS_Subset, FS_CardinalityType DEF Version
      <3> QED BY <1>5, <3>3
    <2> QED BY <2>1, <2>2
  <1> QED BY <1>4, <1>6, <1>7

(* What reaches the provider of the action stage is in time and permitted.   *)
LEMMA DeliveredPermitted ==
    ASSUME LoopInv, NEW epoch \in 0 .. Len(decided) - 1, NEW at
    PROVE  /\ Delivered(epoch, at) \in SUBSET decided[epoch + 1].commands
           /\ Delivered(epoch, at) # {} =>
                 /\ DecisionAt(config, epoch) <= at
                 /\ at < DecisionAt(config, epoch) + config.validity
                 /\ ~config.allow => decided[epoch + 1].influence = {}
  <1> SUFFICES ASSUME Delivered(epoch, at) # {}
               PROVE  /\ DecisionAt(config, epoch) <= at
                      /\ at < DecisionAt(config, epoch) + config.validity
                      /\ ~config.allow => decided[epoch + 1].influence = {}
    BY DEF Delivered
  <1> DEFINE inputs == {decided[epoch + 1]}
             binding == Binding("action", epoch)
             prior == snapshots["action"]
  <1>1. Acted(epoch, Inspected(epoch, at)).ok /\ decided[epoch + 1].commands # {}
    BY DEF Delivered
  <1>2. Succeeds(binding, prior, inputs, Inspected(epoch, at))
    BY <1>1 DEF Acted, Invocation, Finished
  <1>3. Timely(epoch, at) /\ Permitted(binding, prior, inputs)
    BY <1>2 DEF Succeeds, Inspected
  <1>4. config.truth # "action"
    BY ConfigsAssumption DEF LoopInv, Shape
  <1>5. ~config.allow => Labels({prior} \cup inputs) = {}
    BY <1>3, <1>4 DEF Permitted, Binding
  <1>6. Sound(decided[epoch + 1])
    <2>1. IsSeq(decided) /\ \A k \in 1 .. Len(decided) : Sound(decided[k])
      BY DEF LoopInv, Shape, Labelled
    <2>2. epoch + 1 \in 1 .. Len(decided)
      BY <2>1 DEF IsSeq
    <2> QED BY <2>1, <2>2
  <1>7. ~config.allow => decided[epoch + 1].influence = {}
    BY <1>5, <1>6 DEF Labels, Sound
  <1> QED BY <1>1, <1>3, <1>7 DEF Timely

(* The action stage takes the head of what is pending and labels its outcome. *)
LEMMA ActKeeps ==
    ASSUME LoopInv, pending # <<>>,
           NEW epoch, epoch = Head(pending), NEW at, NEW outcome, NEW applied, NEW commands,
           Act(epoch, at, outcome, applied, commands)
    PROVE  Shape' /\ Informed' /\ Labelled'
  <1>1. UNCHANGED <<config, phase, exports, decided, report>>
    BY DEF Act
  <1>2. Shape'
    <2>1. pending' = Tail(pending) /\ pending \in Seq(Nat) /\ Len(decided) \in Nat
      BY DEF Act, LoopInv, Shape, IsSeq
    <2>2. pending' \in Seq(Nat) /\ Len(pending') = Len(pending) - 1
          /\ \A k \in 1 .. Len(pending') : pending'[k] = pending[k + 1]
      BY <2>1
    <2>3. \A k \in 1 .. Len(pending') : pending'[k] < Len(decided)
      BY <2>1, <2>2 DEF LoopInv, Shape
    <2>4. DOMAIN snapshots' = Stages
      BY DEF Act, LoopInv, Shape
    <2> QED BY <1>1, <2>2, <2>3, <2>4 DEF LoopInv, Shape, IsSeq
  <1>3. Informed'
    BY <1>1 DEF LoopInv, Informed
  <1>4. Labelled'
    <2> DEFINE action == Acted(epoch, outcome)
               receipt == [label |-> action.label, influence |-> action.influence, at |-> at,
                           applied |-> applied, refused |-> commands \ applied]
    <2>1. receipts' = Received(epoch, receipt)
          /\ snapshots' = [snapshots EXCEPT !["action"] = action.next]
      BY DEF Act
    <2>2. epoch + 1 \in 1 .. Len(decided)
      BY DEF LoopInv, Shape, IsSeq
    <2>3. Sound(snapshots["action"]) /\ Sound(decided[epoch + 1])
      BY <2>2 DEF LoopInv, Labelled, Stages
    <2>4. Sound(action) /\ Sound(action.next)
      BY <2>3, InvocationSound DEF Acted
    <2> HIDE DEF action
    <2>5. Sound(receipt)
      BY <2>4 DEF Sound
    <2> HIDE DEF receipt
    <2>6. \A e \in DOMAIN receipts' : Sound(receipts'[e])
      BY <2>1, <2>5 DEF Received, LoopInv, Labelled
    <2>7. \A s \in Stages : Sound(snapshots'[s])
      BY <2>1, <2>4 DEF LoopInv, Labelled, Shape
    <2> QED BY <1>1, <2>6, <2>7 DEF LoopInv, Labelled
  <1> QED BY <1>2, <1>3, <1>4

-------------------------------------------------------------------------------
(* The steps.                                                                *)

(* The end of the run and its report. *)
LEMMA CloseKeeps == ASSUME LoopInv, Close PROVE LoopInv'
  <1>1. CASE Refused(DecisionAt(config, Epochs))
    BY <1>1 DEF Refused, world, record, coordination, LoopInv, Shape, Informed, Numbered,
                Attributed, Shown, Labelled
  <1>2. CASE /\ exports' = Append(exports, log)
             /\ report' = Assessed
             /\ phase' = "closed"
             /\ UNCHANGED <<config, log, decided, receipts, pending, snapshots>>
    <2>1. /\ IsSeq(exports')
          /\ Len(exports) \in Nat /\ Len(decided) \in Nat
          /\ Len(exports') = Len(exports) + 1
          /\ \A k \in 1 .. Len(exports) : exports'[k] = exports[k]
          /\ exports'[Len(exports) + 1] = log
      BY <1>2, AppendToSeq DEF LoopInv, Shape, IsSeq
    <2>2. Sound(report')
      <3>1. \A part \in LastAction : Sound(part)
        BY DEF LastAction, LoopInv, Labelled
      <3>2. Sound(Assembled(LastAction)) /\ Sound(Fresh)
        BY <3>1, AssembledSound DEF Fresh, Sound
      <3>3. Sound(Measured)
        BY <3>2, InvocationSound DEF Measured
      <3> QED BY <1>2, <3>2, <3>3, InvocationSound DEF Assessed
    <2>3. Shape'
      BY <1>2, <2>1 DEF LoopInv, Shape, IsSeq
    <2>4. Informed'
      BY <1>2, <2>1 DEF LoopInv, Shape, Informed
    <2>5. Numbered'
      BY <1>2 DEF LoopInv, Numbered
    <2>6. Attributed'
      BY <1>2, <2>1 DEF LoopInv, Shape, Attributed
    <2>7. Shown'
      <3> SUFFICES ASSUME NEW k \in 1 .. Len(exports) + 1
                   PROVE  /\ exports'[k] \subseteq log
                          /\ \A v \in log : v.version < Version(exports'[k], v.actuator)
                                              => v \in exports'[k]
        BY <1>2, <2>1 DEF Shown
      <3> QED BY <2>1 DEF LoopInv, Shown
    <2>8. Labelled'
      BY <1>2, <2>2 DEF LoopInv, Labelled
    <2> QED BY <2>3, <2>4, <2>5, <2>6, <2>7, <2>8 DEF LoopInv
  <1> QED BY <1>1, <1>2 DEF Close, Observation, coordination

(* An epoch: what it observes is what it decides on. *)
LEMMA EpochKeeps == ASSUME LoopInv, Epoch PROVE LoopInv'
  <1>1. CASE Refused(DecisionAt(config, Index))
    BY <1>1 DEF Refused, world, record, coordination, LoopInv, Shape, Informed, Numbered,
                Attributed, Shown, Labelled
  <1>2. CASE /\ exports' = Append(exports, log)
             /\ pending' = Append(pending, Index)
             /\ \E fault \in Faults, wants \in config.wants : Decide(fault, wants)
             /\ UNCHANGED <<config, phase, log, receipts, report>>
    <2>1. PICK fault \in Faults, wants \in config.wants : Decide(fault, wants)
      BY <1>2
    <2>2. PICK d : /\ decided' = Append(decided, d)
                   /\ Sound(d)
                   /\ d.commands \subseteq Current(log)
      BY <2>1, DecideSound
    <2>3. DOMAIN snapshots' = Stages /\ \A s \in Stages : Sound(snapshots'[s])
      BY <2>1, DecideSound
    <2> DEFINE n == Len(decided)
    <2>4. n \in Nat /\ Len(exports) = n
      BY DEF LoopInv, Shape, IsSeq, Epoch, Running
    <2>5. /\ IsSeq(decided') /\ Len(decided') = n + 1
          /\ \A k \in 1 .. n : decided'[k] = decided[k]
          /\ decided'[n + 1] = d
      BY <2>2, AppendToSeq DEF LoopInv, Shape
    <2>6. /\ IsSeq(exports') /\ Len(exports') = n + 1
          /\ \A k \in 1 .. n : exports'[k] = exports[k]
          /\ exports'[n + 1] = log
      BY <1>2, <2>4, AppendToSeq DEF LoopInv, Shape
    <2>7. /\ pending' \in Seq(Nat)
          /\ \A k \in 1 .. Len(pending') : pending'[k] < n + 1
      BY <1>2, <2>4 DEF LoopInv, Shape, Index
    <2>8. Shape'
      BY <1>2, <2>3, <2>4, <2>5, <2>6, <2>7 DEF LoopInv, Shape
    <2>9. Informed'
      <3>1. \A k \in 1 .. n : decided[k].commands \subseteq Current(exports[k])
        BY DEF LoopInv, Informed
      <3>2. \A k \in 1 .. n + 1 : decided'[k].commands \subseteq Current(exports'[k])
        BY <2>2, <2>4, <2>5, <2>6, <3>1
      <3> QED BY <2>5, <3>2 DEF Informed
    <2>10. Numbered'
      BY <1>2 DEF LoopInv, Numbered
    <2>11. Attributed'
      BY <1>2, <2>4, <2>5, <2>6 DEF LoopInv, Attributed
    <2>12. Shown'
      <3>1. \A k \in 1 .. n : /\ exports[k] \subseteq log
                              /\ \A v \in log : v.version < Version(exports[k], v.actuator)
                                                  => v \in exports[k]
        BY <2>4 DEF LoopInv, Shown
      <3>2. \A k \in 1 .. n + 1 : /\ exports'[k] \subseteq log
                                  /\ \A v \in log : v.version < Version(exports'[k], v.actuator)
                                                      => v \in exports'[k]
        BY <2>4, <2>6, <3>1
      <3> QED BY <1>2, <2>6, <3>2 DEF Shown
    <2>13. Labelled'
      BY <1>2, <2>2, <2>3, <2>4, <2>5 DEF LoopInv, Labelled
    <2> QED BY <2>8, <2>9, <2>10, <2>11, <2>12, <2>13 DEF LoopInv
  <1> QED BY <1>1, <1>2 DEF Epoch, Observation

(* What is pending at its head has been decided. *)
LEMMA HeadDecided ==
    ASSUME LoopInv, pending # <<>>
    PROVE  Head(pending) \in 0 .. Len(decided) - 1
  <1>1. pending \in Seq(Nat) /\ Len(decided) \in Nat
    BY DEF LoopInv, Shape, IsSeq
  <1>2. 1 \in 1 .. Len(pending) /\ Head(pending) = pending[1] /\ Head(pending) \in Nat
    BY <1>1
  <1>3. pending[1] < Len(decided)
    BY <1>2 DEF LoopInv, Shape
  <1> QED BY <1>1, <1>2, <1>3

(* A dispatch: the commands that are delivered, or none. *)
LEMMA DispatchKeeps == ASSUME LoopInv, Dispatch PROVE LoopInv'
  <1> DEFINE epoch == Head(pending)
             at == DispatchAt(config, epoch)
             commands == Delivered(epoch, at)
             applied == Effective(commands)
  <1>1. pending # <<>>
    BY DEF Dispatch, DispatchNext
  <1>2. CASE Refused(at)
    BY <1>2 DEF Refused, world, record, coordination, LoopInv, Shape, Informed, Numbered,
                Attributed, Shown, Labelled
  <1>3. CASE /\ Act(epoch, at, Inspected(epoch, at), applied, commands)
             /\ log' = log \cup Written(epoch, at, applied)
    <2>1. epoch \in 0 .. Len(decided) - 1
      BY <1>1, HeadDecided
    <2>2. /\ commands \in SUBSET decided[epoch + 1].commands
          /\ commands # {} => /\ DecisionAt(config, epoch) <= at
                              /\ at < DecisionAt(config, epoch) + config.validity
                              /\ ~config.allow => decided[epoch + 1].influence = {}
      BY <2>1, DeliveredPermitted
    <2>3. applied \in SUBSET Accepted(log, commands)
      BY DEF Effective
    <2>4. UNCHANGED <<config, decided, exports>>
      BY <1>3 DEF Act
    <2> HIDE DEF epoch, at, commands, applied
    <2>5. Numbered' /\ Attributed' /\ Shown'
      BY <1>3, <2>1, <2>2, <2>3, <2>4, WritesKeep
    <2>6. Shape' /\ Informed' /\ Labelled'
      BY <1>1, <1>3, ActKeeps DEF epoch
    <2> QED BY <2>5, <2>6 DEF LoopInv
  <1> QED BY <1>2, <1>3 DEF Dispatch

(* A dispatch the simulator dies in: some of the commands, without a receipt. *)
LEMMA LoseActionKeeps == ASSUME LoopInv, LoseAction PROVE LoopInv'
  <1> DEFINE epoch == Head(pending)
             at == DispatchAt(config, epoch)
             commands == Delivered(epoch, at)
             of(last) == {c \in commands : c.agent <= last}
  <1>1. pending # <<>>
    BY DEF LoseAction, DispatchNext
  <1>2. Act(epoch, at, "raised", {}, {})
    BY DEF LoseAction
  <1>3. PICK last \in Agents \cup {0} :
          log' = log \cup Written(epoch, at, Accepted(log, of(last)))
    BY DEF LoseAction
  <1>4. epoch \in 0 .. Len(decided) - 1
    BY <1>1, HeadDecided
  <1>5. /\ of(last) \in SUBSET decided[epoch + 1].commands
        /\ of(last) # {} => /\ DecisionAt(config, epoch) <= at
                            /\ at < DecisionAt(config, epoch) + config.validity
                            /\ ~config.allow => decided[epoch + 1].influence = {}
    <2>1. of(last) \subseteq commands
      OBVIOUS
    <2> HIDE DEF of
    <2> QED BY <1>4, <2>1, DeliveredPermitted
  <1>6. UNCHANGED <<config, decided, exports>>
    BY <1>2 DEF Act
  <1> HIDE DEF epoch, at, commands, of
  <1>7. Numbered' /\ Attributed' /\ Shown'
    BY <1>3, <1>4, <1>5, <1>6, WritesKeep
  <1>8. Shape' /\ Informed' /\ Labelled'
    BY <1>1, <1>2, ActKeeps DEF epoch
  <1> QED BY <1>7, <1>8 DEF LoopInv

(* A run that crashes leaves its record as it is. *)
LEMMA CrashKeeps == ASSUME LoopInv, Crash PROVE LoopInv'
  BY DEF Crash, record, coordination, LoopInv, Shape, Informed, Numbered, Attributed, Shown,
         Labelled

(* So does a stutter. *)
LEMMA StutterKeeps == ASSUME LoopInv, UNCHANGED vars PROVE LoopInv'
  BY DEF vars, world, record, coordination, LoopInv, Shape, Informed, Numbered, Attributed,
         Shown, Labelled

(* At the start nothing is written, decided or read. *)
LEMMA InitHolds == ASSUME Init PROVE LoopInv
  <1>1. /\ config \in Configs /\ phase = "run" /\ log = {} /\ decided = <<>> /\ exports = <<>>
        /\ pending = <<>> /\ receipts = <<>> /\ report = Assembled({})
        /\ snapshots = [s \in Stages |-> Fresh]
    BY DEF Init
  <1>2. Shape
    BY <1>1 DEF Shape, IsSeq
  <1>3. Informed /\ Shown /\ Attributed
    BY <1>1 DEF Informed, Shown, Attributed
  <1>4. Numbered
    <2>1. \A a \in Actuators : WritesTo(log, a) = {}
      BY <1>1 DEF WritesTo
    <2> QED BY <2>1, FS_EmptySet DEF Numbered
  <1>5. Labelled
    <2>1. Sound(report)
      BY <1>1, AssembledSound
    <2>2. DOMAIN receipts = {} /\ Len(decided) = 0
      BY <1>1
    <2> QED BY <1>1, <2>1, <2>2 DEF Labelled, Fresh, Sound
  <1> QED BY <1>2, <1>3, <1>4, <1>5 DEF LoopInv

(* LoopInv holds throughout a run: decisions name the versions they were      *)
(* shown, writes are numbered and carry their decision, observations show     *)
(* prefixes and what truth has influenced is labelled.                        *)
THEOREM LoopInvariant == Spec => []LoopInv
  <1>1. Init => LoopInv
    BY InitHolds
  <1>2. LoopInv /\ [Next]_vars => LoopInv'
    BY EpochKeeps, DispatchKeeps, LoseActionKeeps, CrashKeeps, CloseKeeps, StutterKeeps DEF Next
  <1> QED BY <1>1, <1>2, PTL DEF Spec

(* A write lands within its command's validity and follows only writes that   *)
(* the observation it was decided from showed: compare-and-swap on the        *)
(* version (model.py) makes the late dispatch of runner.py safe.              *)
THEOREM NeverStale == Spec => []NoStaleWrite
  <1>1. ASSUME LoopInv PROVE NoStaleWrite
    <2> SUFFICES ASSUME NEW w \in log
                 PROVE  /\ DecisionAt(config, w.epoch) <= w.at
                        /\ w.at < DecisionAt(config, w.epoch) + config.validity
                        /\ \A v \in WritesTo(log, w.actuator) :
                              v # w => /\ v.version # w.version
                                       /\ v.version < w.version => v \in exports[w.epoch + 1]
      BY DEF NoStaleWrite
    <2>1. /\ w.actuator \in Actuators
          /\ w.epoch \in 0 .. Len(decided) - 1
          /\ w.version = Version(exports[w.epoch + 1], w.actuator)
          /\ DecisionAt(config, w.epoch) <= w.at
          /\ w.at < DecisionAt(config, w.epoch) + config.validity
      BY <1>1 DEF LoopInv, Attributed
    <2>2. w.epoch + 1 \in 1 .. Len(exports)
      BY <1>1, <2>1 DEF LoopInv, Shape, IsSeq
    <2>3. ASSUME NEW v \in WritesTo(log, w.actuator), v # w
          PROVE  /\ v.version # w.version
                 /\ v.version < w.version => v \in exports[w.epoch + 1]
      <3>1. v \in log /\ v.actuator = w.actuator /\ w \in WritesTo(log, w.actuator)
        BY <2>3 DEF WritesTo
      <3>2. v.version # w.version
        BY <1>1, <2>1, <2>3, <3>1 DEF LoopInv, Numbered
      <3>3. v.version < w.version => v \in exports[w.epoch + 1]
        BY <1>1, <2>1, <2>2, <3>1 DEF LoopInv, Shown
      <3> QED BY <3>2, <3>3
    <2> QED BY <2>1, <2>3
  <1> QED BY <1>1, LoopInvariant, PTL

(* What truth has influenced carries its label through the invocations of     *)
(* boundary.py, and moves no actuator of a run whose treatment forbids it.    *)
THEOREM PrivilegeIsLabelled == Spec => []PrivilegeSticks
  <1>1. ASSUME LoopInv PROVE PrivilegeSticks
    <2>1. \A part \in ToSet(decided) \cup {receipts[e] : e \in DOMAIN receipts}
                        \cup {snapshots[s] : s \in Stages} \cup {report} :
            part.influence \subseteq part.label
      <3>1. \A part \in ToSet(decided) : Sound(part)
        <4>1. IsSeq(decided) /\ \A k \in 1 .. Len(decided) : Sound(decided[k])
          BY <1>1 DEF LoopInv, Shape, Labelled
        <4>2. DOMAIN decided = 1 .. Len(decided)
          BY <4>1 DEF IsSeq
        <4> QED BY <4>1, <4>2 DEF ToSet
      <3> QED BY <1>1, <3>1 DEF LoopInv, Labelled, Sound
    <2>2. ~config.allow => \A w \in log : decided[w.epoch + 1].influence = {}
      BY <1>1 DEF LoopInv, Attributed
    <2> QED BY <2>1, <2>2 DEF PrivilegeSticks
  <1> QED BY <1>1, LoopInvariant, PTL

-------------------------------------------------------------------------------
(* The account of a run.                                                     *)

(* What is pending are the last epochs decided, in order; those before them  *)
(* have been dispatched.                                                     *)
Fifo ==
    /\ Len(pending) <= Len(decided)
    /\ \A k \in 1 .. Len(pending) : pending[k] = Len(decided) - Len(pending) + k - 1
    /\ DOMAIN receipts = 0 .. Len(decided) - Len(pending) - 1

(* The commands of a dispatch reach the provider together or not at all.     *)
Fates ==
    \A e \in DOMAIN receipts :
        receipts[e].applied \cup receipts[e].refused \in {{}, decided[e + 1].commands}

Explained == link = "up" => log = Rebuilt(DOMAIN receipts)

Ended ==
    phase = "closed" =>
        /\ Len(decided) = Epochs
        /\ undispatched = {i \in ToSet(pending) : decided[i + 1].commands # {}}

AccountInv == LoopInv /\ Fifo /\ Fates /\ Explained /\ Ended

(* The head of what is pending is the first epoch without a receipt. *)
LEMMA HeadIsFirst ==
    ASSUME LoopInv, Fifo, pending # <<>>
    PROVE  /\ Head(pending) = Len(decided) - Len(pending)
           /\ Len(decided) \in Nat /\ Len(pending) \in Nat /\ Len(pending) > 0
           /\ Head(pending) \notin DOMAIN receipts
           /\ Head(pending) \in Nat
  <1>1. pending \in Seq(Nat) /\ Len(decided) \in Nat
    BY DEF LoopInv, Shape, IsSeq
  <1>2. Len(pending) \in Nat /\ Len(pending) > 0 /\ Head(pending) = pending[1]
    BY <1>1
  <1>3. pending[1] = Len(decided) - Len(pending) /\ Len(pending) <= Len(decided)
    BY <1>1, <1>2 DEF Fifo
  <1> QED BY <1>1, <1>2, <1>3 DEF Fifo

(* An action stage moves one epoch from what is pending to the receipts. *)
LEMMA ActAccounts ==
    ASSUME LoopInv, Fifo, Fates, pending # <<>>,
           NEW epoch, epoch = Head(pending), NEW at, NEW outcome, NEW applied, NEW commands,
           Act(epoch, at, outcome, applied, commands),
           applied \subseteq commands, commands \in {{}, decided[epoch + 1].commands}
    PROVE  /\ Fifo' /\ Fates'
           /\ Rebuilt(DOMAIN receipts)' = Rebuilt(DOMAIN receipts) \cup Written(epoch, at, applied)
  <1>1. /\ epoch = Len(decided) - Len(pending)
        /\ Len(decided) \in Nat /\ Len(pending) \in Nat /\ Len(pending) > 0
        /\ epoch \notin DOMAIN receipts /\ epoch \in Nat
    BY HeadIsFirst
  <1>2. decided' = decided /\ pending' = Tail(pending)
    BY DEF Act
  <1>3. PICK label, influence :
           receipts' = Received(epoch, [label |-> label, influence |-> influence, at |-> at,
                                        applied |-> applied, refused |-> commands \ applied])
    BY DEF Act
  <1>4. /\ DOMAIN receipts' = DOMAIN receipts \cup {epoch}
        /\ \A e \in DOMAIN receipts : receipts'[e] = receipts[e]
        /\ receipts'[epoch].at = at /\ receipts'[epoch].applied = applied
        /\ receipts'[epoch].refused = commands \ applied
    BY <1>1, <1>3 DEF Received
  <1>5. /\ Len(pending') = Len(pending) - 1
        /\ \A k \in 1 .. Len(pending') : pending'[k] = pending[k + 1]
    <2>1. pending \in Seq(Nat)
      BY DEF LoopInv, Shape
    <2> QED BY <1>1, <1>2, <2>1
  <1>6. Fifo'
    <2>1. \A k \in 1 .. Len(pending') : pending'[k] = Len(decided) - Len(pending') + k - 1
      <3>1. TAKE k \in 1 .. Len(pending')
      <3>2. /\ k \in Nat /\ k + 1 \in 1 .. Len(pending)
            /\ Len(decided) - Len(pending') + k - 1 = Len(decided) - Len(pending) + (k + 1) - 1
        BY <1>1, <1>5, <3>1
      <3>3. pending[k + 1] = Len(decided) - Len(pending) + (k + 1) - 1
        BY <3>2 DEF Fifo
      <3>4. pending'[k] = pending[k + 1]
        BY <1>5, <3>1
      <3> QED BY <3>2, <3>3, <3>4
    <2>2. DOMAIN receipts' = 0 .. Len(decided) - Len(pending') - 1
      <3>1. DOMAIN receipts = 0 .. epoch - 1
        BY <1>1 DEF Fifo
      <3>2. Len(decided) - Len(pending') - 1 = epoch
        BY <1>1, <1>5
      <3>3. DOMAIN receipts' = 0 .. epoch
        BY <1>1, <1>4, <3>1
      <3> QED BY <3>2, <3>3
    <2>3. Len(pending') <= Len(decided)
      BY <1>1, <1>5 DEF Fifo
    <2> QED BY <1>2, <2>1, <2>2, <2>3 DEF Fifo
  <1>7. Fates'
    <2>1. applied \cup (commands \ applied) = commands
      OBVIOUS
    <2> QED BY <1>2, <1>4, <2>1 DEF Fates
  <1>8. Rebuilt(DOMAIN receipts)' = Rebuilt(DOMAIN receipts) \cup Written(epoch, at, applied)
    <2>1. Rebuilt(DOMAIN receipts)' =
            UNION {Written(e, receipts'[e].at, receipts'[e].applied) : e \in DOMAIN receipts'}
      BY DEF Rebuilt, Applied, Dispatched, Written
    <2>2. Rebuilt(DOMAIN receipts) =
            UNION {Written(e, receipts[e].at, receipts[e].applied) : e \in DOMAIN receipts}
      BY DEF Rebuilt, Applied, Dispatched, Written
    <2>3. ASSUME NEW e \in DOMAIN receipts
          PROVE  Written(e, receipts'[e].at, receipts'[e].applied)
                   = Written(e, receipts[e].at, receipts[e].applied)
      BY <1>4, <2>3
    <2>4. Written(epoch, receipts'[epoch].at, receipts'[epoch].applied)
            = Written(epoch, at, applied)
      BY <1>4
    <2>5. \A x : x \in Rebuilt(DOMAIN receipts)'
                  <=> \/ \E e \in DOMAIN receipts :
                            x \in Written(e, receipts[e].at, receipts[e].applied)
                      \/ x \in Written(epoch, at, applied)
      <3>1. \A x : x \in Rebuilt(DOMAIN receipts)'
                    <=> \E e \in DOMAIN receipts \cup {epoch} :
                           x \in Written(e, receipts'[e].at, receipts'[e].applied)
        BY <1>4, <2>1
      <3> QED BY <2>3, <2>4, <3>1
    <2>6. \A x : x \in Rebuilt(DOMAIN receipts)
                  <=> \E e \in DOMAIN receipts :
                         x \in Written(e, receipts[e].at, receipts[e].applied)
      BY <2>2
    <2> QED BY <2>5, <2>6
  <1> QED BY <1>6, <1>7, <1>8

LEMMA DeliveredWhole ==
    ASSUME NEW epoch, NEW at
    PROVE  Delivered(epoch, at) \in {{}, decided[epoch + 1].commands}
  BY DEF Delivered

LEMMA AccountKeeps == AccountInv /\ [Next]_vars => AccountInv'
  <1> SUFFICES ASSUME AccountInv, [Next]_vars PROVE AccountInv'
    OBVIOUS
  <1> USE DEF AccountInv
  <1>1. LoopInv'
    BY EpochKeeps, DispatchKeeps, LoseActionKeeps, CrashKeeps, CloseKeeps, StutterKeeps DEF Next
  <1>2. \A t : Refused(t) => Fifo' /\ Fates' /\ Explained' /\ Ended'
    BY DEF Refused, world, record, Fifo, Fates, Explained, Ended, Rebuilt, Applied, Dispatched
  <1>3. CASE Epoch
    <2>1. CASE Refused(DecisionAt(config, Index))
      BY <1>1, <1>2, <2>1
    <2>2. CASE /\ pending' = Append(pending, Index)
               /\ \E fault \in Faults, wants \in config.wants : Decide(fault, wants)
               /\ UNCHANGED <<phase, log, link, receipts, undispatched>>
      <3>1. PICK d : decided' = Append(decided, d)
        BY <2>2, DecideSound
      <3> DEFINE n == Len(decided)
                 p == Len(pending)
      <3>2. /\ n \in Nat /\ Len(decided') = n + 1
            /\ \A k \in 1 .. n : decided'[k] = decided[k]
        BY <3>1, AppendToSeq DEF LoopInv, Shape
      <3>3. /\ p \in Nat /\ Len(pending') = p + 1
            /\ \A k \in 1 .. p : pending'[k] = pending[k]
            /\ pending'[p + 1] = n
        <4>1. pending \in Seq(Nat) /\ Index \in Nat
          BY <3>2 DEF LoopInv, Shape, Index
        <4> QED BY <2>2, <4>1 DEF Index
      <3>4. /\ p <= n
            /\ \A k \in 1 .. p : pending[k] = n - p + k - 1
            /\ DOMAIN receipts = 0 .. n - p - 1
        BY DEF Fifo
      <3> HIDE DEF n, p
      <3>5. Fifo'
        <4>1. \A k \in 1 .. p + 1 : pending'[k] = (n + 1) - (p + 1) + k - 1
          BY <3>2, <3>3, <3>4
        <4>2. DOMAIN receipts' = 0 .. (n + 1) - (p + 1) - 1 /\ p + 1 <= n + 1
          <5>1. (n + 1) - (p + 1) = n - p /\ p + 1 <= n + 1
            BY <3>2, <3>3, <3>4
          <5> QED BY <2>2, <3>4, <5>1
        <4> QED BY <3>2, <3>3, <4>1, <4>2 DEF Fifo
      <3>6. Fates'
        <4>1. \A e \in DOMAIN receipts : decided'[e + 1] = decided[e + 1]
          BY <3>2, <3>3, <3>4
        <4> QED BY <2>2, <4>1 DEF Fates
      <3>7. Explained' /\ Ended'
        BY <2>2, <1>3 DEF Explained, Ended, Rebuilt, Applied, Dispatched, Epoch, Running
      <3> QED BY <1>1, <3>5, <3>6, <3>7
    <2> QED BY <1>3, <2>1, <2>2 DEF Epoch
  <1>4. CASE Dispatch
    <2> DEFINE epoch == Head(pending)
               at == DispatchAt(config, epoch)
               commands == Delivered(epoch, at)
               applied == Effective(commands)
    <2>1. pending # <<>> /\ phase = "run"
      BY <1>4 DEF Dispatch, DispatchNext, Running
    <2>2. CASE Refused(at)
      BY <1>1, <1>2, <2>2
    <2>3. CASE /\ Act(epoch, at, Inspected(epoch, at), applied, commands)
               /\ log' = log \cup Written(epoch, at, applied)
               /\ UNCHANGED link
      <3>1. applied \subseteq commands /\ commands \in {{}, decided[epoch + 1].commands}
        BY DeliveredWhole DEF Effective, Accepted
      <3> HIDE DEF epoch, at, commands, applied
      <3>2. /\ Fifo' /\ Fates'
            /\ Rebuilt(DOMAIN receipts)' = Rebuilt(DOMAIN receipts) \cup Written(epoch, at, applied)
        BY <2>1, <2>3, <3>1, ActAccounts DEF epoch
      <3>3. Explained'
        BY <2>3, <3>2 DEF Explained
      <3>4. Ended'
        BY <2>1, <2>3 DEF Act, Ended
      <3> QED BY <1>1, <3>2, <3>3, <3>4
    <2> QED BY <1>4, <2>2, <2>3 DEF Dispatch
  <1>5. CASE LoseAction
    <2> DEFINE epoch == Head(pending)
               at == DispatchAt(config, epoch)
    <2>1. /\ pending # <<>> /\ phase = "run" /\ link' = "down"
          /\ Act(epoch, at, "raised", {}, {})
      BY <1>5 DEF LoseAction, DispatchNext, Running
    <2> HIDE DEF epoch, at
    <2>2. Fifo' /\ Fates'
      BY <2>1, ActAccounts DEF epoch
    <2>3. Explained' /\ Ended'
      BY <2>1 DEF Act, Explained, Ended
    <2> QED BY <1>1, <2>2, <2>3
  <1>6. CASE Crash
    BY <1>1, <1>6 DEF Crash, record, Fifo, Fates, Explained, Ended
  <1>7. CASE Close
    <2>1. CASE Refused(DecisionAt(config, Epochs))
      BY <1>1, <1>2, <2>1
    <2>2. CASE /\ undispatched' = {i \in ToSet(pending) : decided[i + 1].commands # {}}
               /\ UNCHANGED <<log, link, decided, receipts, pending>>
      BY <1>1, <1>7, <2>2
         DEF Close, Index, Fifo, Fates, Explained, Ended, Rebuilt, Applied, Dispatched
    <2> QED BY <1>7, <2>1, <2>2 DEF Close
  <1>8. CASE UNCHANGED vars
    BY <1>1, <1>8
       DEF vars, world, record, Fifo, Fates, Explained, Ended, Rebuilt, Applied, Dispatched
  <1> QED BY <1>3, <1>4, <1>5, <1>6, <1>7, <1>8 DEF Next

(* A run starts with an empty account. *)
LEMMA AccountStarts == Init => AccountInv
  <1> SUFFICES ASSUME Init PROVE AccountInv
    OBVIOUS
  <1>1. /\ log = {} /\ receipts = <<>> /\ pending = <<>> /\ decided = <<>> /\ phase = "run"
    BY DEF Init
  <1>2. DOMAIN receipts = {} /\ Len(pending) = 0 /\ Len(decided) = 0
    BY <1>1
  <1>3. Fifo /\ Fates /\ Ended
    BY <1>1, <1>2 DEF Fifo, Fates, Ended
  <1>4. Explained
    BY <1>1, <1>2 DEF Explained, Rebuilt
  <1> QED BY <1>3, <1>4, InitHolds DEF AccountInv

(* Every command of a closed run has one fate, recorded or counted as not     *)
(* dispatched, and the record alone explains the world: runner.py's receipts  *)
(* and undispatched list are complete.                                        *)
THEOREM EverythingAccounted == Spec => []Accounted
  <1>2. ASSUME AccountInv PROVE Accounted
    <2>1. ASSUME phase = "closed", NEW epoch \in 0 .. Epochs - 1, decided[epoch + 1].commands # {}
          PROVE  Dispatched(epoch) <=> epoch \notin undispatched
      <3> DEFINE n == Len(decided)
                 p == Len(pending)
      <3>1. /\ n = Epochs
            /\ undispatched = {i \in ToSet(pending) : decided[i + 1].commands # {}}
        BY <1>2, <2>1 DEF AccountInv, Ended
      <3>2. n \in Nat /\ p \in Nat /\ DOMAIN pending = 1 .. p
        BY <1>2 DEF AccountInv, LoopInv, Shape, IsSeq
      <3>3. /\ p <= n
            /\ \A k \in 1 .. p : pending[k] = n - p + k - 1
            /\ DOMAIN receipts = 0 .. n - p - 1
        BY <1>2 DEF AccountInv, Fifo
      <3> HIDE DEF n, p
      <3>4. epoch \in ToSet(pending) <=> epoch >= n - p
        <4>1. ASSUME epoch \in ToSet(pending) PROVE epoch >= n - p
          <5>1. PICK k \in 1 .. p : pending[k] = epoch
            BY <3>2, <4>1 DEF ToSet
          <5> QED BY <3>2, <3>3, <5>1
        <4>2. ASSUME epoch >= n - p PROVE epoch \in ToSet(pending)
          <5> DEFINE k == epoch - (n - p) + 1
          <5>1. k \in 1 .. p /\ n - p + k - 1 = epoch
            BY <3>1, <3>2, <4>2
          <5>2. pending[k] = epoch
            BY <3>3, <5>1
          <5> QED BY <3>2, <5>1, <5>2 DEF ToSet
        <4> QED BY <4>1, <4>2
      <3>5. Dispatched(epoch) <=> epoch < n - p
        BY <3>2, <3>3 DEF Dispatched
      <3> QED BY <2>1, <3>1, <3>2, <3>4, <3>5
    <2> QED BY <1>2, <2>1 DEF AccountInv, Explained, Fates, Accounted
  <1>3. Spec => []AccountInv
    BY AccountStarts, AccountKeeps, PTL DEF Spec
  <1> QED BY <1>2, <1>3, PTL

-------------------------------------------------------------------------------
(* The order of a schedule.  Decisions, dispatches and the observations that *)
(* show them follow the order of their epochs.                               *)

(* A nonempty set of epochs has a first. *)
LEMMA LeastIndex ==
    ASSUME NEW N, N \subseteq Nat, N # {}
    PROVE  \E n \in N : \A m \in N : n <= m
  <1>1. PICK n \in N : \A m \in N : ~(<<m, n>> \in OpToRel(<, Nat))
    BY NatLessThanWellFounded, WFMin
  <1>2. ASSUME NEW m \in N PROVE n <= m
    <2>1. ~(m < n)
      BY <1>1 DEF OpToRel
    <2> QED BY <2>1
  <1> QED BY <1>2

(* Whether an observation follows the dispatch of an epoch, by the tie rule. *)
Shows(e, i) == e < i /\ Due(DispatchAt(config, e), DecisionAt(config, i))

(* The multiples of a period are a period apart. *)
LEMMA Multiples ==
    ASSUME NEW p \in Nat, NEW i \in Int, NEW j \in Int, i < j
    PROVE  i * p \in Int /\ j * p \in Int /\ i * p + p <= j * p
  <1> DEFINE k == j - i - 1
  <1>1. k \in Nat /\ j = i + 1 + k
    OBVIOUS
  <1>2. k * p \in Nat
    BY <1>1
  <1> HIDE DEF k
  <1>3. (i + 1 + k) * p = i * p + p + k * p
    BY <1>1
  <1>4. i * p \in Int
    OBVIOUS
  <1> QED BY <1>1, <1>2, <1>3, <1>4

(* A decision comes no earlier than the ones before it. *)
LEMMA DecisionsInOrder ==
    ASSUME NEW c \in Configs, NEW i \in Nat, NEW j \in Nat, i <= j
    PROVE  /\ DecisionAt(c, i) \in Int /\ DecisionAt(c, j) \in Int
           /\ DecisionAt(c, i) <= DecisionAt(c, j)
           /\ i < j => \E by \in Int : /\ by = c.slip.by \/ by = -c.slip.by \/ by = 0
                                       /\ DecisionAt(c, j) >= DecisionAt(c, i) + c.period + by
  <1> DEFINE p == c.period
             s(k) == IF k = c.slip.index THEN c.slip.by ELSE 0
  <1>1. p \in Nat /\ c.slip.by \in -p .. p /\ c.slip.by \in Int
    BY TimingAssumption
  <1>2. /\ DecisionAt(c, i) = i * p + s(i) /\ DecisionAt(c, j) = j * p + s(j)
        /\ s(i) \in Int /\ s(j) \in Int
    BY <1>1 DEF DecisionAt
  <1>3. i * p \in Int /\ j * p \in Int
    BY <1>1
  <1>4. CASE i = j
    BY <1>2, <1>3, <1>4
  <1>5. CASE i < j
    <2>1. i * p + p <= j * p
      BY <1>1, <1>5, Multiples
    <2>2. s(i) = 0 \/ s(j) = 0
      BY <1>5
    <2>3. /\ s(j) - s(i) \in {0, c.slip.by, -c.slip.by}
          /\ s(j) - s(i) >= -p
      BY <1>1, <2>2
    <2> HIDE DEF s, p
    <2>4. DecisionAt(c, j) >= DecisionAt(c, i) + p + (s(j) - s(i))
      BY <1>1, <1>2, <1>3, <2>1
    <2> QED BY <1>1, <1>2, <1>3, <2>3, <2>4 DEF p
  <1> QED BY <1>4, <1>5

(* Rounding keeps the order, and moves an instant by less than the grid. *)
LEMMA RoundedInOrder ==
    ASSUME NEW s \in Int, NEW t \in Int, s <= t
    PROVE  Rounded(s) \in Int /\ Rounded(t) \in Int /\ Rounded(s) <= Rounded(t) /\ Rounded(s) > s - Tie
  <1> DEFINE h == Tie \div 2
             a == (s + h) \div Tie
             b == (t + h) \div Tie
  <1>1. Tie \in Nat /\ Tie > 0
    BY TieAssumption
  <1>2. h \in Nat
    BY <1>1
  <1> HIDE DEF h
  <1>3. /\ a \in Int /\ Tie * a <= s + h /\ s + h < Tie * a + Tie
        /\ b \in Int /\ Tie * b <= t + h /\ t + h < Tie * b + Tie
    BY <1>1, <1>2
  <1> HIDE DEF a, b
  <1>4. a * Tie = Tie * a /\ b * Tie = Tie * b /\ a * Tie \in Int /\ b * Tie \in Int
    BY <1>1, <1>3
  <1>5. a * Tie <= b * Tie
    <2>1. CASE a <= b
      <3>1. a = b \/ a < b
        BY <1>3, <2>1
      <3> QED BY <1>1, <1>3, <1>4, <3>1, Multiples
    <2>2. CASE b < a
      <3>1. b * Tie + Tie <= a * Tie
        BY <1>1, <1>3, <2>2, Multiples
      <3> QED BY <1>1, <1>2, <1>3, <1>4, <3>1
    <2> QED BY <1>3, <2>1, <2>2
  <1>6. Rounded(s) = a * Tie /\ Rounded(t) = b * Tie
    BY DEF Rounded, a, b, h
  <1> QED BY <1>1, <1>2, <1>3, <1>4, <1>5, <1>6

(* A dispatch comes no earlier than the ones before it, and under a latency *)
(* not much earlier than that latency. *)
LEMMA DispatchesInOrder ==
    ASSUME NEW c \in Configs, NEW e \in Nat, NEW f \in Nat, e <= f
    PROVE  /\ DispatchAt(c, e) \in Int /\ DispatchAt(c, f) \in Int
           /\ DispatchAt(c, e) <= DispatchAt(c, f)
           /\ Barrier(c) => DispatchAt(c, e) = DecisionAt(c, e)
           /\ ~Barrier(c) => DispatchAt(c, e) > DecisionAt(c, e) + c.latency - Tie
  <1>1. /\ DecisionAt(c, e) \in Int /\ DecisionAt(c, f) \in Int
        /\ DecisionAt(c, e) <= DecisionAt(c, f)
    BY DecisionsInOrder
  <1>2. c.latency \in Nat
    BY TimingAssumption
  <1>3. LET s == DecisionAt(c, e) + c.latency
            t == DecisionAt(c, f) + c.latency
        IN  Rounded(s) \in Int /\ Rounded(t) \in Int /\ Rounded(s) <= Rounded(t) /\ Rounded(s) > s - Tie
    BY <1>1, <1>2, RoundedInOrder
  <1> QED BY <1>1, <1>2, <1>3, TieAssumption DEF DispatchAt

(* What shows at an observation shows at the later ones, and what was        *)
(* dispatched before it shows too.                                           *)
LEMMA ShowsOn ==
    ASSUME config \in Configs, NEW e \in Nat, NEW f \in Nat, NEW i \in Nat, NEW j \in Nat,
           f <= e, i <= j, Shows(e, i)
    PROVE  Shows(f, j)
  <1>1. /\ DispatchAt(config, e) \in Int /\ DispatchAt(config, f) \in Int
        /\ DispatchAt(config, f) <= DispatchAt(config, e)
    BY DispatchesInOrder
  <1>2. /\ DecisionAt(config, i) \in Int /\ DecisionAt(config, j) \in Int
        /\ DecisionAt(config, i) <= DecisionAt(config, j)
    BY DecisionsInOrder
  <1> QED BY <1>1, <1>2, TieAssumption DEF Shows, Due

(***************************************************************************)
(* The record in time.  At an observation the world holds what was         *)
(* dispatched before it, and the receipts tell of the same.                *)
(***************************************************************************)
InTime ==
    /\ \A e \in DOMAIN receipts : /\ receipts[e].at = DispatchAt(config, e)
                                  /\ Shows(e, Len(exports))
    /\ \A w \in log : w.epoch \in DOMAIN receipts /\ w.at = DispatchAt(config, w.epoch)

(* What has not been dispatched shows in no observation made. *)
StillOut ==
    \A e \in Nat \ DOMAIN receipts : \A i \in 0 .. Len(exports) - 1 : ~Shows(e, i)

Showing(i) == {e \in DOMAIN receipts : Shows(e, i)}

Recorded ==
    \A i \in 0 .. Len(exports) - 1 :
        /\ exports[i + 1] = {w \in log : Shows(w.epoch, i)}
        /\ exports[i + 1] = Rebuilt(Showing(i))

(* Each command was applied to what the earlier ones left. *)
Stacked ==
    \A e \in DOMAIN receipts : \A c \in Applied(e) :
        c.version = Version(Rebuilt({d \in DOMAIN receipts : d < e}), c.actuator)

(* The last observation of a closed run shows everything. *)
LastLook == phase = "closed" => Len(exports) > 0 /\ exports[Len(exports)] = log

RecordInv == AccountInv /\ InTime /\ StillOut /\ Recorded /\ Stacked /\ LastLook

(* The writes a set of receipts stands for, element by element. *)
LEMMA InRebuilt ==
    ASSUME NEW epochs, NEW x
    PROVE  x \in Rebuilt(epochs) <=> \E e \in epochs : x \in Written(e, receipts[e].at, Applied(e))
  BY DEF Rebuilt

LEMMA WrittenOf ==
    ASSUME NEW epoch, NEW at, NEW commands, NEW x \in Written(epoch, at, commands)
    PROVE  /\ x.epoch = epoch /\ x.at = at
           /\ \E c \in commands : /\ x.agent = c.agent /\ x.actuator = c.actuator
                                  /\ x.version = c.version
  BY DEF Written

(* A dispatch extends the record. *)
LEMMA DispatchRecords ==
    ASSUME RecordInv, Fifo', phase = "run", pending # <<>>, DispatchNext,
           NEW epoch, epoch = Head(pending), NEW at, at = DispatchAt(config, epoch),
           NEW outcome, NEW applied, NEW commands,
           Act(epoch, at, outcome, applied, commands), applied \subseteq commands,
           NEW more, log' = log \cup Written(epoch, at, more),
           \A c \in applied : c.version = Version(log, c.actuator),
           applied # {} => link = "up"
    PROVE  InTime' /\ StillOut' /\ Recorded' /\ Stacked' /\ LastLook'
  <1>1. /\ epoch = Len(decided) - Len(pending)
        /\ Len(decided) \in Nat /\ Len(pending) \in Nat /\ Len(pending) > 0
        /\ epoch \notin DOMAIN receipts /\ epoch \in Nat
        /\ DOMAIN receipts = 0 .. epoch - 1
    BY HeadIsFirst DEF RecordInv, AccountInv, Fifo
  <1>2. /\ config' = config /\ exports' = exports /\ phase' = phase
        /\ \E label, influence :
              receipts' = Received(epoch, [label |-> label, influence |-> influence, at |-> at,
                                           applied |-> applied, refused |-> commands \ applied])
    BY DEF Act
  <1>3. /\ DOMAIN receipts' = DOMAIN receipts \cup {epoch}
        /\ \A e \in DOMAIN receipts : receipts'[e] = receipts[e]
        /\ receipts'[epoch].at = at /\ receipts'[epoch].applied = applied
    BY <1>1, <1>2 DEF Received
  <1>4. config \in Configs /\ Len(decided) = Len(exports)
    BY DEF RecordInv, AccountInv, LoopInv, Shape
  <1>5. \A e, i : Shows(e, i)' <=> Shows(e, i)
    BY <1>2 DEF Shows
  <1>6. Shows(epoch, Len(exports))
    <2>1. /\ DispatchAt(config, epoch) \in Int
          /\ Barrier(config) => DispatchAt(config, epoch) = DecisionAt(config, epoch)
      BY <1>1, <1>4, DispatchesInOrder
    <2>2. /\ DecisionAt(config, epoch) \in Int /\ DecisionAt(config, Len(decided)) \in Int
          /\ DecisionAt(config, epoch) <= DecisionAt(config, Len(decided))
      BY <1>1, <1>4, DecisionsInOrder
    <2>3. Due(DispatchAt(config, epoch), DecisionAt(config, Len(decided)))
      BY <2>1, <2>2, TieAssumption DEF DispatchNext, Due, Index
    <2> QED BY <1>1, <1>4, <2>3 DEF Shows
  <1>7. InTime'
    <2>1. \A w \in Written(epoch, at, more) : w.epoch = epoch /\ w.at = at
      BY WrittenOf
    <2>2. \A e \in DOMAIN receipts' : receipts'[e].at = DispatchAt(config, e) /\ Shows(e, Len(exports))
      BY <1>3, <1>6 DEF RecordInv, InTime
    <2>3. \A w \in log' : w.epoch \in DOMAIN receipts' /\ w.at = DispatchAt(config, w.epoch)
      BY <1>3, <2>1 DEF RecordInv, InTime
    <2> QED BY <1>2, <1>5, <2>2, <2>3 DEF InTime
  <1>8. StillOut'
    BY <1>2, <1>3, <1>5 DEF RecordInv, StillOut
  <1>9. \A i \in 0 .. Len(exports) - 1 : ~Shows(epoch, i)
    BY <1>1 DEF RecordInv, StillOut
  <1>10. \A e \in DOMAIN receipts : Applied(e)' = Applied(e) /\ receipts'[e].at = receipts[e].at
    BY <1>3 DEF Applied, Dispatched
  <1>11. ASSUME NEW epochs \in SUBSET DOMAIN receipts
         PROVE  UNION {Written(e, receipts'[e].at, Applied(e)') : e \in epochs} = Rebuilt(epochs)
    BY <1>10 DEF Rebuilt, Written
  <1>12. Recorded'
    <2>1. ASSUME NEW i \in 0 .. Len(exports) - 1
          PROVE  /\ exports[i + 1] = {w \in log' : Shows(w.epoch, i)}
                 /\ exports[i + 1] = UNION {Written(e, receipts'[e].at, Applied(e)') :
                                              e \in {d \in DOMAIN receipts' : Shows(d, i)}}
      <3>1. /\ exports[i + 1] = {w \in log : Shows(w.epoch, i)}
            /\ exports[i + 1] = Rebuilt(Showing(i))
        BY DEF RecordInv, Recorded
      <3>2. \A w \in Written(epoch, at, more) : ~Shows(w.epoch, i)
        BY <1>9, WrittenOf
      <3>3. {d \in DOMAIN receipts' : Shows(d, i)} = Showing(i)
        BY <1>3, <1>9 DEF Showing
      <3>4. Showing(i) \in SUBSET DOMAIN receipts
        BY DEF Showing
      <3> QED BY <1>11, <3>1, <3>2, <3>3, <3>4
    <2>2. /\ \A i : Rebuilt(Showing(i))' = UNION {Written(e, receipts'[e].at, Applied(e)') :
                                              e \in {d \in DOMAIN receipts' : Shows(d, i)}}
      BY <1>5 DEF Rebuilt, Showing, Written
    <2>3. \A i : {w \in log : Shows(w.epoch, i)}' = {w \in log' : Shows(w.epoch, i)}
      BY <1>5
    <2> QED BY <1>2, <2>1, <2>2, <2>3 DEF Recorded
  <1>13. Stacked'
    <2>1. ASSUME NEW e \in DOMAIN receipts, NEW c \in Applied(e)
          PROVE  c.version = Version(Rebuilt({d \in DOMAIN receipts : d < e}), c.actuator)
      BY DEF RecordInv, Stacked
    <2>2. ASSUME NEW e \in DOMAIN receipts', NEW c \in Applied(e)'
          PROVE  c.version = Version(UNION {Written(d, receipts'[d].at, Applied(d)') :
                                              d \in {d \in DOMAIN receipts' : d < e}}, c.actuator)
      <3>1. CASE e \in DOMAIN receipts
        <4>1. {d \in DOMAIN receipts' : d < e} = {d \in DOMAIN receipts : d < e}
          BY <1>1, <1>3, <3>1
        <4>2. {d \in DOMAIN receipts : d < e} \in SUBSET DOMAIN receipts
          OBVIOUS
        <4>3. c \in Applied(e)
          BY <1>10, <2>2, <3>1
        <4> QED BY <1>11, <2>1, <3>1, <4>1, <4>2, <4>3
      <3>2. CASE e = epoch
        <4>1. {d \in DOMAIN receipts' : d < e} = DOMAIN receipts
          BY <1>1, <1>3, <3>2
        <4>2. c \in applied
          BY <1>3, <2>2, <3>2 DEF Applied, Dispatched
        <4>3. log = Rebuilt(DOMAIN receipts)
          BY <4>2 DEF RecordInv, AccountInv, Explained
        <4>4. DOMAIN receipts \in SUBSET DOMAIN receipts
          OBVIOUS
        <4> QED BY <1>11, <4>1, <4>2, <4>3, <4>4
      <3> QED BY <1>3, <2>2, <3>1, <3>2
    <2>3. \A e : Rebuilt({d \in DOMAIN receipts : d < e})' =
                   UNION {Written(d, receipts'[d].at, Applied(d)') : d \in {d \in DOMAIN receipts' : d < e}}
      BY DEF Rebuilt, Written
    <2>4. \A e \in DOMAIN receipts' : \A c \in Applied(e)' :
             c.version = Version(Rebuilt({d \in DOMAIN receipts : d < e})', c.actuator)
      BY <2>2, <2>3
    <2>5. \A e, a : Version(Rebuilt({d \in DOMAIN receipts : d < e}), a)'
                      = Version(Rebuilt({d \in DOMAIN receipts : d < e})', a)
      BY DEF Version, WritesTo
    <2> QED BY <2>4, <2>5 DEF Stacked
  <1>14. LastLook'
    BY <1>2 DEF LastLook
  <1> QED BY <1>7, <1>8, <1>12, <1>13, <1>14

(* An observation shows what has been dispatched, which is what lands before it. *)
LEMMA ObservationRecords ==
    ASSUME RecordInv, phase = "run", link = "up", ~DispatchNext,
           exports' = Append(exports, log), UNCHANGED <<config, log, receipts>>
    PROVE  /\ InTime' /\ StillOut' /\ Recorded' /\ Stacked'
           /\ Len(exports') > 0 /\ exports'[Len(exports')] = log
  <1> DEFINE n == Len(exports)
  <1>1. /\ config \in Configs /\ IsSeq(exports) /\ Len(decided) = n
        /\ pending \in Seq(Nat)
    BY DEF RecordInv, AccountInv, LoopInv, Shape
  <1>2. /\ n \in Nat /\ Len(exports') = n + 1
        /\ \A i \in 1 .. n : exports'[i] = exports[i]
        /\ exports'[n + 1] = log
    <2>1. exports \in Seq(ToSet(exports) \cup {log})
      BY <1>1, SeqMonotonic DEF IsSeq
    <2> QED BY <1>1, <2>1, AppendToSeq
  <1>3. \A e, i : Shows(e, i)' <=> Shows(e, i)
    BY DEF Shows
  <1>4. \A e \in DOMAIN receipts : e \in Nat /\ Shows(e, n)
    <2>1. DOMAIN receipts = 0 .. Len(decided) - Len(pending) - 1
      BY DEF RecordInv, AccountInv, Fifo
    <2> QED BY <1>1, <1>2, <2>1 DEF RecordInv, InTime
  <1> HIDE DEF n
  <1>5. InTime'
    <2>1. \A e \in DOMAIN receipts : Shows(e, n + 1)
      BY <1>1, <1>2, <1>4, ShowsOn
    <2>2. /\ \A e \in DOMAIN receipts : receipts[e].at = DispatchAt(config, e)
          /\ \A w \in log : w.epoch \in DOMAIN receipts /\ w.at = DispatchAt(config, w.epoch)
      BY DEF RecordInv, InTime
    <2> QED BY <1>2, <1>3, <2>1, <2>2 DEF InTime
  <1>6. ASSUME NEW e \in Nat \ DOMAIN receipts PROVE ~Shows(e, n)
    <2>1. CASE pending = <<>>
      <3>1. DOMAIN receipts = 0 .. n - 1
        BY <1>1, <2>1 DEF RecordInv, AccountInv, Fifo
      <3> QED BY <1>2, <1>6, <3>1 DEF Shows
    <2>2. CASE pending # <<>>
      <3>1. /\ Head(pending) = n - Len(pending) /\ Head(pending) \in Nat
            /\ DOMAIN receipts = 0 .. Head(pending) - 1
        BY <1>1, <2>2, HeadIsFirst DEF RecordInv, AccountInv, Fifo
      <3>2. e >= Head(pending)
        BY <1>6, <3>1
      <3>3. ~Shows(Head(pending), n)
        BY <1>1, <2>2 DEF DispatchNext, Index, Shows
      <3> QED BY <1>1, <1>2, <1>6, <3>1, <3>2, <3>3, ShowsOn
    <2> QED BY <2>1, <2>2
  <1>7. StillOut'
    <2>1. \A e \in Nat \ DOMAIN receipts : \A i \in 0 .. n - 1 : ~Shows(e, i)
      BY DEF RecordInv, StillOut, n
    <2>2. \A i \in 0 .. (n + 1) - 1 : i \in 0 .. n - 1 \/ i = n
      BY <1>2
    <2> QED BY <1>2, <1>3, <1>6, <2>1, <2>2 DEF StillOut
  <1>10. Recorded'
    <2>1. ASSUME NEW i \in 0 .. n
          PROVE  /\ exports'[i + 1] = {w \in log : Shows(w.epoch, i)}
                 /\ exports'[i + 1] = Rebuilt(Showing(i))
      <3>1. CASE i = n
        <4>1. log = Rebuilt(DOMAIN receipts)
          BY DEF RecordInv, AccountInv, Explained
        <4>2. Showing(n) = DOMAIN receipts
          BY <1>4 DEF Showing
        <4>3. {w \in log : Shows(w.epoch, n)} = log
          BY <1>4 DEF RecordInv, InTime
        <4> QED BY <1>2, <3>1, <4>1, <4>2, <4>3
      <3>2. CASE i # n
        <4>1. i \in 0 .. n - 1 /\ i + 1 \in 1 .. n
          BY <1>2, <2>1, <3>2
        <4>2. /\ exports[i + 1] = {w \in log : Shows(w.epoch, i)}
              /\ exports[i + 1] = Rebuilt(Showing(i))
          BY <4>1 DEF RecordInv, Recorded, n
        <4> QED BY <1>2, <4>1, <4>2
      <3> QED BY <3>1, <3>2
    <2>2. \A i : Rebuilt(Showing(i))' = Rebuilt(Showing(i))
      BY <1>3 DEF Rebuilt, Showing, Applied, Dispatched, Written
    <2>3. \A i : {w \in log : Shows(w.epoch, i)}' = {w \in log : Shows(w.epoch, i)}
      BY <1>3
    <2>4. 0 .. Len(exports') - 1 = 0 .. n
      BY <1>2
    <2> QED BY <2>1, <2>2, <2>3, <2>4 DEF Recorded
  <1>11. Stacked'
    BY DEF RecordInv, Stacked, Rebuilt, Applied, Dispatched, Written, Version, WritesTo
  <1> QED BY <1>2, <1>5, <1>7, <1>10, <1>11

(* A step that leaves the record alone. *)
LEMMA RecordStands ==
    ASSUME RecordInv, UNCHANGED <<config, log, receipts, exports>>,
           phase' = "closed" => phase = "closed"
    PROVE  InTime' /\ StillOut' /\ Recorded' /\ Stacked' /\ LastLook'
  <1>1. \A e, i : Shows(e, i)' <=> Shows(e, i)
    BY DEF Shows
  <1>2. \A i : Rebuilt(Showing(i))' = Rebuilt(Showing(i))
    BY <1>1 DEF Rebuilt, Showing, Applied, Dispatched, Written
  <1>3. InTime' /\ StillOut'
    BY <1>1 DEF RecordInv, InTime, StillOut
  <1>4. Recorded'
    BY <1>1, <1>2 DEF RecordInv, Recorded
  <1>5. Stacked' /\ LastLook'
    BY DEF RecordInv, Stacked, Rebuilt, Applied, Dispatched, Written, Version, WritesTo, LastLook
  <1> QED BY <1>3, <1>4, <1>5

(* Each step keeps the record in time. *)
LEMMA RecordKeeps == RecordInv /\ [Next]_vars => RecordInv'
  <1> SUFFICES ASSUME RecordInv, [Next]_vars PROVE RecordInv'
    OBVIOUS
  <1>1. AccountInv'
    BY AccountKeeps DEF RecordInv
  <1>2. \A t : Refused(t) => UNCHANGED <<config, log, receipts, exports>> /\ phase' # "closed"
    BY DEF Refused, world, record
  <1>3. ASSUME Epoch PROVE RecordInv'
    <2>1. ASSUME Refused(DecisionAt(config, Index)) PROVE RecordInv'
      BY <1>1, <1>2, <2>1, RecordStands DEF RecordInv
    <2>2. ASSUME exports' = Append(exports, Observation), UNCHANGED <<config, phase, log, receipts>>
          PROVE  RecordInv'
      <3>1. phase = "run" /\ link = "up" /\ ~DispatchNext
        BY <1>3 DEF Epoch, Running
      <3>2. InTime' /\ StillOut' /\ Recorded' /\ Stacked'
        BY <2>2, <3>1, ObservationRecords DEF Observation
      <3>3. LastLook'
        BY <2>2, <3>1 DEF LastLook
      <3> QED BY <1>1, <3>2, <3>3 DEF RecordInv
    <2> QED BY <1>3, <2>1, <2>2 DEF Epoch
  <1>4. ASSUME Close PROVE RecordInv'
    <2>1. ASSUME Refused(DecisionAt(config, Epochs)) PROVE RecordInv'
      BY <1>1, <1>2, <2>1, RecordStands DEF RecordInv
    <2>2. ASSUME exports' = Append(exports, Observation), UNCHANGED <<config, log, receipts>>
          PROVE  RecordInv'
      <3>1. phase = "run" /\ link = "up" /\ ~DispatchNext
        BY <1>4 DEF Close, Running
      <3>2. /\ InTime' /\ StillOut' /\ Recorded' /\ Stacked'
            /\ Len(exports') > 0 /\ exports'[Len(exports')] = log
        BY <2>2, <3>1, ObservationRecords DEF Observation
      <3>3. LastLook'
        BY <2>2, <3>2 DEF LastLook
      <3> QED BY <1>1, <3>2, <3>3 DEF RecordInv
    <2> QED BY <1>4, <2>1, <2>2 DEF Close
  <1>5. ASSUME Dispatch PROVE RecordInv'
    <2> DEFINE epoch == Head(pending)
               at == DispatchAt(config, epoch)
               commands == Delivered(epoch, at)
               applied == Effective(commands)
    <2>1. pending # <<>> /\ phase = "run" /\ link = "up" /\ DispatchNext
      BY <1>5 DEF Dispatch, DispatchNext, Running
    <2>2. ASSUME Refused(at) PROVE RecordInv'
      BY <1>1, <1>2, <2>2, RecordStands DEF RecordInv
    <2>3. ASSUME Act(epoch, at, Inspected(epoch, at), applied, commands),
                 log' = log \cup Written(epoch, at, applied)
          PROVE  RecordInv'
      <3>1. /\ applied \subseteq commands
            /\ \A c \in applied : c.version = Version(log, c.actuator)
        BY DEF Effective, Accepted
      <3> HIDE DEF epoch, at, commands, applied
      <3>2. InTime' /\ StillOut' /\ Recorded' /\ Stacked' /\ LastLook'
        <4>1. Fifo'
          BY <1>1 DEF AccountInv
        <4> QED BY <2>1, <2>3, <3>1, <4>1, DispatchRecords DEF epoch, at
      <3> QED BY <1>1, <3>2 DEF RecordInv
    <2> QED BY <1>5, <2>2, <2>3 DEF Dispatch
  <1>6. ASSUME LoseAction PROVE RecordInv'
    <2> DEFINE epoch == Head(pending)
               at == DispatchAt(config, epoch)
               commands == Delivered(epoch, at)
    <2>1. /\ pending # <<>> /\ phase = "run" /\ DispatchNext
          /\ Act(epoch, at, "raised", {}, {})
          /\ \E more : log' = log \cup Written(epoch, at, more)
      BY <1>6 DEF LoseAction, DispatchNext, Running
    <2> HIDE DEF epoch, at, commands
    <2>2. PICK more : log' = log \cup Written(epoch, at, more)
      BY <2>1
    <2>3. InTime' /\ StillOut' /\ Recorded' /\ Stacked' /\ LastLook'
      <3>1. Fifo'
        BY <1>1 DEF AccountInv
      <3> QED BY <2>1, <2>2, <3>1, DispatchRecords DEF epoch, at
    <2> QED BY <1>1, <2>3 DEF RecordInv
  <1>7. ASSUME Crash PROVE RecordInv'
    <2>1. UNCHANGED <<config, log, receipts, exports>> /\ phase' = "crashed"
      BY <1>7 DEF Crash, record
    <2> QED BY <1>1, <2>1, RecordStands DEF RecordInv
  <1>8. ASSUME UNCHANGED vars PROVE RecordInv'
    <2>1. UNCHANGED <<config, log, receipts, exports, phase>>
      BY <1>8 DEF vars, world, record
    <2> QED BY <1>1, <2>1, RecordStands DEF RecordInv
  <1> QED BY <1>3, <1>4, <1>5, <1>6, <1>7, <1>8 DEF Next

(* A run starts with an empty record. *)
LEMMA RecordStarts == Init => RecordInv
  <1> SUFFICES ASSUME Init PROVE RecordInv
    OBVIOUS
  <1>1. /\ log = {} /\ receipts = <<>> /\ exports = <<>> /\ phase = "run"
    BY DEF Init
  <1>2. DOMAIN receipts = {} /\ Len(exports) = 0 /\ 0 .. Len(exports) - 1 = {}
    BY <1>1
  <1>3. InTime /\ StillOut /\ Recorded /\ Stacked /\ LastLook
    BY <1>1, <1>2 DEF InTime, StillOut, Recorded, Stacked, LastLook
  <1> QED BY <1>3, AccountStarts DEF RecordInv

-------------------------------------------------------------------------------
(* The regeneration of a prefix.                                             *)

(* The epochs of the prefix that show at an index: those reapplied by then.  *)
Landed(branch, index) == {e \in Timeline(branch) : Shows(e, index)}

(* What the loop of the regeneration makes of what it had reapplied by the   *)
(* index before.                                                             *)
Continued(before, branch, index) ==
    LET done == IF index = 0 THEN {}
                ELSE before \cup After(Timeline(branch) \ before, index - 1)
    IN  done \cup Before(Timeline(branch) \ done, index)

(* Taking the head of the timeline while it lands reapplies what landed: the *)
(* order of the epochs is that of their dispatches.                          *)
LEMMA LandedContinues ==
    ASSUME RecordInv, NEW branch \in 0 .. Len(exports) - 1, NEW index \in 0 .. branch,
           NEW before, index > 0 => before = Landed(branch, index - 1)
    PROVE  Continued(before, branch, index) = Landed(branch, index)
  <1> DEFINE T == Timeline(branch)
             done == IF index = 0 THEN {} ELSE before \cup After(T \ before, index - 1)
  <1>1. config \in Configs /\ index \in Nat /\ Len(exports) \in Nat
    BY DEF RecordInv, AccountInv, LoopInv, Shape, IsSeq
  <1>2. \A e \in T : e \in Nat /\ e < branch /\ e \in DOMAIN receipts /\ receipts[e].at = DispatchAt(config, e)
    BY DEF Timeline, Applied, Dispatched, RecordInv, InTime
  <1>3. \A e \in T : e < index /\ Due(receipts[e].at, DecisionAt(config, index)) <=> Shows(e, index)
    BY <1>2 DEF Shows
  <1>4. done \subseteq Landed(branch, index)
    <2>1. CASE index = 0
      BY <2>1
    <2>2. CASE index # 0
      <3>1. index - 1 \in Nat /\ index - 1 <= index /\ before = Landed(branch, index - 1)
        BY <1>1, <2>2
      <3>2. Landed(branch, index - 1) \subseteq Landed(branch, index)
        BY <1>1, <1>2, <3>1, ShowsOn DEF Landed
      <3>3. ASSUME NEW e \in After(T \ before, index - 1)
            PROVE  e \in Landed(branch, index)
        <4>1. e \in T /\ e = index - 1 /\ receipts[e].at <= DecisionAt(config, index - 1)
          BY <1>2, <3>3 DEF After, Taken
        <4>2. /\ DecisionAt(config, index - 1) \in Int /\ DecisionAt(config, index) \in Int
              /\ DecisionAt(config, index - 1) <= DecisionAt(config, index)
          BY <1>1, <3>1, DecisionsInOrder
        <4>3. DispatchAt(config, e) \in Int
          BY <1>1, <1>2, <4>1, DispatchesInOrder
        <4>4. Due(receipts[e].at, DecisionAt(config, index)) /\ e < index
          BY <1>1, <1>2, <4>1, <4>2, <4>3, TieAssumption DEF Due
        <4> QED BY <1>3, <4>1, <4>4 DEF Landed
      <3> QED BY <2>2, <3>1, <3>2, <3>3
    <2> QED BY <2>1, <2>2
  <1>5. Before(T \ done, index) \subseteq Landed(branch, index)
    <2> SUFFICES ASSUME NEW e \in Before(T \ done, index) PROVE e \in Landed(branch, index)
      OBVIOUS
    <2>1. /\ e \in T /\ (e <= e => e < index /\ Due(receipts[e].at, DecisionAt(config, index)))
      BY DEF Before, Taken
    <2>2. e <= e
      BY <1>2, <2>1
    <2> QED BY <1>3, <2>1, <2>2 DEF Landed
  <1>6. Landed(branch, index) \subseteq done \cup Before(T \ done, index)
    <2> SUFFICES ASSUME NEW e \in Landed(branch, index), e \notin done
                 PROVE  e \in Before(T \ done, index)
      OBVIOUS
    <2>1. e \in T \ done /\ Shows(e, index)
      BY DEF Landed
    <2>2. ASSUME NEW d \in T \ done, d <= e
          PROVE  d < index /\ Due(receipts[d].at, DecisionAt(config, index))
      BY <1>1, <1>2, <1>3, <2>1, <2>2, ShowsOn
    <2> QED BY <2>1, <2>2 DEF Before, Taken
  <1>7. Continued(before, branch, index) = done \cup Before(T \ done, index)
    BY DEF Continued
  <1> QED BY <1>4, <1>5, <1>6, <1>7

(* What the recursive function computes: the epochs that have landed.        *)
LEMMA ReappliedLands ==
    ASSUME RecordInv, NEW branch \in 0 .. Len(exports) - 1, NEW index \in 0 .. branch
    PROVE  Reapplied(branch)[index] = Landed(branch, index)
  <1> DEFINE Solves(f) == f = [i \in 0 .. branch |-> Continued(f[i - 1], branch, i)]
             g == [i \in 0 .. branch |-> Landed(branch, i)]
             r == Reapplied(branch)
             Wrong == {i \in 0 .. branch : r[i] # Landed(branch, i)}
  <1>1. branch \in Nat
    BY DEF RecordInv, AccountInv, LoopInv, Shape, IsSeq
  <1>2. Solves(g)
    <2>1. ASSUME NEW i \in 0 .. branch PROVE g[i] = Continued(g[i - 1], branch, i)
      <3>1. i > 0 => g[i - 1] = Landed(branch, i - 1)
        BY <1>1
      <3> HIDE DEF g
      <3>2. Continued(g[i - 1], branch, i) = Landed(branch, i)
        BY <3>1, LandedContinues
      <3> QED BY <3>2 DEF g
    <2> QED BY <2>1
  <1>3. r = CHOOSE f : Solves(f)
    BY DEF Reapplied, Continued
  <1>4. Solves(r)
    <2> HIDE DEF Solves, g, r
    <2> QED BY <1>2, <1>3
  <1>5. \A i \in 0 .. branch : r[i] = Continued(r[i - 1], branch, i)
    <2> HIDE DEF r
    <2> QED BY <1>4
  <1> HIDE DEF r
  <1>6. Wrong = {}
    <2> SUFFICES ASSUME Wrong # {} PROVE FALSE
      OBVIOUS
    <2>1. Wrong \subseteq Nat
      BY <1>1
    <2>2. PICK i \in Wrong : \A j \in Wrong : i <= j
      BY <2>1, LeastIndex
    <2>3. i \in 0 .. branch /\ r[i] # Landed(branch, i)
      OBVIOUS
    <2>4. i > 0 => r[i - 1] = Landed(branch, i - 1)
      BY <1>1, <2>2
    <2>5. Continued(r[i - 1], branch, i) = Landed(branch, i)
      BY <2>3, <2>4, LandedContinues
    <2> QED BY <1>5, <2>3, <2>5
  <1> QED BY <1>6 DEF r

(* Epochs without a command applied rebuild nothing.                         *)
LEMMA RebuiltOf ==
    ASSUME NEW epochs, NEW others,
           \A e \in epochs : e \in others \/ Applied(e) = {},
           \A e \in others : e \in epochs \/ Applied(e) = {}
    PROVE  Rebuilt(epochs) = Rebuilt(others)
  <1>1. \A e : Applied(e) = {} => Written(e, receipts[e].at, Applied(e)) = {}
    BY DEF Written
  <1>2. \A x : x \in Rebuilt(epochs) <=> x \in Rebuilt(others)
    BY <1>1, InRebuilt
  <1> QED BY <1>2

(* A prefix regenerates, as Regenerates says of every branch point, because  *)
(* the commands landed in the order of their epochs.                         *)
LEMMA LandedRegenerates ==
    ASSUME RecordInv, NEW branch \in 0 .. Len(exports) - 1
    PROVE  Regenerated(branch)
  <1>1. config \in Configs /\ branch \in Nat /\ \A e \in DOMAIN receipts : e \in Nat
    <2>1. /\ config \in Configs /\ branch \in Nat /\ Len(decided) \in Nat /\ Len(pending) \in Nat
          /\ DOMAIN receipts = 0 .. Len(decided) - Len(pending) - 1
      BY DEF RecordInv, AccountInv, LoopInv, Shape, IsSeq, Fifo
    <2> QED BY <2>1
  <1>2. \A e : e \in Timeline(branch) <=> e \in 0 .. branch - 1 /\ Applied(e) # {}
    BY DEF Timeline
  <1>3. \A e : e \notin DOMAIN receipts => Applied(e) = {}
    BY DEF Applied, Dispatched
  <1>4. \A index \in 0 .. branch : Rebuilt(Landed(branch, index)) = exports[index + 1]
    <2> TAKE index \in 0 .. branch
    <2>1. exports[index + 1] = Rebuilt(Showing(index))
      <3>1. index \in 0 .. Len(exports) - 1
        BY <1>1 DEF RecordInv, AccountInv, LoopInv, Shape, IsSeq
      <3> QED BY <3>1 DEF RecordInv, Recorded
    <2>2. \A e \in Landed(branch, index) : e \in Showing(index) \/ Applied(e) = {}
      BY <1>3 DEF Landed, Showing
    <2>3. \A e \in Showing(index) : e \in Landed(branch, index) \/ Applied(e) = {}
      BY <1>1, <1>2 DEF Landed, Showing, Shows
    <2> QED BY <2>1, <2>2, <2>3, RebuiltOf
  <1>5. AppliesAgain(Landed(branch, branch))
    <2> SUFFICES ASSUME NEW e \in Landed(branch, branch), NEW c \in Applied(e)
                 PROVE  c.version = Version(Rebuilt({d \in Landed(branch, branch) : d < e}), c.actuator)
      BY DEF AppliesAgain
    <2>1. e \in DOMAIN receipts /\ e \in Nat /\ e \in 0 .. branch - 1 /\ Shows(e, branch)
      BY <1>1, <1>2, <1>3 DEF Landed
    <2>2. c.version = Version(Rebuilt({d \in DOMAIN receipts : d < e}), c.actuator)
      BY <2>1 DEF RecordInv, Stacked
    <2>3. \A d \in {d \in DOMAIN receipts : d < e} :
             d \in {d2 \in Landed(branch, branch) : d2 < e} \/ Applied(d) = {}
      <3> TAKE d \in {d \in DOMAIN receipts : d < e}
      <3>1. d \in Nat /\ d < e
        BY <1>1
      <3>2. Shows(d, branch) /\ d \in 0 .. branch - 1
        BY <1>1, <2>1, <3>1, ShowsOn
      <3> QED BY <1>2, <3>1, <3>2 DEF Landed
    <2>4. \A d \in {d2 \in Landed(branch, branch) : d2 < e} :
             d \in {d2 \in DOMAIN receipts : d2 < e} \/ Applied(d) = {}
      BY <1>3
    <2>5. Rebuilt({d \in DOMAIN receipts : d < e}) = Rebuilt({d \in Landed(branch, branch) : d < e})
      BY <2>3, <2>4, RebuiltOf
    <2> QED BY <2>2, <2>5
  <1>6. \A index \in 0 .. branch : Reapplied(branch)[index] = Landed(branch, index)
    BY ReappliedLands
  <1>7. branch \in 0 .. branch
    BY <1>1
  <1> QED BY <1>4, <1>5, <1>6, <1>7 DEF Regenerated

(* RecordInv holds throughout a run. *)
LEMMA RecordInvariant == Spec => []RecordInv
  BY RecordStarts, RecordKeeps, PTL DEF Spec

(* Regenerates holds of every run: what Continuation of runner.py makes of a *)
(* recorded prefix is the world that was observed, and no command of it is    *)
(* refused the second time.                                                   *)
THEOREM PrefixRegenerates == Spec => []Regenerates
  <1>1. RecordInv => Regenerates
    BY LandedRegenerates DEF Regenerates
  <1> QED BY <1>1, RecordInvariant, PTL

-------------------------------------------------------------------------------
(* The types.                                                                *)

Types ==
    /\ phase \in {"run", "closed", "refused", "crashed"}
    /\ link \in {"up", "down"}
    /\ now \in Nat
    /\ log \subseteq [epoch : 0 .. Epochs - 1, agent : Agents, actuator : Actuators,
                      version : Nat, at : Nat]
    /\ Len(decided) <= Epochs
    /\ conceded \in [Agents -> 0 .. Len(decided)]
    /\ faults \in 0 .. MaxFaults

TypeInv == AccountInv /\ Types

(* A stage that goes wrong counts once. *)
LEMMA FaultCount ==
    ASSUME NEW fault
    PROVE  Cardinality({fault} \ {NoFault}) \in Nat
  <1>1. IsFiniteSet({fault} \ {NoFault})
    BY FS_Singleton, FS_Difference
  <1> QED BY <1>1, FS_CardinalityType

(* Nobody concedes more than once in an epoch. *)
LEMMA ConcededOnce ==
    ASSUME LoopInv, NEW n \in Nat, conceded \in [Agents -> 0 .. n],
           NEW fault, NEW wants, Decide(fault, wants)
    PROVE  conceded' \in [Agents -> 0 .. n + 1]
  <1>1. PICK resolution, proposals, issuable : Settle(resolution, proposals, issuable)
    BY DEF Decide
  <1>2. CASE resolution.ok
    <2>1. PICK admitted :
            conceded' = [a \in Agents |->
                           IF a \in DOMAIN proposals \ admitted /\ proposals[a] # <<>>
                           THEN conceded[a] + 1 ELSE 0]
      BY <1>1, <1>2 DEF Settle
    <2>2. \A a \in Agents : conceded[a] \in 0 .. n
      OBVIOUS
    <2>3. \A a \in Agents : conceded'[a] \in 0 .. n + 1
      BY <2>1, <2>2
    <2> QED BY <2>1, <2>3
  <1>3. CASE ~resolution.ok
    <2>1. conceded' = conceded
      BY <1>1, <1>3 DEF Settle
    <2> QED BY <2>1
  <1> QED BY <1>2, <1>3

(* The writes of a dispatch at an instant the world has reached. *)
LEMMA WritesTyped ==
    ASSUME TypeInv, pending # <<>>, NEW epoch, epoch = Head(pending),
           NEW at, at = DispatchAt(config, epoch), at >= now,
           NEW commands, commands \subseteq Delivered(epoch, at)
    PROVE  /\ at \in Nat
           /\ Written(epoch, at, commands) \subseteq
                [epoch : 0 .. Epochs - 1, agent : Agents, actuator : Actuators,
                 version : Nat, at : Nat]
  <1>1. /\ epoch \in 0 .. Len(decided) - 1 /\ Len(decided) \in Nat /\ config \in Configs
        /\ epoch + 1 \in 1 .. Len(decided)
    BY HeadDecided DEF TypeInv, AccountInv, LoopInv, Shape, IsSeq
  <1>2. at \in Int
    BY <1>1, DispatchesInOrder
  <1>3. at \in Nat /\ epoch \in 0 .. Epochs - 1
    BY <1>1, <1>2, BoundsAssumption DEF TypeInv, Types
  <1>4. commands \subseteq Command
    <2>1. commands \subseteq decided[epoch + 1].commands
      BY <1>1, DeliveredPermitted DEF TypeInv, AccountInv
    <2>2. decided[epoch + 1].commands \subseteq Current(exports[epoch + 1])
      BY <1>1 DEF TypeInv, AccountInv, LoopInv, Informed
    <2> QED BY <2>1, <2>2 DEF Current
  <1> QED BY <1>3, <1>4 DEF Written, Command

(* Each step keeps the types. *)
LEMMA TypesKeep == TypeInv /\ [Next]_vars => TypeInv'
  <1> SUFFICES ASSUME TypeInv, [Next]_vars PROVE Types'
    BY AccountKeeps DEF TypeInv
  <1>1. /\ config \in Configs /\ Len(decided) \in Nat
        /\ \A index \in Nat : DecisionAt(config, index) \in Int
    BY DecisionsInOrder DEF TypeInv, AccountInv, LoopInv, Shape, IsSeq
  <1>2. \A t : Refused(t) => Types'
    BY DEF Refused, world, record, coordination, TypeInv, Types
  <1>3. ASSUME Epoch PROVE Types'
    <2>1. ASSUME Reach(DecisionAt(config, Index)) PROVE now' \in Nat
      BY <1>1, <2>1 DEF Reach, Index, TypeInv, Types
    <2>2. ASSUME Reach(DecisionAt(config, Index)), UNCHANGED <<config, phase, log, link>>,
                 NEW fault \in Faults,
                 faults + Cardinality({fault} \ {NoFault}) <= MaxFaults,
                 faults' = faults + Cardinality({fault} \ {NoFault}),
                 NEW wants \in config.wants, Decide(fault, wants)
          PROVE  Types'
      <3>1. faults' \in 0 .. MaxFaults
        <4> DEFINE count == Cardinality({fault} \ {NoFault})
        <4>1. count \in Nat /\ faults + count <= MaxFaults /\ faults' = faults + count
          BY <2>2, FaultCount
        <4> HIDE DEF count
        <4> QED BY <4>1, BoundsAssumption DEF TypeInv, Types
      <3>2. conceded' \in [Agents -> 0 .. Len(decided) + 1]
        BY <1>1, <2>2, ConcededOnce DEF TypeInv, Types, AccountInv
      <3>3. Len(decided') = Len(decided) + 1
        BY <2>2, DecideSound, AppendToSeq DEF TypeInv, AccountInv, LoopInv, Shape
      <3>4. Len(decided) < Epochs
        BY <1>3 DEF Epoch, Index
      <3> QED BY <1>1, <2>1, <2>2, <3>1, <3>2, <3>3, <3>4, BoundsAssumption DEF TypeInv, Types
    <2> QED BY <1>2, <1>3, <2>2 DEF Epoch
  <1>4. ASSUME NEW epoch, epoch = Head(pending), NEW at, at = DispatchAt(config, epoch),
               pending # <<>>,
               NEW outcome, NEW applied, NEW commands, Act(epoch, at, outcome, applied, commands),
               NEW more, more \subseteq Delivered(epoch, at), log' = log \cup Written(epoch, at, more),
               link' \in {"up", "down"}, faults' \in 0 .. MaxFaults
        PROVE  Types'
    <2>1. at >= now /\ now' = at /\ UNCHANGED <<phase, decided, conceded>>
      BY <1>4 DEF Act, Reach
    <2>2. /\ at \in Nat
          /\ Written(epoch, at, more) \subseteq
                [epoch : 0 .. Epochs - 1, agent : Agents, actuator : Actuators,
                 version : Nat, at : Nat]
      BY <1>4, <2>1, WritesTyped
    <2> QED BY <1>4, <2>1, <2>2 DEF TypeInv, Types
  <1>5. ASSUME Dispatch PROVE Types'
    <2> DEFINE epoch == Head(pending)
               at == DispatchAt(config, epoch)
               commands == Delivered(epoch, at)
               applied == Effective(commands)
    <2>1. ASSUME Act(epoch, at, Inspected(epoch, at), applied, commands),
                 log' = log \cup Written(epoch, at, applied), UNCHANGED <<link, faults>>
          PROVE  Types'
      <3>1. applied \subseteq commands /\ pending # <<>>
        BY <1>5 DEF Effective, Accepted, Dispatch, DispatchNext
      <3>2. link' \in {"up", "down"} /\ faults' \in 0 .. MaxFaults
        BY <2>1 DEF TypeInv, Types
      <3> HIDE DEF epoch, at, applied
      <3> QED BY <1>4, <2>1, <3>1, <3>2 DEF epoch, at
    <2> QED BY <1>2, <1>5, <2>1 DEF Dispatch
  <1>6. ASSUME LoseAction PROVE Types'
    <2> DEFINE epoch == Head(pending)
               at == DispatchAt(config, epoch)
               commands == Delivered(epoch, at)
               of(last) == Accepted(log, {c \in commands : c.agent <= last})
    <2>1. /\ pending # <<>> /\ Act(epoch, at, "raised", {}, {}) /\ link' = "down"
          /\ faults < MaxFaults /\ faults' = faults + 1
          /\ \E last \in Agents \cup {0} : log' = log \cup Written(epoch, at, of(last))
      BY <1>6 DEF LoseAction, DispatchNext
    <2>2. PICK last \in Agents \cup {0} : log' = log \cup Written(epoch, at, of(last))
      BY <2>1
    <2>3. of(last) \subseteq commands
      BY DEF Accepted
    <2>4. faults' \in 0 .. MaxFaults
      BY <2>1, BoundsAssumption DEF TypeInv, Types
    <2> HIDE DEF epoch, at, of
    <2> QED BY <1>4, <2>1, <2>2, <2>3, <2>4 DEF epoch, at
  <1>7. ASSUME Crash PROVE Types'
    BY <1>7 DEF Crash, record, coordination, TypeInv, Types
  <1>8. ASSUME Close PROVE Types'
    <2>1. ASSUME Reach(DecisionAt(config, Epochs)), phase' = "closed",
                 UNCHANGED <<log, link, decided, coordination, faults>>
          PROVE  Types'
      <3>1. now' \in Nat
        BY <1>1, <2>1, BoundsAssumption DEF Reach, TypeInv, Types
      <3> QED BY <2>1, <3>1 DEF coordination, TypeInv, Types
    <2> QED BY <1>2, <1>8, <2>1 DEF Close
  <1>9. ASSUME UNCHANGED vars PROVE Types'
    BY <1>9 DEF vars, world, record, coordination, TypeInv, Types
  <1> QED BY <1>3, <1>5, <1>6, <1>7, <1>8, <1>9 DEF Next

(* A run starts well typed. *)
LEMMA TypesStart == Init => TypeInv
  <1> SUFFICES ASSUME Init PROVE Types
    BY AccountStarts DEF TypeInv
  <1>1. /\ phase = "run" /\ now = 0 /\ log = {} /\ link = "up" /\ decided = <<>>
        /\ conceded = [a \in Agents |-> 0] /\ faults = 0
    BY DEF Init
  <1> QED BY <1>1, BoundsAssumption DEF Types

(* The state of the loop stays well typed, its epochs and faults in bounds.  *)
LEMMA TypeInvariant == Spec => []TypeInv
  BY TypesStart, TypesKeep, PTL DEF Spec

(* What TypeOK asks follows from the types and the account. *)
LEMMA WellTyped == ASSUME TypeInv PROVE TypeOK
  <1>1. /\ config \in Configs /\ Len(decided) \in Nat /\ pending \in Seq(Nat)
        /\ \A k \in 1 .. Len(pending) : pending[k] < Len(decided)
        /\ DOMAIN receipts = 0 .. Len(decided) - Len(pending) - 1
    BY DEF TypeInv, AccountInv, LoopInv, Shape, IsSeq, Fifo
  <1>2. ToSet(pending) \subseteq 0 .. Index - 1
    BY <1>1 DEF ToSet, Index
  <1>3. DOMAIN receipts \subseteq 0 .. Index - 1
    BY <1>1 DEF Index
  <1>4. conceded \in [Agents -> 0 .. Epochs]
    <2>1. \A a \in Agents : conceded[a] \in 0 .. Epochs
      BY <1>1, BoundsAssumption DEF TypeInv, Types
    <2> QED BY <2>1 DEF TypeInv, Types
  <1> QED BY <1>1, <1>2, <1>3, <1>4 DEF TypeInv, Types, TypeOK, Index

-------------------------------------------------------------------------------
(* The evidence.                                                             *)

(* The record can tell the epochs apart: a slip leaves more than a tie       *)
(* between two decisions, and a dispatch that is delayed is delayed by two   *)
(* ties at least, so that the observation before it does not show it.        *)
Measurable(timing) ==
    /\ Tie + timing.slip.by < timing.period
    /\ Tie - timing.slip.by < timing.period
    /\ timing.latency = 0 \/ timing.latency >= 2 * Tie

(* The test evidence_index puts to an epoch. *)
Follows(timing, d, i) ==
    IF Barrier(timing) THEN DecisionAt(timing, i) > d + Tie ELSE Due(d, DecisionAt(timing, i))

(* The test of the evidence index agrees with the order of the loop. *)
LEMMA FollowsShows ==
    ASSUME config \in Configs, Measurable(config), NEW e \in Nat, NEW i \in Nat
    PROVE  Follows(config, DispatchAt(config, e), i) <=> Shows(e, i)
  <1> DEFINE c == config
             d == DispatchAt(config, e)
             D(k) == DecisionAt(config, k)
  <1>1. /\ d \in Int /\ D(e) \in Int /\ D(i) \in Int
        /\ Barrier(c) => d = D(e)
        /\ ~Barrier(c) => d > D(e) + c.latency - Tie
    BY DispatchesInOrder, DecisionsInOrder
  <1>2. Tie \in Nat /\ Tie > 0 /\ c.latency \in Nat /\ c.period \in Nat /\ c.slip.by \in Int
    BY TieAssumption, TimingAssumption
  <1>3. i <= e => D(i) <= D(e)
    BY DecisionsInOrder
  <1>4. e < i => D(i) > D(e) + Tie
    <2> HAVE e < i
    <2>1. PICK by \in Int : /\ by = c.slip.by \/ by = -c.slip.by \/ by = 0
                            /\ D(i) >= D(e) + c.period + by
      BY DecisionsInOrder
    <2>2. c.period + by > Tie
      BY <1>2, <2>1 DEF Measurable
    <2> HIDE DEF D, c
    <2> QED BY <1>1, <1>2, <2>1, <2>2
  <1>5. CASE Barrier(c)
    <2>1. Follows(c, d, i) <=> D(i) > d + Tie
      BY <1>5 DEF Follows
    <2>2. Shows(e, i) <=> e < i /\ d <= D(i) + Tie
      BY DEF Shows, Due
    <2> HIDE DEF D, c, d
    <2>3. Follows(c, d, i) <=> Shows(e, i)
      BY <1>1, <1>2, <1>3, <1>4, <1>5, <2>1, <2>2
    <2> QED BY <2>3 DEF c, d
  <1>6. CASE ~Barrier(c)
    <2>1. Follows(c, d, i) <=> d <= D(i) + Tie
      BY <1>6 DEF Follows, Due
    <2>2. Shows(e, i) <=> e < i /\ d <= D(i) + Tie
      BY DEF Shows, Due
    <2>3. c.latency >= 2 * Tie
      BY <1>6 DEF Measurable, Barrier
    <2> HIDE DEF D, c, d
    <2>4. Follows(c, d, i) <=> Shows(e, i)
      BY <1>1, <1>2, <1>3, <1>6, <2>1, <2>2, <2>3
    <2> QED BY <2>4 DEF c, d
  <1> QED BY <1>5, <1>6

(* The window of the evidence index: nothing before it follows the dispatch, *)
(* its end does.                                                             *)
LEMMA Window ==
    ASSUME NEW c \in Configs, Measurable(c), NEW d \in Int, NEW first,
           first = Max({0, d \div c.period - 1})
    PROVE  /\ first \in Nat
           /\ Follows(c, d, first + 3)
           /\ \A i \in Nat : i < first => ~Follows(c, d, i)
  <1> DEFINE p == c.period
             by == c.slip.by
             q == d \div p
             D(k) == DecisionAt(c, k)
  <1>1. p \in Nat /\ p > 0 /\ by \in Int /\ Tie \in Nat /\ Tie > 0
    BY TieAssumption, TimingAssumption
  <1>2. Tie + by < p /\ Tie - by < p
    BY DEF Measurable
  <1>3. \A k \in Nat : D(k) = k * p \/ D(k) = k * p + by
    BY <1>1 DEF DecisionAt
  <1>4. Follows(c, d, first + 3) <=> IF Barrier(c) THEN D(first + 3) > d + Tie ELSE d <= D(first + 3) + Tie
    BY DEF Follows, Due
  <1>5. \A i : Follows(c, d, i) => D(i) > d + Tie \/ d <= D(i) + Tie
    BY DEF Follows, Due
  <1> HIDE DEF D, p, by
  <1>6. q \in Int /\ p * q <= d /\ d < p * q + p
    BY <1>1
  <1> HIDE DEF q
  <1>7. p * q = q * p /\ q * p \in Int
    BY <1>1, <1>6
  <1>8. first \in Nat /\ first >= q - 1 /\ (first = 0 \/ first = q - 1)
    <2>1. first = Max({0, q - 1})
      BY DEF q, p
    <2>2. \E m \in {0, q - 1} : \A n \in {0, q - 1} : m >= n
      <3>1. CASE q - 1 >= 0
        BY <1>6, <3>1
      <3>2. CASE q - 1 < 0
        BY <1>6, <3>2
      <3> QED BY <1>6, <3>1, <3>2
    <2>3. first \in {0, q - 1} /\ \A n \in {0, q - 1} : first >= n
      BY <2>1, <2>2 DEF Max
    <2> QED BY <1>6, <2>3
  <1>9. D(first + 3) > d + Tie
    <2>1. q * p + p <= (q + 1) * p /\ (q + 1) * p \in Int
      BY <1>1, <1>6, Multiples
    <2>2. (q + 1) * p + p <= (first + 3) * p /\ (first + 3) * p \in Int
      BY <1>1, <1>6, <1>8, Multiples
    <2>3. D(first + 3) = (first + 3) * p \/ D(first + 3) = (first + 3) * p + by
      BY <1>3, <1>8
    <2> QED BY <1>1, <1>2, <1>6, <1>7, <2>1, <2>2, <2>3
  <1>10. ASSUME NEW i \in Nat, i < first PROVE D(i) + Tie < d
    <2>1. first = q - 1 /\ i < q - 1
      BY <1>8, <1>10
    <2>2. (q - 1) * p + p <= q * p /\ (q - 1) * p \in Int
      BY <1>1, <1>6, Multiples
    <2>3. i * p + p <= (q - 1) * p /\ i * p \in Int
      BY <1>1, <1>6, <2>1, Multiples
    <2>4. D(i) = i * p \/ D(i) = i * p + by
      BY <1>3
    <2> QED BY <1>1, <1>2, <1>6, <1>7, <2>2, <2>3, <2>4
  <1>11. \A i \in Nat : D(i) \in Int
    BY <1>1, <1>3
  <1>12. Follows(c, d, first + 3)
    BY <1>1, <1>4, <1>8, <1>9, <1>11
  <1>13. \A i \in Nat : i < first => ~Follows(c, d, i)
    <2> SUFFICES ASSUME NEW i \in Nat, i < first, Follows(c, d, i) PROVE FALSE
      OBVIOUS
    <2>1. D(i) \in Int /\ D(i) + Tie < d /\ (D(i) > d + Tie \/ d <= D(i) + Tie)
      BY <1>5, <1>10, <1>11
    <2> QED BY <1>1, <2>1
  <1> QED BY <1>8, <1>12, <1>13

(* evidence_index of a dispatch: the first observation that shows it. *)
LEMMA EvidenceFirst ==
    ASSUME config \in Configs, Measurable(config), NEW e \in Nat, NEW i \in Nat
    PROVE  /\ EvidenceIndex(config, DispatchAt(config, e)) \in Nat
           /\ i >= EvidenceIndex(config, DispatchAt(config, e)) <=> Shows(e, i)
  <1> DEFINE d == DispatchAt(config, e)
             first == Max({0, d \div config.period - 1})
             window == {k \in first .. first + 3 : Follows(config, d, k)}
             m == EvidenceIndex(config, d)
  <1>1. d \in Int
    BY DispatchesInOrder
  <1>2. /\ first \in Nat
        /\ Follows(config, d, first + 3)
        /\ \A k \in Nat : k < first => ~Follows(config, d, k)
    <2> HIDE DEF d
    <2> QED BY <1>1, Window
  <1>3. m = Min(window)
    BY DEF EvidenceIndex, Follows
  <1>4. \A k \in Nat : Follows(config, d, k) <=> Shows(e, k)
    BY FollowsShows
  <1> HIDE DEF first, d
  <1>5. window \subseteq Nat /\ first + 3 \in window
    BY <1>2
  <1>6. m \in window /\ \A k \in window : m <= k
    <2>1. \E n \in window : \A k \in window : n <= k
      BY <1>5, LeastIndex
    <2> HIDE DEF window, m
    <2> QED BY <1>3, <2>1 DEF Min
  <1>7. m \in Nat /\ first <= m /\ m <= first + 3 /\ Shows(e, m)
    BY <1>2, <1>4, <1>5, <1>6
  <1>8. i >= m => Shows(e, i)
    BY <1>7, ShowsOn
  <1>9. Shows(e, i) => i >= m
    <2> HAVE Shows(e, i)
    <2>1. Follows(config, d, i) /\ i >= first
      BY <1>2, <1>4
    <2>2. CASE i <= first + 3
      <3>1. i \in window
        BY <1>2, <2>1, <2>2
      <3> QED BY <1>6, <1>7, <3>1
    <2>3. CASE i > first + 3
      BY <1>2, <1>7, <2>3
    <2> QED BY <1>2, <2>2, <2>3
  <1> QED BY <1>7, <1>8, <1>9 DEF d

(* A write shows from the observation its receipt cites, as EvidenceShows    *)
(* says.                                                                     *)
LEMMA EvidenceCited == ASSUME RecordInv, Measurable(config) PROVE EvidenceShows
  <1> SUFFICES ASSUME NEW w \in log
               PROVE  LET cited == EvidenceIndex(config, w.at)
                      IN  /\ phase = "closed" => cited < Len(exports)
                          /\ \A index \in 0 .. Len(exports) - 1 :
                                w \in exports[index + 1] <=> index >= cited
    BY DEF EvidenceShows
  <1> DEFINE cited == EvidenceIndex(config, w.at)
  <1>1. config \in Configs /\ Len(exports) \in Nat /\ w.epoch \in Nat /\ w.at = DispatchAt(config, w.epoch)
    <2>1. w.epoch \in 0 .. Len(decided) - 1
      BY DEF RecordInv, AccountInv, LoopInv, Attributed
    <2> QED BY <2>1 DEF RecordInv, AccountInv, LoopInv, Shape, IsSeq, InTime
  <1>2. cited \in Nat /\ \A index \in Nat : index >= cited <=> Shows(w.epoch, index)
    BY <1>1, EvidenceFirst
  <1> HIDE DEF cited
  <1>3. \A index \in 0 .. Len(exports) - 1 : w \in exports[index + 1] <=> index >= cited
    <2> TAKE index \in 0 .. Len(exports) - 1
    <2>1. exports[index + 1] = {v \in log : Shows(v.epoch, index)}
      BY DEF RecordInv, Recorded
    <2> QED BY <1>1, <1>2, <2>1
  <1>4. phase = "closed" => cited < Len(exports)
    <2> HAVE phase = "closed"
    <2>1. Len(exports) > 0 /\ exports[Len(exports)] = log
      BY DEF RecordInv, LastLook
    <2>2. Len(exports) - 1 \in 0 .. Len(exports) - 1 /\ (Len(exports) - 1) + 1 = Len(exports)
      BY <1>1, <2>1
    <2>3. Len(exports) - 1 >= cited
      BY <1>3, <2>1, <2>2
    <2> QED BY <1>1, <1>2, <2>3
  <1> QED BY <1>3, <1>4 DEF cited

(* RunInv holds under every timing the record can measure, its types under    *)
(* every timing: evidence_index names the first observation that shows a      *)
(* write, and a run that closes has made it.                                  *)
THEOREM EvidenceIsShown == Spec => [](TypeOK /\ (Measurable(config) => RunInv))
  <1>1. TypeInv /\ RecordInv => TypeOK /\ (Measurable(config) => RunInv)
    BY WellTyped, EvidenceCited DEF RunInv
  <1> QED BY <1>1, TypeInvariant, RecordInvariant, PTL

-------------------------------------------------------------------------------
(* The wait.  An agent that concedes keeps its clock, and the rival that won *)
(* starts its own anew: it has fallen behind for good.                       *)

Behind(a) ==
    {b \in Agents : \/ b \notin DOMAIN waiting
                    \/ waiting[a] < waiting[b]
                    \/ waiting[a] = waiting[b] /\ a < b}

Clocks ==
    /\ DOMAIN waiting \subseteq Agents
    /\ \A a \in DOMAIN waiting : waiting[a] \in Nat /\ waiting[a] < Index

(* But for its first, every round an agent has conceded in a row has put a   *)
(* rival behind it.                                                          *)
Conceding ==
    \A a \in Agents :
        /\ conceded[a] \in Nat
        /\ conceded[a] > 0 => /\ a \in DOMAIN waiting
                              /\ conceded[a] <= Cardinality(Behind(a)) + 1

WaitInv ==
    /\ LoopInv
    /\ config.mechanism \in AgeOrdered => Clocks /\ Conceding

LEMMA WaitStarts == Init => WaitInv
  <1> SUFFICES ASSUME Init PROVE WaitInv
    OBVIOUS
  <1>1. LoopInv
    BY InitHolds
  <1>2. DOMAIN waiting = {} /\ \A a \in Agents : conceded[a] = 0
    BY DEF Init
  <1> QED BY <1>1, <1>2 DEF WaitInv, Clocks, Conceding

(* A nonempty set of agents has an oldest.                                   *)
LEMMA OldestWins ==
    ASSUME NEW since, NEW epoch \in Nat, NEW S, S \subseteq Agents, S # {},
           \A a \in DOMAIN since : since[a] \in Nat
    PROVE  \E b \in Oldest(since, epoch, S) : TRUE
  <1> DEFINE age(a) == Since(since, epoch, a)
             N == {age(a) : a \in S}
  <1>1. \A a \in S : age(a) \in Nat
    BY DEF Since
  <1>2. N \subseteq Nat /\ N # {}
    BY <1>1
  <1> HIDE DEF age
  <1>3. PICK n \in N : \A m \in N : n <= m
    <2> HIDE DEF N
    <2> QED BY <1>2, LeastIndex
  <1> DEFINE T == {a \in S : age(a) = n}
  <1>4. T \subseteq Nat /\ T # {}
    BY <1>3, AgentsAssumption
  <1>5. PICK b \in T : \A a \in T : b <= a
    <2> HIDE DEF T
    <2> QED BY <1>4, LeastIndex
  <1>6. b \in S /\ age(b) = n
    BY <1>5
  <1>7. ASSUME NEW a \in S
        PROVE  age(b) < age(a) \/ (age(b) = age(a) /\ b <= a)
    <2>1. n <= age(a)
      BY <1>3
    <2>2. age(a) = n => b <= a
      BY <1>5
    <2> QED BY <1>1, <1>6, <2>1, <2>2
  <1> QED BY <1>6, <1>7 DEF Oldest, age

(* An agent that concedes has lost to an older one.                          *)
LEMMA LosesToAnElder ==
    ASSUME config.mechanism \in AgeOrdered, Clocks, Index \in Nat,
           NEW proposals \in [Agents -> Seq(Actuators)], NEW issuable,
           NEW admitted \in Admitted(config.mechanism, config.grants, proposals, waiting, Index,
                                     issuable),
           NEW a \in Agents, a \notin admitted, proposals[a] # <<>>
    PROVE  \E b \in admitted :
              /\ b \in Agents
              /\ \/ Since(waiting, Index, b) < Since(waiting, Index, a)
                 \/ Since(waiting, Index, b) = Since(waiting, Index, a) /\ b < a
  <1> DEFINE m == config.mechanism
  <1>1. m # "null" /\ m # "exact" /\ m # "backoff" /\ m # "reservation"
    BY DEF AgeOrdered
  <1>2. admitted = AdmittedByMechanism(m, config.grants, proposals, waiting, Index, <<>>)
    BY <1>1 DEF Admitted, Draws
  <1> DEFINE r == proposals[a][1]
             S == Contenders(proposals, r)
  <1>3. r \in Touched(proposals[a])
    <2>1. proposals[a] \in Seq(Actuators) /\ 1 \in 1 .. Len(proposals[a])
      OBVIOUS
    <2> QED BY <2>1 DEF Touched, ToSet
  <1>4. a \in S /\ S \subseteq Agents /\ r \in Claims(proposals)
    BY <1>3 DEF Contenders, Claims
  <1>5. Winner(m, config.grants, proposals, waiting, Index, <<>>, r) = Oldest(waiting, Index, S)
    BY <1>1 DEF Winner, Eligible
  <1>6. PICK b \in Oldest(waiting, Index, S) : TRUE
    <2> HIDE DEF S
    <2> QED BY <1>4, OldestWins DEF Clocks
  <1>7. b \in admitted
    BY <1>2, <1>4, <1>5, <1>6 DEF AdmittedByMechanism
  <1>8. /\ b \in Agents /\ b # a
        /\ \/ Since(waiting, Index, b) < Since(waiting, Index, a)
           \/ Since(waiting, Index, b) = Since(waiting, Index, a) /\ b <= a
    BY <1>4, <1>6, <1>7 DEF Oldest
  <1>9. a \in Nat /\ b \in Nat
    BY <1>8, AgentsAssumption
  <1> QED BY <1>7, <1>8, <1>9

(* What a round of the resolution leaves of the wait of an agent.            *)
LEMMA RoundWaits ==
    ASSUME LoopInv, Clocks, Conceding, config.mechanism \in AgeOrdered, Index' = Index + 1,
           NEW proposals \in [Agents -> Seq(Actuators)], NEW issuable,
           NEW admitted \in Admitted(config.mechanism, config.grants, proposals, waiting, Index,
                                     issuable),
           waiting' = Following(config.mechanism, proposals, waiting, Index, admitted),
           conceded' = [a \in Agents |->
               IF a \in DOMAIN proposals \ admitted /\ proposals[a] # <<>>
               THEN conceded[a] + 1 ELSE 0]
    PROVE  Clocks' /\ Conceding'
  <1>1. Index \in Nat
    BY DEF LoopInv, Shape, IsSeq, Index
  <1>2. \A a \in Agents : Since(waiting, Index, a) \in Nat /\ Since(waiting, Index, a) <= Index
    BY <1>1 DEF Clocks, Since
  <1>3. waiting' = [a \in Agents |-> IF a \in admitted THEN Index ELSE Since(waiting, Index, a)]
    BY DEF Following, Coordinated
  <1>4. Clocks'
    <2>1. \A a \in Agents : waiting'[a] \in Nat /\ waiting'[a] < Index + 1
      BY <1>1, <1>2, <1>3
    <2> QED BY <1>3, <2>1 DEF Clocks
  <1>5. \A a \in DOMAIN waiting : a \in Agents /\ waiting[a] \in Nat /\ waiting[a] < Index
    BY DEF Clocks
  <1>6. ASSUME NEW a \in Agents
        PROVE  /\ conceded'[a] \in Nat
               /\ conceded'[a] > 0 => /\ a \in DOMAIN waiting'
                                      /\ conceded'[a] <= Cardinality(Behind(a)') + 1
    <2>1. conceded[a] \in Nat
      BY DEF Conceding
    <2>2. IsFiniteSet(Behind(a)') /\ IsFiniteSet(Behind(a))
      <3>1. Behind(a)' \subseteq Agents /\ Behind(a) \subseteq Agents
        BY DEF Behind
      <3> QED BY <3>1, AgentsAssumption, FS_Subset
    <2>3. Cardinality(Behind(a)') \in Nat /\ Cardinality(Behind(a)) \in Nat
      BY <2>2, FS_CardinalityType
    <2>4. CASE a \in admitted \/ proposals[a] = <<>>
      BY <2>4
    <2>5. CASE a \notin admitted /\ proposals[a] # <<>>
      <3>1. conceded'[a] = conceded[a] + 1 /\ a \in DOMAIN waiting'
        BY <1>3, <2>5
      <3>2. CASE conceded[a] = 0
        BY <2>1, <2>3, <3>1, <3>2
      <3>3. CASE conceded[a] > 0
        <4>1. /\ a \in DOMAIN waiting
              /\ waiting[a] \in Nat /\ waiting[a] < Index
              /\ conceded[a] <= Cardinality(Behind(a)) + 1
          BY <1>5, <3>3 DEF Conceding
        <4>2. waiting'[a] = waiting[a] /\ Since(waiting, Index, a) = waiting[a]
          BY <1>3, <2>5, <4>1 DEF Since
        <4>3. ASSUME NEW b \in Behind(a)
              PROVE  b \in Behind(a)'
          <5>1. b \in Agents /\ b \in DOMAIN waiting'
            BY <1>3 DEF Behind
          <5>2. waiting'[b] = Index \/ (b \in DOMAIN waiting /\ waiting'[b] = waiting[b])
            BY <1>3, <5>1 DEF Since
          <5>3. waiting[a] < waiting'[b] \/ (waiting[a] = waiting'[b] /\ a < b)
            BY <4>1, <5>2 DEF Behind
          <5> QED BY <4>2, <5>1, <5>3 DEF Behind
        <4>4. PICK b \in admitted :
                 /\ b \in Agents
                 /\ \/ Since(waiting, Index, b) < waiting[a]
                    \/ Since(waiting, Index, b) = waiting[a] /\ b < a
          <5>1. \E b \in admitted :
                   /\ b \in Agents
                   /\ \/ Since(waiting, Index, b) < Since(waiting, Index, a)
                      \/ Since(waiting, Index, b) = Since(waiting, Index, a) /\ b < a
            BY <1>1, <2>5, LosesToAnElder
          <5> QED BY <4>2, <5>1
        <4>5. b \in Behind(a)'
          <5>1. waiting'[b] = Index
            BY <1>3, <4>4
          <5> QED BY <4>1, <4>2, <4>4, <5>1 DEF Behind
        <4>6. b \notin Behind(a)
          <5>1. b \in DOMAIN waiting /\ Since(waiting, Index, b) = waiting[b]
            BY <1>1, <4>1, <4>4 DEF Since
          <5>2. a \in Nat /\ b \in Nat /\ waiting[b] \in Nat
            BY <1>5, <4>4, <5>1, AgentsAssumption
          <5> QED BY <4>1, <4>4, <5>1, <5>2 DEF Behind
        <4>7. Cardinality(Behind(a)) + 1 <= Cardinality(Behind(a)')
          <5> DEFINE S == Behind(a)
                     T == Behind(a)'
          <5>1. IsFiniteSet(S) /\ IsFiniteSet(T) /\ b \notin S /\ S \cup {b} \subseteq T
            BY <2>2, <4>3, <4>5, <4>6
          <5> HIDE DEF S, T
          <5>2. Cardinality(S \cup {b}) = Cardinality(S) + 1
            BY <5>1, FS_AddElement
          <5>3. Cardinality(S \cup {b}) <= Cardinality(T)
            BY <5>1, FS_Subset
          <5>4. Cardinality(S) + 1 <= Cardinality(T)
            BY <5>2, <5>3
          <5> QED BY <5>4 DEF S, T
        <4> QED BY <2>1, <2>3, <3>1, <4>1, <4>7
      <3> QED BY <2>1, <3>2, <3>3
    <2> QED BY <2>4, <2>5
  <1> QED BY <1>4, <1>6 DEF Conceding

(* A round without proposals forgets every wait.                             *)
LEMMA IdleRoundWaits ==
    ASSUME LoopInv, config.mechanism \in AgeOrdered, NEW admitted,
           waiting' = Following(config.mechanism, <<>>, waiting, Index, admitted),
           conceded' = [a \in Agents |->
               IF a \in DOMAIN <<>> \ admitted /\ <<>>[a] # <<>> THEN conceded[a] + 1 ELSE 0]
    PROVE  Clocks' /\ Conceding'
  <1>1. DOMAIN <<>> = {}
    OBVIOUS
  <1>2. \A a \in Agents : conceded'[a] = 0
    BY <1>1
  <1>3. DOMAIN waiting' = {}
    BY <1>1 DEF Following
  <1> QED BY <1>2, <1>3 DEF Clocks, Conceding

LEMMA DecideWaits ==
    ASSUME LoopInv, Clocks, Conceding, config.mechanism \in AgeOrdered,
           Index' = Index + 1, NEW fault, NEW wants \in config.wants, Decide(fault, wants)
    PROVE  Clocks' /\ Conceding'
  <1>1. PICK telemetry, diagnosis, planning, resolution :
          Settle(resolution, Proposals(planning, Grounded(telemetry, diagnosis), wants),
                 Issuable(telemetry))
    BY DEF Decide
  <1> DEFINE proposals == Proposals(planning, Grounded(telemetry, diagnosis), wants)
             issuable == Issuable(telemetry)
  <1>2. Settle(resolution, proposals, issuable)
    BY <1>1
  <1>3. proposals = <<>> \/ proposals \in [Agents -> Seq(Actuators)]
    <2>1. wants \in [Agents -> Seq(Actuators)]
      BY ConfigsAssumption DEF LoopInv, Shape
    <2>2. [a \in Agents |-> <<>>] \in [Agents -> Seq(Actuators)]
      OBVIOUS
    <2> QED BY <2>1, <2>2 DEF Proposals
  <1> HIDE DEF proposals, issuable
  <1>4. CASE resolution.ok
    <2>1. PICK admitted \in Admitted(config.mechanism, config.grants, proposals, waiting, Index,
                                     issuable) :
             /\ waiting' = Following(config.mechanism, proposals, waiting, Index, admitted)
             /\ conceded' = [a \in Agents |->
                   IF a \in DOMAIN proposals \ admitted /\ proposals[a] # <<>>
                   THEN conceded[a] + 1 ELSE 0]
      BY <1>2, <1>4 DEF Settle
    <2>2. CASE proposals = <<>>
      BY <2>1, <2>2, IdleRoundWaits
    <2>3. CASE proposals \in [Agents -> Seq(Actuators)]
      BY <2>1, <2>3, RoundWaits
    <2> QED BY <1>3, <2>2, <2>3
  <1>5. CASE ~resolution.ok
    <2>1. waiting' = waiting /\ conceded' = conceded
      BY <1>2, <1>5 DEF Settle
    <2>2. Index \in Nat
      BY DEF LoopInv, Shape, IsSeq, Index
    <2>3. \A a \in Agents : Behind(a)' = Behind(a)
      BY <2>1 DEF Behind
    <2> QED BY <2>1, <2>2, <2>3 DEF Clocks, Conceding
  <1> QED BY <1>4, <1>5

LEMMA WaitKeeps == WaitInv /\ [Next]_vars => WaitInv'
  <1> SUFFICES ASSUME WaitInv, [Next]_vars PROVE WaitInv'
    OBVIOUS
  <1>1. LoopInv /\ LoopInv'
    BY EpochKeeps, DispatchKeeps, LoseActionKeeps, CrashKeeps, CloseKeeps, StutterKeeps
    DEF WaitInv, Next
  <1>2. SUFFICES ASSUME config'.mechanism \in AgeOrdered
                 PROVE  Clocks' /\ Conceding'
    BY <1>1 DEF WaitInv
  <1>3. CASE UNCHANGED <<config, waiting, conceded, decided>>
    <2>1. \A a \in Agents : Behind(a)' = Behind(a)
      BY <1>3 DEF Behind
    <2> QED BY <1>2, <1>3, <2>1 DEF WaitInv, Clocks, Conceding, Index
  <1>4. CASE Epoch
    <2>1. CASE Refused(DecisionAt(config, Index))
      BY <1>3, <2>1 DEF Refused, record, coordination
    <2>2. CASE /\ \E fault \in Faults, wants \in config.wants : Decide(fault, wants)
               /\ config' = config
      <3>1. PICK fault \in Faults, wants \in config.wants : Decide(fault, wants)
        BY <2>2
      <3>2. PICK d : decided' = Append(decided, d)
        BY <1>1, <3>1, DecideSound
      <3>3. Index' = Index + 1
        BY <1>1, <3>2, AppendToSeq DEF LoopInv, Shape, Index
      <3>4. Clocks /\ Conceding /\ config.mechanism \in AgeOrdered
        BY <1>2, <2>2 DEF WaitInv
      <3> QED BY <1>1, <3>1, <3>3, <3>4, DecideWaits
    <2> QED BY <1>4, <2>1, <2>2 DEF Epoch
  <1>5. CASE Dispatch
    BY <1>3, <1>5 DEF Dispatch, Act, Refused, record, coordination
  <1>6. CASE LoseAction
    BY <1>3, <1>6 DEF LoseAction, Act
  <1>7. CASE Crash
    BY <1>3, <1>7 DEF Crash, record, coordination
  <1>8. CASE Close
    BY <1>3, <1>8 DEF Close, Refused, record, coordination
  <1>9. CASE UNCHANGED vars
    BY <1>3, <1>9 DEF vars, record, coordination
  <1> QED BY <1>4, <1>5, <1>6, <1>7, <1>8, <1>9 DEF Next

(* Under expiring marks and yield aging (eco.py) an agent concedes at most    *)
(* as many rounds in a row as there are agents, however many epochs there     *)
(* are: every rival that wins against it is behind it from then on, but for   *)
(* the round in which its wait begins.                                        *)
THEOREM WaitIsBounded == Spec => []BoundedWait
  <1>1. ASSUME WaitInv PROVE BoundedWait
    <2> SUFFICES ASSUME config.mechanism \in AgeOrdered, NEW a \in Agents
                 PROVE  conceded[a] <= Cardinality(Agents)
      BY DEF BoundedWait
    <2>1. /\ conceded[a] \in Nat
          /\ conceded[a] > 0 => a \in DOMAIN waiting /\ conceded[a] <= Cardinality(Behind(a)) + 1
      BY <1>1 DEF WaitInv, Conceding
    <2>2. IsFiniteSet(Agents) /\ a \in Nat
      BY AgentsAssumption
    <2>3. Cardinality(Agents) \in Nat
      BY <2>2, FS_CardinalityType
    <2>4. CASE conceded[a] > 0
      <3>1. waiting[a] \in Nat
        BY <1>1, <2>1, <2>4 DEF WaitInv, Clocks
      <3>2. Behind(a) \subseteq Agents \ {a}
        BY <2>1, <2>2, <2>4, <3>1 DEF Behind
      <3>3. IsFiniteSet(Agents \ {a}) /\ Cardinality(Agents \ {a}) = Cardinality(Agents) - 1
        BY <2>2, FS_RemoveElement
      <3>4. /\ Cardinality(Behind(a)) <= Cardinality(Agents \ {a})
            /\ Cardinality(Behind(a)) \in Nat
        BY <3>2, <3>3, FS_Subset, FS_CardinalityType
      <3> QED BY <2>1, <2>3, <2>4, <3>3, <3>4
    <2> QED BY <2>1, <2>3, <2>4
  <1> QED BY <1>1, WaitStarts, WaitKeeps, PTL DEF Spec
=============================================================================
