------------------------------- MODULE RunLoop -------------------------------
(***************************************************************************)
(* Run of ecora/runner.py: the decision loop over the audited boundary and *)
(* one world, with its schedule, its coordination state and its closing.   *)
(*                                                                         *)
(* The loop is one thread.  An action is one call of _epoch, of _dispatch  *)
(* or the end of execute; the failures that can come between are those of  *)
(* a provider, which the boundary swallows, and of the simulator process,  *)
(* which it swallows only while the action stage is calling it.            *)
(*                                                                         *)
(* The world is the writes it has accepted and when: what an observation   *)
(* shows of it depends on nothing else the loop does.                      *)
(***************************************************************************)
EXTENDS Schedule, Boundary, Resolution

CONSTANTS
    Actuators,
    Configs,         \* the studies considered, see MCRunLoop
    Epochs,
    MaxFaults        \* provider failures and lost simulators in a run

Deciding == {"telemetry", "diagnosis", "planning", "resolution"}
Stages == Deciding \cup {"action"}      \* those with a state that is carried on
NoFault == [stage |-> "none", outcome |-> "ok"]
Faults == {NoFault} \cup [stage : Deciding, outcome : Outcomes \ {"ok"}]

(* The Oracles of truth.py, of which none is bound to the action stage.            *)
ASSUME AgentsAssumption == Agents \subseteq Nat \ {0} /\ IsFiniteSet(Agents)
ASSUME ConfigsAssumption ==
    \A c \in Configs :
        /\ c.authority \subseteq Actuators
        /\ \A wants \in c.wants : wants \in [Agents -> Seq(Actuators)]
        /\ c.truth \in {"none", "telemetry", "diagnosis", "result", "assurance"}

(* Schedule requires a period and a latency that is not negative; a product  *)
(* of floats errs by less than a period.                                     *)
ASSUME TimingAssumption ==
    \A c \in Configs :
        /\ c.period \in Nat \ {0} /\ c.latency \in Nat
        /\ c.slip.index \in Nat /\ c.slip.by \in -c.period .. c.period
ASSUME BoundsAssumption == Epochs \in Nat /\ MaxFaults \in Nat

VARIABLES
    config,
    phase,           \* "run", "closed", "refused" by the world's clock, "crashed"
    now,             \* the world's clock
    log,             \* the writes the world accepted
    link,            \* whether the simulator process still answers
    exports,         \* per observation, the writes it shows
    decided,         \* per epoch, the dataset of its resolution
    pending,         \* the epochs whose resolution awaits dispatch, in order
    receipts,        \* per dispatched epoch, the dataset of its action stage
    undispatched,
    snapshots,       \* per stage, the label and the influence of its state
    waiting,         \* waiting_since, in the state of the resolution stage
    conceded,        \* rounds in a row in which an agent lost its contention
    report,          \* the dataset of the assurance stage
    faults

world == <<now, log, link>>
coordination == <<snapshots, waiting, conceded>>
record == <<exports, decided, receipts, undispatched, report>>
vars == <<config, phase, world, record, pending, coordination, faults>>

Index == Len(decided)
Running == phase = "run" /\ link = "up"

(* What truth a stage reads itself, when the treatment binds its Oracle.      *)
Reads(stage, epoch) == IF config.truth = stage THEN {epoch} ELSE {}

(* A stage's binding under the treatment: an Oracle may always take privileged *)
(* input, another stage as the treatment says.                                *)
Binding(stage, epoch) ==
    [allow |-> config.allow \/ config.truth = stage, reads |-> Reads(stage, epoch)]

-------------------------------------------------------------------------------
(* The world's actuators: compare-and-swap on the number of their writes.       *)
WritesTo(writes, actuator) == {w \in writes : w.actuator = actuator}
Version(writes, actuator) == Cardinality(WritesTo(writes, actuator))

AcceptedBlind(writes, commands) ==
    {c \in commands : \A d \in commands : d.actuator = c.actuator => c.agent <= d.agent}

(* The commands of one dispatch are applied in the order of their agents.       *)
Accepted(writes, commands) ==
    {c \in commands : /\ c.version = Version(writes, c.actuator)
                      /\ \A d \in commands : d.actuator = c.actuator /\ d.version = c.version
                                               => c.agent <= d.agent}

Written(epoch, at, commands) ==
    {[epoch |-> epoch, agent |-> c.agent, actuator |-> c.actuator,
      version |-> c.version, at |-> at] : c \in commands}

(* What observation_batch exports of the world now.                            *)
Observation == log

-------------------------------------------------------------------------------
Init ==
    /\ config \in Configs
    /\ phase = "run"
    /\ now = 0
    /\ log = {}
    /\ link = "up"
    /\ exports = <<>>
    /\ decided = <<>>
    /\ pending = <<>>
    /\ receipts = <<>>
    /\ undispatched = {}
    /\ report = Assembled({})
    /\ snapshots = [s \in Stages |-> Fresh]
    /\ waiting = <<>>
    /\ conceded = [a \in Agents |-> 0]
    /\ faults = 0

(* advance_to refuses to go back, and nothing catches that.                     *)
Refused(t) ==
    /\ t < now
    /\ phase' = "refused"
    /\ UNCHANGED <<config, world, record, pending, coordination, faults>>

Reach(t) == t >= now /\ now' = t

(* A pending resolution goes first: at the barrier at once, else when it is due  *)
(* at the coming observation.                                                    *)
DispatchNext ==
    /\ pending # <<>>
    /\ \/ Barrier(config)
       \/ Due(DispatchAt(config, Head(pending)), DecisionAt(config, Index))

-------------------------------------------------------------------------------
(* One epoch: observe, then telemetry, diagnosis, planning and resolution.        *)
Outcome(fault, stage) == IF fault.stage = stage THEN fault.outcome ELSE "ok"

Invoked(stage, inputs, fault) ==
    Invocation(Binding(stage, Index), snapshots[stage], inputs, Outcome(fault, stage))

(* _projection: without a conclusion no precondition is known and nobody plans   *)
(* a step; _versions: without telemetry no version, and then no command.         *)
Grounded(telemetry, diagnosis) ==
    diagnosis.ok /\ (telemetry.ok \/ config.truth = "diagnosis")

Proposals(planning, grounded, wants) ==
    IF ~planning.ok THEN <<>> ELSE IF grounded THEN wants ELSE [a \in Agents |-> <<>>]

Issuable(telemetry) == IF telemetry.ok THEN config.authority ELSE {}

Commands(proposals, admitted, issuable) ==
    {[agent |-> a, actuator |-> Head(proposals[a]), version |-> Version(log, Head(proposals[a]))] :
        a \in {b \in admitted : CanCommand(proposals[b], issuable)}}

Decision(resolution, commands) ==
    [ok |-> resolution.ok, label |-> resolution.label, influence |-> resolution.influence,
     commands |-> commands]

(* What the resolution stage leaves when its provider answers, and when not.      *)
Settle(resolution, proposals, issuable) ==
    IF resolution.ok
    THEN \E admitted \in Admitted(config.mechanism, config.grants, proposals, waiting, Index,
                                  issuable) :
            /\ decided' = Append(decided,
                             Decision(resolution, Commands(proposals, admitted, issuable)))
            /\ waiting' = Following(config.mechanism, proposals, waiting, Index, admitted)
            /\ conceded' = [a \in Agents |->
                   IF a \in DOMAIN proposals \ admitted /\ proposals[a] # <<>>
                   THEN conceded[a] + 1 ELSE 0]
    ELSE /\ decided' = Append(decided, Decision(resolution, {}))
         /\ UNCHANGED <<waiting, conceded>>

(* The datasets of the stages and the problem assembled for planning, in turn.    *)
Decide(fault, wants) ==
    \E telemetry \in {Invoked("telemetry", {Assembled({})}, fault)} :
    \E diagnosis \in {Invoked("diagnosis", {telemetry}, fault)} :
    \E planning \in {Invoked("planning", {Assembled({telemetry, diagnosis})}, fault)} :
    \E resolution \in {Invoked("resolution", {planning}, fault)} :
        /\ snapshots' = [snapshots EXCEPT !["telemetry"] = telemetry.next,
                                          !["diagnosis"] = diagnosis.next,
                                          !["planning"] = planning.next,
                                          !["resolution"] = resolution.next]
        /\ Settle(resolution, Proposals(planning, Grounded(telemetry, diagnosis), wants),
                  Issuable(telemetry))

Epoch ==
    /\ Running
    /\ Index < Epochs
    /\ ~DispatchNext
    /\ LET at == DecisionAt(config, Index) IN
       \/ Refused(at)
       \/ /\ Reach(at)
          /\ exports' = Append(exports, Observation)
          /\ pending' = Append(pending, Index)
          /\ \E fault \in Faults :
                /\ faults + Cardinality({fault} \ {NoFault}) <= MaxFaults
                /\ faults' = faults + Cardinality({fault} \ {NoFault})
                /\ \E wants \in config.wants : Decide(fault, wants)
          /\ UNCHANGED <<config, phase, log, link, receipts, undispatched, report>>

-------------------------------------------------------------------------------
(* _dispatch: the action stage at the dispatch instant.  A command that comes     *)
(* too early or has expired stops the whole invocation at the boundary.           *)
Timely(epoch, at) ==
    \/ decided[epoch + 1].commands = {}
    \/ /\ DecisionAt(config, epoch) <= at
       /\ at < DecisionAt(config, epoch) + config.validity

Acted(epoch, outcome) ==
    Invocation(Binding("action", epoch), snapshots["action"], {decided[epoch + 1]}, outcome)

Inspected(epoch, at) == IF Timely(epoch, at) THEN "ok" ELSE "raised"

(* The commands that reach the provider.                                          *)
Delivered(epoch, at) ==
    IF Acted(epoch, Inspected(epoch, at)).ok THEN decided[epoch + 1].commands ELSE {}

(* The null provider suppresses every mutation.                                   *)
Effective(commands) == IF config.suppress THEN {} ELSE Accepted(log, commands)

Received(epoch, receipt) ==
    [e \in DOMAIN receipts \cup {epoch} |-> IF e = epoch THEN receipt ELSE receipts[e]]

ActClaiming(epoch, at, outcome, applied, commands) ==
    /\ Reach(at)
    /\ pending' = Tail(pending)
    /\ \E action \in {Acted(epoch, outcome)} :
          /\ receipts' = Received(epoch,
                [label |-> action.label, influence |-> action.influence, at |-> at,
                 applied |-> commands, refused |-> {}])
          /\ snapshots' = [snapshots EXCEPT !["action"] = action.next]
    /\ UNCHANGED <<config, phase, exports, decided, undispatched, report, waiting, conceded>>

Act(epoch, at, outcome, applied, commands) ==
    /\ Reach(at)
    /\ pending' = Tail(pending)
    /\ \E action \in {Acted(epoch, outcome)} :
          /\ receipts' = Received(epoch,
                [label |-> action.label, influence |-> action.influence, at |-> at,
                 applied |-> applied, refused |-> commands \ applied])
          /\ snapshots' = [snapshots EXCEPT !["action"] = action.next]
    /\ UNCHANGED <<config, phase, exports, decided, undispatched, report, waiting, conceded>>

Dispatch ==
    /\ Running
    /\ DispatchNext
    /\ LET epoch == Head(pending)
           at == DispatchAt(config, epoch)
           commands == Delivered(epoch, at)
           applied == Effective(commands)
       IN  \/ Refused(at)
           \/ /\ Act(epoch, at, Inspected(epoch, at), applied, commands)
              /\ log' = log \cup Written(epoch, at, applied)
              /\ UNCHANGED <<link, faults>>

(* The simulator dies while the action stage is applying commands: those of the   *)
(* first agents may have taken effect, and the boundary records a failure.        *)
LoseAction ==
    /\ Running
    /\ DispatchNext
    /\ config.simulated /\ ~config.suppress
    /\ faults < MaxFaults
    /\ LET epoch == Head(pending)
           at == DispatchAt(config, epoch)
           commands == Delivered(epoch, at)
       IN  /\ commands # {}
           /\ Act(epoch, at, "raised", {}, {})
           /\ \E last \in Agents \cup {0} :
                log' = log \cup Written(epoch, at,
                          Accepted(log, {c \in commands : c.agent <= last}))
    /\ link' = "down"
    /\ faults' = faults + 1

(* Any other request of a simulator that has died ends the run.                   *)
Crash ==
    /\ phase = "run"
    /\ config.simulated
    /\ link = "down" \/ faults < MaxFaults
    /\ phase' = "crashed"
    /\ link' = "down"
    /\ UNCHANGED <<config, now, log, record, pending, coordination, faults>>

(* The end of execute: what is still pending is not dispatched, the world is       *)
(* observed once more, and the last action is measured and assessed.               *)
LastAction ==
    {receipts[e] : e \in {e \in DOMAIN receipts : \A d \in DOMAIN receipts : d <= e}}

Measured == Invocation(Binding("result", Epochs), Fresh, {Assembled(LastAction)}, "ok")
Assessed == Invocation(Binding("assurance", Epochs), Fresh, {Measured}, "ok")

Close ==
    /\ Running
    /\ Index = Epochs
    /\ ~DispatchNext
    /\ LET at == DecisionAt(config, Epochs) IN
       \/ Refused(at)
       \/ /\ Reach(at)
          /\ undispatched' = {i \in ToSet(pending) : decided[i + 1].commands # {}}
          /\ exports' = Append(exports, Observation)
          /\ report' = Assessed
          /\ phase' = "closed"
          /\ UNCHANGED <<config, log, link, decided, receipts, pending, coordination, faults>>

Next == Epoch \/ Dispatch \/ LoseAction \/ Crash \/ Close

Spec == Init /\ [][Next]_vars

(* The loop is one thread that never waits: it goes on while it can.               *)
FairSpec == Spec /\ WF_vars(Next)
=============================================================================
