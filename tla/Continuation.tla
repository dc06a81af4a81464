---------------------------- MODULE Continuation ----------------------------
(***************************************************************************)
(* What a recorded run is worth: the properties of RunLoop, and the        *)
(* regeneration of its prefix (Continuation of ecora/runner.py), which     *)
(* rebuilds the world up to a branch point from the record alone.          *)
(***************************************************************************)
EXTENDS RunLoop

(* dispatched_at and applied_commands, from the action stage's datasets.      *)
Dispatched(epoch) == epoch \in DOMAIN receipts
Applied(epoch) == IF Dispatched(epoch) THEN receipts[epoch].applied ELSE {}

(* A decision of the prefix that has not landed by the branch point: the      *)
(* branch is refused.                                                         *)
InFlight(branch) ==
    \E epoch \in 0 .. branch - 1 :
        /\ decided[epoch + 1].commands # {}
        /\ ~(Dispatched(epoch) /\ Due(receipts[epoch].at, DecisionAt(config, branch)))

Timeline(branch) == {epoch \in 0 .. branch - 1 : Applied(epoch) # {}}

(* The head of the timeline is taken while it passes the test.                *)
Taken(rest, Lands(_)) == {e \in rest : \A d \in rest : d <= e => Lands(d)}

BeforeEager(rest, index) ==
    Taken(rest, LAMBDA e : Due(receipts[e].at, DecisionAt(config, index)))

(* The commands that land before the observation at an index ...              *)
Before(rest, index) ==
    Taken(rest, LAMBDA e : e < index /\ Due(receipts[e].at, DecisionAt(config, index)))

(* ... and the barrier's own, after it.                                       *)
After(rest, index) ==
    Taken(rest, LAMBDA e : e = index /\ receipts[e].at <= DecisionAt(config, index))

(* The epochs reapplied when the observation at each index is made again.     *)
Reapplied(branch) ==
    LET r[index \in 0 .. branch] ==
          LET done == IF index = 0 THEN {}
                      ELSE LET before == r[index - 1]
                           IN  before \cup After(Timeline(branch) \ before, index - 1)
          IN  done \cup Before(Timeline(branch) \ done, index)
    IN  r

Rebuilt(epochs) == UNION {Written(e, receipts[e].at, Applied(e)) : e \in epochs}

(* Every command must apply again, to the version it names.                   *)
AppliesAgain(epochs) ==
    \A e \in epochs : \A c \in Applied(e) :
        c.version = Version(Rebuilt({d \in epochs : d < e}), c.actuator)

Regenerated(branch) ==
    LET reapplied == Reapplied(branch)
    IN  /\ AppliesAgain(reapplied[branch])
        /\ \A index \in 0 .. branch : Rebuilt(reapplied[index]) = exports[index + 1]

-------------------------------------------------------------------------------
TypeOK ==
    /\ config \in Configs
    /\ phase \in {"run", "closed", "refused", "crashed"}
    /\ link \in {"up", "down"}
    /\ now \in Nat
    /\ log \subseteq [epoch : 0 .. Epochs - 1, agent : Agents, actuator : Actuators,
                      version : Nat, at : Nat]
    /\ Index <= Epochs
    /\ ToSet(pending) \subseteq 0 .. Index - 1
    /\ DOMAIN receipts \subseteq 0 .. Index - 1
    /\ conceded \in [Agents -> 0 .. Epochs]
    /\ faults \in 0 .. MaxFaults

(* Every write shows from the observation its receipt cites on, in none         *)
(* before, and the run makes that observation before it closes.                 *)
EvidenceShows ==
    \A w \in log :
        LET cited == EvidenceIndex(config, w.at)
        IN  /\ phase = "closed" => cited < Len(exports)
            /\ \A index \in 0 .. Len(exports) - 1 :
                  w \in exports[index + 1] <=> index >= cited

(* The state is well typed, and runner.py's exports tell of the writes on time. *)
RunInv == TypeOK /\ EvidenceShows

(* A write lands within its command's validity on an actuator that nobody else  *)
(* has written since the observation it was decided from.                       *)
NoStaleWrite ==
    \A w \in log :
        /\ DecisionAt(config, w.epoch) <= w.at
        /\ w.at < DecisionAt(config, w.epoch) + config.validity
        /\ \A v \in WritesTo(log, w.actuator) :
              v # w => v.version # w.version
                         /\ (v.version < w.version => v \in exports[w.epoch + 1])

(* A branch point whose prefix has landed regenerates: every command applies    *)
(* again, and the rebuilt world shows what was recorded, there included.        *)
Regenerates ==
    phase # "refused" =>
        \A branch \in 0 .. Len(exports) - 1 : InFlight(branch) \/ Regenerated(branch)

(* Every command of a closed run has exactly one fate, and the world changed by *)
(* the applied ones alone; only a simulator that died may know of more.         *)
Accounted ==
    /\ link = "up" => log = Rebuilt(DOMAIN receipts)
    /\ \A epoch \in DOMAIN receipts :
          receipts[epoch].applied \cup receipts[epoch].refused
              \in {{}, decided[epoch + 1].commands}
    /\ phase = "closed" =>
          \A epoch \in 0 .. Epochs - 1 :
              decided[epoch + 1].commands # {} =>
                  (Dispatched(epoch) <=> epoch \notin undispatched)

(* What truth has influenced carries its label, through states, failures and    *)
(* assemblies, and reaches the world only where the treatment allows it.        *)
PrivilegeSticks ==
    /\ \A part \in ToSet(decided) \cup {receipts[e] : e \in DOMAIN receipts}
                     \cup {snapshots[s] : s \in Stages} \cup {report} :
          part.influence \subseteq part.label
    /\ ~config.allow => \A w \in log : decided[w.epoch + 1].influence = {}

(* Under a mechanism that goes by age nobody loses for ever: an agent concedes  *)
(* at most as many rounds in a row as there are agents.  A rival that won in    *)
(* the round in which both began to wait may win once more, any other once.     *)
BoundedWait ==
    config.mechanism \in AgeOrdered =>
        \A a \in Agents : conceded[a] <= Cardinality(Agents)

(* The loop dispatches and observes to the end, unless the simulator dies.      *)
Completes == <>(phase \in {"closed", "crashed"})

(* runner.py:102-104, a latency equal to the period lands on the epoch grid:    *)
(* the world is never asked to go back.                                         *)
ClockForward == phase # "refused"
=============================================================================
