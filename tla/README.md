# A verification model of ai4winets

TLA+ models of the programs in `software/`, model-checked with TLC on small
instances and, for the parts that are proved for every instance, with TLAPS.
Every definition is translated from the source; `PROJECT.json` gives for each
one the lines it stands for, for each property the run that checks it and a
fault in the code's place that breaks it, and for each hazard of the code the
properties that guard against it.

## 1. The system

The repository holds three programs and a simulator.

| Component | Source | State it keeps | Operations | Hard behaviour |
|---|---|---|---|---|
| Distributed DFS | `dcop_channel_assignment/agents.py`, `protocol.py` | per agent: phase, ancestor path, neighbours left, pending neighbour, children, separators, sequence, keys received; the transport's queue | `start`, `receive` (EXPLORE, RETURN, SEEN), `drain`, `_prepare`, `validate_pseudotree` | messages of different agents interleave through one queue; correctness of a local decision depends on the global search |
| DPOP solve | `agents.py`, `tables.py`, `dcop.py`, `evaluation.py` | child tables, projection, value, budget | `start_util`, `_receive_util`, `_compute_util_if_ready`, `start_value`, `_receive_value`, `_choose`, `_run_util`, `solve` | tables arrive in any order, a budget that ends the run half-way, ties and forbidden costs |
| Mobile epochs, wireless instances | `mobility.py`, `wireless.py`, `translation.py`, `inputs.py`, `curitiba.py`, `geography.py` | none between epochs except the last assignment | build an instance, solve, carry on | penalties for switching; numeric conversions |
| Solver comparison | `dcop_comparison/` | child processes, a ledger on disk | design, run limited workers, collect | process timeouts and memory limits, partial results |
| Artifact store | `ecora/store.py` | objects and a hash-chained journal on disk, a writer lock, an index of the journal in memory | `__init__`, `close`, `put`, `get`, `append`, `verify`, `deliver` | crashes at every write, torn lines, a failed fsync, at-most-once callbacks |
| Invocation boundary | `ecora/boundary.py`, `registry.py` | none of its own: everything through the store | `ingest`, `assemble`, `replay`, `invoke` | persist before invoking, a provider that raises or times out, privilege that must not be shed |
| Reference world | `ecora/model.py` | an event heap, queues per link, path and pacing versions, message statuses | `advance_to`, `apply`, `probe_evidence`, `cohorts` | simultaneous events, drops on overflow, stale versions, conservation of messages |
| Run loop | `ecora/runner.py`, `scenario.py` | epoch, pending commands, evidence | `_epoch`, `_dispatch`, `execute`, `Continuation` | decision latency, commands that expire or race, replay of a recorded prefix |
| Rule diagnosis | `ecora/experts.py` | beliefs, fired rules, an agenda | `consider`, `infer`, the two engines | contradictions of equal authority |
| Conflict resolution | `ecora/eco.py` | marks with an expiry, waiting clocks | `invoke`, `_settle` | starvation, commands on one resource |
| Planning | `ecora/planning.py`, `symbolic.py`, `exact.py` | open list, best costs | `uniform_cost`, `astar`, `gps`, `PlannerProvider`, `ExactPlannerProvider` | budgets, ties, admissibility |
| Other providers | `ecora/nulls.py`, `telemetry.py`, `assessment.py`, `metrics.py`, `truth.py` | none | one `invoke` each | numeric edges |
| Simulator | `simulator/src`, `ecora/simulator.py` | the ns-3 world, a pipe to it | `request`, `close`, `Ns3World` | a child process that dies or answers late |
| Contracts and reports | `ecora/contracts.py`, `schema.py`, `report.py`, `fixtures.py`, `study.py`, `calibration.py`, `bottleneck.py`, `sufficiency.py`, `ns3build.py` | none | validation and formatting | none that a model would reach |

The agents of a DCOP run talk only through `QueueTransport`; a harness in the
same thread starts the phases and reads the outcome.  In ecora a run loop
advances a world (the reference model or ns-3 behind a pipe), hands its
observations to the boundary, which records them in the store, invokes one
provider per stage and records what comes out; commands go back to the world.

What makes each part correct:

* DFS: the local states form one depth-first tree of the whole graph, with the
  right separators; every run ends in the verdict its graph deserves.
* DPOP: tables are exact, choices extend to an optimum, and the run's outcome
  is that of exhaustive enumeration or an honest refusal.
* Store: the memory of a process is a replay of the journal on disk, whatever
  crashes; no callback and no command is repeated.
* Boundary: nothing is invoked before its inputs are durable; whatever read
  privileged data, even through a failure, says so.
* World: no message is lost or counted twice, no evidence outlives what it is
  evidence of, and what a cohort or a verdict reports does not change later.
* Run loop: every command has one fate, none takes effect late or on a state it
  was not decided on, a recorded prefix rebuilds the world it was recorded in.
* Comparison: only what the worker of this attempt completed is scored, and no
  process of it survives the attempt.

## 2. Plan

1. The DPOP solver, bottom up: `PseudoTree` with its abstract `DepthFirst`,
   then `DcopTables` and `Dpop` with `ExactSolver`; the traversal proved, its
   steps being those of `DepthFirst`, and that the whole solve is exact and
   implements `ExactSolver`.  *Done.*
2. `ArtifactStore` with crashes, and the abstract `SerialStore` it implements;
   its invariant and the refinement proved.  *Done.*
3. `Experts`, the two organisations of rule diagnosis; the conflict policy
   and `Agree` proved.  *Done.*
4. `RunLoop` over `Schedule`, `Boundary` and `Resolution`, with what
   `Continuation` makes of its record; `NoStaleWrite`, `PrivilegeSticks`,
   `Accounted`, `Regenerates`, `RunInv` and `BoundedWait` proved.  *Done.*
5. `ReferenceWorld`, the plant of the run loop, and `Evaluation` of its
   evidence; `WorldInv`, `OneCopy`, `EvidenceFades`, and that final cohorts and verdicts
   stay, proved.  *Done.*
6. `Planning`, the searches over `Symbolic`, and `PlannerProvider`; `Optimal`,
   `Honest` and `ProposalsEarned` proved.  *Done; `NoHeadroom`, which is about the
   catalog of `symbolic.py` and no other, stays with TLC.*
7. `LimitedRun`, a solver under limits; `NoOrphan` and `LedgerHonest` proved.
   *Done.*

What composes what: `Dpop` extends `PseudoTree`; `Evaluation` extends
`ReferenceWorld`; `PlannerProvider` extends `Planning`, which extends
`Symbolic`; `RunLoop` extends `Schedule`, `Boundary` and `Resolution`, and
`Continuation` extends `RunLoop`.  The store and the run loop are not composed:
the loop sees of the store that what it recorded can be read back, which is what
`ArtifactStore` shows.  Nor are the run loop and `ReferenceWorld`: the loop is
checked against any world that applies a command to the version it names, which
is how `ReferenceWorld` applies it.

All that TLC checks as an invariant or as an action property is proved but for
`NoHeadroom`.

## 3. Modules

| Module | Models |
|---|---|
| `PseudoTree` | the distributed DFS: `AgentSession` up to READY, `QueueTransport`, `_prepare`, `validate_pseudotree` |
| `DepthFirst` | what it promises: the pre-order DFS one processor with a stack would run |
| `PseudoTreeInv` | the inductive invariant of `PseudoTree` |
| `PseudoTreeProofs` | its proof, and the theorems that follow |
| `DcopTables` | `Cost`, `join`, `minimize`, `check_size` |
| `Dpop` | the whole `solve`: extends `PseudoTree` by UTIL and VALUE |
| `ExactSolver` | what `solve` promises its caller, by enumeration (`exact_reference`) |
| `DpopProofs` | why the tables are exact: the algebra of costs, the parts of a tree, `join` and `minimize`; then the invariant of the whole solve, its properties, and the refinement of `ExactSolver` |
| `StoreLog` | the events of the journal, `_apply` and the dictionaries it fills |
| `SerialStore` | what the store promises: one log, a callback only at its claim |
| `ArtifactStore` | store objects, processes and the disk of `store.py` |
| `ArtifactStoreProofs` | its invariant, the refinement of `SerialStore`, and that callbacks keep the order of the journal and nothing reaches a consumer without permission |
| `RuleInference` | `_Inference.consider`, the conflict policy both organisations share |
| `Experts` | the loops of the single engine, of `infer` and of the blackboard |
| `ExpertsProofs` | the conflict policy and the least fixed point, for both organisations |
| `ReferenceWorld` | the calendar, queues, gateways, probes and actuators of `model.py` |
| `ReferenceWorldProofs` | that the calendar and the queues and gates agree, that no message is lost or doubled, that what is final of cohorts and verdicts stays so, and that evidence fades with its leg |
| `Symbolic` | the catalog, operators, successors and the validator of `symbolic.py` |
| `Planning` | the searches of `planning.py`: best-first and means-ends |
| `PlannerProvider` | from a planning problem to proposals: `PlannerProvider`, `ExactPlannerProvider`, `enumerate_space` |
| `PlanningProofs` | that the best-first searches and the enumeration find what is cheapest, and that proposals claim only that |
| `Evaluation` | the observations of `model.py`, their projection, satisfaction, cohorts and verdicts (`telemetry.py`, `eco.py`, `assessment.py`) |
| `Schedule` | `Schedule` of `runner.py`: when commands land, with its rounding |
| `Boundary` | `invoke`, `_finish` and `assemble`: outcome and lineage of one invocation |
| `Resolution` | the resolvers: `eco.py`'s mechanisms, the exact and the null one |
| `RunLoop` | `Run` of `runner.py` over those three and a world |
| `Continuation` | what a run's record is worth: the regeneration of a prefix, and the properties of the loop |
| `RunLoopProofs` | the loop's inductive invariants: no write is stale, privilege stays labelled, every command is accounted for, a prefix regenerates, the record cites its evidence, waiting is bounded |
| `LimitedRun` | `supervise`, the gated worker, the ledger entry |
| `LimitedRunProofs` | its inductive invariant, and why nothing outlives it and the ledger is honest |
| `MCPseudoTree`, `MCDpop`, `MCArtifactStore`, `MCExperts`, `MCReferenceWorld`, `MCPlanning`, `MCRunLoop` | instances for TLC |

### PseudoTree

Each field of `AgentSession` is a variable over all agents (`phase`,
`ancestors`, `remaining`, `pending`, `children`, `childSep`, `separator`,
`sent`, `received`); `queue` is `QueueTransport._queue` and `stage` is where the
harness is.  `Start` is `AgentSession.start` on the root, `Deliver` one turn of
`drain` including everything `receive` does with the message (`_enter`,
`_advance` and `_send` are operators of the same step), `Prepare` the checks of
`_prepare` after the queue is empty.  A message that no branch of `receive`
accepts raises `ProtocolError`: `Reject`, which ends the run in the stage
`protocol_error`; that it is never taken is a property, not an assumption.
The names of agents are numbers, because the code only sorts and compares
them; payloads are kept in full (paths and separators), since the checks of
`receive` look into them.  Left out: the run identifier, which is the same in
all messages of a run, and the trace.

### Dpop

`Traverse` is the DFS step, after which `StartUtil` is the loop of `_run_util`
(one agent per step, in name order, before anything is delivered),
`DeliverUtil` a turn of `drain` with `_receive_util` and
`_compute_util_if_ready`, `FinishUtil` the status, `StartValue`,
`DeliverValue` and `FinishValue` the same for VALUE.  A table is a function
from the assignments of its scope to costs: the flattened index and the axis
order of `Factor` are abstracted, ties are still broken by the least value.
`max_join_entries`, which is only reported, is left out.

### ArtifactStore

A writer is a place for a store object: a process, or a second store opened in
the callback of a `deliver`.  `status` is `_closed` and `_poisoned`, `events`
is `_events`, `running` the `deliver` calls on the stack; `lock`, `objects`,
`journal` and `torn` are the directory.  The dictionaries that `_apply` fills
are written in `StoreLog` as functions of the sequence of events applied, and
the checks of `_apply` as one operator per type of event.  The hash of a line
covers the whole journal before it, so a line carries that sequence
(`previous`), and opening compares it as `_verify_event` does.  `Write` is
`append`: the event is checked in memory (`Accepts`), then the write succeeds,
fails with an `OSError` (`Failed`, which poisons the object) or dies with its
process (`Died`); in the last two the line may be absent, cut short or whole.
`Put` has the same outcomes.  `Deliver` runs up to the call of the consumer,
`Acknowledge` and `Abandon` are its return; in between any action may happen,
also of the same writer.  `RemoveLock` is the operator the README of the
program describes.

Records are identified with what they are about; those that are put and read
together are one object; the comparisons between fields that one caller fills
from one source are left out, as is the cache.  `deliver`'s refusals for a
message that is not available yet or is addressed to another destination
change nothing and are left out.  Not modelled: disks that lose what was
synced, directory entries that were not, and hash collisions.

### Experts

`Considered` and `Changes` are one call of `consider`: the board after it and
whether it returns `True`.  Its loop over `contradicts` has no loop in the model:
`Losing` are the places whose conclusion stands and whose author has fired,
`Resisting` those of them whose author does not yield, `Overturned` those before
the first of these, at which (`StoppedAt`) the loop ends.  Evidence is a Boolean per rule, since it does not
change during a diagnosis and an unknown input and a false condition have the
same effect on the board.  `ActivateRule` and `EndEnginePass` are the loop of
`SingleExpertProvider.invoke`, `ActivateExpert` and `EndBoardPass` that of
`BlackboardProvider.invoke`, with the agenda in `scheduled` and `pending`;
`Exhaust` is the test of the budget before each activation.  The two
organisations run one after the other on the same rules, so that what they
record can be compared.

### ReferenceWorld

Each handler `_on_<kind>` of `FiniteModel` is an action on the event at the
head of the calendar, with everything it calls: `_arrive`, `_start_service`
and `_start_release` are operators that give the new queue and the events
scheduled, in the order of their sequence numbers.  Time is in ticks and
`advance_to` passes each of them; a command is applied between two calls, when
nothing is due (`Settled`).  A refused command changes nothing and is not a
step, so `apply` appears as its two accepted branches with their
compare-and-swap.  `WorldAssumption` says of the constants what the checks of
`contracts.py` say of a scenario; that every service takes
whole ticks (`WholeTicks`) is a choice of the instances and no theorem needs it.  Statistics, `truth` and `queues` only read
and are left out.

### Evaluation

Everything here is a function of the world at the time.  `Observation` is what
`observations` exports for a signal - a field, the last probe with its own date,
or the delivery summary of a window that ended one summary delay ago -, `Batch`
what `ProjectionProvider` makes of it: relayed, or missing with its reason.
`Assessment` folds an agent's predicates over it as `EcoAssessmentProvider`
does: signals go by their metric alone, a metric missing anywhere is unknown,
and the last predicate that does not pass decides, so that one that is unknown
hides a contradiction before it, and the other way round.  `Counts`, `Tally` and
`Judge` are the cohorts, `cohort_measurements` and `_judge`; ratios are kept as
numerator and denominator and compared by multiplication.  `EvaluationAssumption`
says of its constants what `contracts.py` and the configurations require.

### Planning

`uniform_cost` and `astar` differ only in the estimate, which is 0 for the
first: `ReturnPlan`, `SkipStale`, `Expand` and `NothingLeft` are the ways one
turn of their loop can go, with all successors pushed in the same step.  In
`gps` each call of `reduce_goal` is an element of `stack`; `CutOff`, `TooDeep`
and `Conclude` are its returns before the loop, `Try` one operator of the loop
with the call it makes, `NothingReduces` the end of the loop.  A call that
returns a plan ends all the calls around it, so `Conclude` ends the search.
Predicates are triples, a plan names operators by their place in the catalog;
the trace and the counters reported beside the plan are left out, except the
expansions that the budget bounds.

`PlannerProvider` runs them for one agent after the other: `Search` is a step of
the search at hand, `Enumerate` one expansion of `enumerate_space`; `NoPlan`,
`Plan` and `SpaceExceeded` are the proposals, `Raise` the certificate's
requirements, which fail the whole invocation.  The exact planner fills its table
first and plans once for all goals.

### RunLoop

The loop is one thread, and an action is one of its calls: `Epoch` is `_epoch`
with its export and the four deciding stages, `Dispatch` is `_dispatch`, `Close`
the end of `execute`.  Between an epoch and its dispatch lie, at a control
latency, other epochs: `pending` is their list, and `DispatchNext` says in which
order `execute` takes them.  `LoseAction` is the simulator that dies while
commands are being applied, which the boundary records as a failed action;
`Crash` is the same anywhere else, which ends the run; `Refused` is the world
that is asked to go back.

The world is the set of writes it has accepted; an observation is that set.
`Accepted` is the compare-and-swap of `apply` for the commands of one dispatch in
order, `Version` the number of an actuator's writes.  A provider is what it may
do to the loop: the planner proposes any of the proposals of the study, or
nothing where it has no ground for one; telemetry, diagnosis, planning and
resolution may fail before or after they declared their reads.  The decisions of
the resolvers are not abstracted (`Resolution`): claims, waiting times, grants,
the delays of `backoff` in any order, the exact allocation, the null choice.

Lineage is the set of reads of truth an object's label names.  `influence` is not
in the code: it is what the object really depends on, and `PrivilegeSticks`
compares the two.

Time is in units of a quarter nanosecond, so that the nanosecond of `TIE_S` and
of `round(..., 9)` and the error of a float below it can be told apart; a study
may place such an error on one epoch (`slip`).

### LimitedRun

The steps of `supervise` are actions, in the order of the code, each of which may
raise `OSError` and go to the `finally`; the launcher, the interpreter it starts
(the worker) and the passing of time run in between.  `job` is what the kernel
kills with the job object: what is put in and what its members start.  `Solve`,
`Write` and `Seal` are the moments at which the worker's record comes into being,
`Fail`, `OutOfMemory` and `PassGate` how it ends otherwise; `Die` is the death of
the supervisor.  An entry says which record its metrics are of (`measured`)
and whose evaluation it carries (`evaluated`).  `Ledger` is `classify` and
`ledger_entry`, which keeps of a stop the metrics alone.  `PilotLedger` is the pilot's
own version: it reads the record without checking it and files its evaluation
whatever its status, so that a budget stop, as `table_budget_exceeded`, carries
the verdict that its missing assignment is not feasible.  `LedgerHonest` therefore says
of limited.py that a stop carries no verdict (limited.py:3), and of both only that it
carries no objective (pilot.py:56); in the pilot's ledger it is the outcome alone that
tells a budget from an infeasibility.

## 4. Runs

| Run | Instance | Shows |
|---|---|---|
| `pseudotree` | all 1024 graphs on 5 agents, every root | the traversal is right at every moment and reaches its verdict, it refines `DepthFirst`, and `DfsInv`, of which type correctness and the single token are part, holds before it is proved inductive |
| `dpop` | every connected graph on 3 agents, every choice of hard or soft edges, 27 unary costs, with a fourth agent hung on, and seven shapes on 4 agents, one of them disconnected, with infeasible costs; 3 budgets, every root | no message out of phase, exact tables, extendable choices, honest budget, refinement of `ExactSolver`, and an end in a documented outcome |
| `store` | two writers, two messages of one stream, a consumer that may read privileged data, two treatments for one run, an integrity failure | `StoreInv` before it is proved inductive, at most one call, order, refinement of `SerialStore` |
| `store_chain` | two writers, two invocations of which the second takes the first's dataset and has its idempotency key | keys claimed once, no privileged data to a consumer without the permission |
| `store_torn` | the same without the failure | *violation*: the store opens over an incomplete object |
| `world` | one site, one leg with a rate table and one without; ten traffic, probe and clock parameters in ticks; 18 courses of disturbance (none, cut for good or for 3 or 8 ticks, slowed first, loss and load in both orders), queues of 4 and 40 bytes, both pacings, one command to each actuator at any time; two agents of which one wants timely responses; cohorts and requirements with and without tolerated missing demand | no obligation lost or doubled, no wake-up missed, releases one at a time, probes and satisfaction that fade, final cohorts and verdicts, and an end |
| `planning` | one site, every subset of what a diagnosis can make known, six lists of goals of which some undo each other, the two ratios of costs; besides, a catalog in which cheap steps go round an expensive leap; budgets 1, 6 and 100, depths 1 and 8, an estimate of one per unmet goal | plans are executable and cheapest, the budget is blamed only when it is short, means-ends analysis has no headroom on the catalog, and proposals claim and certify only what they may |
| `experts` | three rules for three labels, with premises on each other and a budget that binds or does not: all inventories of which no two rules that hold contradict each other, and all with one contradicting pair, at every strict order of priorities and at equal ones | agreement of the organisations on the least fixed point in every order, the conflict policy, neither of two unresolved conclusions on the blackboard, and an end |
| `experts_tie` | a contradicting pair at equal priority | *violation*: the single engine asserts one of the two |
| `runloop` | two agents, four epochs, two actuators; forty studies: latencies of nothing, a part of the period, the period, more and twice as much, with and without an error of the float grid; validities shorter and longer; every mechanism, no grants, the exact and null resolver and actuator, an agent without authority; an Oracle at each place, allowed on or not; the simulator; one fault | writes show on time and are not stale, the prefix regenerates, commands accounted for, labels that stick, bounded waiting, and an end |
| `runloop_grid` | a latency equal to a period whose multiple misses the grid from below | *violation*: the world is asked to go back |
| `limited` | both callers and arms, every file an earlier attempt may have left | two honest ledgers, no process left over, and an end |

The bounds.  Five agents are enough for every shape the traversal
distinguishes: a branch beside a branch, two non-tree edges that end at one
ancestor and two that start at one agent, an isolated part.  Three agents with
two values give every combination of a tie, a forbidden value, a forbidden
slice and an infeasible problem along a chain, a star and a triangle; four
agents add separators of two and three agents and a child whose separator is
not below its parent's path only.  Budgets are chosen below, at and above the
size of the largest table.  No state constraint cuts a run short: all of these
systems are finite.

Two writers are enough for the store, because only one can have it open: the
second stands for whatever opens it next, or at the same time if it could.
Two messages of one stream show order, a chain of two invocations shows what
is inherited and what is claimed twice; proofs cover the rest.  That one consumer's position is kept apart
from another's is seen only where the streams differ (`store_chain`).  The
writers are interchangeable (`SYMMETRY`), which is sound for
the safety properties these runs check.  `MaxFailures` bounds the integrity
failures a caller may report.  Three rules are enough for a contradicting pair
with a premise or a consequence in any order of the inventory; in all of them no
rule has two rivals (`Paired`, which `MCExperts` asserts of its instances), as in
the inventories of `studies/`.  `MCExperts` also has one in which a rule has two
and a diagnosis ends too early (`Between`, see the findings).  Inventories in which a rule that has a rival shares its
label with another rule are left out: there `consider` asks the first rule with the contradicted label for its priority, and
if another one concluded it, no conflict is seen.  `Agree` speaks of the least
fixed point where nothing contradicts, and of the boards without an unresolved
conflict: `experts_tie` shows what becomes of the others.  `Enough` is the
budget no diagnosis exceeds; of the two budgets of the run one lies below it
and one above.

In `planning` six is the number of configurations of a site whose state and
legs are known, so that budget is exactly enough there.  The catalog alone
never makes a search reopen a state, since two plans to one configuration
differ in cost only by detours; the second catalog does.  Its estimate is a
lower bound because each of its operators meets at most one goal and costs at
least one; `astar` is called in the code without an estimate, and by its
documentation only with a lower bound.  `Longest` bounds the number of
operators of the plans that the properties quantify over; that one more leads
nowhere new and nowhere at less cost (`Explored`) is an assumption that TLC
evaluates for each of the 132 graphs of the run.  The catalog on one site needs three, the
other catalog four.

In `world` the horizon leaves room for three requests and readings, a leg that
is cut and restored under a backlog, and the deadlines of all of them; `End` lies
beyond everything that is scheduled.

In `runloop` four epochs are the fewest in which a command that takes two periods
lands before the last decision and one is left in flight at the end; two agents
contend for one actuator, for two, or each wins one.  `BoundedWait` allows an
agent to concede as many rounds as there are agents, which is the least that holds:
a rival that won in the round in which both began to wait may win once more.  One fault (`MaxFaults`) is
allowed, at any stage of any epoch.  `LimitedRun` has no constants: one attempt is
independent of the next but for the files it leaves, and those are in `Init`.

Deadlock checking is off (`CHECK_DEADLOCK FALSE`) because a run of the program
ends; that it does not end early is what `Verdict`, `Terminates` and `Halts`
say.  A store may really stop for good: a torn line or an unfinished
invocation quarantines it.

Fairness.  `FairDfsSpec` and the two `FairSpec` ask only that the one thread
takes a step while one is possible: a solve never waits for anything but its
own queue, and a diagnosis for nothing at all.  That of `ReferenceWorld` asks
that the run loop keeps advancing the clock to the next planned time, which is
what `runner.py` does until its horizon; that commands are issued is not
asked.  The run loop is one thread that never waits, so that its next call is
made, unless the simulator is gone.  The supervisor of `LimitedRun` goes on and
time passes; of the launcher, the worker and the answers nothing is asked: they
may hang.  Nothing is assumed of the writers of the store, and nothing live is
claimed of them.

Findings.  `experts_tie`: on a tie `consider` retracts the earlier conclusion
but does not remember that the later rule lost; the single engine's next pass
concludes it.  The test that says neither is asserted looks at one of the two.
`runloop_grid`: `dispatch_at` is rounded to the nanosecond, `decision_at` is not
(3 * 0.3 is 0.8999999999999999), and `due` lets a command that is a hair later
than an observation go before it; the world has then advanced past the
observation and `advance_to`, which compares exactly, refuses to go back: the run
ends without a result.
One more needs five rules and is shown by the assumption on `Between` in
`MCExperts`, not by a run: a rule that overrides one rival and is then beaten by
another has retracted a conclusion and reports no change
(`ecora/experts.py:127`, `:139`), against "Returns True when it changed the
blackboard" (`:112`).  If nothing else changes in that pass the diagnosis ends,
although a rule that had yielded to the retracted conclusion would now conclude:
not the "fixed point" the single engine promises (`:196`).
`store_torn`: a `put` that is cut short before any event refers
to its record is not noticed when the store is opened, against what the README
says of corrupt objects, and the record can never be put again.

## 5. Proofs

`PseudoTreeProofs` proves, for every finite or infinite set of agents that are
positive numbers, every undirected loop-free graph and every root, that
`DfsSpec` keeps `TypeOK`, `DfsInv`, `NoProtocolError`, `OneToken`,
`NoCrossEdge` and `RefusesDisconnected`, and that it takes the steps of
`DepthFirst`.  The assumptions are
`AgentsAssumption` and `GraphsAssumption` of `PseudoTree`, which TLC evaluates
in every run.

None of the safety properties is inductive: that a RETURN is acceptable depends
on who is waiting for it, which depends on the paths, which depends on the
tree.  `DfsInv` (module `PseudoTreeInv`) says what the local states have to do
with each other:

* `Ancestry` and `Rooted`: paths are the paths of the parent and the parent;
* `CompleteEdges`: an edge of a completed agent leads up its path or down to a
  completed agent;
* `Turn` and `Truthful`: the agents in their DFS phase are one path, each
  waiting for the next, and the only message in flight is a true statement of
  the last one or to it;
* `Adopted` and `Separated`: children and separators are exactly what the
  RETURNs delivered so far justify;
* `Ascending`: an agent has probed the least of its neighbours that were left.

A step has two halves: an agent takes its message in (`EnterHolds`,
`ReturnHolds`, `SeenHolds`, `StartHolds` each establish `Holding`), then sends
its own (`AdvanceKeeps` from `Holding`).  `TreeIsValid` derives
`validate_pseudotree` from the invariant once every agent has completed;
`SeparatorIsBoundary` is its main lemma.  `RefusesDisconnected` needs two
graph arguments: a spanned graph is connected by descent along the paths
(`MinIsLeast`), and the completed agents of a drained search are closed under
adjacency.

`SearchesDepthFirst` is the refinement of `DepthFirst`, but for its fairness.  The
stack is not kept anywhere: `Stack` is a function of who is searching and whose
RETURN is in flight, and `StackIsPath` shows that it is the path of one agent
(`TopAgent`) and that agent.  A first probe is then a descent, to the least
neighbour not visited by `Ascending` and `Covered`; a RETURN is a step back, since a
completed agent has no neighbour that is new; the harness's check takes the root off
the stack; and the root's start, later probes and their answers change nothing.

`DpopProofs` proves, for every finite set of agents, every
problem that `ProblemsAssumption` admits (finite domains, factors over one or two
agents with natural or forbidden costs, a graph that is the factors'), every root
and every positive budget, that `Spec` of `Dpop` keeps `UtilExact`,
`ChoicesExtend` and `BudgetVerdict`, never ends in `protocol_error`, and
implements `ExactSolver`.  What is assumed is what `DcopInstance` and the harness validate.

Its first half is about trees and tables and knows no messages.

* What a table holds is a fold over a family of tables, and a statement about a
  fold over every finite set is an induction.  `SubsetInduction` gives it with a
  set in the place of the predicate: a least counterexample in the strict subset
  ordering of a finite set (`FS_StrictSubsetOrderingWellFounded`).  From it follow
  that the folds exist (`FoldsExist`), do not depend on the order
  (`FoldRemove`), split (`FoldUnion`) and can be taken part by part (`FoldParts`).
* `TreeBuilt`: a finished search that reached every agent gives `Tree`, the order of
  the ancestors, the children, the edges and the separators.  `FactorParts`: the
  factors of an agent's subtree are its own and those of its children's subtrees,
  and no factor is in two of them, because two branches share none.
* `JoinFacts` and `MinimizeFacts` say what the two table operations compute, and
  `JoinedIsExact` and `MinimizedIsExact` that from exact tables of the children an
  agent gets an exact one (`Exact`: it is never above what the subtree costs, and
  some values of the subtree cost just that) and a choice that attains it.  That
  values found for each child separately can be put together is `Change`: the
  subtrees are disjoint, and no child's table depends on another's.
* `ExactIsOptimum` translates `Exact` into the minimum over all assignments that
  `UtilExact` speaks of, and `ChoiceKeepsOptimum` is the argument of `_choose`: what
  an agent chooses can be completed below it without a change above it.

`DpopInv` has a part for each stage of the run.  While UTIL runs (`UtilState`) each
agent that is done has an exact table, which its parent either holds or has in
flight to it, exactly once; who waits misses a table of a child (`Waiting`), so that
an empty queue means that all are done (`UtilEnds`, descending to a deepest agent).
While VALUE runs (`ValueState`, `Promised`) the agents that have chosen are the top
of the tree, each agent just below them has its message, which carries the choices
made above, and an assignment of the promised cost agrees with all of them.
Exactness alone is not inductive: that a table is accepted and not rejected depends
on who has sent what, which is what the rest of `UtilState` is for.

For the refinement the operators that the instance of `ExactSolver` brings are
shown equal to those of `Dpop` (`SolverTables`, `SolverTotal`, `SolverEntries`);
connectedness of the neighbour lists is connectedness of the factors
(`SolverConnected`); an agent that joins too much is a proof that all assignments
together are more than the budget (`WidthBelowAll`); and `StepEnds` says what holds
whenever a step ends the run.

`ArtifactStoreProofs` proves, for any number of writers, runs, invocations,
consumers and messages, under `StoreAssumption` and `WritersAssumption`, that
`Spec` keeps `StoreInv`, `Recoverable`, `AtMostOnce` and `KeysClaimedOnce` and
implements `SerialStore`.  The inductive invariant adds to `StoreInv` only the
shape of the variables: that the holder of the lock has the disk in memory
(`OneWriter`) is what makes an append valid on disk when it was valid in
memory, that lines stay valid (`Recoverable`) is what lets a claim on disk rule
out a second one (`CallsClaimed`, `AtMostOnce`), and a poisoned writer, one
line behind, can only close.  `AppendKeeps` is the step of a successful write,
`RemainsKeeps` that of a failed one, `GoneWriter` the death of a process.  For
the refinement the operators of `StoreLog` that the instance of `SerialStore`
brings are first shown equal to those of `ArtifactStore` (the `Same...`
lemmas); every write that reaches the disk is then a `Record` or a `Call`, and
everything else stutters or stores objects.

`RunLoopProofs` proves, for any agents, actuators, studies, number of epochs and
of faults, that `Spec` of the run loop keeps `NoStaleWrite` and
`PrivilegeSticks`.  `AgentsAssumption` and `ConfigsAssumption` say that agents
are positive numbers and finitely many, that a study's authority and proposals are about its
actuators and agents, and that truth is bound to none of the stages but those
`truth.py` has an Oracle for - in particular not to the action stage, which would
be allowed what the treatment forbids.  Nothing is used of the times: that a
write is not late is the boundary's check at dispatch, not the schedule's.

That a late command finds an actuator as it was observed is not inductive,
because the command, its decision and the observation are three pieces of state
that other dispatches come between.  `LoopInv` ties them together:

* `Informed`: a decision names, per actuator, the version the observation made
  in the same epoch shows;
* `Numbered`: the writes to an actuator are numbered 0, 1, 2 without a repetition
  and number as many as its version (`AcceptedOnce`: of one dispatch at most one
  command takes effect per actuator);
* `Attributed`: a write has the version its decision was shown, in its validity,
  and its decision depends on truth only where that is allowed;
* `Shown`: an observation shows the first writes of each actuator, so that
  whatever has a smaller version than a write was in the observation it was
  decided from;
* `Labelled`: every dataset and state carries the label of its influences.

`DecideSound` is the epoch's chain of four invocations (`InvocationSound` for
each), `WritesKeep` the dispatch, whole or cut short by a dying simulator, and
`DeliveredPermitted` what reaches its provider.

`WaitIsBounded` needs `WaitInv`.  An agent that concedes keeps its clock, and the
rival that won starts its own anew, so that it is `Behind` and stays there until the
agent wins or stops proposing: but for the first, each round conceded in a row has
put another rival behind (`Conceding`).  There are finitely many, and they are not
the agent itself.  It holds for any number of epochs, where TLC's four bound it too.

`EverythingAccounted`, of the same loop, needs `AccountInv`: what is pending are
the last epochs decided, in order, and those before them have a receipt (`Fifo`);
the commands of a dispatch reach the provider together or not at all (`Fates`);
while the link to the world is up, the world's log is what the receipts rebuild
(`Explained`); and a loop that has closed has decided every epoch and reported what
it did not dispatch (`Ended`).

`PrefixRegenerates` (`Regenerates`) and `EvidenceIsShown` (`RunInv`) are about the
schedule: `TimingAssumption` says of a study what `Schedule` requires of a period
and a latency, and that the error of a product of floats is no more than a period;
a study may have several latencies and slips anywhere.  `Shows(e, i)` says that the
observation at epoch `i` comes after the dispatch of epoch `e`; it is kept by a
later observation and by an earlier dispatch (`ShowsOn`, from the order of decisions,
of rounded instants and of dispatches).  `RecordInv` then says what the record is in
time:

* `InTime` and `StillOut`: what has a receipt shows at the coming observation, and
  what has none shows at no observation made so far - the loop dispatches exactly
  what is due before it observes;
* `Recorded`: an observation holds the writes that show at it, and they are what
  the receipts that show rebuild;
* `Stacked`: a command was applied to the versions that the receipts before it leave;
* `LastLook`: a closed run has observed all that it wrote.

The regeneration takes epochs off the head of a timeline; that this reapplies
exactly those that had landed (`ReappliedLands`) is an induction over the
observations, done with a least counterexample, and the rest follows from
`Recorded` and `Stacked`.  The evidence index is a search in a window of four
epochs; `Window` shows that nothing before the window can be the answer and its end
always is one.

`EvidenceIsShown` has a condition, `Measurable`: a slip leaves more than a tie between two
decisions, and a latency is nothing or at least two ties.  The second part is needed
and the code does not check it: with a latency of a nanosecond or less the dispatch
of an epoch is `due` at its own observation, `evidence_index` names that observation,
which was made before the command was issued, and the receipt cites evidence that cannot
show it.  Every study `MCRunLoop` checks is measurable, and a latency of a
nanosecond is no study.

The second half of `ArtifactStoreProofs` proves, for the same store and under the
same assumptions, `InOrder` and `NoLeak`.  Both are about what several processes, of which each
knows only the journal, do one after the other.  `DeliveryInv` adds to the store's
invariant:

* `LogInv(Log)` of the journal as a log of events: an invocation has one output,
  its sources were recorded before it began and their privilege is inherited, the
  places in each stream are a numbering 0, 1, 2 without a repetition, a delivery is
  claimed before it is acknowledged, the acknowledged places of a consumer in a
  stream are the first ones, and what is claimed and not acknowledged is the next
  (`InTurn`);
* `CallsMade`: what is acknowledged, or in progress in some process, has been
  called;
* `CallsPermitted`, and `InOrder` itself.

The place of a message is a number of messages recorded before it, so these
lemmas count: greatest elements and cardinalities of finite sets, by induction
over the strict subsets of a finite set (`FS_StrictSubsetOrderingWellFounded`,
from which a least counterexample is picked).  Each event of the log has a lemma
that it keeps each part; `LogStep` and `RunningStep` reduce the store's actions to
them.  For `NoLeak`, the invocations without privileged data among their sources
are closed under inheritance.

`LimitedRunProofs` proves `NoOrphan` and `LedgerHonest`.  `LimitedRun` has no
constants and its run is exhaustive already; what the proof adds is the reason:
which processes are in the job at which step of the supervisor (`Contained`,
`Staged`), that a zero exit has left the record of this attempt's worker and the
checksum over it (`Answered`), and that memory is blamed only when it ran short
(`Measured`).  `StopsAreHonest` and `AnswersAreHonest` are the two kinds of entry.

`ExpertsProofs` proves, for any inventory of any number of rules, any order of
experts and any budget:

* `BoardSafe` (`BoardInv`), for inventories that are `Orderly`: a rule contradicts
  what contradicts it, and whoever has a rival is the only rule for its label.
  Without the first the policy sees a conflict from one side only; without the
  second `_author` asks a rule that did not conclude (the hazard at
  `experts.py:122`);
* `WithheldSafe` (`WithheldForCause`) and `NothingLeftToConclude`, for those in
  which besides no rule has two rivals (`Paired`): `Between` shows that they fail
  without it;
* `LeastDiagnosis` (`LeastFixedPoint`), without either: where no two rules whose
  evidence holds contradict each other, each organisation records the least set of
  labels closed under the rules that hold.  It is the first half of `Agree`;
* `OrganisationsAgree` (`Agree`), for inventories that are all `Paired`.

`ExpertsIInv` says of a board, whoever works on it, that what is concluded was
fired by a rule that holds (`Founded`), that no two rivals stand together
(`Peaceful`), that what is withheld has its excuse on the board (`Excused`), and
that it is below every closed set; of the agenda, that every expert is on it, has
fired, or was dropped with a tie (`Agenda`); and of a pass that has changed
nothing, that the rules it has considered would change nothing (`EnginePass`,
`BoardPass`).  From
the last follows that a diagnosis which ends by itself is a fixed point
(`SettledBy`).

`Agree` compares two runs that need not activate the same experts: the engine goes
through all rules pass by pass, the blackboard leaves out those that have fired.  Both are
on one and the same *way*: the boards that the rules, considered one after the other
and round again, make of the empty one (`Way`; there is one for every length, `OneWay`).
`WayIInv` says that each organisation's board comes on that way with its next
rule (`OnTheWay`), since what the blackboard leaves out would change nothing
(`Still`, `FiredStill`), and that at the end every rule is still or has fired
(`AtRest`).  A way that has come to rest stays where it is (`WayRests`), so two
ends of it are the same board (`OneEnd`).

`ReferenceWorldProofs` proves, for any sites, legs with or without rate tables,
message sizes, queue limits, periods and disturbances that `WorldAssumption`
admits, `WorldInv` and `OneCopy`.  Here the hazard is a handler that forgets, or
repeats, what another one still has in the calendar.  `WorldIInv` is

* `Basics` and `Events`: what each variable holds, and that an event names a
  packet, a queue or a site as its kind requires and is not in the past;
* `Bounded`: the bytes of a queue are the sum of its packets' and within the limit;
* `Served`: a busy queue has a packet and one `serviced` event in the calendar; an
  idle one has no packet or no rate, and no such event;
* `Gated`: a gate that counts an interval holds a reading and has one `release`
  event; one that does not has neither.

The sum of bytes is a fold over a sequence; what is needed of it (adding at the
end, taking from the front) is proved by a least counterexample.  Each handler
gives its successor calendar as the old one without its event and with what its
operators schedule, so that `QueuesMove` and `GatesMove` say once what that does to
`Served` and `Gated`.

`MessagesIInv` adds `Traced` - the identifiers of all packets, wherever they are,
are among those given out so far, and a probe's is never that of a message - and
`Conserved`: for each message the set `Places` of the places it is in (a position
of a queue, an event, a position at a gate, a position among the delivered or the
dropped) is a singleton.  A handler moves one packet from the place of its event to
another and shifts the positions of those behind it: `SpreadMoved` and its
variants say that a set of positions shifted by one to the left is a singleton if
it was one, and a lemma per handler says which of the five kinds of places it
changes for which identifiers.  Both invariants were checked by TLC on instances
before they were proved.

Of `Evaluation` the same module proves `UncensoredIsFinal` and `VerdictStands`, which
compare the ledger before and after a step.  `FormedIInv` says what a packet is
(`Form`: its kind goes with its service and route, and its number is that of the
message it was generated for) and that what was generated is told apart by its
number (`Registered`).  Then `LedgerMoves` says what a step can do to the ledger: one
message is generated now, or one is delivered that was not, or one is dropped that
was not, each message once (`DeliveredOnce`, from `OneCopy`).  For a cohort whose
window has closed no message is generated any more (`CohortStands`), so its counts of
on time, late and lost only grow, and by what was pending (`CountsMove`); once it is
not censored none that is still under way can be on time.  A tally is a fold over the
cohorts of a service: `Summed` gives a sum over a finite set by its partial sums along
any of its orders and `TallyIsFold` says that the fold is it.  With that `VerdictStep`
is linear arithmetic on the counts.

`EvidenceFades` is about time, and about packets that have left the leg when it is cut:
an echo is still being served, or on its way to its probe; a response is on its
way to the egress, waits there behind others, is served, or is delivered.
`Fading(site, leg, t)` says for each of these by when it happens if the leg has not begun a
service after `t`: `ProbesBy` for the probes, `ResponsesBy` for the responses.  It has
three parts that are each needed:

* it holds for `t = now`, of every leg at every time, since a service that begins now ends by
  the slowest rate there is; so when a leg is cut it holds for that instant;
* as long as the rate is zero it is kept for *any* `t` that is no earlier than the last
  disturbance of the leg (`CutBy`).  That the last of several disturbances is the latest, and
  that a leg that serves nothing was disturbed at all, is `LegsInv`; the up and down
  directions share their rate;
* at the egress a bound in time would not be inductive, because a response waits there
  for packets of any other leg.  `Across` counts bytes: the end of the current service, in
  bytes the egress takes, and all that is waiting up to the response.  The egress never
  pauses and is never disturbed (`EgressBusy`), so this sum is the same before and after
  a service, and on arrival it is at most the limit of the queue beyond the time of arrival.

`ProbesDo` and `ResponsesDo` then follow what an agent believes back to a packet:
through the window of its telemetry, the delay of its delivery summary and the fold over the
predicates of its satisfaction (`AssessedInOrder`) to a probe's last answer, or to a completed
response among those delivered.  `FadingIInv` is the whole invariant.

`PlanningProofs` proves, for any operators with natural costs, any start, goals, agents,
budgets and limits, that `Spec` of `PlannerProvider` keeps `Optimal`, `Honest` and
`ProposalsEarned`.  `RequestsAssumption` says of a request (`Asks`) what `OperatorSpec` and
the configuration require, that a table may hold at least one configuration (with a limit
of nothing the code looks only when the table grows), and that the estimate is what
`planning.py` asks of one: an operator costs at least what it takes off the estimate.
`Longest` only says where the plans that the properties speak of may stop: `LongestIsEnough` derives from
`Explored` that those of every length lead nowhere else and nowhere cheaper.

The space of all configurations (`Space`) is what the operators reach in any number of
steps; it is proved about by induction over that number, again with a set for the
predicate and a least counterexample.  `uniform_cost`, `astar` and `enumerate_space` are the
same search up to the estimate, and one invariant of a frontier and a table of
costs serves all three (`Searched`): what is on them was really reached; a state
that is *closed*, that is, without an entry at its price on the frontier, has its
least price; and whatever a closed state leads to is in the table for no more than
that way costs.

* `FrontierSeparates`: for every configuration, either its state is closed or some entry
  on the frontier promises no more than it, with the estimate added to both.  This is the
  argument of A*, by induction along the way to the configuration; it needs the
  estimate to be consistent.
* `HeadIsCheapest`: the head of the heap has the least cost of its state, so that it
  closes it; `ExpansionPasses`, `ExpansionPushes` and `ExpansionEnds` go through its
  successors one by one, in the middle of which the table is not yet `Searched`
  (`Midway`); `StaleGoes` drops an entry that was overtaken.
* `NothingLeftIsAll`: an empty frontier leaves the whole space in the table, at its
  least costs.

`BestFirstInv` adds that no closed state meets the goals and that every expansion closed
another state, which is why an exhausted budget shows that the space is larger;
`Heaped` that entries rank as the search ranks them and that each one's plan leads to
its state.  The last is about `validate_plan`: `ReplayedInOrder` unfolds its fold along the plan, and
`ReplayExtends` carries it on by one operator.  `MeansEndsInv` says the same of the calls of `gps`, of
whose plans nothing is claimed but that they reach the goals.  `ProviderInv` puts the search and the
table together: a finished table within its limit has each state at its least cost
(`TableDone`), a plan that was found has it too (`FoundFacts`), so that the two never
disagree (`NeverDisagree`) and an invocation fails only for the limit
(`TableExceeded`).

Only model-checked:

* liveness under fairness (`Terminates`, `Halts` and the others), and `ENABLED`;
  of `IsDepthFirst` therefore the fairness of the search, while its initial states
  and its steps are proved;
* `NoHeadroom`: that means-ends analysis loses nothing is a fact about the one
  catalog of `symbolic.py`, over which it is exhausted.

## 6. What is not modelled

The components of `PROJECT.json` say it part by part; in short:

* mobile epochs and instances, reports, schemas, fixtures, plotting, calibration,
  the command lines: numeric input and formatting around one call, without a
  state that anything interleaves with;
* `Boundary.ingest` and `replay` and the admission of runs: checks on records
  whose outcome the boundary's model takes as given;
* `eco.py`'s interpretation of signals per service and the size of its marks,
  which nothing decides on;
* the design of the comparison's maps and the pilot's schedule;
* the framing of the simulator client's messages: requests and answers alternate
  in one thread, so that the only thing that can go wrong between two of them is
  the death of the process, which is modelled;
* the C++ simulator, the outside world of ecora, which is treated through the
  client that talks to it.
