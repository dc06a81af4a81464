------------------------------ MODULE MCRunLoop ------------------------------
(***************************************************************************)
(* Studies for RunLoop.  A nanosecond is four units, a period forty: the  *)
(* latencies are none, within the period, equal to it, beyond it and twice *)
(* it, the validities shorter and longer than these.                       *)
(***************************************************************************)
EXTENDS Continuation

Period == 40
ExactGrid == [index |-> 0, by |-> 0]
LateAtEnd == [index |-> 3, by |-> 1]      \* 3 * 0.1 is 0.30000000000000004
EarlyAtEnd == [index |-> 3, by |-> -1]    \* 3 * 0.3 is 0.8999999999999999

AMI == 1
SCADA == 2
TwoAgents == {AMI, SCADA}
ScadaAgents == {SCADA}
Paths == {"path", "pacing"}
StepCost == [path |-> 2, pacing |-> 1]

(* An agent either has its goals already or wants its plan.                   *)
Contending ==
    {(AMI :> a) @@ (SCADA :> s) : a \in {<<>>, <<"pacing", "path">>}, s \in {<<>>, <<"pacing">>}}
Crossing ==
    {(AMI :> a) @@ (SCADA :> s) :
        a \in {<<>>, <<"pacing", "path">>}, s \in {<<"path">>, <<"path", "pacing">>}}

NoGrants == [path |-> {}, pacing |-> {}]
EachItsOwn == [path |-> {AMI}, pacing |-> {SCADA}]

Baseline ==
    [period |-> Period, latency |-> 12, slip |-> ExactGrid, validity |-> 80,
     mechanism |-> "expiring_marks", grants |-> EachItsOwn, authority |-> Paths,
     wants |-> Contending, truth |-> "none", allow |-> FALSE,
     simulated |-> FALSE, suppress |-> FALSE]

(* The timing of a study against the mechanisms that leave most commands.     *)
Timings ==
    {[Baseline EXCEPT !.latency = latency, !.validity = validity, !.slip = slip,
                      !.wants = Crossing] :
        latency \in {0, 12, 40, 52, 80}, validity \in {32, 80}, slip \in {ExactGrid, LateAtEnd}}

Mechanisms ==
    {[Baseline EXCEPT !.mechanism = mechanism, !.latency = latency, !.wants = wants] :
        mechanism \in Coordinated \cup {"exact", "null"}, latency \in {0, 52},
        wants \in {Contending, Crossing}}
      \cup {[Baseline EXCEPT !.mechanism = "reservation", !.grants = NoGrants],
            [Baseline EXCEPT !.authority = {"path"}],
            [Baseline EXCEPT !.suppress = TRUE],
            [Baseline EXCEPT !.latency = 12, !.slip = EarlyAtEnd],
            [Baseline EXCEPT !.latency = 0, !.slip = EarlyAtEnd]}

Treatments ==
    {[Baseline EXCEPT !.truth = truth, !.allow = allow] :
        truth \in {"telemetry", "diagnosis", "result", "assurance"}, allow \in BOOLEAN}

Simulated == {[Baseline EXCEPT !.simulated = TRUE, !.latency = latency] : latency \in {0, 52}}

Studies == Timings \cup Mechanisms \cup Treatments \cup Simulated

(* A latency equal to a period whose multiples miss the grid from below.      *)
OnTheGrid == {[Baseline EXCEPT !.latency = Period, !.slip = EarlyAtEnd]}
=============================================================================
