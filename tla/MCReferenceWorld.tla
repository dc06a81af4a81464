--------------------------- MODULE MCReferenceWorld ---------------------------
(* One site, a leg with a rate table and one without. *)
EXTENDS Evaluation, TLC

OneSite == <<"site-1">>
TwoLegs == <<"lte", "alternative">>

Capacities == ("lte" :> 2) @@ ("alternative" :> 2) @@ ("egress" :> 2)
Delays == ("lte" :> 1) @@ ("alternative" :> 1) @@ ("egress" :> 0)
Tables ==
    ("lte" :> {[loss |-> 0, ues |-> 0, rate |-> 2], [loss |-> 2, ues |-> 0, rate |-> 1],
               [loss |-> 0, ues |-> 3, rate |-> 1], [loss |-> 1, ues |-> 3, rate |-> 0]})
    @@ ("alternative" :> {})
Sizes == [request |-> 2, response |-> 2, reading |-> 4, probe |-> 2]
Periods == [scada |-> 4, ami |-> 3]
Deadlines == [scada |-> 8, ami |-> 12]
Pacing == [normal |-> 4, minimum |-> 1]

RateChange(at, leg, rate) ==
    [at |-> at, site |-> "site-1", leg |-> leg, kind |-> "rate", rate |-> rate]
RadioLoss(at, loss) ==
    [at |-> at, site |-> "site-1", leg |-> "lte", kind |-> "radio_loss", loss |-> loss]
CellLoad(at, ues) ==
    [at |-> at, site |-> "site-1", leg |-> "lte", kind |-> "cell_load", ues |-> ues]

(* No disturbance; a leg cut for a while, for good, or one that was slow;    *)
(* loss and load in both orders, with what the table does not list.          *)
Disturbances ==
    {<<>>}
    \cup {<<RateChange(at, leg, 0)>> : at \in {4, 6}, leg \in {"lte", "alternative"}}
    \cup {<<RateChange(at, leg, 0), RateChange(at + gap, leg, 2)>> :
             at \in {4, 6}, gap \in {3, 8}, leg \in {"lte", "alternative"}}
    \cup {<<RateChange(2, "lte", 1), RateChange(at, "lte", 0), RateChange(9, "lte", 2)>> : at \in {3, 4, 5}}
    \cup {<<RadioLoss(2, 1), CellLoad(5, 4), RadioLoss(8, 0)>>,
          <<CellLoad(2, 3), RadioLoss(5, 3), CellLoad(8, 0)>>}

AllWorlds == {[limit |-> limit, pacing |-> profile, disturbances |-> ds] :
                 limit \in {4, 40}, profile \in DOMAIN Pacing, ds \in Disturbances}

Of(part, metrics) == [k \in DOMAIN metrics |-> Signal("site-1", part, metrics[k])]
Expectations ==
    Of("site", <<"queue_occupancy", "path_state", "pacing_profile", "scada_response">>)
    \o [k \in DOMAIN TwoLegs |-> Signal("site-1", TwoLegs[k], "path_probe")]
    \o <<Signal("site-1", "selected_path", "actuator_version")>>
(* The capabilities do not cover the versions. *)
Offers == {s \in ToSet(Expectations) : s.metric # "actuator_version"}

(* tests/test_eco.py: the agents of a site want different things.            *)
Wanting(metric, bound) == [metric |-> metric, bound |-> bound]
TwoAgents ==
    {[site |-> "site-1", satisfaction |-> <<Wanting("scada_response", 6), Wanting("queue_occupancy", 5)>>],
     [site |-> "site-1", satisfaction |-> <<Wanting("queue_occupancy", 9)>>]}

Cohorts == {[service |-> "scada", start |-> 0, end |-> 3], [service |-> "scada", start |-> 4, end |-> 8],
            [service |-> "ami", start |-> 0, end |-> 9]}
Require(service, metric, comparator, threshold, missing) ==
    [service |-> service, metric |-> metric, comparator |-> comparator,
     threshold |-> threshold, missing |-> missing]
(* scenarios/*.json tolerate no missing demand of scada and some of ami. *)
AllRequirements ==
    {Require("scada", "within_age_delivery", "ge", 99, 0), Require("scada", "loss", "le", 0, 0),
     Require("ami", "within_age_delivery", "ge", 75, 25), Require("ami", "late_delivery", "le", 20, 50)}
=============================================================================
