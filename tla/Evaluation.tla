------------------------------- MODULE Evaluation -------------------------------
(***************************************************************************)
(* What becomes of the reference world's evidence: the observations it     *)
(* exports, the batch ProjectionProvider of ecora/telemetry.py makes of    *)
(* them, what EcoAssessmentProvider of ecora/eco.py tells an agent of it,  *)
(* the cohorts, and the verdicts ResultProvider and                        *)
(* AssuranceProvider of ecora/assessment.py draw from those.  All of it is *)
(* a function of the world at the time; the hazards are in how it moves    *)
(* with the world.                                                         *)
(***************************************************************************)
EXTENDS ReferenceWorld, FiniteSetsExt

CONSTANTS
    Offered,        \* the signals the capabilities let the adapter export
    Expected,       \* the signals the projection expects, in order
    MaxAge,         \* max_observation_age_s of the projection
    Window,         \* window_s of an export
    SummaryDelay,   \* DELIVERY_SUMMARY_DELAY_S
    Agents,         \* of the eco assessment: site and satisfaction, a sequence of predicates
    Specs,          \* the frozen cohorts: service, start and end of generation
    Requirements    \* service, metric, comparator, threshold and missing as percentages

(* What schemas and configurations require: capacities are positive; what    *)
(* the adapter offers is of its sites and legs; and the dashboard takes the  *)
(* queues of "egress" for those of no site.                                  *)
ASSUME EvaluationAssumption ==
    /\ Capacity \in [LegSet \cup {"egress"} -> Nat \ {0}] /\ "egress" \notin SiteSet
    /\ {MaxAge, Window, SummaryDelay, ProbeValidity} \subseteq Nat
    /\ \A s \in Offered : s.metric = "path_probe" => s.site \in SiteSet /\ s.part \in LegSet
    /\ \A agent \in Agents :
          agent.site \in SiteSet /\ agent.satisfaction \in Seq(ToSet(agent.satisfaction))
    /\ IsFiniteSet(Specs) /\ \A spec \in Specs : spec.start \in Nat /\ spec.end \in Nat
    /\ \A r \in Requirements : r.threshold \in Nat /\ r.missing \in Nat

(* A signal is a subject and a metric; a subject is a site, a leg of it or   *)
(* an actuator of it.                                                        *)
Signal(site, part, metric) == [site |-> site, part |-> part, metric |-> metric]

-------------------------------------------------------------------------------
(* Observations.                                                             *)

Reading(value) == [quality |-> "observed", value |-> value, available |-> now]
Missing(reason) == [quality |-> "missing", value |-> reason, available |-> now]

(* A probe is dated by its answer, everything else by the export.            *)
ProbeReading(site, leg) ==
    IF Evidence(site, leg)
    THEN LET last == probes[<<site, leg>>].last
         IN  [quality |-> "observed", value |-> last[2], available |-> last[1]]
    ELSE Missing("probe_timeout")

(* The responses the centre has completed for the site, as far as its        *)
(* report, which is under way for a while, has come.                         *)
Completed(site) ==
    LET end == Max({0, now - SummaryDelay})
        start == Max({0, end - Window})
    IN  {c \in generated \X DOMAIN delivered :
            /\ c[1].service = "scada" /\ c[1].site = site
            /\ delivered[c[2]].id = c[1].id /\ delivered[c[2]].at \in start + 1..end}

(* The mean of their times, as a sum and a number. *)
ResponseReading(site) ==
    LET completed == Completed(site)
    IN  IF completed = {} THEN Missing("no_completion")
        ELSE Reading([sum |-> MapThenSumSet(LAMBDA c : delivered[c[2]].at - c[1].generated, completed),
                      of |-> Cardinality(completed)])

Observation(s) ==
    CASE s.metric = "queue_occupancy" -> Reading(queue[<<s.site, path[s.site], "up">>].occupied)
      [] s.metric = "path_state" -> Reading(path[s.site])
      [] s.metric = "pacing_profile" -> Reading(pacing[s.site])
      [] s.metric = "actuator_version" /\ s.part = "selected_path" -> Reading(pathVersion[s.site])
      [] s.metric = "actuator_version" /\ s.part = "pacing_profile" -> Reading(pacingVersion[s.site])
      [] s.metric = "path_probe" -> ProbeReading(s.site, s.part)
      [] s.metric = "scada_response" -> ResponseReading(s.site)

(* The batch of the projection on one site's neighbourhood: every expected   *)
(* signal, relayed or missing with its reason.                               *)
Batch(site) ==
    [s \in ToSet(Expected) |->
        IF s \notin Offered \/ s.site # site THEN Missing("absent")
        ELSE LET found == Observation(s)
             IN  IF found.quality = "missing" \/ found.available >= now - MaxAge
                 THEN found
                 ELSE Missing("stale")]

(* The admissible evidence. *)
Relayed(site) == {s \in ToSet(Expected) : Batch(site)[s].quality = "observed"}

-------------------------------------------------------------------------------
(* The assessment of an agent, which knows signals by their metric alone:    *)
(* one that is missing anywhere is unknown, and the last one relayed counts. *)

Unknown(site, metric) ==
    \/ \A s \in Relayed(site) : s.metric # metric
    \/ \E s \in ToSet(Expected) \ Relayed(site) : s.metric = metric

Heard(site, metric) ==
    LET last == SelectLastInSeq(Expected, LAMBDA s : s.metric = metric /\ s \in Relayed(site))
    IN  Batch(site)[Expected[last]].value

Passes(predicate, value) ==
    IF predicate.metric = "scada_response" THEN value.sum <= predicate.bound * value.of
    ELSE value < predicate.bound

(* Whatever cannot be observed is passed over. *)
AssessmentOfHeard(agent) ==
    FoldLeft(LAMBDA status, p : IF Unknown(agent.site, p.metric) \/ Passes(p, Heard(agent.site, p.metric))
                                THEN status ELSE "contradicted",
             "supported", agent.satisfaction)

(* The last predicate that does not pass decides. *)
Assessment(agent) ==
    FoldLeft(LAMBDA status, p : IF Unknown(agent.site, p.metric) THEN "unknown"
                                ELSE IF Passes(p, Heard(agent.site, p.metric)) THEN status
                                ELSE "contradicted",
             "supported", agent.satisfaction)

-------------------------------------------------------------------------------
(* Cohorts.                                                                  *)

Cohort(spec) ==
    {o \in generated : o.service = spec.service /\ o.generated \in spec.start..spec.end}

Deliveries(cohort, inTime) ==
    {k \in DOMAIN delivered :
        delivered[k].onTime = inTime /\ \E o \in cohort : o.id = delivered[k].id}

Losses(cohort) == {k \in DOMAIN dropped : \E o \in cohort : o.id = dropped[k].id}

Outstanding(cohort) ==
    {o \in cohort : /\ \A k \in DOMAIN delivered : delivered[k].id # o.id
                    /\ \A k \in DOMAIN dropped : dropped[k].id # o.id}

(* The time advance_to has come to, with all its events. *)
Reached == IF Settled THEN now ELSE now - 1

Censored(cohort) == \E o \in Outstanding(cohort) : DueBy(o) > Reached

Counts(spec) ==
    LET cohort == Cohort(spec)
        onTime == Cardinality(Deliveries(cohort, TRUE))
        late == Cardinality(Deliveries(cohort, FALSE))
        lost == Cardinality(Losses(cohort))
    IN  [generated |-> Cardinality(cohort), onTime |-> onTime, late |-> late, lost |-> lost,
         pending |-> Cardinality(cohort) - onTime - late - lost]

-------------------------------------------------------------------------------
(* Measurements and verdicts.                                                *)

(* cohort_measurements: per service, and never pooled across services.       *)
Tally(service) ==
    LET Of == {spec \in Specs : spec.service = service}
    IN  [field \in {"generated", "onTime", "late", "lost", "pending"} |->
            MapThenSumSet(LAMBDA spec : Counts(spec)[field], Of)]

(* What a ratio's metric counts. *)
Numerator(metric, tally) ==
    CASE metric = "within_age_delivery" -> tally.onTime
      [] metric = "late_delivery" -> tally.late
      [] metric = "loss" -> tally.lost
      [] metric = "outstanding" -> tally.pending

(* Outstanding demand is not looked at. *)
JudgeUncovered(r) ==
    LET tally == Tally(r.service)
        value == 100 * Numerator(r.metric, tally)
        bound == r.threshold * tally.generated
    IN  IF tally.generated = 0 THEN "inconclusive"
        ELSE IF (r.comparator = "ge" /\ value >= bound) \/ (r.comparator = "le" /\ value <= bound)
        THEN "met" ELSE "violated"

(* AssuranceProvider._judge *)
Judge(r) ==
    LET tally == Tally(r.service)
        value == 100 * Numerator(r.metric, tally)
        bound == r.threshold * tally.generated
    IN  IF \/ tally.generated = 0                                   \* unmeasured
           \/ 100 * tally.pending > r.missing * tally.generated     \* coverage_below_limit
        THEN "inconclusive"
        ELSE IF (r.comparator = "ge" /\ value >= bound) \/ (r.comparator = "le" /\ value <= bound)
        THEN "met" ELSE "violated"

-------------------------------------------------------------------------------
(* Properties.  Cohorts and verdicts can only change with the ledger.        *)

(* The last disturbance that changed the rate of a leg. *)
LastChange(site, leg) ==
    Max({k \in DOMAIN impairments : impairments[k].site = site /\ impairments[k].leg = leg})

Slowest == Max({Size["probe"] \div r : r \in Rates \ {0}})

(* telemetry.py: "It never invents a value.  An expected signal that is      *)
(* absent, or present but older than the declared freshness bound, leaves    *)
(* the batch as an explicit missing observation".  A leg that serves nothing *)
(* is reported viable no longer than it takes the answer that was on its way *)
(* when it was cut to be served and to arrive, and for the stricter of the   *)
(* probe's validity and the bound of the projection.                         *)
ProbesFade ==
    \A s \in ToSet(Expected) :
        s.metric = "path_probe" /\ s \in Relayed(s.site) /\ queue[<<s.site, s.part, "up">>].rate = 0 =>
            now <= impairments[LastChange(s.site, s.part)].at
                       + Slowest + Delay[s.part] + Min({ProbeValidity, MaxAge})

(* What the egress may hold is served before a response that follows it.     *)
EgressWait == world.limit \div Capacity["egress"]

(* model.py: "No completion is not a fast response."  An agent that wants    *)
(* timely responses is not called satisfied for ever on a leg that serves    *)
(* nothing and that its site never left: only until the last response has    *)
(* been served, has crossed the egress, and has left the window reported.    *)
SatisfactionFades ==
    \A agent \in Agents :
        /\ \E p \in ToSet(agent.satisfaction) : p.metric = "scada_response"
        /\ pathVersion[agent.site] = 0
        /\ queue[<<agent.site, path[agent.site], "up">>].rate = 0
        /\ Assessment(agent) = "supported"
        => now < impairments[LastChange(agent.site, path[agent.site])].at
                     + (Size["response"] \div Min(Rates \ {0})) + Delay[path[agent.site]]
                     + EgressWait + Delay["egress"] + SummaryDelay + Window

(* model.py, telemetry.py, eco.py: neither a probe nor a response outlives    *)
(* the leg it came by for longer than declared.                              *)
EvidenceFades == ProbesFade /\ SatisfactionFades

(* model.py: "right-censored when the clock stopped before an outstanding    *)
(* obligation's deadline had elapsed: the outcome is unknown rather than a   *)
(* loss".  So the share of a cohort that is on time is final once it is not  *)
(* censored.                                                                 *)
UncensoredIsFinal ==
    [][ledger' # ledger =>
       \A service \in ToSet(Services), until \in 0..Min({Reached, Horizon}) :
           LET cohort == Cohort([service |-> service, start |-> 0, end |-> until])
           IN  ~Censored(cohort) =>
                  Cardinality(Deliveries(cohort, TRUE)') = Cardinality(Deliveries(cohort, TRUE))
      ]_vars

(* Whether what is still outstanding can turn the verdict.                   *)
Robust(r) ==
    \/ r.missing = 0
    \/ r.comparator = "ge" /\ r.metric = "within_age_delivery" /\ Judge(r) = "met"
    \/ r.comparator = "le" /\ r.metric \in {"late_delivery", "loss"} /\ Judge(r) = "violated"

(* assessment.py: "Evaluation reaches a verdict only where a measurement     *)
(* exists and was actually measured": once the windows of a service have     *)
(* closed, a verdict that tolerates no missing demand is the one the world   *)
(* would be given at any later time; and one that does is never met by what  *)
(* is on time, or violated by what is late or lost, and then otherwise.      *)
VerdictStands ==
    [][ledger' # ledger =>
       \A r \in Requirements :
           /\ \A spec \in Specs : spec.service = r.service => spec.end <= Reached
           /\ Judge(r) # "inconclusive" /\ Robust(r)
           => Judge(r)' = Judge(r)
      ]_vars
===============================================================================
