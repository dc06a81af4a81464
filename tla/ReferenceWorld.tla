----------------------------- MODULE ReferenceWorld -----------------------------
(***************************************************************************)
(* FiniteModel of ecora/model.py: sites whose SCADA transactions and AMI   *)
(* readings cross byte-service queues, two legs per site and a shared      *)
(* egress, each in two directions, driven by a calendar of events.         *)
(*                                                                         *)
(* Time is counted in ticks: advance_to(t) runs the events due up to t in  *)
(* order, so the clock may as well pass every tick on the way.  Commands   *)
(* come between two calls of advance_to, when nothing is due.              *)
(*                                                                         *)
(* The instrumentation of the queues (statistics, areas, peaks) and the    *)
(* formatting of observations are left out.  A packet's deadline is its    *)
(* generation and the deadline of its service.                             *)
(***************************************************************************)
EXTENDS Integers, Sequences, FiniteSets, SequencesExt

CONSTANTS
    Sites, Legs,            \* both as sequences: the order in which the code goes through them
    Capacity, Delay,        \* of each leg and of "egress"
    RateTable,              \* per leg, the rates by extra_loss_db and competing_ues, or {}
    Size,                   \* bytes of a request, response, reading and probe
    Period, Deadline,       \* of scada and ami
    ProcessingDelay,
    PacingRate,             \* PACING_BPS
    ProbePeriod, ProbeStart, ProbeTimeout, ProbeValidity,
    Worlds,                 \* limits, initial pacing and disturbances of the runs considered
    Horizon,                \* nothing is generated, probed or commanded later
    End,                    \* the clock stops
    MaxCommands             \* commands applied to an actuator

SiteSet == ToSet(Sites)
LegSet == ToSet(Legs)
Services == <<"scada", "ami">>
Profiles == DOMAIN PacingRate
Directions == {"up", "down"}
Egress(direction) == <<"egress", "egress", direction>>
QueueIds == (SiteSet \X LegSet \X Directions) \cup {Egress(d) : d \in Directions}
Rates == {Capacity[link] : link \in LegSet \cup {"egress"}}
           \cup (UNION {{d.rate : d \in {e \in ToSet(w.disturbances) : e.kind = "rate"}} : w \in Worlds})
           \cup (UNION {{entry.rate : entry \in RateTable[leg]} : leg \in LegSet})

(* What the contract of a scenario requires of its legs: a rate table has    *)
(* entries for the unloaded cell, and those of every load start at no loss   *)
(* (and list each loss once, which nothing here relies on).                  *)
AdmissibleTable(table) ==
    /\ \A entry \in table : entry.loss \in Nat /\ entry.ues \in Nat /\ entry.rate \in Nat
    /\ \A entry \in table : \E base \in table : base.ues = entry.ues /\ base.loss = 0
    /\ table # {} => \E entry \in table : entry.ues = 0

(* A disturbance is of a declared leg; one of the radio, of a leg with a     *)
(* table.  The contract also keeps changes of rate to legs without one; the  *)
(* model itself takes them of any leg, and its tests make them of "lte".     *)
AdmissibleDisturbance(d) ==
    /\ d.at \in Nat /\ d.site \in SiteSet /\ d.leg \in LegSet
    /\ \/ d.kind = "rate" /\ d.rate \in Nat
       \/ d.kind = "radio_loss" /\ d.loss \in Nat /\ RateTable[d.leg] # {}
       \/ d.kind = "cell_load" /\ d.ues \in Nat /\ RateTable[d.leg] # {}

ASSUME WorldAssumption ==
    /\ Sites \in Seq(SiteSet) /\ Legs \in Seq(LegSet) /\ Legs # <<>>
    /\ Capacity \in [LegSet \cup {"egress"} -> Nat]
    /\ Delay \in [LegSet \cup {"egress"} -> Nat]
    /\ Size \in [{"request", "response", "reading", "probe"} -> Nat \ {0}]
    /\ Period \in [ToSet(Services) -> Nat \ {0}] /\ Deadline \in [ToSet(Services) -> Nat]
    /\ PacingRate \in [Profiles -> Nat \ {0}]
    /\ {ProcessingDelay, ProbeStart, Horizon, End, MaxCommands} \subseteq Nat
    /\ ProbePeriod \in Nat \ {0}
    /\ \A leg \in LegSet : AdmissibleTable(RateTable[leg])
    /\ \A w \in Worlds :
          /\ w.limit \in Nat /\ w.pacing \in Profiles
          /\ w.disturbances \in Seq(ToSet(w.disturbances))
          /\ \A d \in ToSet(w.disturbances) : AdmissibleDisturbance(d)

(* The code divides with fractions; here all services take whole ticks. *)
ASSUME WholeTicks ==
    /\ \A kind \in DOMAIN Size, r \in Rates \ {0} : Size[kind] % r = 0
    /\ \A profile \in Profiles : Size["reading"] % PacingRate[profile] = 0

VARIABLES
    world,                   \* queue_limit_bytes, initial_pacing and disturbances
    now, sequence, calendar,
    path, pacing, pathVersion, pacingVersion,
    queue,                   \* _queues: rate, pending, occupied_bytes, busy
    held, releasing,         \* _ami_pending, _ami_releasing
    counter,
    generated, delivered, dropped,
    conditions,              \* _conditions of each leg of each site
    impairments,
    probes                   \* _probes

actuators == <<path, pacing, pathVersion, pacingVersion>>
gateway == <<held, releasing>>
ledger == <<generated, delivered, dropped>>
legs == <<conditions, impairments>>
vars == <<world, now, sequence, calendar, actuators, queue, gateway, counter, ledger, legs, probes>>

-------------------------------------------------------------------------------
(* The calendar. *)

Event(kind, at, data) == [kind |-> kind, at |-> at, data |-> data]

Scheduled(event, seq) == [kind |-> event.kind, at |-> event.at, data |-> event.data, seq |-> seq]

Numbered(events) == {Scheduled(events[k], sequence + k) : k \in DOMAIN events}

(* The event e has been taken out; its handler schedules more. *)
Handle(e, events) ==
    /\ calendar' = (calendar \ {e}) \cup Numbered(events)
    /\ sequence' = sequence + Len(events)
    /\ UNCHANGED <<world, now>>

(* The heap's head, once the clock has come to it. *)
Due(e, kind) ==
    /\ e \in calendar
    /\ e.kind = kind
    /\ e.at = now
    /\ \A other \in calendar : other.at = now => e.seq <= other.seq

Settled == \A e \in calendar : e.at > now

(* What recurs does so until the horizon. *)
Recurring(kind, at, data) == IF at <= Horizon THEN <<Event(kind, at, data)>> ELSE <<>>

-------------------------------------------------------------------------------
(* The queues. *)

Packet(id, service, site, kind, generatedAt, route) ==
    [id |-> id, service |-> service, site |-> site, kind |-> kind,
     generated |-> generatedAt, route |-> route]

SizeOf(packet) == Size[IF packet.kind = "probe_echo" THEN "probe" ELSE packet.kind]
DueBy(packet) == packet.generated + Deadline[packet.service]

Uplink(site) == << <<site, path[site], "up">>, Egress("up") >>
Downlink(site) == << Egress("down"), <<site, path[site], "down">> >>

(* _start_service *)
StartService(q) == [q EXCEPT !.busy = q.waiting # <<>> /\ q.rate > 0]

(* The event that ends the service that was started. *)
ServiceOf(k, q) ==
    IF q.busy
    THEN <<Event("serviced", now + SizeOf(Head(q.waiting).packet) \div q.rate, [queue |-> k])>>
    ELSE <<>>

Fits(packet, hop) == queue[packet.route[hop]].occupied + SizeOf(packet) <= world.limit

Enqueued(packet, hop) ==
    LET q == [queue[packet.route[hop]] EXCEPT
                !.waiting = Append(@, [packet |-> packet, hop |-> hop]),
                !.occupied = @ + SizeOf(packet)]
    IN  IF q.busy THEN q ELSE StartService(q)

(* A packet lost in the middle of its route is not entered in the ledger. *)
ArriveUncounted(packet, hop) ==
    IF Fits(packet, hop)
    THEN /\ queue' = [queue EXCEPT ![packet.route[hop]] = Enqueued(packet, hop)]
         /\ UNCHANGED dropped
    ELSE /\ UNCHANGED queue
         /\ dropped' = IF packet.kind \in {"probe", "probe_echo"} \/ hop > 1 THEN dropped
                       ELSE Append(dropped, [id |-> packet.id, at |-> now])

(* _arrive *)
Arrive(packet, hop) ==
    IF Fits(packet, hop)
    THEN /\ queue' = [queue EXCEPT ![packet.route[hop]] = Enqueued(packet, hop)]
         /\ UNCHANGED dropped
    ELSE /\ UNCHANGED queue
         /\ dropped' = IF packet.kind \in {"probe", "probe_echo"} THEN dropped
                       ELSE Append(dropped, [id |-> packet.id, at |-> now])

ArrivalEvents(packet, hop) ==
    IF Fits(packet, hop) /\ ~queue[packet.route[hop]].busy
    THEN ServiceOf(packet.route[hop], Enqueued(packet, hop))
    ELSE <<>>

-------------------------------------------------------------------------------
Link(k) == k[2]

(* Two nested loops: the pairs of the elements of two sequences, in order. *)
Pairs(outer, inner) ==
    [k \in 1..Len(outer) * Len(inner) |->
        <<outer[(k - 1) \div Len(inner) + 1], inner[((k - 1) % Len(inner)) + 1]>>]

InitialEvents ==
    LET flows == Pairs(Services, Sites)
        paths == Pairs(Sites, Legs)
        disturbances == world.disturbances
    IN  [k \in DOMAIN flows |->
            Event("generate", 0, [service |-> flows[k][1], site |-> flows[k][2]])]
        \o [k \in DOMAIN paths |->
               Event("probe", ProbeStart, [site |-> paths[k][1], leg |-> paths[k][2]])]
        \o [k \in DOMAIN disturbances |->
               Event("disturb", disturbances[k].at, disturbances[k])]

Init ==
    /\ world \in Worlds
    /\ now = 0
    /\ sequence = Len(InitialEvents)
    /\ calendar = {Scheduled(InitialEvents[k], k) : k \in DOMAIN InitialEvents}
    /\ path = [site \in SiteSet |-> Legs[1]]
    /\ pacing = [site \in SiteSet |-> world.pacing]
    /\ pathVersion = [site \in SiteSet |-> 0]
    /\ pacingVersion = [site \in SiteSet |-> 0]
    /\ queue = [k \in QueueIds |->
                  [rate |-> Capacity[Link(k)], waiting |-> <<>>, occupied |-> 0, busy |-> FALSE]]
    /\ held = [site \in SiteSet |-> <<>>]
    /\ releasing = [site \in SiteSet |-> FALSE]
    /\ counter = 0
    /\ generated = {} /\ delivered = <<>> /\ dropped = <<>>
    /\ conditions = [leg \in SiteSet \X LegSet |-> [loss |-> 0, ues |-> 0]]
    /\ impairments = <<>>
    /\ probes = [leg \in SiteSet \X LegSet |->
                   [sent |-> {}, last |-> <<>>, answered |-> 0, timedOut |-> 0]]

-------------------------------------------------------------------------------
(* Traffic. *)

(* _on_generate, for SCADA: the centre sends a request. *)
GenerateRequest(e) ==
    LET site == e.data.site
        packet == Packet(counter + 1, "scada", site, "request", now, Downlink(site))
    IN  /\ Due(e, "generate")
        /\ e.data.service = "scada"
        /\ counter' = counter + 1
        /\ generated' = generated \cup {packet}
        /\ Arrive(packet, 1)
        /\ Handle(e, ArrivalEvents(packet, 1)
                       \o Recurring("generate", now + Period["scada"], e.data))
        /\ UNCHANGED <<actuators, gateway, delivered, legs, probes>>

(* _start_release: the gate opens once the profile's interval has passed. *)
ReleaseEvents(site, readings) ==
    IF readings = <<>> THEN <<>>
    ELSE <<Event("release", now + SizeOf(Head(readings)) \div PacingRate[pacing[site]],
                 [site |-> site])>>

(* Every reading starts a release of its own. *)
GenerateReadingAlways(e) ==
    LET site == e.data.site
        packet == Packet(counter + 1, "ami", site, "reading", now, <<>>)
    IN  /\ Due(e, "generate")
        /\ e.data.service = "ami"
        /\ counter' = counter + 1
        /\ generated' = generated \cup {packet}
        /\ held' = [held EXCEPT ![site] = Append(@, packet)]
        /\ releasing' = [releasing EXCEPT ![site] = TRUE]
        /\ Handle(e, ReleaseEvents(site, held'[site])
                       \o Recurring("generate", now + Period["ami"], e.data))
        /\ UNCHANGED <<actuators, queue, delivered, dropped, legs, probes>>

(* _on_generate, for AMI: the site's gateway holds a reading. *)
GenerateReading(e) ==
    LET site == e.data.site
        packet == Packet(counter + 1, "ami", site, "reading", now, <<>>)
    IN  /\ Due(e, "generate")
        /\ e.data.service = "ami"
        /\ counter' = counter + 1
        /\ generated' = generated \cup {packet}
        /\ held' = [held EXCEPT ![site] = Append(@, packet)]
        /\ releasing' = [releasing EXCEPT ![site] = TRUE]
        /\ Handle(e, (IF releasing[site] THEN <<>> ELSE ReleaseEvents(site, held'[site]))
                       \o Recurring("generate", now + Period["ami"], e.data))
        /\ UNCHANGED <<actuators, queue, delivered, dropped, legs, probes>>

(* The leg is chosen when the gate opens. *)
Release(e) ==
    LET site == e.data.site
        packet == [Head(held[site]) EXCEPT !.route = Uplink(site)]
    IN  /\ Due(e, "release")
        /\ held' = [held EXCEPT ![site] = Tail(@)]
        /\ releasing' = [releasing EXCEPT ![site] = held'[site] # <<>>]
        /\ Arrive(packet, 1)
        /\ Handle(e, ArrivalEvents(packet, 1) \o ReleaseEvents(site, held'[site]))
        /\ UNCHANGED <<actuators, counter, generated, delivered, legs, probes>>

(* The site answers over the leg selected now. *)
Respond(e) ==
    LET request == e.data.packet
        response == [request EXCEPT !.kind = "response", !.route = Uplink(request.site)]
    IN  /\ Due(e, "respond")
        /\ Arrive(response, 1)
        /\ Handle(e, ArrivalEvents(response, 1))
        /\ UNCHANGED <<actuators, gateway, counter, generated, delivered, legs, probes>>

Hop(e) ==
    /\ Due(e, "hop")
    /\ Arrive(e.data.packet, e.data.hop)
    /\ Handle(e, ArrivalEvents(e.data.packet, e.data.hop))
    /\ UNCHANGED <<actuators, gateway, counter, generated, delivered, legs, probes>>

(* Where a packet goes that has been served. *)
Onward(k, packet, hop) ==
    LET arrival == now + Delay[Link(k)]
    IN  IF hop < Len(packet.route) THEN Event("hop", arrival, [packet |-> packet, hop |-> hop + 1])
        ELSE CASE packet.kind = "probe" -> Event("echo", arrival, [packet |-> packet])
               [] packet.kind = "probe_echo" -> Event("answered", arrival, [packet |-> packet])
               [] packet.kind = "request" ->
                      Event("respond", arrival + ProcessingDelay, [packet |-> packet])
               [] OTHER -> Event("deliver", arrival, [packet |-> packet])

(* _on_serviced *)
Serviced(e) ==
    LET k == e.data.queue
        served == Head(queue[k].waiting)
        q == StartService([queue[k] EXCEPT !.waiting = Tail(@),
                                           !.occupied = @ - SizeOf(served.packet)])
    IN  /\ Due(e, "serviced")
        /\ queue' = [queue EXCEPT ![k] = q]
        /\ Handle(e, <<Onward(k, served.packet, served.hop)>> \o ServiceOf(k, q))
        /\ UNCHANGED <<actuators, gateway, counter, ledger, legs, probes>>

(* A delivery a tick after the deadline counts as on time. *)
InTimeOrSo(packet) == now <= DueBy(packet) + 1

InTime(packet) == now <= DueBy(packet)

Deliver(e) ==
    LET packet == e.data.packet
    IN  /\ Due(e, "deliver")
        /\ delivered' = Append(delivered, [id |-> packet.id, at |-> now, onTime |-> InTime(packet)])
        /\ Handle(e, <<>>)
        /\ UNCHANGED <<actuators, queue, gateway, counter, generated, dropped, legs, probes>>

-------------------------------------------------------------------------------
(* Probes. *)

(* Sent up the leg, whether it is selected or not. *)
Probe(e) ==
    LET site == e.data.site
        leg == e.data.leg
        packet == Packet(counter + 1, "probe", site, "probe", now, << <<site, leg, "up">> >>)
    IN  /\ Due(e, "probe")
        /\ counter' = counter + 1
        /\ probes' = [probes EXCEPT ![<<site, leg>>].sent = @ \cup {packet.id}]
        /\ Arrive(packet, 1)
        /\ Handle(e, ArrivalEvents(packet, 1) \o Recurring("probe", now + ProbePeriod, e.data))
        /\ UNCHANGED <<actuators, gateway, generated, delivered, legs>>

Echo(e) ==
    LET probe == e.data.packet
        packet == [probe EXCEPT !.kind = "probe_echo",
                                !.route = << <<probe.site, probe.route[1][2], "down">> >>]
    IN  /\ Due(e, "echo")
        /\ Arrive(packet, 1)
        /\ Handle(e, ArrivalEvents(packet, 1))
        /\ UNCHANGED <<actuators, gateway, counter, generated, delivered, legs, probes>>

(* An answer within the timeout is evidence. *)
Answered(e) ==
    LET echo == e.data.packet
        leg == <<echo.site, echo.route[1][2]>>
        probed == probes[leg]
        rtt == now - echo.generated
    IN  /\ Due(e, "answered")
        /\ probes' = [probes EXCEPT ![leg] =
              IF echo.id \notin probed.sent THEN probed
              ELSE IF rtt <= ProbeTimeout
                   THEN [probed EXCEPT !.sent = @ \ {echo.id}, !.answered = @ + 1,
                                       !.last = <<now, rtt>>]
                   ELSE [probed EXCEPT !.sent = @ \ {echo.id}, !.timedOut = @ + 1]]
        /\ Handle(e, <<>>)
        /\ UNCHANGED <<actuators, queue, gateway, counter, ledger, legs>>

(* probe_evidence *)
Evidence(site, leg) ==
    LET last == probes[<<site, leg>>].last
    IN  last # <<>> /\ now - last[1] <= ProbeValidity

-------------------------------------------------------------------------------
(* Disturbances. *)

(* lookup: the largest declared load, then the largest declared loss, that   *)
(* are not above the current ones.                                           *)
Lookup(leg, condition) ==
    LET Level == {t \in RateTable[leg] : t.ues <= condition.ues}
        AtLevel == {t \in Level : \A u \in Level : u.ues <= t.ues}
        Below == {t \in AtLevel : t.loss <= condition.loss}
    IN  (CHOOSE t \in Below : \A u \in Below : u.loss <= t.loss).rate

ConditionAfter(d) ==
    CASE d.kind = "radio_loss" -> [conditions[<<d.site, d.leg>>] EXCEPT !.loss = d.loss]
      [] d.kind = "cell_load" -> [conditions[<<d.site, d.leg>>] EXCEPT !.ues = d.ues]
      [] OTHER -> conditions[<<d.site, d.leg>>]

(* rate_for *)
RateFor(d) == IF d.kind = "rate" THEN d.rate ELSE Lookup(d.leg, ConditionAfter(d))

(* A restored leg waits for its next packet to wake it. *)
DisturbedAsleep(k, rate) == [queue[k] EXCEPT !.rate = rate]

(* A leg taken from zero is woken if something waits and nothing is served. *)
Disturbed(k, rate) ==
    LET q == [queue[k] EXCEPT !.rate = rate]
    IN  IF queue[k].rate = 0 /\ rate > 0 /\ q.waiting # <<>> /\ ~q.busy
        THEN StartService(q) ELSE q

(* _on_disturb *)
Disturb(e) ==
    LET d == e.data
        K(direction) == <<d.site, d.leg, direction>>
        Woken(k) == IF queue[k].busy THEN <<>> ELSE ServiceOf(k, Disturbed(k, RateFor(d)))
    IN  /\ Due(e, "disturb")
        /\ queue' = [queue EXCEPT ![K("up")] = Disturbed(K("up"), RateFor(d)),
                                  ![K("down")] = Disturbed(K("down"), RateFor(d))]
        /\ conditions' = [conditions EXCEPT ![<<d.site, d.leg>>] = ConditionAfter(d)]
        /\ impairments' = Append(impairments, d)
        /\ Handle(e, Woken(K("up")) \o Woken(K("down")))
        /\ UNCHANGED <<actuators, gateway, counter, ledger, probes>>

-------------------------------------------------------------------------------
(* Actuation.  A command that is refused changes nothing and is no step. *)

SelectPath(site, leg, expected) ==
    /\ Settled
    /\ now <= Horizon /\ expected < MaxCommands
    /\ expected = pathVersion[site]
    /\ path' = [path EXCEPT ![site] = leg]
    /\ pathVersion' = [pathVersion EXCEPT ![site] = @ + 1]
    /\ UNCHANGED <<world, now, sequence, calendar, pacing, pacingVersion, queue, gateway, counter,
                   ledger, legs, probes>>

SetAmiPacing(site, profile, expected) ==
    /\ Settled
    /\ now <= Horizon /\ expected < MaxCommands
    /\ expected = pacingVersion[site]
    /\ pacing' = [pacing EXCEPT ![site] = profile]
    /\ pacingVersion' = [pacingVersion EXCEPT ![site] = @ + 1]
    /\ UNCHANGED <<world, now, sequence, calendar, path, pathVersion, queue, gateway, counter,
                   ledger, legs, probes>>

(* advance_to comes to the next tick. *)
Tick ==
    /\ Settled
    /\ now < End
    /\ now' = now + 1
    /\ UNCHANGED <<world, sequence, calendar, actuators, queue, gateway, counter, ledger, legs, probes>>

Advance ==
    \/ Tick
    \/ \E e \in calendar :
          \/ GenerateRequest(e) \/ GenerateReading(e) \/ Release(e) \/ Respond(e)
          \/ Hop(e) \/ Serviced(e) \/ Deliver(e)
          \/ Probe(e) \/ Echo(e) \/ Answered(e) \/ Disturb(e)

Next ==
    \/ Advance
    \/ \E site \in SiteSet, expected \in 0..MaxCommands :
          \/ \E leg \in LegSet : SelectPath(site, leg, expected)
          \/ \E profile \in Profiles : SetAmiPacing(site, profile, expected)

Spec == Init /\ [][Next]_vars
FairSpec == Spec /\ WF_vars(Advance)
-------------------------------------------------------------------------------
(* Properties. *)

EventKinds == {"generate", "release", "respond", "hop", "serviced", "deliver",
               "probe", "echo", "answered", "disturb"}

TypeOK ==
    /\ world \in Worlds /\ now \in 0..End /\ sequence \in Nat /\ counter \in Nat
    /\ \A e \in calendar : e.kind \in EventKinds /\ e.at >= now /\ e.seq \in 1..sequence
    /\ path \in [SiteSet -> LegSet] /\ pacing \in [SiteSet -> Profiles]
    /\ pathVersion \in [SiteSet -> 0..MaxCommands]
    /\ pacingVersion \in [SiteSet -> 0..MaxCommands]
    /\ DOMAIN queue = QueueIds
    /\ \A k \in QueueIds : queue[k].rate \in Rates /\ queue[k].busy \in BOOLEAN
    /\ releasing \in [SiteSet -> BOOLEAN]
    /\ \A o \in generated : o.id \in 1..counter

(* Where an obligation is: in a queue, in an event to come, at the gateway,  *)
(* or in the ledger.                                                         *)
Carriers == {"hop", "respond", "deliver", "echo", "answered"}

Places(id) ==
    (UNION {{<<"queue", k, i>> : i \in {j \in DOMAIN queue[k].waiting :
                                          queue[k].waiting[j].packet.id = id}} : k \in QueueIds})
    \cup {<<"event", e>> : e \in {c \in calendar : c.kind \in Carriers /\ c.data.packet.id = id}}
    \cup (UNION {{<<"gateway", site, i>> : i \in {j \in DOMAIN held[site] :
                                                  held[site][j].id = id}} : site \in SiteSet})
    \cup {<<"delivered", i>> : i \in {j \in DOMAIN delivered : delivered[j].id = id}}
    \cup {<<"dropped", i>> : i \in {j \in DOMAIN dropped : dropped[j].id = id}}

(* tests/test_model.py: "unaccounted demand must still be in the model", and *)
(* "No obligation is both delivered and dropped, or delivered twice".  Every *)
(* obligation is in one place, whatever is switched, cut or dropped while it *)
(* goes there and back.                                                      *)
OneCopy == \A o \in generated : Cardinality(Places(o.id)) = 1

(* A queue serves while it has something to serve and a rate to serve it at, *)
(* one packet at a time: no wake-up is lost when a leg goes to zero, comes   *)
(* back, or changes while a packet is under way.  Its bytes are those of its *)
(* packets and within its limit.                                             *)
OneService ==
    \A k \in QueueIds :
        /\ Cardinality({e \in calendar : e.kind = "serviced" /\ e.data.queue = k}) =
              IF queue[k].busy THEN 1 ELSE 0
        /\ queue[k].busy => queue[k].waiting # <<>>
        /\ ~queue[k].busy => queue[k].waiting = <<>> \/ queue[k].rate = 0

BytesOf(waiting) ==
    LET sum[i \in 0..Len(waiting)] ==
          IF i = 0 THEN 0 ELSE sum[i - 1] + SizeOf(waiting[i].packet)
    IN  sum[Len(waiting)]

WithinLimit ==
    \A k \in QueueIds :
        /\ queue[k].occupied = BytesOf(queue[k].waiting)
        /\ queue[k].occupied <= world.limit

(* The gate of a gateway counts one interval at a time, and always counts    *)
(* while it holds a reading.                                                 *)
OneRelease ==
    \A site \in SiteSet :
        /\ Cardinality({e \in calendar : e.kind = "release" /\ e.data.site = site}) =
              IF releasing[site] THEN 1 ELSE 0
        /\ releasing[site] <=> held[site] # <<>>

(* Together they say that what the calendar holds is what the queues, gates  *)
(* and their flags call for, after every event and every command.            *)
WorldInv == TypeOK /\ OneService /\ WithinLimit /\ OneRelease

(* "a leg taken to zero stops serving and holds its queue": nothing else     *)
(* holds an obligation for ever.  Each is delivered, dropped, or waits at a  *)
(* leg without a rate.                                                       *)
Resolved(o) ==
    \/ \E k \in DOMAIN delivered : delivered[k].id = o.id
    \/ \E k \in DOMAIN dropped : dropped[k].id = o.id
    \/ \E k \in QueueIds : /\ queue[k].rate = 0
                           /\ \E i \in DOMAIN queue[k].waiting : queue[k].waiting[i].packet.id = o.id

Drains == <>[](\A o \in generated : Resolved(o))
===============================================================================
