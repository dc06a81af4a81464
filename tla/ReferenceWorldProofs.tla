-------------------------- MODULE ReferenceWorldProofs --------------------------
(***************************************************************************)
(* The reference world, for any sites, legs, tables, sizes, limits and     *)
(* disturbances: what its calendar holds is what its queues, gates and     *)
(* their flags call for, and every message is in exactly one place.        *)
(* Of its evaluation: cohorts and verdicts that are final stay so.         *)
(***************************************************************************)
EXTENDS Evaluation, TLAPS, FiniteSetTheorems, WellFoundedInduction

-------------------------------------------------------------------------------
(* Numbers.                                                                  *)

LEMMA LeastNumber ==
    ASSUME NEW N, N \subseteq Nat, N # {}
    PROVE  \E n \in N : \A m \in N : n <= m
  <1>1. PICK n \in N : \A m \in N : ~(<<m, n>> \in OpToRel(<, Nat))
    BY NatLessThanWellFounded, WFMin
  <1>2. ASSUME NEW m \in N PROVE n <= m
    <2>1. ~(m < n)
      BY <1>1 DEF OpToRel
    <2> QED BY <2>1
  <1> QED BY <1>2

LEMMA GreatestBelow ==
    ASSUME NEW N, N \subseteq Nat, N # {}, NEW bound \in Nat, \A n \in N : n <= bound
    PROVE  \E n \in N : \A m \in N : m <= n
  <1> DEFINE Bounds == {b \in Nat : \A n \in N : n <= b}
  <1>1. PICK b \in Bounds : \A c \in Bounds : b <= c
    BY LeastNumber
  <1>2. CASE b \in N
    BY <1>1, <1>2
  <1>3. CASE b \notin N
    <2>1. PICK n \in N : TRUE
      OBVIOUS
    <2>2. b - 1 \in Nat /\ \A m \in N : m <= b - 1
      BY <1>1, <1>3, <2>1
    <2> QED BY <1>1, <2>2
  <1> QED BY <1>2, <1>3

LEMMA Division ==
    ASSUME NEW n \in Nat, NEW d \in Nat \ {0}
    PROVE  n \div d \in Nat
  OBVIOUS

LEMMA Remainder ==
    ASSUME NEW n \in Nat, NEW d \in Nat \ {0}
    PROVE  n % d \in 0 .. d - 1
  OBVIOUS

(* The quotient of a number below a product. *)
LEMMA Quotient ==
    ASSUME NEW m \in Nat, NEW d \in Nat, NEW n \in Nat, n < m * d
    PROVE  d # 0 /\ n \div d \in 0 .. m - 1
  <1>1. d # 0
    OBVIOUS
  <1>2. n \div d \in Nat
    BY <1>1, Division
  <1>3. n = d * (n \div d) + (n % d) /\ n % d \in 0 .. d - 1
    BY <1>1
  <1>4. n \div d < m
    <2> DEFINE q == n \div d
    <2>1. SUFFICES ASSUME q >= m PROVE FALSE
      BY <1>2
    <2>2. q \in Nat /\ d * q <= n
      BY <1>2, <1>3
    <2> HIDE DEF q
    <2>3. d * q >= m * d
      BY <2>1, <2>2
    <2>4. d * q \in Nat /\ m * d \in Nat
      BY <2>2
    <2> QED BY <2>2, <2>3, <2>4
  <1> QED BY <1>1, <1>2, <1>4

-------------------------------------------------------------------------------
(* The bytes of a queue: what its recursive function computes.  The least    *)
(* length at which a fact fails takes the place of induction.                *)

Sized(waiting) ==
    /\ Len(waiting) \in Nat
    /\ DOMAIN waiting = 1 .. Len(waiting)
    /\ \A i \in 1 .. Len(waiting) : SizeOf(waiting[i].packet) \in Nat

SumsTo(f, waiting, n) ==
    f = [i \in 0 .. n |-> IF i = 0 THEN 0 ELSE f[i - 1] + SizeOf(waiting[i].packet)]

LEMMA SumExists ==
    ASSUME NEW waiting, NEW n \in Nat
    PROVE  \E f : SumsTo(f, waiting, n)
  <1> DEFINE Without == {m \in Nat : ~\E f : SumsTo(f, waiting, m)}
  <1>1. SUFFICES ASSUME Without # {} PROVE FALSE
    OBVIOUS
  <1>2. PICK m \in Without : \A l \in Without : m <= l
    BY <1>1, LeastNumber
  <1>3. m \in Nat /\ ~\E f : SumsTo(f, waiting, m)
    BY <1>2
  <1>4. CASE m = 0
    <2> DEFINE f == [i \in 0 .. 0 |-> 0]
    <2>1. SumsTo(f, waiting, 0)
      BY DEF SumsTo
    <2> QED BY <1>3, <1>4, <2>1
  <1>5. CASE m # 0
    <2>1. m - 1 \in Nat /\ m - 1 \notin Without
      BY <1>2, <1>3, <1>5
    <2>2. PICK g : SumsTo(g, waiting, m - 1)
      BY <2>1
    <2> DEFINE f == [i \in 0 .. m |-> IF i < m THEN g[i] ELSE g[m - 1] + SizeOf(waiting[m].packet)]
    <2>3. ASSUME NEW i \in 0 .. m
          PROVE  f[i] = IF i = 0 THEN 0 ELSE f[i - 1] + SizeOf(waiting[i].packet)
      <3>1. CASE i = 0
        <4>1. g[0] = 0
          BY <1>3, <1>5, <2>2 DEF SumsTo
        <4> QED BY <1>3, <1>5, <3>1, <4>1
      <3>2. CASE i # 0 /\ i < m
        <4>1. i \in 0 .. m - 1 /\ i - 1 \in 0 .. m /\ i - 1 < m
          BY <1>3, <3>2
        <4>2. g[i] = g[i - 1] + SizeOf(waiting[i].packet)
          BY <2>2, <3>2, <4>1 DEF SumsTo
        <4> QED BY <3>2, <4>1, <4>2
      <3>3. CASE i = m
        <4>1. m - 1 \in 0 .. m /\ m - 1 < m /\ ~(m < m) /\ m \in 0 .. m
          BY <1>3, <1>5
        <4> QED BY <1>5, <3>3, <4>1
      <3> QED BY <1>3, <3>1, <3>2, <3>3
    <2>4. SumsTo(f, waiting, m)
      BY <2>3 DEF SumsTo
    <2> QED BY <1>3, <2>4
  <1> QED BY <1>3, <1>4, <1>5

LEMMA BytesAreSums ==
    ASSUME NEW waiting, Len(waiting) \in Nat
    PROVE  \E f : SumsTo(f, waiting, Len(waiting)) /\ BytesOf(waiting) = f[Len(waiting)]
  <1> DEFINE sum == CHOOSE f : SumsTo(f, waiting, Len(waiting))
  <1>1. SumsTo(sum, waiting, Len(waiting))
    BY SumExists
  <1>2. BytesOf(waiting) = sum[Len(waiting)]
    BY DEF BytesOf, SumsTo
  <1> QED BY <1>1, <1>2

(* Sums of sequences whose elements agree, and of one without its head.      *)
LEMMA SumsAgree ==
    ASSUME NEW f, NEW g, NEW s, NEW t, NEW n \in Nat, NEW l \in Nat, NEW m \in Nat, n <= l, n <= m,
           SumsTo(f, s, l), SumsTo(g, t, m),
           \A i \in 1 .. n : s[i] = t[i]
    PROVE  f[n] = g[n]
  <1> DEFINE Differ == {i \in 0 .. n : f[i] # g[i]}
  <1>1. SUFFICES ASSUME Differ # {} PROVE FALSE
    OBVIOUS
  <1>0. Differ \subseteq Nat
    OBVIOUS
  <1>2. PICK i \in Differ : \A j \in Differ : i <= j
    <2> HIDE DEF Differ
    <2> QED BY <1>0, <1>1, LeastNumber
  <1>3. i \in 0 .. n /\ f[i] # g[i] /\ i \in 0 .. l /\ i \in 0 .. m
    BY <1>2
  <1>4. f[i] = (IF i = 0 THEN 0 ELSE f[i - 1] + SizeOf(s[i].packet))
    BY <1>3 DEF SumsTo
  <1>5. g[i] = (IF i = 0 THEN 0 ELSE g[i - 1] + SizeOf(t[i].packet))
    BY <1>3 DEF SumsTo
  <1>6. i # 0
    BY <1>3, <1>4, <1>5
  <1>7. i - 1 \in 0 .. n /\ i \in 1 .. n /\ ~(i <= i - 1)
    BY <1>3, <1>6
  <1>8. f[i - 1] = g[i - 1]
    BY <1>2, <1>7
  <1> QED BY <1>3, <1>4, <1>5, <1>6, <1>7, <1>8

LEMMA SumsAreNumbers ==
    ASSUME NEW f, NEW s, NEW l \in Nat, SumsTo(f, s, l), NEW n \in 0 .. l,
           \A i \in 1 .. l : SizeOf(s[i].packet) \in Nat
    PROVE  f[n] \in Nat /\ \A i \in 1 .. n : SizeOf(s[i].packet) <= f[n]
  <1> DEFINE Wrong == {i \in 0 .. l : ~(f[i] \in Nat /\ \A j \in 1 .. i : SizeOf(s[j].packet) <= f[i])}
  <1>1. SUFFICES ASSUME Wrong # {} PROVE FALSE
    OBVIOUS
  <1>0. Wrong \subseteq Nat
    OBVIOUS
  <1>2. PICK i \in Wrong : \A j \in Wrong : i <= j
    <2> HIDE DEF Wrong
    <2> QED BY <1>0, <1>1, LeastNumber
  <1>3. i \in 0 .. l /\ ~(f[i] \in Nat /\ \A j \in 1 .. i : SizeOf(s[j].packet) <= f[i])
    BY <1>2
  <1>4. f[i] = (IF i = 0 THEN 0 ELSE f[i - 1] + SizeOf(s[i].packet))
    BY <1>3 DEF SumsTo
  <1>5. i # 0
    BY <1>3, <1>4
  <1>6. i - 1 \in 0 .. l /\ i \in 1 .. l /\ ~(i <= i - 1)
    BY <1>3, <1>5
  <1>7. f[i - 1] \in Nat /\ \A j \in 1 .. i - 1 : SizeOf(s[j].packet) <= f[i - 1]
    BY <1>2, <1>6
  <1>8. SizeOf(s[i].packet) \in Nat /\ f[i] = f[i - 1] + SizeOf(s[i].packet)
    BY <1>4, <1>5, <1>6
  <1>9. ASSUME NEW j \in 1 .. i PROVE SizeOf(s[j].packet) <= f[i]
    <2>1. CASE j = i
      BY <1>7, <1>8, <2>1
    <2>2. CASE j # i
      <3>1. j \in 1 .. i - 1 /\ SizeOf(s[j].packet) \in Nat
        BY <1>6, <2>2
      <3> QED BY <1>7, <1>8, <3>1
    <2> QED BY <2>1, <2>2
  <1> QED BY <1>3, <1>7, <1>8, <1>9

LEMMA NoBytes == BytesOf(<<>>) = 0
  <1>1. Len(<<>>) = 0
    OBVIOUS
  <1>2. PICK f : SumsTo(f, <<>>, 0) /\ BytesOf(<<>>) = f[0]
    BY <1>1, BytesAreSums
  <1> QED BY <1>2 DEF SumsTo

LEMMA BytesAppended ==
    ASSUME NEW S, NEW waiting \in Seq(S), NEW w \in S
    PROVE  BytesOf(Append(waiting, w)) = BytesOf(waiting) + SizeOf(w.packet)
  <1> DEFINE n == Len(waiting)
             longer == Append(waiting, w)
  <1>1. /\ n \in Nat /\ Len(longer) = n + 1
        /\ \A i \in 1 .. n : longer[i] = waiting[i]
        /\ longer[n + 1] = w
        /\ n + 1 \in Nat /\ n <= n /\ n <= n + 1
    OBVIOUS
  <1>3. PICK g : SumsTo(g, waiting, n) /\ BytesOf(waiting) = g[n]
    BY <1>1, BytesAreSums
  <1> HIDE DEF n, longer
  <1>2. PICK f : SumsTo(f, longer, n + 1) /\ BytesOf(longer) = f[n + 1]
    BY <1>1, BytesAreSums
  <1>4. f[n] = g[n]
    BY <1>1, <1>2, <1>3, SumsAgree, Zenon
  <1>5. f[n + 1] = f[n] + SizeOf(longer[n + 1].packet)
    <2>1. n + 1 \in 0 .. n + 1 /\ n + 1 # 0 /\ (n + 1) - 1 = n
      BY <1>1
    <2> QED BY <1>2, <2>1 DEF SumsTo
  <1> QED BY <1>1, <1>2, <1>3, <1>4, <1>5 DEF longer

LEMMA BytesServed ==
    ASSUME NEW S, NEW waiting \in Seq(S), waiting # <<>>,
           \A w \in S : SizeOf(w.packet) \in Nat
    PROVE  /\ BytesOf(waiting) = SizeOf(Head(waiting).packet) + BytesOf(Tail(waiting))
           /\ BytesOf(Tail(waiting)) \in Nat
  <1> DEFINE n == Len(waiting)
             rest == Tail(waiting)
  <1>1. /\ n \in Nat /\ n > 0 /\ Len(rest) = n - 1 /\ n - 1 \in Nat
        /\ \A i \in 1 .. n - 1 : rest[i] = waiting[i + 1]
        /\ Head(waiting) = waiting[1]
        /\ \A i \in 1 .. n : waiting[i] \in S
        /\ \A i \in 1 .. n - 1 : rest[i] \in S
    OBVIOUS
  <1>2. PICK f : SumsTo(f, waiting, n) /\ BytesOf(waiting) = f[n]
    BY <1>1, BytesAreSums
  <1>3. PICK g : SumsTo(g, rest, n - 1) /\ BytesOf(rest) = g[n - 1]
    BY <1>1, BytesAreSums
  <1> HIDE DEF n, rest
  <1> DEFINE first == SizeOf(waiting[1].packet)
             Differ == {i \in 0 .. n - 1 : ~(g[i] \in Nat /\ f[i + 1] = first + g[i])}
  <1>4. /\ first \in Nat
        /\ \A i \in 0 .. n - 1 : g[i] \in Nat
    <2>1. \A i \in 1 .. n - 1 : SizeOf(rest[i].packet) \in Nat
      BY <1>1
    <2>2. first \in Nat
      BY <1>1
    <2> HIDE DEF first
    <2> QED BY <1>1, <1>3, <2>1, <2>2, SumsAreNumbers
  <1>5. Differ = {}
    <2>0. Differ \subseteq Nat
      OBVIOUS
    <2>1. SUFFICES ASSUME Differ # {} PROVE FALSE
      OBVIOUS
    <2>2. PICK i \in Differ : \A j \in Differ : i <= j
      <3> HIDE DEF Differ
      <3> QED BY <2>0, <2>1, LeastNumber
    <2>3. i \in 0 .. n - 1 /\ f[i + 1] # first + g[i]
      BY <1>4, <2>2
    <2>4. i + 1 \in 0 .. n /\ i + 1 # 0 /\ (i + 1) - 1 = i
      BY <1>1, <2>3
    <2>5. f[i + 1] = f[i] + SizeOf(waiting[i + 1].packet)
      BY <1>2, <2>4 DEF SumsTo
    <2>6. g[i] = IF i = 0 THEN 0 ELSE g[i - 1] + SizeOf(rest[i].packet)
      BY <1>3, <2>3 DEF SumsTo
    <2>7. CASE i = 0
      <3>1. f[0] = 0
        BY <1>1, <1>2 DEF SumsTo
      <3> QED BY <1>4, <2>3, <2>5, <2>6, <2>7, <3>1
    <2>8. CASE i # 0
      <3>1. i - 1 \in 0 .. n - 1 /\ i \in 1 .. n - 1 /\ (i - 1) + 1 = i /\ ~(i <= i - 1)
        BY <1>1, <2>3, <2>8
      <3>2. i - 1 \notin Differ
        BY <2>2, <3>1
      <3>3. f[i] = first + g[i - 1]
        BY <1>4, <3>1, <3>2
      <3>4. rest[i] = waiting[i + 1] /\ SizeOf(rest[i].packet) \in Nat
        BY <1>1, <3>1
      <3>5. g[i - 1] \in Nat /\ g[i] = g[i - 1] + SizeOf(rest[i].packet)
        BY <1>4, <2>6, <2>8, <3>1
      <3>6. first \in Nat
        BY <1>4
      <3> HIDE DEF first
      <3> QED BY <2>3, <2>5, <3>3, <3>4, <3>5, <3>6
    <2> QED BY <2>7, <2>8
  <1>6. n - 1 \in 0 .. n - 1 /\ (n - 1) + 1 = n
    BY <1>1
  <1>7. f[n] = first + g[n - 1] /\ g[n - 1] \in Nat
    BY <1>5, <1>6
  <1> QED BY <1>1, <1>2, <1>3, <1>7 DEF rest

-------------------------------------------------------------------------------
(* The inductive invariant.                                                  *)

Kinds == {"request", "response", "reading", "probe", "probe_echo"}

Packets == [id : Nat, service : {"scada", "ami", "probe"}, site : SiteSet, kind : Kinds,
            generated : Nat, route : Seq(QueueIds)]

(* A probe goes up a leg of its site. *)
Carried == {p \in Packets :
              p.kind = "probe" => \E leg \in LegSet : p.route = << <<p.site, leg, "up">> >>}

(* On its way, at one of the queues of its route. *)
Waits == {w \in [packet : Carried, hop : Nat] : w.hop \in 1 .. Len(w.packet.route)}

Readings == {p \in Packets : p.kind = "reading"}

QueueStates == [rate : Nat, waiting : Seq(Waits), occupied : Nat, busy : BOOLEAN]

Basics ==
    /\ world \in Worlds /\ now \in 0 .. End /\ sequence \in Nat /\ counter \in Nat
    /\ path \in [SiteSet -> LegSet] /\ pacing \in [SiteSet -> Profiles]
    /\ pathVersion \in [SiteSet -> 0 .. MaxCommands]
    /\ pacingVersion \in [SiteSet -> 0 .. MaxCommands]
    /\ queue \in [QueueIds -> QueueStates]
    /\ held \in [SiteSet -> Seq(Readings)]
    /\ releasing \in [SiteSet -> BOOLEAN]
    /\ conditions \in [SiteSet \X LegSet -> [loss : Nat, ues : Nat]]
    /\ \A o \in generated : o.id \in 1 .. counter

(* What an event of each kind is about. *)
Payload(e) ==
    \/ e.kind = "generate" /\ e.data.service \in ToSet(Services) /\ e.data.site \in SiteSet
    \/ e.kind = "release" /\ e.data.site \in SiteSet
    \/ e.kind = "serviced" /\ e.data.queue \in QueueIds
    \/ e.kind = "probe" /\ e.data.site \in SiteSet /\ e.data.leg \in LegSet
    \/ e.kind = "disturb" /\ AdmissibleDisturbance(e.data) /\ e.data \in ToSet(world.disturbances)
    \/ e.kind = "hop" /\ [packet |-> e.data.packet, hop |-> e.data.hop] \in Waits
    \/ e.kind = "echo" /\ e.data.packet \in Carried /\ e.data.packet.kind = "probe"
    \/ e.kind \in {"respond", "deliver", "answered"} /\ e.data.packet \in Carried

Ready(e) == Payload(e) /\ e.at \in Nat /\ e.at >= now

Events == \A e \in calendar : Ready(e) /\ e.seq \in 1 .. sequence

Bounded ==
    \A k \in QueueIds :
        /\ queue[k].rate \in Rates
        /\ queue[k].occupied = BytesOf(queue[k].waiting)
        /\ queue[k].occupied <= world.limit

(* The end of a service, and of an interval of a gate. *)
Ends(e, k) == e.kind = "serviced" /\ e.data.queue = k
Opens(e, site) == e.kind = "release" /\ e.data.site = site

Serving(k) == {e \in calendar : Ends(e, k)}
Releasing(site) == {e \in calendar : Opens(e, site)}

Served ==
    \A k \in QueueIds :
        IF queue[k].busy
        THEN queue[k].waiting # <<>> /\ \E e \in calendar : Serving(k) = {e}
        ELSE (queue[k].waiting = <<>> \/ queue[k].rate = 0) /\ Serving(k) = {}

Gated ==
    \A site \in SiteSet :
        IF releasing[site]
        THEN held[site] # <<>> /\ \E e \in calendar : Releasing(site) = {e}
        ELSE held[site] = <<>> /\ Releasing(site) = {}

WorldIInv == Basics /\ Events /\ Bounded /\ Served /\ Gated

-------------------------------------------------------------------------------
(* Constants.                                                                *)

LEMMA RatesAreNumbers == Rates \subseteq Nat
  <1>1. ASSUME NEW link \in LegSet \cup {"egress"} PROVE Capacity[link] \in Nat
    BY WorldAssumption
  <1>2. ASSUME NEW w \in Worlds, NEW d \in ToSet(w.disturbances), d.kind = "rate"
        PROVE  d.rate \in Nat
    BY <1>2, WorldAssumption DEF AdmissibleDisturbance
  <1>3. ASSUME NEW leg \in LegSet, NEW entry \in RateTable[leg] PROVE entry.rate \in Nat
    BY WorldAssumption DEF AdmissibleTable
  <1>4. ASSUME NEW r \in Rates
        PROVE  \/ \E link \in LegSet \cup {"egress"} : r = Capacity[link]
               \/ \E w \in Worlds : \E d \in ToSet(w.disturbances) : d.kind = "rate" /\ r = d.rate
               \/ \E leg \in LegSet : \E entry \in RateTable[leg] : r = entry.rate
    <2>1. \/ r \in {Capacity[link] : link \in LegSet \cup {"egress"}}
          \/ r \in UNION {{d.rate : d \in {e \in ToSet(w.disturbances) : e.kind = "rate"}} : w \in Worlds}
          \/ r \in UNION {{entry.rate : entry \in RateTable[leg]} : leg \in LegSet}
      BY <1>4 DEF Rates
    <2>2. ASSUME r \in UNION {{d.rate : d \in {e \in ToSet(w.disturbances) : e.kind = "rate"}} : w \in Worlds}
          PROVE  \E w \in Worlds : \E d \in ToSet(w.disturbances) : d.kind = "rate" /\ r = d.rate
      BY <2>2
    <2>3. ASSUME r \in UNION {{entry.rate : entry \in RateTable[leg]} : leg \in LegSet}
          PROVE  \E leg \in LegSet : \E entry \in RateTable[leg] : r = entry.rate
      BY <2>3
    <2> QED BY <2>1, <2>2, <2>3
  <1> QED BY <1>1, <1>2, <1>3, <1>4

LEMMA SizesArePositive ==
    ASSUME NEW p, p.kind \in Kinds
    PROVE  SizeOf(p) \in Nat \ {0}
  BY WorldAssumption DEF Kinds, SizeOf

LEMMA WaitingIsSized ==
    \A w \in Waits : SizeOf(w.packet) \in Nat
  BY SizesArePositive DEF Waits, Carried, Packets

LEMMA LookedUp ==
    ASSUME NEW leg \in LegSet, RateTable[leg] # {}, NEW condition \in [loss : Nat, ues : Nat]
    PROVE  Lookup(leg, condition) \in Rates
  <1> DEFINE Table == RateTable[leg]
             Level == {t \in Table : t.ues <= condition.ues}
             AtLevel == {t \in Level : \A u \in Level : u.ues <= t.ues}
             Below == {t \in AtLevel : t.loss <= condition.loss}
             Loads == {t.ues : t \in Level}
             LossLevels == {t.loss : t \in Below}
  <1>1. /\ \A t \in Table : t.loss \in Nat /\ t.ues \in Nat /\ t.rate \in Nat
        /\ \A t \in Table : \E base \in Table : base.ues = t.ues /\ base.loss = 0
        /\ \E t \in Table : t.ues = 0
    BY WorldAssumption DEF AdmissibleTable
  <1>2. \E t \in AtLevel : TRUE
    <2>1. Loads \subseteq Nat /\ Loads # {} /\ \A n \in Loads : n <= condition.ues
      BY <1>1
    <2>2. PICK n \in Loads : \A m \in Loads : m <= n
      <3> HIDE DEF Loads
      <3> QED BY <2>1, GreatestBelow
    <2> QED BY <2>2
  <1>3. \E t \in Below : TRUE
    <2>1. PICK t \in AtLevel : TRUE
      BY <1>2
    <2>2. PICK base \in Table : base.ues = t.ues /\ base.loss = 0
      BY <1>1, <2>1
    <2>3. base \in AtLevel
      BY <2>1, <2>2
    <2> QED BY <2>2, <2>3
  <1>4. \E t \in Below : \A u \in Below : u.loss <= t.loss
    <2>1. LossLevels \subseteq Nat /\ LossLevels # {} /\ \A n \in LossLevels : n <= condition.loss
      BY <1>1, <1>3
    <2>2. PICK n \in LossLevels : \A m \in LossLevels : m <= n
      <3> HIDE DEF LossLevels
      <3> QED BY <2>1, GreatestBelow
    <2> QED BY <2>2
  <1> DEFINE found == CHOOSE t \in Below : \A u \in Below : u.loss <= t.loss
  <1>5. found \in Below
    BY <1>4
  <1>6. found \in Table
    BY <1>5
  <1>7. found.rate \in Rates
    <2> HIDE DEF found
    <2>1. found.rate \in UNION {{entry.rate : entry \in RateTable[l]} : l \in LegSet}
      BY <1>6
    <2> QED BY <2>1 DEF Rates
  <1>8. Lookup(leg, condition) = found.rate
    BY DEF Lookup
  <1> QED BY <1>7, <1>8

-------------------------------------------------------------------------------
(* A handler schedules at most two events.                                   *)

Short(events) == events = <<>> \/ events = <<events[1]>>

LEMMA HandleTwo ==
    ASSUME sequence \in Nat, NEW e, NEW A, NEW B, Short(A), Short(B), Handle(e, A \o B)
    PROVE  /\ world' = world /\ now' = now
           /\ sequence' \in {sequence, sequence + 1, sequence + 2}
           /\ sequence' = sequence <=> A = <<>> /\ B = <<>>
           /\ sequence' = sequence + 2 <=> A # <<>> /\ B # <<>>
           /\ calendar' = (calendar \ {e})
                  \cup (IF A = <<>> THEN {} ELSE {Scheduled(A[1], sequence + 1)})
                  \cup (IF B = <<>> THEN {} ELSE {Scheduled(B[1], sequence')})
  <1>0. /\ sequence' = sequence + Len(A \o B)
        /\ calendar' = (calendar \ {e})
              \cup {Scheduled((A \o B)[k], sequence + k) : k \in DOMAIN (A \o B)}
        /\ world' = world /\ now' = now
    BY DEF Handle, Numbered
  <1>1. CASE A = <<>> /\ B = <<>>
    <2>1. A \o B = <<>> /\ Len(A \o B) = 0 /\ DOMAIN (A \o B) = {}
      BY <1>1
    <2> QED BY <1>0, <1>1, <2>1
  <1>2. CASE A # <<>> /\ B = <<>>
    <2>1. PICK a : A = <<a>>
      BY <1>2 DEF Short
    <2>2. Len(A \o B) = 1 /\ DOMAIN (A \o B) = {1} /\ (A \o B)[1] = a /\ A[1] = a
      BY <1>2, <2>1
    <2>3. {Scheduled((A \o B)[k], sequence + k) : k \in DOMAIN (A \o B)} = {Scheduled(a, sequence + 1)}
      BY <2>2
    <2>4. sequence' = sequence + 1
      BY <1>0, <2>2
    <2> QED BY <1>0, <1>2, <2>2, <2>3, <2>4
  <1>3. CASE A = <<>> /\ B # <<>>
    <2>1. PICK b : B = <<b>>
      BY <1>3 DEF Short
    <2>2. Len(A \o B) = 1 /\ DOMAIN (A \o B) = {1} /\ (A \o B)[1] = b /\ B[1] = b
      BY <1>3, <2>1
    <2>3. {Scheduled((A \o B)[k], sequence + k) : k \in DOMAIN (A \o B)} = {Scheduled(b, sequence + 1)}
      BY <2>2
    <2>4. sequence' = sequence + 1
      BY <1>0, <2>2
    <2> QED BY <1>0, <1>3, <2>2, <2>3, <2>4
  <1>4. CASE A # <<>> /\ B # <<>>
    <2>1. PICK a, b : A = <<a>> /\ B = <<b>>
      BY <1>4 DEF Short
    <2>2. /\ Len(A \o B) = 2 /\ DOMAIN (A \o B) = {1, 2}
          /\ (A \o B)[1] = a /\ (A \o B)[2] = b /\ A[1] = a /\ B[1] = b
      BY <2>1
    <2> QED BY <1>0, <1>4, <2>2
  <1> QED BY <1>1, <1>2, <1>3, <1>4

(* What is scheduled is an event like those there are; what it is about is   *)
(* not touched by its number.                                                *)
LEMMA ScheduledIsReady ==
    ASSUME NEW a, NEW n, Ready(a)
    PROVE  Ready(Scheduled(a, n)) /\ Scheduled(a, n).seq = n
  BY DEF Ready, Payload, Scheduled

LEMMA EventsKept ==
    ASSUME sequence \in Nat, Events, NEW e, NEW A, NEW B,
           Short(A), Short(B), Handle(e, A \o B),
           A # <<>> => Ready(A[1]), B # <<>> => Ready(B[1])
    PROVE  /\ Events' /\ sequence' \in Nat /\ world' = world /\ now' = now
           /\ \A x \in calendar' : x \in calendar \/ A # <<>> \/ B # <<>>
  <1>1. /\ world' = world /\ now' = now
        /\ sequence' \in {sequence, sequence + 1, sequence + 2}
        /\ sequence' = sequence <=> A = <<>> /\ B = <<>>
        /\ calendar' = (calendar \ {e})
               \cup (IF A = <<>> THEN {} ELSE {Scheduled(A[1], sequence + 1)})
               \cup (IF B = <<>> THEN {} ELSE {Scheduled(B[1], sequence')})
    BY HandleTwo
  <1>2. ASSUME NEW x \in calendar' PROVE Ready(x) /\ x.seq \in 1 .. sequence'
    <2>1. CASE x \in calendar
      BY <1>1, <2>1 DEF Events
    <2>2. CASE A # <<>> /\ x = Scheduled(A[1], sequence + 1)
      BY <1>1, <2>2, ScheduledIsReady
    <2>3. CASE B # <<>> /\ x = Scheduled(B[1], sequence')
      BY <1>1, <2>3, ScheduledIsReady
    <2> QED BY <1>1, <2>1, <2>2, <2>3
  <1>3. \A x : Ready(x)' <=> Ready(x)
    BY <1>1 DEF Ready, Payload
  <1>4. Events'
    BY <1>2, <1>3 DEF Events
  <1> QED BY <1>1, <1>4

(* The events that end services and intervals afterwards.                    *)
LEMMA ServingAfter ==
    ASSUME sequence \in Nat, NEW e, NEW A, NEW B, Short(A), Short(B), Handle(e, A \o B), NEW k
    PROVE  Serving(k)' = (Serving(k) \ {e})
               \cup (IF A # <<>> /\ Ends(A[1], k) THEN {Scheduled(A[1], sequence + 1)} ELSE {})
               \cup (IF B # <<>> /\ Ends(B[1], k) THEN {Scheduled(B[1], sequence')} ELSE {})
  <1>1. \A x, n : Ends(Scheduled(x, n), k) <=> Ends(x, k)
    BY DEF Ends, Scheduled
  <1>2. calendar' = (calendar \ {e})
               \cup (IF A = <<>> THEN {} ELSE {Scheduled(A[1], sequence + 1)})
               \cup (IF B = <<>> THEN {} ELSE {Scheduled(B[1], sequence')})
    BY HandleTwo
  <1> QED BY <1>1, <1>2 DEF Serving

LEMMA ReleasingAfter ==
    ASSUME sequence \in Nat, NEW e, NEW A, NEW B, Short(A), Short(B), Handle(e, A \o B), NEW site
    PROVE  Releasing(site)' = (Releasing(site) \ {e})
               \cup (IF A # <<>> /\ Opens(A[1], site) THEN {Scheduled(A[1], sequence + 1)} ELSE {})
               \cup (IF B # <<>> /\ Opens(B[1], site) THEN {Scheduled(B[1], sequence')} ELSE {})
  <1>1. \A x, n : Opens(Scheduled(x, n), site) <=> Opens(x, site)
    BY DEF Opens, Scheduled
  <1>2. calendar' = (calendar \ {e})
               \cup (IF A = <<>> THEN {} ELSE {Scheduled(A[1], sequence + 1)})
               \cup (IF B = <<>> THEN {} ELSE {Scheduled(B[1], sequence')})
    BY HandleTwo
  <1> QED BY <1>1, <1>2 DEF Releasing

-------------------------------------------------------------------------------
(* The queues.                                                               *)


(* What is scheduled ends a service, opens a gate. *)
Starts(events, k) == events # <<>> /\ Ends(events[1], k)
Gates(events, site) == events # <<>> /\ Opens(events[1], site)

LEMMA ServedKept ==
    ASSUME Served, sequence \in Nat, NEW e \in calendar, NEW A, NEW B,
           Short(A), Short(B), Handle(e, A \o B),
           \A k \in QueueIds :
              /\ ~(Starts(A, k) /\ Starts(B, k))
              /\ Starts(A, k) \/ Starts(B, k) => ~queue[k].busy \/ Ends(e, k)
              /\ queue'[k].busy <=> \/ queue[k].busy /\ ~Ends(e, k)
                                    \/ Starts(A, k) \/ Starts(B, k)
              /\ IF queue'[k].busy THEN queue'[k].waiting # <<>>
                 ELSE queue'[k].waiting = <<>> \/ queue'[k].rate = 0
    PROVE  Served'
  <1>1. SUFFICES ASSUME NEW k \in QueueIds
                 PROVE  IF queue'[k].busy THEN \E x : Serving(k)' = {x} ELSE Serving(k)' = {}
    <2>1. \A k \in QueueIds : Serving(k)' \subseteq calendar'
      BY DEF Serving
    <2> QED BY <1>1, <2>1 DEF Served
  <1>2. Serving(k)' = (Serving(k) \ {e})
               \cup (IF Starts(A, k) THEN {Scheduled(A[1], sequence + 1)} ELSE {})
               \cup (IF Starts(B, k) THEN {Scheduled(B[1], sequence')} ELSE {})
    BY ServingAfter DEF Starts
  <1>3. e \in Serving(k) <=> Ends(e, k)
    BY DEF Serving
  <1>4. IF queue[k].busy THEN \E x : Serving(k) = {x} ELSE Serving(k) = {}
    BY DEF Served
  <1>5. CASE queue[k].busy /\ ~Ends(e, k)
    BY <1>2, <1>3, <1>4, <1>5
  <1>6. CASE ~queue[k].busy \/ Ends(e, k)
    <2>1. Serving(k) \ {e} = {}
      BY <1>3, <1>4, <1>6
    <2> QED BY <1>2, <1>6, <2>1
  <1> QED BY <1>5, <1>6

LEMMA GatedKept ==
    ASSUME Gated, sequence \in Nat, NEW e \in calendar, NEW A, NEW B,
           Short(A), Short(B), Handle(e, A \o B),
           \A site \in SiteSet :
              /\ ~(Gates(A, site) /\ Gates(B, site))
              /\ Gates(A, site) \/ Gates(B, site) => ~releasing[site] \/ Opens(e, site)
              /\ releasing'[site] <=> \/ releasing[site] /\ ~Opens(e, site)
                                      \/ Gates(A, site) \/ Gates(B, site)
              /\ releasing'[site] <=> held'[site] # <<>>
    PROVE  Gated'
  <1>1. SUFFICES ASSUME NEW site \in SiteSet
                 PROVE  IF releasing'[site] THEN \E x : Releasing(site)' = {x}
                        ELSE Releasing(site)' = {}
    <2>1. \A site \in SiteSet : Releasing(site)' \subseteq calendar'
      BY DEF Releasing
    <2> QED BY <1>1, <2>1 DEF Gated
  <1>2. Releasing(site)' = (Releasing(site) \ {e})
               \cup (IF Gates(A, site) THEN {Scheduled(A[1], sequence + 1)} ELSE {})
               \cup (IF Gates(B, site) THEN {Scheduled(B[1], sequence')} ELSE {})
    BY ReleasingAfter DEF Gates
  <1>3. e \in Releasing(site) <=> Opens(e, site)
    BY DEF Releasing
  <1>4. IF releasing[site] THEN \E x : Releasing(site) = {x} ELSE Releasing(site) = {}
    BY DEF Gated
  <1>5. CASE releasing[site] /\ ~Opens(e, site)
    BY <1>2, <1>3, <1>4, <1>5
  <1>6. CASE ~releasing[site] \/ Opens(e, site)
    <2>1. Releasing(site) \ {e} = {}
      BY <1>3, <1>4, <1>6
    <2> QED BY <1>2, <1>6, <2>1
  <1> QED BY <1>5, <1>6

(* A service that is started ends later, once. *)
LEMMA ServiceIsReady ==
    ASSUME Basics, NEW k \in QueueIds, NEW q \in QueueStates,
           q.busy => q.waiting # <<>> /\ q.rate > 0
    PROVE  /\ Short(ServiceOf(k, q))
           /\ ServiceOf(k, q) # <<>> => Ready(ServiceOf(k, q)[1])
           /\ \A j : Starts(ServiceOf(k, q), j) <=> q.busy /\ j = k
           /\ \A site : ~Gates(ServiceOf(k, q), site)
  <1> DEFINE head == Head(q.waiting)
             a == Event("serviced", now + SizeOf(head.packet) \div q.rate, [queue |-> k])
  <1>1. ServiceOf(k, q) = IF q.busy THEN <<a>> ELSE <<>>
    BY DEF ServiceOf
  <1>2. a.kind = "serviced" /\ a.data.queue = k
        /\ a.at = now + SizeOf(head.packet) \div q.rate
    BY DEF Event
  <1>3. ASSUME q.busy PROVE Ready(a)
    <2>1. head \in Waits
      BY <1>3 DEF QueueStates
    <2>2. SizeOf(head.packet) \in Nat /\ q.rate \in Nat \ {0} /\ now \in Nat
      BY <1>3, <2>1, WaitingIsSized DEF QueueStates, Basics
    <2>3. SizeOf(head.packet) \div q.rate \in Nat
      BY <2>2, Division
    <2> HIDE DEF a
    <2> QED BY <1>2, <2>2, <2>3 DEF Ready, Payload
  <1> HIDE DEF a
  <1>4. CASE q.busy
    <2>1. ServiceOf(k, q) = <<a>>
      BY <1>1, <1>4
    <2> QED BY <1>2, <1>3, <1>4, <2>1 DEF Short, Starts, Gates, Ends, Opens
  <1>5. CASE ~q.busy
    BY <1>1, <1>5 DEF Short, Starts, Gates
  <1> QED BY <1>4, <1>5

LEMMA StartedService ==
    ASSUME NEW q \in QueueStates
    PROVE  /\ StartService(q) \in QueueStates
           /\ StartService(q).rate = q.rate /\ StartService(q).waiting = q.waiting
           /\ StartService(q).occupied = q.occupied
           /\ StartService(q).busy <=> q.waiting # <<>> /\ q.rate > 0
  BY DEF StartService, QueueStates

(* A packet arrives at a queue: it is dropped, waits behind what is served,  *)
(* or is served at once.                                                     *)
Within(k, q) ==
    /\ q.rate \in Rates /\ q.occupied = BytesOf(q.waiting) /\ q.occupied <= world.limit

LEMMA Arrival ==
    ASSUME Basics, Bounded, Served, NEW packet \in Carried, NEW hop \in 1 .. Len(packet.route),
           Arrive(packet, hop), NEW k, k = packet.route[hop], NEW A, A = ArrivalEvents(packet, hop)
    PROVE  /\ k \in QueueIds
           /\ queue' \in [QueueIds -> QueueStates]
           /\ \A j \in QueueIds : Within(j, queue'[j])
           /\ Short(A) /\ (A # <<>> => Ready(A[1]))
           /\ \A site : ~Gates(A, site)
           /\ \A j \in QueueIds : Starts(A, j) <=> queue'[j].busy /\ ~queue[j].busy
           /\ \A j \in QueueIds : queue[j].busy => queue'[j].busy
           /\ \A j \in QueueIds :
                 IF queue'[j].busy THEN queue'[j].waiting # <<>>
                 ELSE queue'[j].waiting = <<>> \/ queue'[j].rate = 0
  <1>1. k \in QueueIds
    BY DEF Carried, Packets
  <1>2. /\ queue \in [QueueIds -> QueueStates]
        /\ \A j \in QueueIds : Within(j, queue[j])
        /\ \A j \in QueueIds :
              IF queue[j].busy THEN queue[j].waiting # <<>>
              ELSE queue[j].waiting = <<>> \/ queue[j].rate = 0
    BY DEF Basics, Bounded, Served, Within
  <1>3. CASE ~Fits(packet, hop)
    <2>1. queue' = queue /\ A = <<>>
      BY <1>3 DEF Arrive, ArrivalEvents
    <2> QED BY <1>1, <1>2, <2>1 DEF Short, Starts, Gates
  <1>4. CASE Fits(packet, hop)
    <2> DEFINE longer == [queue[k] EXCEPT !.waiting = Append(@, [packet |-> packet, hop |-> hop]),
                                          !.occupied = @ + SizeOf(packet)]
               q == Enqueued(packet, hop)
               w == [packet |-> packet, hop |-> hop]
    <2>1. w \in Waits /\ SizeOf(packet) \in Nat
      BY WaitingIsSized DEF Waits
    <2>2. queue[k] \in QueueStates
      BY <1>1, <1>2
    <2>3. /\ longer \in QueueStates
          /\ longer.rate = queue[k].rate /\ longer.busy = queue[k].busy
          /\ longer.waiting = Append(queue[k].waiting, w) /\ longer.waiting # <<>>
          /\ longer.occupied = queue[k].occupied + SizeOf(packet)
      <3>1. PICK waiting \in Seq(Waits), occupied \in Nat :
               queue[k].waiting = waiting /\ queue[k].occupied = occupied
        BY <2>2 DEF QueueStates
      <3> DEFINE s == Append(waiting, w)
                 n == occupied + SizeOf(packet)
      <3>2. s \in Seq(Waits) /\ s # <<>> /\ n \in Nat
        <4> HIDE DEF w
        <4> QED BY <2>1
      <3>3. longer = [queue[k] EXCEPT !.waiting = s, !.occupied = n]
        BY <3>1
      <3> HIDE DEF longer, s, n
      <3>4. /\ longer \in QueueStates
            /\ longer.rate = queue[k].rate /\ longer.busy = queue[k].busy
            /\ longer.waiting = s /\ longer.occupied = n
        BY <2>2, <3>2, <3>3 DEF QueueStates
      <3> QED BY <3>1, <3>2, <3>4 DEF s, n
    <2>4. longer.occupied = BytesOf(longer.waiting)
      <3>1. BytesOf(Append(queue[k].waiting, w)) = BytesOf(queue[k].waiting) + SizeOf(w.packet)
        BY <2>1, <2>2, BytesAppended DEF QueueStates
      <3> QED BY <1>1, <1>2, <2>3, <3>1, Zenon DEF Within
    <2>5. longer.occupied <= world.limit
      BY <1>4, <2>3 DEF Fits
    <2>6. q = IF queue[k].busy THEN longer ELSE StartService(longer)
      BY <2>3 DEF Enqueued
    <2> HIDE DEF longer, q
    <2>7. /\ q \in QueueStates /\ q.rate = queue[k].rate /\ q.waiting = longer.waiting
          /\ q.occupied = longer.occupied
          /\ q.busy <=> queue[k].busy \/ queue[k].rate > 0
      BY <2>2, <2>3, <2>6, StartedService DEF QueueStates
    <2>8. Within(k, q)
      BY <1>1, <1>2, <2>4, <2>5, <2>7 DEF Within
    <2>9. queue' = [queue EXCEPT ![k] = q]
      BY <1>4 DEF Arrive, q
    <2>10. A = IF queue[k].busy THEN <<>> ELSE ServiceOf(k, q)
      BY <1>4 DEF ArrivalEvents, q
    <2>11. /\ Short(A) /\ (A # <<>> => Ready(A[1]))
           /\ \A site : ~Gates(A, site)
           /\ \A j : Starts(A, j) <=> ~queue[k].busy /\ q.busy /\ j = k
      <3>1. CASE queue[k].busy
        BY <2>10, <3>1 DEF Short, Starts, Gates
      <3>2. CASE ~queue[k].busy
        <4>1. q.busy => q.waiting # <<>> /\ q.rate > 0
          BY <2>3, <2>7, <3>2, Zenon
        <4> QED BY <1>1, <2>7, <2>10, <3>2, <4>1, ServiceIsReady
      <3> QED BY <3>1, <3>2
    <2>12. ~q.busy => q.rate = 0
      BY <1>2, <2>2, <2>7 DEF QueueStates
    <2>13. /\ queue'[k] = q /\ \A j \in QueueIds : j # k => queue'[j] = queue[j]
           /\ queue' \in [QueueIds -> QueueStates]
      BY <1>1, <1>2, <2>7, <2>9
    <2>14. q.waiting # <<>> /\ (queue[k].busy => q.busy)
      BY <2>3, <2>7, Zenon
    <2> QED BY <1>1, <1>2, <2>8, <2>11, <2>12, <2>13, <2>14
  <1> QED BY <1>3, <1>4

-------------------------------------------------------------------------------
(* A handler.  What it does to the queues and to the gates agrees with what  *)
(* it takes from the calendar and puts there.                                *)

QueuesMove(e, A, B) ==
    /\ queue' \in [QueueIds -> QueueStates]
    /\ \A k \in QueueIds :
          /\ Within(k, queue'[k])
          /\ ~(Starts(A, k) /\ Starts(B, k))
          /\ Starts(A, k) \/ Starts(B, k) => ~queue[k].busy \/ Ends(e, k)
          /\ queue'[k].busy <=> \/ queue[k].busy /\ ~Ends(e, k)
                                \/ Starts(A, k) \/ Starts(B, k)
          /\ IF queue'[k].busy THEN queue'[k].waiting # <<>>
             ELSE queue'[k].waiting = <<>> \/ queue'[k].rate = 0

GatesMove(e, A, B) ==
    /\ held' \in [SiteSet -> Seq(Readings)]
    /\ releasing' \in [SiteSet -> BOOLEAN]
    /\ \A site \in SiteSet :
          /\ ~(Gates(A, site) /\ Gates(B, site))
          /\ Gates(A, site) \/ Gates(B, site) => ~releasing[site] \/ Opens(e, site)
          /\ releasing'[site] <=> \/ releasing[site] /\ ~Opens(e, site)
                                  \/ Gates(A, site) \/ Gates(B, site)
          /\ releasing'[site] <=> held'[site] # <<>>

LEMMA Handled ==
    ASSUME WorldIInv, NEW e \in calendar, NEW A, NEW B, Short(A), Short(B), Handle(e, A \o B),
           A # <<>> => Ready(A[1]), B # <<>> => Ready(B[1]),
           QueuesMove(e, A, B), GatesMove(e, A, B),
           UNCHANGED actuators, conditions' \in [SiteSet \X LegSet -> [loss : Nat, ues : Nat]],
           counter' \in Nat, \A o \in generated' : o.id \in 1 .. counter'
    PROVE  WorldIInv'
  <1>1. sequence \in Nat
    BY DEF WorldIInv, Basics
  <1>2. Events' /\ sequence' \in Nat /\ world' = world /\ now' = now
    BY <1>1, EventsKept DEF WorldIInv
  <1>3. Served'
    BY <1>1, ServedKept DEF WorldIInv, QueuesMove
  <1>4. Gated'
    BY <1>1, GatedKept DEF WorldIInv, GatesMove
  <1>5. Bounded'
    BY <1>2 DEF QueuesMove, Within, Bounded
  <1>6. Basics'
    BY <1>2 DEF WorldIInv, Basics, QueuesMove, GatesMove, actuators
  <1> QED BY <1>2, <1>3, <1>4, <1>5, <1>6 DEF WorldIInv

LEMMA ArrivalMoves ==
    ASSUME WorldIInv, NEW e \in calendar, e.kind # "serviced",
           NEW packet \in Carried, NEW hop \in 1 .. Len(packet.route), Arrive(packet, hop),
           NEW B, \A k : ~Starts(B, k)
    PROVE  /\ QueuesMove(e, ArrivalEvents(packet, hop), B)
           /\ Short(ArrivalEvents(packet, hop))
           /\ ArrivalEvents(packet, hop) # <<>> => Ready(ArrivalEvents(packet, hop)[1])
           /\ \A site : ~Gates(ArrivalEvents(packet, hop), site)
  <1> DEFINE A == ArrivalEvents(packet, hop)
             k == packet.route[hop]
  <1>1. /\ queue' \in [QueueIds -> QueueStates]
        /\ \A j \in QueueIds : Within(j, queue'[j])
        /\ Short(A) /\ (A # <<>> => Ready(A[1]))
        /\ \A site : ~Gates(A, site)
        /\ \A j \in QueueIds : Starts(A, j) <=> queue'[j].busy /\ ~queue[j].busy
        /\ \A j \in QueueIds : queue[j].busy => queue'[j].busy
        /\ \A j \in QueueIds :
              IF queue'[j].busy THEN queue'[j].waiting # <<>>
              ELSE queue'[j].waiting = <<>> \/ queue'[j].rate = 0
    BY Arrival DEF WorldIInv
  <1>2. \A j : ~Ends(e, j)
    BY DEF Ends
  <1> HIDE DEF A, k
  <1>3. QueuesMove(e, A, B)
    BY <1>1, <1>2 DEF QueuesMove
  <1> QED BY <1>1, <1>3 DEF A

LEMMA QueuesStay ==
    ASSUME WorldIInv, queue' = queue, NEW e, e.kind # "serviced", NEW A, NEW B,
           \A k : ~Starts(A, k) /\ ~Starts(B, k)
    PROVE  QueuesMove(e, A, B)
  BY DEF WorldIInv, Basics, Bounded, Served, QueuesMove, Within, Ends

LEMMA GatesStay ==
    ASSUME WorldIInv, UNCHANGED gateway, NEW e, e.kind # "release", NEW A, NEW B,
           \A site : ~Gates(A, site) /\ ~Gates(B, site)
    PROVE  GatesMove(e, A, B)
  BY DEF WorldIInv, Basics, Gated, GatesMove, Opens, gateway

(* Nothing, and one event that ends no service and opens no gate.            *)
LEMMA NoEvents ==
    Short(<<>>) /\ (\A k : ~Starts(<<>>, k)) /\ (\A site : ~Gates(<<>>, site))
  BY DEF Short, Starts, Gates

LEMMA OneEvent ==
    ASSUME NEW a, Ready(a), a.kind # "serviced", a.kind # "release"
    PROVE  /\ Short(<<a>>) /\ <<a>>[1] = a
           /\ \A k : ~Starts(<<a>>, k)
           /\ \A site : ~Gates(<<a>>, site)
  BY DEF Short, Starts, Gates, Ends, Opens

LEMMA Recurs ==
    ASSUME Basics, NEW kind \in {"generate", "probe"}, NEW at \in Nat, at >= now, NEW e,
           e.kind = kind, Ready(e)
    PROVE  LET B == Recurring(kind, at, e.data)
           IN  /\ Short(B) /\ (B # <<>> => Ready(B[1]))
               /\ \A k : ~Starts(B, k)
               /\ \A site : ~Gates(B, site)
  <1> DEFINE a == Event(kind, at, e.data)
  <1>1. a.kind = kind /\ a.at = at /\ a.data = e.data
    BY DEF Event
  <1>2. Recurring(kind, at, e.data) \in {<<>>, <<a>>}
    BY DEF Recurring
  <1> HIDE DEF a
  <1>3. Ready(a)
    BY <1>1 DEF Ready, Payload
  <1> QED BY <1>1, <1>2, <1>3, NoEvents, OneEvent

LEMMA Routes ==
    ASSUME Basics, NEW site \in SiteSet
    PROVE  /\ Uplink(site) \in Seq(QueueIds) /\ Len(Uplink(site)) = 2
           /\ Downlink(site) \in Seq(QueueIds) /\ Len(Downlink(site)) = 2
  <1>1. path[site] \in LegSet
    BY DEF Basics
  <1>2. /\ <<site, path[site], "up">> \in QueueIds
        /\ <<site, path[site], "down">> \in QueueIds
        /\ Egress("up") \in QueueIds /\ Egress("down") \in QueueIds
    BY <1>1 DEF QueueIds, Directions
  <1> QED BY <1>2 DEF Uplink, Downlink

LEMMA GateIsReady ==
    ASSUME Basics, NEW site \in SiteSet, NEW readings \in Seq(Readings)
    PROVE  LET B == ReleaseEvents(site, readings)
           IN  /\ Short(B) /\ (B # <<>> => Ready(B[1]))
               /\ \A k : ~Starts(B, k)
               /\ \A s : Gates(B, s) <=> readings # <<>> /\ s = site
  <1> DEFINE ticks == SizeOf(Head(readings)) \div PacingRate[pacing[site]]
             a == Event("release", now + ticks, [site |-> site])
  <1>1. a.kind = "release" /\ a.at = now + ticks /\ a.data.site = site
    BY DEF Event
  <1>2. ReleaseEvents(site, readings) = IF readings = <<>> THEN <<>> ELSE <<a>>
    BY DEF ReleaseEvents
  <1>3. CASE readings = <<>>
    BY <1>2, <1>3 DEF Short, Starts, Gates
  <1>4. CASE readings # <<>>
    <2>1. Head(readings) \in Readings
      BY <1>4
    <2>2. SizeOf(Head(readings)) \in Nat
      BY <2>1, SizesArePositive DEF Readings, Packets
    <2>3. PacingRate[pacing[site]] \in Nat \ {0} /\ now \in Nat
      BY WorldAssumption DEF Basics
    <2>4. ticks \in Nat
      BY <2>2, <2>3, Division
    <2> HIDE DEF ticks, a
    <2>5. Ready(a)
      BY <1>1, <2>3, <2>4 DEF Ready, Payload
    <2>6. ReleaseEvents(site, readings) = <<a>>
      BY <1>2, <1>4
    <2> QED BY <1>1, <1>4, <2>5, <2>6 DEF Short, Starts, Gates, Ends, Opens
  <1> QED BY <1>3, <1>4

LEMMA Appended ==
    ASSUME NEW S, NEW s \in Seq(S), NEW x \in S
    PROVE  Append(s, x) \in Seq(S) /\ Append(s, x) # <<>>
  <1>1. Len(Append(s, x)) = Len(s) + 1 /\ Len(s) \in Nat /\ Append(s, x) \in Seq(S)
    OBVIOUS
  <1> QED BY <1>1

LEMMA Shortened ==
    ASSUME NEW S, NEW s \in Seq(S), s # <<>>
    PROVE  Tail(s) \in Seq(S) /\ Head(s) \in S
  OBVIOUS

LEMMA OneHop ==
    ASSUME NEW k \in QueueIds
    PROVE  <<k>> \in Seq(QueueIds) /\ Len(<<k>>) = 1 /\ 1 \in 1 .. Len(<<k>>)
  OBVIOUS

(* A packet that is sent over a route of its own. *)
LEMMA Rerouted ==
    ASSUME NEW p \in Packets, NEW kind \in Kinds \ {"probe"}, NEW route \in Seq(QueueIds),
           Len(route) \in {1, 2}
    PROVE  LET q == [p EXCEPT !.kind = kind, !.route = route]
           IN  q \in Carried /\ 1 \in 1 .. Len(q.route)
  <1> DEFINE q == [p EXCEPT !.kind = kind, !.route = route]
  <1>1. q \in Packets
    BY DEF Packets
  <1>2. q.kind = kind /\ q.route = route
    BY DEF Packets
  <1> HIDE DEF q
  <1>3. q \in Carried
    BY <1>1, <1>2 DEF Carried
  <1>4. 1 \in 1 .. Len(q.route)
    <2>1. Len(q.route) \in {1, 2}
      BY <1>2
    <2> QED BY <2>1
  <1> QED BY <1>3, <1>4 DEF q

LEMMA Routed ==
    ASSUME NEW p \in Readings, NEW route \in Seq(QueueIds), Len(route) = 2
    PROVE  LET q == [p EXCEPT !.route = route]
           IN  q \in Carried /\ 1 \in 1 .. Len(q.route)
  <1> DEFINE q == [p EXCEPT !.route = route]
  <1>1. q \in Packets
    BY DEF Packets, Readings
  <1>2. q.kind = "reading" /\ q.route = route
    BY DEF Packets, Readings
  <1> HIDE DEF q
  <1>3. q \in Carried
    BY <1>1, <1>2 DEF Carried
  <1>4. 1 \in 1 .. Len(q.route)
    <2>1. Len(q.route) = 2
      BY <1>2
    <2>2. 1 \in 1 .. 2
      OBVIOUS
    <2> QED BY <2>1, <2>2, Zenon
  <1> QED BY <1>3, <1>4 DEF q

LEMMA RequestKeeps ==
    ASSUME WorldIInv, NEW e \in calendar, GenerateRequest(e)
    PROVE  WorldIInv'
  <1> DEFINE site == e.data.site
             packet == Packet(counter + 1, "scada", site, "request", now, Downlink(site))
             at == now + Period["scada"]
             B == Recurring("generate", at, e.data)
  <1>1. /\ e.kind = "generate" /\ site \in SiteSet /\ Ready(e)
        /\ Basics /\ counter \in Nat /\ now \in Nat
    BY DEF WorldIInv, Events, Ready, Payload, GenerateRequest, Due, Basics
  <1>2. packet \in Carried /\ 1 \in 1 .. Len(packet.route) /\ packet.id = counter + 1
    <2>1. Downlink(site) \in Seq(QueueIds) /\ Len(Downlink(site)) = 2
      BY <1>1, Routes
    <2>2. counter + 1 \in Nat
      BY <1>1
    <2> DEFINE route == Downlink(site)
    <2>3. packet = [id |-> counter + 1, service |-> "scada", site |-> site, kind |-> "request",
                    generated |-> now, route |-> route]
      BY DEF Packet
    <2> HIDE DEF packet, site, route
    <2>4. packet \in Packets
      BY <1>1, <2>1, <2>2, <2>3 DEF Packets, Kinds, route
    <2> QED BY <2>1, <2>3, <2>4 DEF Carried, route
  <1>3. at \in Nat /\ at >= now
    <2>1. Period["scada"] \in Nat
      BY WorldAssumption DEF Services, ToSet
    <2> QED BY <1>1, <2>1
  <1>4. /\ counter' = counter + 1 /\ generated' = generated \cup {packet}
        /\ Arrive(packet, 1) /\ Handle(e, ArrivalEvents(packet, 1) \o B)
        /\ UNCHANGED <<actuators, gateway, conditions>>
    BY DEF GenerateRequest, legs
  <1>5. /\ Short(B) /\ (B # <<>> => Ready(B[1]))
        /\ \A k : ~Starts(B, k)
        /\ \A s : ~Gates(B, s)
    BY <1>1, <1>3, Recurs
  <1> HIDE DEF site, packet, at, B
  <1>6. /\ QueuesMove(e, ArrivalEvents(packet, 1), B)
        /\ Short(ArrivalEvents(packet, 1))
        /\ ArrivalEvents(packet, 1) # <<>> => Ready(ArrivalEvents(packet, 1)[1])
        /\ \A s : ~Gates(ArrivalEvents(packet, 1), s)
    BY <1>1, <1>2, <1>4, <1>5, ArrivalMoves
  <1>7. GatesMove(e, ArrivalEvents(packet, 1), B)
    BY <1>1, <1>4, <1>5, <1>6, GatesStay
  <1>8. counter' \in Nat /\ \A o \in generated' : o.id \in 1 .. counter'
    BY <1>1, <1>2, <1>4 DEF Basics
  <1> QED BY <1>1, <1>4, <1>5, <1>6, <1>7, <1>8, Handled DEF Basics

LEMMA ReadingKeeps ==
    ASSUME WorldIInv, NEW e \in calendar, GenerateReading(e)
    PROVE  WorldIInv'
  <1> DEFINE site == e.data.site
             packet == Packet(counter + 1, "ami", site, "reading", now, <<>>)
             at == now + Period["ami"]
             B == Recurring("generate", at, e.data)
  <1>1. /\ e.kind = "generate" /\ site \in SiteSet /\ Ready(e)
        /\ Basics /\ counter \in Nat /\ now \in Nat
    BY DEF WorldIInv, Events, Ready, Payload, GenerateReading, Due, Basics
  <1>2. packet \in Readings /\ packet.id = counter + 1
    BY <1>1 DEF Packet, Readings, Packets, Kinds
  <1>3. at \in Nat /\ at >= now
    <2>1. Period["ami"] \in Nat
      BY WorldAssumption DEF Services, ToSet
    <2> QED BY <1>1, <2>1
  <1>4. PICK readings \in Seq(Readings) : readings = Append(held[site], packet) /\ readings # <<>>
    <2>1. held[site] \in Seq(Readings)
      BY <1>1 DEF Basics
    <2> HIDE DEF site, packet
    <2>2. Append(held[site], packet) \in Seq(Readings) /\ Append(held[site], packet) # <<>>
      BY <1>2, <2>1, Appended
    <2> QED BY <2>2
  <1>5. readings # <<>>
    BY <1>4
  <1> DEFINE A == IF releasing[site] THEN <<>> ELSE ReleaseEvents(site, readings)
  <1>6. /\ counter' = counter + 1 /\ generated' = generated \cup {packet}
        /\ held' = [held EXCEPT ![site] = readings]
        /\ releasing' = [releasing EXCEPT ![site] = TRUE]
        /\ held'[site] = readings
        /\ queue' = queue
        /\ UNCHANGED <<actuators, conditions>>
    BY <1>1, <1>4 DEF GenerateReading, Basics, legs
  <1>7. Handle(e, A \o B)
    BY <1>6 DEF GenerateReading
  <1>8. /\ Short(B) /\ (B # <<>> => Ready(B[1]))
        /\ \A k : ~Starts(B, k)
        /\ \A s : ~Gates(B, s)
    BY <1>1, <1>3, Recurs
  <1>9. /\ Short(A) /\ (A # <<>> => Ready(A[1]))
        /\ \A k : ~Starts(A, k)
        /\ \A s : Gates(A, s) <=> ~releasing[site] /\ s = site
    BY <1>1, <1>5, NoEvents, GateIsReady
  <1> HIDE DEF site, packet, at, A, B
  <1>10. QueuesMove(e, A, B)
    BY <1>1, <1>6, <1>8, <1>9, QueuesStay
  <1>11. GatesMove(e, A, B)
    <2>1. \A s : ~Opens(e, s)
      BY <1>1 DEF Opens
    <2>2. /\ held \in [SiteSet -> Seq(Readings)] /\ releasing \in [SiteSet -> BOOLEAN]
          /\ \A s \in SiteSet : releasing[s] <=> held[s] # <<>>
      BY DEF WorldIInv, Basics, Gated
    <2>3. /\ held' \in [SiteSet -> Seq(Readings)] /\ releasing' \in [SiteSet -> BOOLEAN]
          /\ releasing'[site] /\ held'[site] # <<>>
          /\ \A s \in SiteSet : s # site => releasing'[s] = releasing[s] /\ held'[s] = held[s]
      BY <1>1, <1>5, <1>6, <2>2
    <2> QED BY <1>1, <1>8, <1>9, <2>1, <2>2, <2>3, Zenon DEF GatesMove
  <1>12. counter' \in Nat /\ \A o \in generated' : o.id \in 1 .. counter'
    BY <1>1, <1>2, <1>6 DEF Basics
  <1> QED BY <1>1, <1>6, <1>7, <1>8, <1>9, <1>10, <1>11, <1>12, Handled DEF Basics

LEMMA ReleaseKeeps ==
    ASSUME WorldIInv, NEW e \in calendar, Release(e)
    PROVE  WorldIInv'
  <1> DEFINE site == e.data.site
             packet == [Head(held[site]) EXCEPT !.route = Uplink(site)]
  <1>1. /\ e.kind = "release" /\ site \in SiteSet /\ Basics /\ counter \in Nat
        /\ Opens(e, site) /\ \A s : Opens(e, s) => s = site
    BY DEF WorldIInv, Events, Ready, Payload, Release, Due, Basics, Opens
  <1>2. releasing[site] /\ held[site] # <<>> /\ held[site] \in Seq(Readings)
    <2>1. e \in Releasing(site)
      BY <1>1 DEF Releasing
    <2> QED BY <1>1, <2>1 DEF WorldIInv, Gated, Basics
  <1>3. packet \in Carried /\ 1 \in 1 .. Len(packet.route)
    <2>1. PICK head \in Readings : head = Head(held[site])
      BY <1>2
    <2>2. PICK route \in Seq(QueueIds) : route = Uplink(site) /\ Len(route) = 2
      BY <1>1, Routes
    <2>3. packet = [head EXCEPT !.route = route]
      BY <2>1, <2>2
    <2> HIDE DEF packet, site
    <2> QED BY <2>2, <2>3, Routed
  <1>4. PICK rest \in Seq(Readings) : rest = Tail(held[site])
    <2> HIDE DEF site
    <2> QED BY <1>2, Shortened, Zenon
  <1> DEFINE B == ReleaseEvents(site, rest)
  <1>5. /\ held' = [held EXCEPT ![site] = rest] /\ held'[site] = rest
        /\ releasing' = [releasing EXCEPT ![site] = (rest # <<>>)]
        /\ Arrive(packet, 1)
        /\ UNCHANGED <<actuators, counter, generated, conditions>>
    BY <1>1, <1>4 DEF Release, Basics, legs
  <1>6. Handle(e, ArrivalEvents(packet, 1) \o B)
    BY <1>5 DEF Release
  <1>7. /\ Short(B) /\ (B # <<>> => Ready(B[1]))
        /\ \A k : ~Starts(B, k)
        /\ \A s : Gates(B, s) <=> rest # <<>> /\ s = site
    BY <1>1, GateIsReady
  <1> HIDE DEF site, packet, B
  <1>8. /\ QueuesMove(e, ArrivalEvents(packet, 1), B)
        /\ Short(ArrivalEvents(packet, 1))
        /\ ArrivalEvents(packet, 1) # <<>> => Ready(ArrivalEvents(packet, 1)[1])
        /\ \A s : ~Gates(ArrivalEvents(packet, 1), s)
    BY <1>1, <1>3, <1>5, <1>7, ArrivalMoves
  <1>9. GatesMove(e, ArrivalEvents(packet, 1), B)
    <2>1. /\ held \in [SiteSet -> Seq(Readings)] /\ releasing \in [SiteSet -> BOOLEAN]
          /\ \A s \in SiteSet : releasing[s] <=> held[s] # <<>>
      BY DEF WorldIInv, Basics, Gated
    <2>2. /\ held' \in [SiteSet -> Seq(Readings)] /\ releasing' \in [SiteSet -> BOOLEAN]
          /\ releasing'[site] <=> rest # <<>>
          /\ held'[site] = rest
          /\ \A s \in SiteSet : s # site => releasing'[s] = releasing[s] /\ held'[s] = held[s]
      BY <1>1, <1>5, <2>1, Zenon
    <2> QED BY <1>1, <1>7, <1>8, <2>1, <2>2 DEF GatesMove
  <1>10. counter' \in Nat /\ \A o \in generated' : o.id \in 1 .. counter'
    BY <1>1, <1>5 DEF Basics
  <1> QED BY <1>1, <1>5, <1>6, <1>7, <1>8, <1>9, <1>10, Handled DEF Basics

(* A packet that only moves on. *)
LEMMA MoveKeeps ==
    ASSUME WorldIInv, NEW e \in calendar, e.kind \notin {"serviced", "release"},
           NEW packet \in Carried, NEW hop \in 1 .. Len(packet.route), Arrive(packet, hop),
           Handle(e, ArrivalEvents(packet, hop)),
           UNCHANGED <<actuators, gateway, counter, generated, conditions>>
    PROVE  WorldIInv'
  <1> DEFINE A == ArrivalEvents(packet, hop)
  <1>1. /\ QueuesMove(e, A, <<>>)
        /\ Short(A)
        /\ A # <<>> => Ready(A[1])
        /\ \A s : ~Gates(A, s)
    BY ArrivalMoves, NoEvents
  <1>2. GatesMove(e, A, <<>>)
    BY <1>1, GatesStay, NoEvents
  <1>3. A \o <<>> = A
    <2>1. CASE A = <<>>
      BY <2>1
    <2>2. CASE A # <<>>
      <3>1. PICK a : A = <<a>>
        BY <1>1, <2>2 DEF Short
      <3> HIDE DEF A
      <3> QED BY <3>1
    <2> QED BY <2>1, <2>2
  <1>4. counter' \in Nat /\ \A o \in generated' : o.id \in 1 .. counter'
    BY DEF WorldIInv, Basics
  <1>5. UNCHANGED <<actuators, conditions>> /\ Handle(e, A \o <<>>) /\ Short(<<>>)
    BY <1>3, NoEvents
  <1> HIDE DEF A
  <1> QED BY <1>1, <1>2, <1>4, <1>5, Handled DEF WorldIInv, Basics

(* An event that only something is noted of. *)
LEMMA NoteKeeps ==
    ASSUME WorldIInv, NEW e \in calendar, e.kind \notin {"serviced", "release"},
           Handle(e, <<>>), queue' = queue,
           UNCHANGED <<actuators, gateway, counter, generated, conditions>>
    PROVE  WorldIInv'
  <1>1. QueuesMove(e, <<>>, <<>>) /\ GatesMove(e, <<>>, <<>>) /\ Short(<<>>)
    BY QueuesStay, GatesStay, NoEvents
  <1>2. <<>> \o <<>> = <<>>
    OBVIOUS
  <1>3. counter' \in Nat /\ \A o \in generated' : o.id \in 1 .. counter'
    BY DEF WorldIInv, Basics
  <1>4. UNCHANGED <<actuators, conditions>> /\ Handle(e, <<>> \o <<>>)
    BY <1>2
  <1> QED BY <1>1, <1>3, <1>4, Handled DEF WorldIInv, Basics

LEMMA RespondKeeps ==
    ASSUME WorldIInv, NEW e \in calendar, Respond(e)
    PROVE  WorldIInv'
  <1> DEFINE request == e.data.packet
             response == [request EXCEPT !.kind = "response", !.route = Uplink(request.site)]
  <1>1. e.kind = "respond" /\ request \in Packets /\ Basics
    BY DEF WorldIInv, Events, Ready, Payload, Respond, Due, Carried
  <1>2. PICK route \in Seq(QueueIds) : route = Uplink(request.site) /\ Len(route) = 2
    BY <1>1, Routes DEF Packets
  <1>3. response = [request EXCEPT !.kind = "response", !.route = route]
    BY <1>2
  <1>4. /\ Arrive(response, 1) /\ Handle(e, ArrivalEvents(response, 1))
        /\ UNCHANGED <<actuators, gateway, counter, generated, conditions>>
    BY DEF Respond, legs
  <1> HIDE DEF request, response
  <1>5. response \in Carried /\ 1 \in 1 .. Len(response.route)
    BY <1>1, <1>2, <1>3, Rerouted DEF Kinds
  <1> QED BY <1>1, <1>4, <1>5, MoveKeeps

LEMMA HopKeeps ==
    ASSUME WorldIInv, NEW e \in calendar, Hop(e)
    PROVE  WorldIInv'
  <1> DEFINE packet == e.data.packet
             hop == e.data.hop
  <1>1. e.kind = "hop" /\ packet \in Carried /\ hop \in 1 .. Len(packet.route)
    BY DEF WorldIInv, Events, Ready, Payload, Hop, Due, Waits
  <1>2. /\ Arrive(packet, hop) /\ Handle(e, ArrivalEvents(packet, hop))
        /\ UNCHANGED <<actuators, gateway, counter, generated, conditions>>
    BY DEF Hop, legs
  <1> HIDE DEF packet, hop
  <1> QED BY <1>1, <1>2, MoveKeeps

LEMMA EchoKeeps ==
    ASSUME WorldIInv, NEW e \in calendar, Echo(e)
    PROVE  WorldIInv'
  <1> DEFINE probe == e.data.packet
             packet == [probe EXCEPT !.kind = "probe_echo",
                                     !.route = << <<probe.site, probe.route[1][2], "down">> >>]
  <1>1. e.kind = "echo" /\ probe \in Carried /\ probe \in Packets /\ probe.kind = "probe"
    BY DEF WorldIInv, Events, Ready, Payload, Echo, Due, Carried
  <1>2. PICK leg \in LegSet : probe.route = << <<probe.site, leg, "up">> >>
    BY <1>1 DEF Carried
  <1>3. PICK route \in Seq(QueueIds) :
           route = << <<probe.site, probe.route[1][2], "down">> >> /\ Len(route) = 1
    <2>1. probe.route[1][2] = leg
      BY <1>2
    <2>2. PICK k \in QueueIds : k = <<probe.site, leg, "down">>
      BY <1>1 DEF Packets, QueueIds, Directions
    <2> QED BY <2>1, <2>2, OneHop
  <1>4. packet = [probe EXCEPT !.kind = "probe_echo", !.route = route]
    BY <1>3
  <1>5. /\ Arrive(packet, 1) /\ Handle(e, ArrivalEvents(packet, 1))
        /\ UNCHANGED <<actuators, gateway, counter, generated, conditions>>
    BY DEF Echo, legs
  <1> HIDE DEF probe, packet
  <1>6. packet \in Carried /\ 1 \in 1 .. Len(packet.route)
    BY <1>1, <1>3, <1>4, Rerouted DEF Kinds
  <1> QED BY <1>1, <1>5, <1>6, MoveKeeps

LEMMA DeliverKeeps ==
    ASSUME WorldIInv, NEW e \in calendar, Deliver(e) \/ Answered(e)
    PROVE  WorldIInv'
  <1>1. e.kind \in {"deliver", "answered"}
    BY Zenon DEF Deliver, Answered, Due
  <1>2. /\ Handle(e, <<>>) /\ queue' = queue
        /\ UNCHANGED <<actuators, gateway, counter, generated, conditions>>
    BY DEF Deliver, Answered, legs, ledger
  <1> QED BY <1>1, <1>2, NoteKeeps

(* Where a served packet goes. *)
LEMMA OnwardIsReady ==
    ASSUME Basics, NEW k \in QueueIds, NEW w \in Waits
    PROVE  LET a == Onward(k, w.packet, w.hop)
           IN  Ready(a) /\ a.kind # "serviced" /\ a.kind # "release"
  <1> DEFINE packet == w.packet
             hop == w.hop
             at == now + Delay[Link(k)]
             later == at + ProcessingDelay
             a == Onward(k, packet, hop)
  <1>1. packet \in Carried /\ hop \in 1 .. Len(packet.route) /\ packet.kind \in Kinds
    BY DEF Waits, Carried, Packets
  <1>2. at \in Nat /\ at >= now /\ later \in Nat /\ later >= now
    <2>1. Link(k) \in LegSet \cup {"egress"}
      <3>1. CASE k \in SiteSet \X LegSet \X Directions
        BY <3>1 DEF Link
      <3>2. CASE k \in {Egress(d) : d \in Directions}
        BY <3>2 DEF Link, Egress
      <3> QED BY <3>1, <3>2 DEF QueueIds
    <2>2. Delay[Link(k)] \in Nat /\ ProcessingDelay \in Nat /\ now \in Nat
      BY <2>1, WorldAssumption DEF Basics
    <2> QED BY <2>2
  <1> HIDE DEF packet, hop, at, later
  <1>3. ASSUME hop < Len(packet.route)
        PROVE  Ready(a) /\ a.kind # "serviced" /\ a.kind # "release"
    <2>1. a = Event("hop", at, [packet |-> packet, hop |-> hop + 1])
      BY <1>3 DEF Onward, at
    <2>2. [packet |-> packet, hop |-> hop + 1] \in Waits
      <3>1. hop + 1 \in 1 .. Len(packet.route) /\ hop + 1 \in Nat
        <4>1. Len(packet.route) \in Nat
          BY <1>1 DEF Carried, Packets
        <4> QED BY <1>1, <1>3, <4>1
      <3> DEFINE next == hop + 1
      <3> HIDE DEF next
      <3>2. next \in 1 .. Len(packet.route) /\ next \in Nat
        BY <3>1 DEF next
      <3>3. [packet |-> packet, hop |-> next] \in Waits
        BY <1>1, <3>2 DEF Waits
      <3> QED BY <3>3 DEF next
    <2>3. /\ a.kind = "hop" /\ a.at = at
          /\ a.data.packet = packet /\ a.data.hop = hop + 1
      BY <2>1 DEF Event
    <2> HIDE DEF a
    <2> QED BY <1>2, <2>2, <2>3 DEF Ready, Payload
  <1>4. ASSUME ~(hop < Len(packet.route))
        PROVE  Ready(a) /\ a.kind # "serviced" /\ a.kind # "release"
    <2>1. \/ packet.kind = "probe" /\ a = Event("echo", at, [packet |-> packet])
          \/ a = Event("answered", at, [packet |-> packet])
          \/ a = Event("respond", later, [packet |-> packet])
          \/ a = Event("deliver", at, [packet |-> packet])
      BY <1>4 DEF Onward, at, later
    <2>2. /\ a.data.packet = packet
          /\ \/ packet.kind = "probe" /\ a.kind = "echo" /\ a.at = at
             \/ a.kind \in {"answered", "deliver"} /\ a.at = at
             \/ a.kind = "respond" /\ a.at = later
      BY <2>1 DEF Event
    <2> HIDE DEF a
    <2> QED BY <1>1, <1>2, <2>2 DEF Ready, Payload
  <1> QED BY <1>3, <1>4 DEF packet, hop

LEMMA ServicedKeeps ==
    ASSUME WorldIInv, NEW e \in calendar, Serviced(e)
    PROVE  WorldIInv'
  <1> DEFINE k == e.data.queue
             served == Head(queue[k].waiting)
             shorter == [queue[k] EXCEPT !.waiting = Tail(@), !.occupied = @ - SizeOf(served.packet)]
             q == StartService(shorter)
             A == <<Onward(k, served.packet, served.hop)>>
             B == ServiceOf(k, q)
  <1>1. /\ e.kind = "serviced" /\ k \in QueueIds /\ Basics /\ Bounded /\ Served
        /\ Ends(e, k) /\ \A j : Ends(e, j) => j = k
    BY DEF WorldIInv, Events, Ready, Payload, Serviced, Due, Ends
  <1>2. queue[k].busy /\ queue[k].waiting # <<>>
    <2>1. e \in Serving(k)
      BY <1>1 DEF Serving
    <2> QED BY <1>1, <2>1 DEF Served
  <1>3. /\ queue' = [queue EXCEPT ![k] = q] /\ Handle(e, A \o B)
        /\ UNCHANGED <<actuators, gateway, counter, generated, conditions>>
    BY Zenon DEF Serviced, legs, ledger
  <1>4. PICK waiting \in Seq(Waits), occupied \in Nat :
           queue[k].waiting = waiting /\ queue[k].occupied = occupied
    BY <1>1 DEF Basics, QueueStates
  <1> DEFINE rest == Tail(waiting)
             left == occupied - SizeOf(served.packet)
  <1>5. /\ rest \in Seq(Waits) /\ served \in Waits
        /\ left = BytesOf(rest) /\ left \in Nat /\ left <= occupied
    <2>1. served = Head(waiting) /\ waiting # <<>>
      BY <1>2, <1>4
    <2> HIDE DEF served, k
    <2>2. rest \in Seq(Waits) /\ served \in Waits
      BY <2>1, Shortened
    <2>3. BytesOf(waiting) = SizeOf(served.packet) + BytesOf(rest) /\ BytesOf(rest) \in Nat
      BY <2>1, BytesServed, WaitingIsSized
    <2>4. occupied = BytesOf(waiting) /\ SizeOf(served.packet) \in Nat
      BY <1>1, <1>4, <2>2, WaitingIsSized DEF Bounded
    <2> HIDE DEF rest
    <2> QED BY <2>2, <2>3, <2>4
  <1>6. /\ shorter \in QueueStates /\ shorter.rate = queue[k].rate
        /\ shorter.waiting = rest /\ shorter.occupied = left
    <2>1. shorter = [queue[k] EXCEPT !.waiting = rest, !.occupied = left]
      BY <1>4
    <2>2. queue[k] \in QueueStates
      BY <1>1 DEF Basics
    <2> HIDE DEF shorter, rest, left, k, served
    <2> QED BY <1>5, <2>1, <2>2 DEF QueueStates
  <1>7. /\ q \in QueueStates /\ q.rate = queue[k].rate /\ q.waiting = rest /\ q.occupied = left
        /\ q.busy <=> rest # <<>> /\ q.rate > 0
    <2> HIDE DEF shorter, rest, left, k
    <2> QED BY <1>6, StartedService
  <1>8. /\ Ready(A[1]) /\ Short(A) /\ \A j : ~Starts(A, j)
        /\ \A site : ~Gates(A, site)
    <2> DEFINE a == Onward(k, served.packet, served.hop)
    <2>1. Ready(a) /\ a.kind # "serviced" /\ a.kind # "release"
      BY <1>1, <1>5, OnwardIsReady
    <2> HIDE DEF a
    <2> QED BY <2>1, OneEvent, Zenon DEF a
  <1> HIDE DEF shorter, rest, left, k, served, q
  <1>9. /\ Short(B) /\ (B # <<>> => Ready(B[1]))
        /\ \A j : Starts(B, j) <=> q.busy /\ j = k
        /\ \A site : ~Gates(B, site)
    BY <1>1, <1>7, ServiceIsReady
  <1> HIDE DEF A, B
  <1>10. QueuesMove(e, A, B)
    <2>1. /\ queue \in [QueueIds -> QueueStates]
          /\ \A j \in QueueIds : Within(j, queue[j])
          /\ \A j \in QueueIds :
                IF queue[j].busy THEN queue[j].waiting # <<>>
                ELSE queue[j].waiting = <<>> \/ queue[j].rate = 0
      BY <1>1 DEF Basics, Bounded, Served, Within
    <2>2. /\ queue'[k] = q /\ \A j \in QueueIds : j # k => queue'[j] = queue[j]
          /\ queue' \in [QueueIds -> QueueStates]
      BY <1>1, <1>3, <1>7, <2>1
    <2>3. Within(k, q)
      <3>1. world.limit \in Nat
        BY <1>1, WorldAssumption DEF Basics
      <3>2. occupied <= world.limit
        BY <1>1, <1>4 DEF Bounded
      <3> QED BY <1>1, <1>5, <1>7, <2>1, <3>1, <3>2 DEF Within
    <2>4. IF q.busy THEN q.waiting # <<>> ELSE q.waiting = <<>> \/ q.rate = 0
      BY <1>7 DEF QueueStates
    <2> QED BY <1>1, <1>2, <1>8, <1>9, <2>1, <2>2, <2>3, <2>4 DEF QueuesMove
  <1>11. GatesMove(e, A, B)
    BY <1>1, <1>3, <1>8, <1>9, GatesStay
  <1>12. counter' \in Nat /\ \A o \in generated' : o.id \in 1 .. counter'
    BY <1>1, <1>3 DEF Basics
  <1> QED BY <1>1, <1>3, <1>8, <1>9, <1>10, <1>11, <1>12, Handled DEF Basics

LEMMA ProbeKeeps ==
    ASSUME WorldIInv, NEW e \in calendar, Probe(e)
    PROVE  WorldIInv'
  <1> DEFINE site == e.data.site
             leg == e.data.leg
             packet == Packet(counter + 1, "probe", site, "probe", now, << <<site, leg, "up">> >>)
             at == now + ProbePeriod
             B == Recurring("probe", at, e.data)
  <1>1. /\ e.kind = "probe" /\ site \in SiteSet /\ leg \in LegSet /\ Ready(e)
        /\ Basics /\ counter \in Nat /\ now \in Nat
    BY DEF WorldIInv, Events, Ready, Payload, Probe, Due, Basics
  <1>2. packet \in Carried /\ 1 \in 1 .. Len(packet.route)
    <2>1. PICK k \in QueueIds : k = <<site, leg, "up">>
      BY <1>1 DEF QueueIds, Directions
    <2>2. PICK route \in Seq(QueueIds) : route = <<k>> /\ Len(route) = 1
      BY OneHop
    <2>3. PICK id \in Nat : id = counter + 1
      BY <1>1
    <2>4. packet = [id |-> id, service |-> "probe", site |-> site, kind |-> "probe",
                    generated |-> now, route |-> route]
      BY <2>1, <2>2, <2>3 DEF Packet
    <2>5. route = << <<site, leg, "up">> >>
      BY <2>1, <2>2
    <2> HIDE DEF packet, site, leg
    <2>6. packet \in Packets
      BY <1>1, <2>4 DEF Packets, Kinds
    <2> QED BY <1>1, <2>2, <2>4, <2>5, <2>6 DEF Carried
  <1>3. at \in Nat /\ at >= now
    BY <1>1, WorldAssumption
  <1>4. /\ counter' = counter + 1 /\ UNCHANGED generated
        /\ Arrive(packet, 1) /\ Handle(e, ArrivalEvents(packet, 1) \o B)
        /\ UNCHANGED <<actuators, gateway, conditions>>
    BY DEF Probe, legs
  <1>5. /\ Short(B) /\ (B # <<>> => Ready(B[1]))
        /\ \A k : ~Starts(B, k)
        /\ \A s : ~Gates(B, s)
    BY <1>1, <1>3, Recurs
  <1> HIDE DEF site, leg, packet, at, B
  <1>6. /\ QueuesMove(e, ArrivalEvents(packet, 1), B)
        /\ Short(ArrivalEvents(packet, 1))
        /\ ArrivalEvents(packet, 1) # <<>> => Ready(ArrivalEvents(packet, 1)[1])
        /\ \A s : ~Gates(ArrivalEvents(packet, 1), s)
    BY <1>1, <1>2, <1>4, <1>5, ArrivalMoves
  <1>7. GatesMove(e, ArrivalEvents(packet, 1), B)
    BY <1>1, <1>4, <1>5, <1>6, GatesStay
  <1>8. counter' \in Nat /\ \A o \in generated' : o.id \in 1 .. counter'
    BY <1>1, <1>4 DEF Basics
  <1> QED BY <1>1, <1>4, <1>5, <1>6, <1>7, <1>8, Handled DEF Basics

(* A queue whose rate is changed: it is woken when it has to be.              *)
LEMMA DisturbedQueue ==
    ASSUME Basics, Bounded, Served, NEW k \in QueueIds, NEW rate \in Rates
    PROVE  LET q == Disturbed(k, rate)
               A == IF queue[k].busy THEN <<>> ELSE ServiceOf(k, q)
           IN  /\ q \in QueueStates /\ Within(k, q)
               /\ Short(A) /\ (A # <<>> => Ready(A[1]))
               /\ \A site : ~Gates(A, site)
               /\ \A j : Starts(A, j) <=> q.busy /\ ~queue[k].busy /\ j = k
               /\ queue[k].busy => q.busy
               /\ IF q.busy THEN q.waiting # <<>> ELSE q.waiting = <<>> \/ q.rate = 0
  <1> DEFINE q == Disturbed(k, rate)
             A == IF queue[k].busy THEN <<>> ELSE ServiceOf(k, q)
             rated == [queue[k] EXCEPT !.rate = rate]
  <1>1. /\ queue[k] \in QueueStates /\ Within(k, queue[k]) /\ rate \in Nat
        /\ IF queue[k].busy THEN queue[k].waiting # <<>>
           ELSE queue[k].waiting = <<>> \/ queue[k].rate = 0
    BY RatesAreNumbers DEF Basics, Bounded, Served, Within
  <1>2. /\ rated \in QueueStates /\ rated.rate = rate /\ rated.waiting = queue[k].waiting
        /\ rated.occupied = queue[k].occupied /\ rated.busy = queue[k].busy
    BY <1>1 DEF QueueStates
  <1>3. q = IF queue[k].rate = 0 /\ rate > 0 /\ rated.waiting # <<>> /\ ~rated.busy
            THEN StartService(rated) ELSE rated
    BY DEF Disturbed
  <1> HIDE DEF q, rated
  <1>4. /\ q \in QueueStates /\ q.rate = rate /\ q.waiting = queue[k].waiting
        /\ q.occupied = queue[k].occupied
        /\ q.busy <=> \/ queue[k].busy
                      \/ queue[k].rate = 0 /\ rate > 0 /\ queue[k].waiting # <<>>
    BY <1>2, <1>3, StartedService DEF QueueStates
  <1>5. Within(k, q)
    BY <1>1, <1>4 DEF Within
  <1>6. /\ queue[k].busy => q.busy
        /\ IF q.busy THEN q.waiting # <<>> ELSE q.waiting = <<>> \/ q.rate = 0
    BY <1>1, <1>4
  <1>7. /\ Short(A) /\ (A # <<>> => Ready(A[1]))
        /\ \A site : ~Gates(A, site)
        /\ \A j : Starts(A, j) <=> q.busy /\ ~queue[k].busy /\ j = k
    <2>1. CASE queue[k].busy
      BY <2>1, NoEvents
    <2>2. CASE ~queue[k].busy
      <3>1. q.busy => q.waiting # <<>> /\ q.rate > 0
        BY <1>4, <2>2
      <3> QED BY <1>4, <2>2, <3>1, ServiceIsReady
    <2> QED BY <2>1, <2>2
  <1> QED BY <1>4, <1>5, <1>6, <1>7 DEF q

LEMMA DisturbKeeps ==
    ASSUME WorldIInv, NEW e \in calendar, Disturb(e)
    PROVE  WorldIInv'
  <1> DEFINE d == e.data
             rate == RateFor(d)
             after == ConditionAfter(d)
             up == <<d.site, d.leg, "up">>
             down == <<d.site, d.leg, "down">>
             a == Disturbed(up, rate)
             b == Disturbed(down, rate)
             A == IF queue[up].busy THEN <<>> ELSE ServiceOf(up, a)
             B == IF queue[down].busy THEN <<>> ELSE ServiceOf(down, b)
  <1>1. /\ e.kind = "disturb" /\ AdmissibleDisturbance(d) /\ d \in ToSet(world.disturbances)
        /\ Basics /\ Bounded /\ Served
        /\ \A j : ~Ends(e, j)
    BY DEF WorldIInv, Events, Ready, Payload, Disturb, Due, Ends
  <1>2. /\ d.site \in SiteSet /\ d.leg \in LegSet
        /\ up \in QueueIds /\ down \in QueueIds /\ up # down
    BY <1>1 DEF AdmissibleDisturbance, QueueIds, Directions
  <1>3. after \in [loss : Nat, ues : Nat]
    <2>1. conditions[<<d.site, d.leg>>] \in [loss : Nat, ues : Nat]
      BY <1>1, <1>2 DEF Basics
    <2>2. \/ d.kind = "rate"
          \/ d.kind = "radio_loss" /\ d.loss \in Nat
          \/ d.kind = "cell_load" /\ d.ues \in Nat
      BY <1>1 DEF AdmissibleDisturbance
    <2> HIDE DEF d
    <2> QED BY <2>1, <2>2 DEF ConditionAfter
  <1>4. rate \in Rates
    <2>1. CASE d.kind = "rate"
      <3>1. d.rate \in UNION {{x.rate : x \in {y \in ToSet(w.disturbances) : y.kind = "rate"}} : w \in Worlds}
        BY <1>1, <2>1 DEF Basics
      <3> QED BY <2>1, <3>1 DEF RateFor, Rates
    <2>2. CASE d.kind # "rate"
      <3>1. RateTable[d.leg] # {}
        BY <1>1, <2>2 DEF AdmissibleDisturbance
      <3> QED BY <1>2, <1>3, <2>2, <3>1, LookedUp DEF RateFor
    <2> QED BY <2>1, <2>2
  <1>5. /\ queue' = [queue EXCEPT ![up] = a, ![down] = b]
        /\ conditions' = [conditions EXCEPT ![<<d.site, d.leg>>] = after]
        /\ Handle(e, A \o B)
        /\ UNCHANGED <<actuators, gateway, counter, generated>>
    BY DEF Disturb, ledger
  <1> HIDE DEF d, rate, after, up, down
  <1>6. /\ a \in QueueStates /\ Within(up, a)
        /\ Short(A) /\ (A # <<>> => Ready(A[1]))
        /\ \A site : ~Gates(A, site)
        /\ \A j : Starts(A, j) <=> a.busy /\ ~queue[up].busy /\ j = up
        /\ queue[up].busy => a.busy
        /\ IF a.busy THEN a.waiting # <<>> ELSE a.waiting = <<>> \/ a.rate = 0
    BY <1>1, <1>2, <1>4, DisturbedQueue
  <1>7. /\ b \in QueueStates /\ Within(down, b)
        /\ Short(B) /\ (B # <<>> => Ready(B[1]))
        /\ \A site : ~Gates(B, site)
        /\ \A j : Starts(B, j) <=> b.busy /\ ~queue[down].busy /\ j = down
        /\ queue[down].busy => b.busy
        /\ IF b.busy THEN b.waiting # <<>> ELSE b.waiting = <<>> \/ b.rate = 0
    BY <1>1, <1>2, <1>4, DisturbedQueue
  <1> HIDE DEF a, b, A, B
  <1>8. QueuesMove(e, A, B)
    <2>1. /\ queue \in [QueueIds -> QueueStates]
          /\ \A j \in QueueIds : Within(j, queue[j])
          /\ \A j \in QueueIds :
                IF queue[j].busy THEN queue[j].waiting # <<>>
                ELSE queue[j].waiting = <<>> \/ queue[j].rate = 0
      BY <1>1 DEF Basics, Bounded, Served, Within
    <2>2. /\ queue'[up] = a /\ queue'[down] = b
          /\ \A j \in QueueIds : j # up /\ j # down => queue'[j] = queue[j]
          /\ queue' \in [QueueIds -> QueueStates]
      BY <1>2, <1>5, <1>6, <1>7, <2>1
    <2>3. ASSUME NEW j \in QueueIds
          PROVE  /\ Within(j, queue'[j])
                 /\ ~(Starts(A, j) /\ Starts(B, j))
                 /\ Starts(A, j) \/ Starts(B, j) => ~queue[j].busy
                 /\ queue'[j].busy <=> queue[j].busy \/ Starts(A, j) \/ Starts(B, j)
                 /\ IF queue'[j].busy THEN queue'[j].waiting # <<>>
                    ELSE queue'[j].waiting = <<>> \/ queue'[j].rate = 0
      <3>1. CASE j = up
        BY <1>2, <1>6, <1>7, <2>2, <3>1 DEF QueueStates
      <3>2. CASE j = down
        BY <1>2, <1>6, <1>7, <2>2, <3>2 DEF QueueStates
      <3>3. CASE j # up /\ j # down
        BY <1>6, <1>7, <2>1, <2>2, <3>3
      <3> QED BY <3>1, <3>2, <3>3
    <2> QED BY <1>1, <2>2, <2>3 DEF QueuesMove
  <1>9. GatesMove(e, A, B)
    BY <1>1, <1>5, <1>6, <1>7, GatesStay
  <1>10. conditions' \in [SiteSet \X LegSet -> [loss : Nat, ues : Nat]]
    BY <1>1, <1>2, <1>3, <1>5 DEF Basics
  <1>11. counter' \in Nat /\ \A o \in generated' : o.id \in 1 .. counter'
    BY <1>1, <1>5 DEF Basics
  <1> QED BY <1>5, <1>6, <1>7, <1>8, <1>9, <1>10, <1>11, Handled

-------------------------------------------------------------------------------
(* Commands, and the time between two events.                                *)

LEMMA CommandKeeps ==
    ASSUME WorldIInv, NEW site \in SiteSet, NEW expected \in 0 .. MaxCommands,
           \/ \E leg \in LegSet : SelectPath(site, leg, expected)
           \/ \E profile \in Profiles : SetAmiPacing(site, profile, expected)
    PROVE  WorldIInv'
  <1>1. expected + 1 \in 0 .. MaxCommands
    BY WorldAssumption DEF SelectPath, SetAmiPacing
  <1> DEFINE next == expected + 1
  <1>2. /\ UNCHANGED <<world, now, sequence, calendar, queue, held, releasing, counter, generated, conditions>>
        /\ \/ \E leg \in LegSet : /\ path' = [path EXCEPT ![site] = leg]
                                  /\ pathVersion' = [pathVersion EXCEPT ![site] = next]
                                  /\ UNCHANGED <<pacing, pacingVersion>>
           \/ \E profile \in Profiles : /\ pacing' = [pacing EXCEPT ![site] = profile]
                                         /\ pacingVersion' = [pacingVersion EXCEPT ![site] = next]
                                         /\ UNCHANGED <<path, pathVersion>>
    BY DEF SelectPath, SetAmiPacing, gateway, ledger, legs, WorldIInv, Basics
  <1> HIDE DEF next
  <1>3. Basics'
    BY <1>1, <1>2, Zenon DEF WorldIInv, Basics, next
  <1>4. Events'
    BY <1>2, Zenon DEF WorldIInv, Events, Ready, Payload
  <1>5. Bounded' /\ Served' /\ Gated'
    BY <1>2 DEF WorldIInv, Bounded, Served, Gated, Serving, Releasing
  <1> QED BY <1>3, <1>4, <1>5 DEF WorldIInv

LEMMA TickKeeps ==
    ASSUME WorldIInv, Tick
    PROVE  WorldIInv'
  <1>1. UNCHANGED <<world, sequence, calendar, path, pacing, pathVersion, pacingVersion, queue,
                    held, releasing, counter, generated, conditions>>
    BY DEF Tick, actuators, gateway, ledger, legs
  <1>2. now' = now + 1 /\ now' \in 0 .. End
    BY WorldAssumption DEF Tick, WorldIInv, Basics
  <1>3. Basics'
    BY <1>1, <1>2 DEF WorldIInv, Basics
  <1>4. Events'
    <2>1. SUFFICES ASSUME NEW e \in calendar PROVE Ready(e)' /\ e.seq \in 1 .. sequence
      BY <1>1 DEF Events
    <2>2. Ready(e) /\ e.seq \in 1 .. sequence /\ e.at > now /\ now \in Nat
      BY DEF WorldIInv, Events, Basics, Tick, Settled
    <2>3. e.at >= now'
      BY <1>2, <2>2 DEF Ready
    <2> QED BY <1>1, <2>2, <2>3 DEF Ready, Payload
  <1>5. Bounded' /\ Served' /\ Gated'
    BY <1>1 DEF WorldIInv, Bounded, Served, Gated, Serving, Releasing
  <1> QED BY <1>3, <1>4, <1>5 DEF WorldIInv

LEMMA StutterKeeps ==
    ASSUME WorldIInv, UNCHANGED vars
    PROVE  WorldIInv'
  <1>1. UNCHANGED <<world, now, sequence, calendar, path, pacing, pathVersion, pacingVersion, queue,
                    held, releasing, counter, generated, conditions>>
    BY DEF vars, actuators, gateway, ledger, legs
  <1>2. Basics' /\ Bounded' /\ Served' /\ Gated'
    BY <1>1 DEF WorldIInv, Basics, Bounded, Served, Gated, Serving, Releasing
  <1>3. Events'
    BY <1>1 DEF WorldIInv, Events, Ready, Payload
  <1> QED BY <1>2, <1>3 DEF WorldIInv

-------------------------------------------------------------------------------
(* The calendar at the start.                                                *)

LEMMA PairsAre ==
    ASSUME NEW S, NEW T, NEW outer \in Seq(S), NEW inner \in Seq(T)
    PROVE  /\ DOMAIN Pairs(outer, inner) = 1 .. Len(outer) * Len(inner)
           /\ Len(outer) * Len(inner) \in Nat
           /\ \A k \in DOMAIN Pairs(outer, inner) :
                 Pairs(outer, inner)[k][1] \in S /\ Pairs(outer, inner)[k][2] \in T
  <1> DEFINE m == Len(outer)
             d == Len(inner)
  <1>1. m \in Nat /\ d \in Nat
    OBVIOUS
  <1>2. DOMAIN Pairs(outer, inner) = 1 .. m * d
    BY DEF Pairs
  <1>3. m * d \in Nat
    <2> HIDE DEF m, d
    <2> QED BY <1>1
  <1>4. ASSUME NEW k \in 1 .. m * d
        PROVE  Pairs(outer, inner)[k][1] \in S /\ Pairs(outer, inner)[k][2] \in T
    <2> DEFINE i == (k - 1) \div d
               j == (k - 1) % d
    <2>1. i \in 0 .. m - 1 /\ j \in 0 .. d - 1
      <3> HIDE DEF m, d
      <3>1. k - 1 \in Nat /\ k - 1 < m * d
        BY <1>3
      <3>2. d # 0 /\ i \in 0 .. m - 1
        BY <1>1, <3>1, Quotient
      <3>3. j \in 0 .. d - 1
        BY <1>1, <3>1, <3>2, Remainder
      <3> QED BY <3>2, <3>3
    <2>2. Pairs(outer, inner)[k] = <<outer[i + 1], inner[j + 1]>>
      BY <1>4 DEF Pairs
    <2> HIDE DEF i, j
    <2>3. i + 1 \in 1 .. m /\ j + 1 \in 1 .. d
      <3> HIDE DEF m, d
      <3> QED BY <1>1, <2>1
    <2>4. outer[i + 1] \in S /\ inner[j + 1] \in T
      BY <2>3
    <2> QED BY <2>2, <2>4
  <1> QED BY <1>2, <1>3, <1>4

LEMMA Joined ==
    ASSUME NEW S, NEW f, NEW g, NEW h, NEW l \in Nat, NEW m \in Nat, NEW n \in Nat,
           f \in [1 .. l -> S], g \in [1 .. m -> S], h \in [1 .. n -> S]
    PROVE  f \o g \o h \in Seq(S)
  <1>1. f \in Seq(S) /\ g \in Seq(S) /\ h \in Seq(S)
    OBVIOUS
  <1> QED BY <1>1

Starting == {"generate", "probe", "disturb"}

Fresh(a) == Ready(a) /\ a.kind \in Starting /\ (a.kind = "disturb" => a.data.at = a.at)

LEMMA InitialCalendar ==
    ASSUME Init
    PROVE  /\ Len(InitialEvents) \in Nat /\ DOMAIN InitialEvents = 1 .. Len(InitialEvents)
           /\ \A k \in DOMAIN InitialEvents :
                 /\ Ready(InitialEvents[k]) /\ InitialEvents[k].kind \in Starting
                 /\ InitialEvents[k].kind = "disturb" => InitialEvents[k].data.at = InitialEvents[k].at
  <1> DEFINE flows == Pairs(Services, Sites)
             paths == Pairs(Sites, Legs)
             disturbances == world.disturbances
             flow(k) == Event("generate", 0, [service |-> flows[k][1], site |-> flows[k][2]])
             probed(k) == Event("probe", ProbeStart, [site |-> paths[k][1], leg |-> paths[k][2]])
             disturbed(k) == Event("disturb", disturbances[k].at, disturbances[k])
             f == [k \in DOMAIN flows |-> flow(k)]
             g == [k \in DOMAIN paths |-> probed(k)]
             h == [k \in DOMAIN disturbances |-> disturbed(k)]
             S == {f[k] : k \in DOMAIN f} \cup {g[k] : k \in DOMAIN g} \cup {h[k] : k \in DOMAIN h}
  <1>1. now = 0 /\ world \in Worlds /\ ProbeStart \in Nat
    BY WorldAssumption DEF Init
  <1>2. Services \in Seq(ToSet(Services)) /\ Sites \in Seq(SiteSet) /\ Legs \in Seq(LegSet)
    BY WorldAssumption DEF Services, ToSet
  <1>3. ASSUME NEW k \in DOMAIN f PROVE Fresh(f[k])
    <2>1. flows[k][1] \in ToSet(Services) /\ flows[k][2] \in SiteSet
      BY <1>2, <1>3, PairsAre
    <2>2. f[k] = flow(k)
      BY <1>3
    <2>3. /\ flow(k).kind = "generate" /\ flow(k).at = 0
          /\ flow(k).data.service = flows[k][1] /\ flow(k).data.site = flows[k][2]
      BY DEF Event
    <2> HIDE DEF f, flow, flows
    <2> QED BY <1>1, <2>1, <2>2, <2>3 DEF Fresh, Ready, Payload, Starting
  <1>4. ASSUME NEW k \in DOMAIN g PROVE Fresh(g[k])
    <2>1. paths[k][1] \in SiteSet /\ paths[k][2] \in LegSet
      BY <1>2, <1>4, PairsAre
    <2>2. g[k] = probed(k)
      BY <1>4
    <2>3. /\ probed(k).kind = "probe" /\ probed(k).at = ProbeStart
          /\ probed(k).data.site = paths[k][1] /\ probed(k).data.leg = paths[k][2]
      BY DEF Event
    <2> HIDE DEF g, probed, paths
    <2> QED BY <1>1, <2>1, <2>2, <2>3 DEF Fresh, Ready, Payload, Starting
  <1>5. ASSUME NEW k \in DOMAIN h PROVE Fresh(h[k])
    <2>1. disturbances[k] \in ToSet(disturbances)
      BY <1>5 DEF ToSet
    <2>2. AdmissibleDisturbance(disturbances[k])
      BY <1>1, <2>1, WorldAssumption
    <2>3. disturbances[k].at \in Nat
      BY <2>2 DEF AdmissibleDisturbance
    <2>4. h[k] = disturbed(k)
      BY <1>5
    <2>5. /\ disturbed(k).kind = "disturb" /\ disturbed(k).at = disturbances[k].at
          /\ disturbed(k).data = disturbances[k]
      BY DEF Event
    <2> HIDE DEF h, disturbed
    <2> QED BY <1>1, <2>1, <2>2, <2>3, <2>4, <2>5 DEF Fresh, Ready, Payload, Starting
  <1>6. PICK l \in Nat, m \in Nat, n \in Nat :
           f \in [1 .. l -> S] /\ g \in [1 .. m -> S] /\ h \in [1 .. n -> S]
    <2>1. PICK l \in Nat : DOMAIN f = 1 .. l
      BY <1>2, PairsAre
    <2>2. PICK m \in Nat : DOMAIN g = 1 .. m
      BY <1>2, PairsAre
    <2>3. PICK n \in Nat : DOMAIN h = 1 .. n
      <3>1. disturbances \in Seq(ToSet(disturbances))
        BY <1>1, WorldAssumption
      <3>2. DOMAIN h = DOMAIN disturbances
        OBVIOUS
      <3> HIDE DEF h, disturbances
      <3> QED BY <3>1, <3>2
    <2>4. f \in [DOMAIN f -> S] /\ g \in [DOMAIN g -> S] /\ h \in [DOMAIN h -> S]
      OBVIOUS
    <2> HIDE DEF f, g, h, S
    <2> QED BY <2>1, <2>2, <2>3, <2>4
  <1>7. InitialEvents = f \o g \o h
    BY DEF InitialEvents
  <1>8. \A a \in S : Fresh(a)
    BY <1>3, <1>4, <1>5, Zenon
  <1> HIDE DEF f, g, h, S
  <1>9. InitialEvents \in Seq(S)
    BY <1>6, <1>7, Joined
  <1> QED BY <1>8, <1>9 DEF Fresh

LEMMA InitEstablishes ==
    ASSUME Init
    PROVE  WorldIInv
  <1>1. /\ Len(InitialEvents) \in Nat /\ DOMAIN InitialEvents = 1 .. Len(InitialEvents)
        /\ \A k \in DOMAIN InitialEvents :
              Ready(InitialEvents[k]) /\ InitialEvents[k].kind \in Starting
    BY InitialCalendar
  <1>2. /\ sequence = Len(InitialEvents)
        /\ calendar = {Scheduled(InitialEvents[k], k) : k \in DOMAIN InitialEvents}
    BY DEF Init
  <1>3. ASSUME NEW e \in calendar
        PROVE  Ready(e) /\ e.seq \in 1 .. sequence /\ e.kind \in Starting
    <2>1. PICK k \in DOMAIN InitialEvents : e = Scheduled(InitialEvents[k], k)
      BY <1>2
    <2>2. Ready(e) /\ e.seq = k
      BY <1>1, <2>1, ScheduledIsReady
    <2>3. e.kind \in Starting
      BY <1>1, <2>1 DEF Scheduled
    <2> QED BY <1>1, <1>2, <2>2, <2>3
  <1>4. Events
    BY <1>3 DEF Events
  <1>5. /\ \A k : Serving(k) = {}
        /\ \A site : Releasing(site) = {}
    BY <1>3 DEF Serving, Releasing, Ends, Opens, Starting
  <1>6. Served /\ Gated
    BY <1>5 DEF Init, Served, Gated
  <1>7. ASSUME NEW k \in QueueIds
        PROVE  /\ Link(k) \in LegSet \cup {"egress"}
               /\ Capacity[Link(k)] \in Nat /\ Capacity[Link(k)] \in Rates
    <2>1. Link(k) \in LegSet \cup {"egress"}
      <3>1. CASE k \in SiteSet \X LegSet \X Directions
        BY <3>1 DEF Link
      <3>2. CASE k \in {Egress(d) : d \in Directions}
        BY <3>2 DEF Link, Egress
      <3> QED BY <3>1, <3>2 DEF QueueIds
    <2>2. Capacity[Link(k)] \in Rates
      BY <2>1 DEF Rates
    <2> QED BY <2>1, <2>2, RatesAreNumbers
  <1>8. world \in Worlds /\ world.limit \in Nat /\ world.pacing \in Profiles
    BY WorldAssumption DEF Init
  <1>9. Bounded
    BY <1>7, <1>8, NoBytes DEF Init, Bounded
  <1>10. queue \in [QueueIds -> QueueStates]
    <2>1. <<>> \in Seq(Waits)
      OBVIOUS
    <2> QED BY <1>7, <2>1 DEF Init, QueueStates
  <1>11. Basics
    <2>1. Legs[1] \in LegSet
      BY WorldAssumption DEF LegSet, ToSet
    <2>2. 0 \in 0 .. End /\ 0 \in 0 .. MaxCommands
      BY WorldAssumption
    <2>3. <<>> \in Seq(Readings)
      OBVIOUS
    <2> QED BY <1>1, <1>2, <1>8, <1>10, <2>1, <2>2, <2>3 DEF Init, Basics
  <1> QED BY <1>4, <1>6, <1>9, <1>11 DEF WorldIInv

LEMMA NextKeeps ==
    ASSUME WorldIInv, [Next]_vars
    PROVE  WorldIInv'
  <1>1. CASE Tick
    BY <1>1, TickKeeps
  <1>2. ASSUME NEW e \in calendar, GenerateRequest(e) PROVE WorldIInv'
    BY <1>2, RequestKeeps
  <1>3. ASSUME NEW e \in calendar, GenerateReading(e) PROVE WorldIInv'
    BY <1>3, ReadingKeeps
  <1>4. ASSUME NEW e \in calendar, Release(e) PROVE WorldIInv'
    BY <1>4, ReleaseKeeps
  <1>5. ASSUME NEW e \in calendar, Respond(e) PROVE WorldIInv'
    BY <1>5, RespondKeeps
  <1>6. ASSUME NEW e \in calendar, Hop(e) PROVE WorldIInv'
    BY <1>6, HopKeeps
  <1>7. ASSUME NEW e \in calendar, Serviced(e) PROVE WorldIInv'
    BY <1>7, ServicedKeeps
  <1>8. ASSUME NEW e \in calendar, Deliver(e) \/ Answered(e) PROVE WorldIInv'
    BY <1>8, DeliverKeeps
  <1>9. ASSUME NEW e \in calendar, Probe(e) PROVE WorldIInv'
    BY <1>9, ProbeKeeps
  <1>10. ASSUME NEW e \in calendar, Echo(e) PROVE WorldIInv'
    BY <1>10, EchoKeeps
  <1>11. ASSUME NEW e \in calendar, Disturb(e) PROVE WorldIInv'
    BY <1>11, DisturbKeeps
  <1>12. ASSUME NEW site \in SiteSet, NEW expected \in 0 .. MaxCommands,
                \/ \E leg \in LegSet : SelectPath(site, leg, expected)
                \/ \E profile \in Profiles : SetAmiPacing(site, profile, expected)
         PROVE  WorldIInv'
    BY <1>12, CommandKeeps
  <1>13. CASE UNCHANGED vars
    BY <1>13, StutterKeeps
  <1> QED BY <1>1, <1>2, <1>3, <1>4, <1>5, <1>6, <1>7, <1>8, <1>9, <1>10, <1>11, <1>12, <1>13
          DEF Next, Advance

LEMMA Singleton ==
    ASSUME NEW S, NEW flag, IF flag THEN \E e : S = {e} ELSE S = {}
    PROVE  Cardinality(S) = IF flag THEN 1 ELSE 0
  BY FS_Singleton, FS_EmptySet

LEMMA WorldIInvImplies ==
    ASSUME WorldIInv
    PROVE  WorldInv
  <1>1. TypeOK
    <2>1. \A e \in calendar : e.kind \in EventKinds /\ e.at >= now /\ e.seq \in 1 .. sequence
      BY DEF WorldIInv, Events, Ready, Payload, EventKinds
    <2>2. /\ DOMAIN queue = QueueIds
          /\ \A k \in QueueIds : queue[k].rate \in Rates /\ queue[k].busy \in BOOLEAN
      BY DEF WorldIInv, Basics, Bounded, QueueStates
    <2> QED BY <2>1, <2>2 DEF WorldIInv, Basics, TypeOK
  <1>2. OneService
    <2>1. ASSUME NEW k \in QueueIds
          PROVE  /\ Cardinality(Serving(k)) = IF queue[k].busy THEN 1 ELSE 0
                 /\ queue[k].busy => queue[k].waiting # <<>>
                 /\ ~queue[k].busy => queue[k].waiting = <<>> \/ queue[k].rate = 0
      <3>1. IF queue[k].busy THEN \E e : Serving(k) = {e} ELSE Serving(k) = {}
        BY DEF WorldIInv, Served
      <3>2. Cardinality(Serving(k)) = IF queue[k].busy THEN 1 ELSE 0
        BY <3>1, Singleton
      <3> QED BY <3>2 DEF WorldIInv, Served
    <2>2. \A k : Serving(k) = {e \in calendar : e.kind = "serviced" /\ e.data.queue = k}
      BY DEF Serving, Ends
    <2> QED BY <2>1, <2>2 DEF OneService
  <1>3. OneRelease
    <2>1. ASSUME NEW site \in SiteSet
          PROVE  /\ Cardinality(Releasing(site)) = IF releasing[site] THEN 1 ELSE 0
                 /\ releasing[site] <=> held[site] # <<>>
      <3>1. IF releasing[site] THEN \E e : Releasing(site) = {e} ELSE Releasing(site) = {}
        BY DEF WorldIInv, Gated
      <3>2. Cardinality(Releasing(site)) = IF releasing[site] THEN 1 ELSE 0
        BY <3>1, Singleton
      <3> QED BY <3>2 DEF WorldIInv, Gated
    <2>2. \A site : Releasing(site) = {e \in calendar : e.kind = "release" /\ e.data.site = site}
      BY DEF Releasing, Opens
    <2> QED BY <2>1, <2>2 DEF OneRelease
  <1>4. WithinLimit
    BY DEF WorldIInv, Bounded, WithinLimit
  <1> QED BY <1>1, <1>2, <1>3, <1>4 DEF WorldInv

(* After every event and every command of any run, a queue is served exactly *)
(* when it has something to serve and a rate, by one event of the calendar;  *)
(* its bytes are those of its packets, within the limit; and a gate counts   *)
(* one interval exactly when it holds a reading: _arrive, _start_service,    *)
(* _on_serviced, _on_disturb and _start_release lose and double no wake-up.  *)
THEOREM WorldSafe == Spec => []WorldInv
  <1>1. Init => WorldIInv
    BY InitEstablishes
  <1>2. WorldIInv /\ [Next]_vars => WorldIInv'
    BY NextKeeps
  <1>3. WorldIInv => WorldInv
    BY WorldIInvImplies
  <1> QED BY <1>1, <1>2, <1>3, PTL DEF Spec

-------------------------------------------------------------------------------
(* Conservation of messages: the kinds of place one may be in.               *)

InQueues(id) ==
    UNION {{<<"queue", k, i>> : i \in {j \in DOMAIN queue[k].waiting :
                                        queue[k].waiting[j].packet.id = id}} : k \in QueueIds}

InEvents(id) ==
    {<<"event", e>> : e \in {c \in calendar : c.kind \in Carriers /\ c.data.packet.id = id}}

AtGates(id) ==
    UNION {{<<"gateway", site, i>> : i \in {j \in DOMAIN held[site] :
                                             held[site][j].id = id}} : site \in SiteSet}

AmongDelivered(id) == {<<"delivered", i>> : i \in {j \in DOMAIN delivered : delivered[j].id = id}}
AmongDropped(id) == {<<"dropped", i>> : i \in {j \in DOMAIN dropped : dropped[j].id = id}}

LEMMA PlacesAre ==
    ASSUME NEW id
    PROVE  Places(id) = InQueues(id) \cup InEvents(id) \cup AtGates(id)
                          \cup AmongDelivered(id) \cup AmongDropped(id)
  BY DEF Places, InQueues, InEvents, AtGates, AmongDelivered, AmongDropped

LEMMA PlacesApart ==
    ASSUME NEW id, NEW p
    PROVE  /\ p \in InQueues(id) => p[1] = "queue"
           /\ p \in InEvents(id) => p[1] = "event"
           /\ p \in AtGates(id) => p[1] = "gateway"
           /\ p \in AmongDelivered(id) => p[1] = "delivered"
           /\ p \in AmongDropped(id) => p[1] = "dropped"
  BY DEF InQueues, InEvents, AtGates, AmongDelivered, AmongDropped

(* A message that is in one place, and leaves it for another.                 *)
Sole(id) == \E p : Places(id) = {p}

LEMMA SoleIn ==
    ASSUME NEW id, Sole(id), NEW p \in Places(id)
    PROVE  /\ p[1] = "queue" => /\ InQueues(id) = {p} /\ InEvents(id) = {} /\ AtGates(id) = {}
                                /\ AmongDelivered(id) = {} /\ AmongDropped(id) = {}
           /\ p[1] = "event" => /\ InQueues(id) = {} /\ InEvents(id) = {p} /\ AtGates(id) = {}
                                /\ AmongDelivered(id) = {} /\ AmongDropped(id) = {}
           /\ p[1] = "gateway" => /\ InQueues(id) = {} /\ InEvents(id) = {} /\ AtGates(id) = {p}
                                  /\ AmongDelivered(id) = {} /\ AmongDropped(id) = {}
  <1> DEFINE Q == InQueues(id)
             E == InEvents(id)
             G == AtGates(id)
             D == AmongDelivered(id)
             X == AmongDropped(id)
  <1>1. Q \cup E \cup G \cup D \cup X = {p}
    BY PlacesAre DEF Sole
  <1>2. \A q : /\ q \in Q => q[1] = "queue"
               /\ q \in E => q[1] = "event"
               /\ q \in G => q[1] = "gateway"
               /\ q \in D => q[1] = "delivered"
               /\ q \in X => q[1] = "dropped"
    BY PlacesApart
  <1> HIDE DEF Q, E, G, D, X
  <1>3. /\ p[1] = "queue" => Q = {p} /\ E = {} /\ G = {} /\ D = {} /\ X = {}
        /\ p[1] = "event" => Q = {} /\ E = {p} /\ G = {} /\ D = {} /\ X = {}
        /\ p[1] = "gateway" => Q = {} /\ E = {} /\ G = {p} /\ D = {} /\ X = {}
    BY <1>1, <1>2
  <1> QED BY <1>3 DEF Q, E, G, D, X

(* The packets there are have the numbers given out so far; those of the      *)
(* probes are no message's.                                                   *)
Probes == {"probe", "probe_echo"}

Known(p) == /\ p.id \in 1 .. counter
            /\ p.kind \in Probes => \A o \in generated : o.id # p.id

Fine(e) ==
    /\ e.kind \in Carriers => Known(e.data.packet)
    /\ e.kind = "answered" => e.data.packet.kind = "probe_echo"

TracedQueues ==
    \A k \in QueueIds : \A i \in DOMAIN queue[k].waiting : Known(queue[k].waiting[i].packet)

TracedEvents == \A e \in calendar : Fine(e)
TracedGates == \A site \in SiteSet : \A i \in DOMAIN held[site] : held[site][i].id \in 1 .. counter
Listed(entries, n) ==
    /\ \E S : entries \in Seq(S)
    /\ \A i \in DOMAIN entries : entries[i].id \in 1 .. n

Traced ==
    /\ TracedQueues /\ TracedEvents /\ TracedGates
    /\ Listed(delivered, counter) /\ Listed(dropped, counter)

Conserved == \A o \in generated : Sole(o.id)

MessagesIInv == WorldIInv /\ Traced /\ Conserved

(* A number that was not given out is nowhere. *)
LEMMA NewIsNowhere ==
    ASSUME WorldIInv, Traced, NEW id, id = counter + 1
    PROVE  /\ InQueues(id) = {} /\ InEvents(id) = {} /\ AtGates(id) = {}
           /\ AmongDelivered(id) = {} /\ AmongDropped(id) = {}
           /\ \A o \in generated : o.id # id
  <1>1. counter \in Nat /\ id \notin 1 .. counter
    BY DEF WorldIInv, Basics
  <1>2. \A o \in generated : o.id \in 1 .. counter
    BY DEF WorldIInv, Basics
  <1>3. InQueues(id) = {}
    BY <1>1 DEF InQueues, Traced, TracedQueues, Known
  <1>4. InEvents(id) = {}
    BY <1>1 DEF InEvents, Traced, TracedEvents, Fine, Known
  <1>5. AtGates(id) = {}
    BY <1>1 DEF AtGates, Traced, TracedGates
  <1>6. AmongDelivered(id) = {} /\ AmongDropped(id) = {}
    BY <1>1 DEF AmongDelivered, AmongDropped, Traced, Listed
  <1> QED BY <1>1, <1>2, <1>3, <1>4, <1>5, <1>6

(* A sequence that grows by an element, and one that loses its first. *)
LEMMA Longer ==
    ASSUME NEW S, NEW s \in Seq(S), NEW x
    PROVE  LET t == Append(s, x)
               n == Len(s) + 1
           IN  /\ n \in DOMAIN t /\ n \notin DOMAIN s /\ t[n] = x
               /\ DOMAIN t = DOMAIN s \cup {n}
               /\ \A i \in DOMAIN s : t[i] = s[i]
  OBVIOUS

LEMMA Grown ==
    ASSUME NEW S, NEW s \in Seq(S), NEW x
    PROVE  \A i \in DOMAIN Append(s, x) :
              Append(s, x)[i] = x \/ (i \in DOMAIN s /\ Append(s, x)[i] = s[i])
  <1> DEFINE t == Append(s, x)
             n == Len(s) + 1
  <1>1. /\ t[n] = x /\ DOMAIN t = DOMAIN s \cup {n}
        /\ \A i \in DOMAIN s : t[i] = s[i]
    BY Longer
  <1> HIDE DEF t, n
  <1>2. \A i \in DOMAIN t : t[i] = x \/ (i \in DOMAIN s /\ t[i] = s[i])
    BY <1>1
  <1> QED BY <1>2 DEF t

(* An arrival: the packet waits at the end of its queue, or it is dropped,   *)
(* and entered in the ledger unless it is a probe's.                         *)
LEMMA ArrivalGrows ==
    ASSUME Basics, Bounded, Served, NEW packet \in Carried, NEW hop \in 1 .. Len(packet.route),
           Arrive(packet, hop)
    PROVE  LET k == packet.route[hop]
           IN  /\ k \in QueueIds
               /\ \/ /\ \A j \in QueueIds : j # k => queue'[j].waiting = queue[j].waiting
                     /\ queue'[k].waiting = Append(queue[k].waiting, [packet |-> packet, hop |-> hop])
                     /\ dropped' = dropped
                  \/ /\ queue' = queue
                     /\ dropped' = IF packet.kind \in Probes THEN dropped
                                   ELSE Append(dropped, [id |-> packet.id, at |-> now])
  <1> DEFINE k == packet.route[hop]
  <1>1. k \in QueueIds
    BY DEF Carried, Packets
  <1>2. CASE ~Fits(packet, hop)
    BY <1>1, <1>2 DEF Arrive, Probes
  <1>3. CASE Fits(packet, hop)
    <2> DEFINE longer == [queue[k] EXCEPT !.waiting = Append(@, [packet |-> packet, hop |-> hop]),
                                          !.occupied = @ + SizeOf(packet)]
               q == Enqueued(packet, hop)
    <2>1. queue[k] \in QueueStates /\ queue \in [QueueIds -> QueueStates]
      BY <1>1 DEF Basics
    <2>2. longer.waiting = Append(queue[k].waiting, [packet |-> packet, hop |-> hop])
      BY <2>1 DEF QueueStates
    <2>3. q = longer \/ q = [longer EXCEPT !.busy = longer.waiting # <<>> /\ longer.rate > 0]
      BY DEF Enqueued, StartService
    <2>4. q.waiting = longer.waiting
      BY <2>1, <2>3 DEF QueueStates
    <2>5. queue' = [queue EXCEPT ![k] = q] /\ dropped' = dropped
      BY <1>3 DEF Arrive
    <2> HIDE DEF longer, q, k
    <2>6. queue'[k] = q /\ \A j \in QueueIds : j # k => queue'[j] = queue[j]
      BY <1>1, <2>1, <2>5
    <2> QED BY <1>1, <2>2, <2>4, <2>5, <2>6 DEF k
  <1> QED BY <1>2, <1>3

Spots(s, id) == {i \in DOMAIN s : s[i].packet.id = id}

LEMMA SpotsAppended ==
    ASSUME NEW S, NEW s \in Seq(S), NEW w, NEW id
    PROVE  /\ w.packet.id # id => Spots(Append(s, w), id) = Spots(s, id)
           /\ w.packet.id = id => Spots(Append(s, w), id) = Spots(s, id) \cup {Len(s) + 1}
  <1> DEFINE t == Append(s, w)
             n == Len(s) + 1
  <1>1. /\ n \in DOMAIN t /\ n \notin DOMAIN s /\ t[n] = w
        /\ DOMAIN t = DOMAIN s \cup {n}
        /\ \A i \in DOMAIN s : t[i] = s[i]
    BY Longer
  <1> HIDE DEF t, n
  <1>2. /\ w.packet.id # id => Spots(t, id) = Spots(s, id)
        /\ w.packet.id = id => Spots(t, id) = Spots(s, id) \cup {n}
    BY <1>1 DEF Spots
  <1> QED BY <1>2 DEF t, n

LEMMA QueuesBySpots ==
    ASSUME NEW id
    PROVE  /\ InQueues(id) = UNION {{<<"queue", k, i>> : i \in Spots(queue[k].waiting, id)} : k \in QueueIds}
           /\ InQueues(id)' = UNION {{<<"queue", k, i>> : i \in Spots(queue'[k].waiting, id)} : k \in QueueIds}
  BY DEF InQueues, Spots

LEMMA SameSpots ==
    ASSUME NEW id,
           \A k \in QueueIds : Spots(queue'[k].waiting, id) = Spots(queue[k].waiting, id)
    PROVE  InQueues(id)' = InQueues(id)
  <1>1. ASSUME NEW p PROVE p \in InQueues(id)' <=> p \in InQueues(id)
    <2>1. p \in InQueues(id)' <=>
             \E k \in QueueIds : p \in {<<"queue", k, i>> : i \in Spots(queue'[k].waiting, id)}
      BY QueuesBySpots
    <2>2. p \in InQueues(id) <=>
             \E k \in QueueIds : p \in {<<"queue", k, i>> : i \in Spots(queue[k].waiting, id)}
      BY QueuesBySpots
    <2>3. ASSUME NEW k \in QueueIds
          PROVE  {<<"queue", k, i>> : i \in Spots(queue'[k].waiting, id)}
                    = {<<"queue", k, i>> : i \in Spots(queue[k].waiting, id)}
      <3>1. Spots(queue'[k].waiting, id) = Spots(queue[k].waiting, id)
        OBVIOUS
      <3> QED BY <3>1, Zenon
    <2> QED BY <2>1, <2>2, <2>3
  <1> QED BY <1>1

LEMMA ArrivalPlaces ==
    ASSUME Basics, Bounded, Served, NEW packet \in Carried, NEW hop \in 1 .. Len(packet.route),
           Arrive(packet, hop), Traced, NEW id
    PROVE  /\ id # packet.id => InQueues(id)' = InQueues(id) /\ AmongDropped(id)' = AmongDropped(id)
           /\ id = packet.id /\ packet.kind \notin Probes =>
                 \E q : \/ InQueues(id)' = InQueues(id) \cup {q} /\ AmongDropped(id)' = AmongDropped(id)
                        \/ InQueues(id)' = InQueues(id) /\ AmongDropped(id)' = AmongDropped(id) \cup {q}
  <1> DEFINE k == packet.route[hop]
             w == [packet |-> packet, hop |-> hop]
  <1>1. /\ k \in QueueIds
        /\ \/ /\ \A j \in QueueIds : j # k => queue'[j].waiting = queue[j].waiting
              /\ queue'[k].waiting = Append(queue[k].waiting, w)
              /\ dropped' = dropped
           \/ /\ queue' = queue
              /\ dropped' = IF packet.kind \in Probes THEN dropped
                            ELSE Append(dropped, [id |-> packet.id, at |-> now])
    BY ArrivalGrows
  <1> HIDE DEF k
  <1>2. CASE /\ \A j \in QueueIds : j # k => queue'[j].waiting = queue[j].waiting
             /\ queue'[k].waiting = Append(queue[k].waiting, w)
             /\ dropped' = dropped
    <2>1. queue[k].waiting \in Seq(Waits)
      BY <1>1 DEF Basics, QueueStates
    <2>2. AmongDropped(id)' = AmongDropped(id)
      BY <1>2 DEF AmongDropped
    <2> DEFINE n == Len(queue[k].waiting) + 1
    <2>3. /\ packet.id # id => Spots(queue'[k].waiting, id) = Spots(queue[k].waiting, id)
          /\ packet.id = id => Spots(queue'[k].waiting, id) = Spots(queue[k].waiting, id) \cup {n}
      <3>1. w.packet = packet
        OBVIOUS
      <3> HIDE DEF w
      <3>2. PICK s \in Seq(Waits) : s = queue[k].waiting
        BY <2>1
      <3>3. /\ packet.id # id => Spots(Append(s, w), id) = Spots(s, id)
            /\ packet.id = id => Spots(Append(s, w), id) = Spots(s, id) \cup {Len(s) + 1}
        BY <3>1, SpotsAppended, Zenon
      <3>4. queue'[k].waiting = Append(s, w)
        BY <1>2, <3>2
      <3> QED BY <3>2, <3>3, <3>4
    <2> HIDE DEF n
    <2>4. \A j \in QueueIds : j # k => Spots(queue'[j].waiting, id) = Spots(queue[j].waiting, id)
      BY <1>2
    <2>5. id # packet.id => InQueues(id)' = InQueues(id)
      <3>1. id # packet.id =>
               \A j \in QueueIds : Spots(queue'[j].waiting, id) = Spots(queue[j].waiting, id)
        BY <2>3, <2>4
      <3> QED BY <3>1, SameSpots
    <2>6. ASSUME id = packet.id PROVE InQueues(id)' = InQueues(id) \cup {<<"queue", k, n>>}
      <3>1. ASSUME NEW p \in InQueues(id)' PROVE p \in InQueues(id) \cup {<<"queue", k, n>>}
        <4>0. PICK j \in QueueIds : p \in {<<"queue", j, i>> : i \in Spots(queue'[j].waiting, id)}
          BY <3>1, QueuesBySpots
        <4>1. PICK i \in Spots(queue'[j].waiting, id) : p = <<"queue", j, i>>
          BY <4>0
        <4> QED BY <2>3, <2>4, <2>6, <4>0, <4>1, QueuesBySpots
      <3>2. ASSUME NEW p \in InQueues(id) PROVE p \in InQueues(id)'
        <4>0. PICK j \in QueueIds : p \in {<<"queue", j, i>> : i \in Spots(queue[j].waiting, id)}
          BY <3>2, QueuesBySpots
        <4>1. PICK i \in Spots(queue[j].waiting, id) : p = <<"queue", j, i>>
          BY <4>0
        <4>2. i \in Spots(queue'[j].waiting, id)
          BY <2>3, <2>4, <2>6, <4>1
        <4> QED BY <4>0, <4>1, <4>2, QueuesBySpots
      <3>3. <<"queue", k, n>> \in InQueues(id)'
        <4>1. n \in Spots(queue'[k].waiting, id)
          BY <2>3, <2>6
        <4> QED BY <1>1, <4>1, QueuesBySpots
      <3> QED BY <3>1, <3>2, <3>3
    <2> QED BY <2>2, <2>5, <2>6
  <1>3. CASE /\ queue' = queue
             /\ dropped' = IF packet.kind \in Probes THEN dropped
                           ELSE Append(dropped, [id |-> packet.id, at |-> now])
    <2>1. InQueues(id)' = InQueues(id)
      BY <1>3 DEF InQueues
    <2>2. CASE packet.kind \in Probes
      BY <1>3, <2>1, <2>2 DEF AmongDropped
    <2>3. CASE packet.kind \notin Probes
      <3> DEFINE x == [id |-> packet.id, at |-> now]
                 n == Len(dropped) + 1
      <3>0. PICK S : dropped \in Seq(S)
        BY DEF Traced, Listed
      <3>1. /\ n \in DOMAIN dropped' /\ n \notin DOMAIN dropped /\ dropped'[n] = x
            /\ DOMAIN dropped' = DOMAIN dropped \cup {n}
            /\ \A i \in DOMAIN dropped : dropped'[i] = dropped[i]
        BY <1>3, <2>3, <3>0, Longer
      <3>2. x.id = packet.id
        OBVIOUS
      <3> HIDE DEF x, n
      <3>3. id # packet.id => AmongDropped(id)' = AmongDropped(id)
        BY <3>1, <3>2 DEF AmongDropped
      <3>4. id = packet.id => AmongDropped(id)' = AmongDropped(id) \cup {<<"dropped", n>>}
        BY <3>1, <3>2 DEF AmongDropped
      <3> QED BY <2>1, <3>3, <3>4
    <2> QED BY <2>2, <2>3
  <1> QED BY <1>1, <1>2, <1>3, Zenon

(* What a handler schedules: nothing that carries a packet, but for a service. *)
Quiet(A) == A = <<>> \/ (A = <<A[1]>> /\ A[1].kind \notin Carriers)

LEMMA QuietEvents ==
    /\ Quiet(<<>>)
    /\ \A k, q : Quiet(ServiceOf(k, q))
    /\ \A packet, hop : Quiet(ArrivalEvents(packet, hop))
    /\ \A site, readings : Quiet(ReleaseEvents(site, readings))
    /\ \A kind \in {"generate", "probe"} : \A at, data : Quiet(Recurring(kind, at, data))
  <1>1. Quiet(<<>>)
    BY DEF Quiet
  <1>2. ASSUME NEW a, a.kind \notin Carriers PROVE Quiet(<<a>>)
    BY <1>2 DEF Quiet
  <1>3. ASSUME NEW kind, kind \notin Carriers, NEW at, NEW data PROVE Quiet(<<Event(kind, at, data)>>)
    <2>1. Event(kind, at, data).kind = kind
      BY DEF Event
    <2> QED BY <1>2, <1>3, <2>1
  <1>4. /\ "serviced" \notin Carriers /\ "release" \notin Carriers
        /\ "generate" \notin Carriers /\ "probe" \notin Carriers
    BY DEF Carriers
  <1>5. \A k, q : Quiet(ServiceOf(k, q))
    BY <1>1, <1>3, <1>4 DEF ServiceOf
  <1>6. \A packet, hop : Quiet(ArrivalEvents(packet, hop))
    BY <1>1, <1>5 DEF ArrivalEvents
  <1>7. \A site, readings : Quiet(ReleaseEvents(site, readings))
    BY <1>1, <1>3, <1>4 DEF ReleaseEvents
  <1>8. \A kind \in {"generate", "probe"} : \A at, data : Quiet(Recurring(kind, at, data))
    BY <1>1, <1>3, <1>4 DEF Recurring
  <1> QED BY <1>1, <1>5, <1>6, <1>7, <1>8

LEMMA EventsLeave ==
    ASSUME sequence \in Nat, NEW e, NEW A, NEW B, Quiet(A), Quiet(B), Handle(e, A \o B), NEW id
    PROVE  /\ InEvents(id)' = InEvents(id) \ {<<"event", e>>}
           /\ e.kind \notin Carriers => InEvents(id)' = InEvents(id)
  <1>1. Short(A) /\ Short(B)
    BY DEF Quiet, Short
  <1>2. calendar' = (calendar \ {e})
                  \cup (IF A = <<>> THEN {} ELSE {Scheduled(A[1], sequence + 1)})
                  \cup (IF B = <<>> THEN {} ELSE {Scheduled(B[1], sequence')})
    BY <1>1, HandleTwo
  <1>3. \A a, n : Scheduled(a, n).kind = a.kind
    BY DEF Scheduled
  <1>4. \A c : c \in calendar' /\ c.kind \in Carriers <=> c \in calendar /\ c # e /\ c.kind \in Carriers
    BY <1>2, <1>3 DEF Quiet
  <1>5. ASSUME NEW p PROVE p \in InEvents(id)' <=> p \in InEvents(id) /\ p # <<"event", e>>
    <2>1. p \in InEvents(id)' <=> \E c : c \in calendar' /\ c.kind \in Carriers /\ c.data.packet.id = id /\ p = <<"event", c>>
      BY DEF InEvents
    <2>2. p \in InEvents(id) <=> \E c : c \in calendar /\ c.kind \in Carriers /\ c.data.packet.id = id /\ p = <<"event", c>>
      BY DEF InEvents
    <2>3. \A c, d : <<"event", c>> = <<"event", d>> <=> c = d
      OBVIOUS
    <2> QED BY <1>4, <2>1, <2>2, <2>3
  <1>6. e.kind \notin Carriers => <<"event", e>> \notin InEvents(id)
    BY DEF InEvents
  <1> QED BY <1>5, <1>6

(* The service of a packet: the event that takes it on. *)
LEMMA EventSent ==
    ASSUME sequence \in Nat, NEW e, e.kind \notin Carriers, NEW a, a.kind \in Carriers,
           NEW B, Quiet(B), Handle(e, <<a>> \o B), NEW id
    PROVE  /\ a.data.packet.id # id => InEvents(id)' = InEvents(id)
           /\ a.data.packet.id = id =>
                 InEvents(id)' = InEvents(id) \cup {<<"event", Scheduled(a, sequence + 1)>>}
  <1>1. Short(<<a>>) /\ Short(B) /\ <<a>> # <<>> /\ <<a>>[1] = a
    BY DEF Quiet, Short
  <1>2. calendar' = (calendar \ {e}) \cup {Scheduled(a, sequence + 1)}
                  \cup (IF B = <<>> THEN {} ELSE {Scheduled(B[1], sequence')})
    <2> DEFINE A == <<a>>
    <2>1. Short(A) /\ A # <<>> /\ A[1] = a /\ Handle(e, A \o B)
      BY <1>1
    <2> HIDE DEF A
    <2> QED BY <1>1, <2>1, HandleTwo
  <1> DEFINE s == Scheduled(a, sequence + 1)
  <1>3. (\A b, n : Scheduled(b, n).kind = b.kind) /\ s.kind = a.kind /\ s.data = a.data
    BY DEF Scheduled
  <1> HIDE DEF s
  <1>4. \A c : c \in calendar' /\ c.kind \in Carriers <=> (c \in calendar \/ c = s) /\ c.kind \in Carriers
    BY <1>2, <1>3 DEF Quiet, s
  <1>5. ASSUME NEW p
        PROVE  p \in InEvents(id)' <=> p \in InEvents(id) \/ (a.data.packet.id = id /\ p = <<"event", s>>)
    <2>1. p \in InEvents(id)' <=> \E c : c \in calendar' /\ c.kind \in Carriers /\ c.data.packet.id = id /\ p = <<"event", c>>
      BY DEF InEvents
    <2>2. p \in InEvents(id) <=> \E c : c \in calendar /\ c.kind \in Carriers /\ c.data.packet.id = id /\ p = <<"event", c>>
      BY DEF InEvents
    <2> QED BY <1>3, <1>4, <2>1, <2>2
  <1> QED BY <1>5 DEF s

LEMMA PlacesAfter ==
    ASSUME NEW id
    PROVE  Places(id)' = InQueues(id)' \cup InEvents(id)' \cup AtGates(id)'
                          \cup AmongDelivered(id)' \cup AmongDropped(id)'
  BY DEF Places, InQueues, InEvents, AtGates, AmongDelivered, AmongDropped

LEMMA StillSole ==
    ASSUME NEW id, Sole(id), InQueues(id)' = InQueues(id), InEvents(id)' = InEvents(id),
           AtGates(id)' = AtGates(id), AmongDelivered(id)' = AmongDelivered(id),
           AmongDropped(id)' = AmongDropped(id)
    PROVE  Sole(id)'
  BY PlacesAre, PlacesAfter DEF Sole

(* A packet arrives that was somewhere else before, or nowhere. *)
LEMMA SoleArrived ==
    ASSUME Basics, Bounded, Served, NEW packet \in Carried, NEW hop \in 1 .. Len(packet.route),
           Arrive(packet, hop), Traced, NEW id, id = packet.id, packet.kind \notin Probes,
           InQueues(id) = {}, AmongDropped(id) = {},
           InEvents(id)' = {}, AtGates(id)' = {}, AmongDelivered(id)' = {}
    PROVE  Sole(id)'
  <1>1. PICK q : \/ InQueues(id)' = InQueues(id) \cup {q} /\ AmongDropped(id)' = AmongDropped(id)
                 \/ InQueues(id)' = InQueues(id) /\ AmongDropped(id)' = AmongDropped(id) \cup {q}
    BY ArrivalPlaces
  <1>2. Places(id)' = {q}
    BY <1>1, PlacesAfter
  <1> QED BY <1>2 DEF Sole

-------------------------------------------------------------------------------
(* What every step keeps of Traced.                                          *)

KnownNext(p) == /\ p.id \in 1 .. counter'
                /\ p.kind \in Probes => \A o \in generated' : o.id # p.id

FineNext(e) ==
    /\ e.kind \in Carriers => KnownNext(e.data.packet)
    /\ e.kind = "answered" => e.data.packet.kind = "probe_echo"

(* A number is given out to one packet. *)
Counted ==
    /\ counter \in Nat /\ counter' \in {counter, counter + 1}
    /\ \A o \in generated' : o \in generated \/ (o.id = counter + 1 /\ counter' = counter + 1)

LEMMA KnownKept ==
    ASSUME Counted, NEW p, Known(p)
    PROVE  KnownNext(p)
  <1>1. p.id \in 1 .. counter' /\ p.id # counter + 1
    BY DEF Counted, Known
  <1>2. ASSUME p.kind \in Probes, NEW o \in generated' PROVE o.id # p.id
    BY <1>1, <1>2 DEF Counted, Known
  <1> QED BY <1>1, <1>2 DEF KnownNext

LEMMA QueuesTraced ==
    ASSUME Counted, TracedQueues, \A k \in QueueIds : queue'[k].waiting = queue[k].waiting
    PROVE  TracedQueues'
  <1>1. ASSUME NEW k \in QueueIds, NEW i \in DOMAIN queue'[k].waiting
        PROVE  KnownNext(queue'[k].waiting[i].packet)
    <2>1. PICK p : p = queue[k].waiting[i].packet /\ Known(p)
      BY DEF TracedQueues
    <2> QED BY <2>1, KnownKept
  <1> QED BY <1>1 DEF TracedQueues, Known, KnownNext

LEMMA GatesTraced ==
    ASSUME Counted, TracedGates, held' = held
    PROVE  TracedGates'
  <1>1. \A n \in 1 .. counter : n \in 1 .. counter'
    BY DEF Counted
  <1> QED BY <1>1 DEF TracedGates

LEMMA ListKept ==
    ASSUME Counted, NEW entries, Listed(entries, counter)
    PROVE  Listed(entries, counter')
  <1>1. \A n \in 1 .. counter : n \in 1 .. counter'
    BY DEF Counted
  <1> QED BY <1>1 DEF Listed

LEMMA ListGrows ==
    ASSUME Counted, NEW entries, Listed(entries, counter), NEW x, x.id \in 1 .. counter'
    PROVE  Listed(Append(entries, x), counter')
  <1>1. PICK S : entries \in Seq(S)
    BY DEF Listed
  <1>2. Append(entries, x) \in Seq(S \cup {x})
    <2>1. entries \in Seq(S \cup {x})
      BY <1>1
    <2> QED BY <2>1
  <1>3. Listed(entries, counter')
    BY ListKept
  <1>4. \A i \in DOMAIN Append(entries, x) : Append(entries, x)[i].id \in 1 .. counter'
    <2> DEFINE t == Append(entries, x)
    <2>1. \A i \in DOMAIN t : t[i] = x \/ (i \in DOMAIN entries /\ t[i] = entries[i])
      BY <1>1, Grown
    <2> HIDE DEF t
    <2>2. \A i \in DOMAIN t : t[i].id \in 1 .. counter'
      BY <1>3, <2>1 DEF Listed
    <2> QED BY <2>2 DEF t
  <1> QED BY <1>2, <1>4 DEF Listed

LEMMA EventsTraced ==
    ASSUME Counted, TracedEvents, sequence \in Nat, NEW e, NEW A, NEW B, Short(A), Short(B),
           Handle(e, A \o B), A # <<>> => FineNext(A[1]), B # <<>> => FineNext(B[1])
    PROVE  TracedEvents'
  <1>1. calendar' = (calendar \ {e})
                  \cup (IF A = <<>> THEN {} ELSE {Scheduled(A[1], sequence + 1)})
                  \cup (IF B = <<>> THEN {} ELSE {Scheduled(B[1], sequence')})
    BY HandleTwo
  <1>2. \A a, n : FineNext(a) => FineNext(Scheduled(a, n))
    BY DEF FineNext, Scheduled
  <1>3. ASSUME NEW c \in calendar PROVE FineNext(c)
    <2>1. Fine(c)
      BY DEF TracedEvents
    <2>2. PICK p : p = c.data.packet
      OBVIOUS
    <2> QED BY <2>1, <2>2, KnownKept DEF Fine, FineNext
  <1>4. \A c \in calendar' : FineNext(c)
    BY <1>1, <1>2, <1>3
  <1> QED BY <1>4 DEF TracedEvents, Fine, FineNext, Known, KnownNext

LEMMA QuietIsFine ==
    ASSUME NEW A, Quiet(A)
    PROVE  Short(A) /\ (A # <<>> => FineNext(A[1]))
  BY DEF Quiet, Short, FineNext, Carriers

LEMMA ArrivalTraced ==
    ASSUME Counted, TracedQueues, Listed(dropped, counter), Basics, Bounded, Served,
           NEW packet \in Carried, NEW hop \in 1 .. Len(packet.route),
           Arrive(packet, hop), KnownNext(packet)
    PROVE  TracedQueues' /\ Listed(dropped', counter')
  <1> DEFINE k == packet.route[hop]
             w == [packet |-> packet, hop |-> hop]
  <1>1. /\ k \in QueueIds
        /\ \/ /\ \A j \in QueueIds : j # k => queue'[j].waiting = queue[j].waiting
              /\ queue'[k].waiting = Append(queue[k].waiting, w)
              /\ dropped' = dropped
           \/ /\ queue' = queue
              /\ dropped' = IF packet.kind \in Probes THEN dropped
                            ELSE Append(dropped, [id |-> packet.id, at |-> now])
    BY ArrivalGrows
  <1>2. w.packet = packet
    OBVIOUS
  <1> HIDE DEF k, w
  <1>3. CASE /\ \A j \in QueueIds : j # k => queue'[j].waiting = queue[j].waiting
             /\ queue'[k].waiting = Append(queue[k].waiting, w)
             /\ dropped' = dropped
    <2>1. PICK s \in Seq(Waits) : s = queue[k].waiting
      BY <1>1 DEF Basics, QueueStates
    <2>2. \A i \in DOMAIN Append(s, w) :
             Append(s, w)[i] = w \/ (i \in DOMAIN s /\ Append(s, w)[i] = s[i])
      BY Grown
    <2>3. ASSUME NEW j \in QueueIds, NEW i \in DOMAIN queue'[j].waiting
          PROVE  KnownNext(queue'[j].waiting[i].packet)
      <3>1. PICK x : x = queue'[j].waiting[i]
        OBVIOUS
      <3>2. x = w \/ \E l \in DOMAIN queue[j].waiting : x = queue[j].waiting[l]
        BY <1>3, <2>1, <2>2, <3>1
      <3>3. x = w \/ Known(x.packet)
        BY <3>2 DEF TracedQueues
      <3> QED BY <1>2, <3>1, <3>3, KnownKept
    <2>4. TracedQueues'
      BY <2>3 DEF TracedQueues, Known, KnownNext
    <2> QED BY <1>3, <2>4, ListKept
  <1>4. CASE /\ queue' = queue
             /\ dropped' = IF packet.kind \in Probes THEN dropped
                           ELSE Append(dropped, [id |-> packet.id, at |-> now])
    <2>1. TracedQueues'
      BY <1>4, QueuesTraced
    <2> DEFINE x == [id |-> packet.id, at |-> now]
    <2>2. x.id \in 1 .. counter'
      BY DEF KnownNext
    <2> HIDE DEF x
    <2>3. dropped' = dropped \/ dropped' = Append(dropped, x)
      BY <1>4 DEF x
    <2> QED BY <2>1, <2>2, <2>3, ListKept, ListGrows
  <1> QED BY <1>1, <1>3, <1>4

-------------------------------------------------------------------------------
(* What every step keeps of Conserved.                                       *)

LEMMA NothingMore ==
    ASSUME NEW A, Quiet(A)
    PROVE  A \o <<>> = A
  <1>1. CASE A = <<>>
    BY <1>1
  <1>2. CASE A # <<>>
    <2>1. PICK a : A = <<a>>
      BY <1>2 DEF Quiet
    <2> HIDE <1>2
    <2> QED BY <2>1
  <1> QED BY <1>1, <1>2

(* The other messages, when one arrives and perhaps comes from an event. *)
LEMMA OthersStay ==
    ASSUME WorldIInv, Traced, NEW e, NEW A, NEW B, Quiet(A), Quiet(B), Handle(e, A \o B),
           NEW packet \in Carried, NEW hop \in 1 .. Len(packet.route), Arrive(packet, hop),
           delivered' = delivered, NEW id, id # packet.id,
           e.kind \in Carriers => e.data.packet.id # id,
           AtGates(id)' = AtGates(id), Sole(id)
    PROVE  Sole(id)'
  <1>1. Basics /\ Bounded /\ Served /\ sequence \in Nat
    BY DEF WorldIInv, Basics
  <1>2. InQueues(id)' = InQueues(id) /\ AmongDropped(id)' = AmongDropped(id)
    BY <1>1, ArrivalPlaces
  <1>3. InEvents(id)' = InEvents(id) \ {<<"event", e>>}
    BY <1>1, EventsLeave
  <1>4. <<"event", e>> \notin InEvents(id)
    BY DEF InEvents
  <1>5. AmongDelivered(id)' = AmongDelivered(id)
    BY DEF AmongDelivered
  <1> QED BY <1>2, <1>3, <1>4, <1>5, StillSole

(* A packet that goes on from its event. *)
LEMMA MoveConserves ==
    ASSUME MessagesIInv, NEW e \in calendar, e.kind \in Carriers,
           NEW packet \in Carried, NEW hop \in 1 .. Len(packet.route), Arrive(packet, hop),
           packet.id = e.data.packet.id, Known(packet),
           Handle(e, ArrivalEvents(packet, hop)),
           UNCHANGED <<gateway, counter, generated, delivered>>
    PROVE  Traced' /\ Conserved'
  <1> DEFINE A == ArrivalEvents(packet, hop)
  <1>1. Basics /\ Bounded /\ Served /\ sequence \in Nat /\ counter \in Nat /\ WorldIInv /\ Traced /\ Conserved
    BY DEF MessagesIInv, WorldIInv, Basics
  <1>2. Quiet(A) /\ Quiet(<<>>)
    BY QuietEvents
  <1> HIDE DEF A
  <1>3. Handle(e, A \o <<>>)
    BY <1>2, NothingMore DEF A
  <1>4. Counted /\ held' = held /\ delivered' = delivered
    BY <1>1 DEF Counted, gateway
  <1>5. Traced'
    <2>1. KnownNext(packet)
      BY <1>4, KnownKept
    <2>2. TracedQueues' /\ Listed(dropped', counter')
      BY <1>1, <1>4, <2>1, ArrivalTraced DEF Traced
    <2>3. TracedEvents'
      BY <1>1, <1>2, <1>3, <1>4, QuietIsFine, EventsTraced DEF Traced
    <2>4. TracedGates' /\ Listed(delivered', counter')
      BY <1>1, <1>4, GatesTraced, ListKept DEF Traced
    <2> QED BY <2>2, <2>3, <2>4 DEF Traced
  <1>6. ASSUME NEW o \in generated PROVE Sole(o.id)'
    <2>1. PICK id : id = o.id /\ Sole(id)
      BY <1>1 DEF Conserved
    <2>2. AtGates(id)' = AtGates(id) /\ AmongDelivered(id)' = AmongDelivered(id)
      BY <1>4 DEF AtGates, AmongDelivered
    <2>3. CASE id # packet.id
      <3>1. Sole(id)'
        BY <1>1, <1>2, <1>3, <1>4, <2>1, <2>2, <2>3, OthersStay
      <3> QED BY <2>1, <3>1
    <2>4. CASE id = packet.id
      <3>1. packet.kind \notin Probes
        BY <2>1, <2>4 DEF Known
      <3>2. <<"event", e>> \in InEvents(id)
        BY <2>4 DEF InEvents
      <3>3. <<"event", e>> \in Places(id)
        BY <3>2, PlacesAre
      <3>4. /\ InQueues(id) = {} /\ InEvents(id) = {<<"event", e>>} /\ AtGates(id) = {}
            /\ AmongDelivered(id) = {} /\ AmongDropped(id) = {}
        <4>1. <<"event", e>>[1] = "event"
          OBVIOUS
        <4> QED BY <2>1, <3>3, <4>1, SoleIn
      <3>5. InEvents(id)' = {}
        BY <1>1, <1>2, <1>3, <3>4, EventsLeave, Zenon
      <3>6. Sole(id)'
        BY <1>1, <2>2, <2>4, <3>1, <3>4, <3>5, SoleArrived
      <3> QED BY <2>1, <3>6
    <2> QED BY <2>3, <2>4
  <1>7. generated' = generated
    OBVIOUS
  <1> QED BY <1>5, <1>6, <1>7 DEF Conserved

LEMMA HopConserves ==
    ASSUME MessagesIInv, NEW e \in calendar, Hop(e)
    PROVE  Traced' /\ Conserved'
  <1> DEFINE packet == e.data.packet
             hop == e.data.hop
  <1>1. /\ e.kind = "hop" /\ e.kind \in Carriers
        /\ packet \in Carried /\ hop \in 1 .. Len(packet.route)
    BY DEF MessagesIInv, WorldIInv, Events, Ready, Payload, Hop, Due, Waits, Carriers
  <1>2. Known(packet)
    BY <1>1 DEF MessagesIInv, Traced, TracedEvents, Fine
  <1>3. /\ Arrive(packet, hop) /\ Handle(e, ArrivalEvents(packet, hop))
        /\ UNCHANGED <<gateway, counter, generated, delivered>>
    BY DEF Hop
  <1>4. packet.id = e.data.packet.id
    OBVIOUS
  <1> HIDE DEF packet, hop
  <1> QED BY <1>1, <1>2, <1>3, <1>4, MoveConserves

LEMMA RespondConserves ==
    ASSUME MessagesIInv, NEW e \in calendar, Respond(e)
    PROVE  Traced' /\ Conserved'
  <1> DEFINE request == e.data.packet
             response == [request EXCEPT !.kind = "response", !.route = Uplink(request.site)]
  <1>1. e.kind = "respond" /\ e.kind \in Carriers /\ request \in Packets /\ Basics
    BY DEF MessagesIInv, WorldIInv, Events, Ready, Payload, Respond, Due, Carried, Carriers
  <1>2. PICK route \in Seq(QueueIds) : route = Uplink(request.site) /\ Len(route) = 2
    BY <1>1, Routes DEF Packets
  <1>3. response = [request EXCEPT !.kind = "response", !.route = route]
    BY <1>2
  <1>4. /\ Arrive(response, 1) /\ Handle(e, ArrivalEvents(response, 1))
        /\ UNCHANGED <<gateway, counter, generated, delivered>>
    BY DEF Respond
  <1>5. request.id \in 1 .. counter
    BY <1>1 DEF MessagesIInv, Traced, TracedEvents, Fine, Known
  <1>6. request.id = e.data.packet.id
    OBVIOUS
  <1> HIDE DEF request, response
  <1>7. response \in Carried /\ 1 \in 1 .. Len(response.route)
    BY <1>1, <1>2, <1>3, Rerouted DEF Kinds
  <1>8. response.id = request.id /\ response.kind = "response"
    BY <1>1, <1>3 DEF Packets
  <1>9. Known(response)
    BY <1>5, <1>8 DEF Known, Probes
  <1> QED BY <1>1, <1>4, <1>6, <1>7, <1>8, <1>9, MoveConserves

LEMMA EchoConserves ==
    ASSUME MessagesIInv, NEW e \in calendar, Echo(e)
    PROVE  Traced' /\ Conserved'
  <1> DEFINE probe == e.data.packet
             packet == [probe EXCEPT !.kind = "probe_echo",
                                     !.route = << <<probe.site, probe.route[1][2], "down">> >>]
  <1>1. /\ e.kind = "echo" /\ e.kind \in Carriers
        /\ probe \in Carried /\ probe \in Packets /\ probe.kind = "probe"
    BY DEF MessagesIInv, WorldIInv, Events, Ready, Payload, Echo, Due, Carried, Carriers
  <1>2. PICK leg \in LegSet : probe.route = << <<probe.site, leg, "up">> >>
    BY <1>1 DEF Carried
  <1>3. PICK route \in Seq(QueueIds) :
           route = << <<probe.site, probe.route[1][2], "down">> >> /\ Len(route) = 1
    <2>1. probe.route[1][2] = leg
      BY <1>2
    <2>2. PICK k \in QueueIds : k = <<probe.site, leg, "down">>
      BY <1>1 DEF Packets, QueueIds, Directions
    <2> QED BY <2>1, <2>2, OneHop
  <1>4. packet = [probe EXCEPT !.kind = "probe_echo", !.route = route]
    BY <1>3
  <1>5. /\ Arrive(packet, 1) /\ Handle(e, ArrivalEvents(packet, 1))
        /\ UNCHANGED <<gateway, counter, generated, delivered>>
    BY DEF Echo
  <1>6. Known(probe)
    BY <1>1 DEF MessagesIInv, Traced, TracedEvents, Fine
  <1>7. probe.id = e.data.packet.id
    OBVIOUS
  <1> HIDE DEF probe, packet
  <1>8. packet \in Carried /\ 1 \in 1 .. Len(packet.route)
    BY <1>1, <1>3, <1>4, Rerouted DEF Kinds
  <1>9. packet.id = probe.id /\ packet.kind = "probe_echo"
    BY <1>1, <1>4 DEF Packets
  <1>10. Known(packet)
    BY <1>1, <1>6, <1>9 DEF Known, Probes
  <1> QED BY <1>1, <1>5, <1>7, <1>8, <1>9, <1>10, MoveConserves

(* Lists and gates that grow, gates and queues that lose their first.        *)
Marks(s, id) == {i \in DOMAIN s : s[i].id = id}

LEMMA MarksAppended ==
    ASSUME NEW S, NEW s \in Seq(S), NEW x, NEW id
    PROVE  /\ x.id # id => Marks(Append(s, x), id) = Marks(s, id)
           /\ x.id = id => Marks(Append(s, x), id) = Marks(s, id) \cup {Len(s) + 1}
  <1> DEFINE t == Append(s, x)
             n == Len(s) + 1
  <1>1. /\ n \in DOMAIN t /\ n \notin DOMAIN s /\ t[n] = x
        /\ DOMAIN t = DOMAIN s \cup {n}
        /\ \A i \in DOMAIN s : t[i] = s[i]
    BY Longer
  <1> HIDE DEF t, n
  <1>2. /\ x.id # id => Marks(t, id) = Marks(s, id)
        /\ x.id = id => Marks(t, id) = Marks(s, id) \cup {n}
    BY <1>1 DEF Marks
  <1> QED BY <1>2 DEF t, n

(* The spots of a sequence and of the rest of it. *)
Moved(F, G) ==
    /\ \A i \in G : i \in Nat \ {0} /\ i + 1 \in F
    /\ \A i \in F : i \in Nat \ {0} /\ (i # 1 => i - 1 \in G)

LEMMA MarksMoved ==
    ASSUME NEW S, NEW s \in Seq(S), s # <<>>, NEW id
    PROVE  /\ Moved(Marks(s, id), Marks(Tail(s), id))
           /\ 1 \in Marks(s, id) <=> Head(s).id = id
  <1> DEFINE t == Tail(s)
             h == Head(s)
  <1>1. /\ 1 \in DOMAIN s /\ s[1] = h
        /\ \A i \in DOMAIN t : i \in Nat \ {0} /\ i + 1 \in DOMAIN s /\ t[i] = s[i + 1]
        /\ \A i \in DOMAIN s : i \in Nat \ {0} /\ (i # 1 => i - 1 \in DOMAIN t /\ t[i - 1] = s[i])
    OBVIOUS
  <1> HIDE DEF t, h
  <1>2. Moved(Marks(s, id), Marks(t, id)) /\ (1 \in Marks(s, id) <=> h.id = id)
    BY <1>1 DEF Moved, Marks
  <1> QED BY <1>2 DEF t, h

LEMMA SpotsMoved ==
    ASSUME NEW S, NEW s \in Seq(S), s # <<>>, NEW id
    PROVE  /\ Moved(Spots(s, id), Spots(Tail(s), id))
           /\ 1 \in Spots(s, id) <=> Head(s).packet.id = id
  <1> DEFINE t == Tail(s)
             h == Head(s)
  <1>1. /\ 1 \in DOMAIN s /\ s[1] = h
        /\ \A i \in DOMAIN t : i \in Nat \ {0} /\ i + 1 \in DOMAIN s /\ t[i] = s[i + 1]
        /\ \A i \in DOMAIN s : i \in Nat \ {0} /\ (i # 1 => i - 1 \in DOMAIN t /\ t[i - 1] = s[i])
    OBVIOUS
  <1> HIDE DEF t, h
  <1>2. Moved(Spots(s, id), Spots(t, id)) /\ (1 \in Spots(s, id) <=> h.packet.id = id)
    BY <1>1 DEF Moved, Spots
  <1> QED BY <1>2 DEF t, h

(* The places in a table of sequences. *)
Spread(label, K, F) == UNION {{<<label, k, i>> : i \in F[k]} : k \in K}

LEMMA InSpread ==
    ASSUME NEW label, NEW K, NEW F, NEW p
    PROVE  p \in Spread(label, K, F) <=> \E k \in K : \E i \in F[k] : p = <<label, k, i>>
  <1>1. p \in Spread(label, K, F) <=> \E k \in K : p \in {<<label, k, i>> : i \in F[k]}
    BY DEF Spread
  <1>2. \A k \in K : p \in {<<label, k, i>> : i \in F[k]} <=> \E i \in F[k] : p = <<label, k, i>>
    OBVIOUS
  <1> QED BY <1>1, <1>2

(* The sequence of k0 has lost its first; so a place that was the only one   *)
(* is gone, or has a successor.                                              *)
Shortens(K, k0, F, G) ==
    /\ k0 \in K /\ Moved(F[k0], G[k0])
    /\ \A k \in K : k # k0 => G[k] = F[k]

Succeeded(first, old, new) ==
    /\ old = {} => new = {}
    /\ \A p : old = {p} => \/ p = first /\ new = {}
                           \/ p # first /\ \E q : new = {q}

LEMMA SpreadMoved ==
    ASSUME NEW label, NEW K, NEW F, NEW G, NEW k0, Shortens(K, k0, F, G)
    PROVE  Succeeded(<<label, k0, 1>>, Spread(label, K, F), Spread(label, K, G))
  <1> DEFINE old == Spread(label, K, F)
             new == Spread(label, K, G)
  <1>1. \A p : p \in old <=> \E k \in K : \E i \in F[k] : p = <<label, k, i>>
    BY InSpread
  <1>2. \A p : p \in new <=> \E k \in K : \E i \in G[k] : p = <<label, k, i>>
    BY InSpread
  <1>3. \A k, l, i, j : <<label, k, i>> = <<label, l, j>> <=> k = l /\ i = j
    OBVIOUS
  <1>0. k0 \in K /\ Moved(F[k0], G[k0]) /\ \A k \in K : k # k0 => G[k] = F[k]
    BY DEF Shortens
  <1> HIDE DEF old, new
  (* What is there came from the same spot or from the one behind it. *)
  <1>4. ASSUME NEW p \in new
        PROVE  \E k \in K : \E i \in G[k] :
                  /\ p = <<label, k, i>>
                  /\ k # k0 => p \in old
                  /\ k = k0 => i \in Nat \ {0} /\ <<label, k0, i + 1>> \in old
    <2>1. PICK k \in K : \E i \in G[k] : p = <<label, k, i>>
      BY <1>2
    <2>2. PICK i \in G[k] : p = <<label, k, i>>
      BY <2>1
    <2>3. k # k0 => p \in old
      BY <1>0, <1>1, <2>2
    <2>4. k = k0 => i \in Nat \ {0} /\ <<label, k0, i + 1>> \in old
      BY <1>0, <1>1, <2>2 DEF Moved
    <2> QED BY <2>2, <2>3, <2>4
  <1>5. old = {} => new = {}
    BY <1>4
  <1>6. ASSUME NEW p, old = {p}
        PROVE  \/ p = <<label, k0, 1>> /\ new = {}
               \/ p # <<label, k0, 1>> /\ \E q : new = {q}
    <2>1. PICK l \in K : \E j \in F[l] : p = <<label, l, j>>
      BY <1>1, <1>6
    <2>2. PICK j \in F[l] : p = <<label, l, j>>
      BY <2>1
    <2>3. CASE l # k0
      <3>1. p \in new
        BY <1>0, <1>2, <2>2, <2>3
      <3>2. ASSUME NEW q \in new PROVE q = p
        BY <1>3, <1>4, <1>6, <2>2, <2>3
      <3>3. new = {p}
        BY <3>1, <3>2
      <3> QED BY <1>3, <2>2, <2>3, <3>3
    <2>4. CASE l = k0 /\ j = 1
      <3>1. ASSUME NEW q \in new PROVE FALSE
        <4>1. PICK k \in K : \E i \in G[k] :
                  /\ q = <<label, k, i>>
                  /\ k # k0 => q \in old
                  /\ k = k0 => i \in Nat \ {0} /\ <<label, k0, i + 1>> \in old
          BY <1>4, <3>1
        <4>2. PICK i \in G[k] :
                  /\ q = <<label, k, i>>
                  /\ k # k0 => q \in old
                  /\ k = k0 => i \in Nat \ {0} /\ <<label, k0, i + 1>> \in old
          BY <4>1
        <4>3. k # k0 => k = l
          BY <1>3, <1>6, <2>2, <4>2
        <4>4. k = k0 => i + 1 = 1 /\ i \in Nat \ {0}
          BY <1>3, <1>6, <2>2, <2>4, <4>2
        <4> QED BY <2>4, <4>3, <4>4
      <3> QED BY <2>2, <2>4, <3>1
    <2>5. CASE l = k0 /\ j # 1
      <3>1. j \in Nat \ {0} /\ j - 1 \in G[k0] /\ (j - 1) + 1 = j
        BY <1>0, <2>2, <2>5 DEF Moved
      <3> DEFINE r == <<label, k0, j - 1>>
      <3>2. r \in new
        BY <1>0, <1>2, <3>1
      <3>3. ASSUME NEW q \in new PROVE q = r
        <4>1. PICK k \in K : \E i \in G[k] :
                  /\ q = <<label, k, i>>
                  /\ k # k0 => q \in old
                  /\ k = k0 => i \in Nat \ {0} /\ <<label, k0, i + 1>> \in old
          BY <1>4, <3>3
        <4>2. PICK i \in G[k] :
                  /\ q = <<label, k, i>>
                  /\ k # k0 => q \in old
                  /\ k = k0 => i \in Nat \ {0} /\ <<label, k0, i + 1>> \in old
          BY <4>1
        <4>3. k = k0
          BY <1>3, <1>6, <2>2, <2>5, <4>2
        <4>4. i + 1 = j /\ i \in Nat
          BY <1>3, <1>6, <2>2, <2>5, <4>2, <4>3
        <4>5. i = j - 1
          BY <3>1, <4>4
        <4> QED BY <4>2, <4>3, <4>5
      <3>4. new = {r}
        BY <3>2, <3>3
      <3>5. p # <<label, k0, 1>>
        BY <1>3, <2>2, <2>5
      <3> QED BY <3>4, <3>5
    <2> QED BY <2>3, <2>4, <2>5
  <1> QED BY <1>5, <1>6 DEF old, new, Succeeded

(* An event that carries a packet to the list of deliveries, or a probe home. *)
LEMMA DeliverConserves ==
    ASSUME MessagesIInv, NEW e \in calendar, Deliver(e)
    PROVE  Traced' /\ Conserved'
  <1> DEFINE packet == e.data.packet
             x == [id |-> packet.id, at |-> now, onTime |-> InTime(packet)]
  <1>1. /\ e.kind = "deliver" /\ e.kind \in Carriers /\ packet.id \in 1 .. counter
        /\ Basics /\ sequence \in Nat /\ counter \in Nat /\ WorldIInv /\ Traced /\ Conserved
    BY DEF MessagesIInv, WorldIInv, Basics, Deliver, Due, Carriers, Traced, TracedEvents, Fine, Known
  <1>2. delivered' = Append(delivered, x) /\ x.id = packet.id
    BY DEF Deliver
  <1>3. /\ Handle(e, <<>>) /\ queue' = queue /\ held' = held /\ counter' = counter
        /\ generated' = generated /\ dropped' = dropped
    BY DEF Deliver, gateway
  <1>4. Counted
    BY <1>1, <1>3 DEF Counted
  <1>5. Quiet(<<>>) /\ Handle(e, <<>> \o <<>>)
    <2>1. <<>> \o <<>> = <<>>
      OBVIOUS
    <2> QED BY <1>3, <2>1, QuietEvents
  <1> HIDE DEF packet, x
  <1>6. Traced'
    <2>1. TracedQueues' /\ TracedGates' /\ Listed(dropped', counter')
      BY <1>1, <1>3, <1>4, QueuesTraced, GatesTraced, ListKept DEF Traced
    <2>2. TracedEvents'
      BY <1>1, <1>4, <1>5, QuietIsFine, EventsTraced DEF Traced
    <2>3. Listed(delivered', counter')
      BY <1>1, <1>2, <1>3, <1>4, ListGrows DEF Traced
    <2> QED BY <2>1, <2>2, <2>3 DEF Traced
  <1>7. ASSUME NEW o \in generated PROVE Sole(o.id)'
    <2>1. PICK id : id = o.id /\ Sole(id)
      BY <1>1 DEF Conserved
    <2>2. /\ InQueues(id)' = InQueues(id) /\ AtGates(id)' = AtGates(id)
          /\ AmongDropped(id)' = AmongDropped(id)
      BY <1>3 DEF InQueues, AtGates, AmongDropped
    <2>3. InEvents(id)' = InEvents(id) \ {<<"event", e>>}
      BY <1>1, <1>5, EventsLeave
    <2> DEFINE n == Len(delivered) + 1
    <2>4. /\ packet.id # id => AmongDelivered(id)' = AmongDelivered(id)
          /\ packet.id = id => AmongDelivered(id)' = AmongDelivered(id) \cup {<<"delivered", n>>}
      <3>1. PICK S : delivered \in Seq(S)
        BY <1>1 DEF Traced, Listed
      <3>2. /\ packet.id # id => Marks(delivered', id) = Marks(delivered, id)
            /\ packet.id = id => Marks(delivered', id) = Marks(delivered, id) \cup {n}
        BY <1>2, <3>1, MarksAppended, Zenon
      <3>3. /\ AmongDelivered(id) = {<<"delivered", i>> : i \in Marks(delivered, id)}
            /\ AmongDelivered(id)' = {<<"delivered", i>> : i \in Marks(delivered', id)}
        BY DEF AmongDelivered, Marks
      <3> HIDE DEF n
      <3> QED BY <3>2, <3>3
    <2> HIDE DEF n
    <2>5. CASE packet.id # id
      <3>1. <<"event", e>> \notin InEvents(id)
        BY <2>5 DEF InEvents, packet
      <3>2. Sole(id)'
        BY <2>1, <2>2, <2>3, <2>4, <2>5, <3>1, StillSole
      <3> QED BY <2>1, <3>2
    <2>6. CASE packet.id = id
      <3>1. <<"event", e>> \in InEvents(id)
        BY <1>1, <2>6 DEF InEvents, packet
      <3>2. <<"event", e>> \in Places(id)
        BY <3>1, PlacesAre
      <3>3. /\ InQueues(id) = {} /\ InEvents(id) = {<<"event", e>>} /\ AtGates(id) = {}
            /\ AmongDelivered(id) = {} /\ AmongDropped(id) = {}
        <4>1. <<"event", e>>[1] = "event"
          OBVIOUS
        <4> QED BY <2>1, <3>2, <4>1, SoleIn
      <3>4. Places(id)' = {<<"delivered", n>>}
        BY <2>2, <2>3, <2>4, <2>6, <3>3, PlacesAfter
      <3> QED BY <2>1, <3>4 DEF Sole
    <2> QED BY <2>5, <2>6
  <1> QED BY <1>3, <1>6, <1>7 DEF Conserved

LEMMA AnsweredConserves ==
    ASSUME MessagesIInv, NEW e \in calendar, Answered(e)
    PROVE  Traced' /\ Conserved'
  <1>1. /\ e.kind = "answered" /\ e.kind \in Carriers
        /\ Known(e.data.packet) /\ e.data.packet.kind \in Probes
        /\ Basics /\ sequence \in Nat /\ counter \in Nat /\ WorldIInv /\ Traced /\ Conserved
    BY Zenon DEF MessagesIInv, WorldIInv, Basics, Answered, Due, Carriers, Traced, TracedEvents, Fine,
                 Probes
  <1>2. /\ Handle(e, <<>>) /\ queue' = queue /\ held' = held /\ counter' = counter
        /\ generated' = generated /\ delivered' = delivered /\ dropped' = dropped
    BY DEF Answered, gateway, ledger
  <1>3. Counted
    BY <1>1, <1>2 DEF Counted
  <1>4. Quiet(<<>>) /\ Handle(e, <<>> \o <<>>)
    <2>1. <<>> \o <<>> = <<>>
      OBVIOUS
    <2> QED BY <1>2, <2>1, QuietEvents
  <1>5. Traced'
    <2>1. TracedQueues' /\ TracedGates' /\ Listed(dropped', counter') /\ Listed(delivered', counter')
      BY <1>1, <1>2, <1>3, QueuesTraced, GatesTraced, ListKept DEF Traced
    <2>2. TracedEvents'
      BY <1>1, <1>3, <1>4, QuietIsFine, EventsTraced DEF Traced
    <2> QED BY <2>1, <2>2 DEF Traced
  <1>6. ASSUME NEW o \in generated PROVE Sole(o.id)'
    <2>1. PICK id : id = o.id /\ Sole(id)
      BY <1>1 DEF Conserved
    <2>2. /\ InQueues(id)' = InQueues(id) /\ AtGates(id)' = AtGates(id)
          /\ AmongDropped(id)' = AmongDropped(id) /\ AmongDelivered(id)' = AmongDelivered(id)
      BY <1>2 DEF InQueues, AtGates, AmongDropped, AmongDelivered
    <2>3. InEvents(id)' = InEvents(id) \ {<<"event", e>>}
      BY <1>1, <1>4, EventsLeave
    <2>4. e.data.packet.id # id
      BY <1>1, <2>1 DEF Known
    <2>5. <<"event", e>> \notin InEvents(id)
      BY <2>4 DEF InEvents
    <2>6. Sole(id)'
      BY <2>1, <2>2, <2>3, <2>5, StillSole
    <2> QED BY <2>1, <2>6
  <1> QED BY <1>2, <1>5, <1>6 DEF Conserved

(* A request or a probe is sent, under a number of its own. *)
LEMMA RequestConserves ==
    ASSUME MessagesIInv, NEW e \in calendar, GenerateRequest(e)
    PROVE  Traced' /\ Conserved'
  <1> DEFINE site == e.data.site
             packet == Packet(counter + 1, "scada", site, "request", now, Downlink(site))
             at == now + Period["scada"]
             B == Recurring("generate", at, e.data)
             A == ArrivalEvents(packet, 1)
  <1>1. /\ e.kind = "generate" /\ e.kind \notin Carriers /\ site \in SiteSet
        /\ Basics /\ Bounded /\ Served /\ sequence \in Nat /\ counter \in Nat /\ now \in Nat
        /\ WorldIInv /\ Traced /\ Conserved
    BY DEF MessagesIInv, WorldIInv, Events, Ready, Payload, GenerateRequest, Due, Basics, Carriers
  <1>2. /\ packet \in Carried /\ 1 \in 1 .. Len(packet.route)
        /\ packet.id = counter + 1 /\ packet.kind = "request"
    <2>1. Downlink(site) \in Seq(QueueIds) /\ Len(Downlink(site)) = 2
      BY <1>1, Routes
    <2>2. counter + 1 \in Nat
      BY <1>1
    <2> DEFINE route == Downlink(site)
    <2>3. packet = [id |-> counter + 1, service |-> "scada", site |-> site, kind |-> "request",
                    generated |-> now, route |-> route]
      BY DEF Packet
    <2> HIDE DEF packet, site, route
    <2>4. packet \in Packets
      BY <1>1, <2>1, <2>2, <2>3 DEF Packets, Kinds, route
    <2>5. packet.kind = "request" /\ packet.id = counter + 1 /\ packet.route = route
      BY <2>3
    <2>6. packet \in Carried
      BY <2>4, <2>5 DEF Carried
    <2>7. 1 \in 1 .. Len(packet.route)
      <3>1. Len(packet.route) = 2
        BY <2>1, <2>5 DEF route
      <3> QED BY <3>1
    <2> QED BY <2>5, <2>6, <2>7
  <1>3. /\ counter' = counter + 1 /\ generated' = generated \cup {packet}
        /\ Arrive(packet, 1) /\ Handle(e, A \o B)
        /\ held' = held /\ delivered' = delivered
    BY DEF GenerateRequest, gateway
  <1>4. Quiet(A) /\ Quiet(B)
    BY QuietEvents
  <1> HIDE DEF site, packet, at, A, B
  <1>5. Counted /\ KnownNext(packet)
    BY <1>1, <1>2, <1>3 DEF Counted, KnownNext, Probes
  <1>6. Traced'
    <2>1. TracedQueues' /\ Listed(dropped', counter')
      BY <1>1, <1>2, <1>3, <1>5, ArrivalTraced DEF Traced
    <2>2. TracedEvents'
      BY <1>1, <1>3, <1>4, <1>5, QuietIsFine, EventsTraced DEF Traced
    <2>3. TracedGates' /\ Listed(delivered', counter')
      BY <1>1, <1>3, <1>5, GatesTraced, ListKept DEF Traced
    <2> QED BY <2>1, <2>2, <2>3 DEF Traced
  <1>7. ASSUME NEW o \in generated PROVE Sole(o.id)'
    <2>1. PICK id : id = o.id /\ Sole(id) /\ id # counter + 1
      BY <1>1, NewIsNowhere DEF Conserved
    <2>2. AtGates(id)' = AtGates(id)
      BY <1>3 DEF AtGates
    <2>3. Sole(id)'
      BY <1>1, <1>2, <1>3, <1>4, <2>1, <2>2, OthersStay
    <2> QED BY <2>1, <2>3
  <1>8. ASSUME NEW id, id = counter + 1 PROVE Sole(id)'
    <2>1. id = packet.id
      BY <1>2, <1>8
    <2>2. /\ InQueues(id) = {} /\ InEvents(id) = {} /\ AtGates(id) = {}
          /\ AmongDelivered(id) = {} /\ AmongDropped(id) = {}
      BY <1>1, <1>2, <2>1, NewIsNowhere
    <2>3. InEvents(id)' = {}
      BY <1>1, <1>3, <1>4, <2>2, EventsLeave
    <2>4. AtGates(id)' = {} /\ AmongDelivered(id)' = {}
      BY <1>3, <2>2 DEF AtGates, AmongDelivered
    <2>5. Sole(id)'
      BY <1>1, <1>2, <1>3, <2>1, <2>2, <2>3, <2>4, SoleArrived DEF Probes
    <2> QED BY <2>5
  <1>9. ASSUME NEW o \in generated' PROVE Sole(o.id)'
    <2>2. o \in generated \/ o.id = counter + 1
      BY <1>2, <1>3
    <2>3. CASE o \in generated
      BY <1>7, <2>3
    <2>4. CASE o.id = counter + 1
      BY <1>8, <2>4
    <2> QED BY <2>2, <2>3, <2>4
  <1> QED BY <1>6, <1>9 DEF Conserved

LEMMA ProbeConserves ==
    ASSUME MessagesIInv, NEW e \in calendar, Probe(e)
    PROVE  Traced' /\ Conserved'
  <1> DEFINE site == e.data.site
             leg == e.data.leg
             packet == Packet(counter + 1, "probe", site, "probe", now, << <<site, leg, "up">> >>)
             at == now + ProbePeriod
             B == Recurring("probe", at, e.data)
             A == ArrivalEvents(packet, 1)
  <1>1. /\ e.kind = "probe" /\ e.kind \notin Carriers /\ site \in SiteSet /\ leg \in LegSet
        /\ Basics /\ Bounded /\ Served /\ sequence \in Nat /\ counter \in Nat /\ now \in Nat
        /\ WorldIInv /\ Traced /\ Conserved
    BY DEF MessagesIInv, WorldIInv, Events, Ready, Payload, Probe, Due, Basics, Carriers
  <1>2. /\ packet \in Carried /\ 1 \in 1 .. Len(packet.route)
        /\ packet.id = counter + 1 /\ packet.kind = "probe"
    <2>1. PICK k \in QueueIds : k = <<site, leg, "up">>
      BY <1>1 DEF QueueIds, Directions
    <2>2. PICK route \in Seq(QueueIds) : route = <<k>> /\ Len(route) = 1
      BY OneHop
    <2>3. PICK id \in Nat : id = counter + 1
      BY <1>1
    <2>4. packet = [id |-> id, service |-> "probe", site |-> site, kind |-> "probe",
                    generated |-> now, route |-> route]
      BY <2>1, <2>2, <2>3 DEF Packet
    <2>5. route = << <<site, leg, "up">> >>
      BY <2>1, <2>2
    <2> HIDE DEF packet, site, leg
    <2>6. packet \in Packets
      BY <1>1, <2>4 DEF Packets, Kinds
    <2>7. packet \in Carried /\ 1 \in 1 .. Len(packet.route)
      BY <1>1, <2>2, <2>4, <2>5, <2>6 DEF Carried
    <2>8. packet.id = counter + 1 /\ packet.kind = "probe"
      BY <2>3, <2>4
    <2> QED BY <2>7, <2>8
  <1>3. /\ counter' = counter + 1 /\ generated' = generated
        /\ Arrive(packet, 1) /\ Handle(e, A \o B)
        /\ held' = held /\ delivered' = delivered
    BY DEF Probe, gateway
  <1>4. Quiet(A) /\ Quiet(B)
    BY QuietEvents
  <1> HIDE DEF site, leg, packet, at, A, B
  <1>5. \A o \in generated : o.id # counter + 1
    BY <1>1, NewIsNowhere
  <1>6. Counted /\ KnownNext(packet)
    BY <1>1, <1>2, <1>3, <1>5 DEF Counted, KnownNext
  <1>7. Traced'
    <2>1. TracedQueues' /\ Listed(dropped', counter')
      BY <1>1, <1>2, <1>3, <1>6, ArrivalTraced DEF Traced
    <2>2. TracedEvents'
      BY <1>1, <1>3, <1>4, <1>6, QuietIsFine, EventsTraced DEF Traced
    <2>3. TracedGates' /\ Listed(delivered', counter')
      BY <1>1, <1>3, <1>6, GatesTraced, ListKept DEF Traced
    <2> QED BY <2>1, <2>2, <2>3 DEF Traced
  <1>8. ASSUME NEW o \in generated PROVE Sole(o.id)'
    <2>1. PICK id : id = o.id /\ Sole(id) /\ id # packet.id
      BY <1>1, <1>2, <1>5 DEF Conserved
    <2>2. AtGates(id)' = AtGates(id)
      BY <1>3 DEF AtGates
    <2>3. Sole(id)'
      BY <1>1, <1>2, <1>3, <1>4, <2>1, <2>2, OthersStay
    <2> QED BY <2>1, <2>3
  <1> QED BY <1>3, <1>7, <1>8 DEF Conserved

(* The gates. *)
LEMMA GatesByMarks ==
    ASSUME NEW id, held \in [SiteSet -> Seq(Readings)], NEW site \in SiteSet,
           NEW readings, held'[site] = readings,
           \A s \in SiteSet : s # site => held'[s] = held[s]
    PROVE  \E F, G :
              /\ AtGates(id) = Spread("gateway", SiteSet, F)
              /\ AtGates(id)' = Spread("gateway", SiteSet, G)
              /\ F[site] = Marks(held[site], id) /\ G[site] = Marks(readings, id)
              /\ \A s \in SiteSet : s # site => G[s] = F[s]
  <1> DEFINE F == [s \in SiteSet |-> Marks(held[s], id)]
             G == [s \in SiteSet |-> Marks(held'[s], id)]
  <1>1. AtGates(id) = Spread("gateway", SiteSet, F) /\ AtGates(id)' = Spread("gateway", SiteSet, G)
    BY DEF AtGates, Spread, Marks
  <1>2. /\ F[site] = Marks(held[site], id) /\ G[site] = Marks(readings, id)
        /\ \A s \in SiteSet : s # site => G[s] = F[s]
    OBVIOUS
  <1> HIDE DEF F, G
  <1> QED BY <1>1, <1>2

(* A gate holds a new reading. *)
LEMMA ReadingConserves ==
    ASSUME MessagesIInv, NEW e \in calendar, GenerateReading(e)
    PROVE  Traced' /\ Conserved'
  <1> DEFINE site == e.data.site
             packet == Packet(counter + 1, "ami", site, "reading", now, <<>>)
             readings == Append(held[site], packet)
             at == now + Period["ami"]
             B == Recurring("generate", at, e.data)
             A == IF releasing[site] THEN <<>> ELSE ReleaseEvents(site, readings)
  <1>1. /\ e.kind = "generate" /\ e.kind \notin Carriers /\ site \in SiteSet
        /\ Basics /\ sequence \in Nat /\ counter \in Nat
        /\ held \in [SiteSet -> Seq(Readings)]
        /\ WorldIInv /\ Traced /\ Conserved
    BY DEF MessagesIInv, WorldIInv, Events, Ready, Payload, GenerateReading, Due, Basics, Carriers
  <1>2. packet.id = counter + 1
    BY DEF Packet
  <1>3. /\ counter' = counter + 1 /\ generated' = generated \cup {packet}
        /\ held' = [held EXCEPT ![site] = readings] /\ held'[site] = readings
        /\ queue' = queue /\ delivered' = delivered /\ dropped' = dropped
    BY <1>1 DEF GenerateReading
  <1>4. Handle(e, A \o B)
    BY <1>3 DEF GenerateReading
  <1>5. Quiet(A) /\ Quiet(B)
    BY QuietEvents
  <1> HIDE DEF A, B, at, site, packet
  <1>6. held[site] \in Seq(Readings)
    BY <1>1
  <1>7. Counted
    BY <1>1, <1>2, <1>3 DEF Counted
  <1>8. Traced'
    <2>1. TracedQueues' /\ Listed(dropped', counter') /\ Listed(delivered', counter')
      BY <1>1, <1>3, <1>7, QueuesTraced, ListKept DEF Traced
    <2>2. TracedEvents'
      BY <1>1, <1>4, <1>5, <1>7, QuietIsFine, EventsTraced DEF Traced
    <2>3. TracedGates'
      <3>1. \A i \in DOMAIN readings : readings[i] = packet \/ (i \in DOMAIN held[site] /\ readings[i] = held[site][i])
        BY <1>6, Grown
      <3>2. \A s \in SiteSet : s # site => held'[s] = held[s]
        BY <1>1, <1>3
      <3>3. \A n \in 1 .. counter : n \in 1 .. counter'
        BY <1>7 DEF Counted
      <3>4. counter + 1 \in 1 .. counter'
        BY <1>1, <1>3
      <3> HIDE DEF readings
      <3> QED BY <1>1, <1>2, <1>3, <3>1, <3>2, <3>3, <3>4, Zenon DEF Traced, TracedGates
    <2> QED BY <2>1, <2>2, <2>3 DEF Traced
  <1> HIDE DEF readings
  <1>9. ASSUME NEW id
        PROVE  /\ id # counter + 1 => AtGates(id)' = AtGates(id)
               /\ id = counter + 1 /\ AtGates(id) = {} => \E q : AtGates(id)' = {q}
    <2>1. PICK F, G :
              /\ AtGates(id) = Spread("gateway", SiteSet, F)
              /\ AtGates(id)' = Spread("gateway", SiteSet, G)
              /\ F[site] = Marks(held[site], id) /\ G[site] = Marks(readings, id)
              /\ \A s \in SiteSet : s # site => G[s] = F[s]
      <3>1. PICK r : r = readings
        OBVIOUS
      <3>2. held'[site] = r /\ \A s \in SiteSet : s # site => held'[s] = held[s]
        BY <1>1, <1>3, <3>1
      <3> QED BY <1>1, <3>1, <3>2, GatesByMarks
    <2>2. PICK n : /\ packet.id # id => G[site] = F[site]
                   /\ packet.id = id => G[site] = F[site] \cup {n}
      <3>1. PICK h \in Seq(Readings) : h = held[site]
        BY <1>6
      <3>2. /\ packet.id # id => Marks(Append(h, packet), id) = Marks(h, id)
            /\ packet.id = id => Marks(Append(h, packet), id) = Marks(h, id) \cup {Len(h) + 1}
        BY MarksAppended, Zenon
      <3>3. readings = Append(h, packet)
        BY <3>1 DEF readings
      <3> QED BY <2>1, <3>1, <3>2, <3>3
    <2>3. \A p : p \in AtGates(id) <=> \E s \in SiteSet : \E i \in F[s] : p = <<"gateway", s, i>>
      BY <2>1, InSpread
    <2>4. \A p : p \in AtGates(id)' <=> \E s \in SiteSet : \E i \in G[s] : p = <<"gateway", s, i>>
      BY <2>1, InSpread
    <2>5. ASSUME id # counter + 1 PROVE AtGates(id)' = AtGates(id)
      <3>1. \A s \in SiteSet : G[s] = F[s]
        BY <1>2, <2>1, <2>2, <2>5
      <3> QED BY <2>3, <2>4, <3>1
    <2>6. ASSUME id = counter + 1, AtGates(id) = {} PROVE AtGates(id)' = {<<"gateway", site, n>>}
      <3>1. \A s \in SiteSet : F[s] = {}
        BY <2>3, <2>6
      <3>2. \A s \in SiteSet : G[s] = IF s = site THEN {n} ELSE {}
        BY <1>1, <1>2, <2>1, <2>2, <2>6, <3>1
      <3>3. ASSUME NEW p PROVE p \in AtGates(id)' <=> p = <<"gateway", site, n>>
        BY <1>1, <2>4, <3>2
      <3> QED BY <3>3
    <2> QED BY <2>5, <2>6
  <1>10. ASSUME NEW id, e.kind \notin Carriers
         PROVE  /\ InQueues(id)' = InQueues(id) /\ InEvents(id)' = InEvents(id)
                /\ AmongDelivered(id)' = AmongDelivered(id) /\ AmongDropped(id)' = AmongDropped(id)
    <2>1. InEvents(id)' = InEvents(id)
      BY <1>1, <1>4, <1>5, EventsLeave
    <2> QED BY <1>3, <2>1 DEF InQueues, AmongDelivered, AmongDropped
  <1>11. ASSUME NEW o \in generated PROVE Sole(o.id)'
    <2>1. PICK id : id = o.id /\ Sole(id) /\ id # counter + 1
      BY <1>1, NewIsNowhere DEF Conserved
    <2>2. Sole(id)'
      BY <1>1, <1>9, <1>10, <2>1, StillSole
    <2> QED BY <2>1, <2>2
  <1>12. ASSUME NEW id, id = counter + 1 PROVE Sole(id)'
    <2>1. /\ InQueues(id) = {} /\ InEvents(id) = {} /\ AtGates(id) = {}
          /\ AmongDelivered(id) = {} /\ AmongDropped(id) = {}
      BY <1>1, <1>12, NewIsNowhere
    <2>2. PICK q : AtGates(id)' = {q}
      BY <1>9, <1>12, <2>1
    <2>3. Places(id)' = {q}
      BY <1>1, <1>10, <2>1, <2>2, PlacesAfter
    <2> QED BY <2>3 DEF Sole
  <1>13. ASSUME NEW o \in generated' PROVE Sole(o.id)'
    <2>1. o \in generated \/ o.id = counter + 1
      BY <1>2, <1>3
    <2> QED BY <1>11, <1>12, <2>1
  <1> QED BY <1>8, <1>13 DEF Conserved

(* A gate releases its first reading. *)
LEMMA ReleaseConserves ==
    ASSUME MessagesIInv, NEW e \in calendar, Release(e)
    PROVE  Traced' /\ Conserved'
  <1> DEFINE site == e.data.site
             head == Head(held[site])
             packet == [head EXCEPT !.route = Uplink(site)]
             rest == Tail(held[site])
             A == ArrivalEvents(packet, 1)
             B == ReleaseEvents(site, rest)
  <1>1. /\ e.kind = "release" /\ e.kind \notin Carriers /\ site \in SiteSet
        /\ Basics /\ Bounded /\ Served /\ sequence \in Nat /\ counter \in Nat
        /\ held \in [SiteSet -> Seq(Readings)] /\ Opens(e, site)
        /\ WorldIInv /\ Traced /\ Conserved
    BY DEF MessagesIInv, WorldIInv, Events, Ready, Payload, Release, Due, Basics, Carriers, Opens
  <1>2. held[site] # <<>> /\ held[site] \in Seq(Readings)
    <2>1. e \in Releasing(site)
      BY <1>1 DEF Releasing
    <2> QED BY <1>1, <2>1 DEF WorldIInv, Gated
  <1>3. /\ packet \in Carried /\ 1 \in 1 .. Len(packet.route)
        /\ packet.id = head.id /\ packet.kind = "reading"
    <2>1. head \in Readings
      <3> HIDE DEF site
      <3> QED BY <1>2, Shortened
    <2>2. PICK route \in Seq(QueueIds) : route = Uplink(site) /\ Len(route) = 2
      BY <1>1, Routes
    <2>3. packet = [head EXCEPT !.route = route]
      BY <2>2
    <2> HIDE DEF packet, site, head
    <2>4. packet \in Carried /\ 1 \in 1 .. Len(packet.route)
      BY <2>1, <2>2, <2>3, Routed
    <2>5. packet.id = head.id /\ packet.kind = "reading"
      BY <2>1, <2>3 DEF Readings, Packets
    <2> QED BY <2>4, <2>5
  <1>4. /\ held' = [held EXCEPT ![site] = rest] /\ held'[site] = rest
        /\ Arrive(packet, 1)
        /\ counter' = counter /\ generated' = generated /\ delivered' = delivered
    BY <1>1 DEF Release
  <1>5. Handle(e, A \o B)
    BY <1>4 DEF Release
  <1>6. Quiet(A) /\ Quiet(B)
    BY QuietEvents
  <1> HIDE DEF A, B, site, packet, head
  <1>7. Counted
    BY <1>1, <1>4 DEF Counted
  <1>8. head.id \in 1 .. counter /\ 1 \in DOMAIN held[site] /\ head = held[site][1]
    <2>1. 1 \in DOMAIN held[site] /\ head = held[site][1]
      BY <1>2 DEF head
    <2> QED BY <1>1, <2>1 DEF Traced, TracedGates
  <1>9. KnownNext(packet)
    BY <1>3, <1>4, <1>8 DEF KnownNext, Probes
  <1>10. Traced'
    <2>1. TracedQueues' /\ Listed(dropped', counter')
      BY <1>1, <1>3, <1>4, <1>7, <1>9, ArrivalTraced DEF Traced
    <2>2. TracedEvents'
      BY <1>1, <1>5, <1>6, <1>7, QuietIsFine, EventsTraced DEF Traced
    <2>3. TracedGates'
      <3>1. \A i \in DOMAIN rest : i + 1 \in DOMAIN held[site] /\ rest[i] = held[site][i + 1]
        BY <1>2
      <3>2. \A s \in SiteSet : s # site => held'[s] = held[s]
        BY <1>1, <1>4
      <3> HIDE DEF rest
      <3> QED BY <1>1, <1>4, <3>1, <3>2 DEF Traced, TracedGates
    <2>4. Listed(delivered', counter')
      BY <1>1, <1>4, <1>7, ListKept DEF Traced
    <2> QED BY <2>1, <2>2, <2>3, <2>4 DEF Traced
  <1>11. ASSUME NEW o \in generated PROVE Sole(o.id)'
    <2>1. PICK id : id = o.id /\ Sole(id)
      BY <1>1 DEF Conserved
    <2>2. PICK F, G :
              /\ AtGates(id) = Spread("gateway", SiteSet, F)
              /\ AtGates(id)' = Spread("gateway", SiteSet, G)
              /\ F[site] = Marks(held[site], id) /\ G[site] = Marks(rest, id)
              /\ \A s \in SiteSet : s # site => G[s] = F[s]
      <3> HIDE DEF rest
      <3>1. PICK r : r = rest
        OBVIOUS
      <3>2. held'[site] = r /\ \A s \in SiteSet : s # site => held'[s] = held[s]
        BY <1>1, <1>4, <3>1
      <3> QED BY <1>1, <3>1, <3>2, GatesByMarks
    <2>3. Moved(F[site], G[site]) /\ (1 \in F[site] <=> head.id = id)
      BY <1>2, <2>2, MarksMoved DEF head
    <2> HIDE DEF rest
    <2>4. /\ AtGates(id) = {} => AtGates(id)' = {}
          /\ \A p : AtGates(id) = {p} =>
                \/ p = <<"gateway", site, 1>> /\ AtGates(id)' = {}
                \/ p # <<"gateway", site, 1>> /\ \E q : AtGates(id)' = {q}
      <3>1. Shortens(SiteSet, site, F, G)
        BY <1>1, <2>2, <2>3 DEF Shortens
      <3>2. Succeeded(<<"gateway", site, 1>>, Spread("gateway", SiteSet, F), Spread("gateway", SiteSet, G))
        BY <3>1, SpreadMoved
      <3>3. Succeeded(<<"gateway", site, 1>>, AtGates(id), AtGates(id)')
        BY <2>2, <3>2
      <3> QED BY <3>3 DEF Succeeded
    <2>5. <<"gateway", site, 1>> \in AtGates(id) <=> head.id = id
      <3>1. \A p : p \in AtGates(id) <=> \E s \in SiteSet : \E i \in F[s] : p = <<"gateway", s, i>>
        BY <2>2, InSpread
      <3> QED BY <1>1, <2>3, <3>1
    <2>6. InEvents(id)' = InEvents(id) /\ AmongDelivered(id)' = AmongDelivered(id)
      <3>1. InEvents(id)' = InEvents(id)
        BY <1>1, <1>5, <1>6, EventsLeave
      <3> QED BY <1>4, <3>1 DEF AmongDelivered
    <2>7. CASE id = head.id
      <3>1. <<"gateway", site, 1>> \in Places(id)
        BY <2>5, <2>7, PlacesAre
      <3>2. /\ InQueues(id) = {} /\ InEvents(id) = {} /\ AtGates(id) = {<<"gateway", site, 1>>}
            /\ AmongDelivered(id) = {} /\ AmongDropped(id) = {}
        <4>1. <<"gateway", site, 1>>[1] = "gateway"
          OBVIOUS
        <4> QED BY <2>1, <3>1, <4>1, SoleIn
      <3>3. InEvents(id)' = {} /\ AtGates(id)' = {} /\ AmongDelivered(id)' = {}
        BY <2>4, <2>6, <3>2
      <3>4. Sole(id)'
        BY <1>1, <1>3, <1>4, <2>7, <3>2, <3>3, SoleArrived DEF Probes
      <3> QED BY <2>1, <3>4
    <2>8. CASE id # head.id
      <3>1. InQueues(id)' = InQueues(id) /\ AmongDropped(id)' = AmongDropped(id)
        BY <1>1, <1>3, <1>4, <2>8, ArrivalPlaces
      <3>2. CASE AtGates(id) = {}
        <4>1. AtGates(id)' = AtGates(id)
          BY <2>4, <3>2
        <4>2. Sole(id)'
          BY <2>1, <2>6, <3>1, <4>1, StillSole
        <4> QED BY <2>1, <4>2
      <3>3. CASE AtGates(id) # {}
        <4>1. PICK p : p \in AtGates(id)
          BY <3>3
        <4>2. p \in Places(id) /\ p[1] = "gateway"
          BY <4>1, PlacesAre, PlacesApart
        <4>3. /\ InQueues(id) = {} /\ InEvents(id) = {} /\ AtGates(id) = {p}
              /\ AmongDelivered(id) = {} /\ AmongDropped(id) = {}
          BY <2>1, <4>2, SoleIn
        <4>4. PICK q : AtGates(id)' = {q}
          BY <2>4, <2>5, <2>8, <4>3
        <4>5. Places(id)' = {q}
          BY <2>6, <3>1, <4>3, <4>4, PlacesAfter
        <4> QED BY <2>1, <4>5 DEF Sole
      <3> QED BY <3>2, <3>3
    <2> QED BY <2>7, <2>8
  <1> QED BY <1>4, <1>10, <1>11 DEF Conserved

(* The queues. *)
LEMMA QueuesByCells ==
    ASSUME NEW id, NEW k \in QueueIds, NEW waiting, queue'[k].waiting = waiting,
           \A j \in QueueIds : j # k => queue'[j].waiting = queue[j].waiting
    PROVE  \E F, G :
              /\ InQueues(id) = Spread("queue", QueueIds, F)
              /\ InQueues(id)' = Spread("queue", QueueIds, G)
              /\ F[k] = Spots(queue[k].waiting, id) /\ G[k] = Spots(waiting, id)
              /\ \A j \in QueueIds : j # k => G[j] = F[j]
  <1> DEFINE F == [j \in QueueIds |-> Spots(queue[j].waiting, id)]
             G == [j \in QueueIds |-> Spots(queue'[j].waiting, id)]
  <1>1. InQueues(id) = Spread("queue", QueueIds, F) /\ InQueues(id)' = Spread("queue", QueueIds, G)
    BY DEF InQueues, Spread, Spots
  <1>2. /\ F[k] = Spots(queue[k].waiting, id) /\ G[k] = Spots(waiting, id)
        /\ \A j \in QueueIds : j # k => G[j] = F[j]
    OBVIOUS
  <1> HIDE DEF F, G
  <1> QED BY <1>1, <1>2

LEMMA OnwardCarries ==
    ASSUME NEW k, NEW packet, NEW hop
    PROVE  LET a == Onward(k, packet, hop)
           IN  /\ a.kind \in Carriers /\ a.data.packet = packet
               /\ a.kind = "answered" => packet.kind = "probe_echo"
  <1> DEFINE a == Onward(k, packet, hop)
             arrival == now + Delay[Link(k)]
  <1>1. \/ a = Event("hop", arrival, [packet |-> packet, hop |-> hop + 1])
        \/ a = Event("echo", arrival, [packet |-> packet])
        \/ packet.kind = "probe_echo" /\ a = Event("answered", arrival, [packet |-> packet])
        \/ a = Event("respond", arrival + ProcessingDelay, [packet |-> packet])
        \/ a = Event("deliver", arrival, [packet |-> packet])
    BY DEF Onward
  <1>2. /\ a.data.packet = packet
        /\ \/ a.kind \in {"hop", "echo", "respond", "deliver"}
           \/ packet.kind = "probe_echo" /\ a.kind = "answered"
    BY <1>1 DEF Event
  <1> HIDE DEF a
  <1>3. /\ a.kind \in Carriers /\ a.data.packet = packet
        /\ a.kind = "answered" => packet.kind = "probe_echo"
    BY <1>2 DEF Carriers
  <1> QED BY <1>3 DEF a

(* The first of a queue goes on. *)
LEMMA ServicedConserves ==
    ASSUME MessagesIInv, NEW e \in calendar, Serviced(e)
    PROVE  Traced' /\ Conserved'
  <1> DEFINE k == e.data.queue
             served == Head(queue[k].waiting)
             shorter == [queue[k] EXCEPT !.waiting = Tail(@), !.occupied = @ - SizeOf(served.packet)]
             q == StartService(shorter)
             rest == Tail(queue[k].waiting)
             a == Onward(k, served.packet, served.hop)
             B == ServiceOf(k, q)
  <1>1. /\ e.kind = "serviced" /\ e.kind \notin Carriers /\ k \in QueueIds /\ Ends(e, k)
        /\ Basics /\ Bounded /\ Served /\ sequence \in Nat /\ counter \in Nat
        /\ queue[k] \in QueueStates /\ queue[k].waiting \in Seq(Waits)
        /\ WorldIInv /\ Traced /\ Conserved
    BY Zenon DEF MessagesIInv, WorldIInv, Events, Ready, Payload, Serviced, Due, Basics, Carriers, Ends, QueueStates
  <1>2. queue[k].waiting # <<>>
    <2>1. e \in Serving(k)
      BY <1>1 DEF Serving
    <2> QED BY <1>1, <2>1 DEF Served
  <1>3. /\ queue' = [queue EXCEPT ![k] = q] /\ Handle(e, <<a>> \o B)
        /\ held' = held /\ counter' = counter /\ generated' = generated
        /\ delivered' = delivered /\ dropped' = dropped
    BY DEF Serviced, gateway, ledger
  <1>4. q.waiting = rest
    <2>1. shorter.waiting = rest
      BY <1>1 DEF QueueStates
    <2>2. q.waiting = shorter.waiting
      <3>1. q = [shorter EXCEPT !.busy = shorter.waiting # <<>> /\ shorter.rate > 0]
        BY DEF StartService
      <3> HIDE DEF q
      <3>2. "waiting" \in DOMAIN shorter
        BY <1>1 DEF QueueStates
      <3> HIDE DEF shorter
      <3> QED BY <3>1, <3>2
    <2> QED BY <2>1, <2>2
  <1>5. Quiet(B)
    BY QuietEvents
  <1>6. /\ a.kind \in Carriers /\ a.data.packet = served.packet
        /\ a.kind = "answered" => served.packet.kind = "probe_echo"
    <2> DEFINE packet == served.packet
               hop == served.hop
    <2>1. a = Onward(k, packet, hop)
      OBVIOUS
    <2> HIDE DEF a, k, packet, hop
    <2>2. /\ a.kind \in Carriers /\ a.data.packet = packet
          /\ a.kind = "answered" => packet.kind = "probe_echo"
      BY <2>1, OnwardCarries
    <2> QED BY <2>2 DEF packet
  <1> HIDE DEF k, q, B, a, shorter
  <1>7. /\ queue'[k].waiting = rest
        /\ \A j \in QueueIds : j # k => queue'[j].waiting = queue[j].waiting
    BY <1>1, <1>3, <1>4 DEF Basics
  <1>8. 1 \in DOMAIN queue[k].waiting /\ served = queue[k].waiting[1]
    BY <1>1, <1>2
  <1>9. /\ \A i \in DOMAIN rest : i + 1 \in DOMAIN queue[k].waiting /\ rest[i] = queue[k].waiting[i + 1]
    BY <1>1, <1>2
  <1> HIDE DEF rest, served
  <1>10. Known(served.packet) /\ Counted
    BY <1>1, <1>3, <1>8 DEF Traced, TracedQueues, Counted
  <1>11. Traced'
    <2>1. TracedQueues'
      <3>1. ASSUME NEW j \in QueueIds, NEW i \in DOMAIN queue'[j].waiting
            PROVE  KnownNext(queue'[j].waiting[i].packet)
        <4>1. PICK x : x = queue'[j].waiting[i]
          OBVIOUS
        <4>2. \E l \in DOMAIN queue[j].waiting : x = queue[j].waiting[l]
          BY <1>7, <1>9, <4>1
        <4>3. Known(x.packet)
          BY <1>1, <4>2 DEF Traced, TracedQueues
        <4> QED BY <1>10, <4>1, <4>3, KnownKept
      <3> QED BY <3>1 DEF TracedQueues, Known, KnownNext
    <2>2. TracedEvents'
      <3>1. KnownNext(served.packet)
        <4>1. PICK p : p = served.packet
          OBVIOUS
        <4> QED BY <1>10, <4>1, KnownKept
      <3>2. FineNext(a)
        BY <1>6, <3>1 DEF FineNext
      <3> DEFINE A == <<a>>
      <3>3. Short(A) /\ (A # <<>> => FineNext(A[1])) /\ Handle(e, A \o B)
        BY <1>3, <3>2 DEF Short
      <3> HIDE DEF A
      <3> QED BY <1>1, <1>5, <1>10, <3>3, QuietIsFine, EventsTraced DEF Traced
    <2>3. TracedGates' /\ Listed(delivered', counter') /\ Listed(dropped', counter')
      BY <1>1, <1>3, <1>10, GatesTraced, ListKept DEF Traced
    <2> QED BY <2>1, <2>2, <2>3 DEF Traced
  <1>12. ASSUME NEW o \in generated PROVE Sole(o.id)'
    <2>1. PICK id : id = o.id /\ Sole(id)
      BY <1>1 DEF Conserved
    <2>2. PICK F, G :
              /\ InQueues(id) = Spread("queue", QueueIds, F)
              /\ InQueues(id)' = Spread("queue", QueueIds, G)
              /\ F[k] = Spots(queue[k].waiting, id) /\ G[k] = Spots(rest, id)
              /\ \A j \in QueueIds : j # k => G[j] = F[j]
      <3>1. PICK r : r = rest
        OBVIOUS
      <3> QED BY <1>1, <1>7, <3>1, QueuesByCells
    <2>3. Moved(F[k], G[k]) /\ (1 \in F[k] <=> served.packet.id = id)
      BY <1>1, <1>2, <2>2, SpotsMoved DEF served, rest
    <2>4. Succeeded(<<"queue", k, 1>>, InQueues(id), InQueues(id)')
      <3>1. Shortens(QueueIds, k, F, G)
        BY <1>1, <2>2, <2>3 DEF Shortens
      <3>2. Succeeded(<<"queue", k, 1>>, Spread("queue", QueueIds, F), Spread("queue", QueueIds, G))
        BY <3>1, SpreadMoved
      <3> QED BY <2>2, <3>2
    <2>5. <<"queue", k, 1>> \in InQueues(id) <=> served.packet.id = id
      <3>1. \A p : p \in InQueues(id) <=> \E j \in QueueIds : \E i \in F[j] : p = <<"queue", j, i>>
        BY <2>2, InSpread
      <3> QED BY <1>1, <2>3, <3>1
    <2>6. /\ AtGates(id)' = AtGates(id) /\ AmongDelivered(id)' = AmongDelivered(id)
          /\ AmongDropped(id)' = AmongDropped(id)
      BY <1>3 DEF AtGates, AmongDelivered, AmongDropped
    <2> DEFINE s == Scheduled(a, sequence + 1)
    <2>7. /\ served.packet.id # id => InEvents(id)' = InEvents(id)
          /\ served.packet.id = id => InEvents(id)' = InEvents(id) \cup {<<"event", s>>}
      BY <1>1, <1>3, <1>5, <1>6, EventSent
    <2> HIDE DEF s
    <2>8. CASE served.packet.id = id
      <3>1. <<"queue", k, 1>> \in Places(id)
        BY <2>5, <2>8, PlacesAre
      <3>2. /\ InQueues(id) = {<<"queue", k, 1>>} /\ InEvents(id) = {} /\ AtGates(id) = {}
            /\ AmongDelivered(id) = {} /\ AmongDropped(id) = {}
        <4>1. <<"queue", k, 1>>[1] = "queue"
          OBVIOUS
        <4> QED BY <2>1, <3>1, <4>1, SoleIn
      <3>3. InQueues(id)' = {}
        BY <2>4, <3>2 DEF Succeeded
      <3>4. Places(id)' = {<<"event", s>>}
        BY <2>6, <2>7, <2>8, <3>2, <3>3, PlacesAfter
      <3> QED BY <2>1, <3>4 DEF Sole
    <2>9. CASE served.packet.id # id
      <3>1. CASE InQueues(id) = {}
        <4>1. InQueues(id)' = InQueues(id)
          BY <2>4, <3>1 DEF Succeeded
        <4>2. Sole(id)'
          BY <2>1, <2>6, <2>7, <2>9, <4>1, StillSole
        <4> QED BY <2>1, <4>2
      <3>2. CASE InQueues(id) # {}
        <4>1. PICK p : p \in InQueues(id)
          BY <3>2
        <4>2. p \in Places(id) /\ p[1] = "queue"
          BY <4>1, PlacesAre, PlacesApart
        <4>3. /\ InQueues(id) = {p} /\ InEvents(id) = {} /\ AtGates(id) = {}
              /\ AmongDelivered(id) = {} /\ AmongDropped(id) = {}
          BY <2>1, <4>2, SoleIn
        <4>4. PICK r : InQueues(id)' = {r}
          BY <2>4, <2>5, <2>9, <4>3 DEF Succeeded
        <4>5. Places(id)' = {r}
          BY <2>6, <2>7, <2>9, <4>3, <4>4, PlacesAfter
        <4> QED BY <2>1, <4>5 DEF Sole
      <3> QED BY <3>1, <3>2
    <2> QED BY <2>8, <2>9
  <1> QED BY <1>3, <1>11, <1>12 DEF Conserved

(* A disturbance moves nothing. *)
LEMMA DisturbConserves ==
    ASSUME MessagesIInv, NEW e \in calendar, Disturb(e)
    PROVE  Traced' /\ Conserved'
  <1> DEFINE d == e.data
             rate == RateFor(d)
             up == <<d.site, d.leg, "up">>
             down == <<d.site, d.leg, "down">>
             A == IF queue[up].busy THEN <<>> ELSE ServiceOf(up, Disturbed(up, rate))
             B == IF queue[down].busy THEN <<>> ELSE ServiceOf(down, Disturbed(down, rate))
  <1>1. /\ e.kind = "disturb" /\ e.kind \notin Carriers
        /\ Basics /\ sequence \in Nat /\ counter \in Nat
        /\ WorldIInv /\ Traced /\ Conserved
    BY DEF MessagesIInv, WorldIInv, Disturb, Due, Basics, Carriers
  <1>2. /\ queue' = [queue EXCEPT ![up] = Disturbed(up, rate), ![down] = Disturbed(down, rate)]
        /\ Handle(e, A \o B)
        /\ held' = held /\ counter' = counter /\ generated' = generated
        /\ delivered' = delivered /\ dropped' = dropped
    BY DEF Disturb, gateway, ledger
  <1>3. Quiet(A) /\ Quiet(B)
    BY QuietEvents
  <1> HIDE DEF d, rate, up, down, A, B
  <1>4. \A k \in QueueIds : \A r : Disturbed(k, r).waiting = queue[k].waiting
    <2>1. SUFFICES ASSUME NEW k \in QueueIds, NEW r
                   PROVE  Disturbed(k, r).waiting = queue[k].waiting
      OBVIOUS
    <2> DEFINE q == [queue[k] EXCEPT !.rate = r]
    <2>2. queue[k] \in QueueStates
      BY <1>1 DEF Basics
    <2>3. q.waiting = queue[k].waiting /\ "waiting" \in DOMAIN q
      BY <2>2 DEF QueueStates
    <2>4. Disturbed(k, r) \in {q, [q EXCEPT !.busy = q.waiting # <<>> /\ q.rate > 0]}
      BY DEF Disturbed, StartService
    <2> HIDE DEF q
    <2> QED BY <2>3, <2>4
  <1>5. \A k \in QueueIds : queue'[k].waiting = queue[k].waiting
    BY <1>1, <1>2, <1>4 DEF Basics
  <1>6. Counted
    BY <1>1, <1>2 DEF Counted
  <1>7. Traced'
    <2>1. TracedQueues' /\ TracedGates' /\ Listed(delivered', counter') /\ Listed(dropped', counter')
      BY <1>1, <1>2, <1>5, <1>6, QueuesTraced, GatesTraced, ListKept DEF Traced
    <2>2. TracedEvents'
      BY <1>1, <1>2, <1>3, <1>6, QuietIsFine, EventsTraced DEF Traced
    <2> QED BY <2>1, <2>2 DEF Traced
  <1>8. ASSUME NEW o \in generated PROVE Sole(o.id)'
    <2>1. PICK id : id = o.id /\ Sole(id)
      BY <1>1 DEF Conserved
    <2>2. InQueues(id)' = InQueues(id)
      <3>1. \A k \in QueueIds : Spots(queue'[k].waiting, id) = Spots(queue[k].waiting, id)
        BY <1>5
      <3> QED BY <3>1, SameSpots
    <2>3. InEvents(id)' = InEvents(id)
      BY <1>1, <1>2, <1>3, EventsLeave
    <2>4. Sole(id)'
      BY <1>2, <2>1, <2>2, <2>3, StillSole DEF AtGates, AmongDelivered, AmongDropped
    <2> QED BY <2>1, <2>4
  <1> QED BY <1>2, <1>7, <1>8 DEF Conserved

(* A command, a tick, nothing. *)
LEMMA StillConserves ==
    ASSUME MessagesIInv,
           calendar' = calendar, queue' = queue, held' = held, counter' = counter,
           generated' = generated, delivered' = delivered, dropped' = dropped
    PROVE  Traced' /\ Conserved'
  <1>1. TracedQueues' /\ TracedGates'
    BY DEF MessagesIInv, Traced, TracedQueues, TracedGates, Known
  <1>2. TracedEvents'
    BY DEF MessagesIInv, Traced, TracedEvents, Fine, Known
  <1>3. Listed(delivered', counter') /\ Listed(dropped', counter')
    BY DEF MessagesIInv, Traced
  <1>4. ASSUME NEW id PROVE Places(id)' = Places(id)
    BY DEF Places
  <1>5. Conserved'
    BY <1>4 DEF MessagesIInv, Conserved, Sole
  <1> QED BY <1>1, <1>2, <1>3, <1>5 DEF Traced

-------------------------------------------------------------------------------
LEMMA MessagesStart ==
    ASSUME Init
    PROVE  MessagesIInv
  <1>1. WorldIInv
    BY InitEstablishes
  <1>2. ASSUME NEW e \in calendar PROVE e.kind \in Starting
    <2>1. calendar = {Scheduled(InitialEvents[k], k) : k \in DOMAIN InitialEvents}
      BY DEF Init
    <2>2. PICK k \in DOMAIN InitialEvents : e = Scheduled(InitialEvents[k], k)
      BY <2>1
    <2> QED BY <2>2, InitialCalendar DEF Scheduled
  <1>3. /\ generated = {} /\ delivered = <<>> /\ dropped = <<>>
        /\ \A k \in QueueIds : queue[k].waiting = <<>>
        /\ \A site \in SiteSet : held[site] = <<>>
    BY DEF Init
  <1>4. TracedEvents
    BY <1>2 DEF TracedEvents, Fine, Carriers, Starting
  <1>5. TracedQueues /\ TracedGates
    BY <1>3 DEF TracedQueues, TracedGates
  <1>6. Listed(<<>>, counter)
    <2>1. <<>> \in Seq({}) /\ DOMAIN <<>> = {}
      OBVIOUS
    <2> QED BY <2>1 DEF Listed
  <1> QED BY <1>1, <1>3, <1>4, <1>5, <1>6 DEF MessagesIInv, Traced, Conserved

LEMMA MessagesKept ==
    ASSUME MessagesIInv, [Next]_vars
    PROVE  MessagesIInv'
  <1>0. WorldIInv'
    BY NextKeeps DEF MessagesIInv
  <1>1. ASSUME Tick PROVE Traced' /\ Conserved'
    BY <1>1, StillConserves DEF Tick, gateway, ledger
  <1>2. ASSUME NEW e \in calendar, GenerateRequest(e) PROVE Traced' /\ Conserved'
    BY <1>2, RequestConserves
  <1>3. ASSUME NEW e \in calendar, GenerateReading(e) PROVE Traced' /\ Conserved'
    BY <1>3, ReadingConserves
  <1>4. ASSUME NEW e \in calendar, Release(e) PROVE Traced' /\ Conserved'
    BY <1>4, ReleaseConserves
  <1>5. ASSUME NEW e \in calendar, Respond(e) PROVE Traced' /\ Conserved'
    BY <1>5, RespondConserves
  <1>6. ASSUME NEW e \in calendar, Hop(e) PROVE Traced' /\ Conserved'
    BY <1>6, HopConserves
  <1>7. ASSUME NEW e \in calendar, Serviced(e) PROVE Traced' /\ Conserved'
    BY <1>7, ServicedConserves
  <1>8. ASSUME NEW e \in calendar, Deliver(e) PROVE Traced' /\ Conserved'
    BY <1>8, DeliverConserves
  <1>9. ASSUME NEW e \in calendar, Probe(e) PROVE Traced' /\ Conserved'
    BY <1>9, ProbeConserves
  <1>10. ASSUME NEW e \in calendar, Echo(e) PROVE Traced' /\ Conserved'
    BY <1>10, EchoConserves
  <1>11. ASSUME NEW e \in calendar, Answered(e) PROVE Traced' /\ Conserved'
    BY <1>11, AnsweredConserves
  <1>12. ASSUME NEW e \in calendar, Disturb(e) PROVE Traced' /\ Conserved'
    BY <1>12, DisturbConserves
  <1>13. ASSUME NEW site \in SiteSet, NEW expected \in 0 .. MaxCommands,
                \/ \E leg \in LegSet : SelectPath(site, leg, expected)
                \/ \E profile \in Profiles : SetAmiPacing(site, profile, expected)
         PROVE  Traced' /\ Conserved'
    BY <1>13, StillConserves DEF SelectPath, SetAmiPacing, gateway, ledger
  <1>14. ASSUME UNCHANGED vars PROVE Traced' /\ Conserved'
    BY <1>14, StillConserves DEF vars, gateway, ledger
  <1>15. Traced' /\ Conserved'
    BY <1>1, <1>2, <1>3, <1>4, <1>5, <1>6, <1>7, <1>8, <1>9, <1>10, <1>11, <1>12, <1>13, <1>14
       DEF Next, Advance
  <1> QED BY <1>0, <1>15 DEF MessagesIInv

(* Every message is in one place, after any events and commands: in the      *)
(* queue, the event or the gate it waits in, or in the ledger, delivered or  *)
(* dropped.  _arrive, _on_serviced, _on_release, _on_respond and _on_deliver *)
(* neither lose nor double one, whatever is switched or cut on its way.      *)
THEOREM MessagesConserved == Spec => []OneCopy
  <1>1. Init => MessagesIInv
    BY MessagesStart
  <1>2. MessagesIInv /\ [Next]_vars => MessagesIInv'
    BY MessagesKept
  <1>3. MessagesIInv => OneCopy
    BY FS_Singleton, Zenon DEF MessagesIInv, Conserved, Sole, OneCopy
  <1> QED BY <1>1, <1>2, <1>3, PTL DEF Spec

-------------------------------------------------------------------------------
(* What the packets say of the messages they carry.                          *)

(* The service and the route that go with the kind of a packet. *)
Shape(p) ==
    /\ p.kind \in {"request", "response"} => p.service = "scada"
    /\ p.kind = "reading" => p.service = "ami"
    /\ p.kind = "probe_echo" => \E leg \in LegSet : p.route = << <<p.site, leg, "down">> >>
    /\ p.kind = "response" =>
          \E leg \in LegSet : p.route = << <<p.site, leg, "up">>, Egress("up") >>

(* A site that has never left its first leg answers over it. *)
Loyal(p) ==
    p.kind = "response" /\ pathVersion[p.site] = 0 => p.route[1] = <<p.site, Legs[1], "up">>

(* What was generated under its number. *)
Ours(p) ==
    \A o \in generated : o.id = p.id =>
        o.service = p.service /\ o.site = p.site /\ o.generated = p.generated

Form(p) == Shape(p) /\ Loyal(p) /\ Ours(p)

(* A packet waits where its route says. *)
FormedQueues ==
    \A k \in QueueIds : \A i \in DOMAIN queue[k].waiting :
        /\ Form(queue[k].waiting[i].packet)
        /\ queue[k].waiting[i].packet.route[queue[k].waiting[i].hop] = k

FormedEvents ==
    \A e \in calendar :
        /\ e.kind \in Carriers => Form(e.data.packet)
        /\ e.kind = "respond" => e.data.packet.kind = "request"
        /\ e.kind = "deliver" => e.data.packet.kind \in {"reading", "response"}
        /\ e.kind = "disturb" => e.data.at = e.at

FormedGates == \A site \in SiteSet : \A i \in DOMAIN held[site] : Form(held[site][i])

(* What was generated is told apart by its number, and when it was. *)
Registered ==
    /\ IsFiniteSet(generated)
    /\ \A o, p \in generated : o.id = p.id => o = p
    /\ \A o \in generated : o.generated \in 0 .. now
    /\ \A i \in DOMAIN delivered : delivered[i].at \in 0 .. now

(* A site that has not left its first leg. *)
Unmoved == \A site \in SiteSet : pathVersion[site] = 0 => path[site] = Legs[1]

FormedIInv == MessagesIInv /\ FormedQueues /\ FormedEvents /\ FormedGates /\ Registered /\ Unmoved

-------------------------------------------------------------------------------
(* The legs. *)

(* The disturbances of a leg so far are at most as late as t. *)
CutBy(site, leg, t) ==
    \A k \in DOMAIN impairments :
        impairments[k].site = site /\ impairments[k].leg = leg => impairments[k].at <= t

LegsInv ==
    /\ \A site \in SiteSet, leg \in LegSet :
          /\ queue[<<site, leg, "up">>].rate = queue[<<site, leg, "down">>].rate
          /\ queue[<<site, leg, "up">>].rate = 0 =>
                \E k \in DOMAIN impairments : impairments[k].site = site /\ impairments[k].leg = leg
    /\ queue[Egress("up")].rate = Capacity["egress"]
    /\ \A k \in DOMAIN impairments : impairments[k].at \in 0 .. now
    /\ \A j, k \in DOMAIN impairments : j < k => impairments[j].at <= impairments[k].at

-------------------------------------------------------------------------------
(* What is on its way back, of a leg that served nothing after t.            *)

(* The longest service of a response on a leg that serves. *)
Sluggish == Size["response"] \div Min(Rates \ {0})

ServesEcho(e, site, leg) ==
    /\ Ends(e, <<site, leg, "down">>)
    /\ Head(queue[<<site, leg, "down">>].waiting).packet.kind = "probe_echo"

ServesResponse(e, site, leg) ==
    /\ Ends(e, <<site, leg, "up">>)
    /\ Head(queue[<<site, leg, "up">>].waiting).packet.kind = "response"

IsAnswer(e, site, leg) ==
    e.kind = "answered" /\ e.data.packet.site = site /\ e.data.packet.route[1][2] = leg

IsResponse(p, site) == p.kind = "response" /\ p.site = site

ProbesBy(site, leg, t) ==
    /\ \A e \in calendar :
          /\ ServesEcho(e, site, leg) => e.at <= t + Slowest
          /\ IsAnswer(e, site, leg) => e.at <= t + Slowest + Delay[leg]
    /\ LET last == probes[<<site, leg>>].last
       IN  last # <<>> => last[1] \in Nat /\ last[1] <= t + Slowest + Delay[leg]

(* The first so many of a queue. *)
FirstOf(waiting, n) == [i \in 1 .. n |-> waiting[i]]

(* When the response at a place of the egress has been served, in bytes.     *)
Across(e, i) ==
    Capacity["egress"] * e.at + BytesOf(FirstOf(queue[Egress("up")].waiting, i))
        - SizeOf(Head(queue[Egress("up")].waiting).packet)

AtEgress(site, leg, t) == t + Sluggish + Delay[leg]
AtCentre(site, leg, t) == AtEgress(site, leg, t) + EgressWait + Delay["egress"]

ResponsesBy(site, leg, t) ==
    /\ \A e \in calendar :
          /\ ServesResponse(e, site, leg) => e.at <= t + Sluggish
          /\ e.kind = "hop" /\ IsResponse(e.data.packet, site) => e.at <= AtEgress(site, leg, t)
          /\ e.kind = "deliver" /\ IsResponse(e.data.packet, site) => e.at <= AtCentre(site, leg, t)
          /\ Ends(e, Egress("up")) =>
                \A i \in DOMAIN queue[Egress("up")].waiting :
                    IsResponse(queue[Egress("up")].waiting[i].packet, site) =>
                        Across(e, i) <= Capacity["egress"] * AtEgress(site, leg, t) + world.limit
    /\ \A o \in generated, k \in DOMAIN delivered :
          o.service = "scada" /\ o.site = site /\ delivered[k].id = o.id =>
              delivered[k].at <= AtCentre(site, leg, t)

(* The egress serves without a pause. *)
EgressBusy ==
    \A e \in calendar : Ends(e, Egress("up")) =>
        Capacity["egress"] * e.at <= Capacity["egress"] * now + SizeOf(Head(queue[Egress("up")].waiting).packet)

Fading(site, leg, t) ==
    /\ ProbesBy(site, leg, t)
    /\ pathVersion[site] = 0 /\ leg = Legs[1] => ResponsesBy(site, leg, t)

FadingInv ==
    /\ EgressBusy
    /\ \A site \in SiteSet, leg \in LegSet :
          /\ Fading(site, leg, now)
          /\ queue[<<site, leg, "up">>].rate = 0 =>
                \A t \in Int : CutBy(site, leg, t) => Fading(site, leg, t)

-------------------------------------------------------------------------------
(* What a handler may do to the queues and the calendar, but for taking the  *)
(* served packet on: packets join queues, services begin, and other events   *)
(* are scheduled that carry nothing.                                         *)

Begins(x) ==
    /\ x.kind = "serviced" /\ x.data.queue \in QueueIds
    /\ LET q == queue'[x.data.queue]
       IN  /\ q.busy /\ q.waiting # <<>> /\ q.rate > 0
           /\ x.at = now + SizeOf(Head(q.waiting).packet) \div q.rate

Plain(x) == x.kind \notin Carriers \cup {"serviced", "disturb"}

(* Nothing, or one event of these. *)
Starter(A) == A = <<>> \/ (A = <<A[1]>> /\ (Plain(A[1]) \/ Begins(A[1])))

Joins(k, w) == queue'[k].waiting = Append(queue[k].waiting, w)

Calm(e, W) ==
    /\ e.kind # "serviced"
    /\ \A k \in QueueIds :
          \/ queue'[k].waiting = queue[k].waiting
          \/ \E w \in W : w.packet.route[w.hop] = k /\ Joins(k, w)
    /\ calendar \ {e} \subseteq calendar'
    /\ \A x \in calendar' : (x \in calendar /\ x # e) \/ Plain(x) \/ Begins(x)

LEMMA StarterScheduled ==
    ASSUME NEW x, NEW n, Plain(x) \/ Begins(x)
    PROVE  Plain(Scheduled(x, n)) \/ Begins(Scheduled(x, n))
  <1>1. /\ Scheduled(x, n).kind = x.kind /\ Scheduled(x, n).at = x.at
        /\ Scheduled(x, n).data = x.data
    BY DEF Scheduled
  <1> QED BY <1>1 DEF Plain, Begins

LEMMA StartersAre ==
    /\ Starter(<<>>)
    /\ \A site, readings : Starter(ReleaseEvents(site, readings))
    /\ \A kind \in {"generate", "probe"} : \A at, data : Starter(Recurring(kind, at, data))
  <1>1. Starter(<<>>)
    BY DEF Starter
  <1>2. ASSUME NEW a, a.kind \notin Carriers \cup {"serviced", "disturb"} PROVE Starter(<<a>>)
    BY <1>2 DEF Starter, Plain
  <1>3. ASSUME NEW site, NEW readings PROVE Starter(ReleaseEvents(site, readings))
    <2> DEFINE a == Event("release", now + SizeOf(Head(readings)) \div PacingRate[pacing[site]],
                          [site |-> site])
    <2>1. a.kind = "release"
      BY DEF Event
    <2>2. ReleaseEvents(site, readings) \in {<<>>, <<a>>}
      BY DEF ReleaseEvents
    <2> HIDE DEF a
    <2>3. Starter(<<a>>)
      BY <1>2, <2>1 DEF Carriers
    <2> QED BY <1>1, <2>2, <2>3
  <1>4. ASSUME NEW kind \in {"generate", "probe"}, NEW at, NEW data PROVE Starter(Recurring(kind, at, data))
    <2> DEFINE a == Event(kind, at, data)
    <2>1. a.kind = kind
      BY DEF Event
    <2>2. Recurring(kind, at, data) \in {<<>>, <<a>>}
      BY DEF Recurring
    <2> HIDE DEF a
    <2>3. Starter(<<a>>)
      BY <1>2, <2>1 DEF Carriers
    <2> QED BY <1>1, <2>2, <2>3
  <1> QED BY <1>1, <1>3, <1>4

LEMMA ServiceBegins ==
    ASSUME NEW k \in QueueIds, NEW q, queue'[k] = q,
           q.busy => q.waiting # <<>> /\ q.rate > 0
    PROVE  Starter(ServiceOf(k, q))
  <1> DEFINE a == Event("serviced", now + SizeOf(Head(q.waiting).packet) \div q.rate, [queue |-> k])
  <1>1. ServiceOf(k, q) = IF q.busy THEN <<a>> ELSE <<>>
    BY DEF ServiceOf
  <1>2. /\ a.kind = "serviced" /\ a.data.queue = k
        /\ a.at = now + SizeOf(Head(q.waiting).packet) \div q.rate
    BY DEF Event
  <1> HIDE DEF a
  <1>3. CASE q.busy
    <2>1. Begins(a)
      BY <1>2, <1>3 DEF Begins
    <2>2. ServiceOf(k, q) = <<a>>
      BY <1>1, <1>3
    <2> QED BY <2>1, <2>2 DEF Starter
  <1>4. CASE ~q.busy
    BY <1>1, <1>4 DEF Starter
  <1> QED BY <1>3, <1>4

LEMMA CalmCalendar ==
    ASSUME sequence \in Nat, NEW e, NEW A, NEW B, Starter(A), Starter(B), Handle(e, A \o B)
    PROVE  /\ now' = now /\ world' = world
           /\ calendar \ {e} \subseteq calendar'
           /\ \A x \in calendar' : (x \in calendar /\ x # e) \/ Plain(x) \/ Begins(x)
  <1>1. Short(A) /\ Short(B)
    BY DEF Starter, Short
  <1>2. /\ world' = world /\ now' = now
        /\ calendar' = (calendar \ {e})
               \cup (IF A = <<>> THEN {} ELSE {Scheduled(A[1], sequence + 1)})
               \cup (IF B = <<>> THEN {} ELSE {Scheduled(B[1], sequence')})
    BY <1>1, HandleTwo
  <1>3. A # <<>> => Plain(Scheduled(A[1], sequence + 1)) \/ Begins(Scheduled(A[1], sequence + 1))
    BY StarterScheduled DEF Starter
  <1>4. B # <<>> => Plain(Scheduled(B[1], sequence')) \/ Begins(Scheduled(B[1], sequence'))
    <2>1. PICK n : n = sequence'
      OBVIOUS
    <2>2. B # <<>> => Plain(Scheduled(B[1], n)) \/ Begins(Scheduled(B[1], n))
      BY StarterScheduled DEF Starter
    <2> QED BY <2>1, <2>2
  <1>5. ASSUME NEW x \in calendar' PROVE (x \in calendar /\ x # e) \/ Plain(x) \/ Begins(x)
    <2>1. \/ x \in calendar \ {e}
          \/ A # <<>> /\ x = Scheduled(A[1], sequence + 1)
          \/ B # <<>> /\ x = Scheduled(B[1], sequence')
      BY <1>2
    <2> QED BY <1>3, <1>4, <2>1
  <1> QED BY <1>2, <1>5

(* A packet arrives at one queue. *)
LEMMA ArrivalCalm ==
    ASSUME WorldIInv, NEW e, e.kind # "serviced",
           NEW packet \in Carried, NEW hop \in 1 .. Len(packet.route), Arrive(packet, hop),
           NEW B, Starter(B), Handle(e, ArrivalEvents(packet, hop) \o B)
    PROVE  /\ now' = now /\ world' = world
           /\ Calm(e, {[packet |-> packet, hop |-> hop]})
           /\ \A k \in QueueIds : queue'[k].rate = queue[k].rate
  <1> DEFINE A == ArrivalEvents(packet, hop)
             k == packet.route[hop]
             w == [packet |-> packet, hop |-> hop]
             q == Enqueued(packet, hop)
  <1>1. /\ Basics /\ Bounded /\ Served /\ sequence \in Nat
        /\ queue \in [QueueIds -> QueueStates]
    BY DEF WorldIInv, Basics
  <1>2. k \in QueueIds /\ queue' \in [QueueIds -> QueueStates]
    BY <1>1, Arrival
  <1>3. CASE ~Fits(packet, hop)
    <2>1. queue' = queue /\ A = <<>>
      BY <1>3 DEF Arrive, ArrivalEvents
    <2>2. Starter(A)
      BY <2>1, StartersAre
    <2>3. /\ now' = now /\ world' = world
          /\ calendar \ {e} \subseteq calendar'
          /\ \A x \in calendar' : (x \in calendar /\ x # e) \/ Plain(x) \/ Begins(x)
      <3> HIDE DEF A
      <3>1. Handle(e, A \o B)
        BY DEF A
      <3> QED BY <1>1, <2>2, <3>1, CalmCalendar
    <2> QED BY <2>1, <2>3 DEF Calm
  <1>4. CASE Fits(packet, hop)
    <2> DEFINE longer == [queue[k] EXCEPT !.waiting = Append(@, w), !.occupied = @ + SizeOf(packet)]
    <2>1. queue[k] \in QueueStates
      BY <1>1, <1>2
    <2>2. longer.rate = queue[k].rate /\ longer.waiting = Append(queue[k].waiting, w) /\ longer.busy = queue[k].busy
      BY <2>1 DEF QueueStates
    <2>3. q = IF queue[k].busy THEN longer ELSE StartService(longer)
      BY <2>2 DEF Enqueued
    <2>4. DOMAIN longer = {"rate", "waiting", "occupied", "busy"}
      BY <2>1 DEF QueueStates
    <2> HIDE DEF longer, q
    <2>5. StartService(longer).rate = longer.rate /\ StartService(longer).waiting = longer.waiting
          /\ (StartService(longer).busy => longer.waiting # <<>> /\ longer.rate > 0)
      BY <2>4, Zenon DEF StartService
    <2>6. q.rate = queue[k].rate /\ q.waiting = Append(queue[k].waiting, w)
      BY <2>2, <2>3, <2>5
    <2>7. queue' = [queue EXCEPT ![k] = q]
      BY <1>4 DEF Arrive, q
    <2>8. queue'[k] = q /\ \A j \in QueueIds : j # k => queue'[j] = queue[j]
      BY <1>1, <1>2, <2>7
    <2>9. A = IF queue[k].busy THEN <<>> ELSE ServiceOf(k, q)
      BY <1>4 DEF ArrivalEvents, q
    <2>10. Starter(A)
      <3>1. CASE queue[k].busy
        BY <2>9, <3>1, StartersAre
      <3>2. CASE ~queue[k].busy
        <4>1. q.busy => q.waiting # <<>> /\ q.rate > 0
          BY <2>3, <2>5, <3>2
        <4> HIDE DEF k, A
        <4>2. Starter(ServiceOf(k, q))
          BY <1>2, <2>8, <4>1, ServiceBegins
        <4> QED BY <2>9, <3>2, <4>2
      <3> QED BY <3>1, <3>2
    <2>11. /\ now' = now /\ world' = world
           /\ calendar \ {e} \subseteq calendar'
           /\ \A x \in calendar' : (x \in calendar /\ x # e) \/ Plain(x) \/ Begins(x)
      <3> HIDE DEF A
      <3>1. Handle(e, A \o B)
        BY DEF A
      <3> QED BY <1>1, <2>10, <3>1, CalmCalendar
    <2>12. w.packet.route[w.hop] = k
      OBVIOUS
    <2> HIDE DEF w, k
    <2>13. \A j \in QueueIds :
              \/ queue'[j].waiting = queue[j].waiting
              \/ \E v \in {w} : v.packet.route[v.hop] = j /\ Joins(j, v)
      BY <2>6, <2>8, <2>12 DEF Joins
    <2>14. \A j \in QueueIds : queue'[j].rate = queue[j].rate
      BY <2>6, <2>8
    <2> QED BY <2>11, <2>13, <2>14 DEF Calm, w
  <1> QED BY <1>3, <1>4

(* What leaves the queues alone. *)
LEMMA QuietCalm ==
    ASSUME sequence \in Nat, NEW e, e.kind # "serviced", queue' = queue,
           NEW A, NEW B, Starter(A), Starter(B), Handle(e, A \o B)
    PROVE  now' = now /\ world' = world /\ Calm(e, {})
  BY CalmCalendar DEF Calm

(* A disturbance sets the rate of both directions of its leg. *)
LEMMA DisturbCalm ==
    ASSUME WorldIInv, NEW e \in calendar, Disturb(e)
    PROVE  /\ now' = now /\ world' = world
           /\ Calm(e, {})
           /\ \A k \in QueueIds :
                 queue'[k].rate = IF \E direction \in Directions : k = <<e.data.site, e.data.leg, direction>>
                                  THEN RateFor(e.data) ELSE queue[k].rate
  <1> DEFINE d == e.data
             rate == RateFor(d)
             up == <<d.site, d.leg, "up">>
             down == <<d.site, d.leg, "down">>
             a == Disturbed(up, rate)
             b == Disturbed(down, rate)
             A == IF queue[up].busy THEN <<>> ELSE ServiceOf(up, a)
             B == IF queue[down].busy THEN <<>> ELSE ServiceOf(down, b)
  <1>1. /\ e.kind = "disturb" /\ AdmissibleDisturbance(d)
        /\ Basics /\ sequence \in Nat /\ queue \in [QueueIds -> QueueStates]
    BY DEF WorldIInv, Basics, Events, Ready, Payload, Disturb, Due
  <1>2. /\ d.site \in SiteSet /\ d.leg \in LegSet
        /\ up \in QueueIds /\ down \in QueueIds /\ up # down
    BY <1>1 DEF AdmissibleDisturbance, QueueIds, Directions
  <1>3. /\ queue' = [queue EXCEPT ![up] = a, ![down] = b]
        /\ Handle(e, A \o B)
    BY DEF Disturb
  <1>4. \A k : k = up \/ k = down <=> \E direction \in Directions : k = <<d.site, d.leg, direction>>
    BY DEF Directions
  <1> HIDE DEF d, rate, up, down
  <1>5. ASSUME NEW k \in QueueIds, NEW q, q = Disturbed(k, rate)
        PROVE  /\ q.rate = rate /\ q.waiting = queue[k].waiting
               /\ ~queue[k].busy => (q.busy => q.waiting # <<>> /\ q.rate > 0)
    <2> DEFINE rated == [queue[k] EXCEPT !.rate = rate]
    <2>1. queue[k] \in QueueStates
      BY <1>1
    <2>2. /\ rated.rate = rate /\ rated.waiting = queue[k].waiting /\ rated.busy = queue[k].busy
          /\ DOMAIN rated = {"rate", "waiting", "occupied", "busy"}
      BY <2>1 DEF QueueStates
    <2>3. q = IF queue[k].rate = 0 /\ rate > 0 /\ rated.waiting # <<>> /\ ~rated.busy
              THEN StartService(rated) ELSE rated
      BY <1>5 DEF Disturbed
    <2> HIDE DEF rated
    <2>4. StartService(rated).rate = rated.rate /\ StartService(rated).waiting = rated.waiting
          /\ (StartService(rated).busy => rated.waiting # <<>> /\ rated.rate > 0)
      BY <2>2 DEF StartService
    <2> QED BY <2>2, <2>3, <2>4
  <1> HIDE DEF a, b
  <1>6. queue'[up] = a /\ queue'[down] = b /\ \A j \in QueueIds : j # up /\ j # down => queue'[j] = queue[j]
    BY <1>1, <1>2, <1>3
  <1>7. /\ a.rate = rate /\ a.waiting = queue[up].waiting
        /\ ~queue[up].busy => (a.busy => a.waiting # <<>> /\ a.rate > 0)
    BY <1>2, <1>5 DEF a
  <1>8. /\ b.rate = rate /\ b.waiting = queue[down].waiting
        /\ ~queue[down].busy => (b.busy => b.waiting # <<>> /\ b.rate > 0)
    BY <1>2, <1>5 DEF b
  <1>9. Starter(A)
    <2>1. CASE queue[up].busy
      BY <2>1, StartersAre
    <2>2. CASE ~queue[up].busy
      BY <1>2, <1>6, <1>7, <2>2, ServiceBegins
    <2> QED BY <2>1, <2>2
  <1>10. Starter(B)
    <2>1. CASE queue[down].busy
      BY <2>1, StartersAre
    <2>2. CASE ~queue[down].busy
      BY <1>2, <1>6, <1>8, <2>2, ServiceBegins
    <2> QED BY <2>1, <2>2
  <1> HIDE DEF A, B
  <1>11. /\ now' = now /\ world' = world
         /\ calendar \ {e} \subseteq calendar'
         /\ \A x \in calendar' : (x \in calendar /\ x # e) \/ Plain(x) \/ Begins(x)
    BY <1>1, <1>3, <1>9, <1>10, CalmCalendar
  <1>12. \A k \in QueueIds : queue'[k].waiting = queue[k].waiting
    BY <1>6, <1>7, <1>8
  <1>13. \A k \in QueueIds : queue'[k].rate = IF k = up \/ k = down THEN rate ELSE queue[k].rate
    BY <1>6, <1>7, <1>8
  <1>14. Calm(e, {})
    BY <1>1, <1>11, <1>12 DEF Calm
  <1> QED BY <1>4, <1>11, <1>13, <1>14 DEF d, rate

-------------------------------------------------------------------------------
(* What a step keeps of what packets say.                                    *)

FormNext(p) ==
    /\ Shape(p)
    /\ p.kind = "response" /\ pathVersion'[p.site] = 0 => p.route[1] = <<p.site, Legs[1], "up">>
    /\ \A o \in generated' : o.id = p.id =>
          o.service = p.service /\ o.site = p.site /\ o.generated = p.generated

(* A new number is given to what is generated now, and no version comes back. *)
Grows ==
    /\ now \in Nat /\ now' \in Nat /\ now <= now' /\ counter \in Nat
    /\ \/ generated' = generated
       \/ \E o : generated' = generated \cup {o} /\ o.id = counter + 1 /\ o.generated = now
    /\ \A site \in SiteSet : pathVersion'[site] = 0 => pathVersion[site] = 0

LEMMA FormKept ==
    ASSUME Grows, NEW p, Form(p), p.id \in 1 .. counter, p.site \in SiteSet
    PROVE  FormNext(p)
  <1>1. \A o \in generated' : o.id = p.id => o \in generated
    BY DEF Grows
  <1> QED BY <1>1 DEF Form, Loyal, Ours, FormNext, Grows

(* The packets there are. *)
LEMMA PacketsKnown ==
    ASSUME MessagesIInv
    PROVE  /\ \A k \in QueueIds : \A i \in DOMAIN queue[k].waiting :
                 LET p == queue[k].waiting[i].packet
                 IN  p \in Carried /\ p.id \in 1 .. counter /\ p.site \in SiteSet
           /\ \A x \in calendar : x.kind \in Carriers =>
                 LET p == x.data.packet
                 IN  p \in Carried /\ p.id \in 1 .. counter /\ p.site \in SiteSet
           /\ \A site \in SiteSet : \A i \in DOMAIN held[site] :
                 LET p == held[site][i]
                 IN  p \in Readings /\ p.id \in 1 .. counter /\ p.site \in SiteSet
  <1>1. Basics /\ Events /\ TracedQueues /\ TracedEvents /\ TracedGates
    BY DEF MessagesIInv, WorldIInv, Traced
  <1>2. ASSUME NEW k \in QueueIds, NEW i \in DOMAIN queue[k].waiting
        PROVE  LET p == queue[k].waiting[i].packet
               IN  p \in Carried /\ p.id \in 1 .. counter /\ p.site \in SiteSet
    <2>1. queue[k].waiting \in Seq(Waits)
      BY <1>1 DEF Basics, QueueStates
    <2>2. queue[k].waiting[i] \in Waits
      BY <2>1
    <2>3. queue[k].waiting[i].packet \in Carried
      BY <2>2 DEF Waits
    <2> QED BY <1>1, <2>3 DEF TracedQueues, Known, Carried, Packets
  <1>3. ASSUME NEW x \in calendar, x.kind \in Carriers
        PROVE  LET p == x.data.packet
               IN  p \in Carried /\ p.id \in 1 .. counter /\ p.site \in SiteSet
    <2>1. x.data.packet \in Carried
      BY <1>1, <1>3 DEF Events, Ready, Payload, Carriers, Waits
    <2> QED BY <1>1, <1>3, <2>1 DEF TracedEvents, Fine, Known, Carried, Packets
  <1>4. ASSUME NEW site \in SiteSet, NEW i \in DOMAIN held[site]
        PROVE  LET p == held[site][i]
               IN  p \in Readings /\ p.id \in 1 .. counter /\ p.site \in SiteSet
    <2>1. held[site] \in Seq(Readings)
      BY <1>1 DEF Basics
    <2>2. held[site][i] \in Readings
      BY <2>1
    <2> QED BY <1>1, <2>2 DEF TracedGates, Readings, Packets
  <1> QED BY <1>2, <1>3, <1>4

LEMMA QueuesFormed ==
    ASSUME FormedIInv, Grows,
           \A k \in QueueIds : \A i \in DOMAIN queue'[k].waiting :
              LET w == queue'[k].waiting[i]
              IN  \/ \E j \in DOMAIN queue[k].waiting : w = queue[k].waiting[j]
                  \/ FormNext(w.packet) /\ w.packet.route[w.hop] = k
    PROVE  FormedQueues'
  <1>1. ASSUME NEW k \in QueueIds, NEW i \in DOMAIN queue'[k].waiting
        PROVE  /\ FormNext(queue'[k].waiting[i].packet)
               /\ queue'[k].waiting[i].packet.route[queue'[k].waiting[i].hop] = k
    <2>1. PICK w : w = queue'[k].waiting[i]
      OBVIOUS
    <2>2. CASE \E j \in DOMAIN queue[k].waiting : w = queue[k].waiting[j]
      <3>1. PICK j \in DOMAIN queue[k].waiting : w = queue[k].waiting[j]
        BY <2>2
      <3>2. Form(w.packet) /\ w.packet.route[w.hop] = k
        BY <3>1 DEF FormedIInv, FormedQueues
      <3>3. w.packet.id \in 1 .. counter /\ w.packet.site \in SiteSet
        BY <3>1, PacketsKnown DEF FormedIInv
      <3>4. FormNext(w.packet)
        BY <3>2, <3>3, FormKept
      <3> QED BY <2>1, <3>2, <3>4
    <2> QED BY <2>1, <2>2
  <1> QED BY <1>1 DEF FormedQueues, FormNext, Form, Loyal, Ours

TellsNext(x) ==
    /\ x.kind \in Carriers => FormNext(x.data.packet)
    /\ x.kind = "respond" => x.data.packet.kind = "request"
    /\ x.kind = "deliver" => x.data.packet.kind \in {"reading", "response"}
    /\ x.kind = "disturb" => x.data.at = x.at

LEMMA EventsFormed ==
    ASSUME FormedIInv, Grows, \A x \in calendar' : x \in calendar \/ TellsNext(x)
    PROVE  FormedEvents'
  <1>1. ASSUME NEW x \in calendar' PROVE TellsNext(x)
    <2>1. CASE x \in calendar
      <3>1. x.kind \in Carriers => FormNext(x.data.packet)
        <4>1. SUFFICES ASSUME x.kind \in Carriers PROVE FormNext(x.data.packet)
          OBVIOUS
        <4>2. PICK p : p = x.data.packet
          OBVIOUS
        <4>3. Form(p) /\ p.id \in 1 .. counter /\ p.site \in SiteSet
          BY <2>1, <4>1, <4>2, PacketsKnown DEF FormedIInv, FormedEvents
        <4> QED BY <4>2, <4>3, FormKept
      <3> QED BY <2>1, <3>1 DEF FormedIInv, FormedEvents, TellsNext
    <2> QED BY <1>1, <2>1
  <1> QED BY <1>1 DEF FormedEvents, TellsNext, FormNext, Form, Loyal, Ours

LEMMA GatesFormed ==
    ASSUME FormedIInv, Grows,
           \A site \in SiteSet : \A i \in DOMAIN held'[site] :
              \/ \E j \in DOMAIN held[site] : held'[site][i] = held[site][j]
              \/ FormNext(held'[site][i])
    PROVE  FormedGates'
  <1>1. ASSUME NEW site \in SiteSet, NEW i \in DOMAIN held'[site]
        PROVE  FormNext(held'[site][i])
    <2>1. PICK p : p = held'[site][i]
      OBVIOUS
    <2>2. CASE \E j \in DOMAIN held[site] : p = held[site][j]
      <3>1. Form(p) /\ p.id \in 1 .. counter /\ p.site \in SiteSet
        BY <2>2, PacketsKnown DEF FormedIInv, FormedGates
      <3> QED BY <2>1, <3>1, FormKept
    <2> QED BY <2>1, <2>2
  <1> QED BY <1>1 DEF FormedGates, FormNext, Form, Loyal, Ours

LEMMA RegisteredKept ==
    ASSUME FormedIInv, Grows,
           \A i \in DOMAIN delivered' :
              \/ i \in DOMAIN delivered /\ delivered'[i] = delivered[i]
              \/ delivered'[i].at = now
    PROVE  Registered'
  <1>0. Registered /\ \A o \in generated : o.id \in 1 .. counter
    BY DEF FormedIInv, MessagesIInv, WorldIInv, Basics
  <1>1. IsFiniteSet(generated')
    BY <1>0, FS_AddElement DEF Registered, Grows
  <1>2. ASSUME NEW o \in generated', NEW p \in generated', o.id = p.id PROVE o = p
    <2>1. CASE o \in generated /\ p \in generated
      BY <1>0, <1>2, <2>1 DEF Registered
    <2>2. CASE ~(o \in generated /\ p \in generated)
      <3>1. PICK x : generated' = generated \cup {x} /\ x.id = counter + 1
        BY <2>2 DEF Grows
      <3>2. \A y \in generated : y.id # x.id
        BY <1>0, <3>1 DEF Grows
      <3> QED BY <1>2, <2>2, <3>1, <3>2
    <2> QED BY <2>1, <2>2
  <1>3. ASSUME NEW o \in generated' PROVE o.generated \in 0 .. now'
    <2>1. o \in generated \/ o.generated = now
      BY DEF Grows
    <2>2. o.generated \in 0 .. now
      BY <1>0, <2>1 DEF Registered, Grows
    <2> QED BY <2>2 DEF Grows
  <1>4. ASSUME NEW i \in DOMAIN delivered' PROVE delivered'[i].at \in 0 .. now'
    <2>1. delivered'[i].at \in 0 .. now
      BY <1>0 DEF Registered, Grows
    <2> QED BY <2>1 DEF Grows
  <1> QED BY <1>1, <1>2, <1>3, <1>4 DEF Registered

(* What joins a queue keeps form; and an answer comes to the egress from the *)
(* leg it has crossed.                                                       *)
Sent(e, w) ==
    /\ FormNext(w.packet)
    /\ w.packet.kind = "response" /\ w.packet.route[w.hop] = Egress("up") =>
          e.kind = "hop" /\ e.data.packet = w.packet

Handles(e) ==
    /\ Grows /\ path' = path /\ pathVersion' = pathVersion
    /\ \E W : Calm(e, W) /\ \A w \in W : Sent(e, w)
    /\ \A site \in SiteSet : \A i \in DOMAIN held'[site] :
          \/ \E j \in DOMAIN held[site] : held'[site][i] = held[site][j]
          \/ FormNext(held'[site][i])
    /\ \A i \in DOMAIN delivered' :
          \/ i \in DOMAIN delivered /\ delivered'[i] = delivered[i]
          \/ delivered'[i].at = now

LEMMA HandlingKeepsForm ==
    ASSUME FormedIInv, MessagesIInv', NEW e, Handles(e)
    PROVE  FormedIInv'
  <1>1. Basics /\ Grows /\ queue \in [QueueIds -> QueueStates]
    BY DEF FormedIInv, MessagesIInv, WorldIInv, Basics, Handles
  <1>2. PICK W : Calm(e, W) /\ \A w \in W : Sent(e, w)
    BY DEF Handles
  <1>3. ASSUME NEW k \in QueueIds, NEW i \in DOMAIN queue'[k].waiting
        PROVE  \/ \E j \in DOMAIN queue[k].waiting : queue'[k].waiting[i] = queue[k].waiting[j]
               \/ /\ FormNext(queue'[k].waiting[i].packet)
                  /\ queue'[k].waiting[i].packet.route[queue'[k].waiting[i].hop] = k
    <2>1. CASE queue'[k].waiting = queue[k].waiting
      BY <1>3, <2>1
    <2>2. CASE \E w \in W : w.packet.route[w.hop] = k /\ Joins(k, w)
      <3>1. PICK w \in W : w.packet.route[w.hop] = k /\ Joins(k, w)
        BY <2>2
      <3>2. PICK waiting \in Seq(Waits) : waiting = queue[k].waiting
        BY <1>1 DEF QueueStates
      <3>3. queue'[k].waiting = Append(waiting, w)
        BY <3>1, <3>2 DEF Joins
      <3>4. \/ queue'[k].waiting[i] = w
            \/ i \in DOMAIN waiting /\ queue'[k].waiting[i] = waiting[i]
        BY <1>3, <3>3, Grown
      <3>5. FormNext(w.packet)
        BY <1>2 DEF Sent
      <3> QED BY <3>1, <3>2, <3>4, <3>5
    <2> QED BY <1>2, <2>1, <2>2 DEF Calm
  <1>4. FormedQueues'
    BY <1>1, <1>3, QueuesFormed
  <1>5. \A x \in calendar' : x \in calendar \/ TellsNext(x)
    BY <1>2 DEF Calm, Plain, Begins, TellsNext, Carriers
  <1>6. FormedEvents'
    BY <1>1, <1>5, EventsFormed
  <1>7. FormedGates' /\ Registered'
    BY <1>1, GatesFormed, RegisteredKept DEF Handles
  <1>8. Unmoved'
    BY DEF FormedIInv, Unmoved, Handles
  <1> QED BY <1>4, <1>6, <1>7, <1>8 DEF FormedIInv

(* Handlers that take a packet on, from an event that carries it. *)
LEMMA MoveHandles ==
    ASSUME FormedIInv, NEW e \in calendar, e.kind \in Carriers,
           NEW packet \in Carried, NEW hop \in 1 .. Len(packet.route), Arrive(packet, hop),
           Handle(e, ArrivalEvents(packet, hop)), Sent(e, [packet |-> packet, hop |-> hop]),
           UNCHANGED <<actuators, gateway, counter, generated, delivered>>
    PROVE  /\ Handles(e) /\ now' = now /\ world' = world
           /\ \A k \in QueueIds : queue'[k].rate = queue[k].rate
  <1> DEFINE A == ArrivalEvents(packet, hop)
             w == [packet |-> packet, hop |-> hop]
  <1>1. /\ WorldIInv /\ Basics /\ sequence \in Nat /\ counter \in Nat /\ now \in Nat
        /\ e.kind # "serviced"
    BY DEF FormedIInv, MessagesIInv, WorldIInv, Basics, Carriers
  <1>2. Handle(e, A \o <<>>) /\ Starter(<<>>)
    <2>1. Quiet(A)
      BY QuietEvents
    <2> HIDE DEF A
    <2>2. A \o <<>> = A
      BY <2>1, NothingMore
    <2>3. Handle(e, A)
      BY DEF A
    <2> QED BY <2>2, <2>3, StartersAre
  <1>3. /\ now' = now /\ world' = world /\ Calm(e, {w})
        /\ \A k \in QueueIds : queue'[k].rate = queue[k].rate
    BY <1>1, <1>2, ArrivalCalm
  <1>4. Grows
    BY <1>1, <1>3 DEF Grows, actuators
  <1>5. \E W : Calm(e, W) /\ \A v \in W : Sent(e, v)
    <2> HIDE DEF w
    <2>1. Sent(e, w)
      BY DEF w
    <2> QED BY <1>3, <2>1
  <1> QED BY <1>3, <1>4, <1>5 DEF Handles, gateway, actuators

SameRates == \A k \in QueueIds : queue'[k].rate = queue[k].rate

LEMMA HopHandles ==
    ASSUME FormedIInv, NEW e \in calendar, Hop(e)
    PROVE  Handles(e) /\ now' = now /\ world' = world /\ SameRates
  <1> DEFINE packet == e.data.packet
             hop == e.data.hop
  <1>1. /\ e.kind = "hop" /\ e.kind \in Carriers
        /\ packet \in Carried /\ hop \in 1 .. Len(packet.route)
        /\ now \in Nat /\ counter \in Nat
    BY DEF FormedIInv, MessagesIInv, WorldIInv, Basics, Events, Ready, Payload, Hop, Due, Waits, Carriers
  <1>2. /\ Arrive(packet, hop) /\ Handle(e, ArrivalEvents(packet, hop))
        /\ UNCHANGED <<actuators, gateway, counter, generated, delivered>>
    BY DEF Hop
  <1>3. now' = now
    BY <1>2 DEF Handle
  <1>4. Form(packet) /\ packet.id \in 1 .. counter /\ packet.site \in SiteSet
    BY <1>1, PacketsKnown DEF FormedIInv, FormedEvents
  <1>5. packet = e.data.packet
    OBVIOUS
  <1> HIDE DEF packet, hop
  <1>6. Grows
    BY <1>1, <1>2, <1>3 DEF Grows, actuators
  <1>7. FormNext(packet)
    BY <1>4, <1>6, FormKept
  <1>8. Sent(e, [packet |-> packet, hop |-> hop])
    BY <1>1, <1>5, <1>7 DEF Sent
  <1> QED BY <1>1, <1>2, <1>8, MoveHandles DEF SameRates

LEMMA RespondHandles ==
    ASSUME FormedIInv, NEW e \in calendar, Respond(e)
    PROVE  Handles(e) /\ now' = now /\ world' = world /\ SameRates
  <1> DEFINE request == e.data.packet
             response == [request EXCEPT !.kind = "response", !.route = Uplink(request.site)]
  <1>1. e.kind = "respond" /\ e.kind \in Carriers /\ request \in Packets /\ Basics
    BY DEF FormedIInv, MessagesIInv, WorldIInv, Events, Ready, Payload, Respond, Due, Carried, Carriers
  <1>2. PICK route \in Seq(QueueIds) : route = Uplink(request.site) /\ Len(route) = 2
    BY <1>1, Routes DEF Packets
  <1>3. response = [request EXCEPT !.kind = "response", !.route = route]
    BY <1>2
  <1>4. /\ Arrive(response, 1) /\ Handle(e, ArrivalEvents(response, 1))
        /\ UNCHANGED <<actuators, gateway, counter, generated, delivered>>
    BY DEF Respond
  <1>5. Form(request) /\ request.kind = "request"
    BY <1>1 DEF FormedIInv, FormedEvents
  <1> HIDE DEF request, response
  <1>6. response \in Carried /\ 1 \in 1 .. Len(response.route)
    BY <1>1, <1>2, <1>3, Rerouted DEF Kinds
  <1>7. /\ response.id = request.id /\ response.kind = "response" /\ response.site = request.site
        /\ response.service = request.service /\ response.generated = request.generated
        /\ response.route = route
    BY <1>1, <1>3 DEF Packets
  <1>8. /\ route = << <<request.site, path[request.site], "up">>, Egress("up") >>
        /\ request.site \in SiteSet /\ path[request.site] \in LegSet
    BY <1>1, <1>2 DEF Uplink, Packets, Basics
  <1>9. FormNext(response)
    <2>1. Shape(response)
      <3>1. response.service = "scada"
        BY <1>5, <1>7 DEF Form, Shape
      <3>2. \E leg \in LegSet : response.route = << <<response.site, leg, "up">>, Egress("up")>>
        BY <1>7, <1>8
      <3> QED BY <1>7, <3>1, <3>2 DEF Shape
    <2>2. pathVersion'[response.site] = 0 => response.route[1] = <<response.site, Legs[1], "up">>
      <3>1. pathVersion'[request.site] = 0 => path[request.site] = Legs[1]
        BY <1>4, <1>8 DEF FormedIInv, Unmoved, actuators
      <3>2. response.route[1] = <<request.site, path[request.site], "up">>
        BY <1>7, <1>8
      <3> QED BY <1>7, <3>1, <3>2
    <2>3. \A o \in generated' : o.id = response.id =>
             o.service = response.service /\ o.site = response.site /\ o.generated = response.generated
      BY <1>4, <1>5, <1>7 DEF Form, Ours
    <2> QED BY <2>1, <2>2, <2>3 DEF FormNext
  <1>10. response.route[1] # Egress("up")
    <2>1. response.route[1] = <<request.site, path[request.site], "up">>
      BY <1>7, <1>8
    <2> QED BY <1>8, <2>1, EvaluationAssumption DEF Egress
  <1>11. Sent(e, [packet |-> response, hop |-> 1])
    BY <1>9, <1>10 DEF Sent
  <1> QED BY <1>1, <1>4, <1>6, <1>11, MoveHandles DEF SameRates

LEMMA EchoHandles ==
    ASSUME FormedIInv, NEW e \in calendar, Echo(e)
    PROVE  Handles(e) /\ now' = now /\ world' = world /\ SameRates
  <1> DEFINE probe == e.data.packet
             packet == [probe EXCEPT !.kind = "probe_echo",
                                     !.route = << <<probe.site, probe.route[1][2], "down">> >>]
  <1>1. /\ e.kind = "echo" /\ e.kind \in Carriers
        /\ probe \in Carried /\ probe \in Packets /\ probe.kind = "probe"
        /\ Known(probe)
    BY DEF FormedIInv, MessagesIInv, WorldIInv, Events, Ready, Payload, Echo, Due, Carried, Carriers,
           Traced, TracedEvents, Fine
  <1>2. PICK leg \in LegSet : probe.route = << <<probe.site, leg, "up">> >>
    BY <1>1 DEF Carried
  <1>3. PICK route \in Seq(QueueIds) :
           route = << <<probe.site, probe.route[1][2], "down">> >> /\ Len(route) = 1
    <2>1. probe.route[1][2] = leg
      BY <1>2
    <2>2. PICK k \in QueueIds : k = <<probe.site, leg, "down">>
      BY <1>1 DEF Packets, QueueIds, Directions
    <2> QED BY <2>1, <2>2, OneHop
  <1>4. packet = [probe EXCEPT !.kind = "probe_echo", !.route = route]
    BY <1>3
  <1>5. /\ Arrive(packet, 1) /\ Handle(e, ArrivalEvents(packet, 1))
        /\ UNCHANGED <<actuators, gateway, counter, generated, delivered>>
    BY DEF Echo
  <1> HIDE DEF probe, packet
  <1>6. packet \in Carried /\ 1 \in 1 .. Len(packet.route)
    BY <1>1, <1>3, <1>4, Rerouted DEF Kinds
  <1>7. packet.id = probe.id /\ packet.kind = "probe_echo" /\ packet.route = route /\ packet.site = probe.site
    BY <1>1, <1>4 DEF Packets
  <1>8. FormNext(packet)
    <2>1. \E l \in LegSet : packet.route = << <<packet.site, l, "down">> >>
      <3>1. probe.route[1][2] = leg
        BY <1>2
      <3> QED BY <1>3, <1>7, <3>1
    <2>2. \A o \in generated' : o.id # packet.id
      BY <1>1, <1>5, <1>7 DEF Known, Probes
    <2> QED BY <1>7, <2>1, <2>2 DEF FormNext, Shape
  <1>9. Sent(e, [packet |-> packet, hop |-> 1])
    BY <1>7, <1>8 DEF Sent
  <1> QED BY <1>1, <1>5, <1>6, <1>9, MoveHandles DEF SameRates

LEMMA DeliverHandles ==
    ASSUME FormedIInv, NEW e \in calendar, Deliver(e)
    PROVE  Handles(e) /\ now' = now /\ world' = world /\ SameRates
  <1> DEFINE x == [id |-> e.data.packet.id, at |-> now, onTime |-> InTime(e.data.packet)]
  <1>1. /\ e.kind # "serviced" /\ sequence \in Nat /\ now \in Nat /\ counter \in Nat
        /\ \E S : delivered \in Seq(S)
    BY DEF FormedIInv, MessagesIInv, WorldIInv, Basics, Deliver, Due, Traced, Listed
  <1>2. /\ Handle(e, <<>>) /\ queue' = queue /\ held' = held /\ path' = path /\ pathVersion' = pathVersion
        /\ generated' = generated /\ delivered' = Append(delivered, x)
    BY DEF Deliver, gateway, actuators
  <1>3. x.at = now
    OBVIOUS
  <1> HIDE DEF x
  <1>4. Handle(e, <<>> \o <<>>)
    <2>1. <<>> \o <<>> = <<>>
      OBVIOUS
    <2> QED BY <1>2, <2>1
  <1>5. now' = now /\ world' = world /\ Calm(e, {})
    BY <1>1, <1>2, <1>4, StartersAre, QuietCalm
  <1>6. Grows
    BY <1>1, <1>2, <1>5 DEF Grows
  <1>7. \A i \in DOMAIN delivered' :
           \/ i \in DOMAIN delivered /\ delivered'[i] = delivered[i]
           \/ delivered'[i].at = now
    <2>1. PICK S : delivered \in Seq(S)
      BY <1>1
    <2>2. PICK s \in Seq(S) : s = delivered
      BY <2>1
    <2>3. \A i \in DOMAIN Append(s, x) :
             Append(s, x)[i] = x \/ (i \in DOMAIN s /\ Append(s, x)[i] = s[i])
      BY Grown
    <2> QED BY <1>2, <1>3, <2>2, <2>3
  <1> QED BY <1>2, <1>5, <1>6, <1>7 DEF Handles, SameRates

LEMMA AnsweredHandles ==
    ASSUME FormedIInv, NEW e \in calendar, Answered(e)
    PROVE  Handles(e) /\ now' = now /\ world' = world /\ SameRates
  <1>1. /\ e.kind # "serviced" /\ sequence \in Nat /\ now \in Nat /\ counter \in Nat
    <2>1. e.kind = "answered"
      BY DEF Answered, Due
    <2>2. sequence \in Nat /\ now \in Nat /\ counter \in Nat
      BY DEF FormedIInv, MessagesIInv, WorldIInv, Basics
    <2> QED BY <2>1, <2>2
  <1>2. /\ Handle(e, <<>>) /\ queue' = queue /\ held' = held /\ path' = path /\ pathVersion' = pathVersion
        /\ generated' = generated /\ delivered' = delivered
    BY DEF Answered, gateway, actuators, ledger
  <1>4. Handle(e, <<>> \o <<>>)
    <2>1. <<>> \o <<>> = <<>>
      OBVIOUS
    <2> QED BY <1>2, <2>1
  <1>5. now' = now /\ world' = world /\ Calm(e, {})
    BY <1>1, <1>2, <1>4, StartersAre, QuietCalm
  <1>6. Grows
    BY <1>1, <1>2, <1>5 DEF Grows
  <1> QED BY <1>2, <1>5, <1>6 DEF Handles, SameRates

LEMMA DisturbHandles ==
    ASSUME FormedIInv, NEW e \in calendar, Disturb(e)
    PROVE  Handles(e) /\ now' = now /\ world' = world
  <1>1. /\ WorldIInv /\ now \in Nat /\ counter \in Nat
    BY DEF FormedIInv, MessagesIInv, WorldIInv, Basics
  <1>2. /\ held' = held /\ path' = path /\ pathVersion' = pathVersion
        /\ generated' = generated /\ delivered' = delivered
    BY DEF Disturb, gateway, actuators, ledger
  <1>5. now' = now /\ world' = world /\ Calm(e, {})
    BY <1>1, DisturbCalm
  <1>6. Grows
    BY <1>1, <1>2, <1>5 DEF Grows
  <1> QED BY <1>2, <1>5, <1>6 DEF Handles

(* A packet under a number that was just given out. *)
LEMMA NewForm ==
    ASSUME FormedIInv, Grows, NEW p, p.id = counter + 1, p.kind \in {"request", "reading", "probe"},
           p.kind = "request" => p.service = "scada", p.kind = "reading" => p.service = "ami",
           generated' = generated \/ generated' = generated \cup {p}
    PROVE  FormNext(p)
  <1>1. \A o \in generated : o.id # p.id
    BY DEF FormedIInv, MessagesIInv, WorldIInv, Basics, Grows
  <1> QED BY <1>1 DEF FormNext, Shape

LEMMA RequestHandles ==
    ASSUME FormedIInv, NEW e \in calendar, GenerateRequest(e)
    PROVE  Handles(e) /\ now' = now /\ world' = world /\ SameRates
  <1> DEFINE site == e.data.site
             packet == Packet(counter + 1, "scada", site, "request", now, Downlink(site))
             at == now + Period["scada"]
             B == Recurring("generate", at, e.data)
             A == ArrivalEvents(packet, 1)
             w == [packet |-> packet, hop |-> 1]
  <1>1. /\ e.kind # "serviced" /\ site \in SiteSet
        /\ Basics /\ WorldIInv /\ counter \in Nat /\ now \in Nat
    BY DEF FormedIInv, MessagesIInv, WorldIInv, Events, Ready, Payload, GenerateRequest, Due, Basics
  <1>2. /\ packet \in Carried /\ 1 \in 1 .. Len(packet.route)
        /\ packet.id = counter + 1 /\ packet.kind = "request" /\ packet.service = "scada"
        /\ packet.generated = now
    <2>1. Downlink(site) \in Seq(QueueIds) /\ Len(Downlink(site)) = 2
      BY <1>1, Routes
    <2>2. counter + 1 \in Nat
      BY <1>1
    <2> DEFINE route == Downlink(site)
    <2>3. packet = [id |-> counter + 1, service |-> "scada", site |-> site, kind |-> "request",
                    generated |-> now, route |-> route]
      BY DEF Packet
    <2> HIDE DEF packet, site, route
    <2>4. packet \in Packets
      BY <1>1, <2>1, <2>2, <2>3 DEF Packets, Kinds, route
    <2>5. /\ packet.kind = "request" /\ packet.id = counter + 1 /\ packet.route = route
          /\ packet.service = "scada" /\ packet.generated = now
      BY <2>3
    <2>6. packet \in Carried
      BY <2>4, <2>5 DEF Carried
    <2>7. 1 \in 1 .. Len(packet.route)
      <3>1. Len(packet.route) = 2
        BY <2>1, <2>5 DEF route
      <3> QED BY <3>1
    <2> QED BY <2>5, <2>6, <2>7
  <1>3. /\ generated' = generated \cup {packet}
        /\ Arrive(packet, 1) /\ Handle(e, A \o B)
        /\ held' = held /\ delivered' = delivered /\ path' = path /\ pathVersion' = pathVersion
    BY DEF GenerateRequest, gateway, actuators
  <1>4. Starter(B)
    BY StartersAre
  <1> HIDE DEF site, packet, at, B
  <1>5. /\ now' = now /\ world' = world /\ Calm(e, {w}) /\ SameRates
    BY <1>1, <1>2, <1>3, <1>4, ArrivalCalm DEF SameRates
  <1>6. Grows
    BY <1>1, <1>2, <1>3, <1>5 DEF Grows
  <1>7. FormNext(packet)
    BY <1>2, <1>3, <1>6, NewForm
  <1>8. Sent(e, w)
    BY <1>2, <1>7 DEF Sent
  <1> HIDE DEF w
  <1> QED BY <1>3, <1>5, <1>6, <1>8 DEF Handles

LEMMA ProbeHandles ==
    ASSUME FormedIInv, NEW e \in calendar, Probe(e)
    PROVE  Handles(e) /\ now' = now /\ world' = world /\ SameRates
  <1> DEFINE site == e.data.site
             leg == e.data.leg
             packet == Packet(counter + 1, "probe", site, "probe", now, << <<site, leg, "up">> >>)
             at == now + ProbePeriod
             B == Recurring("probe", at, e.data)
             A == ArrivalEvents(packet, 1)
             w == [packet |-> packet, hop |-> 1]
  <1>1. /\ e.kind # "serviced" /\ site \in SiteSet /\ leg \in LegSet
        /\ Basics /\ WorldIInv /\ counter \in Nat /\ now \in Nat
    BY DEF FormedIInv, MessagesIInv, WorldIInv, Events, Ready, Payload, Probe, Due, Basics
  <1>2. /\ packet \in Carried /\ 1 \in 1 .. Len(packet.route)
        /\ packet.id = counter + 1 /\ packet.kind = "probe"
    <2>1. PICK k \in QueueIds : k = <<site, leg, "up">>
      BY <1>1 DEF QueueIds, Directions
    <2>2. PICK route \in Seq(QueueIds) : route = <<k>> /\ Len(route) = 1
      BY OneHop
    <2>3. PICK id \in Nat : id = counter + 1
      BY <1>1
    <2>4. packet = [id |-> id, service |-> "probe", site |-> site, kind |-> "probe",
                    generated |-> now, route |-> route]
      BY <2>1, <2>2, <2>3 DEF Packet
    <2>5. route = << <<site, leg, "up">> >>
      BY <2>1, <2>2
    <2> HIDE DEF packet, site, leg
    <2>6. packet \in Packets
      BY <1>1, <2>4 DEF Packets, Kinds
    <2>7. packet \in Carried /\ 1 \in 1 .. Len(packet.route)
      BY <1>1, <2>2, <2>4, <2>5, <2>6 DEF Carried
    <2>8. packet.id = counter + 1 /\ packet.kind = "probe"
      BY <2>3, <2>4
    <2> QED BY <2>7, <2>8
  <1>3. /\ generated' = generated
        /\ Arrive(packet, 1) /\ Handle(e, A \o B)
        /\ held' = held /\ delivered' = delivered /\ path' = path /\ pathVersion' = pathVersion
    BY DEF Probe, gateway, actuators
  <1>4. Starter(B)
    BY StartersAre
  <1> HIDE DEF site, leg, packet, at, B
  <1>5. /\ now' = now /\ world' = world /\ Calm(e, {w}) /\ SameRates
    BY <1>1, <1>2, <1>3, <1>4, ArrivalCalm DEF SameRates
  <1>6. Grows
    BY <1>1, <1>3, <1>5 DEF Grows
  <1>7. FormNext(packet)
    BY <1>2, <1>3, <1>6, NewForm
  <1>8. Sent(e, w)
    BY <1>2, <1>7 DEF Sent
  <1> HIDE DEF w
  <1> QED BY <1>3, <1>5, <1>6, <1>8 DEF Handles

LEMMA ReadingHandles ==
    ASSUME FormedIInv, NEW e \in calendar, GenerateReading(e)
    PROVE  Handles(e) /\ now' = now /\ world' = world /\ SameRates
  <1> DEFINE site == e.data.site
             packet == Packet(counter + 1, "ami", site, "reading", now, <<>>)
             readings == Append(held[site], packet)
             at == now + Period["ami"]
             B == Recurring("generate", at, e.data)
             A == IF releasing[site] THEN <<>> ELSE ReleaseEvents(site, readings)
  <1>1. /\ e.kind # "serviced" /\ site \in SiteSet /\ sequence \in Nat
        /\ Basics /\ counter \in Nat /\ now \in Nat
        /\ held \in [SiteSet -> Seq(Readings)]
    BY Zenon DEF FormedIInv, MessagesIInv, WorldIInv, Events, Ready, Payload, GenerateReading, Due, Basics
  <1>2. /\ packet.id = counter + 1 /\ packet.kind = "reading" /\ packet.service = "ami"
        /\ packet.generated = now
    BY DEF Packet
  <1>3. /\ generated' = generated \cup {packet}
        /\ held' = [held EXCEPT ![site] = readings] /\ held'[site] = readings
        /\ queue' = queue /\ delivered' = delivered /\ path' = path /\ pathVersion' = pathVersion
    BY <1>1 DEF GenerateReading, actuators
  <1>4. Handle(e, A \o B)
    BY <1>3 DEF GenerateReading
  <1>5. Starter(A) /\ Starter(B)
    BY StartersAre
  <1> HIDE DEF A, B, at, site, packet
  <1>6. /\ now' = now /\ world' = world /\ Calm(e, {}) /\ SameRates
    BY <1>1, <1>3, <1>4, <1>5, QuietCalm DEF SameRates
  <1>7. Grows
    BY <1>1, <1>2, <1>3, <1>6 DEF Grows
  <1>8. FormNext(packet)
    BY <1>2, <1>3, <1>7, NewForm
  <1>9. ASSUME NEW s \in SiteSet, NEW i \in DOMAIN held'[s]
        PROVE  (\E j \in DOMAIN held[s] : held'[s][i] = held[s][j]) \/ FormNext(held'[s][i])
    <2>1. PICK h \in Seq(Readings) : h = held[site]
      BY <1>1
    <2>2. \A j \in DOMAIN Append(h, packet) :
             Append(h, packet)[j] = packet \/ (j \in DOMAIN h /\ Append(h, packet)[j] = h[j])
      BY Grown
    <2>3. s # site => held'[s] = held[s]
      BY <1>1, <1>3
    <2> QED BY <1>3, <1>8, <1>9, <2>1, <2>2, <2>3
  <1> HIDE DEF readings
  <1> QED BY <1>3, <1>6, <1>7, <1>9 DEF Handles

LEMMA ReleaseHandles ==
    ASSUME FormedIInv, NEW e \in calendar, Release(e)
    PROVE  Handles(e) /\ now' = now /\ world' = world /\ SameRates
  <1> DEFINE site == e.data.site
             head == Head(held[site])
             packet == [head EXCEPT !.route = Uplink(site)]
             rest == Tail(held[site])
             A == ArrivalEvents(packet, 1)
             B == ReleaseEvents(site, rest)
             w == [packet |-> packet, hop |-> 1]
  <1>1. /\ e.kind # "serviced" /\ site \in SiteSet
        /\ Basics /\ WorldIInv /\ counter \in Nat /\ now \in Nat
        /\ held \in [SiteSet -> Seq(Readings)] /\ Opens(e, site)
    BY DEF FormedIInv, MessagesIInv, WorldIInv, Events, Ready, Payload, Release, Due, Basics, Opens
  <1>2. held[site] # <<>> /\ held[site] \in Seq(Readings)
    <2>1. e \in Releasing(site)
      BY <1>1 DEF Releasing
    <2> QED BY <1>1, <2>1 DEF WorldIInv, Gated
  <1>3. /\ packet \in Carried /\ 1 \in 1 .. Len(packet.route) /\ head \in Readings
        /\ packet.id = head.id /\ packet.kind = "reading" /\ packet.service = head.service
        /\ packet.site = head.site /\ packet.generated = head.generated
    <2>1. head \in Readings
      <3> HIDE DEF site
      <3> QED BY <1>2, Shortened
    <2>2. PICK route \in Seq(QueueIds) : route = Uplink(site) /\ Len(route) = 2
      BY <1>1, Routes
    <2>3. packet = [head EXCEPT !.route = route]
      BY <2>2
    <2> HIDE DEF packet, site, head
    <2>4. packet \in Carried /\ 1 \in 1 .. Len(packet.route)
      BY <2>1, <2>2, <2>3, Routed
    <2>5. /\ packet.id = head.id /\ packet.kind = "reading" /\ packet.service = head.service
          /\ packet.site = head.site /\ packet.generated = head.generated
      BY <2>1, <2>3 DEF Readings, Packets
    <2> QED BY <2>1, <2>4, <2>5
  <1>4. /\ held' = [held EXCEPT ![site] = rest] /\ held'[site] = rest
        /\ Arrive(packet, 1) /\ path' = path /\ pathVersion' = pathVersion
        /\ generated' = generated /\ delivered' = delivered
    BY <1>1 DEF Release, actuators
  <1>5. Handle(e, A \o B)
    BY <1>4 DEF Release
  <1>6. Starter(B)
    BY StartersAre
  <1> HIDE DEF B, site, packet, head
  <1>7. /\ now' = now /\ world' = world /\ Calm(e, {w}) /\ SameRates
    BY <1>1, <1>3, <1>4, <1>5, <1>6, ArrivalCalm DEF SameRates
  <1>8. Grows
    BY <1>1, <1>4, <1>7 DEF Grows
  <1>9. FormNext(packet)
    <2>1. 1 \in DOMAIN held[site] /\ head = held[site][1]
      BY <1>2 DEF head
    <2>2. Form(head)
      BY <1>1, <2>1 DEF FormedIInv, FormedGates
    <2>3. head.kind = "reading"
      BY <1>3 DEF Readings
    <2> QED BY <1>3, <1>4, <2>2, <2>3 DEF Form, Ours, Shape, FormNext
  <1>10. Sent(e, w)
    BY <1>3, <1>9 DEF Sent
  <1>11. ASSUME NEW s \in SiteSet, NEW i \in DOMAIN held'[s]
         PROVE  \E j \in DOMAIN held[s] : held'[s][i] = held[s][j]
    <2>1. \A j \in DOMAIN rest : j + 1 \in DOMAIN held[site] /\ rest[j] = held[site][j + 1]
      BY <1>2
    <2>2. s # site => held'[s] = held[s]
      BY <1>1, <1>4
    <2> HIDE DEF rest
    <2> QED BY <1>4, <1>11, <2>1, <2>2
  <1> HIDE DEF w, rest
  <1> QED BY <1>4, <1>7, <1>8, <1>10, <1>11 DEF Handles

(* What goes on from a queue. *)
LEMMA OnwardIs ==
    ASSUME NEW k, NEW w \in Waits
    PROVE  LET a == Onward(k, w.packet, w.hop)
               arrival == now + Delay[Link(k)]
           IN  /\ a.kind \in Carriers /\ a.data.packet = w.packet
               /\ a.kind = "hop" <=> w.hop < Len(w.packet.route)
               /\ a.kind = "hop" => a.at = arrival /\ a.data.hop = w.hop + 1
               /\ a.kind = "respond" => w.packet.kind = "request"
               /\ a.kind = "answered" => w.packet.kind = "probe_echo" /\ a.at = arrival
               /\ a.kind = "deliver" => w.packet.kind \in {"reading", "response"} /\ a.at = arrival
  <1> DEFINE packet == w.packet
             hop == w.hop
             arrival == now + Delay[Link(k)]
             later == arrival + ProcessingDelay
             next == hop + 1
             a == Onward(k, packet, hop)
  <1>1. packet.kind \in Kinds
    BY DEF Waits, Carried, Packets
  <1> HIDE DEF later, next
  <1>2. CASE hop < Len(packet.route)
    <2>1. a = Event("hop", arrival, [packet |-> packet, hop |-> next])
      BY <1>2 DEF Onward, next
    <2> HIDE DEF a, packet, hop, arrival
    <2>2. a.kind = "hop" /\ a.at = arrival /\ a.data.packet = packet /\ a.data.hop = next
      BY <2>1 DEF Event
    <2>3. /\ a.kind \in Carriers /\ a.data.packet = packet
          /\ a.kind = "hop" /\ hop < Len(packet.route)
          /\ a.at = arrival /\ a.data.hop = hop + 1
      BY <1>2, <2>2 DEF Carriers, next
    <2> QED BY <2>3 DEF a, packet, hop, arrival
  <1>3. CASE ~(hop < Len(packet.route))
    <2>1. \/ packet.kind = "probe" /\ a = Event("echo", arrival, [packet |-> packet])
          \/ packet.kind = "probe_echo" /\ a = Event("answered", arrival, [packet |-> packet])
          \/ packet.kind = "request" /\ a = Event("respond", later, [packet |-> packet])
          \/ packet.kind \in {"reading", "response"} /\ a = Event("deliver", arrival, [packet |-> packet])
      BY <1>1, <1>3 DEF Onward, later, Kinds
    <2> HIDE DEF a, packet, hop, arrival
    <2>2. /\ a.data.packet = packet
          /\ \/ packet.kind = "probe" /\ a.kind = "echo"
             \/ packet.kind = "probe_echo" /\ a.kind = "answered" /\ a.at = arrival
             \/ packet.kind = "request" /\ a.kind = "respond"
             \/ packet.kind \in {"reading", "response"} /\ a.kind = "deliver" /\ a.at = arrival
      BY <2>1 DEF Event
    <2>3. a.kind \in Carriers /\ a.kind # "hop"
      BY <2>2 DEF Carriers
    <2>4. /\ a.kind = "respond" => packet.kind = "request"
          /\ a.kind = "answered" => packet.kind = "probe_echo" /\ a.at = arrival
          /\ a.kind = "deliver" => packet.kind \in {"reading", "response"} /\ a.at = arrival
      BY <2>2
    <2> QED BY <1>3, <2>2, <2>3, <2>4 DEF a, packet, hop, arrival
  <1> QED BY <1>2, <1>3

(* What the end of a service does. *)
LEMMA ServicedDoes ==
    ASSUME MessagesIInv, NEW e \in calendar, Serviced(e)
    PROVE  LET k == e.data.queue
               w == queue[k].waiting[1]
               x == Scheduled(Onward(k, w.packet, w.hop), sequence + 1)
           IN  /\ k \in QueueIds /\ Ends(e, k) /\ queue[k].busy
               /\ queue[k].waiting \in Seq(Waits) /\ queue[k].waiting # <<>>
               /\ w = Head(queue[k].waiting) /\ w \in Waits
               /\ now' = now /\ world' = world /\ SameRates
               /\ queue'[k].waiting = Tail(queue[k].waiting)
               /\ \A j \in QueueIds : j # k => queue'[j] = queue[j]
               /\ calendar \ {e} \subseteq calendar'
               /\ \A y \in calendar' :
                     \/ y \in calendar /\ y # e
                     \/ y = x
                     \/ Begins(y) /\ y.data.queue = k
  <1> DEFINE k == e.data.queue
             w == queue[k].waiting[1]
             shorter == [queue[k] EXCEPT !.waiting = Tail(@), !.occupied = @ - SizeOf(w.packet)]
             q == StartService(shorter)
             a == Onward(k, w.packet, w.hop)
             B == ServiceOf(k, q)
  <1>1. /\ e.kind = "serviced" /\ k \in QueueIds /\ Ends(e, k)
        /\ Basics /\ Served /\ sequence \in Nat
        /\ queue[k] \in QueueStates /\ queue[k].waiting \in Seq(Waits)
    BY DEF MessagesIInv, WorldIInv, Events, Ready, Payload, Serviced, Due, Basics, Ends, QueueStates
  <1>2. queue[k].waiting # <<>> /\ queue[k].busy
    <2>1. e \in Serving(k)
      BY <1>1 DEF Serving
    <2> QED BY <1>1, <2>1 DEF Served
  <1>3. w = Head(queue[k].waiting) /\ w \in Waits
    BY <1>1, <1>2
  <1>4. queue' = [queue EXCEPT ![k] = q] /\ Handle(e, <<a>> \o B)
    BY <1>3 DEF Serviced
  <1> HIDE DEF k, w, a
  <1>5. /\ shorter.rate = queue[k].rate /\ shorter.waiting = Tail(queue[k].waiting)
        /\ DOMAIN shorter = {"rate", "waiting", "occupied", "busy"}
    BY <1>1 DEF QueueStates
  <1> HIDE DEF shorter
  <1>6. /\ q.rate = queue[k].rate /\ q.waiting = Tail(queue[k].waiting)
        /\ q.busy => q.waiting # <<>> /\ q.rate > 0
    BY <1>5 DEF StartService
  <1> HIDE DEF q
  <1>7. /\ queue'[k] = q /\ \A j \in QueueIds : j # k => queue'[j] = queue[j]
    BY <1>1, <1>4 DEF Basics
  <1>8. SameRates
    BY <1>6, <1>7 DEF SameRates
  <1>9. B = <<>> \/ (B = <<B[1]>> /\ Begins(B[1]) /\ B[1].data.queue = k)
    <2> DEFINE b == Event("serviced", now + SizeOf(Head(q.waiting).packet) \div q.rate, [queue |-> k])
    <2>1. B = IF q.busy THEN <<b>> ELSE <<>>
      BY DEF ServiceOf
    <2>2. /\ b.kind = "serviced" /\ b.data.queue = k
          /\ b.at = now + SizeOf(Head(q.waiting).packet) \div q.rate
      BY DEF Event
    <2> HIDE DEF b, B
    <2>3. q.busy => Begins(b)
      BY <1>1, <1>6, <1>7, <2>2 DEF Begins
    <2> QED BY <2>1, <2>2, <2>3
  <1> HIDE DEF B
  <1> DEFINE A == <<a>>
  <1>10. Short(A) /\ Short(B) /\ A # <<>> /\ A[1] = a
    BY <1>9 DEF Short
  <1>11. /\ world' = world /\ now' = now
         /\ calendar' = (calendar \ {e})
               \cup (IF A = <<>> THEN {} ELSE {Scheduled(A[1], sequence + 1)})
               \cup (IF B = <<>> THEN {} ELSE {Scheduled(B[1], sequence')})
    <2> HIDE DEF A
    <2>1. Handle(e, A \o B)
      BY <1>4 DEF A
    <2> QED BY <1>1, <1>10, <2>1, HandleTwo
  <1> DEFINE x == Scheduled(a, sequence + 1)
             y == Scheduled(B[1], sequence')
  <1>12. B # <<>> => Begins(y) /\ y.data.queue = k
    BY <1>9 DEF Begins, Scheduled
  <1>13. calendar' = (calendar \ {e}) \cup {x} \cup (IF B = <<>> THEN {} ELSE {y})
    BY <1>10, <1>11
  <1> HIDE DEF x, y, A
  <1>14. /\ calendar \ {e} \subseteq calendar'
         /\ \A z \in calendar' :
              \/ z \in calendar /\ z # e
              \/ z = x
              \/ Begins(z) /\ z.data.queue = k
    BY <1>12, <1>13
  <1> QED BY <1>1, <1>2, <1>3, <1>6, <1>7, <1>8, <1>11, <1>14 DEF k, w, x, a

LEMMA TailsFollow ==
    ASSUME NEW S, NEW s \in Seq(S), s # <<>>
    PROVE  \A l \in DOMAIN Tail(s) : l + 1 \in DOMAIN s /\ Tail(s)[l] = s[l + 1]
  OBVIOUS

LEMMA ServicedForms ==
    ASSUME FormedIInv, MessagesIInv', NEW e \in calendar, Serviced(e)
    PROVE  FormedIInv'
  <1>1. PICK k, w, x :
           /\ k = e.data.queue /\ w = queue[k].waiting[1]
           /\ x = Scheduled(Onward(k, w.packet, w.hop), sequence + 1)
           /\ k \in QueueIds /\ queue[k].waiting \in Seq(Waits) /\ queue[k].waiting # <<>>
           /\ w \in Waits /\ now' = now
           /\ queue'[k].waiting = Tail(queue[k].waiting)
           /\ \A j \in QueueIds : j # k => queue'[j] = queue[j]
           /\ \A y \in calendar' :
                 y \in calendar \/ y = x \/ Begins(y)
    BY ServicedDoes DEF FormedIInv
  <1>2. /\ pathVersion' = pathVersion /\ path' = path /\ generated' = generated
        /\ delivered' = delivered /\ held' = held
    BY DEF Serviced, actuators, ledger, gateway
  <1>3. Grows
    <2>1. now \in 0 .. End /\ counter \in Nat /\ End \in Nat
      BY WorldAssumption DEF FormedIInv, MessagesIInv, WorldIInv, Basics
    <2>2. now' = now
      BY <1>1
    <2> QED BY <1>2, <2>1, <2>2 DEF Grows
  <1>4. FormedQueues'
    <2>1. ASSUME NEW j \in QueueIds, NEW i \in DOMAIN queue'[j].waiting
          PROVE  \E l \in DOMAIN queue[j].waiting : queue'[j].waiting[i] = queue[j].waiting[l]
      <3>1. CASE j = k
        <4>1. PICK s \in Seq(Waits) : s = queue[k].waiting
          BY <1>1
        <4>2. \A l \in DOMAIN Tail(s) : l + 1 \in DOMAIN s /\ Tail(s)[l] = s[l + 1]
          BY <1>1, <4>1, TailsFollow
        <4>3. queue'[j].waiting = Tail(s) /\ queue[j].waiting = s
          BY <1>1, <3>1, <4>1
        <4> QED BY <2>1, <4>2, <4>3
      <3> QED BY <1>1, <2>1, <3>1
    <2> QED BY <1>3, <2>1, QueuesFormed
  <1>5. TellsNext(x)
    <2>1. Form(w.packet)
      <3>1. 1 \in DOMAIN queue[k].waiting
        BY <1>1
      <3> QED BY <1>1, <3>1 DEF FormedIInv, FormedQueues
    <2>2. w.packet.id \in 1 .. counter /\ w.packet.site \in SiteSet
      <3>1. 1 \in DOMAIN queue[k].waiting
        BY <1>1
      <3> QED BY <1>1, <3>1, PacketsKnown, Zenon DEF FormedIInv
    <2>3. FormNext(w.packet)
      BY <1>3, <2>1, <2>2, FormKept
    <2> DEFINE a == Onward(k, w.packet, w.hop)
    <2>4. /\ a.kind \in Carriers /\ a.data.packet = w.packet
          /\ a.kind = "respond" => w.packet.kind = "request"
          /\ a.kind = "deliver" => w.packet.kind \in {"reading", "response"}
      BY <1>1, OnwardIs, Zenon
    <2>5. x.kind = a.kind /\ x.data = a.data
      BY <1>1, Zenon DEF Scheduled
    <2> HIDE DEF a
    <2> QED BY <2>3, <2>4, <2>5 DEF TellsNext, Carriers
  <1>6. FormedEvents'
    <2>1. \A y \in calendar' : y \in calendar \/ TellsNext(y)
      BY <1>1, <1>5, Zenon DEF Begins, TellsNext, Carriers
    <2> QED BY <1>3, <2>1, EventsFormed
  <1>7. FormedGates' /\ Registered' /\ Unmoved'
    <2>1. Unmoved'
      BY <1>2 DEF FormedIInv, Unmoved
    <2> QED BY <1>2, <1>3, <2>1, GatesFormed, RegisteredKept
  <1> QED BY <1>4, <1>6, <1>7 DEF FormedIInv

(* Nothing but the actuators and the time. *)
LEMMA StillForms ==
    ASSUME FormedIInv, MessagesIInv', calendar' = calendar, queue' = queue, held' = held,
           generated' = generated, delivered' = delivered, now' \in Nat, now <= now',
           \A site \in SiteSet : pathVersion'[site] = 0 =>
               pathVersion[site] = 0 /\ path'[site] = path[site]
    PROVE  FormedIInv'
  <1>1. Grows
    BY DEF Grows, FormedIInv, MessagesIInv, WorldIInv, Basics
  <1>2. FormedQueues' /\ FormedEvents' /\ FormedGates' /\ Registered'
    BY <1>1, QueuesFormed, EventsFormed, GatesFormed, RegisteredKept
  <1>3. Unmoved'
    BY DEF FormedIInv, Unmoved
  <1> QED BY <1>2, <1>3 DEF FormedIInv

LEMMA CommandForms ==
    ASSUME FormedIInv, MessagesIInv', NEW site \in SiteSet, NEW expected \in 0 .. MaxCommands,
           \/ \E leg \in LegSet : SelectPath(site, leg, expected)
           \/ \E profile \in Profiles : SetAmiPacing(site, profile, expected)
    PROVE  FormedIInv'
  <1>0. Basics /\ now \in Nat
    BY DEF FormedIInv, MessagesIInv, WorldIInv, Basics
  <1>1. ASSUME NEW leg \in LegSet, SelectPath(site, leg, expected) PROVE FormedIInv'
    <2>1. /\ path' = [path EXCEPT ![site] = leg]
          /\ pathVersion' = [pathVersion EXCEPT ![site] = @ + 1]
          /\ calendar' = calendar /\ queue' = queue /\ held' = held
          /\ generated' = generated /\ delivered' = delivered /\ now' = now
      BY <1>1 DEF SelectPath, gateway, ledger
    <2>2. pathVersion'[site] = pathVersion[site] + 1 /\ pathVersion[site] \in Nat
      BY <1>0, <2>1 DEF Basics
    <2>3. ASSUME NEW s \in SiteSet, pathVersion'[s] = 0
          PROVE  pathVersion[s] = 0 /\ path'[s] = path[s]
      <3>1. s # site
        BY <2>2, <2>3
      <3> QED BY <1>0, <2>1, <2>3, <3>1 DEF Basics
    <2> QED BY <1>0, <2>1, <2>3, StillForms
  <1>2. ASSUME NEW profile \in Profiles, SetAmiPacing(site, profile, expected) PROVE FormedIInv'
    <2>1. /\ path' = path /\ pathVersion' = pathVersion
          /\ calendar' = calendar /\ queue' = queue /\ held' = held
          /\ generated' = generated /\ delivered' = delivered /\ now' = now
      BY <1>2 DEF SetAmiPacing, gateway, ledger
    <2> QED BY <1>0, <2>1, StillForms
  <1> QED BY <1>1, <1>2

LEMMA FormedStart ==
    ASSUME Init
    PROVE  FormedIInv
  <1>1. MessagesIInv
    BY MessagesStart
  <1>2. ASSUME NEW e \in calendar
        PROVE e.kind \in Starting /\ (e.kind = "disturb" => e.data.at = e.at)
    <2>1. calendar = {Scheduled(InitialEvents[k], k) : k \in DOMAIN InitialEvents}
      BY DEF Init
    <2>2. PICK k \in DOMAIN InitialEvents : e = Scheduled(InitialEvents[k], k)
      BY <2>1
    <2>3. InitialEvents[k].kind \in Starting
      BY <2>2, InitialCalendar
    <2>4. InitialEvents[k].kind = "disturb" => InitialEvents[k].data.at = InitialEvents[k].at
      BY <2>2, InitialCalendar
    <2> QED BY <2>2, <2>3, <2>4 DEF Scheduled
  <1>3. /\ generated = {} /\ delivered = <<>>
        /\ \A k \in QueueIds : queue[k].waiting = <<>>
        /\ \A site \in SiteSet : held[site] = <<>>
        /\ \A site \in SiteSet : path[site] = Legs[1]
    BY DEF Init
  <1>4. FormedEvents
    BY <1>2 DEF FormedEvents, Carriers, Starting
  <1>5. FormedQueues /\ FormedGates /\ Unmoved
    BY <1>3 DEF FormedQueues, FormedGates, Unmoved
  <1>6. Registered
    BY <1>3, FS_EmptySet DEF Registered
  <1> QED BY <1>1, <1>4, <1>5, <1>6 DEF FormedIInv

LEMMA FormedKept ==
    ASSUME FormedIInv, [Next]_vars
    PROVE  FormedIInv'
  <1>0. MessagesIInv' /\ now \in Nat
    BY MessagesKept DEF FormedIInv, MessagesIInv, WorldIInv, Basics
  <1>1. ASSUME Tick PROVE FormedIInv'
    <2>1. now' = now + 1 /\ now' \in Nat /\ now <= now'
      BY <1>0, <1>1 DEF Tick
    <2> QED BY <1>0, <1>1, <2>1, StillForms DEF Tick, gateway, ledger, actuators
  <1>2. ASSUME NEW e \in calendar, Handles(e) PROVE FormedIInv'
    BY <1>0, <1>2, HandlingKeepsForm
  <1>3. ASSUME NEW e \in calendar, Serviced(e) PROVE FormedIInv'
    BY <1>0, <1>3, ServicedForms
  <1>4. ASSUME NEW site \in SiteSet, NEW expected \in 0 .. MaxCommands,
                \/ \E leg \in LegSet : SelectPath(site, leg, expected)
                \/ \E profile \in Profiles : SetAmiPacing(site, profile, expected)
         PROVE  FormedIInv'
    BY <1>0, <1>4, CommandForms
  <1>5. ASSUME UNCHANGED vars PROVE FormedIInv'
    BY <1>0, <1>5, StillForms DEF vars, gateway, ledger, actuators
  <1>6. ASSUME NEW e \in calendar,
               \/ GenerateRequest(e) \/ GenerateReading(e) \/ Release(e) \/ Respond(e)
               \/ Hop(e) \/ Deliver(e) \/ Probe(e) \/ Echo(e) \/ Answered(e) \/ Disturb(e)
        PROVE  Handles(e)
    BY <1>6, RequestHandles, ReadingHandles, ReleaseHandles, RespondHandles, HopHandles,
       DeliverHandles, ProbeHandles, EchoHandles, AnsweredHandles, DisturbHandles
  <1> QED BY <1>1, <1>2, <1>3, <1>4, <1>5, <1>6 DEF Next, Advance

-------------------------------------------------------------------------------
(* How the ledger moves.                                                     *)

LEMMA ArriveEnters ==
    ASSUME NEW packet, NEW hop, Arrive(packet, hop)
    PROVE  dropped' = dropped \/ \E y : dropped' = Append(dropped, y)
  BY DEF Arrive

(* One entry at a time, at an event of now. *)
LedgerMoves ==
    /\ now' = now /\ ~Settled
    /\ generated' = generated \/ \E o : generated' = generated \cup {o} /\ o.generated = now
    /\ dropped' = dropped \/ \E y : dropped' = Append(dropped, y)
    /\ \/ delivered' = delivered
       \/ \E e \in calendar :
             LET p == e.data.packet
             IN  /\ e.kind = "deliver"
                 /\ delivered' = Append(delivered, [id |-> p.id, at |-> now, onTime |-> InTime(p)])

LEMMA LedgerSteps ==
    ASSUME FormedIInv, [Next]_vars, ledger' # ledger
    PROVE  LedgerMoves
  <1>0. now \in Nat
    BY DEF FormedIInv, MessagesIInv, WorldIInv, Basics
  <1>1. PICK e \in calendar :
           \/ GenerateRequest(e) \/ GenerateReading(e) \/ Release(e) \/ Respond(e)
           \/ Hop(e) \/ Serviced(e) \/ Deliver(e)
           \/ Probe(e) \/ Echo(e) \/ Answered(e) \/ Disturb(e)
    BY DEF Next, Advance, Tick, SelectPath, SetAmiPacing, vars
  <1>2. now' = now /\ e.at = now
    BY <1>1, Zenon DEF GenerateRequest, GenerateReading, Release, Respond, Hop, Serviced, Deliver, Probe, Echo,
                Answered, Disturb, Handle, Due
  <1>3. ~Settled
    BY <1>0, <1>2 DEF Settled
  <1>4. dropped' = dropped \/ \E y : dropped' = Append(dropped, y)
    <2>1. CASE GenerateRequest(e)
      BY <2>1, ArriveEnters DEF GenerateRequest
    <2>2. CASE Release(e)
      BY <2>2, ArriveEnters DEF Release
    <2>3. CASE Respond(e) \/ Hop(e)
      BY <2>3, ArriveEnters DEF Respond, Hop
    <2>4. CASE Probe(e)
      BY <2>4, ArriveEnters DEF Probe
    <2>5. CASE Echo(e)
      BY <2>5, ArriveEnters DEF Echo
    <2>6. CASE GenerateReading(e) \/ Deliver(e)
      BY <2>6 DEF GenerateReading, Deliver
    <2>7. CASE Serviced(e) \/ Answered(e) \/ Disturb(e)
      BY <2>7, Zenon DEF Serviced, Answered, Disturb, ledger
    <2> QED BY <1>1, <2>1, <2>2, <2>3, <2>4, <2>5, <2>6, <2>7
  <1>5. generated' = generated \/ \E o : generated' = generated \cup {o} /\ o.generated = now
    <2>1. CASE GenerateRequest(e)
      <3> DEFINE o == Packet(counter + 1, "scada", e.data.site, "request", now, Downlink(e.data.site))
      <3>1. generated' = generated \cup {o}
        BY <2>1 DEF GenerateRequest
      <3>2. o.generated = now
        BY DEF Packet
      <3> HIDE DEF o
      <3> QED BY <3>1, <3>2
    <2>2. CASE GenerateReading(e)
      <3> DEFINE o == Packet(counter + 1, "ami", e.data.site, "reading", now, <<>>)
      <3>1. generated' = generated \cup {o}
        BY <2>2 DEF GenerateReading
      <3>2. o.generated = now
        BY DEF Packet
      <3> HIDE DEF o
      <3> QED BY <3>1, <3>2
    <2>3. CASE Release(e) \/ Respond(e) \/ Hop(e) \/ Deliver(e) \/ Probe(e) \/ Echo(e)
      BY <2>3 DEF Release, Respond, Hop, Deliver, Probe, Echo
    <2>4. CASE Serviced(e) \/ Answered(e) \/ Disturb(e)
      BY <2>4, Zenon DEF Serviced, Answered, Disturb, ledger
    <2> QED BY <1>1, <2>1, <2>2, <2>3, <2>4
  <1>6. \/ delivered' = delivered
        \/ /\ e.kind = "deliver"
           /\ delivered' = Append(delivered, [id |-> e.data.packet.id, at |-> now,
                                              onTime |-> InTime(e.data.packet)])
    <2>1. CASE Deliver(e)
      BY <2>1 DEF Deliver, Due
    <2>2. CASE GenerateRequest(e) \/ GenerateReading(e) \/ Release(e) \/ Respond(e) \/ Hop(e) \/ Probe(e) \/ Echo(e)
      BY <2>2 DEF GenerateRequest, GenerateReading, Release, Respond, Hop, Probe, Echo
    <2>3. CASE Serviced(e) \/ Answered(e) \/ Disturb(e)
      BY <2>3, Zenon DEF Serviced, Answered, Disturb, ledger
    <2> QED BY <1>1, <2>1, <2>2, <2>3
  <1> QED BY <1>2, <1>3, <1>4, <1>5, <1>6 DEF LedgerMoves

(* What was generated earlier is not added to. *)
LEMMA CohortStands ==
    ASSUME LedgerMoves, now \in Nat, NEW spec, spec.start \in Nat, spec.end \in Int, spec.end < now
    PROVE  Cohort(spec)' = Cohort(spec)
  <1>1. \A o : o.generated = now => o.generated \notin spec.start .. spec.end
    OBVIOUS
  <1>2. \A o \in generated' : o \in generated \/ o.generated = now
    BY DEF LedgerMoves
  <1>3. generated \subseteq generated'
    BY DEF LedgerMoves
  <1> QED BY <1>1, <1>2, <1>3 DEF Cohort

(* What is delivered was outstanding. *)
LEMMA DeliveredOnce ==
    ASSUME FormedIInv, NEW e \in calendar, e.kind = "deliver", NEW o \in generated,
           o.id = e.data.packet.id
    PROVE  /\ \A k \in DOMAIN delivered : delivered[k].id # o.id
           /\ \A k \in DOMAIN dropped : dropped[k].id # o.id
           /\ DueBy(o) = DueBy(e.data.packet)
  <1>1. Sole(o.id)
    BY DEF FormedIInv, MessagesIInv, Conserved
  <1>2. <<"event", e>> \in InEvents(o.id)
    BY DEF InEvents, Carriers
  <1>3. <<"event", e>> \in Places(o.id)
    BY <1>2, PlacesAre
  <1>4. AmongDelivered(o.id) = {} /\ AmongDropped(o.id) = {}
    <2>1. <<"event", e>>[1] = "event"
      OBVIOUS
    <2> QED BY <1>1, <1>3, <2>1, SoleIn
  <1>5. Form(e.data.packet)
    BY DEF FormedIInv, FormedEvents, Carriers
  <1>6. o.service = e.data.packet.service /\ o.generated = e.data.packet.generated
    BY <1>5 DEF Form, Ours
  <1> QED BY <1>4, <1>6 DEF AmongDelivered, AmongDropped, DueBy

LEMMA LeastOfTwo ==
    ASSUME NEW a \in Int, NEW b \in Int
    PROVE  Min({a, b}) \in Int /\ Min({a, b}) <= a /\ Min({a, b}) <= b
  <1>1. \E x \in {a, b} : \A y \in {a, b} : x <= y
    OBVIOUS
  <1>2. Min({a, b}) \in {a, b} /\ \A y \in {a, b} : Min({a, b}) <= y
    BY <1>1 DEF Min
  <1> QED BY <1>2

(* A step of UncensoredIsFinal. *)
FinalStep ==
    ledger' # ledger =>
       \A service \in ToSet(Services), until \in 0..Min({Reached, Horizon}) :
           LET cohort == Cohort([service |-> service, start |-> 0, end |-> until])
           IN  ~Censored(cohort) =>
                  Cardinality(Deliveries(cohort, TRUE)') = Cardinality(Deliveries(cohort, TRUE))

LEMMA FinalSteps ==
    ASSUME FormedIInv, [Next]_vars
    PROVE  FinalStep
  <1> SUFFICES ASSUME ledger' # ledger,
                      NEW service \in ToSet(Services), NEW until \in 0..Min({Reached, Horizon}),
                      ~Censored(Cohort([service |-> service, start |-> 0, end |-> until]))
               PROVE  Deliveries(Cohort([service |-> service, start |-> 0, end |-> until]), TRUE)'
                        = Deliveries(Cohort([service |-> service, start |-> 0, end |-> until]), TRUE)
    BY DEF FinalStep
  <1> DEFINE spec == [service |-> service, start |-> 0, end |-> until]
             cohort == Cohort(spec)
  <1>1. now \in Nat /\ LedgerMoves /\ (\E S : delivered \in Seq(S))
    BY LedgerSteps DEF FormedIInv, MessagesIInv, WorldIInv, Basics, Traced, Listed
  <1>2. Reached = now - 1
    BY <1>1 DEF LedgerMoves, Reached
  <1>3. until \in Nat /\ until < now
    <2>1. now - 1 \in Int /\ Horizon \in Int
      BY <1>1, WorldAssumption
    <2>2. PICK m \in Int : m = Min({Reached, Horizon}) /\ m <= now - 1
      BY <1>2, <2>1, LeastOfTwo
    <2> QED BY <1>1, <2>2
  <1>4. spec.start = 0 /\ spec.end = until
    OBVIOUS
  <1>5. cohort' = cohort
    <2> HIDE DEF spec
    <2>1. Cohort(spec)' = Cohort(spec)
      BY <1>1, <1>3, <1>4, CohortStands
    <2> QED BY <2>1
  <1>6. cohort \subseteq generated
    BY DEF Cohort
  <1>7. \A o \in Outstanding(cohort) : DueBy(o) \in Int /\ DueBy(o) <= now - 1
    <2>1. ASSUME NEW o \in cohort PROVE DueBy(o) \in Int
      <3>1. o.service = service /\ o \in generated
        BY DEF Cohort
      <3>2. o.generated \in Nat
        BY <1>1, <3>1 DEF FormedIInv, Registered
      <3>3. Deadline[service] \in Nat
        BY WorldAssumption
      <3> QED BY <3>1, <3>2, <3>3 DEF DueBy
    <2> HIDE DEF cohort
    <2>2. ~Censored(cohort)
      BY DEF cohort, spec
    <2> QED BY <1>1, <1>2, <2>1, <2>2 DEF Censored, Outstanding
  <1> HIDE DEF cohort, spec
  <1>8. Deliveries(cohort, TRUE)' = Deliveries(cohort, TRUE)
    <2>1. CASE delivered' = delivered
      BY <1>5, <2>1 DEF Deliveries
    <2>2. CASE \E e \in calendar :
                 LET p == e.data.packet
                 IN  /\ e.kind = "deliver"
                     /\ delivered' = Append(delivered, [id |-> p.id, at |-> now, onTime |-> InTime(p)])
      <3>1. PICK e, p :
               /\ e \in calendar /\ p = e.data.packet /\ e.kind = "deliver"
               /\ delivered' = Append(delivered, [id |-> p.id, at |-> now, onTime |-> InTime(p)])
        BY <2>2
      <3> DEFINE x == [id |-> p.id, at |-> now, onTime |-> InTime(p)]
      <3>2. x.id = p.id /\ x.onTime = InTime(p)
        OBVIOUS
      <3>3. delivered' = Append(delivered, x)
        BY <3>1
      <3> HIDE DEF x
      <3>4. ~(x.onTime = TRUE /\ \E o \in cohort : o.id = x.id)
        <4>1. SUFFICES ASSUME x.onTime = TRUE, NEW o \in cohort, o.id = x.id PROVE FALSE
          OBVIOUS
        <4>2. o \in generated /\ o.id = p.id
          BY <1>6, <3>2, <4>1
        <4>3. o \in Outstanding(cohort) /\ DueBy(o) = DueBy(p)
          BY <3>1, <4>2, DeliveredOnce DEF Outstanding
        <4>4. now <= DueBy(o)
          BY <3>2, <4>1, <4>3 DEF InTime
        <4>5. DueBy(o) <= now - 1 /\ DueBy(o) \in Int
          BY <1>7, <4>3
        <4>6. PICK due \in Int : due = DueBy(o)
          BY <4>5
        <4>7. now \in Nat /\ now <= due /\ due <= now - 1
          BY <1>1, <4>4, <4>5, <4>6
        <4> QED BY <4>7
      <3>5. PICK S : delivered \in Seq(S)
        BY <1>1
      <3>6. PICK s \in Seq(S) : s = delivered
        BY <3>5
      <3>7. LET t == Append(s, x)
                n == Len(s) + 1
            IN  /\ n \in DOMAIN t /\ n \notin DOMAIN s /\ t[n] = x
                /\ DOMAIN t = DOMAIN s \cup {n}
                /\ \A i \in DOMAIN s : t[i] = s[i]
        BY Longer
      <3>8. PICK t, n :
               /\ t = delivered' /\ t[n] = x
               /\ DOMAIN t = DOMAIN s \cup {n}
               /\ \A i \in DOMAIN s : t[i] = s[i]
        BY <3>3, <3>6, <3>7
      <3> QED BY <1>5, <3>4, <3>6, <3>8 DEF Deliveries
    <2> QED BY <1>1, <2>1, <2>2 DEF LedgerMoves
  <1> QED BY <1>8 DEF cohort, spec

(* What of a cohort is on time is final once the cohort is not censored:     *)
(* nothing is added to it, and a delivery that is still to come of it is     *)
(* late.                                                                     *)
THEOREM UncensoredStaysFinal == Spec => UncensoredIsFinal
  <1>1. Init => FormedIInv
    BY FormedStart
  <1>2. FormedIInv /\ [Next]_vars => FormedIInv'
    BY FormedKept
  <1>3. FormedIInv /\ [Next]_vars => [FinalStep]_vars
    BY FinalSteps
  <1>4. Spec => [][FinalStep]_vars
    BY <1>1, <1>2, <1>3, PTL DEF Spec
  <1> QED BY <1>4 DEF UncensoredIsFinal, FinalStep

-------------------------------------------------------------------------------
(* Sums over finite sets. *)

LEMMA SubsetInduction ==
    ASSUME NEW S, IsFiniteSet(S), NEW Q,
           \A t \in SUBSET S : (\A x \in t : t \ {x} \in Q) => t \in Q
    PROVE  S \in Q
  <1> SUFFICES ASSUME S \notin Q PROVE FALSE
    OBVIOUS
  <1> DEFINE Bad == {t \in SUBSET S : t \notin Q}
  <1>1. Bad \subseteq FiniteSubsetsOf(S) /\ Bad # {}
    BY FS_FiniteSubsetsOfFinite
  <1>2. PICK t \in Bad : \A u \in Bad : ~ (<<u, t>> \in StrictSubsetOrdering(S))
    <2> HIDE DEF Bad
    <2> QED BY <1>1, FS_StrictSubsetOrderingWellFounded, WFMin
  <1>3. ASSUME NEW x \in t PROVE t \ {x} \in Q
    <2>1. t \ {x} \in SUBSET S /\ t \ {x} # t /\ t \ {x} \subseteq t
      OBVIOUS
    <2>2. <<t \ {x}, t>> \in StrictSubsetOrdering(S)
      BY <2>1 DEF StrictSubsetOrdering
    <2> QED BY <1>2, <2>1, <2>2
  <1> QED BY <1>3

(* g sums h over every subset of S. *)
SumStep(h, g, s) ==
    IF s = {} THEN 0
    ELSE LET x == CHOOSE x \in s : TRUE
         IN  h[x] + g[s \ {x}]

Summed(h, S, g) == g = [s \in SUBSET S |-> SumStep(h, g, s)]

LEMMA SumsCoincide ==
    ASSUME NEW h, NEW S, NEW T, NEW f, NEW g, Summed(h, S, f), Summed(h, T, g),
           NEW U, IsFiniteSet(U), U \subseteq S, U \subseteq T
    PROVE  f[U] = g[U]
  <1> DEFINE Q == {t \in SUBSET U : f[t] = g[t]}
  <1>1. ASSUME NEW t \in SUBSET U, \A x \in t : t \ {x} \in Q
        PROVE  t \in Q
    <2>1. f[t] = SumStep(h, f, t) /\ g[t] = SumStep(h, g, t)
      <3>1. t \in SUBSET S /\ t \in SUBSET T
        OBVIOUS
      <3> QED BY <3>1 DEF Summed
    <2>2. CASE t = {}
      BY <2>1, <2>2 DEF SumStep
    <2>3. CASE t # {}
      <3> DEFINE x == CHOOSE x \in t : TRUE
      <3>1. x \in t
        BY <2>3
      <3>2. f[t \ {x}] = g[t \ {x}]
        BY <3>1, <1>1
      <3> QED BY <2>1, <2>3, <3>2 DEF SumStep
    <2> QED BY <2>2, <2>3
  <1>2. U \in Q
    <2> HIDE DEF Q
    <2> QED BY <1>1, SubsetInduction
  <1> QED BY <1>2

LEMMA SummedExists ==
    ASSUME NEW h, NEW S, IsFiniteSet(S)
    PROVE  \E g : Summed(h, S, g)
  <1> DEFINE Q == {t \in SUBSET S : \E g : Summed(h, t, g)}
  <1>1. ASSUME NEW t \in SUBSET S, \A x \in t : t \ {x} \in Q
        PROVE  t \in Q
    <2> DEFINE part(x) == CHOOSE g : Summed(h, t \ {x}, g)
    <2>1. \A x \in t : Summed(h, t \ {x}, part(x))
      BY <1>1
    <2> DEFINE below(s) == part(CHOOSE x \in t : x \notin s)[s]
               top == IF t = {} THEN 0
                      ELSE LET x == CHOOSE x \in t : TRUE
                           IN  h[x] + below(t \ {x})
               g == [s \in SUBSET t |-> IF s = t THEN top ELSE below(s)]
    <2>2. ASSUME NEW s \in SUBSET t
          PROVE  g[s] = SumStep(h, g, s)
      <3>1. CASE s = t
        <4>1. CASE t = {}
          BY <3>1, <4>1 DEF SumStep
        <4>2. CASE t # {}
          <5> DEFINE x == CHOOSE x \in t : TRUE
          <5>1. x \in t /\ t \ {x} \in SUBSET t /\ t \ {x} # t
            BY <4>2
          <5>2. g[t \ {x}] = below(t \ {x})
            BY <5>1
          <5>3. g[t] = h[x] + below(t \ {x})
            BY <4>2
          <5>4. SumStep(h, g, t) = h[x] + g[t \ {x}]
            <6> HIDE DEF g
            <6> QED BY <4>2 DEF SumStep
          <5> QED BY <3>1, <5>2, <5>3, <5>4
        <4> QED BY <4>1, <4>2
      <3>2. CASE s # t
        <4> DEFINE y == CHOOSE y \in t : y \notin s
                   f == part(y)
        <4>1. y \in t /\ y \notin s /\ s \in SUBSET (t \ {y})
          BY <3>2
        <4>2. Summed(h, t \ {y}, f)
          BY <4>1, <2>1
        <4>3. g[s] = f[s]
          BY <3>2
        <4>4. f[s] = SumStep(h, f, s)
          <5> HIDE DEF f, y
          <5> QED BY <4>1, <4>2 DEF Summed
        <4>5. CASE s = {}
          BY <4>3, <4>4, <4>5 DEF SumStep
        <4>6. CASE s # {}
          <5> DEFINE x == CHOOSE x \in s : TRUE
                     r == s \ {x}
                     z == CHOOSE z \in t : z \notin r
          <5>1. x \in s /\ x \in t /\ r \in SUBSET t /\ r # t
            BY <4>6
          <5>2. z \in t /\ z \notin r
            BY <5>1
          <5>3. g[r] = part(z)[r]
            BY <5>1
          <5>4. Summed(h, t \ {z}, part(z))
            BY <5>2, <2>1
          <5>5. IsFiniteSet(r) /\ r \subseteq t \ {z} /\ r \subseteq t \ {y}
            <6>1. r \subseteq S
              BY <5>1
            <6>2. IsFiniteSet(r)
              BY <6>1, FS_Subset
            <6> QED BY <4>1, <5>1, <5>2, <6>2
          <5>6. part(z)[r] = f[r]
            <6> HIDE DEF part, r, z, f, y
            <6> QED BY <4>2, <5>4, <5>5, SumsCoincide
          <5>7. g[r] = f[r]
            BY <5>3, <5>6
          <5> HIDE DEF g, f
          <5> QED BY <4>3, <4>4, <4>6, <5>7 DEF SumStep
        <4> QED BY <4>5, <4>6
      <3> QED BY <3>1, <3>2
    <2>3. Summed(h, t, g)
      <3>1. g = [s \in SUBSET t |-> g[s]]
        OBVIOUS
      <3> HIDE DEF g
      <3> QED BY <2>2, <3>1 DEF Summed
    <2> QED BY <2>3
  <1>2. S \in Q
    <2> HIDE DEF Q
    <2> QED BY <1>1, SubsetInduction
  <1> QED BY <1>2

(* A sum of smaller numbers is smaller. *)
LEMMA SumGrows ==
    ASSUME NEW S, IsFiniteSet(S), NEW h, NEW j, NEW f, NEW g, Summed(h, S, f), Summed(j, S, g),
           \A x \in S : h[x] \in Int /\ j[x] \in Int /\ h[x] <= j[x]
    PROVE  f[S] \in Int /\ g[S] \in Int /\ f[S] <= g[S]
  <1> DEFINE Q == {t \in SUBSET S : f[t] \in Int /\ g[t] \in Int /\ f[t] <= g[t]}
  <1>1. ASSUME NEW t \in SUBSET S, \A x \in t : t \ {x} \in Q
        PROVE  t \in Q
    <2>1. f[t] = SumStep(h, f, t) /\ g[t] = SumStep(j, g, t)
      BY DEF Summed
    <2>2. CASE t = {}
      BY <2>1, <2>2 DEF SumStep
    <2>3. CASE t # {}
      <3> DEFINE x == CHOOSE x \in t : TRUE
      <3>1. x \in t
        BY <2>3
      <3>2. f[t] = h[x] + f[t \ {x}] /\ g[t] = j[x] + g[t \ {x}]
        BY <2>1, <2>3 DEF SumStep
      <3> HIDE DEF x
      <3>3. f[t \ {x}] \in Int /\ g[t \ {x}] \in Int /\ f[t \ {x}] <= g[t \ {x}]
        BY <3>1, <1>1
      <3>4. h[x] \in Int /\ j[x] \in Int /\ h[x] <= j[x]
        BY <3>1
      <3> QED BY <3>2, <3>3, <3>4
    <2> QED BY <2>2, <2>3
  <1>2. S \in Q
    <2> HIDE DEF Q
    <2> QED BY <1>1, SubsetInduction
  <1> QED BY <1>2

(* Numbers that come to nothing are nothing. *)
LEMMA SumOfNone ==
    ASSUME NEW S, IsFiniteSet(S), NEW h, NEW f, Summed(h, S, f),
           \A x \in S : h[x] \in Nat, f[S] <= 0
    PROVE  \A x \in S : h[x] = 0
  <1> DEFINE Q == {t \in SUBSET S : f[t] \in Nat /\ (f[t] = 0 => \A x \in t : h[x] = 0)}
  <1>1. ASSUME NEW t \in SUBSET S, \A x \in t : t \ {x} \in Q
        PROVE  t \in Q
    <2>1. f[t] = SumStep(h, f, t)
      BY DEF Summed
    <2>2. CASE t = {}
      BY <2>1, <2>2 DEF SumStep
    <2>3. CASE t # {}
      <3> DEFINE x == CHOOSE x \in t : TRUE
      <3>1. x \in t
        BY <2>3
      <3>2. f[t] = h[x] + f[t \ {x}]
        BY <2>1, <2>3 DEF SumStep
      <3> HIDE DEF x
      <3>3. f[t \ {x}] \in Nat /\ (f[t \ {x}] = 0 => \A y \in t \ {x} : h[y] = 0)
        BY <3>1, <1>1
      <3>4. h[x] \in Nat
        BY <3>1
      <3> QED BY <3>2, <3>3, <3>4
    <2> QED BY <2>2, <2>3
  <1>2. S \in Q
    <2> HIDE DEF Q
    <2> QED BY <1>1, SubsetInduction
  <1> QED BY <1>2

(* MapThenSumSet of the community modules computes such a sum. *)
Fields == {"generated", "onTime", "late", "lost", "pending"}
SpecsOf(service) == {spec \in Specs : spec.service = service}
Parts(service, field) == [spec \in SpecsOf(service) |-> Counts(spec)[field]]

Tallied ==
    \A service : \A field \in Fields :
        \E g : /\ Summed(Parts(service, field), SpecsOf(service), g)
               /\ Tally(service)[field] = g[SpecsOf(service)]

FoldCounts(field, S) ==
    LET iter[s \in SUBSET S] ==
          IF s = {} THEN 0
          ELSE LET x == CHOOSE x \in s : TRUE
               IN  Counts(x)[field] + iter[s \ {x}]
    IN  iter[S]

LEMMA TallyIsFold ==
    ASSUME NEW service, NEW field \in Fields
    PROVE  Tally(service)[field] = FoldCounts(field, SpecsOf(service))
  BY DEF Tally, FoldCounts, SpecsOf, MapThenSumSet, MapThenFoldSet, Fields

LEMMA TalliesAre == Tallied
  <1> SUFFICES ASSUME NEW service, NEW field \in Fields
               PROVE  \E g : /\ Summed(Parts(service, field), SpecsOf(service), g)
                             /\ Tally(service)[field] = g[SpecsOf(service)]
    BY DEF Tallied
  <1> DEFINE S == SpecsOf(service)
             h == Parts(service, field)
             Step(g, s) == IF s = {} THEN 0
                           ELSE LET x == CHOOSE x \in s : TRUE
                                IN  Counts(x)[field] + g[s \ {x}]
             iter == CHOOSE g : g = [s \in SUBSET S |-> Step(g, s)]
  <1>1. IsFiniteSet(S)
    BY EvaluationAssumption, FS_Subset DEF SpecsOf
  <1>2. PICK g : Summed(h, S, g)
    BY <1>1, SummedExists
  <1>3. ASSUME NEW f, NEW s \in SUBSET S PROVE Step(f, s) = SumStep(h, f, s)
    <2>1. CASE s = {}
      BY <2>1 DEF SumStep
    <2>2. CASE s # {}
      <3> DEFINE x == CHOOSE x \in s : TRUE
      <3>1. x \in S
        BY <2>2
      <3>2. h[x] = Counts(x)[field]
        BY <3>1 DEF Parts
      <3>3. SumStep(h, f, s) = h[x] + f[s \ {x}]
        BY <2>2 DEF SumStep
      <3>4. Step(f, s) = Counts(x)[field] + f[s \ {x}]
        BY <2>2
      <3> QED BY <3>2, <3>3, <3>4
    <2> QED BY <2>1, <2>2
  <1>4. \A f : Summed(h, S, f) <=> f = [s \in SUBSET S |-> Step(f, s)]
    <2> HIDE DEF Step, S, h
    <2> QED BY <1>3 DEF Summed
  <1>5. iter = [s \in SUBSET S |-> Step(iter, s)]
    <2>1. g = [s \in SUBSET S |-> Step(g, s)]
      BY <1>2, <1>4
    <2> HIDE DEF S, Step
    <2> QED BY <2>1
  <1>6. Summed(h, S, iter)
    BY <1>4, <1>5
  <1>7. FoldCounts(field, S) = iter[S]
    BY DEF FoldCounts
  <1> HIDE DEF iter
  <1> QED BY <1>6, <1>7, TallyIsFold

-------------------------------------------------------------------------------
(* Counts. *)

LEMMA NoMore ==
    ASSUME NEW D, NEW S, IsFiniteSet(S), NEW R,
           \A d \in D : \E s \in S : <<d, s>> \in R,
           \A c, d \in D : \A s \in S : <<c, s>> \in R /\ <<d, s>> \in R => c = d
    PROVE  IsFiniteSet(D) /\ Cardinality(D) <= Cardinality(S)
  <1> DEFINE f == [d \in D |-> CHOOSE s \in S : <<d, s>> \in R]
  <1>1. \A d \in D : f[d] \in S /\ <<d, f[d]>> \in R
    OBVIOUS
  <1>2. f \in [D -> S]
    BY <1>1
  <1> HIDE DEF f
  <1>3. \A c, d \in D : f[c] = f[d] => c = d
    BY <1>1
  <1>4. f \in Injection(D, S)
    BY <1>2, <1>3 DEF Injection, IsInjective
  <1> QED BY <1>4, FS_Injection

LEMMA ThreeApart ==
    ASSUME NEW C, IsFiniteSet(C), NEW R \in SUBSET C, NEW S \in SUBSET C, NEW T \in SUBSET C,
           R \cap S = {}, R \cap T = {}, S \cap T = {}
    PROVE  /\ IsFiniteSet(R) /\ IsFiniteSet(S) /\ IsFiniteSet(T)
           /\ Cardinality(R) \in Nat /\ Cardinality(S) \in Nat /\ Cardinality(T) \in Nat
           /\ Cardinality(C) \in Nat
           /\ Cardinality(R) + Cardinality(S) + Cardinality(T) <= Cardinality(C)
  <1>1. IsFiniteSet(R) /\ IsFiniteSet(S) /\ IsFiniteSet(T)
    BY FS_Subset
  <1>2. IsFiniteSet(R \cup S) /\ Cardinality(R \cup S) = Cardinality(R) + Cardinality(S) - Cardinality(R \cap S)
    BY <1>1, FS_Union
  <1>3. Cardinality((R \cup S) \cup T) = Cardinality(R \cup S) + Cardinality(T) - Cardinality((R \cup S) \cap T)
    BY <1>1, <1>2, FS_Union
  <1>4. Cardinality(R \cap S) = 0 /\ Cardinality((R \cup S) \cap T) = 0
    <2>1. R \cap S = {} /\ (R \cup S) \cap T = {}
      OBVIOUS
    <2>2. Cardinality({}) = 0
      BY FS_EmptySet
    <2> QED BY <2>1, <2>2, Zenon
  <1>5. Cardinality((R \cup S) \cup T) <= Cardinality(C)
    <2>1. (R \cup S) \cup T \in SUBSET C
      OBVIOUS
    <2> QED BY <2>1, FS_Subset
  <1>6. /\ Cardinality(R) \in Nat /\ Cardinality(S) \in Nat /\ Cardinality(T) \in Nat
        /\ Cardinality(C) \in Nat
    BY <1>1, FS_CardinalityType
  <1>7. Cardinality((R \cup S) \cup T) = Cardinality(R) + Cardinality(S) + Cardinality(T)
    <2>1. Cardinality(R \cup S) = Cardinality(R) + Cardinality(S)
      BY <1>2, <1>4, <1>6
    <2>2. Cardinality((R \cup S) \cup T) = Cardinality(R \cup S) + Cardinality(T)
      BY <1>3, <1>4, <1>6, <2>1
    <2> QED BY <2>1, <2>2
  <1> QED BY <1>1, <1>5, <1>6, <1>7

(* Nothing is counted twice. *)
CountsAdd ==
    \A spec :
        /\ IsFiniteSet(Cohort(spec))
        /\ \A b \in BOOLEAN : IsFiniteSet(Deliveries(Cohort(spec), b))
        /\ IsFiniteSet(Losses(Cohort(spec)))
        /\ \A field \in Fields : Counts(spec)[field] \in Nat
        /\ Counts(spec).pending = Counts(spec).generated - Counts(spec).onTime
                                    - Counts(spec).late - Counts(spec).lost

LEMMA OneEntry ==
    ASSUME NEW id, Sole(id)
    PROVE  /\ \A j, k \in DOMAIN delivered : delivered[j].id = id /\ delivered[k].id = id => j = k
           /\ \A j, k \in DOMAIN dropped : dropped[j].id = id /\ dropped[k].id = id => j = k
           /\ \A j \in DOMAIN delivered, k \in DOMAIN dropped : delivered[j].id # id \/ dropped[k].id # id
  <1>1. PICK p : Places(id) = {p}
    BY DEF Sole
  <1>2. \A j \in DOMAIN delivered : delivered[j].id = id => <<"delivered", j>> = p
    BY <1>1, PlacesAre DEF AmongDelivered
  <1>3. \A j \in DOMAIN dropped : dropped[j].id = id => <<"dropped", j>> = p
    BY <1>1, PlacesAre DEF AmongDropped
  <1>4. \A j, k : <<"delivered", j>> = <<"delivered", k>> => j = k
    OBVIOUS
  <1>5. \A j, k : <<"dropped", j>> = <<"dropped", k>> => j = k
    OBVIOUS
  <1>6. \A j, k : <<"delivered", j>> # <<"dropped", k>>
    OBVIOUS
  <1> QED BY <1>2, <1>3, <1>4, <1>5, <1>6

LEMMA CountsAre == FormedIInv => CountsAdd
  <1> SUFFICES ASSUME FormedIInv, NEW spec
               PROVE  /\ IsFiniteSet(Cohort(spec))
                      /\ \A b \in BOOLEAN : IsFiniteSet(Deliveries(Cohort(spec), b))
                      /\ IsFiniteSet(Losses(Cohort(spec)))
                      /\ \A field \in Fields : Counts(spec)[field] \in Nat
                      /\ Counts(spec).pending = Counts(spec).generated - Counts(spec).onTime
                                                  - Counts(spec).late - Counts(spec).lost
    BY DEF CountsAdd
  <1> DEFINE C == Cohort(spec)
             D(b) == Deliveries(C, b)
             L == Losses(C)
             S(b) == {o \in C : \E k \in D(b) : delivered[k].id = o.id}
             T == {o \in C : \E k \in L : dropped[k].id = o.id}
  <1>1. IsFiniteSet(C) /\ C \subseteq generated
    <2>1. IsFiniteSet(generated) /\ C \in SUBSET generated
      BY DEF FormedIInv, Registered, Cohort
    <2> QED BY <2>1, FS_Subset
  <1>2. \A o \in C : Sole(o.id)
    BY <1>1 DEF FormedIInv, MessagesIInv, Conserved
  <1> HIDE DEF C
  <1>3. ASSUME NEW b \in BOOLEAN
        PROVE  IsFiniteSet(D(b)) /\ Cardinality(D(b)) <= Cardinality(S(b))
    <2> DEFINE R == {p \in D(b) \X S(b) : delivered[p[1]].id = p[2].id}
    <2>1. IsFiniteSet(S(b))
      BY <1>1, FS_Subset
    <2>2. \A k \in D(b) : \E o \in S(b) : <<k, o>> \in R
      BY DEF Deliveries
    <2>3. \A j, k \in D(b) : \A o \in S(b) : <<j, o>> \in R /\ <<k, o>> \in R => j = k
      <3>1. SUFFICES ASSUME NEW j \in D(b), NEW k \in D(b), NEW o \in S(b), <<j, o>> \in R, <<k, o>> \in R
                     PROVE  j = k
        OBVIOUS
      <3>2. delivered[j].id = o.id /\ delivered[k].id = o.id
        BY <3>1
      <3>3. j \in DOMAIN delivered /\ k \in DOMAIN delivered /\ Sole(o.id)
        BY <1>2 DEF Deliveries
      <3> QED BY <3>2, <3>3, OneEntry
    <2> HIDE DEF R, D, S
    <2> QED BY <2>1, <2>2, <2>3, NoMore
  <1>4. IsFiniteSet(L) /\ Cardinality(L) <= Cardinality(T)
    <2> DEFINE R == {p \in L \X T : dropped[p[1]].id = p[2].id}
    <2>1. IsFiniteSet(T)
      BY <1>1, FS_Subset
    <2>2. \A k \in L : \E o \in T : <<k, o>> \in R
      BY DEF Losses
    <2>3. \A j, k \in L : \A o \in T : <<j, o>> \in R /\ <<k, o>> \in R => j = k
      <3>1. SUFFICES ASSUME NEW j \in L, NEW k \in L, NEW o \in T, <<j, o>> \in R, <<k, o>> \in R
                     PROVE  j = k
        OBVIOUS
      <3>2. dropped[j].id = o.id /\ dropped[k].id = o.id
        BY <3>1
      <3>3. j \in DOMAIN dropped /\ k \in DOMAIN dropped /\ Sole(o.id)
        BY <1>2 DEF Losses
      <3> QED BY <3>2, <3>3, OneEntry
    <2> HIDE DEF R, L, T
    <2> QED BY <2>1, <2>2, <2>3, NoMore
  <1>5. S(TRUE) \cap S(FALSE) = {}
    <2>1. SUFFICES ASSUME NEW o \in S(TRUE), o \in S(FALSE) PROVE FALSE
      OBVIOUS
    <2>2. PICK j \in D(TRUE) : delivered[j].id = o.id
      BY <2>1
    <2>3. PICK k \in D(FALSE) : delivered[k].id = o.id
      BY <2>1
    <2>4. /\ j \in DOMAIN delivered /\ k \in DOMAIN delivered
          /\ delivered[j].onTime = TRUE /\ delivered[k].onTime = FALSE
      BY DEF Deliveries
    <2>5. Sole(o.id)
      BY <1>2
    <2>6. j = k
      BY <2>2, <2>3, <2>4, <2>5, OneEntry
    <2> QED BY <2>4, <2>6
  <1>6. \A b \in BOOLEAN : S(b) \cap T = {}
    <2>1. SUFFICES ASSUME NEW b \in BOOLEAN, NEW o \in S(b), o \in T PROVE FALSE
      OBVIOUS
    <2>2. PICK j \in D(b) : delivered[j].id = o.id
      BY <2>1
    <2>3. PICK k \in L : dropped[k].id = o.id
      BY <2>1
    <2>4. j \in DOMAIN delivered /\ k \in DOMAIN dropped /\ Sole(o.id)
      BY <1>2 DEF Deliveries, Losses
    <2> QED BY <2>2, <2>3, <2>4, OneEntry
  <1>7. /\ Cardinality(S(TRUE)) \in Nat /\ Cardinality(S(FALSE)) \in Nat /\ Cardinality(T) \in Nat
        /\ Cardinality(C) \in Nat
        /\ Cardinality(S(TRUE)) + Cardinality(S(FALSE)) + Cardinality(T) <= Cardinality(C)
    <2>1. S(TRUE) \in SUBSET C /\ S(FALSE) \in SUBSET C /\ T \in SUBSET C
      OBVIOUS
    <2>2. S(TRUE) \cap T = {} /\ S(FALSE) \cap T = {}
      BY <1>6
    <2> DEFINE A == S(TRUE)
               B == S(FALSE)
    <2> HIDE DEF S, T, A, B
    <2>3. A \in SUBSET C /\ B \in SUBSET C /\ A \cap T = {} /\ B \cap T = {} /\ A \cap B = {}
      BY <1>5, <2>1, <2>2 DEF A, B
    <2>4. /\ Cardinality(A) \in Nat /\ Cardinality(B) \in Nat /\ Cardinality(T) \in Nat
          /\ Cardinality(C) \in Nat
          /\ Cardinality(A) + Cardinality(B) + Cardinality(T) <= Cardinality(C)
      BY <1>1, <2>1, <2>3, ThreeApart
    <2> QED BY <2>4 DEF A, B
  <1> HIDE DEF S, T
  <1> DEFINE g == Cardinality(C)
             x == Cardinality(D(TRUE))
             y == Cardinality(D(FALSE))
             z == Cardinality(L)
  <1>8. g \in Nat /\ x \in Nat /\ y \in Nat /\ z \in Nat /\ x + y + z <= g
    <2>1. x \in Nat /\ y \in Nat /\ z \in Nat
      BY <1>3, <1>4, FS_CardinalityType
    <2>2. x <= Cardinality(S(TRUE)) /\ y <= Cardinality(S(FALSE)) /\ z <= Cardinality(T)
      BY <1>3, <1>4
    <2> HIDE DEF g, x, y, z
    <2>3. g \in Nat /\ Cardinality(S(TRUE)) + Cardinality(S(FALSE)) + Cardinality(T) <= g
      BY <1>7 DEF g
    <2>4. ASSUME NEW a \in Nat, NEW b \in Nat, NEW c \in Nat, x <= a, y <= b, z <= c, a + b + c <= g
          PROVE  x + y + z <= g
      BY <2>1, <2>3, <2>4
    <2> QED BY <1>7, <2>1, <2>2, <2>3, <2>4
  <1>9. Counts(spec) = [generated |-> g, onTime |-> x, late |-> y, lost |-> z, pending |-> g - x - y - z]
    BY DEF Counts, C
  <1>10. IsFiniteSet(C) /\ (\A b \in BOOLEAN : IsFiniteSet(D(b))) /\ IsFiniteSet(L)
    BY <1>1, <1>3, <1>4
  <1> HIDE DEF g, x, y, z, D, L
  <1>11. /\ Counts(spec).generated = g /\ Counts(spec).onTime = x /\ Counts(spec).late = y
         /\ Counts(spec).lost = z /\ Counts(spec).pending = g - x - y - z
    BY <1>9
  <1>12. \A field \in Fields : Counts(spec)[field] \in Nat
    <2>1. g - x - y - z \in Nat
      BY <1>8
    <2> QED BY <1>8, <1>11, <2>1 DEF Fields
  <1>13. Counts(spec).pending = Counts(spec).generated - Counts(spec).onTime
                                  - Counts(spec).late - Counts(spec).lost
    BY <1>11
  <1> QED BY <1>10, <1>12, <1>13 DEF C, D, L

LEMMA CountsAreNext ==
    ASSUME FormedIInv'
    PROVE  CountsAdd'
  <1>1. (FormedIInv => CountsAdd)'
    BY CountsAre, PTL
  <1> QED BY <1>1

LEMMA TalliesAreNext == Tallied'
  BY TalliesAre, PTL

(* The entries so far keep their place. *)
LEMMA EntriesStay ==
    ASSUME NEW s, NEW t, (\E S : s \in Seq(S)), t = s \/ \E x : t = Append(s, x)
    PROVE  \A k \in DOMAIN s : k \in DOMAIN t /\ t[k] = s[k]
  <1>1. PICK S : s \in Seq(S)
    OBVIOUS
  <1>2. ASSUME NEW x, t = Append(s, x) PROVE \A k \in DOMAIN s : k \in DOMAIN t /\ t[k] = s[k]
    BY <1>1, <1>2
  <1> QED BY <1>2

(* Of what was generated earlier, more is delivered and lost, and less is    *)
(* pending.                                                                  *)
LEMMA CountsMove ==
    ASSUME FormedIInv, FormedIInv', LedgerMoves,
           NEW spec, spec.start \in Nat, spec.end \in Int, spec.end < now
    PROVE  /\ Counts(spec)'.generated = Counts(spec).generated
           /\ \A field \in {"onTime", "late", "lost"} : Counts(spec)[field] <= Counts(spec)'[field]
           /\ Counts(spec)'.pending <= Counts(spec).pending
  <1> DEFINE C == Cohort(spec)
             D(b) == Deliveries(C, b)
             L == Losses(C)
  <1>1. CountsAdd /\ CountsAdd' /\ now \in Nat
    BY CountsAre, CountsAreNext DEF FormedIInv, MessagesIInv, WorldIInv, Basics
  <1>2. C' = C
    BY <1>1, CohortStands
  <1>3. /\ \A k \in DOMAIN delivered : k \in DOMAIN delivered' /\ delivered'[k] = delivered[k]
        /\ \A k \in DOMAIN dropped : k \in DOMAIN dropped' /\ dropped'[k] = dropped[k]
    <2>1. (\E S : delivered \in Seq(S)) /\ (\E S : dropped \in Seq(S))
      BY DEF FormedIInv, MessagesIInv, Traced, Listed
    <2>2. delivered' = delivered \/ \E x : delivered' = Append(delivered, x)
      BY DEF LedgerMoves
    <2>3. dropped' = dropped \/ \E x : dropped' = Append(dropped, x)
      BY DEF LedgerMoves
    <2> QED BY <2>1, <2>2, <2>3, EntriesStay
  <1> HIDE DEF C
  <1>4. \A b \in BOOLEAN : D(b) \subseteq D(b)'
    BY <1>2, <1>3 DEF Deliveries
  <1>5. L \subseteq L'
    BY <1>2, <1>3 DEF Losses
  <1>6. /\ \A b \in BOOLEAN : IsFiniteSet(D(b)) /\ IsFiniteSet(D(b)')
        /\ IsFiniteSet(L) /\ IsFiniteSet(L')
    BY <1>1 DEF CountsAdd, C
  <1>7. /\ \A b \in BOOLEAN : Cardinality(D(b)) <= Cardinality(D(b)')
        /\ Cardinality(L) <= Cardinality(L')
    <2>1. \A S, T : IsFiniteSet(T) /\ S \subseteq T => Cardinality(S) <= Cardinality(T)
      BY FS_Subset
    <2>2. ASSUME NEW b \in BOOLEAN PROVE Cardinality(D(b)) <= Cardinality(D(b)')
      <3>1. D(b) \subseteq D(b)' /\ IsFiniteSet(D(b)')
        BY <1>4, <1>6
      <3> HIDE DEF D
      <3> QED BY <2>1, <3>1
    <2>3. Cardinality(L) <= Cardinality(L')
      <3> HIDE DEF L
      <3> QED BY <1>5, <1>6, <2>1
    <2> QED BY <2>2, <2>3
  <1>8. /\ Counts(spec).generated = Cardinality(C) /\ Counts(spec).onTime = Cardinality(D(TRUE))
        /\ Counts(spec).late = Cardinality(D(FALSE)) /\ Counts(spec).lost = Cardinality(L)
    BY DEF Counts, C
  <1>9. /\ Counts(spec)'.generated = Cardinality(C)' /\ Counts(spec)'.onTime = Cardinality(D(TRUE))'
        /\ Counts(spec)'.late = Cardinality(D(FALSE))' /\ Counts(spec)'.lost = Cardinality(L)'
    BY DEF Counts, C
  <1>10. /\ Counts(spec)'.generated = Counts(spec).generated
         /\ Counts(spec).onTime <= Counts(spec)'.onTime
         /\ Counts(spec).late <= Counts(spec)'.late
         /\ Counts(spec).lost <= Counts(spec)'.lost
    BY <1>2, <1>7, <1>8, <1>9
  <1> HIDE DEF D, L
  <1>11. /\ Counts(spec).pending = Counts(spec).generated - Counts(spec).onTime
                                     - Counts(spec).late - Counts(spec).lost
         /\ Counts(spec)'.pending = Counts(spec)'.generated - Counts(spec)'.onTime
                                     - Counts(spec)'.late - Counts(spec)'.lost
    BY <1>1 DEF CountsAdd
  <1>12. \A field \in Fields : Counts(spec)[field] \in Nat /\ Counts(spec)'[field] \in Nat
    BY <1>1 DEF CountsAdd
  <1>13. Counts(spec)'.pending <= Counts(spec).pending
    <2>1. /\ Counts(spec).generated \in Nat /\ Counts(spec).onTime \in Nat /\ Counts(spec).late \in Nat
          /\ Counts(spec).lost \in Nat
          /\ Counts(spec)'.onTime \in Nat /\ Counts(spec)'.late \in Nat /\ Counts(spec)'.lost \in Nat
      BY <1>12 DEF Fields
    <2> QED BY <1>10, <1>11, <2>1
  <1> QED BY <1>10, <1>13

(* The tallies of a service whose windows have closed. *)
LEMMA TalliesMove ==
    ASSUME FormedIInv, FormedIInv', LedgerMoves,
           NEW service, \A spec \in Specs : spec.service = service => spec.end < now
    PROVE  /\ \A field \in Fields : Tally(service)[field] \in Int /\ Tally(service)'[field] \in Int
           /\ Tally(service)'.generated = Tally(service).generated
           /\ \A field \in {"onTime", "late", "lost"} : Tally(service)[field] <= Tally(service)'[field]
           /\ Tally(service)'.pending <= Tally(service).pending
           /\ Tally(service).pending <= 0 => Tally(service)' = Tally(service)
  <1> DEFINE S == SpecsOf(service)
             h(field) == Parts(service, field)
  <1>1. /\ IsFiniteSet(S) /\ CountsAdd /\ CountsAdd' /\ Tallied /\ Tallied'
    <2>1. IsFiniteSet(S)
      BY EvaluationAssumption, FS_Subset DEF SpecsOf
    <2> QED BY <2>1, CountsAre, CountsAreNext, TalliesAre, TalliesAreNext
  <1>2. \A field \in Fields, x \in S :
           /\ h(field)[x] = Counts(x)[field] /\ h(field)'[x] = Counts(x)'[field]
           /\ h(field)[x] \in Nat /\ h(field)'[x] \in Nat
    BY <1>1 DEF Parts, CountsAdd
  <1>3. \A x \in S : x.start \in Nat /\ x.end \in Int /\ x.end < now
    BY EvaluationAssumption DEF SpecsOf
  <1>4. ASSUME NEW x \in S
        PROVE  /\ h("generated")'[x] = h("generated")[x]
               /\ \A field \in {"onTime", "late", "lost"} : h(field)[x] <= h(field)'[x]
               /\ h("pending")'[x] <= h("pending")[x]
    BY <1>2, <1>3, CountsMove DEF Fields
  <1>5. ASSUME NEW field \in Fields
        PROVE  \E f, g : /\ Summed(h(field), S, f) /\ Tally(service)[field] = f[S]
                         /\ Summed(h(field)', S, g) /\ Tally(service)'[field] = g[S]
    <2>1. PICK f : Summed(Parts(service, field), SpecsOf(service), f) /\ Tally(service)[field] = f[SpecsOf(service)]
      BY <1>1 DEF Tallied
    <2>2. PICK g : Summed(Parts(service, field)', SpecsOf(service), g) /\ Tally(service)'[field] = g[SpecsOf(service)]
      BY <1>1 DEF Tallied
    <2> QED BY <2>1, <2>2
  <1> HIDE DEF S
  <1>6. ASSUME NEW field \in Fields, \A x \in S : h(field)[x] <= h(field)'[x]
        PROVE  /\ Tally(service)[field] \in Int /\ Tally(service)'[field] \in Int
               /\ Tally(service)[field] <= Tally(service)'[field]
    <2>1. PICK f, g : /\ Summed(h(field), S, f) /\ Tally(service)[field] = f[S]
                      /\ Summed(h(field)', S, g) /\ Tally(service)'[field] = g[S]
      BY <1>5
    <2>2. PICK a, b : a = h(field) /\ b = h(field)'
      OBVIOUS
    <2>3. \A x \in S : a[x] \in Int /\ b[x] \in Int /\ a[x] <= b[x]
      BY <1>2, <1>6, <2>2
    <2>4. Summed(a, S, f) /\ Summed(b, S, g)
      BY <2>1, <2>2
    <2> HIDE DEF h
    <2>5. f[S] \in Int /\ g[S] \in Int /\ f[S] <= g[S]
      BY <1>1, <2>3, <2>4, SumGrows
    <2> QED BY <2>1, <2>5
  <1>7. ASSUME NEW field \in Fields, \A x \in S : h(field)'[x] <= h(field)[x]
        PROVE  /\ Tally(service)[field] \in Int /\ Tally(service)'[field] \in Int
               /\ Tally(service)'[field] <= Tally(service)[field]
    <2>1. PICK f, g : /\ Summed(h(field), S, f) /\ Tally(service)[field] = f[S]
                      /\ Summed(h(field)', S, g) /\ Tally(service)'[field] = g[S]
      BY <1>5
    <2>2. PICK a, b : a = h(field) /\ b = h(field)'
      OBVIOUS
    <2>3. \A x \in S : a[x] \in Int /\ b[x] \in Int /\ b[x] <= a[x]
      BY <1>2, <1>7, <2>2
    <2>4. Summed(a, S, f) /\ Summed(b, S, g)
      BY <2>1, <2>2
    <2> HIDE DEF h
    <2>5. f[S] \in Int /\ g[S] \in Int /\ g[S] <= f[S]
      BY <1>1, <2>3, <2>4, SumGrows
    <2> QED BY <2>1, <2>5
  <1>8. \A field \in Fields : \A x \in S : h(field)[x] \in Int /\ h(field)'[x] \in Int
    BY <1>2
  <1>9. /\ Tally(service)["generated"] \in Int /\ Tally(service)'["generated"] \in Int
        /\ Tally(service)'["generated"] = Tally(service)["generated"]
    <2>1. \A x \in S : /\ h("generated")[x] <= h("generated")'[x]
                       /\ h("generated")'[x] <= h("generated")[x]
      BY <1>4, <1>8 DEF Fields
    <2>2. "generated" \in Fields
      BY DEF Fields
    <2> HIDE DEF h
    <2>3. PICK a, b : a = Tally(service)["generated"] /\ b = Tally(service)'["generated"]
      OBVIOUS
    <2>4. a \in Int /\ b \in Int /\ a <= b /\ b <= a
      BY <1>6, <1>7, <2>1, <2>2, <2>3
    <2> QED BY <2>3, <2>4
  <1>10. ASSUME NEW field \in {"onTime", "late", "lost"}
         PROVE  /\ Tally(service)[field] \in Int /\ Tally(service)'[field] \in Int
                /\ Tally(service)[field] <= Tally(service)'[field]
    <2>1. field \in Fields
      BY DEF Fields
    <2>2. \A x \in S : h(field)[x] <= h(field)'[x]
      BY <1>4
    <2> QED BY <1>6, <2>1, <2>2
  <1>11. /\ Tally(service)["pending"] \in Int /\ Tally(service)'["pending"] \in Int
         /\ Tally(service)'["pending"] <= Tally(service)["pending"]
    <2>1. "pending" \in Fields
      BY DEF Fields
    <2>2. \A x \in S : h("pending")'[x] <= h("pending")[x]
      BY <1>4
    <2> QED BY <1>7, <2>1, <2>2
  <1>12. ASSUME Tally(service)["pending"] <= 0
         PROVE  \A field \in Fields : Tally(service)'[field] = Tally(service)[field]
    <2>1. \A x \in S : h("pending")[x] = 0
      <3>1. "pending" \in Fields
        BY DEF Fields
      <3>2. PICK f : Summed(h("pending"), S, f) /\ Tally(service)["pending"] = f[S]
        BY <1>5, <3>1
      <3>3. PICK a : a = h("pending")
        OBVIOUS
      <3>4. \A x \in S : a[x] \in Nat
        BY <1>2, <3>1, <3>3
      <3>5. Summed(a, S, f) /\ f[S] <= 0
        BY <1>12, <3>2, <3>3
      <3> HIDE DEF h
      <3>6. \A x \in S : a[x] = 0
        BY <1>1, <3>4, <3>5, SumOfNone
      <3> QED BY <3>3, <3>6
    <2>2. ASSUME NEW x \in S
          PROVE  \A field \in Fields : h(field)'[x] = h(field)[x]
      <3>1. Counts(x).pending = 0
        BY <1>2, <2>1 DEF Fields
      <3>2. /\ Counts(x).pending = Counts(x).generated - Counts(x).onTime - Counts(x).late - Counts(x).lost
            /\ Counts(x)'.pending = Counts(x)'.generated - Counts(x)'.onTime - Counts(x)'.late - Counts(x)'.lost
            /\ \A field \in Fields : Counts(x)[field] \in Nat /\ Counts(x)'[field] \in Nat
        BY <1>1 DEF CountsAdd
      <3>3. /\ Counts(x)'.generated = Counts(x).generated
            /\ \A field \in {"onTime", "late", "lost"} : Counts(x)[field] <= Counts(x)'[field]
        BY <1>3, CountsMove
      <3>4. ASSUME NEW g \in Nat, NEW a \in Nat, NEW b \in Nat, NEW c \in Nat, NEW d \in Nat,
                   NEW i \in Nat, NEW j \in Nat, NEW k \in Nat,
                   0 = g - a - b - c, d = g - i - j - k, a <= i, b <= j, c <= k
            PROVE  d = 0 /\ i = a /\ j = b /\ k = c
        BY <3>4
      <3>5. /\ Counts(x)'.pending = 0 /\ Counts(x)'.onTime = Counts(x).onTime
            /\ Counts(x)'.late = Counts(x).late /\ Counts(x)'.lost = Counts(x).lost
        BY <3>1, <3>2, <3>3, <3>4 DEF Fields
      <3>6. \A field \in Fields : Counts(x)'[field] = Counts(x)[field]
        BY <3>1, <3>3, <3>5 DEF Fields
      <3> QED BY <1>2, <3>6
    <2>3. ASSUME NEW field \in Fields PROVE Tally(service)'[field] = Tally(service)[field]
      <3>1. \A x \in S : h(field)[x] <= h(field)'[x] /\ h(field)'[x] <= h(field)[x]
        BY <1>8, <2>2
      <3> HIDE DEF h
      <3>2. PICK a, b : a = Tally(service)[field] /\ b = Tally(service)'[field]
        OBVIOUS
      <3>3. a \in Int /\ b \in Int /\ a <= b /\ b <= a
        BY <1>6, <1>7, <3>1, <3>2
      <3> QED BY <3>2, <3>3
    <2> QED BY <2>3
  <1>13. ASSUME \A field \in Fields : Tally(service)'[field] = Tally(service)[field]
         PROVE  Tally(service)' = Tally(service)
    <2>1. /\ Tally(service) = [field \in Fields |-> Tally(service)[field]]
          /\ Tally(service)' = [field \in Fields |-> Tally(service)'[field]]
      BY DEF Tally, Fields
    <2> QED BY <1>13, <2>1
  <1>14. \A field \in Fields : Tally(service)[field] \in Int /\ Tally(service)'[field] \in Int
    BY <1>9, <1>10, <1>11 DEF Fields
  <1> HIDE DEF h
  <1> QED BY <1>9, <1>10, <1>11, <1>12, <1>13, <1>14

-------------------------------------------------------------------------------
(* The verdicts: a step of VerdictStands.                                    *)
VerdictStep ==
    ledger' # ledger =>
       \A r \in Requirements :
           /\ \A spec \in Specs : spec.service = r.service => spec.end <= Reached
           /\ Judge(r) # "inconclusive" /\ Robust(r)
           => Judge(r)' = Judge(r)

LEMMA VerdictSteps ==
    ASSUME FormedIInv, FormedIInv', [Next]_vars
    PROVE  VerdictStep
  <1> SUFFICES ASSUME ledger' # ledger, NEW r \in Requirements,
                      \A spec \in Specs : spec.service = r.service => spec.end <= Reached,
                      Judge(r) # "inconclusive", Robust(r)
               PROVE  Judge(r)' = Judge(r)
    BY DEF VerdictStep
  <1> DEFINE s == Tally(r.service)
             t == Tally(r.service)'
             m == Numerator(r.metric, s)
             n == Numerator(r.metric, t)
             bound == r.threshold * s.generated
  <1>1. now \in Nat /\ LedgerMoves
    BY LedgerSteps DEF FormedIInv, MessagesIInv, WorldIInv, Basics
  <1>2. \A spec \in Specs : spec.service = r.service => spec.end < now
    <2>1. Reached = now - 1
      BY <1>1 DEF LedgerMoves, Reached
    <2> QED BY <1>1, <2>1, EvaluationAssumption
  <1>3. /\ \A field \in Fields : s[field] \in Int /\ t[field] \in Int
        /\ t.generated = s.generated
        /\ \A field \in {"onTime", "late", "lost"} : s[field] <= t[field]
        /\ t.pending <= s.pending
        /\ s.pending <= 0 => t = s
    <2>1. PICK service : service = r.service
      OBVIOUS
    <2>2. \A spec \in Specs : spec.service = service => spec.end < now
      BY <1>2, <2>1
    <2>3. /\ \A field \in Fields : Tally(service)[field] \in Int /\ Tally(service)'[field] \in Int
          /\ Tally(service)'.generated = Tally(service).generated
          /\ \A field \in {"onTime", "late", "lost"} : Tally(service)[field] <= Tally(service)'[field]
          /\ Tally(service)'.pending <= Tally(service).pending
          /\ Tally(service).pending <= 0 => Tally(service)' = Tally(service)
      BY <1>1, <2>2, TalliesMove
    <2> QED BY <2>1, <2>3
  <1>4. r.threshold \in Nat /\ r.missing \in Nat
    BY EvaluationAssumption
  <1>5. Judge(r) = IF \/ s.generated = 0
                      \/ 100 * s.pending > r.missing * s.generated
                   THEN "inconclusive"
                   ELSE IF (r.comparator = "ge" /\ 100 * m >= bound) \/ (r.comparator = "le" /\ 100 * m <= bound)
                   THEN "met" ELSE "violated"
    BY DEF Judge
  <1>6. Judge(r)' = IF \/ t.generated = 0
                       \/ 100 * t.pending > r.missing * t.generated
                    THEN "inconclusive"
                    ELSE IF (r.comparator = "ge" /\ 100 * n >= r.threshold * t.generated)
                            \/ (r.comparator = "le" /\ 100 * n <= r.threshold * t.generated)
                    THEN "met" ELSE "violated"
    BY DEF Judge, Numerator
  <1> HIDE DEF s, t
  <1>7. /\ s.generated \in Int /\ s.pending \in Int /\ t.pending \in Int
        /\ s.onTime \in Int /\ s.late \in Int /\ s.lost \in Int
        /\ t.onTime \in Int /\ t.late \in Int /\ t.lost \in Int
        /\ s.onTime <= t.onTime /\ s.late <= t.late /\ s.lost <= t.lost
    BY <1>3 DEF Fields
  <1>8. s.generated # 0 /\ ~(100 * s.pending > r.missing * s.generated)
    BY <1>5
  <1>9. CASE r.missing = 0
    <2>1. s.pending <= 0
      <3>1. PICK p \in Int, g \in Int : p = s.pending /\ g = s.generated
        BY <1>7
      <3>2. ~(100 * p > 0 * g)
        BY <1>8, <1>9, <3>1
      <3>3. p <= 0
        BY <3>2
      <3> QED BY <3>1, <3>3
    <2>2. t = s
      BY <1>3, <2>1
    <2> QED BY <1>5, <1>6, <2>2
  <1>10. ~(100 * t.pending > r.missing * t.generated)
    <2>1. PICK p \in Int, q \in Int, c \in Int : p = s.pending /\ q = t.pending /\ c = r.missing * s.generated
      BY <1>4, <1>7
    <2>2. q <= p /\ ~(100 * p > c)
      BY <1>3, <1>8, <2>1
    <2>3. ~(100 * q > c)
      BY <2>2
    <2> QED BY <1>3, <2>1, <2>3
  <1>11. bound \in Int /\ r.threshold * t.generated = bound
    BY <1>3, <1>4, <1>7
  <1>12. CASE r.comparator = "ge" /\ r.metric = "within_age_delivery" /\ Judge(r) = "met"
    <2>1. m = s.onTime /\ n = t.onTime
      BY <1>12 DEF Numerator
    <2>2. 100 * m >= bound
      BY <1>5, <1>8, <1>12
    <2> HIDE DEF bound, m, n
    <2>3. 100 * n >= bound
      BY <1>7, <1>11, <2>1, <2>2
    <2> QED BY <1>3, <1>6, <1>8, <1>10, <1>11, <1>12, <2>3
  <1>13. CASE r.comparator = "le" /\ r.metric \in {"late_delivery", "loss"} /\ Judge(r) = "violated"
    <2>1. m \in Int /\ n \in Int /\ m <= n
      BY <1>7, <1>13 DEF Numerator
    <2>2. ~(100 * m <= bound)
      BY <1>5, <1>8, <1>13
    <2> HIDE DEF bound, m, n
    <2>3. ~(100 * n <= bound)
      BY <1>11, <2>1, <2>2
    <2> QED BY <1>3, <1>6, <1>8, <1>10, <1>11, <1>13, <2>3
  <1> QED BY <1>9, <1>12, <1>13 DEF Robust

(* Once the windows of a service have closed, a verdict that tolerates no    *)
(* missing demand stands at any later time, and so does one that more        *)
(* deliveries or losses can only confirm.                                    *)
THEOREM VerdictsStand == Spec => VerdictStands
  <1>1. Init => FormedIInv
    BY FormedStart
  <1>2. FormedIInv /\ [Next]_vars => FormedIInv'
    BY FormedKept
  <1>3. FormedIInv /\ FormedIInv' /\ [Next]_vars => [VerdictStep]_vars
    BY VerdictSteps
  <1>4. Spec => [][VerdictStep]_vars
    BY <1>1, <1>2, <1>3, PTL DEF Spec
  <1> QED BY <1>4 DEF VerdictStands, VerdictStep

-------------------------------------------------------------------------------
(* How long services take.                                                   *)

(* A quotient is the greatest number that fits. *)
LEMMA GreatestFits ==
    ASSUME NEW n \in Nat, NEW d \in Nat \ {0}
    PROVE  /\ n \div d \in Nat /\ d * (n \div d) <= n
           /\ \A q \in Nat : d * q <= n => q <= n \div d
  <1> DEFINE m == n \div d
  <1>1. m \in Nat /\ n = d * m + (n % d) /\ n % d \in 0 .. d - 1
    OBVIOUS
  <1>2. PICK rest \in 0 .. d - 1 : n = d * m + rest
    BY <1>1
  <1> HIDE DEF m
  <1>3. d * m <= n
    <2>1. d * m \in Nat
      BY <1>1
    <2> QED BY <1>2, <2>1
  <1>4. ASSUME NEW q \in Nat, d * q <= n PROVE q <= m
    <2>1. SUFFICES ASSUME q >= m + 1 PROVE FALSE
      BY <1>1
    <2>2. d * q >= d * (m + 1)
      BY <1>1, <2>1
    <2>3. d * (m + 1) = d * m + d
      BY <1>1
    <2>4. d * m \in Nat /\ d * q \in Nat
      BY <1>1
    <2> QED BY <1>2, <1>4, <2>2, <2>3, <2>4
  <1> QED BY <1>1, <1>3, <1>4 DEF m

(* More rate is less time. *)
LEMMA Faster ==
    ASSUME NEW n \in Nat, NEW c \in Nat \ {0}, NEW d \in Nat \ {0}, c <= d
    PROVE  n \div d <= n \div c
  <1> DEFINE q == n \div d
  <1>1. q \in Nat /\ d * q <= n
    BY GreatestFits
  <1> HIDE DEF q
  <1>2. c * q <= d * q
    BY <1>1
  <1>3. c * q \in Nat /\ d * q \in Nat
    BY <1>1
  <1>4. c * q <= n
    BY <1>1, <1>2, <1>3
  <1>5. q <= n \div c
    BY <1>1, <1>4, GreatestFits
  <1> QED BY <1>5 DEF q

LEMMA ServesWithin ==
    /\ Slowest \in Nat /\ Sluggish \in Nat
    /\ \A r \in Rates : r > 0 => /\ Size["probe"] \div r <= Slowest
                                 /\ Size["response"] \div r <= Sluggish
  <1> DEFINE R == Rates \ {0}
             Times == {Size["probe"] \div r : r \in R}
  <1>0. Size["probe"] \in Nat /\ Size["response"] \in Nat
    BY WorldAssumption
  <1>1. R \subseteq Nat \ {0} /\ R # {}
    <2>1. Capacity["egress"] \in Rates /\ Capacity["egress"] # 0
      BY EvaluationAssumption DEF Rates
    <2> QED BY <2>1, RatesAreNumbers
  <1>2. PICK least \in R : \A r \in R : least <= r
    <2> HIDE DEF R
    <2> QED BY <1>1, LeastNumber
  <1> HIDE DEF R
  <1>3. Times \subseteq Nat /\ Times # {}
    BY <1>0, <1>1, Division
  <1>4. \A t \in Times : t <= Size["probe"] \div least
    <2>1. ASSUME NEW r \in R PROVE Size["probe"] \div r <= Size["probe"] \div least
      BY <1>0, <1>1, <1>2, Faster
    <2> QED BY <2>1
  <1>5. Size["probe"] \div least \in Times
    BY <1>2
  <1> HIDE DEF Times
  <1>6. PICK most \in Times : \A t \in Times : t <= most
    BY <1>4, <1>5
  <1>7. Max(Times) \in Times /\ \A t \in Times : t <= Max(Times)
    BY <1>3, <1>6 DEF Max
  <1>8. Min(R) \in R /\ \A r \in R : Min(R) <= r
    BY <1>1, <1>2 DEF Min
  <1>9. Slowest = Max(Times) /\ Sluggish = Size["response"] \div Min(R)
    BY DEF Slowest, Sluggish, Times, R
  <1>10. Slowest \in Nat /\ Sluggish \in Nat
    BY <1>0, <1>1, <1>3, <1>7, <1>8, <1>9, Division
  <1>11. ASSUME NEW r \in Rates, r > 0
         PROVE  Size["probe"] \div r <= Slowest /\ Size["response"] \div r <= Sluggish
    <2>1. r \in R
      BY <1>11 DEF R
    <2>2. Size["probe"] \div r \in Times
      BY <2>1 DEF Times
    <2>3. Size["response"] \div r <= Size["response"] \div Min(R)
      BY <1>0, <1>1, <1>8, <2>1, Faster
    <2> QED BY <1>7, <1>9, <2>2, <2>3
  <1> QED BY <1>10, <1>11

(* Numbers of this world. *)
LEMMA EgressServes ==
    ASSUME world \in Worlds
    PROVE  /\ world.limit \in Nat /\ EgressWait \in Nat /\ Capacity["egress"] \in Nat \ {0}
           /\ \A s, t \in Int :
                 Capacity["egress"] * s <= Capacity["egress"] * t + world.limit => s <= t + EgressWait
  <1>1. world.limit \in Nat /\ Capacity["egress"] \in Nat \ {0}
    BY WorldAssumption, EvaluationAssumption
  <1> DEFINE c == Capacity["egress"]
             n == world.limit
  <1>2. EgressWait = n \div c
    BY DEF EgressWait
  <1>3. c \in Nat \ {0} /\ n \in Nat
    BY <1>1
  <1> HIDE DEF c, n
  <1>4. n \div c \in Nat
    BY <1>3, Division
  <1>5. ASSUME NEW s \in Int, NEW t \in Int, c * s <= c * t + n PROVE s <= t + (n \div c)
    <2>1. CASE s <= t
      BY <1>4, <2>1
    <2>2. CASE s > t
      <3>1. PICK d \in Nat : s = t + d
        <4>1. s - t \in Nat /\ s = t + (s - t)
          BY <2>2
        <4> QED BY <4>1
      <3>2. c * s = c * t + c * d
        BY <1>3, <3>1
      <3>3. c * t \in Int /\ c * d \in Nat
        BY <1>3, <3>1
      <3>4. c * d <= n
        BY <1>3, <1>5, <3>2, <3>3
      <3>5. d <= n \div c
        BY <1>3, <3>1, <3>4, GreatestFits
      <3> QED BY <1>4, <3>1, <3>5
    <2> QED BY <2>1, <2>2
  <1> QED BY <1>1, <1>2, <1>4, <1>5 DEF c, n

-------------------------------------------------------------------------------
(* The bytes of the first packets of a queue.                                *)

LEMMA FirstIsSequence ==
    ASSUME NEW S, NEW s \in Seq(S), NEW n \in 0 .. Len(s)
    PROVE  /\ FirstOf(s, n) \in Seq(S) /\ Len(FirstOf(s, n)) = n
           /\ \A i \in 1 .. n : FirstOf(s, n)[i] = s[i]
  BY DEF FirstOf

LEMMA FirstAll ==
    ASSUME NEW S, NEW s \in Seq(S)
    PROVE  FirstOf(s, Len(s)) = s
  BY DEF FirstOf

LEMMA FirstAppended ==
    ASSUME NEW S, NEW s \in Seq(S), NEW w \in S, NEW n \in 0 .. Len(s)
    PROVE  FirstOf(Append(s, w), n) = FirstOf(s, n)
  <1>1. \A i \in 1 .. n : Append(s, w)[i] = s[i]
    OBVIOUS
  <1> QED BY <1>1 DEF FirstOf

LEMMA FirstServed ==
    ASSUME NEW S, NEW s \in Seq(S), s # <<>>, \A w \in S : SizeOf(w.packet) \in Nat,
           NEW n \in 0 .. Len(Tail(s))
    PROVE  /\ BytesOf(FirstOf(s, n + 1)) = SizeOf(Head(s).packet) + BytesOf(FirstOf(Tail(s), n))
           /\ BytesOf(FirstOf(Tail(s), n)) \in Nat
  <1> DEFINE first == FirstOf(s, n + 1)
             rest == FirstOf(Tail(s), n)
  <1>1. /\ n + 1 \in 0 .. Len(s) /\ Tail(s) \in Seq(S) /\ n \in Nat
        /\ Head(s) = s[1] /\ \A i \in 1 .. n : Tail(s)[i] = s[i + 1]
    OBVIOUS
  <1>2. /\ first \in Seq(S) /\ Len(first) = n + 1 /\ \A i \in 1 .. n + 1 : first[i] = s[i]
    BY <1>1, FirstIsSequence
  <1>3. /\ rest \in Seq(S) /\ Len(rest) = n /\ \A i \in 1 .. n : rest[i] = Tail(s)[i]
    BY <1>1, FirstIsSequence
  <1> HIDE DEF first, rest
  <1>4. first # <<>> /\ Head(first) = Head(s)
    BY <1>1, <1>2
  <1>5. Tail(first) = rest
    <2>1. Tail(first) \in Seq(S) /\ Len(Tail(first)) = n /\ \A i \in 1 .. n : Tail(first)[i] = first[i + 1]
      BY <1>1, <1>2, <1>4
    <2>2. ASSUME NEW i \in 1 .. n PROVE Tail(first)[i] = rest[i]
      <3>1. i + 1 \in 1 .. n + 1 /\ Tail(first)[i] = first[i + 1] /\ rest[i] = Tail(s)[i]
        <4>1. Tail(first)[i] = first[i + 1]
          BY <2>1
        <4>2. n \in Nat
          BY <1>1
        <4>3. i + 1 \in 1 .. n + 1
          BY <4>2
        <4>4. rest[i] = Tail(s)[i]
          BY <1>3
        <4> QED BY <4>1, <4>3, <4>4
      <3> QED BY <1>1, <1>2, <3>1
    <2> DEFINE other == Tail(first)
    <2>3. /\ other \in Seq(S) /\ Len(other) = n /\ \A i \in 1 .. n : other[i] = rest[i]
      BY <2>1, <2>2
    <2> HIDE DEF other
    <2>4. other = rest
      BY <1>1, <1>3, <2>3
    <2> QED BY <2>4 DEF other
  <1>6. BytesOf(first) = SizeOf(Head(first).packet) + BytesOf(Tail(first)) /\ BytesOf(Tail(first)) \in Nat
    BY <1>2, <1>4, BytesServed
  <1> QED BY <1>4, <1>5, <1>6 DEF first, rest

LEMMA FirstOne ==
    ASSUME NEW S, NEW s \in Seq(S), s # <<>>, \A w \in S : SizeOf(w.packet) \in Nat
    PROVE  BytesOf(FirstOf(s, 1)) = SizeOf(Head(s).packet)
  <1>1. 0 \in 0 .. Len(Tail(s)) /\ Tail(s) \in Seq(S) /\ Head(s) \in S
    OBVIOUS
  <1>2. BytesOf(FirstOf(s, 0 + 1)) = SizeOf(Head(s).packet) + BytesOf(FirstOf(Tail(s), 0))
    BY <1>1, FirstServed
  <1>3. FirstOf(Tail(s), 0) = <<>>
    <2>1. FirstOf(Tail(s), 0) \in Seq(S) /\ Len(FirstOf(Tail(s), 0)) = 0
      BY <1>1, FirstIsSequence
    <2> QED BY <2>1
  <1>4. SizeOf(Head(s).packet) \in Nat
    BY <1>1
  <1> QED BY <1>2, <1>3, <1>4, NoBytes

-------------------------------------------------------------------------------
(* Probes, as far as their evidence goes.                                    *)

ProbesTyped ==
    probes \in [SiteSet \X LegSet ->
                  [sent : SUBSET Nat, last : {<<>>} \cup (Nat \X Int), answered : Nat, timedOut : Nat]]

(* What a step does to the evidence there is of a leg. *)
Heeds(e) ==
    \A leg \in SiteSet \X LegSet :
        \/ probes'[leg].last = probes[leg].last
        \/ /\ e.kind = "answered" /\ leg = <<e.data.packet.site, e.data.packet.route[1][2]>>
           /\ probes'[leg].last[1] = now

LEMMA ProbesCount ==
    ASSUME FormedIInv, ProbesTyped, NEW e \in calendar, Probe(e)
    PROVE  ProbesTyped' /\ Heeds(e)
  <1> DEFINE leg == <<e.data.site, e.data.leg>>
  <1>1. PICK id \in Nat : probes' = [probes EXCEPT ![leg].sent = @ \cup {id}]
    <2>1. counter + 1 \in Nat
      BY DEF FormedIInv, MessagesIInv, WorldIInv, Basics
    <2>2. probes' = [probes EXCEPT ![leg].sent = @ \cup {counter + 1}]
      BY DEF Probe, Packet
    <2> QED BY <2>1, <2>2, Zenon
  <1> HIDE DEF leg
  <1> QED BY <1>1, Zenon DEF ProbesTyped, Heeds

LEMMA AnswersCount ==
    ASSUME FormedIInv, ProbesTyped, NEW e \in calendar, Answered(e)
    PROVE  ProbesTyped' /\ Heeds(e)
  <1> DEFINE leg == <<e.data.packet.site, e.data.packet.route[1][2]>>
             id == e.data.packet.id
             old == probes[leg]
             rtt == now - e.data.packet.generated
             new == IF id \notin old.sent THEN old
                    ELSE IF rtt <= ProbeTimeout
                         THEN [old EXCEPT !.sent = @ \ {id}, !.answered = @ + 1, !.last = <<now, rtt>>]
                         ELSE [old EXCEPT !.sent = @ \ {id}, !.timedOut = @ + 1]
  <1>0. e.kind = "answered"
    BY DEF Answered, Due
  <1>1. probes' = [probes EXCEPT ![leg] = new]
    BY DEF Answered
  <1>2. now \in Nat /\ rtt \in Int
    <2>1. e.data.packet \in Carried /\ now \in Nat
      <3>1. Ready(e) /\ now \in Nat
        BY WorldAssumption DEF FormedIInv, MessagesIInv, WorldIInv, Basics, Events
      <3> QED BY <1>0, <3>1 DEF Ready, Payload
    <2> QED BY <2>1 DEF Carried, Packets
  <1>3. CASE leg \notin SiteSet \X LegSet
    <2>1. probes' = probes
      <3> HIDE DEF leg, new
      <3> QED BY <1>1, <1>3 DEF ProbesTyped
    <2> QED BY <2>1 DEF ProbesTyped, Heeds
  <1>4. CASE leg \in SiteSet \X LegSet
    <2>1. old \in [sent : SUBSET Nat, last : {<<>>} \cup (Nat \X Int), answered : Nat, timedOut : Nat]
      <3> HIDE DEF leg
      <3> QED BY <1>4 DEF ProbesTyped
    <2>2. /\ new \in [sent : SUBSET Nat, last : {<<>>} \cup (Nat \X Int), answered : Nat, timedOut : Nat]
          /\ new.last = old.last \/ new.last[1] = now
      <3> HIDE DEF leg, old, id, rtt
      <3>1. CASE id \notin old.sent
        BY <2>1, <3>1
      <3>2. CASE id \in old.sent /\ rtt <= ProbeTimeout
        <4>1. new = [old EXCEPT !.sent = @ \ {id}, !.answered = @ + 1, !.last = <<now, rtt>>]
          BY <3>2
        <4>2. <<now, rtt>> \in Nat \X Int /\ <<now, rtt>>[1] = now
          BY <1>2
        <4>3. new = [sent |-> old.sent \ {id}, last |-> <<now, rtt>>,
                     answered |-> old.answered + 1, timedOut |-> old.timedOut]
          <5> HIDE DEF new
          <5> QED BY <2>1, <4>1
        <4>4. new.last = <<now, rtt>>
          <5> HIDE DEF new
          <5> QED BY <4>3
        <4> HIDE DEF new
        <4>5. /\ old.sent \ {id} \in SUBSET Nat /\ old.answered + 1 \in Nat /\ old.timedOut \in Nat
          BY <2>1
        <4>6. new \in [sent : SUBSET Nat, last : {<<>>} \cup (Nat \X Int), answered : Nat, timedOut : Nat]
          BY <4>2, <4>3, <4>5
        <4> QED BY <4>2, <4>4, <4>6
      <3>3. CASE id \in old.sent /\ ~(rtt <= ProbeTimeout)
        <4>1. new = [old EXCEPT !.sent = @ \ {id}, !.timedOut = @ + 1]
          BY <3>3
        <4> HIDE DEF new
        <4>2. new = [sent |-> old.sent \ {id}, last |-> old.last,
                     answered |-> old.answered, timedOut |-> old.timedOut + 1]
          BY <2>1, <4>1
        <4>3. old.sent \ {id} \in SUBSET Nat /\ old.timedOut + 1 \in Nat
          BY <2>1
        <4> QED BY <2>1, <4>2, <4>3
      <3> QED BY <3>1, <3>2, <3>3
    <2>3. /\ probes'[leg] = new
          /\ \A other \in SiteSet \X LegSet : other # leg => probes'[other] = probes[other]
      <3> HIDE DEF leg, new
      <3> QED BY <1>1, <1>4 DEF ProbesTyped
    <2>4. ProbesTyped'
      <3> HIDE DEF leg, new
      <3> QED BY <1>1, <2>2 DEF ProbesTyped
    <2>5. ASSUME NEW other \in SiteSet \X LegSet, probes'[other].last # probes[other].last
          PROVE  other = leg /\ probes'[other].last[1] = now
      <3> HIDE DEF leg, new
      <3> QED BY <2>2, <2>3, <2>5 DEF old
    <2> QED BY <1>0, <2>4, <2>5 DEF Heeds
  <1> QED BY <1>3, <1>4

-------------------------------------------------------------------------------
(* The steps there are, as far as evidence is concerned.                     *)

(* Any handler but that of a service. *)
Handling(e) ==
    /\ e.at = now /\ Handles(e) /\ now' = now /\ world' = world
    /\ ProbesTyped' /\ Heeds(e)
    /\ Disturb(e) \/ (SameRates /\ impairments' = impairments)
    /\ Deliver(e) \/ delivered' = delivered

(* A command, or nothing. *)
Leaves ==
    /\ UNCHANGED <<world, now, calendar, queue, probes, impairments, delivered, generated>>
    /\ \A site \in SiteSet : pathVersion'[site] = 0 => pathVersion[site] = 0

LEMMA ProbesStay ==
    ASSUME ProbesTyped, probes' = probes, NEW e
    PROVE  ProbesTyped' /\ Heeds(e)
  BY DEF ProbesTyped, Heeds

LEMMA HandlingIs ==
    ASSUME FormedIInv, ProbesTyped, NEW e \in calendar,
           \/ GenerateRequest(e) \/ GenerateReading(e) \/ Release(e) \/ Respond(e)
           \/ Hop(e) \/ Deliver(e) \/ Probe(e) \/ Echo(e) \/ Answered(e) \/ Disturb(e)
    PROVE  Handling(e)
  <1>1. CASE GenerateRequest(e)
    <2>1. e.at = now /\ impairments' = impairments /\ probes' = probes /\ delivered' = delivered
      BY <1>1 DEF GenerateRequest, Due, legs
    <2> QED BY <1>1, <2>1, RequestHandles, ProbesStay DEF Handling
  <1>2. CASE GenerateReading(e)
    <2>1. e.at = now /\ impairments' = impairments /\ probes' = probes /\ delivered' = delivered
      BY <1>2 DEF GenerateReading, Due, legs
    <2> QED BY <1>2, <2>1, ReadingHandles, ProbesStay DEF Handling
  <1>3. CASE Release(e)
    <2>1. e.at = now /\ impairments' = impairments /\ probes' = probes /\ delivered' = delivered
      BY <1>3 DEF Release, Due, legs
    <2> QED BY <1>3, <2>1, ReleaseHandles, ProbesStay DEF Handling
  <1>4. CASE Respond(e)
    <2>1. e.at = now /\ impairments' = impairments /\ probes' = probes /\ delivered' = delivered
      BY <1>4 DEF Respond, Due, legs
    <2> QED BY <1>4, <2>1, RespondHandles, ProbesStay DEF Handling
  <1>5. CASE Hop(e)
    <2>1. e.at = now /\ impairments' = impairments /\ probes' = probes /\ delivered' = delivered
      BY <1>5 DEF Hop, Due, legs
    <2> QED BY <1>5, <2>1, HopHandles, ProbesStay DEF Handling
  <1>6. CASE Deliver(e)
    <2>1. e.at = now /\ impairments' = impairments /\ probes' = probes
      BY <1>6 DEF Deliver, Due, legs
    <2> QED BY <1>6, <2>1, DeliverHandles, ProbesStay DEF Handling
  <1>7. CASE Probe(e)
    <2>1. e.at = now /\ impairments' = impairments /\ delivered' = delivered
      BY <1>7 DEF Probe, Due, legs
    <2> QED BY <1>7, <2>1, ProbeHandles, ProbesCount DEF Handling
  <1>8. CASE Echo(e)
    <2>1. e.at = now /\ impairments' = impairments /\ probes' = probes /\ delivered' = delivered
      BY <1>8 DEF Echo, Due, legs
    <2> QED BY <1>8, <2>1, EchoHandles, ProbesStay DEF Handling
  <1>9. CASE Answered(e)
    <2>1. e.at = now /\ impairments' = impairments /\ delivered' = delivered
      BY <1>9 DEF Answered, Due, legs, ledger
    <2> QED BY <1>9, <2>1, AnsweredHandles, AnswersCount DEF Handling
  <1>10. CASE Disturb(e)
    <2>1. e.at = now /\ probes' = probes /\ delivered' = delivered
      BY <1>10 DEF Disturb, Due, ledger
    <2> QED BY <1>10, <2>1, DisturbHandles, ProbesStay DEF Handling
  <1> QED BY <1>1, <1>2, <1>3, <1>4, <1>5, <1>6, <1>7, <1>8, <1>9, <1>10

LEMMA StepsAre ==
    ASSUME FormedIInv, ProbesTyped, [Next]_vars
    PROVE  \/ Tick
           \/ Leaves
           \/ \E e \in calendar : Handling(e)
           \/ \E e \in calendar : Serviced(e)
  <1>1. ASSUME NEW e \in calendar,
               \/ GenerateRequest(e) \/ GenerateReading(e) \/ Release(e) \/ Respond(e)
               \/ Hop(e) \/ Deliver(e) \/ Probe(e) \/ Echo(e) \/ Answered(e) \/ Disturb(e)
        PROVE  Handling(e)
    BY <1>1, HandlingIs
  <1>2. ASSUME NEW site \in SiteSet, NEW expected \in 0 .. MaxCommands, NEW leg \in LegSet,
               SelectPath(site, leg, expected)
        PROVE  Leaves
    <2>1. /\ UNCHANGED <<world, now, calendar, queue, probes, impairments, delivered, generated>>
          /\ pathVersion' = [pathVersion EXCEPT ![site] = @ + 1]
      BY <1>2 DEF SelectPath, ledger, legs
    <2>2. pathVersion \in [SiteSet -> 0 .. MaxCommands]
      BY DEF FormedIInv, MessagesIInv, WorldIInv, Basics
    <2>3. \A other \in SiteSet : pathVersion'[other] = 0 => pathVersion[other] = 0
      <3>1. pathVersion[site] + 1 # 0
        BY <2>2, WorldAssumption
      <3> QED BY <2>1, <2>2, <3>1
    <2> QED BY <2>1, <2>3 DEF Leaves
  <1>3. ASSUME NEW site \in SiteSet, NEW expected \in 0 .. MaxCommands, NEW profile \in Profiles,
               SetAmiPacing(site, profile, expected)
        PROVE  Leaves
    BY <1>3 DEF SetAmiPacing, ledger, legs, Leaves
  <1>4. ASSUME UNCHANGED vars PROVE Leaves
    BY <1>4 DEF vars, ledger, legs, actuators, Leaves
  <1>5. ASSUME Next
        PROVE  \/ Tick
               \/ \E e \in calendar :
                    \/ GenerateRequest(e) \/ GenerateReading(e) \/ Release(e) \/ Respond(e)
                    \/ Hop(e) \/ Deliver(e) \/ Probe(e) \/ Echo(e) \/ Answered(e) \/ Disturb(e)
               \/ \E e \in calendar : Serviced(e)
               \/ \E site \in SiteSet, expected \in 0 .. MaxCommands :
                    \/ \E leg \in LegSet : SelectPath(site, leg, expected)
                    \/ \E profile \in Profiles : SetAmiPacing(site, profile, expected)
    BY <1>5, Zenon DEF Next, Advance
  <1> QED BY <1>1, <1>2, <1>3, <1>4, <1>5

-------------------------------------------------------------------------------
(* The legs. *)

LEMMA LegsStart ==
    ASSUME Init
    PROVE  LegsInv
  <1>1. /\ queue = [k \in QueueIds |->
                      [rate |-> Capacity[Link(k)], waiting |-> <<>>, occupied |-> 0, busy |-> FALSE]]
        /\ impairments = <<>>
    BY DEF Init
  <1>2. ASSUME NEW site \in SiteSet, NEW leg \in LegSet
        PROVE  /\ queue[<<site, leg, "up">>].rate = Capacity[leg]
               /\ queue[<<site, leg, "down">>].rate = Capacity[leg]
               /\ Capacity[leg] # 0
    <2>1. <<site, leg, "up">> \in QueueIds /\ <<site, leg, "down">> \in QueueIds
      BY DEF QueueIds, Directions
    <2> QED BY <1>1, <2>1, EvaluationAssumption DEF Link
  <1>3. queue[Egress("up")].rate = Capacity["egress"]
    <2>1. Egress("up") \in QueueIds /\ Link(Egress("up")) = "egress"
      BY DEF QueueIds, Directions, Egress, Link
    <2> QED BY <1>1, <2>1
  <1>4. DOMAIN impairments = {}
    BY <1>1
  <1>5. \A site \in SiteSet, leg \in LegSet :
           queue[<<site, leg, "up">>].rate = queue[<<site, leg, "down">>].rate
           /\ queue[<<site, leg, "up">>].rate # 0
    BY <1>2
  <1> QED BY <1>3, <1>4, <1>5 DEF LegsInv

LEMMA LegsStay ==
    ASSUME LegsInv, now \in Nat, now' \in Nat, now <= now', SameRates, impairments' = impairments
    PROVE  LegsInv'
  <1>1. \A site \in SiteSet, leg \in LegSet : <<site, leg, "up">> \in QueueIds /\ <<site, leg, "down">> \in QueueIds
    BY DEF QueueIds, Directions
  <1>2. Egress("up") \in QueueIds
    BY DEF QueueIds, Directions
  <1>3. \A k \in DOMAIN impairments : impairments[k].at \in 0 .. now'
    BY DEF LegsInv
  <1> QED BY <1>1, <1>2, <1>3 DEF LegsInv, SameRates

LEMMA LegsDisturbed ==
    ASSUME FormedIInv, LegsInv, \E S : impairments \in Seq(S), NEW e \in calendar, Disturb(e)
    PROVE  /\ LegsInv' /\ (\E S : impairments' \in Seq(S))
           /\ impairments' = Append(impairments, e.data) /\ e.data.at = now
           /\ \A site \in SiteSet, leg \in LegSet :
                 queue'[<<site, leg, "up">>].rate # queue[<<site, leg, "up">>].rate =>
                     e.data.site = site /\ e.data.leg = leg
  <1> DEFINE d == e.data
  <1>1. /\ impairments' = Append(impairments, d) /\ e.kind = "disturb" /\ e.at = now
        /\ now \in Nat
    BY DEF Disturb, Due, FormedIInv, MessagesIInv, WorldIInv, Basics
  <1>2. d.at = now /\ d.site \in SiteSet
    <2>1. Ready(e) /\ (e.kind = "disturb" => e.data.at = e.at)
      BY DEF FormedIInv, FormedEvents, MessagesIInv, WorldIInv, Events
    <2> QED BY <1>1, <2>1 DEF Ready, Payload, AdmissibleDisturbance
  <1>3. /\ now' = now
        /\ \A k \in QueueIds :
              queue'[k].rate = IF \E direction \in Directions : k = <<d.site, d.leg, direction>>
                               THEN RateFor(d) ELSE queue[k].rate
    BY DisturbCalm DEF FormedIInv, MessagesIInv
  <1>4. PICK S : impairments \in Seq(S)
    OBVIOUS
  <1> HIDE DEF d
  <1> DEFINE n == Len(impairments)
  <1>5. /\ n \in Nat /\ DOMAIN impairments = 1 .. n /\ DOMAIN impairments' = 1 .. n + 1
        /\ impairments'[n + 1] = d /\ \A k \in 1 .. n : impairments'[k] = impairments[k]
        /\ impairments' \in Seq(S \cup {d})
    BY <1>1, <1>4
  <1> HIDE DEF n
  <1>6. ASSUME NEW site \in SiteSet, NEW leg \in LegSet
        PROVE  /\ queue'[<<site, leg, "up">>].rate =
                     IF site = d.site /\ leg = d.leg THEN RateFor(d) ELSE queue[<<site, leg, "up">>].rate
               /\ queue'[<<site, leg, "down">>].rate =
                     IF site = d.site /\ leg = d.leg THEN RateFor(d) ELSE queue[<<site, leg, "down">>].rate
    <2>1. <<site, leg, "up">> \in QueueIds /\ <<site, leg, "down">> \in QueueIds
      BY DEF QueueIds, Directions
    <2> QED BY <1>3, <2>1 DEF Directions
  <1>7. queue'[Egress("up")].rate = Capacity["egress"]
    <2>1. Egress("up") \in QueueIds
      BY DEF QueueIds, Directions
    <2>2. \A direction \in Directions : Egress("up") # <<d.site, d.leg, direction>>
      BY <1>2, EvaluationAssumption DEF Egress
    <2> QED BY <1>3, <2>1, <2>2 DEF LegsInv
  <1>8. ASSUME NEW site \in SiteSet, NEW leg \in LegSet
        PROVE  /\ queue'[<<site, leg, "up">>].rate = queue'[<<site, leg, "down">>].rate
               /\ queue'[<<site, leg, "up">>].rate = 0 =>
                    \E k \in DOMAIN impairments' : impairments'[k].site = site /\ impairments'[k].leg = leg
    <2>1. CASE site = d.site /\ leg = d.leg
      <3>1. n + 1 \in DOMAIN impairments'
        BY <1>5
      <3> QED BY <1>5, <1>6, <2>1, <3>1
    <2>2. CASE ~(site = d.site /\ leg = d.leg)
      <3>1. \A k \in DOMAIN impairments : k \in DOMAIN impairments' /\ impairments'[k] = impairments[k]
        BY <1>5
      <3> QED BY <1>6, <2>2, <3>1 DEF LegsInv
    <2> QED BY <2>1, <2>2
  <1>9. ASSUME NEW k \in DOMAIN impairments' PROVE impairments'[k].at \in 0 .. now
    <2>1. k \in 1 .. n \/ k = n + 1
      BY <1>5
    <2> QED BY <1>1, <1>2, <1>5, <2>1 DEF LegsInv
  <1>10. ASSUME NEW j \in DOMAIN impairments', NEW k \in DOMAIN impairments', j < k
         PROVE  impairments'[j].at <= impairments'[k].at
    <2>1. j \in 1 .. n /\ (k \in 1 .. n \/ k = n + 1)
      BY <1>5, <1>10
    <2>2. CASE k \in 1 .. n
      BY <1>5, <1>10, <2>1, <2>2 DEF LegsInv
    <2>3. CASE k = n + 1
      BY <1>2, <1>5, <1>9, <2>1, <2>3
    <2> QED BY <2>1, <2>2, <2>3
  <1>11. LegsInv'
    BY <1>3, <1>7, <1>8, <1>9, <1>10 DEF LegsInv
  <1>12. \E T : impairments' \in Seq(T)
    BY <1>5
  <1> QED BY <1>1, <1>2, <1>6, <1>11, <1>12 DEF d

-------------------------------------------------------------------------------
(* Services go on, or begin.                                                 *)

LEMMA OneAtATime ==
    ASSUME MessagesIInv, NEW k \in QueueIds, NEW e \in calendar, NEW y \in calendar,
           Ends(e, k), Ends(y, k)
    PROVE  /\ y = e /\ queue[k].busy /\ queue[k].waiting # <<>>
           /\ queue[k].waiting \in Seq(Waits)
  <1>1. e \in Serving(k) /\ y \in Serving(k)
    BY DEF Serving
  <1>2. /\ queue[k].waiting \in Seq(Waits) /\ Served
        /\ queue[k] \in QueueStates
    BY DEF MessagesIInv, WorldIInv, Basics, QueueStates
  <1>3. queue[k].busy /\ queue[k].waiting # <<>> /\ \E x \in calendar : Serving(k) = {x}
    BY <1>1, <1>2 DEF Served
  <1> QED BY <1>1, <1>2, <1>3

LEMMA ServicesGo ==
    ASSUME FormedIInv, NEW e \in calendar, Handling(e) \/ Serviced(e),
           NEW y \in calendar', NEW k \in QueueIds, Ends(y, k)
    PROVE  \/ y \in calendar /\ Head(queue'[k].waiting) = Head(queue[k].waiting)
           \/ Begins(y) /\ y.data.queue = k
  <1>0. MessagesIInv
    BY DEF FormedIInv
  <1>1. CASE Handling(e)
    <2>1. PICK W : Calm(e, W)
      BY <1>1 DEF Handling, Handles
    <2>2. \/ y \in calendar /\ y # e
          \/ Begins(y)
      BY <2>1 DEF Calm, Plain, Ends
    <2>3. CASE Begins(y)
      BY <2>3 DEF Ends
    <2>4. CASE y \in calendar
      <3>1. queue[k].waiting # <<>> /\ queue[k].waiting \in Seq(Waits)
        BY <1>0, <2>4, OneAtATime
      <3>2. \/ queue'[k].waiting = queue[k].waiting
            \/ \E w : queue'[k].waiting = Append(queue[k].waiting, w)
        BY <2>1 DEF Calm, Joins
      <3>3. ASSUME NEW w, queue'[k].waiting = Append(queue[k].waiting, w)
            PROVE  Head(queue'[k].waiting) = Head(queue[k].waiting)
        <4> DEFINE s == queue[k].waiting
        <4>1. s \in Seq(Waits \cup {w}) /\ s # <<>> /\ w \in Waits \cup {w}
          BY <3>1
        <4> HIDE DEF s
        <4>2. Head(Append(s, w)) = Head(s)
          BY <4>1
        <4> QED BY <3>3, <4>2 DEF s
      <3> QED BY <2>4, <3>2, <3>3
    <2> QED BY <2>2, <2>3, <2>4
  <1>2. CASE Serviced(e)
    <2> DEFINE j == e.data.queue
               w == queue[j].waiting[1]
               x == Scheduled(Onward(j, w.packet, w.hop), sequence + 1)
    <2>1. /\ j \in QueueIds /\ Ends(e, j) /\ w \in Waits
          /\ \A i \in QueueIds : i # j => queue'[i] = queue[i]
          /\ \/ y \in calendar /\ y # e
             \/ y = x
             \/ Begins(y) /\ y.data.queue = j
      BY <1>0, <1>2, ServicedDoes
    <2>2. x.kind # "serviced"
      <3>1. Onward(j, w.packet, w.hop).kind \in Carriers
        BY <2>1, OnwardIs
      <3> QED BY <3>1 DEF Scheduled, Carriers
    <2> HIDE DEF x, j
    <2>3. CASE y \in calendar /\ y # e
      <3>1. k # j
        BY <1>0, <2>1, <2>3, OneAtATime
      <3> QED BY <2>1, <2>3, <3>1
    <2>4. CASE y = x
      BY <2>2, <2>4 DEF Ends
    <2>5. CASE Begins(y) /\ y.data.queue = j
      BY <2>5 DEF Ends
    <2> QED BY <2>1, <2>3, <2>4, <2>5
  <1> QED BY <1>1, <1>2

(* A leg that serves nothing begins nothing. *)
LEMMA BegunInTime ==
    ASSUME MessagesIInv', LegsInv', NEW site \in SiteSet, NEW leg \in LegSet, NEW t \in Int,
           now <= t \/ queue'[<<site, leg, "up">>].rate = 0,
           NEW y, NEW k \in QueueIds, Begins(y), y.data.queue = k,
           k \in {<<site, leg, "up">>, <<site, leg, "down">>}
    PROVE  /\ now <= t /\ queue'[k].rate \in Rates /\ queue'[k].rate > 0
           /\ y.at = now + SizeOf(Head(queue'[k].waiting).packet) \div queue'[k].rate
  <1>1. /\ queue'[k].rate > 0
        /\ y.at = now + SizeOf(Head(queue'[k].waiting).packet) \div queue'[k].rate
    BY DEF Begins
  <1>2. queue'[k].rate = queue'[<<site, leg, "up">>].rate
    BY DEF LegsInv
  <1>3. queue'[k].rate \in Rates
    BY DEF MessagesIInv, WorldIInv, Bounded
  <1> QED BY <1>1, <1>2, <1>3, RatesAreNumbers

LEMMA ServesInTime ==
    ASSUME FormedIInv, MessagesIInv', LegsInv', NEW e \in calendar, Handling(e) \/ Serviced(e),
           NEW site \in SiteSet, NEW leg \in LegSet, NEW t \in Int,
           now <= t \/ queue'[<<site, leg, "up">>].rate = 0, NEW y \in calendar'
    PROVE  /\ (\A x \in calendar : ServesEcho(x, site, leg) => x.at <= t + Slowest)
              => (ServesEcho(y, site, leg)' => y.at <= t + Slowest)
           /\ (\A x \in calendar : ServesResponse(x, site, leg) => x.at <= t + Sluggish)
              => (ServesResponse(y, site, leg)' => y.at <= t + Sluggish)
  <1> DEFINE up == <<site, leg, "up">>
             down == <<site, leg, "down">>
  <1>0. /\ up \in QueueIds /\ down \in QueueIds /\ now \in Nat
        /\ Size["probe"] \in Nat /\ Size["response"] \in Nat
    BY WorldAssumption DEF QueueIds, Directions, FormedIInv, MessagesIInv, WorldIInv, Basics
  <1>1. ASSUME \A x \in calendar : ServesEcho(x, site, leg) => x.at <= t + Slowest,
               ServesEcho(y, site, leg)'
        PROVE  y.at <= t + Slowest
    <2>1. Ends(y, down) /\ Head(queue'[down].waiting).packet.kind = "probe_echo"
      BY <1>1 DEF ServesEcho, Ends
    <2>2. CASE y \in calendar /\ Head(queue'[down].waiting) = Head(queue[down].waiting)
      BY <1>1, <2>1, <2>2 DEF ServesEcho
    <2>3. CASE Begins(y) /\ y.data.queue = down
      <3> DEFINE r == queue'[down].rate
      <3>1. /\ now <= t /\ r \in Rates /\ r > 0
            /\ y.at = now + SizeOf(Head(queue'[down].waiting).packet) \div r
        <4>1. /\ down \in {up, down} /\ down \in QueueIds /\ Begins(y) /\ y.data.queue = down
              /\ now <= t \/ queue'[up].rate = 0
          BY <1>0, <2>3
        <4> QED BY <4>1, BegunInTime
      <3>2. SizeOf(Head(queue'[down].waiting).packet) = Size["probe"]
        BY <2>1 DEF SizeOf
      <3> HIDE DEF r
      <3>3. Size["probe"] \div r <= Slowest /\ Slowest \in Nat /\ r \in Nat \ {0}
        BY <3>1, ServesWithin, RatesAreNumbers
      <3>4. Size["probe"] \div r \in Nat
        BY <1>0, <3>3, Division
      <3> QED BY <1>0, <3>1, <3>2, <3>3, <3>4
    <2> QED BY <1>0, <2>1, <2>2, <2>3, ServicesGo
  <1>2. ASSUME \A x \in calendar : ServesResponse(x, site, leg) => x.at <= t + Sluggish,
               ServesResponse(y, site, leg)'
        PROVE  y.at <= t + Sluggish
    <2>1. Ends(y, up) /\ Head(queue'[up].waiting).packet.kind = "response"
      BY <1>2 DEF ServesResponse, Ends
    <2>2. CASE y \in calendar /\ Head(queue'[up].waiting) = Head(queue[up].waiting)
      BY <1>2, <2>1, <2>2 DEF ServesResponse
    <2>3. CASE Begins(y) /\ y.data.queue = up
      <3> DEFINE r == queue'[up].rate
      <3>1. /\ now <= t /\ r \in Rates /\ r > 0
            /\ y.at = now + SizeOf(Head(queue'[up].waiting).packet) \div r
        BY <1>0, <2>3, BegunInTime
      <3>2. SizeOf(Head(queue'[up].waiting).packet) = Size["response"]
        BY <2>1 DEF SizeOf
      <3> HIDE DEF r
      <3>3. Size["response"] \div r <= Sluggish /\ Sluggish \in Nat /\ r \in Nat \ {0}
        BY <3>1, ServesWithin, RatesAreNumbers
      <3>4. Size["response"] \div r \in Nat
        BY <1>0, <3>3, Division
      <3> QED BY <1>0, <3>1, <3>2, <3>3, <3>4
    <2> QED BY <1>0, <2>1, <2>2, <2>3, ServicesGo
  <1> QED BY <1>1, <1>2

-------------------------------------------------------------------------------
(* What leaves a queue.                                                      *)

(* The event y carries on the packet that the event e has served. *)
Carries(e, y) ==
    \E k \in QueueIds, w \in Waits :
        /\ Ends(e, k) /\ e.at = now
        /\ queue[k].waiting \in Seq(Waits) /\ queue[k].waiting # <<>> /\ w = Head(queue[k].waiting)
        /\ Form(w.packet) /\ w.packet.route[w.hop] = k
        /\ y.data.packet = w.packet
        /\ y.kind = "hop" => w.hop < Len(w.packet.route)
        /\ y.kind # "hop" => w.hop = Len(w.packet.route)
        /\ y.kind = "answered" => w.packet.kind = "probe_echo"
        /\ y.kind \in {"hop", "answered", "deliver"} => y.at = now + Delay[Link(k)]

LEMMA CarriedOn ==
    ASSUME FormedIInv, NEW e \in calendar, Handling(e) \/ Serviced(e),
           NEW y \in calendar', y.kind \in Carriers, y \notin calendar
    PROVE  Carries(e, y)
  <1>0. MessagesIInv /\ FormedQueues
    BY DEF FormedIInv
  <1>1. CASE Handling(e)
    <2>1. PICK W : Calm(e, W)
      BY <1>1 DEF Handling, Handles
    <2> QED BY <2>1 DEF Calm, Plain, Begins, Carriers
  <1>2. CASE Serviced(e)
    <2> DEFINE k == e.data.queue
               w == queue[k].waiting[1]
               a == Onward(k, w.packet, w.hop)
               x == Scheduled(a, sequence + 1)
    <2>1. /\ k \in QueueIds /\ Ends(e, k)
          /\ queue[k].waiting \in Seq(Waits) /\ queue[k].waiting # <<>>
          /\ w = Head(queue[k].waiting) /\ w \in Waits
          /\ \/ y \in calendar
             \/ y = x
             \/ Begins(y)
      BY <1>0, <1>2, ServicedDoes
    <2>2. y = x
      BY <2>1 DEF Begins, Carriers
    <2>3. /\ a.data.packet = w.packet
          /\ a.kind = "hop" <=> w.hop < Len(w.packet.route)
          /\ a.kind \in {"hop", "answered", "deliver"} => a.at = now + Delay[Link(k)]
          /\ a.kind = "answered" => w.packet.kind = "probe_echo"
      BY <2>1, OnwardIs, Zenon
    <2>4. y.kind = a.kind /\ y.at = a.at /\ y.data = a.data
      BY <2>2, Zenon DEF Scheduled
    <2>5. e.at = now
      BY <1>2 DEF Serviced, Due
    <2>6. 1 \in DOMAIN queue[k].waiting
      BY <2>1
    <2>7. Form(w.packet) /\ w.packet.route[w.hop] = k
      BY <1>0, <2>1, <2>6 DEF FormedQueues
    <2>8. ~(w.hop < Len(w.packet.route)) => w.hop = Len(w.packet.route)
      <3>1. w.hop \in 1 .. Len(w.packet.route) /\ w.packet.route \in Seq(QueueIds)
        BY <2>1, Zenon DEF Waits, Carried, Packets
      <3> QED BY <3>1
    <2> HIDE DEF k, w, a, x
    <2> QED BY <2>1, <2>3, <2>4, <2>5, <2>7, <2>8 DEF Carries
  <1> QED BY <1>1, <1>2

LEMMA AnswersInTime ==
    ASSUME FormedIInv, NEW e \in calendar, Handling(e) \/ Serviced(e),
           NEW site \in SiteSet, NEW leg \in LegSet, NEW t \in Int, ProbesBy(site, leg, t),
           NEW y \in calendar', IsAnswer(y, site, leg)
    PROVE  y.at <= t + Slowest + Delay[leg]
  <1>1. CASE y \in calendar
    BY <1>1 DEF ProbesBy
  <1>2. CASE y \notin calendar
    <2>0. y.kind = "answered" /\ y.data.packet.site = site /\ y.data.packet.route[1][2] = leg
      BY DEF IsAnswer
    <2>1. Carries(e, y)
      BY <1>2, <2>0, CarriedOn DEF Carriers
    <2>2. PICK k \in QueueIds, w \in Waits :
             /\ Ends(e, k) /\ e.at = now
             /\ queue[k].waiting \in Seq(Waits) /\ queue[k].waiting # <<>> /\ w = Head(queue[k].waiting)
             /\ Form(w.packet) /\ w.packet.route[w.hop] = k
             /\ y.data.packet = w.packet
             /\ w.hop = Len(w.packet.route)
             /\ w.packet.kind = "probe_echo"
             /\ y.at = now + Delay[Link(k)]
      BY <2>0, <2>1 DEF Carries
    <2>3. PICK l \in LegSet : w.packet.route = << <<w.packet.site, l, "down">> >>
      BY <2>2 DEF Form, Shape
    <2>4. k = <<site, leg, "down">>
      <3>1. Len(w.packet.route) = 1 /\ w.packet.route[1] = <<w.packet.site, l, "down">>
        BY <2>3
      <3>2. w.packet.route[1][2] = l
        BY <3>1
      <3>3. w.packet.site = site /\ l = leg
        BY <2>0, <2>2, <3>2
      <3>4. k = w.packet.route[1]
        BY <2>2, <3>1
      <3> QED BY <3>1, <3>3, <3>4
    <2>5. ServesEcho(e, site, leg) /\ Link(k) = leg
      BY <2>2, <2>4, Zenon DEF ServesEcho, Link
    <2>6. now <= t + Slowest
      BY <2>2, <2>5 DEF ProbesBy
    <2>7. now \in Nat /\ Delay[leg] \in Nat /\ Slowest \in Nat
      BY ServesWithin, WorldAssumption DEF FormedIInv, MessagesIInv, WorldIInv, Basics
    <2> QED BY <2>2, <2>5, <2>6, <2>7
  <1> QED BY <1>1, <1>2

(* A response comes over its leg, and over the egress.                       *)
LEMMA ResponsesRoute ==
    ASSUME NEW w \in Waits, Form(w.packet), w.packet.kind = "response",
           pathVersion[w.packet.site] = 0
    PROVE  /\ w.packet.route = << <<w.packet.site, Legs[1], "up">>, Egress("up") >>
           /\ Len(w.packet.route) = 2 /\ w.hop \in {1, 2}
           /\ w.hop < Len(w.packet.route) => w.packet.route[w.hop] = <<w.packet.site, Legs[1], "up">>
           /\ w.hop = Len(w.packet.route) => w.packet.route[w.hop] = Egress("up")
  <1>1. PICK l \in LegSet : w.packet.route = << <<w.packet.site, l, "up">>, Egress("up") >>
    BY DEF Form, Shape
  <1>2. w.packet.route[1] = <<w.packet.site, Legs[1], "up">>
    BY DEF Form, Loyal
  <1>3. /\ Len(w.packet.route) = 2 /\ w.packet.route[2] = Egress("up")
        /\ w.packet.route[1] = <<w.packet.site, l, "up">>
    BY <1>1
  <1>4. w.hop \in 1 .. 2
    BY <1>3 DEF Waits
  <1> QED BY <1>1, <1>2, <1>3, <1>4

LEMMA Timely ==
    ASSUME MessagesIInv
    PROVE  /\ now \in Nat /\ Delay[Legs[1]] \in Nat /\ Delay["egress"] \in Nat
           /\ Sluggish \in Nat /\ EgressWait \in Nat
  <1>1. Legs[1] \in LegSet
    <2>1. Legs \in Seq(LegSet) /\ Legs # <<>>
      BY WorldAssumption
    <2> QED BY <2>1
  <1> DEFINE first == Legs[1]
  <1>2. first \in LegSet \cup {"egress"}
    BY <1>1
  <1> HIDE DEF first
  <1>3. Delay[first] \in Nat /\ Delay["egress"] \in Nat
    BY <1>2, WorldAssumption
  <1>4. now \in Nat /\ world \in Worlds
    BY WorldAssumption DEF MessagesIInv, WorldIInv, Basics
  <1> QED BY <1>3, <1>4, ServesWithin, EgressServes DEF first

LEMMA HopsInTime ==
    ASSUME FormedIInv, NEW e \in calendar, Handling(e) \/ Serviced(e),
           NEW site \in SiteSet, NEW t \in Int, ResponsesBy(site, Legs[1], t), pathVersion[site] = 0,
           NEW y \in calendar', y.kind = "hop", IsResponse(y.data.packet, site)
    PROVE  y.at <= AtEgress(site, Legs[1], t)
  <1>1. CASE y \in calendar
    BY <1>1 DEF ResponsesBy
  <1>2. CASE y \notin calendar
    <2>1. Carries(e, y)
      BY <1>2, CarriedOn DEF Carriers
    <2>2. PICK k \in QueueIds, w \in Waits :
             /\ Ends(e, k) /\ e.at = now
             /\ queue[k].waiting \in Seq(Waits) /\ queue[k].waiting # <<>> /\ w = Head(queue[k].waiting)
             /\ Form(w.packet) /\ w.packet.route[w.hop] = k
             /\ y.data.packet = w.packet
             /\ w.hop < Len(w.packet.route)
             /\ y.at = now + Delay[Link(k)]
      BY <2>1 DEF Carries
    <2>3. w.packet.kind = "response" /\ w.packet.site = site
      BY <2>2 DEF IsResponse
    <2>4. k = <<site, Legs[1], "up">>
      BY <2>2, <2>3, ResponsesRoute
    <2>5. ServesResponse(e, site, Legs[1]) /\ Link(k) = Legs[1]
      <3>1. Link(k) = Legs[1]
        BY <2>4 DEF Link
      <3>2. ServesResponse(e, site, Legs[1])
        BY <2>2, <2>3, <2>4, Zenon DEF ServesResponse
      <3> QED BY <3>1, <3>2
    <2>6. now <= t + Sluggish
      BY <2>2, <2>5 DEF ResponsesBy
    <2>7. now \in Nat /\ Delay[Legs[1]] \in Nat /\ Sluggish \in Nat
      BY Timely DEF FormedIInv
    <2> QED BY <2>2, <2>5, <2>6, <2>7 DEF AtEgress
  <1> QED BY <1>1, <1>2

LEMMA DeliveriesInTime ==
    ASSUME FormedIInv, NEW e \in calendar, Handling(e) \/ Serviced(e),
           NEW site \in SiteSet, NEW t \in Int, ResponsesBy(site, Legs[1], t), pathVersion[site] = 0,
           NEW y \in calendar', y.kind = "deliver", IsResponse(y.data.packet, site)
    PROVE  y.at <= AtCentre(site, Legs[1], t)
  <1>1. CASE y \in calendar
    BY <1>1 DEF ResponsesBy
  <1>2. CASE y \notin calendar
    <2>1. Carries(e, y)
      BY <1>2, CarriedOn DEF Carriers
    <2>2. PICK k \in QueueIds, w \in Waits :
             /\ Ends(e, k) /\ e.at = now
             /\ queue[k].waiting \in Seq(Waits) /\ queue[k].waiting # <<>> /\ w = Head(queue[k].waiting)
             /\ Form(w.packet) /\ w.packet.route[w.hop] = k
             /\ y.data.packet = w.packet
             /\ w.hop = Len(w.packet.route)
             /\ y.at = now + Delay[Link(k)]
      BY <2>1 DEF Carries
    <2>3. w.packet.kind = "response" /\ w.packet.site = site
      BY <2>2 DEF IsResponse
    <2>4. k = Egress("up") /\ Link(k) = "egress"
      <3>1. k = Egress("up")
        BY <2>2, <2>3, ResponsesRoute
      <3> QED BY <3>1 DEF Egress, Link
    <2> DEFINE s == queue[Egress("up")].waiting
               c == Capacity["egress"]
               due == AtEgress(site, Legs[1], t)
    <2>5. 1 \in DOMAIN s /\ Head(s) = s[1] /\ s \in Seq(Waits) /\ s # <<>>
      BY <2>2, <2>4
    <2>6. Across(e, 1) <= c * due + world.limit
      BY <2>2, <2>3, <2>4, <2>5 DEF ResponsesBy, IsResponse
    <2>7. Across(e, 1) = c * now
      <3>1. BytesOf(FirstOf(s, 1)) = SizeOf(Head(s).packet) /\ SizeOf(Head(s).packet) \in Nat
        <4>1. \A v \in Waits : SizeOf(v.packet) \in Nat
          BY WaitingIsSized
        <4>2. Head(s) \in Waits
          BY <2>2, <2>4
        <4> HIDE DEF s
        <4> QED BY <2>5, <4>1, <4>2, FirstOne
      <3>2. Across(e, 1) = c * e.at + BytesOf(FirstOf(s, 1)) - SizeOf(Head(s).packet)
        BY DEF Across
      <3>3. e.at = now /\ c * now \in Nat
        BY <2>2, EgressServes DEF FormedIInv, MessagesIInv, WorldIInv, Basics
      <3> HIDE DEF s, c
      <3> QED BY <3>1, <3>2, <3>3
    <2>8. due \in Int /\ now \in Int /\ Delay["egress"] \in Nat /\ EgressWait \in Nat
      BY Timely DEF AtEgress, FormedIInv
    <2>9. now <= due + EgressWait
      <3>1. world \in Worlds
        BY DEF FormedIInv, MessagesIInv, WorldIInv, Basics
      <3> HIDE DEF due, s
      <3> QED BY <2>6, <2>7, <2>8, <3>1, EgressServes DEF c
    <2>10. AtCentre(site, Legs[1], t) = due + EgressWait + Delay["egress"]
      BY DEF AtCentre
    <2> HIDE DEF due, s, c
    <2> QED BY <2>2, <2>4, <2>8, <2>9, <2>10
  <1> QED BY <1>1, <1>2

-------------------------------------------------------------------------------
(* The egress. *)

LEMMA NothingLate ==
    ASSUME FormedIInv, NEW e \in calendar, Handling(e) \/ Serviced(e)
    PROVE  now' = now /\ world' = world /\ e.at = now
  <1>1. CASE Handling(e)
    BY <1>1 DEF Handling
  <1>2. CASE Serviced(e)
    BY <1>2 DEF Serviced, Due, Handle
  <1> QED BY <1>1, <1>2

LEMMA EgressNumbers ==
    ASSUME MessagesIInv, LegsInv
    PROVE  /\ Egress("up") \in QueueIds /\ queue[Egress("up")].rate = Capacity["egress"]
           /\ Capacity["egress"] \in Nat \ {0} /\ world.limit \in Nat /\ now \in Nat
           /\ queue[Egress("up")].waiting \in Seq(Waits)
           /\ BytesOf(queue[Egress("up")].waiting) <= world.limit
           /\ BytesOf(queue[Egress("up")].waiting) = queue[Egress("up")].occupied
           /\ queue[Egress("up")].occupied \in Nat
  <1>1. Egress("up") \in QueueIds
    BY DEF QueueIds, Directions
  <1>2. /\ queue[Egress("up")] \in QueueStates /\ world \in Worlds /\ now \in Nat /\ Bounded
    BY <1>1, WorldAssumption DEF MessagesIInv, WorldIInv, Basics
  <1>3. queue[Egress("up")].waiting \in Seq(Waits) /\ queue[Egress("up")].occupied \in Nat
    BY <1>2 DEF QueueStates
  <1> QED BY <1>1, <1>2, <1>3, EgressServes DEF LegsInv, Bounded

LEMMA StaysBusy ==
    ASSUME FormedIInv, MessagesIInv', LegsInv', EgressBusy,
           NEW e \in calendar, Handling(e) \/ Serviced(e)
    PROVE  EgressBusy'
  <1> DEFINE E == Egress("up")
             c == Capacity["egress"]
  <1>0. /\ E \in QueueIds /\ queue'[E].rate = c /\ c \in Nat \ {0} /\ now \in Nat /\ now' = now
        /\ queue'[E].waiting \in Seq(Waits)
    <2>1. (MessagesIInv /\ LegsInv => queue[E].rate = c /\ queue[E].waiting \in Seq(Waits))'
      BY EgressNumbers, PTL
    <2>2. E \in QueueIds
      BY DEF QueueIds, Directions
    <2>3. c \in Nat \ {0}
      BY EvaluationAssumption
    <2>4. now' = now /\ now \in Nat
      BY NothingLate DEF FormedIInv, MessagesIInv, WorldIInv, Basics
    <2> QED BY <2>1, <2>2, <2>3, <2>4
  <1>1. ASSUME NEW y \in calendar', Ends(y, E)
        PROVE  c * y.at <= c * now + SizeOf(Head(queue'[E].waiting).packet)
    <2>1. CASE y \in calendar /\ Head(queue'[E].waiting) = Head(queue[E].waiting)
      BY <1>1, <2>1 DEF EgressBusy
    <2>2. CASE Begins(y) /\ y.data.queue = E
      <3> DEFINE n == SizeOf(Head(queue'[E].waiting).packet)
      <3>1. y.at = now + n \div c /\ queue'[E].waiting # <<>>
        BY <1>0, <2>2 DEF Begins
      <3>2. n \in Nat
        <4>1. Head(queue'[E].waiting) \in Waits
          BY <1>0, <3>1
        <4> QED BY <4>1, WaitingIsSized
      <3> DEFINE q == n \div c
      <3>3. q \in Nat /\ c * q <= n
        <4> HIDE DEF n, c
        <4> QED BY <1>0, <3>2, GreatestFits
      <3>4. y.at = now + q
        BY <3>1
      <3> HIDE DEF n, q, c
      <3>5. c * y.at = c * now + c * q
        BY <1>0, <3>3, <3>4
      <3>6. c * now \in Nat /\ c * q \in Nat
        BY <1>0, <3>3
      <3> QED BY <3>2, <3>3, <3>5, <3>6 DEF n
    <2> QED BY <1>0, <1>1, <2>1, <2>2, ServicesGo
  <1>2. \A y \in calendar' : Ends(y, E) =>
            c * y.at <= c * now' + SizeOf(Head(queue'[E].waiting).packet)
    BY <1>0, <1>1
  <1> QED BY <1>2 DEF EgressBusy, Ends

LEMMA OneEgress ==
    MessagesIInv => \A a, b \in calendar : Ends(a, Egress("up")) /\ Ends(b, Egress("up")) => a = b
  <1>1. Egress("up") \in QueueIds
    BY DEF QueueIds, Directions
  <1> QED BY <1>1, OneAtATime

(* The sums that an arrival and a service leave. *)
LEMMA EgressGrows ==
    ASSUME FormedIInv, MessagesIInv', LegsInv, LegsInv', EgressBusy', NEW e \in calendar, Handling(e),
           NEW site \in SiteSet, NEW t \in Int, ResponsesBy(site, Legs[1], t), pathVersion[site] = 0,
           NEW y \in calendar', Ends(y, Egress("up")), NEW i \in DOMAIN queue'[Egress("up")].waiting,
           IsResponse(queue'[Egress("up")].waiting[i].packet, site)
    PROVE  Capacity["egress"] * y.at + BytesOf(FirstOf(queue'[Egress("up")].waiting, i))
              - SizeOf(Head(queue'[Egress("up")].waiting).packet)
           <= Capacity["egress"] * AtEgress(site, Legs[1], t) + world.limit
  <1> DEFINE E == Egress("up")
             c == Capacity["egress"]
             due == AtEgress(site, Legs[1], t)
             s == queue[E].waiting
             new == queue'[E].waiting
  <1>0. MessagesIInv /\ now' = now /\ world' = world /\ e.at = now /\ Served
    BY NothingLate DEF FormedIInv, MessagesIInv, WorldIInv
  <1>1. /\ E \in QueueIds /\ queue[E].rate = c /\ c \in Nat \ {0} /\ world.limit \in Nat
        /\ now \in Nat /\ s \in Seq(Waits)
    BY <1>0, EgressNumbers
  <1>2. new \in Seq(Waits) /\ BytesOf(new) <= world.limit /\ BytesOf(new) \in Nat
    <2>1. (MessagesIInv /\ LegsInv => /\ queue[E].waiting \in Seq(Waits)
                                      /\ BytesOf(queue[E].waiting) <= world.limit
                                      /\ BytesOf(queue[E].waiting) = queue[E].occupied
                                      /\ queue[E].occupied \in Nat)'
      BY EgressNumbers, PTL
    <2> QED BY <1>0, <2>1
  <1>3. PICK W : Calm(e, W) /\ \A w \in W : Sent(e, w)
    BY DEF Handling, Handles
  <1>4. y \in calendar => Head(new) = Head(s) /\ s # <<>>
    <2>1. ASSUME y \in calendar PROVE s # <<>>
      BY <1>0, <1>1, <2>1, OneAtATime
    <2>2. ASSUME y \in calendar PROVE Head(new) = Head(s)
      <3>1. \/ new = s
            \/ \E w : new = Append(s, w)
        BY <1>1, <1>3 DEF Calm, Joins
      <3>2. ASSUME NEW w, new = Append(s, w) PROVE Head(new) = Head(s)
        <4> HIDE DEF s, new
        <4>1. s # <<>> /\ s \in Seq(Waits \cup {w}) /\ w \in Waits \cup {w}
          BY <1>1, <2>1, <2>2
        <4>2. Head(Append(s, w)) = Head(s)
          BY <4>1
        <4> QED BY <3>2, <4>2
      <3> QED BY <3>1, <3>2
    <2> QED BY <2>1, <2>2
  <1>5. CASE i \in DOMAIN s /\ new[i] = s[i] /\ FirstOf(new, i) = FirstOf(s, i)
    <2>1. s # <<>>
      BY <1>1, <1>5
    <2>2. queue[E].busy
      <3>1. c # 0
        BY <1>1
      <3> QED BY <1>0, <1>1, <2>1, <3>1 DEF Served
    <2>3. PICK z \in calendar : Serving(E) = {z}
      BY <1>0, <1>1, <2>2 DEF Served
    <2>4. Ends(z, E)
      BY <2>3 DEF Serving
    <2>5. z \in calendar'
      BY <1>3, <2>4 DEF Calm, Ends
    <2>6. y = z
      <3>1. (MessagesIInv => \A a, b \in calendar : Ends(a, Egress("up")) /\ Ends(b, Egress("up")) => a = b)'
        BY OneEgress, PTL
      <3> QED BY <2>4, <2>5, <3>1 DEF Ends
    <2>7. Across(y, i) <= c * due + world.limit
      BY <1>5, <2>3, <2>6 DEF ResponsesBy
    <2>8. Across(y, i) = c * y.at + BytesOf(FirstOf(new, i)) - SizeOf(Head(new).packet)
      BY <1>4, <1>5, <2>3, <2>6 DEF Across
    <2> QED BY <2>7, <2>8
  <1>6. CASE \E w \in W : w.packet.route[w.hop] = E /\ new = Append(s, w) /\ i = Len(s) + 1
    <2>1. PICK w \in W : w.packet.route[w.hop] = E /\ new = Append(s, w) /\ i = Len(s) + 1
      BY <1>6
    <2>2. new[i] = w /\ i = Len(new)
      <3> HIDE DEF s, new
      <3> QED BY <1>1, <2>1
    <2>3. e.kind = "hop" /\ e.data.packet = w.packet
      BY <1>3, <2>1, <2>2 DEF Sent, IsResponse
    <2>4. now <= due
      BY <1>0, <2>2, <2>3 DEF ResponsesBy
    <2>5. FirstOf(new, i) = new
      BY <1>2, <2>2, FirstAll
    <2>6. c * y.at <= c * now + SizeOf(Head(new).packet)
      <3>1. \A x \in calendar' : Ends(x, E) => c * x.at <= c * now' + SizeOf(Head(new).packet)
        BY DEF EgressBusy, Ends
      <3> QED BY <1>0, <3>1
    <2>7. c * now <= c * due /\ c * now \in Int /\ c * due \in Int
      <3>1. due \in Int
        BY <1>0, Timely DEF AtEgress
      <3> HIDE DEF due, c
      <3> QED BY <1>1, <2>4, <3>1
    <2>8. y.at \in Int /\ c * y.at \in Int /\ SizeOf(Head(new).packet) \in Nat
      <3>1. y.at \in Nat
        BY DEF MessagesIInv, WorldIInv, Events, Ready
      <3>2. Head(new) \in Waits
        <4>1. i \in DOMAIN new
          OBVIOUS
        <4> HIDE DEF new
        <4>2. new # <<>>
          BY <1>2, <4>1
        <4> QED BY <1>2, <4>2
      <3> HIDE DEF c, new
      <3> QED BY <1>1, <3>1, <3>2, WaitingIsSized
    <2> HIDE DEF c, new, due, s, E
    <2>9. c * y.at + BytesOf(FirstOf(new, i)) - SizeOf(Head(new).packet) <= c * due + world.limit
      <3>1. \A a, b, d \in Int, h, l, m \in Nat :
               a <= b + h /\ b <= d /\ l <= m => a + l - h <= d + m
        OBVIOUS
      <3>2. /\ c * y.at \in Int /\ c * now \in Int /\ c * due \in Int
            /\ SizeOf(Head(new).packet) \in Nat /\ BytesOf(new) \in Nat /\ world.limit \in Nat
            /\ c * y.at <= c * now + SizeOf(Head(new).packet) /\ c * now <= c * due
            /\ BytesOf(new) <= world.limit
        BY <1>1, <1>2, <2>6, <2>7, <2>8, Zenon
      <3>3. c * y.at + BytesOf(new) - SizeOf(Head(new).packet) <= c * due + world.limit
        BY <3>1, <3>2, Zenon
      <3> QED BY <2>5, <3>3, Zenon
    <2> QED BY <2>9 DEF c, new, due, E
  <1>7. \/ i \in DOMAIN s /\ new[i] = s[i] /\ FirstOf(new, i) = FirstOf(s, i)
        \/ \E w \in W : w.packet.route[w.hop] = E /\ new = Append(s, w) /\ i = Len(s) + 1
    <2>1. \/ new = s
          \/ \E w \in W : w.packet.route[w.hop] = E /\ new = Append(s, w)
      BY <1>1, <1>3 DEF Calm, Joins
    <2>2. ASSUME NEW w \in W, w.packet.route[w.hop] = E, new = Append(s, w), i # Len(s) + 1
          PROVE  i \in DOMAIN s /\ new[i] = s[i] /\ FirstOf(new, i) = FirstOf(s, i)
      <3>1. i \in DOMAIN new
        OBVIOUS
      <3> HIDE DEF s, new
      <3>2. s \in Seq(Waits \cup {w}) /\ w \in Waits \cup {w}
        BY <1>1
      <3>3. i \in 1 .. Len(s) /\ new[i] = s[i]
        BY <2>2, <3>1, <3>2
      <3>4. FirstOf(Append(s, w), i) = FirstOf(s, i)
        <4>1. i \in 0 .. Len(s)
          BY <3>2, <3>3
        <4> QED BY <3>2, <4>1, FirstAppended
      <3> QED BY <2>2, <3>2, <3>3, <3>4
    <2> QED BY <2>1, <2>2
  <1> QED BY <1>5, <1>6, <1>7

LEMMA EgressServed ==
    ASSUME FormedIInv, MessagesIInv', LegsInv, LegsInv', NEW e \in calendar, Serviced(e),
           NEW site \in SiteSet, NEW t \in Int, ResponsesBy(site, Legs[1], t),
           NEW y \in calendar', Ends(y, Egress("up")), NEW i \in DOMAIN queue'[Egress("up")].waiting,
           IsResponse(queue'[Egress("up")].waiting[i].packet, site)
    PROVE  Capacity["egress"] * y.at + BytesOf(FirstOf(queue'[Egress("up")].waiting, i))
              - SizeOf(Head(queue'[Egress("up")].waiting).packet)
           <= Capacity["egress"] * AtEgress(site, Legs[1], t) + world.limit
  <1> DEFINE E == Egress("up")
             c == Capacity["egress"]
             due == AtEgress(site, Legs[1], t)
             s == queue[E].waiting
             new == queue'[E].waiting
             k == e.data.queue
             w == queue[k].waiting[1]
             x == Scheduled(Onward(k, w.packet, w.hop), sequence + 1)
  <1>0. MessagesIInv /\ now' = now /\ e.at = now
    BY NothingLate DEF FormedIInv
  <1>1. /\ E \in QueueIds /\ c \in Nat \ {0} /\ world.limit \in Nat
        /\ now \in Nat /\ s \in Seq(Waits)
    BY <1>0, EgressNumbers
  <1>2. /\ k \in QueueIds /\ Ends(e, k) /\ w \in Waits
        /\ queue[k].waiting # <<>>
        /\ queue'[k].waiting = Tail(queue[k].waiting)
        /\ \A j \in QueueIds : j # k => queue'[j] = queue[j]
        /\ \/ y \in calendar /\ y # e
           \/ y = x
           \/ Begins(y) /\ y.data.queue = k
    BY <1>0, ServicedDoes
  <1>3. y # x
    <2>1. Onward(k, w.packet, w.hop).kind \in Carriers
      BY <1>2, OnwardIs
    <2>2. x.kind = Onward(k, w.packet, w.hop).kind
      BY DEF Scheduled
    <2>3. y.kind = "serviced"
      BY DEF Ends
    <2> HIDE DEF x
    <2> QED BY <2>1, <2>2, <2>3 DEF Carriers
  <1> HIDE DEF x, w, k
  <1>4. CASE k # E
    <2>1. y \in calendar /\ queue'[E] = queue[E]
      BY <1>1, <1>2, <1>3, <1>4 DEF Ends
    <2>2. Across(y, i) <= c * due + world.limit
      BY <2>1 DEF ResponsesBy
    <2>3. Across(y, i) = c * y.at + BytesOf(FirstOf(new, i)) - SizeOf(Head(new).packet)
      BY <2>1 DEF Across
    <2> QED BY <2>2, <2>3
  <1>5. CASE k = E
    <2>1. Begins(y) /\ y.data.queue = E
      <3>1. ~(y \in calendar /\ y # e)
        BY <1>0, <1>1, <1>2, <1>5, OneAtATime
      <3> QED BY <1>2, <1>3, <1>5, <3>1
    <2>2. new = Tail(s) /\ s # <<>>
      BY <1>2, <1>5
    <2> DEFINE n == SizeOf(Head(new).packet)
               q == n \div c
    <2>3. y.at = now + q /\ new # <<>>
      <3>1. queue'[E].rate = c
        BY DEF LegsInv
      <3> QED BY <2>1, <3>1 DEF Begins
    <2>4. new \in Seq(Waits) /\ i \in 0 .. Len(new) /\ i + 1 \in DOMAIN s /\ s[i + 1] = new[i]
          /\ i \in Nat
      <3>1. i \in DOMAIN new
        OBVIOUS
      <3> HIDE DEF new, s
      <3> QED BY <1>1, <2>2, <3>1
    <2>5. n \in Nat
      <3>1. Head(new) \in Waits
        <4> HIDE DEF new
        <4> QED BY <2>3, <2>4
      <3> QED BY <3>1, WaitingIsSized
    <2>6. q \in Nat /\ c * q <= n
      <3> HIDE DEF n, c
      <3> QED BY <1>1, <2>5, GreatestFits
    <2> DEFINE first == BytesOf(FirstOf(s, i + 1))
               rest == BytesOf(FirstOf(new, i))
               m == SizeOf(Head(s).packet)
    <2>7. first = m + rest /\ rest \in Nat /\ m \in Nat
      <3>1. \A v \in Waits : SizeOf(v.packet) \in Nat
        BY WaitingIsSized
      <3>2. Head(s) \in Waits
        <4> HIDE DEF s
        <4> QED BY <1>1, <2>2
      <3>3. i \in 0 .. Len(Tail(s))
        BY <2>2, <2>4
      <3>4. /\ BytesOf(FirstOf(s, i + 1)) = SizeOf(Head(s).packet) + BytesOf(FirstOf(Tail(s), i))
            /\ BytesOf(FirstOf(Tail(s), i)) \in Nat
        <4> HIDE DEF s
        <4> QED BY <1>1, <2>2, <3>1, <3>3, FirstServed
      <3> QED BY <2>2, <3>1, <3>2, <3>4
    <2>8. Across(e, i + 1) <= c * due + world.limit
      <3>1. IsResponse(s[i + 1].packet, site)
        BY <2>4
      <3> QED BY <1>2, <1>5, <2>4, <3>1 DEF ResponsesBy
    <2>9. Across(e, i + 1) = c * now + first - m
      BY <1>0 DEF Across
    <2>10. c * due \in Int
      <3>1. due \in Int
        BY <1>0, Timely DEF AtEgress
      <3> HIDE DEF due, c
      <3> QED BY <1>1, <3>1
    <2> HIDE DEF c, new, due, s, E, first, rest, m, n, q
    <2>11. c * y.at = c * now + c * q
      BY <1>1, <2>3, <2>6
    <2>12. c * now \in Nat /\ c * q \in Nat
      BY <1>1, <2>6
    <2>13. c * y.at + rest - n <= c * due + world.limit
      BY <1>1, <2>5, <2>6, <2>7, <2>8, <2>9, <2>10, <2>11, <2>12
    <2> QED BY <2>13 DEF c, new, due, rest, n, E
  <1> QED BY <1>4, <1>5

(* What has been delivered was carried by an event that is due.              *)
LEMMA DeliveredInTime ==
    ASSUME FormedIInv, NEW e \in calendar, Handling(e) \/ Serviced(e),
           NEW site \in SiteSet, NEW t \in Int, ResponsesBy(site, Legs[1], t),
           NEW o \in generated', NEW k \in DOMAIN delivered',
           o.service = "scada", o.site = site, delivered'[k].id = o.id
    PROVE  delivered'[k].at <= AtCentre(site, Legs[1], t)
  <1>0. MessagesIInv /\ FormedEvents /\ now' = now /\ e.at = now
    BY NothingLate DEF FormedIInv
  <1>1. CASE delivered' = delivered
    <2>1. delivered[k].id \in 1 .. counter /\ counter \in Nat
      BY <1>0, <1>1 DEF MessagesIInv, Traced, Listed, WorldIInv, Basics
    <2>2. Grows \/ generated' = generated
      BY DEF Handling, Handles, Serviced, ledger
    <2>3. o \in generated
      BY <1>1, <2>1, <2>2 DEF Grows
    <2> QED BY <1>1, <2>3 DEF ResponsesBy
  <1>2. CASE Deliver(e)
    <2> DEFINE p == e.data.packet
               d == [id |-> p.id, at |-> now, onTime |-> InTime(p)]
    <2>1. /\ delivered' = Append(delivered, d) /\ generated' = generated
          /\ e.kind = "deliver"
      BY <1>2 DEF Deliver, Due
    <2>2. PICK S : delivered \in Seq(S)
      BY <1>0 DEF MessagesIInv, Traced, Listed
    <2>3. d.id = p.id /\ d.at = now
      OBVIOUS
    <2> HIDE DEF d
    <2>4. delivered'[k] = d \/ (k \in DOMAIN delivered /\ delivered'[k] = delivered[k])
      BY <2>1, <2>2, Grown
    <2>5. CASE delivered'[k] = d
      <3>1. Form(p) /\ p.kind \in {"reading", "response"}
        BY <1>0, <2>1 DEF FormedEvents, Carriers
      <3>2. p.service = "scada" /\ p.site = site
        BY <2>1, <2>3, <2>5, <3>1 DEF Form, Ours
      <3>3. p.kind = "response"
        BY <3>1, <3>2 DEF Form, Shape
      <3>4. e.at <= AtCentre(site, Legs[1], t)
        BY <2>1, <3>2, <3>3 DEF ResponsesBy, IsResponse
      <3> QED BY <1>0, <2>3, <2>5, <3>4
    <2>6. CASE k \in DOMAIN delivered /\ delivered'[k] = delivered[k]
      BY <2>1, <2>6 DEF ResponsesBy
    <2> QED BY <2>4, <2>5, <2>6
  <1>3. Deliver(e) \/ delivered' = delivered
    BY DEF Handling, Serviced, ledger
  <1> QED BY <1>1, <1>2, <1>3

-------------------------------------------------------------------------------
(* What a step leaves of the evidence of a leg that serves nothing.          *)

(* The bounds are numbers, and later for a leg that was cut later. *)
LEMMA Fadings ==
    ASSUME MessagesIInv, NEW site, NEW leg \in LegSet, NEW t \in Int
    PROVE  /\ now \in Nat /\ Slowest \in Nat /\ Sluggish \in Nat /\ EgressWait \in Nat
           /\ Delay[leg] \in Nat /\ Delay["egress"] \in Nat /\ Capacity["egress"] \in Nat
           /\ world.limit \in Nat
           /\ t + Slowest \in Int /\ t + Sluggish \in Int /\ t + Slowest + Delay[leg] \in Int
           /\ AtEgress(site, leg, t) \in Int /\ AtCentre(site, leg, t) \in Int
  <1>1. leg \in LegSet \cup {"egress"} /\ "egress" \in LegSet \cup {"egress"}
    OBVIOUS
  <1>2. Delay[leg] \in Nat /\ Delay["egress"] \in Nat
    BY <1>1, WorldAssumption
  <1>3. now \in Nat /\ Sluggish \in Nat /\ EgressWait \in Nat /\ Slowest \in Nat
    BY Timely, ServesWithin
  <1>4. world.limit \in Nat /\ Capacity["egress"] \in Nat
    BY EgressServes DEF MessagesIInv, WorldIInv, Basics
  <1>5. AtEgress(site, leg, t) \in Int
    BY <1>2, <1>3 DEF AtEgress
  <1>6. AtCentre(site, leg, t) \in Int
    BY <1>2, <1>3, <1>5 DEF AtCentre
  <1> QED BY <1>2, <1>3, <1>4, <1>5, <1>6

(* All times and places that the bounds are compared with are numbers. *)
LEMMA EventTimes ==
    ASSUME MessagesIInv
    PROVE  /\ \A e \in calendar : e.at \in Nat
           /\ \A e \in calendar : Ends(e, Egress("up")) =>
                \A i \in DOMAIN queue[Egress("up")].waiting : Across(e, i) \in Int
  <1>1. \A e \in calendar : e.at \in Nat
    BY DEF MessagesIInv, WorldIInv, Events, Ready
  <1>2. ASSUME NEW e \in calendar, Ends(e, Egress("up")),
               NEW i \in DOMAIN queue[Egress("up")].waiting
        PROVE  Across(e, i) \in Int
    <2> DEFINE s == queue[Egress("up")].waiting
               first == BytesOf(FirstOf(s, i))
               m == SizeOf(Head(s).packet)
    <2>1. Egress("up") \in QueueIds
      BY DEF QueueIds, Directions
    <2>2. s \in Seq(Waits) /\ s # <<>>
      BY <1>2, <2>1, OneAtATime
    <2>3. \A w \in Waits : SizeOf(w.packet) \in Nat
      BY WaitingIsSized
    <2>4. m \in Nat
      <3>1. Head(s) \in Waits
        <4> HIDE DEF s
        <4> QED BY <2>2
      <3> QED BY <2>3, <3>1
    <2>5. first \in Nat
      <3>1. i \in DOMAIN s
        OBVIOUS
      <3> HIDE DEF s
      <3>2. i - 1 \in 0 .. Len(Tail(s)) /\ (i - 1) + 1 = i
        BY <2>2, <3>1
      <3>3. /\ BytesOf(FirstOf(s, (i - 1) + 1)) =
                  SizeOf(Head(s).packet) + BytesOf(FirstOf(Tail(s), i - 1))
            /\ BytesOf(FirstOf(Tail(s), i - 1)) \in Nat
        BY <2>2, <2>3, <3>2, FirstServed
      <3> QED BY <2>4, <3>2, <3>3
    <2>6. e.at \in Nat /\ Capacity["egress"] \in Nat
      BY <1>1, EgressServes DEF MessagesIInv, WorldIInv, Basics
    <2>7. Capacity["egress"] * e.at \in Nat
      BY <2>6
    <2>8. Across(e, i) = Capacity["egress"] * e.at + first - m
      BY DEF Across
    <2> HIDE DEF first, m
    <2> QED BY <2>4, <2>5, <2>7, <2>8
  <1> QED BY <1>1, <1>2

LEMMA MonoFading ==
    ASSUME FormedIInv, NEW site \in SiteSet, NEW leg \in LegSet,
           NEW t \in Int, NEW u \in Int, t <= u, Fading(site, leg, t)
    PROVE  Fading(site, leg, u)
  <1>0. /\ MessagesIInv
        /\ now \in Nat /\ Slowest \in Nat /\ Sluggish \in Nat /\ EgressWait \in Nat
        /\ Delay[leg] \in Nat /\ Delay["egress"] \in Nat /\ Capacity["egress"] \in Nat
        /\ world.limit \in Nat
        /\ AtEgress(site, leg, t) \in Int /\ AtCentre(site, leg, t) \in Int
        /\ AtEgress(site, leg, u) \in Int /\ AtCentre(site, leg, u) \in Int
    BY Fadings DEF FormedIInv
  <1>1. /\ t + Slowest <= u + Slowest /\ t + Sluggish <= u + Sluggish
        /\ t + Slowest + Delay[leg] <= u + Slowest + Delay[leg]
    BY <1>0
  <1>2. AtEgress(site, leg, t) <= AtEgress(site, leg, u)
    BY <1>0 DEF AtEgress
  <1>3. AtCentre(site, leg, t) <= AtCentre(site, leg, u)
    BY <1>0, <1>2 DEF AtCentre
  <1>4. /\ Capacity["egress"] * AtEgress(site, leg, t) + world.limit \in Int
        /\ Capacity["egress"] * AtEgress(site, leg, u) + world.limit \in Int
        /\ Capacity["egress"] * AtEgress(site, leg, t) + world.limit
           <= Capacity["egress"] * AtEgress(site, leg, u) + world.limit
    <2> DEFINE c == Capacity["egress"]
               a == AtEgress(site, leg, t)
               b == AtEgress(site, leg, u)
    <2>1. c \in Nat /\ a \in Int /\ b \in Int /\ a <= b
      BY <1>0, <1>2
    <2> HIDE DEF c, a, b
    <2>2. c * a \in Int /\ c * b \in Int /\ c * a <= c * b
      BY <2>1
    <2> QED BY <1>0, <2>2 DEF c, a, b
  <1>5. \A x \in calendar : x.at \in Nat
    BY <1>0, EventTimes
  <1>6. ProbesBy(site, leg, u)
    <2>1. ASSUME NEW x \in calendar
          PROVE  /\ ServesEcho(x, site, leg) => x.at <= u + Slowest
                 /\ IsAnswer(x, site, leg) => x.at <= u + Slowest + Delay[leg]
      BY <1>0, <1>1, <1>5 DEF Fading, ProbesBy
    <2> DEFINE last == probes[<<site, leg>>].last
    <2>2. last # <<>> => last[1] \in Nat /\ last[1] <= u + Slowest + Delay[leg]
      <3>1. last # <<>> => last[1] \in Nat /\ last[1] <= t + Slowest + Delay[leg]
        BY DEF Fading, ProbesBy
      <3> HIDE DEF last
      <3> QED BY <1>0, <1>1, <3>1
    <2> QED BY <2>1, <2>2 DEF ProbesBy
  <1>7. ASSUME pathVersion[site] = 0, leg = Legs[1]
        PROVE  ResponsesBy(site, leg, u)
    <2>0. ResponsesBy(site, leg, t)
      BY <1>7 DEF Fading
    <2>1. ASSUME NEW x \in calendar
          PROVE  /\ ServesResponse(x, site, leg) => x.at <= u + Sluggish
                 /\ x.kind = "hop" /\ IsResponse(x.data.packet, site) => x.at <= AtEgress(site, leg, u)
                 /\ x.kind = "deliver" /\ IsResponse(x.data.packet, site) => x.at <= AtCentre(site, leg, u)
      BY <1>0, <1>1, <1>2, <1>3, <1>5, <2>0 DEF ResponsesBy
    <2>2. ASSUME NEW x \in calendar, Ends(x, Egress("up")),
                 NEW i \in DOMAIN queue[Egress("up")].waiting,
                 IsResponse(queue[Egress("up")].waiting[i].packet, site)
          PROVE  Across(x, i) <= Capacity["egress"] * AtEgress(site, leg, u) + world.limit
      <3>1. Across(x, i) <= Capacity["egress"] * AtEgress(site, leg, t) + world.limit
        BY <2>0, <2>2 DEF ResponsesBy
      <3>2. Across(x, i) \in Int
        BY <1>0, <2>2, EventTimes
      <3> QED BY <1>4, <3>1, <3>2
    <2>3. ASSUME NEW o \in generated, NEW k \in DOMAIN delivered,
                 o.service = "scada", o.site = site, delivered[k].id = o.id
          PROVE  delivered[k].at <= AtCentre(site, leg, u)
      <3>1. delivered[k].at <= AtCentre(site, leg, t)
        BY <2>0, <2>3 DEF ResponsesBy
      <3>2. delivered[k].at \in Int
        BY <2>3 DEF FormedIInv, Registered
      <3> QED BY <1>0, <1>3, <3>1, <3>2
    <2> QED BY <2>1, <2>2, <2>3 DEF ResponsesBy
  <1> QED BY <1>6, <1>7 DEF Fading

LEMMA Clock ==
    ASSUME FormedIInv
    PROVE  MessagesIInv /\ now \in Nat
  <1>1. now \in 0 .. End /\ End \in Nat
    BY WorldAssumption DEF FormedIInv, MessagesIInv, WorldIInv, Basics
  <1> QED BY <1>1 DEF FormedIInv

(* A tick and a command leave everything but the clock and the choices. *)
LEMMA FadingStays ==
    ASSUME Tick \/ Leaves, NEW site \in SiteSet, NEW leg \in LegSet, NEW t \in Int,
           Fading(site, leg, t)
    PROVE  Fading(site, leg, t)'
  <1>1. /\ world' = world /\ calendar' = calendar /\ queue' = queue /\ probes' = probes
        /\ delivered' = delivered /\ generated' = generated
        /\ pathVersion'[site] = 0 => pathVersion[site] = 0
    BY DEF Tick, Leaves, actuators, ledger
  <1>2. ProbesBy(site, leg, t)'
    BY <1>1 DEF Fading, ProbesBy, ServesEcho, IsAnswer
  <1>3. ASSUME pathVersion'[site] = 0, leg = Legs[1]
        PROVE  ResponsesBy(site, leg, t)'
    <2>1. ResponsesBy(site, leg, t)
      BY <1>1, <1>3 DEF Fading
    <2>2. AtCentre(site, leg, t)' = AtCentre(site, leg, t)
      BY <1>1 DEF AtCentre, EgressWait
    <2>3. \A e, i : Across(e, i)' = Across(e, i)
      BY <1>1 DEF Across
    <2> QED BY <1>1, <2>1, <2>2, <2>3 DEF ResponsesBy, ServesResponse
  <1> QED BY <1>2, <1>3 DEF Fading

LEMMA BusyStays ==
    ASSUME FormedIInv, Tick \/ Leaves, EgressBusy
    PROVE  EgressBusy'
  <1> DEFINE E == Egress("up")
             c == Capacity["egress"]
  <1>1. calendar' = calendar /\ queue' = queue
    BY DEF Tick, Leaves
  <1>2. MessagesIInv /\ now \in Nat /\ c \in Nat
    BY Clock, EvaluationAssumption
  <1>3. now' = now \/ now' = now + 1
    BY DEF Tick, Leaves
  <1>4. c * now \in Nat /\ c * now' \in Nat /\ c * now <= c * now'
    <2> HIDE DEF c
    <2>1. c * (now + 1) = c * now + c /\ c * now \in Nat
      BY <1>2
    <2> QED BY <1>2, <1>3, <2>1
  <1>5. ASSUME NEW e \in calendar, Ends(e, E)
        PROVE  c * e.at <= c * now' + SizeOf(Head(queue[E].waiting).packet)
    <2> DEFINE s == queue[E].waiting
               n == SizeOf(Head(s).packet)
    <2>1. c * e.at <= c * now + n
      BY <1>5 DEF EgressBusy
    <2>2. s \in Seq(Waits) /\ s # <<>>
      <3>1. E \in QueueIds
        BY DEF QueueIds, Directions
      <3> QED BY <1>2, <1>5, <3>1, OneAtATime
    <2>3. n \in Nat
      <3>1. Head(s) \in Waits
        <4> HIDE DEF s
        <4> QED BY <2>2
      <3> QED BY <3>1, WaitingIsSized
    <2>4. e.at \in Nat
      BY <1>2, EventTimes
    <2> HIDE DEF c, n
    <2>5. c * e.at \in Nat
      BY <1>2, <2>4
    <2> QED BY <1>4, <2>1, <2>3, <2>5 DEF n
  <1> QED BY <1>1, <1>5 DEF EgressBusy

(* A handler keeps it as well, as long as nothing begins after t. *)
LEMMA FadingKept ==
    ASSUME FormedIInv, MessagesIInv', LegsInv, LegsInv', EgressBusy',
           NEW e \in calendar, Handling(e) \/ Serviced(e),
           NEW site \in SiteSet, NEW leg \in LegSet, NEW t \in Int,
           now <= t \/ queue'[<<site, leg, "up">>].rate = 0,
           Fading(site, leg, t)
    PROVE  Fading(site, leg, t)'
  <1>0. now' = now /\ world' = world /\ e.at = now /\ now \in Nat
    BY NothingLate, Clock
  <1>1. Heeds(e) /\ pathVersion' = pathVersion
    <2>1. CASE Handling(e)
      BY <2>1 DEF Handling, Handles
    <2>2. CASE Serviced(e)
      BY <2>2, Zenon DEF Serviced, actuators, Heeds
    <2> QED BY <2>1, <2>2
  <1>2. ProbesBy(site, leg, t)'
    <2>0. ProbesBy(site, leg, t)
      BY DEF Fading
    <2>1. ASSUME NEW y \in calendar'
          PROVE  /\ ServesEcho(y, site, leg)' => y.at <= t + Slowest
                 /\ IsAnswer(y, site, leg) => y.at <= t + Slowest + Delay[leg]
      <3>1. \A x \in calendar : ServesEcho(x, site, leg) => x.at <= t + Slowest
        BY <2>0 DEF ProbesBy
      <3>2. ServesEcho(y, site, leg)' => y.at <= t + Slowest
        BY <3>1, ServesInTime
      <3>3. IsAnswer(y, site, leg) => y.at <= t + Slowest + Delay[leg]
        BY <2>0, AnswersInTime
      <3> QED BY <3>2, <3>3
    <2>2. /\ probes'[<<site, leg>>].last # <<>>
          => /\ probes'[<<site, leg>>].last[1] \in Nat
             /\ probes'[<<site, leg>>].last[1] <= t + Slowest + Delay[leg]
      <3>1. CASE probes'[<<site, leg>>].last = probes[<<site, leg>>].last
        BY <2>0, <3>1 DEF ProbesBy
      <3>2. CASE /\ e.kind = "answered"
                 /\ <<site, leg>> = <<e.data.packet.site, e.data.packet.route[1][2]>>
                 /\ probes'[<<site, leg>>].last[1] = now
        <4>1. IsAnswer(e, site, leg)
          BY <3>2 DEF IsAnswer
        <4>2. now <= t + Slowest + Delay[leg]
          BY <1>0, <2>0, <4>1 DEF ProbesBy
        <4> QED BY <1>0, <3>2, <4>2
      <3> QED BY <1>1, <3>1, <3>2 DEF Heeds
    <2> QED BY <2>1, <2>2 DEF ProbesBy
  <1>3. ASSUME pathVersion'[site] = 0, leg = Legs[1]
        PROVE  ResponsesBy(site, leg, t)'
    <2>0. ResponsesBy(site, leg, t) /\ pathVersion[site] = 0
      BY <1>1, <1>3 DEF Fading
    <2>1. ASSUME NEW y \in calendar'
          PROVE  /\ ServesResponse(y, site, leg)' => y.at <= t + Sluggish
                 /\ y.kind = "hop" /\ IsResponse(y.data.packet, site) => y.at <= AtEgress(site, leg, t)
                 /\ y.kind = "deliver" /\ IsResponse(y.data.packet, site) => y.at <= AtCentre(site, leg, t)
      <3>1. \A x \in calendar : ServesResponse(x, site, leg) => x.at <= t + Sluggish
        BY <2>0 DEF ResponsesBy
      <3>2. ServesResponse(y, site, leg)' => y.at <= t + Sluggish
        BY <3>1, ServesInTime
      <3>3. y.kind = "hop" /\ IsResponse(y.data.packet, site) => y.at <= AtEgress(site, leg, t)
        BY <1>3, <2>0, HopsInTime
      <3>4. y.kind = "deliver" /\ IsResponse(y.data.packet, site) => y.at <= AtCentre(site, leg, t)
        BY <1>3, <2>0, DeliveriesInTime
      <3> QED BY <3>2, <3>3, <3>4
    <2>2. ASSUME NEW y \in calendar', Ends(y, Egress("up")),
                 NEW i \in DOMAIN queue'[Egress("up")].waiting,
                 IsResponse(queue'[Egress("up")].waiting[i].packet, site)
          PROVE  Across(y, i)' <= Capacity["egress"] * AtEgress(site, leg, t) + world.limit
      <3>1. Capacity["egress"] * y.at + BytesOf(FirstOf(queue'[Egress("up")].waiting, i))
              - SizeOf(Head(queue'[Egress("up")].waiting).packet)
            <= Capacity["egress"] * AtEgress(site, Legs[1], t) + world.limit
        <4>1. CASE Handling(e)
          BY <1>3, <2>0, <2>2, <4>1, EgressGrows
        <4>2. CASE Serviced(e)
          BY <1>3, <2>0, <2>2, <4>2, EgressServed
        <4> QED BY <4>1, <4>2
      <3> QED BY <1>3, <3>1 DEF Across
    <2>3. ASSUME NEW o \in generated', NEW k \in DOMAIN delivered',
                 o.service = "scada", o.site = site, delivered'[k].id = o.id
          PROVE  delivered'[k].at <= AtCentre(site, leg, t)
      BY <1>3, <2>0, <2>3, DeliveredInTime
    <2>4. AtCentre(site, leg, t)' = AtCentre(site, leg, t)
      BY <1>0 DEF AtCentre, EgressWait
    <2> QED BY <1>0, <2>1, <2>2, <2>3, <2>4 DEF ResponsesBy
  <1> QED BY <1>2, <1>3 DEF Fading

Recorded == \E S : impairments \in Seq(S)

FadingIInv == FormedIInv /\ ProbesTyped /\ Recorded /\ LegsInv /\ FadingInv

LEMMA FadingStart ==
    ASSUME Init
    PROVE  FadingIInv
  <1>1. FormedIInv /\ LegsInv
    BY FormedStart, LegsStart
  <1>2. /\ probes = [leg \in SiteSet \X LegSet |->
                       [sent |-> {}, last |-> <<>>, answered |-> 0, timedOut |-> 0]]
        /\ delivered = <<>> /\ impairments = <<>>
    BY DEF Init
  <1>3. ProbesTyped
    BY <1>2 DEF ProbesTyped
  <1>4. Recorded
    <2>1. <<>> \in Seq({})
      OBVIOUS
    <2> QED BY <1>2, <2>1 DEF Recorded
  <1>5. ASSUME NEW e \in calendar PROVE e.kind \in Starting
    <2>1. calendar = {Scheduled(InitialEvents[k], k) : k \in DOMAIN InitialEvents}
      BY DEF Init
    <2>2. PICK k \in DOMAIN InitialEvents : e = Scheduled(InitialEvents[k], k)
      BY <2>1
    <2>3. InitialEvents[k].kind \in Starting
      BY <2>2, InitialCalendar
    <2> QED BY <2>2, <2>3 DEF Scheduled
  <1>6. ASSUME NEW e \in calendar
        PROVE  /\ \A k : ~Ends(e, k)
               /\ e.kind \notin {"hop", "deliver", "answered"}
    BY <1>5 DEF Starting, Ends
  <1>7. ASSUME NEW site \in SiteSet, NEW leg \in LegSet, NEW t
        PROVE  Fading(site, leg, t)
    <2>1. ProbesBy(site, leg, t)
      <3>1. probes[<<site, leg>>].last = <<>>
        BY <1>2
      <3> QED BY <1>6, <3>1 DEF ProbesBy, ServesEcho, IsAnswer
    <2>2. ResponsesBy(site, leg, t)
      <3>1. DOMAIN delivered = {}
        BY <1>2
      <3> QED BY <1>6, <3>1 DEF ResponsesBy, ServesResponse
    <2> QED BY <2>1, <2>2 DEF Fading
  <1>8. EgressBusy
    BY <1>6 DEF EgressBusy
  <1> QED BY <1>1, <1>3, <1>4, <1>7, <1>8 DEF FadingIInv, FadingInv

(* A disturbance that cuts a leg is the last it has had. *)
LEMMA CutsStay ==
    ASSUME FadingIInv, LegsInv', NEW e \in calendar, Handling(e) \/ Serviced(e),
           NEW site \in SiteSet, NEW leg \in LegSet, NEW t \in Int,
           queue'[<<site, leg, "up">>].rate = 0, CutBy(site, leg, t)'
    PROVE  Fading(site, leg, t)
  <1> DEFINE up == <<site, leg, "up">>
  <1>0. /\ FormedIInv /\ LegsInv /\ now \in Nat /\ \E S : impairments \in Seq(S)
    BY Clock DEF FadingIInv, Recorded
  <1>1. up \in QueueIds
    BY DEF QueueIds, Directions
  <1>2. CASE SameRates /\ impairments' = impairments
    <2>1. queue[up].rate = 0
      BY <1>1, <1>2 DEF SameRates
    <2>2. CutBy(site, leg, t)
      BY <1>2 DEF CutBy
    <2> QED BY <2>1, <2>2 DEF FadingIInv, FadingInv
  <1>3. CASE Disturb(e)
    <2>1. /\ impairments' = Append(impairments, e.data) /\ e.data.at = now
          /\ queue'[up].rate # queue[up].rate => e.data.site = site /\ e.data.leg = leg
      BY <1>0, <1>3, LegsDisturbed
    <2> DEFINE n == Len(impairments)
    <2>2. /\ n \in Nat /\ DOMAIN impairments = 1 .. n /\ DOMAIN impairments' = 1 .. n + 1
          /\ impairments'[n + 1] = e.data
          /\ \A k \in 1 .. n : impairments'[k] = impairments[k]
      BY <1>0, <2>1
    <2> HIDE DEF n
    <2>3. CASE queue[up].rate = 0
      <3>1. \A k \in DOMAIN impairments : k \in DOMAIN impairments' /\ impairments'[k] = impairments[k]
        BY <2>2
      <3>2. CutBy(site, leg, t)
        BY <3>1 DEF CutBy
      <3> QED BY <2>3, <3>2 DEF FadingIInv, FadingInv
    <2>4. CASE queue[up].rate # 0
      <3>1. n + 1 \in DOMAIN impairments' /\ impairments'[n + 1].at = now
            /\ impairments'[n + 1].site = site /\ impairments'[n + 1].leg = leg
        BY <2>1, <2>2, <2>4
      <3>2. now <= t
        BY <3>1 DEF CutBy
      <3>3. Fading(site, leg, now)
        BY DEF FadingIInv, FadingInv
      <3>4. now \in Int
        BY <1>0
      <3> QED BY <1>0, <3>2, <3>3, <3>4, MonoFading
    <2> QED BY <2>3, <2>4
  <1>4. CASE Serviced(e)
    <2>1. impairments' = impairments
      BY <1>4, Zenon DEF Serviced, legs
    <2>2. SameRates
      BY <1>0, <1>4, ServicedDoes DEF FormedIInv
    <2> QED BY <1>2, <2>1, <2>2
  <1> QED BY <1>2, <1>3, <1>4 DEF Handling

LEMMA FadingHandled ==
    ASSUME FadingIInv, FormedIInv', NEW e \in calendar, Handling(e) \/ Serviced(e)
    PROVE  FadingIInv'
  <1>0. /\ FormedIInv /\ LegsInv /\ ProbesTyped /\ FadingInv /\ now \in Nat /\ now' = now
        /\ \E S : impairments \in Seq(S)
    BY NothingLate, Clock DEF FadingIInv, Recorded
  <1>1. ProbesTyped'
    BY <1>0 DEF Handling, Serviced, ProbesTyped
  <1>2. LegsInv' /\ Recorded'
    <2>1. CASE SameRates /\ impairments' = impairments
      <3>1. LegsInv'
        BY <1>0, <2>1, LegsStay
      <3> QED BY <1>0, <2>1, <3>1 DEF Recorded
    <2>2. CASE Disturb(e)
      BY <1>0, <2>2, LegsDisturbed DEF Recorded
    <2>3. CASE Serviced(e)
      <3>1. impairments' = impairments
        BY <2>3 DEF Serviced, legs
      <3>2. SameRates
        BY <1>0, <2>3, ServicedDoes DEF FormedIInv
      <3> QED BY <2>1, <3>1, <3>2
    <2> QED BY <2>1, <2>2, <2>3 DEF Handling
  <1>3. MessagesIInv'
    BY DEF FormedIInv
  <1>4. EgressBusy'
    BY <1>0, <1>2, <1>3, StaysBusy DEF FadingInv
  <1>5. ASSUME NEW site \in SiteSet, NEW leg \in LegSet
        PROVE  /\ Fading(site, leg, now)'
               /\ queue'[<<site, leg, "up">>].rate = 0 =>
                     \A t \in Int : CutBy(site, leg, t)' => Fading(site, leg, t)'
    <2>1. Fading(site, leg, now)'
      <3>1. PICK t \in Int : t = now
        BY <1>0
      <3>2. Fading(site, leg, t)
        BY <1>0, <3>1 DEF FadingInv
      <3>3. Fading(site, leg, t)'
        <4>1. now <= t
          BY <1>0, <3>1
        <4> QED BY <1>0, <1>2, <1>3, <1>4, <3>2, <4>1, FadingKept
      <3> QED BY <1>0, <3>1, <3>3
    <2>2. ASSUME queue'[<<site, leg, "up">>].rate = 0, NEW t \in Int, CutBy(site, leg, t)'
          PROVE  Fading(site, leg, t)'
      <3>1. Fading(site, leg, t)
        BY <1>2, <2>2, CutsStay
      <3> QED BY <1>0, <1>2, <1>3, <1>4, <2>2, <3>1, FadingKept
    <2> QED BY <2>1, <2>2
  <1>6. FadingInv'
    BY <1>4, <1>5 DEF FadingInv
  <1> QED BY <1>1, <1>2, <1>6 DEF FadingIInv

LEMMA FadingIdle ==
    ASSUME FadingIInv, FormedIInv', Tick \/ Leaves
    PROVE  FadingIInv'
  <1>0. /\ FormedIInv /\ LegsInv /\ ProbesTyped /\ FadingInv /\ now \in Nat
        /\ \E S : impairments \in Seq(S)
    BY Clock DEF FadingIInv, Recorded
  <1>1. /\ queue' = queue /\ probes' = probes /\ impairments' = impairments
        /\ now' = now \/ now' = now + 1
    BY DEF Tick, Leaves, legs
  <1>2. ProbesTyped' /\ Recorded'
    BY <1>0, <1>1 DEF ProbesTyped, Recorded
  <1>3. LegsInv'
    <2>1. SameRates
      BY <1>1 DEF SameRates
    <2> QED BY <1>0, <1>1, <2>1, LegsStay
  <1>4. EgressBusy'
    BY <1>0, BusyStays DEF FadingInv
  <1>5. ASSUME NEW site \in SiteSet, NEW leg \in LegSet
        PROVE  /\ Fading(site, leg, now)'
               /\ queue'[<<site, leg, "up">>].rate = 0 =>
                     \A t \in Int : CutBy(site, leg, t)' => Fading(site, leg, t)'
    <2>1. Fading(site, leg, now)'
      <3>1. PICK t \in Int : t = now'
        BY <1>0, <1>1
      <3>2. Fading(site, leg, now) /\ now \in Int /\ now <= t
        <4>1. Fading(site, leg, now)
          BY <1>0 DEF FadingInv
        <4>2. now \in Int /\ now <= t
          BY <1>0, <1>1, <3>1
        <4> QED BY <4>1, <4>2
      <3>3. Fading(site, leg, t)
        BY <1>0, <3>2, MonoFading
      <3>4. Fading(site, leg, t)'
        BY <3>3, FadingStays
      <3> QED BY <3>1, <3>4
    <2>2. ASSUME queue'[<<site, leg, "up">>].rate = 0, NEW t \in Int, CutBy(site, leg, t)'
          PROVE  Fading(site, leg, t)'
      <3>1. CutBy(site, leg, t)
        BY <1>1, <2>2 DEF CutBy
      <3>2. Fading(site, leg, t)
        BY <1>0, <1>1, <2>2, <3>1 DEF FadingInv
      <3> QED BY <3>2, FadingStays
    <2> QED BY <2>1, <2>2
  <1>6. FadingInv'
    BY <1>4, <1>5 DEF FadingInv
  <1> QED BY <1>2, <1>3, <1>6 DEF FadingIInv

LEMMA FadingInductive ==
    ASSUME FadingIInv, [Next]_vars
    PROVE  FadingIInv'
  <1>1. FormedIInv /\ ProbesTyped
    BY DEF FadingIInv
  <1>2. FormedIInv'
    BY <1>1, FormedKept
  <1> QED BY <1>1, <1>2, StepsAre, FadingHandled, FadingIdle

-------------------------------------------------------------------------------
(* What it means for the evidence there is.                                  *)

(* A leg that serves nothing has been cut, and fades since.                  *)
LEMMA CutIsLast ==
    ASSUME FadingIInv, NEW site \in SiteSet, NEW leg \in LegSet,
           queue[<<site, leg, "up">>].rate = 0
    PROVE  /\ impairments[LastChange(site, leg)].at \in Nat
           /\ Fading(site, leg, impairments[LastChange(site, leg)].at)
  <1> DEFINE K == {k \in DOMAIN impairments : impairments[k].site = site /\ impairments[k].leg = leg}
             last == LastChange(site, leg)
  <1>1. PICK S : impairments \in Seq(S)
    BY DEF FadingIInv, Recorded
  <1>2. DOMAIN impairments = 1 .. Len(impairments) /\ Len(impairments) \in Nat
    BY <1>1
  <1>3. K \subseteq Nat /\ K # {} /\ \A k \in K : k <= Len(impairments)
    <2>1. K # {}
      <3>1. LegsInv
        BY DEF FadingIInv
      <3>2. \E k \in DOMAIN impairments : impairments[k].site = site /\ impairments[k].leg = leg
        BY <3>1 DEF LegsInv
      <3> QED BY <3>2
    <2>2. \A k \in K : k \in 1 .. Len(impairments)
      BY <1>2
    <2> HIDE DEF K
    <2> QED BY <1>2, <2>1, <2>2
  <1>4. last = Max(K)
    BY DEF LastChange
  <1>5. PICK most \in K : \A k \in K : k <= most
    <2> HIDE DEF K
    <2> QED BY <1>2, <1>3, GreatestBelow
  <1>6. last \in K /\ \A k \in K : k <= last
    <2>1. \E x \in K : \A y \in K : x >= y
      <3> HIDE DEF K
      <3> QED BY <1>3, <1>5
    <2> HIDE DEF K, last
    <2> QED BY <1>3, <1>4, <2>1 DEF Max
  <1> HIDE DEF last
  <1>7. impairments[last].at \in Nat
    <2>1. now \in Nat /\ impairments[last].at \in 0 .. now
      BY <1>6, WorldAssumption
         DEF FadingIInv, LegsInv, FormedIInv, MessagesIInv, WorldIInv, Basics
    <2> QED BY <2>1
  <1>8. ASSUME NEW k \in K PROVE impairments[k].at <= impairments[last].at
    <2>1. k \in Nat /\ last \in Nat /\ k <= last /\ k \in DOMAIN impairments
          /\ last \in DOMAIN impairments
      BY <1>3, <1>6
    <2>2. CASE k = last
      BY <1>7, <2>2
    <2>3. CASE k < last
      BY <2>1, <2>3 DEF FadingIInv, LegsInv
    <2> QED BY <2>1, <2>2, <2>3
  <1>9. CutBy(site, leg, impairments[last].at)
    BY <1>8 DEF CutBy
  <1>10. impairments[last].at \in Int
    BY <1>7
  <1>11. Fading(site, leg, impairments[last].at)
    BY <1>9, <1>10 DEF FadingIInv, FadingInv
  <1> QED BY <1>7, <1>11 DEF last

(* What is relayed is offered, was observed, and is not stale.               *)
LEMMA RelayedIs ==
    ASSUME NEW site, NEW s \in Relayed(site)
    PROVE  /\ s \in ToSet(Expected) /\ s \in Offered /\ s.site = site
           /\ Observation(s).quality = "observed"
           /\ Observation(s).available >= now - MaxAge
  <1>1. s \in ToSet(Expected) /\ Batch(site)[s].quality = "observed"
    BY DEF Relayed
  <1>2. Batch(site)[s] =
           IF s \notin Offered \/ s.site # site THEN Missing("absent")
           ELSE IF Observation(s).quality = "missing" \/ Observation(s).available >= now - MaxAge
                THEN Observation(s) ELSE Missing("stale")
    BY <1>1 DEF Batch
  <1>3. \A reason : Missing(reason).quality = "missing"
    BY DEF Missing
  <1> QED BY <1>1, <1>2, <1>3

LEMMA ProbesDo == FadingIInv => ProbesFade
  <1> SUFFICES ASSUME FadingIInv, NEW s \in ToSet(Expected), s.metric = "path_probe",
                      s \in Relayed(s.site), queue[<<s.site, s.part, "up">>].rate = 0
               PROVE  now <= impairments[LastChange(s.site, s.part)].at
                                + Slowest + Delay[s.part] + Min({ProbeValidity, MaxAge})
    BY DEF ProbesFade
  <1> DEFINE cut == impairments[LastChange(s.site, s.part)].at
             last == probes[<<s.site, s.part>>].last
  <1>1. /\ s \in Offered /\ Observation(s).quality = "observed"
        /\ Observation(s).available >= now - MaxAge
    BY RelayedIs
  <1>2. s.site \in SiteSet /\ s.part \in LegSet
    BY <1>1, EvaluationAssumption
  <1>3. Observation(s) = ProbeReading(s.site, s.part)
    BY DEF Observation
  <1>4. Evidence(s.site, s.part)
    BY <1>1, <1>3 DEF ProbeReading, Missing
  <1>5. last # <<>> /\ now - last[1] <= ProbeValidity
    BY <1>4 DEF Evidence
  <1>6. last[1] >= now - MaxAge
    <2>1. Observation(s).available = last[1]
      BY <1>3, <1>4 DEF ProbeReading
    <2> QED BY <1>1, <2>1
  <1>7. cut \in Nat /\ Fading(s.site, s.part, cut)
    BY <1>2, CutIsLast
  <1>8. last[1] \in Nat /\ last[1] <= cut + Slowest + Delay[s.part]
    BY <1>5, <1>7 DEF Fading, ProbesBy
  <1>9. /\ now \in Nat /\ Slowest \in Nat /\ Delay[s.part] \in Nat
        /\ ProbeValidity \in Nat /\ MaxAge \in Nat
    <2>1. MessagesIInv /\ 0 \in Int
      BY DEF FadingIInv, FormedIInv
    <2> QED BY <1>2, <2>1, Fadings, EvaluationAssumption
  <1>10. Min({ProbeValidity, MaxAge}) \in {ProbeValidity, MaxAge}
    <2>1. \E x \in {ProbeValidity, MaxAge} : \A y \in {ProbeValidity, MaxAge} : x <= y
      BY <1>9
    <2> QED BY <2>1 DEF Min
  <1> HIDE DEF cut, last
  <1>11. now <= cut + Slowest + Delay[s.part] + ProbeValidity
    BY <1>5, <1>7, <1>8, <1>9
  <1>12. now <= cut + Slowest + Delay[s.part] + MaxAge
    BY <1>6, <1>7, <1>8, <1>9
  <1>13. now <= cut + Slowest + Delay[s.part] + Min({ProbeValidity, MaxAge})
    BY <1>10, <1>11, <1>12
  <1> QED BY <1>13 DEF cut

-------------------------------------------------------------------------------
(* How an agent is assessed.                                                 *)

LEMMA UpTo ==
    ASSUME NEW Q, 0 \in Q, \A n \in Nat : n \in Q => n + 1 \in Q
    PROVE  Nat \subseteq Q
  <1> DEFINE Bad == Nat \ Q
  <1>1. Bad = {}
    <2> SUFFICES ASSUME Bad # {} PROVE FALSE
      OBVIOUS
    <2>1. Bad \subseteq Nat
      OBVIOUS
    <2> HIDE DEF Bad
    <2>2. PICK n \in Bad : \A m \in Bad : n <= m
      BY <2>1, LeastNumber
    <2>3. n \in Nat /\ n \notin Q /\ n # 0
      BY <2>2 DEF Bad
    <2>4. n - 1 \in Nat /\ (n - 1) + 1 = n
      BY <2>3
    <2>5. n - 1 \notin Bad
      BY <2>2, <2>3, <2>4
    <2>6. n - 1 \in Q
      BY <2>4, <2>5 DEF Bad
    <2> QED BY <2>3, <2>4, <2>6
  <1> QED BY <1>1

LEMMA MaxOf ==
    ASSUME NEW n \in Nat, NEW s \in SUBSET (1 .. n), n \in s
    PROVE  Max(s) = n
  <1>1. \E x \in s : \A y \in s : x >= y
    BY DEF Max
  <1>2. Max(s) \in s /\ \A y \in s : Max(s) >= y
    BY <1>1 DEF Max
  <1>3. Max(s) \in 1 .. n /\ Max(s) >= n
    BY <1>2
  <1> QED BY <1>3

AssessedTo(site, p, status) ==
    IF Unknown(site, p.metric) THEN "unknown"
    ELSE IF Passes(p, Heard(site, p.metric)) THEN status ELSE "contradicted"

(* One predicate after the other.                                            *)
LEMMA AssessedInOrder ==
    ASSUME NEW agent \in Agents
    PROVE  \E g : /\ g[0] = "supported"
                  /\ \A j \in 1 .. Len(agent.satisfaction) :
                        g[j] = AssessedTo(agent.site, agent.satisfaction[j], g[j - 1])
                  /\ Assessment(agent) = g[Len(agent.satisfaction)]
  <1> DEFINE asked == agent.satisfaction
             n == Len(asked)
             base == "supported"
             step(p, status) == AssessedTo(agent.site, p, status)
             body(f, s) == IF s = {} THEN base ELSE step(asked[Max(s)], f[s \ {Max(s)}])
             is(f, S) == f = [s \in SUBSET S |-> body(f, s)]
             iter == CHOOSE f : is(f, DOMAIN asked)
  <1>1. Assessment(agent) = iter[DOMAIN asked]
    BY DEF Assessment, AssessedTo, FoldLeft, MapThenFoldSet
  <1>2. n \in Nat /\ DOMAIN asked = 1 .. n
    <2>1. asked \in Seq(ToSet(asked))
      BY EvaluationAssumption
    <2> QED BY <2>1
  <1> HIDE DEF n, base, step, asked
  <1>3. \A m \in Nat : m <= n => \E f : is(f, 1 .. m)
    <2> DEFINE Q == {m \in Nat : m <= n => \E f : is(f, 1 .. m)}
    <2>1. 0 \in Q
      <3> DEFINE f == [s \in SUBSET (1 .. 0) |-> base]
      <3>1. \A s \in SUBSET (1 .. 0) : f[s] = body(f, s)
        OBVIOUS
      <3>2. f = [s \in SUBSET (1 .. 0) |-> f[s]]
        OBVIOUS
      <3> HIDE DEF f, body
      <3>3. is(f, 1 .. 0)
        BY <3>1, <3>2
      <3> HIDE DEF is
      <3> QED BY <3>3
    <2>2. ASSUME NEW m \in Nat, m \in Q PROVE m + 1 \in Q
      <3> SUFFICES ASSUME m + 1 <= n PROVE \E f : is(f, 1 .. m + 1)
        <4> HIDE DEF is
        <4>1. m + 1 \in Nat
          OBVIOUS
        <4> QED BY <4>1
      <3>1. PICK f : is(f, 1 .. m)
        <4> HIDE DEF is
        <4> QED BY <1>2, <2>2
      <3> DEFINE g == [s \in SUBSET (1 .. m + 1) |->
                         IF m + 1 \in s THEN step(asked[m + 1], f[s \ {m + 1}]) ELSE f[s]]
      <3>2. ASSUME NEW s \in SUBSET (1 .. m + 1)
            PROVE  g[s] = body(g, s)
        <4>1. CASE m + 1 \in s
          <5>1. Max(s) = m + 1
            BY <4>1, MaxOf
          <5>2. s \ {m + 1} \in SUBSET (1 .. m) /\ s # {}
            BY <4>1
          <5>3. g[s] = step(asked[m + 1], f[s \ {m + 1}])
            BY <4>1
          <5>4. g[s \ {m + 1}] = f[s \ {m + 1}]
            BY <5>2
          <5> HIDE DEF g
          <5> QED BY <5>1, <5>2, <5>3, <5>4
        <4>2. CASE m + 1 \notin s
          <5>1. s \in SUBSET (1 .. m) /\ g[s] = f[s]
            BY <4>2
          <5>2. f[s] = body(f, s)
            <6> HIDE DEF body
            <6> QED BY <3>1, <5>1
          <5>3. CASE s = {}
            <6> HIDE DEF g
            <6> QED BY <5>1, <5>2, <5>3
          <5>4. CASE s # {}
            <6>1. s \ {Max(s)} \in SUBSET (1 .. m)
              BY <5>1
            <6>2. g[s \ {Max(s)}] = f[s \ {Max(s)}]
              BY <6>1
            <6> HIDE DEF g
            <6> QED BY <5>1, <5>2, <5>4, <6>2
          <5> QED BY <5>3, <5>4
        <4> QED BY <4>1, <4>2
      <3>3. is(g, 1 .. m + 1)
        <4>1. g = [s \in SUBSET (1 .. m + 1) |-> g[s]]
          OBVIOUS
        <4> HIDE DEF g, body
        <4> QED BY <3>2, <4>1
      <3> HIDE DEF g, is
      <3> QED BY <3>3
    <2>3. Nat \subseteq Q
      <3> HIDE DEF Q
      <3> QED BY <2>1, <2>2, UpTo
    <2> QED BY <2>3
  <1>4. is(iter, 1 .. n)
    <2>1. \E f : is(f, DOMAIN asked)
      <3>1. n <= n
        BY <1>2
      <3> HIDE DEF is
      <3> QED BY <1>2, <1>3, <3>1
    <2>2. is(iter, DOMAIN asked)
      <3> HIDE DEF is
      <3> QED BY <2>1
    <2> HIDE DEF is, iter
    <2> QED BY <1>2, <2>2
  <1> DEFINE g == [j \in 0 .. n |-> iter[1 .. j]]
  <1>5. \A s \in SUBSET (1 .. n) : iter[s] = body(iter, s)
    <2> HIDE DEF iter, body
    <2> QED BY <1>4
  <1>6. g[0] = base
    <2>1. iter[{}] = base
      <3> HIDE DEF iter
      <3> QED BY <1>5
    <2>2. 1 .. 0 = {}
      OBVIOUS
    <2> HIDE DEF iter
    <2> QED BY <1>2, <2>1, <2>2
  <1>7. ASSUME NEW j \in 1 .. n
        PROVE  g[j] = step(asked[j], g[j - 1])
    <2>1. Max(1 .. j) = j /\ (1 .. j) \ {j} = 1 .. j - 1 /\ 1 .. j # {}
      <3>1. j \in Nat /\ j \in 1 .. j /\ 1 .. j \in SUBSET (1 .. j)
        BY <1>2
      <3>2. Max(1 .. j) = j
        BY <3>1, MaxOf
      <3> QED BY <3>1, <3>2
    <2>2. iter[1 .. j] = body(iter, 1 .. j)
      <3>1. 1 .. j \in SUBSET (1 .. n)
        BY <1>2
      <3> HIDE DEF iter, body
      <3> QED BY <1>5, <3>1
    <2>3. iter[1 .. j] = step(asked[j], iter[1 .. j - 1])
      <3> HIDE DEF iter
      <3> QED BY <2>1, <2>2
    <2>4. j - 1 \in 0 .. n /\ j \in 0 .. n
      BY <1>2
    <2> HIDE DEF iter
    <2> QED BY <2>3, <2>4
  <1>8. Assessment(agent) = g[n]
    <2> HIDE DEF iter
    <2> QED BY <1>1, <1>2
  <1> HIDE DEF g
  <1>9. \A j \in 1 .. n : g[j] = step(asked[j], g[j - 1])
    BY <1>7
  <1> QED BY <1>6, <1>8, <1>9 DEF step, base, n, asked


(* Nobody is supported without having been heard on everything.              *)
LEMMA SupportIsHeard ==
    ASSUME NEW agent \in Agents, Assessment(agent) = "supported",
           NEW p \in ToSet(agent.satisfaction)
    PROVE  ~Unknown(agent.site, p.metric)
  <1> DEFINE asked == agent.satisfaction
             n == Len(asked)
  <1>1. n \in Nat /\ DOMAIN asked = 1 .. n
    <2>1. asked \in Seq(ToSet(asked))
      BY EvaluationAssumption
    <2> QED BY <2>1
  <1>2. PICK g : /\ \A j \in 1 .. n : g[j] = AssessedTo(agent.site, asked[j], g[j - 1])
                 /\ Assessment(agent) = g[n]
    BY AssessedInOrder
  <1>3. ASSUME NEW j \in 1 .. n, g[j] = "supported"
        PROVE  g[j - 1] = "supported" /\ ~Unknown(agent.site, asked[j].metric)
    <2>1. AssessedTo(agent.site, asked[j], g[j - 1]) = "supported"
      BY <1>2, <1>3
    <2> QED BY <2>1 DEF AssessedTo
  <1> HIDE DEF n
  <1> DEFINE Q == {m \in Nat : m <= n => g[n - m] = "supported"}
  <1>4. 0 \in Q
    <2>1. n - 0 = n
      BY <1>1
    <2> QED BY <1>2, <2>1
  <1>5. ASSUME NEW m \in Nat, m \in Q PROVE m + 1 \in Q
    <2>1. CASE m + 1 <= n
      <3>1. n - m \in 1 .. n /\ m <= n /\ n - (m + 1) = (n - m) - 1
        BY <1>1, <2>1
      <3>2. g[n - m] = "supported"
        BY <1>5, <3>1
      <3>3. g[n - (m + 1)] = "supported"
        BY <1>3, <3>1, <3>2
      <3> QED BY <3>3
    <2>2. CASE ~(m + 1 <= n)
      BY <2>2
    <2> QED BY <2>1, <2>2
  <1>6. Nat \subseteq Q
    <2> HIDE DEF Q
    <2> QED BY <1>4, <1>5, UpTo
  <1>7. PICK i \in 1 .. n : asked[i] = p
    BY <1>1 DEF ToSet
  <1>8. g[i] = "supported"
    <2>1. n - i \in Nat /\ n - i <= n /\ n - (n - i) = i
      BY <1>1, <1>7
    <2>2. n - i \in Q
      BY <1>6, <2>1
    <2> QED BY <2>1, <2>2
  <1> QED BY <1>3, <1>7, <1>8

(* A response that is reported was delivered within what is reported.        *)
LEMMA ReportedLately ==
    ASSUME FormedIInv, NEW site, Completed(site) # {}
    PROVE  \E o \in generated, k \in DOMAIN delivered :
              /\ o.service = "scada" /\ o.site = site /\ delivered[k].id = o.id
              /\ delivered[k].at \in Nat
              /\ now < delivered[k].at + SummaryDelay + Window
  <1> DEFINE end == Max({0, now - SummaryDelay})
             start == Max({0, end - Window})
  <1>0. now \in Nat /\ SummaryDelay \in Nat /\ Window \in Nat
    BY WorldAssumption, EvaluationAssumption DEF FormedIInv, MessagesIInv, WorldIInv, Basics
  <1>1. ASSUME NEW x \in Int PROVE Max({0, x}) \in Nat /\ x <= Max({0, x})
    <2>1. \E a \in {0, x} : \A b \in {0, x} : a >= b
      OBVIOUS
    <2>2. Max({0, x}) \in {0, x} /\ \A b \in {0, x} : Max({0, x}) >= b
      BY <2>1 DEF Max
    <2> QED BY <2>2
  <1>2. end \in Nat /\ now - SummaryDelay <= end
    <2>1. now - SummaryDelay \in Int
      BY <1>0
    <2> QED BY <1>1, <2>1
  <1> HIDE DEF end
  <1>3. start \in Nat /\ end - Window <= start
    <2>1. end - Window \in Int
      BY <1>0, <1>2
    <2> QED BY <1>1, <2>1
  <1> HIDE DEF start
  <1>4. PICK c \in Completed(site) : TRUE
    OBVIOUS
  <1>5. /\ c[1] \in generated /\ c[2] \in DOMAIN delivered
        /\ c[1].service = "scada" /\ c[1].site = site /\ delivered[c[2]].id = c[1].id
        /\ delivered[c[2]].at \in start + 1 .. end
    BY <1>4 DEF Completed, start, end
  <1>6. now < delivered[c[2]].at + SummaryDelay + Window /\ delivered[c[2]].at \in Nat
    BY <1>0, <1>2, <1>3, <1>5
  <1> QED BY <1>5, <1>6

LEMMA ResponsesDo == FadingIInv => SatisfactionFades
  <1> SUFFICES ASSUME FadingIInv, NEW agent \in Agents,
                      NEW p \in ToSet(agent.satisfaction), p.metric = "scada_response",
                      pathVersion[agent.site] = 0,
                      queue[<<agent.site, path[agent.site], "up">>].rate = 0,
                      Assessment(agent) = "supported"
               PROVE  now < impairments[LastChange(agent.site, path[agent.site])].at
                              + (Size["response"] \div Min(Rates \ {0})) + Delay[path[agent.site]]
                              + EgressWait + Delay["egress"] + SummaryDelay + Window
    BY DEF SatisfactionFades
  <1> DEFINE site == agent.site
             leg == path[site]
             cut == impairments[LastChange(site, leg)].at
  <1>0. FormedIInv /\ MessagesIInv
    BY DEF FadingIInv, FormedIInv
  <1>1. site \in SiteSet /\ leg \in LegSet /\ leg = Legs[1]
    BY <1>0, EvaluationAssumption DEF MessagesIInv, WorldIInv, Basics, FormedIInv, Unmoved
  <1>2. PICK s \in Relayed(site) : s.metric = "scada_response"
    <2>1. ~Unknown(site, "scada_response")
      BY SupportIsHeard
    <2> QED BY <2>1 DEF Unknown
  <1>3. Completed(site) # {}
    <2>1. s.site = site /\ Observation(s).quality = "observed"
      BY RelayedIs
    <2>2. Observation(s) = ResponseReading(site)
      BY <1>2, <2>1 DEF Observation
    <2>3. ASSUME Completed(site) = {} PROVE ResponseReading(site) = Missing("no_completion")
      BY <2>3 DEF ResponseReading
    <2>4. Missing("no_completion").quality = "missing"
      BY DEF Missing
    <2> QED BY <2>1, <2>2, <2>3, <2>4
  <1>4. PICK o \in generated, k \in DOMAIN delivered :
           /\ o.service = "scada" /\ o.site = site /\ delivered[k].id = o.id
           /\ delivered[k].at \in Nat
           /\ now < delivered[k].at + SummaryDelay + Window
    BY <1>0, <1>3, ReportedLately
  <1>5. cut \in Nat /\ Fading(site, leg, cut)
    BY <1>1, CutIsLast
  <1>6. delivered[k].at <= AtCentre(site, leg, cut)
    BY <1>1, <1>4, <1>5 DEF Fading, ResponsesBy
  <1>7. /\ now \in Nat /\ Sluggish \in Nat /\ Delay[leg] \in Nat /\ EgressWait \in Nat
        /\ Delay["egress"] \in Nat /\ SummaryDelay \in Nat /\ Window \in Nat
    <2>1. 0 \in Int
      OBVIOUS
    <2> QED BY <1>0, <1>1, <2>1, Fadings, EvaluationAssumption
  <1> HIDE DEF site, leg, cut
  <1>8. AtCentre(site, leg, cut) = cut + Sluggish + Delay[leg] + EgressWait + Delay["egress"]
    BY DEF AtCentre, AtEgress
  <1>9. now < cut + Sluggish + Delay[leg] + EgressWait + Delay["egress"] + SummaryDelay + Window
    BY <1>4, <1>5, <1>6, <1>7, <1>8
  <1> QED BY <1>9 DEF cut, leg, site, Sluggish

(* Neither what the probes say nor the satisfaction with the responses       *)
(* outlives a leg that serves nothing for longer than what was under way     *)
(* when it was cut takes to arrive and to leave what is reported.            *)
THEOREM EvidenceGoes == Spec => []EvidenceFades
  <1>1. Init => FadingIInv
    BY FadingStart
  <1>2. FadingIInv /\ [Next]_vars => FadingIInv'
    BY FadingInductive
  <1>3. FadingIInv => EvidenceFades
    BY ProbesDo, ResponsesDo DEF EvidenceFades
  <1> QED BY <1>1, <1>2, <1>3, PTL DEF Spec
===============================================================================
