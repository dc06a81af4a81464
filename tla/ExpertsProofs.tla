----------------------------- MODULE ExpertsProofs -----------------------------
(***************************************************************************)
(* The two organisations of the rules, for any inventory and any budget.   *)
(* What one activation does to a board is proved of RuleInference; what    *)
(* the passes add, of the organisations.                                   *)
(***************************************************************************)
EXTENDS Experts, TLAPS, WellFoundedInduction

LEMMA LeastPlace ==
    ASSUME NEW N, N \subseteq Nat, N # {}
    PROVE  \E n \in N : \A m \in N : n <= m
  <1>1. PICK n \in N : \A m \in N : ~(<<m, n>> \in OpToRel(<, Nat))
    BY NatLessThanWellFounded, WFMin
  <1>2. ASSUME NEW m \in N PROVE n <= m
    <2>1. ~(m < n)
      BY <1>1 DEF OpToRel
    <2> QED BY <2>1
  <1> QED BY <1>2

-------------------------------------------------------------------------------
(* One activation.                                                           *)

Reasons == {"lower_priority", "unresolved_conflict"}

Boards(inv) ==
    [concluded : SUBSET Labels, fired : SUBSET DOMAIN inv,
     inhibited : SUBSET [rule : DOMAIN inv, reason : Reasons, against : Labels],
     unresolved : SUBSET DOMAIN inv]

(* What is concluded was concluded by a rule that fired, and whose evidence  *)
(* holds.                                                                    *)
Founded(inv, b) ==
    /\ \A label \in b.concluded : \E s \in b.fired : inv[s].concludes = label
    /\ \A s \in b.fired : inv[s].holds

LEMMA RuleFacts ==
    ASSUME NEW inv \in Seq(Rule), NEW r \in DOMAIN inv
    PROVE  /\ inv[r].concludes \in Labels /\ inv[r].holds \in BOOLEAN
           /\ inv[r].contradicts \in Seq(Labels) /\ inv[r].priority \in Nat
           /\ inv[r].premises \subseteq Labels
           /\ DOMAIN inv \subseteq Nat
           /\ DOMAIN inv[r].contradicts \subseteq Nat
           /\ \A k \in DOMAIN inv[r].contradicts : inv[r].contradicts[k] \in Labels
  <1>1. inv[r] \in Rule /\ DOMAIN inv \subseteq Nat
    OBVIOUS
  <1>2. inv[r].contradicts \in Seq(Labels)
    BY <1>1 DEF Rule
  <1>3. /\ DOMAIN inv[r].contradicts \subseteq Nat
        /\ \A k \in DOMAIN inv[r].contradicts : inv[r].contradicts[k] \in Labels
    BY <1>2
  <1> QED BY <1>1, <1>2, <1>3 DEF Rule

(* The author of a label concludes it. *)
LEMMA AuthorWrote ==
    ASSUME NEW inv \in Seq(Rule), NEW s \in DOMAIN inv
    PROVE  LET a == Author(inv, inv[s].concludes)
           IN  a \in DOMAIN inv /\ inv[a].concludes = inv[s].concludes
  <1> DEFINE Writers == {a \in DOMAIN inv : inv[a].concludes = inv[s].concludes}
  <1>1. Writers \subseteq Nat /\ Writers # {}
    BY RuleFacts
  <1>2. \E a \in Writers : \A b \in Writers : a <= b
    <2> HIDE DEF Writers
    <2> QED BY <1>1, LeastPlace
  <1>3. \E a \in DOMAIN inv : /\ inv[a].concludes = inv[s].concludes
                              /\ \A b \in DOMAIN inv : inv[b].concludes = inv[s].concludes => a <= b
    BY <1>2
  <1> QED BY <1>3 DEF Author

(* A conclusion that is lost belongs to a rival. *)
LEMMA LosingIs ==
    ASSUME NEW inv \in Seq(Rule), NEW b \in Boards(inv), Founded(inv, b),
           NEW r \in DOMAIN inv, inv[r].holds, NEW k \in Losing(inv, b, r)
    PROVE  LET w == Winner(inv, r, k)
           IN  /\ w \in b.fired /\ w \in DOMAIN inv
               /\ inv[w].concludes = inv[r].contradicts[k]
               /\ inv[r].contradicts[k] \in b.concluded /\ inv[r].contradicts[k] \in Labels
               /\ Rivals(inv, r, w)
  <1> DEFINE other == inv[r].contradicts[k]
             w == Winner(inv, r, k)
  <1>1. k \in DOMAIN inv[r].contradicts /\ other \in b.concluded /\ w \in b.fired
    BY DEF Losing, Winner
  <1>2. PICK s \in b.fired : inv[s].concludes = other
    BY <1>1 DEF Founded
  <1>3. s \in DOMAIN inv /\ w \in DOMAIN inv
    BY <1>1, <1>2 DEF Boards
  <1>4. inv[w].concludes = other
    BY <1>2, <1>3, AuthorWrote DEF Winner
  <1>5. inv[w].holds /\ other \in ToSet(inv[r].contradicts)
    BY <1>1 DEF Founded, ToSet
  <1>6. other \in Labels
    BY <1>1, RuleFacts
  <1> QED BY <1>1, <1>3, <1>4, <1>5, <1>6 DEF Rivals

Gone(inv, b, r) == {inv[r].contradicts[k] : k \in Overturned(inv, b, r)}

LEMMA StoppedIs ==
    ASSUME NEW inv \in Seq(Rule), NEW b, NEW r \in DOMAIN inv, Stopped(inv, b, r)
    PROVE  StoppedAt(inv, b, r) \in Resisting(inv, b, r)
  <1>1. Resisting(inv, b, r) \subseteq Nat /\ Resisting(inv, b, r) # {}
    BY RuleFacts DEF Stopped, Resisting, Losing
  <1> QED BY <1>1, LeastPlace DEF StoppedAt

(* What consider does: nothing; it concludes, over all that yield; it leaves *)
(* a tie; or it is beaten.                                                   *)
LEMMA ConsideredIs ==
    ASSUME NEW inv \in Seq(Rule), NEW b \in Boards(inv), Founded(inv, b), NEW r \in DOMAIN inv
    PROVE  LET c == Considered(inv, b, r)
           IN  /\ c \in Boards(inv)
               /\ \/ ~Fires(inv, b, r) /\ c = b /\ ~Changes(inv, b, r)
                  \/ /\ Fires(inv, b, r) /\ Changes(inv, b, r) /\ Resisting(inv, b, r) = {}
                     /\ c.concluded = (b.concluded \ Gone(inv, b, r)) \cup {inv[r].concludes}
                     /\ Overturned(inv, b, r) = Losing(inv, b, r)
                     /\ c.fired = b.fired \cup {r} /\ c.unresolved = b.unresolved
                  \/ /\ Fires(inv, b, r) /\ Changes(inv, b, r)
                     /\ \E k \in Resisting(inv, b, r) :
                           /\ c.concluded = (b.concluded \ Gone(inv, b, r)) \ {inv[r].contradicts[k]}
                           /\ c.fired = b.fired
                           /\ c.unresolved = b.unresolved \cup {r, Winner(inv, r, k)}
                  \/ /\ Fires(inv, b, r) /\ ~Changes(inv, b, r)
                     /\ \E k \in Resisting(inv, b, r) :
                           inv[Winner(inv, r, k)].priority > inv[r].priority
                     /\ c.concluded = b.concluded \ Gone(inv, b, r)
                     /\ c.fired = b.fired /\ c.unresolved = b.unresolved
  <1> DEFINE c == Considered(inv, b, r)
             d == Retracted(inv, b, r)
             Inhibition == [rule : DOMAIN inv, reason : Reasons, against : Labels]
  <1>1. CASE ~Fires(inv, b, r)
    BY <1>1 DEF Considered, Changes
  <1>2. CASE Fires(inv, b, r)
    <2>0. inv[r].holds /\ inv[r].concludes \in Labels
      BY <1>2, RuleFacts DEF Fires
    <2>1. \A k \in Losing(inv, b, r) :
             /\ Winner(inv, r, k) \in b.fired /\ Winner(inv, r, k) \in DOMAIN inv
             /\ inv[r].contradicts[k] \in Labels
      BY <2>0, LosingIs
    <2>2. Inhibitions(inv, b, r) \subseteq Inhibition
      BY <2>0, <2>1 DEF Inhibitions, Overturned, LowerPriority, Reasons
    <2>3. /\ d \in Boards(inv)
          /\ d.concluded = b.concluded \ Gone(inv, b, r)
          /\ d.fired = b.fired /\ d.unresolved = b.unresolved
      BY <2>2 DEF Retracted, Boards, Gone
    <2> HIDE DEF d
    <2>4. CASE ~Stopped(inv, b, r)
      <3>1. c = [d EXCEPT !.concluded = @ \cup {inv[r].concludes}, !.fired = @ \cup {r}]
        BY <1>2, <2>4 DEF Considered, Concluding, d
      <3> HIDE DEF c
      <3>2. /\ c \in Boards(inv) /\ c.concluded = d.concluded \cup {inv[r].concludes}
            /\ c.fired = d.fired \cup {r} /\ c.unresolved = d.unresolved
        BY <2>0, <2>3, <3>1 DEF Boards
      <3>3. Resisting(inv, b, r) = {} /\ Overturned(inv, b, r) = Losing(inv, b, r)
        BY <2>4 DEF Stopped, Overturned
      <3>4. Changes(inv, b, r)
        BY <1>2, <2>4 DEF Changes
      <3> QED BY <1>2, <2>3, <3>2, <3>3, <3>4 DEF c
    <2>5. CASE Stopped(inv, b, r)
      <3> DEFINE k == StoppedAt(inv, b, r)
                 w == Winner(inv, r, k)
                 other == inv[r].contradicts[k]
      <3>1. k \in Resisting(inv, b, r) /\ k \in Losing(inv, b, r)
        BY <2>5, StoppedIs DEF Resisting
      <3>2. w \in DOMAIN inv /\ other \in Labels
        BY <2>1, <3>1
      <3>3. CASE Ties(inv, b, r)
        <4> DEFINE i == UnresolvedConflict(r, other)
        <4>1. c = [d EXCEPT !.concluded = @ \ {other}, !.inhibited = @ \cup {i},
                            !.unresolved = @ \cup {r, w}]
          BY <1>2, <2>5, <3>3 DEF Considered, Tied, d
        <4>2. i \in Inhibition
          BY <3>2 DEF UnresolvedConflict, Reasons
        <4> HIDE DEF c, w, other, k, i
        <4>3. /\ c \in Boards(inv) /\ c.concluded = d.concluded \ {other}
              /\ c.fired = d.fired /\ c.unresolved = d.unresolved \cup {r, w}
          BY <2>3, <3>2, <4>1, <4>2 DEF Boards
        <4>4. Changes(inv, b, r)
          BY <1>2, <3>3 DEF Changes
        <4> QED BY <1>2, <2>3, <3>1, <4>3, <4>4 DEF c, w, other
      <3>4. CASE ~Ties(inv, b, r)
        <4> DEFINE i == LowerPriority(r, other)
        <4>1. c = [d EXCEPT !.inhibited = @ \cup {i}]
          BY <1>2, <2>5, <3>4 DEF Considered, Defeated, d
        <4>2. i \in Inhibition
          BY <3>2 DEF LowerPriority, Reasons
        <4>3. inv[w].priority > inv[r].priority
          <5>1. inv[w].priority # inv[r].priority
            BY <2>5, <3>4 DEF Ties
          <5>2. ~(inv[w].priority < inv[r].priority)
            BY <3>1 DEF Resisting, Yields
          <5>3. inv[w].priority \in Nat /\ inv[r].priority \in Nat
            BY <3>2, RuleFacts
          <5> HIDE DEF w
          <5> QED BY <5>1, <5>2, <5>3
        <4> HIDE DEF c, w, other, k, i
        <4>4. /\ c \in Boards(inv) /\ c.concluded = d.concluded
              /\ c.fired = d.fired /\ c.unresolved = d.unresolved
          BY <2>3, <4>1, <4>2 DEF Boards
        <4>5. ~Changes(inv, b, r)
          BY <2>5, <3>4 DEF Changes
        <4> QED BY <1>2, <2>3, <3>1, <4>3, <4>4, <4>5 DEF c, w
      <3> QED BY <3>3, <3>4
    <2> QED BY <2>4, <2>5
  <1> QED BY <1>1, <1>2

(* What is founded stays so: conclusions are only added with their rule.     *)
LEMMA FoundedKept ==
    ASSUME NEW inv \in Seq(Rule), NEW b \in Boards(inv), Founded(inv, b), NEW r \in DOMAIN inv
    PROVE  Founded(inv, Considered(inv, b, r))
  <1> DEFINE c == Considered(inv, b, r)
  <1>1. \/ c.concluded \subseteq b.concluded /\ c.fired = b.fired
        \/ /\ c.concluded \subseteq b.concluded \cup {inv[r].concludes}
           /\ c.fired = b.fired \cup {r} /\ inv[r].holds
    BY ConsideredIs DEF Fires
  <1> HIDE DEF c
  <1> QED BY <1>1 DEF Founded, c

(* No two rivals are concluded, and what is unresolved has a rival.          *)
Peaceful(inv, b) ==
    /\ \A r, s \in DOMAIN inv : Rivals(inv, r, s) =>
          ~(inv[r].concludes \in b.concluded /\ inv[s].concludes \in b.concluded)
    /\ \A u \in b.unresolved : \E v \in DOMAIN inv : Rivals(inv, u, v)

LEMMA PeacefulKept ==
    ASSUME NEW inv \in Seq(Rule), Orderly(inv), NEW b \in Boards(inv), Founded(inv, b),
           Peaceful(inv, b), NEW r \in DOMAIN inv
    PROVE  Peaceful(inv, Considered(inv, b, r))
  <1> DEFINE c == Considered(inv, b, r)
  <1>1. CASE c = b
    BY <1>1
  <1>2. CASE /\ Fires(inv, b, r) /\ Overturned(inv, b, r) = Losing(inv, b, r)
             /\ c.concluded = (b.concluded \ Gone(inv, b, r)) \cup {inv[r].concludes}
             /\ c.unresolved = b.unresolved
    <2>1. SUFFICES ASSUME NEW p \in DOMAIN inv, NEW q \in DOMAIN inv, Rivals(inv, p, q),
                          inv[p].concludes \in c.concluded, inv[q].concludes \in c.concluded
                   PROVE  FALSE
      BY <1>2 DEF Peaceful
    <2>2. /\ p # q /\ Rivals(inv, q, p)
          /\ \A t \in DOMAIN inv : inv[t].concludes = inv[q].concludes => t = q
          /\ \A t \in DOMAIN inv : inv[t].concludes = inv[p].concludes => t = p
      BY <2>1 DEF Orderly
    <2>3. ASSUME NEW x \in DOMAIN inv, Rivals(inv, r, x), inv[x].concludes \in b.concluded,
                 \A t \in DOMAIN inv : inv[t].concludes = inv[x].concludes => t = x
          PROVE  inv[x].concludes \in Gone(inv, b, r)
      <3>1. PICK k \in DOMAIN inv[r].contradicts : inv[x].concludes = inv[r].contradicts[k]
        BY <2>3 DEF Rivals, ToSet
      <3>2. PICK s \in b.fired : inv[s].concludes = inv[x].concludes
        BY <2>3 DEF Founded
      <3>3. s = x
        BY <2>3, <3>2 DEF Boards
      <3>4. Author(inv, inv[x].concludes) = x
        BY <2>3, AuthorWrote
      <3>5. k \in Losing(inv, b, r)
        BY <2>3, <3>1, <3>2, <3>3, <3>4 DEF Losing
      <3> QED BY <1>2, <3>1, <3>5 DEF Gone
    <2>4. CASE inv[p].concludes # inv[r].concludes /\ inv[q].concludes # inv[r].concludes
      BY <1>2, <2>1, <2>4 DEF Peaceful
    <2>5. CASE inv[p].concludes = inv[r].concludes
      <3>1. p = r /\ inv[q].concludes # inv[r].concludes
        BY <2>2, <2>5
      <3>2. inv[q].concludes \in b.concluded /\ inv[q].concludes \notin Gone(inv, b, r)
        BY <1>2, <2>1, <3>1
      <3> QED BY <2>1, <2>2, <2>3, <3>1, <3>2
    <2>6. CASE inv[q].concludes = inv[r].concludes
      <3>1. q = r /\ inv[p].concludes # inv[r].concludes
        BY <2>2, <2>6
      <3>2. inv[p].concludes \in b.concluded /\ inv[p].concludes \notin Gone(inv, b, r)
        BY <1>2, <2>1, <3>1
      <3> QED BY <2>2, <2>3, <3>1, <3>2
    <2> QED BY <2>4, <2>5, <2>6
  <1>3. CASE /\ Fires(inv, b, r) /\ c.concluded \subseteq b.concluded
             /\ \/ c.unresolved = b.unresolved
                \/ \E k \in Losing(inv, b, r) : c.unresolved = b.unresolved \cup {r, Winner(inv, r, k)}
    <2>1. \A k \in Losing(inv, b, r) :
             /\ Winner(inv, r, k) \in DOMAIN inv
             /\ Rivals(inv, r, Winner(inv, r, k)) /\ Rivals(inv, Winner(inv, r, k), r)
      BY <1>3, LosingIs DEF Fires, Orderly
    <2> QED BY <1>3, <2>1 DEF Peaceful
  <1> HIDE DEF c
  <1>4. \A k \in Resisting(inv, b, r) : k \in Losing(inv, b, r)
    BY DEF Resisting
  <1>5. \/ c = b
        \/ /\ Fires(inv, b, r) /\ Overturned(inv, b, r) = Losing(inv, b, r)
           /\ c.concluded = (b.concluded \ Gone(inv, b, r)) \cup {inv[r].concludes}
           /\ c.unresolved = b.unresolved
        \/ /\ Fires(inv, b, r) /\ c.concluded \subseteq b.concluded
           /\ \/ c.unresolved = b.unresolved
              \/ \E k \in Losing(inv, b, r) : c.unresolved = b.unresolved \cup {r, Winner(inv, r, k)}
    BY <1>4, ConsideredIs DEF c
  <1> QED BY <1>1, <1>2, <1>3, <1>5 DEF c

(* A rule that fired and is not concluded was left unresolved, or a stronger *)
(* rival is concluded.                                                       *)
Caused(inv, b, r) ==
    \/ r \in b.unresolved
    \/ \E s \in DOMAIN inv : /\ Rivals(inv, r, s) /\ inv[s].concludes \in b.concluded
                             /\ inv[s].priority > inv[r].priority

(* With one rival, a rule that is stopped has overturned nothing.             *)
LEMMA StoppedAtOnce ==
    ASSUME NEW inv \in Seq(Rule), Paired(inv), NEW b \in Boards(inv), Founded(inv, b),
           NEW r \in DOMAIN inv, inv[r].holds, NEW k \in Resisting(inv, b, r)
    PROVE  Gone(inv, b, r) = {}
  <1>1. k \in Losing(inv, b, r) /\ ~Yields(inv, Winner(inv, r, k), r)
    BY DEF Resisting
  <1>2. \A j \in Losing(inv, b, r) : Winner(inv, r, j) = Winner(inv, r, k)
    BY <1>1, LosingIs DEF Paired
  <1>3. Losing(inv, b, r) \subseteq Resisting(inv, b, r)
    BY <1>1, <1>2 DEF Resisting
  <1>4. \A j \in Losing(inv, b, r) : ~(j < j)
    <2>1. Losing(inv, b, r) \subseteq Nat
      BY RuleFacts DEF Losing
    <2> QED BY <2>1
  <1>5. Overturned(inv, b, r) = {}
    BY <1>3, <1>4 DEF Overturned
  <1> QED BY <1>5 DEF Gone

Excused(inv, b) ==
    \A r \in b.fired : inv[r].concludes \in b.concluded \/ Caused(inv, b, r)

LEMMA ExcusedKept ==
    ASSUME NEW inv \in Seq(Rule), Paired(inv), NEW b \in Boards(inv), Founded(inv, b),
           Excused(inv, b), NEW r \in DOMAIN inv
    PROVE  Excused(inv, Considered(inv, b, r))
  <1> DEFINE c == Considered(inv, b, r)
             w(k) == Winner(inv, r, k)
  <1>1. CASE c = b
    BY <1>1
  <1>2. CASE Fires(inv, b, r)
    <2>1. inv[r].holds /\ r \notin b.fired /\ b.fired \subseteq DOMAIN inv
      BY <1>2 DEF Fires, Boards
    <2>2. ASSUME NEW k \in Losing(inv, b, r)
          PROVE  /\ w(k) \in b.fired /\ w(k) \in DOMAIN inv
                 /\ inv[w(k)].concludes = inv[r].contradicts[k]
                 /\ Rivals(inv, r, w(k)) /\ Rivals(inv, w(k), r)
                 /\ \A t \in DOMAIN inv : inv[t].concludes = inv[w(k)].concludes => t = w(k)
      BY <2>1, <2>2, LosingIs DEF Paired, Orderly
    <2>3. ASSUME NEW t \in DOMAIN inv, NEW s \in DOMAIN inv, Rivals(inv, t, s),
                 NEW k \in Losing(inv, b, r), inv[s].concludes = inv[r].contradicts[k]
          PROVE  t = r
      <3>1. s = w(k)
        BY <2>2, <2>3
      <3>2. Rivals(inv, s, t) /\ Rivals(inv, s, r)
        BY <2>2, <2>3, <3>1 DEF Paired, Orderly
      <3> QED BY <3>2 DEF Paired
    <2>4. ASSUME NEW t \in b.fired, NEW k \in Losing(inv, b, r),
                 inv[t].concludes = inv[r].contradicts[k]
          PROVE  t = w(k)
      BY <2>1, <2>2, <2>4
    <2>7. CASE /\ Resisting(inv, b, r) = {} /\ Overturned(inv, b, r) = Losing(inv, b, r)
               /\ c.concluded = (b.concluded \ Gone(inv, b, r)) \cup {inv[r].concludes}
               /\ c.fired = b.fired \cup {r} /\ c.unresolved = b.unresolved
      <3>1. ASSUME NEW t \in b.fired, inv[t].concludes \notin c.concluded
            PROVE  Caused(inv, c, t)
        <4>1. CASE inv[t].concludes \in Gone(inv, b, r)
          <5>1. PICK k \in Losing(inv, b, r) : inv[t].concludes = inv[r].contradicts[k]
            BY <2>7, <4>1 DEF Gone
          <5>2. t = w(k) /\ Rivals(inv, t, r)
            BY <2>2, <2>4, <5>1
          <5>3. inv[t].priority < inv[r].priority
            BY <2>7, <5>1, <5>2 DEF Resisting, Yields
          <5>4. inv[t].priority \in Nat /\ inv[r].priority \in Nat
            BY <2>1, RuleFacts
          <5> QED BY <2>7, <5>2, <5>3, <5>4 DEF Caused
        <4>2. CASE inv[t].concludes \notin Gone(inv, b, r)
          <5>1. Caused(inv, b, t)
            BY <2>7, <3>1, <4>2 DEF Excused
          <5>2. ASSUME NEW s \in DOMAIN inv, Rivals(inv, t, s), inv[s].concludes \in b.concluded
                PROVE  inv[s].concludes \in c.concluded
            <6>1. SUFFICES ASSUME inv[s].concludes \in Gone(inv, b, r) PROVE FALSE
              BY <2>7, <5>2
            <6>2. PICK k \in Losing(inv, b, r) : inv[s].concludes = inv[r].contradicts[k]
              BY <2>7, <6>1 DEF Gone
            <6>3. t = r
              BY <2>1, <2>3, <5>2, <6>2
            <6> QED BY <2>1, <6>3
          <5> QED BY <2>7, <5>1, <5>2 DEF Caused
        <4> QED BY <4>1, <4>2
      <3> QED BY <2>7, <3>1 DEF Excused
    <2>8. ASSUME NEW k \in Resisting(inv, b, r)
          PROVE  k \in Losing(inv, b, r) /\ Gone(inv, b, r) = {}
      BY <2>1, StoppedAtOnce DEF Resisting
    <2>9. CASE \E k \in Resisting(inv, b, r) :
                  /\ c.concluded = (b.concluded \ Gone(inv, b, r)) \ {inv[r].contradicts[k]}
                  /\ c.fired = b.fired
                  /\ c.unresolved = b.unresolved \cup {r, w(k)}
      <3>1. PICK k \in Resisting(inv, b, r) :
                  /\ c.concluded = (b.concluded \ Gone(inv, b, r)) \ {inv[r].contradicts[k]}
                  /\ c.fired = b.fired
                  /\ c.unresolved = b.unresolved \cup {r, w(k)}
        BY <2>9
      <3>2. k \in Losing(inv, b, r) /\ c.concluded = b.concluded \ {inv[r].contradicts[k]}
        BY <2>8, <3>1
      <3>3. ASSUME NEW t \in b.fired, inv[t].concludes \notin c.concluded
            PROVE  Caused(inv, c, t)
        <4>1. CASE inv[t].concludes = inv[r].contradicts[k]
          BY <2>4, <3>1, <3>2, <4>1 DEF Caused
        <4>2. CASE inv[t].concludes # inv[r].contradicts[k]
          <5>1. Caused(inv, b, t)
            BY <3>2, <3>3, <4>2 DEF Excused
          <5>2. ASSUME NEW s \in DOMAIN inv, Rivals(inv, t, s), inv[s].concludes \in b.concluded
                PROVE  inv[s].concludes \in c.concluded
            BY <2>1, <2>3, <3>2, <5>2
          <5> QED BY <3>1, <5>1, <5>2 DEF Caused
        <4> QED BY <4>1, <4>2
      <3> QED BY <3>1, <3>3 DEF Excused
    <2>10. CASE /\ \E k \in Resisting(inv, b, r) : TRUE
                /\ c.concluded = b.concluded \ Gone(inv, b, r)
                /\ c.fired = b.fired /\ c.unresolved = b.unresolved
      <3>1. c.concluded = b.concluded
        BY <2>8, <2>10
      <3> QED BY <2>10, <3>1 DEF Excused, Caused
    <2> HIDE DEF c
    <2>11. \/ c = b
           \/ /\ Resisting(inv, b, r) = {} /\ Overturned(inv, b, r) = Losing(inv, b, r)
              /\ c.concluded = (b.concluded \ Gone(inv, b, r)) \cup {inv[r].concludes}
              /\ c.fired = b.fired \cup {r} /\ c.unresolved = b.unresolved
           \/ \E k \in Resisting(inv, b, r) :
                  /\ c.concluded = (b.concluded \ Gone(inv, b, r)) \ {inv[r].contradicts[k]}
                  /\ c.fired = b.fired
                  /\ c.unresolved = b.unresolved \cup {r, w(k)}
           \/ /\ \E k \in Resisting(inv, b, r) : TRUE
              /\ c.concluded = b.concluded \ Gone(inv, b, r)
              /\ c.fired = b.fired /\ c.unresolved = b.unresolved
      BY ConsideredIs DEF c
    <2> QED BY <1>1, <2>7, <2>9, <2>10, <2>11 DEF c
  <1>3. c = b \/ Fires(inv, b, r)
    BY ConsideredIs
  <1> QED BY <1>1, <1>2, <1>3

(* Whether a rule would change the board depends on what is concluded and    *)
(* what has fired; with one rival each, what changes nothing leaves both.    *)
LEMMA ChangesSame ==
    ASSUME NEW inv, NEW b, NEW c, c.concluded = b.concluded, c.fired = b.fired, NEW r
    PROVE  Changes(inv, c, r) <=> Changes(inv, b, r)
  <1>1. Fires(inv, c, r) <=> Fires(inv, b, r)
    BY DEF Fires
  <1>2. Losing(inv, c, r) = Losing(inv, b, r)
    BY DEF Losing
  <1>3. Resisting(inv, c, r) = Resisting(inv, b, r)
    BY <1>2 DEF Resisting
  <1> QED BY <1>1, <1>3 DEF Changes, Stopped, Ties, StoppedAt

LEMMA NothingChanged ==
    ASSUME NEW inv \in Seq(Rule), Paired(inv), NEW b \in Boards(inv), Founded(inv, b),
           NEW r \in DOMAIN inv, ~Changes(inv, b, r)
    PROVE  LET c == Considered(inv, b, r)
           IN  c.concluded = b.concluded /\ c.fired = b.fired /\ c.unresolved = b.unresolved
  <1> DEFINE c == Considered(inv, b, r)
  <1>1. \/ c = b
        \/ /\ Fires(inv, b, r) /\ \E k \in Resisting(inv, b, r) : TRUE
           /\ c.concluded = b.concluded \ Gone(inv, b, r)
           /\ c.fired = b.fired /\ c.unresolved = b.unresolved
    BY ConsideredIs
  <1> HIDE DEF c
  <1>2. CASE c = b
    BY <1>2 DEF c
  <1>3. CASE /\ Fires(inv, b, r) /\ \E k \in Resisting(inv, b, r) : TRUE
             /\ c.concluded = b.concluded \ Gone(inv, b, r)
             /\ c.fired = b.fired /\ c.unresolved = b.unresolved
    <2>1. Gone(inv, b, r) = {}
      BY <1>3, StoppedAtOnce DEF Fires
    <2> QED BY <1>3, <2>1 DEF c
  <1> QED BY <1>1, <1>2, <1>3

(* A rule that changes the board has fired, or is left unresolved. *)
LEMMA FiredKept ==
    ASSUME NEW inv \in Seq(Rule), NEW b \in Boards(inv), Founded(inv, b), NEW r \in DOMAIN inv
    PROVE  LET c == Considered(inv, b, r)
           IN  /\ b.fired \subseteq c.fired /\ b.unresolved \subseteq c.unresolved
               /\ Changes(inv, b, r) => r \in c.fired \cup c.unresolved
  <1> DEFINE c == Considered(inv, b, r)
  <1>1. \/ c = b /\ ~Changes(inv, b, r)
        \/ c.fired = b.fired \cup {r} /\ c.unresolved = b.unresolved
        \/ /\ c.fired = b.fired
           /\ \E k \in Resisting(inv, b, r) :
                 c.unresolved = b.unresolved \cup {r, Winner(inv, r, k)}
        \/ c.fired = b.fired /\ c.unresolved = b.unresolved /\ ~Changes(inv, b, r)
    BY ConsideredIs
  <1> HIDE DEF c
  <1>2. /\ b.fired \subseteq c.fired /\ b.unresolved \subseteq c.unresolved
        /\ Changes(inv, b, r) => r \in c.fired \cup c.unresolved
    BY <1>1
  <1> QED BY <1>2 DEF c

(* What equal authority left unresolved is not concluded again.              *)
LEMMA UnresolvedKept ==
    ASSUME NEW inv \in Seq(Rule), Orderly(inv), NEW b \in Boards(inv), Founded(inv, b),
           Peaceful(inv, b), NEW r \in DOMAIN inv,
           \A u \in b.unresolved : inv[u].concludes \notin b.concluded /\ (u \in b.fired \/ u # r)
    PROVE  LET c == Considered(inv, b, r)
           IN  /\ b.fired \subseteq c.fired
               /\ \A u \in c.unresolved : /\ inv[u].concludes \notin c.concluded
                                          /\ u \in b.unresolved \/ u \in b.fired \/ u = r
               /\ r \in c.unresolved => Changes(inv, b, r) \/ r \in b.fired
  <1> DEFINE c == Considered(inv, b, r)
  <1>1. \/ c = b
        \/ /\ Fires(inv, b, r)
           /\ c.concluded \subseteq b.concluded \cup {inv[r].concludes}
           /\ c.fired = b.fired \cup {r} /\ c.unresolved = b.unresolved
        \/ /\ Fires(inv, b, r) /\ Changes(inv, b, r)
           /\ \E k \in Losing(inv, b, r) :
                 /\ c.concluded \subseteq b.concluded \ {inv[r].contradicts[k]}
                 /\ c.fired = b.fired
                 /\ c.unresolved = b.unresolved \cup {r, Winner(inv, r, k)}
        \/ c.concluded \subseteq b.concluded /\ c.fired = b.fired /\ c.unresolved = b.unresolved
    <2>1. \A k \in Resisting(inv, b, r) : k \in Losing(inv, b, r)
      BY DEF Resisting
    <2> QED BY <2>1, ConsideredIs
  <1> HIDE DEF c
  <1>2. CASE c = b
    BY <1>2 DEF c
  <1>3. CASE /\ Fires(inv, b, r)
             /\ c.concluded \subseteq b.concluded \cup {inv[r].concludes}
             /\ c.fired = b.fired \cup {r} /\ c.unresolved = b.unresolved
    <2>1. ASSUME NEW u \in b.unresolved PROVE inv[u].concludes # inv[r].concludes
      <3>1. PICK v \in DOMAIN inv : Rivals(inv, u, v)
        BY DEF Peaceful
      <3>2. u \in DOMAIN inv /\ Rivals(inv, v, u)
        BY <3>1 DEF Orderly, Boards
      <3>3. inv[r].concludes = inv[u].concludes => r = u
        BY <3>2 DEF Orderly
      <3>4. r \notin b.fired
        BY <1>3 DEF Fires
      <3> QED BY <3>3, <3>4
    <2>2. r \notin b.unresolved
      BY <2>1
    <2> QED BY <1>3, <2>1, <2>2 DEF c
  <1>4. CASE /\ Fires(inv, b, r) /\ Changes(inv, b, r)
             /\ \E k \in Losing(inv, b, r) :
                   /\ c.concluded \subseteq b.concluded \ {inv[r].contradicts[k]}
                   /\ c.fired = b.fired
                   /\ c.unresolved = b.unresolved \cup {r, Winner(inv, r, k)}
    <2>1. PICK k \in Losing(inv, b, r) :
                   /\ c.concluded \subseteq b.concluded \ {inv[r].contradicts[k]}
                   /\ c.fired = b.fired
                   /\ c.unresolved = b.unresolved \cup {r, Winner(inv, r, k)}
      BY <1>4
    <2>2. /\ Winner(inv, r, k) \in b.fired
          /\ inv[Winner(inv, r, k)].concludes = inv[r].contradicts[k]
      BY <1>4, LosingIs DEF Fires
    <2>3. inv[r].concludes \notin b.concluded
      BY <1>4 DEF Fires
    <2> QED BY <1>4, <2>1, <2>2, <2>3 DEF c
  <1>5. CASE c.concluded \subseteq b.concluded /\ c.fired = b.fired /\ c.unresolved = b.unresolved
    BY <1>5 DEF c
  <1> QED BY <1>1, <1>2, <1>3, <1>4, <1>5

-------------------------------------------------------------------------------
(* The inductive invariant.                                                  *)

Types ==
    /\ rules \in Inventories /\ budget \in Budgets
    /\ board \in [Organisations -> Boards(rules)]
    /\ activations \in [Organisations -> 0 .. budget]
    /\ passes \in [Organisations -> Nat \ {0}]
    /\ scheduled \in [Organisations -> Seq(DOMAIN rules)]
    /\ changed \in BOOLEAN /\ pending \in Seq(DOMAIN rules) /\ revision \in Nat
    /\ outcome \in [Organisations -> {"running", "recorded", "exhausted"}]

(* What follows from any board, whatever the passes are. *)
Sound(o) ==
    /\ Founded(rules, board[o])
    /\ Orderly(rules) => Peaceful(rules, board[o])
    /\ Paired(rules) => Excused(rules, board[o])
    /\ \A S \in SUBSET Labels : Closed(S) => board[o].concluded \subseteq S

Once(s) == \A i, j \in DOMAIN s : s[i] = s[j] => i = j

(* Every expert is still to be considered, has fired, or was dropped with a  *)
(* tie; one that was dropped does not come back.                             *)
Agenda ==
    LET b == board["blackboard"]
        coming == ToSet(scheduled["blackboard"]) \cup ToSet(pending)
    IN  /\ \A o \in Organisations : Once(scheduled[o])
        /\ Once(pending)
        /\ ToSet(scheduled["blackboard"]) \cap ToSet(pending) = {}
        /\ DOMAIN rules \subseteq coming \cup b.fired \cup b.unresolved
        /\ Orderly(rules) => \A u \in b.unresolved :
              /\ rules[u].concludes \notin b.concluded
              /\ u \in b.fired \/ u \notin coming

(* A pass of the engine that has changed nothing would change nothing. *)
EnginePass ==
    Paired(rules) /\ ~changed =>
        \A r \in DOMAIN rules : \/ r \in ToSet(scheduled["single_engine"])
                                \/ ~Changes(rules, board["single_engine"], r)

(* The revision is ahead of the passes, unless this pass left it alone. *)
BoardPass ==
    /\ revision >= passes["blackboard"] - 1
    /\ Paired(rules) /\ revision = passes["blackboard"] - 1 =>
          \A r \in ToSet(pending) : ~Changes(rules, board["blackboard"], r)

(* A diagnosis is recorded when no rule would change it. *)
SettledBy(o) ==
    Paired(rules) /\ Recorded(o) =>
        \A r \in DOMAIN rules : \/ r \in board[o].fired \cup board[o].unresolved
                                \/ ~Changes(rules, board[o], r)

ExpertsIInv ==
    /\ Types
    /\ \A o \in Organisations : Sound(o) /\ SettledBy(o)
    /\ Agenda /\ EnginePass /\ BoardPass

(* Sequences without repetition. *)
LEMMA TailOnce ==
    ASSUME NEW S, NEW s \in Seq(S), s # <<>>, Once(s)
    PROVE  /\ Head(s) \in S /\ Tail(s) \in Seq(S) /\ Once(Tail(s))
           /\ ToSet(s) = {Head(s)} \cup ToSet(Tail(s)) /\ Head(s) \notin ToSet(Tail(s))
  <1> DEFINE n == Len(s)
             t == Tail(s)
  <1>1. /\ n \in Nat /\ n > 0 /\ DOMAIN s = 1 .. n /\ DOMAIN t = 1 .. n - 1
        /\ Head(s) = s[1] /\ Head(s) \in S /\ t \in Seq(S)
        /\ \A i \in 1 .. n - 1 : t[i] = s[i + 1]
    OBVIOUS
  <1> HIDE DEF n, t
  <1>2. \A i, j \in 1 .. n : s[i] = s[j] => i = j
    BY <1>1 DEF Once
  <1>3. Once(t)
    <2>1. SUFFICES ASSUME NEW i \in 1 .. n - 1, NEW j \in 1 .. n - 1, t[i] = t[j] PROVE i = j
      BY <1>1 DEF Once
    <2>2. i + 1 \in 1 .. n /\ j + 1 \in 1 .. n /\ s[i + 1] = s[j + 1]
      BY <1>1, <2>1
    <2> QED BY <1>2, <2>2
  <1>4. ASSUME NEW x
        PROVE  (\E i \in 1 .. n : s[i] = x) <=> (x = s[1] \/ \E i \in 1 .. n - 1 : t[i] = x)
    <2>1. ASSUME NEW i \in 1 .. n, s[i] = x, i # 1 PROVE \E j \in 1 .. n - 1 : t[j] = x
      <3>1. i - 1 \in 1 .. n - 1 /\ (i - 1) + 1 = i
        BY <1>1, <2>1
      <3> QED BY <1>1, <2>1, <3>1
    <2>2. ASSUME NEW i \in 1 .. n - 1, t[i] = x PROVE \E j \in 1 .. n : s[j] = x
      <3>1. i + 1 \in 1 .. n /\ s[i + 1] = x
        BY <1>1, <2>2
      <3> QED BY <3>1
    <2>3. 1 \in 1 .. n
      BY <1>1
    <2> QED BY <2>1, <2>2, <2>3
  <1>5. s[1] \notin ToSet(t)
    <2>1. SUFFICES ASSUME NEW i \in 1 .. n - 1, t[i] = s[1] PROVE FALSE
      BY <1>1 DEF ToSet
    <2>2. i + 1 \in 1 .. n /\ 1 \in 1 .. n /\ i + 1 # 1 /\ s[i + 1] = s[1]
      BY <1>1, <2>1
    <2> QED BY <1>2, <2>2
  <1>6. ToSet(s) = {s[1]} \cup ToSet(t)
    <2>1. ASSUME NEW x PROVE x \in ToSet(s) <=> \E i \in 1 .. n : s[i] = x
      BY <1>1 DEF ToSet
    <2>2. ASSUME NEW x PROVE x \in ToSet(t) <=> \E i \in 1 .. n - 1 : t[i] = x
      BY <1>1 DEF ToSet
    <2>3. ASSUME NEW x PROVE x \in ToSet(s) <=> x \in {s[1]} \cup ToSet(t)
      BY <1>4, <2>1, <2>2
    <2> QED BY <2>3
  <1> QED BY <1>1, <1>3, <1>5, <1>6 DEF t

LEMMA AppendOnce ==
    ASSUME NEW S, NEW s \in Seq(S), NEW x \in S, x \notin ToSet(s), Once(s)
    PROVE  /\ Append(s, x) \in Seq(S) /\ Once(Append(s, x))
           /\ ToSet(Append(s, x)) = ToSet(s) \cup {x}
  <1> DEFINE n == Len(s)
             t == Append(s, x)
  <1>1. /\ n \in Nat /\ DOMAIN s = 1 .. n /\ DOMAIN t = 1 .. n + 1 /\ t \in Seq(S)
        /\ t[n + 1] = x /\ \A i \in 1 .. n : t[i] = s[i]
    OBVIOUS
  <1> HIDE DEF n, t
  <1>2. \A i \in 1 .. n + 1 : i \in 1 .. n \/ i = n + 1
    BY <1>1
  <1>3. \A i \in 1 .. n : s[i] # x
    BY <1>1 DEF ToSet
  <1>4. Once(t)
    BY <1>1, <1>2, <1>3 DEF Once
  <1>5. ToSet(t) = ToSet(s) \cup {x}
    <2>1. n + 1 \in 1 .. n + 1 /\ \A i \in 1 .. n : i \in 1 .. n + 1
      BY <1>1
    <2> QED BY <1>1, <1>2, <2>1 DEF ToSet
  <1> QED BY <1>1, <1>4, <1>5 DEF t

LEMMA AllOnce ==
    ASSUME rules \in Seq(Rule)
    PROVE  All \in Seq(DOMAIN rules) /\ Once(All) /\ ToSet(All) = DOMAIN rules
  <1>1. DOMAIN rules = 1 .. Len(rules) /\ Len(rules) \in Nat
    OBVIOUS
  <1>2. All \in [1 .. Len(rules) -> DOMAIN rules]
    BY <1>1 DEF All
  <1> QED BY <1>1, <1>2 DEF All, Once, ToSet

LEMMA NoneOnce == Once(<<>>) /\ ToSet(<<>>) = {}
  BY DEF Once, ToSet

LEMMA RulesAre ==
    ASSUME Types
    PROVE  rules \in Seq(Rule) /\ budget \in Nat \ {0}
  BY ExpertsAssumption DEF Types

(* An activation leaves its board sound; whatever a closed set contains the  *)
(* premises of, it contains the conclusion of.                               *)
LEMMA SoundKept ==
    ASSUME Types, NEW o \in Organisations, Sound(o), NEW r \in DOMAIN rules,
           UNCHANGED config, board'[o] = Considered(rules, board[o], r)
    PROVE  Sound(o)'
  <1> DEFINE b == board[o]
             c == Considered(rules, b, r)
  <1>1. rules \in Seq(Rule) /\ b \in Boards(rules) /\ rules' = rules /\ board'[o] = c
    BY RulesAre DEF Types, config
  <1>2. Founded(rules, b)
    BY DEF Sound
  <1>3. Founded(rules, c)
    BY <1>1, <1>2, FoundedKept
  <1>4. Orderly(rules) => Peaceful(rules, c)
    BY <1>1, <1>2, PeacefulKept DEF Sound
  <1>5. Paired(rules) => Excused(rules, c)
    BY <1>1, <1>2, ExcusedKept DEF Sound
  <1>6. ASSUME NEW S \in SUBSET Labels, Closed(S) PROVE c.concluded \subseteq S
    <2>1. b.concluded \subseteq S
      BY <1>6 DEF Sound
    <2>2. \/ c.concluded \subseteq b.concluded
          \/ Fires(rules, b, r) /\ c.concluded \subseteq b.concluded \cup {rules[r].concludes}
      BY <1>1, <1>2, ConsideredIs
    <2> HIDE DEF b, c
    <2>3. Fires(rules, b, r) => rules[r].concludes \in S
      BY <1>6, <2>1 DEF Fires, Closed
    <2> QED BY <2>1, <2>2, <2>3
  <1> HIDE DEF b, c
  <1>7. \A S \in SUBSET Labels : Closed(S)' <=> Closed(S)
    BY <1>1 DEF Closed
  <1> QED BY <1>1, <1>3, <1>4, <1>5, <1>6, <1>7 DEF Sound

LEMMA OtherSound ==
    ASSUME NEW o, Sound(o), rules' = rules, board'[o] = board[o]
    PROVE  Sound(o)'
  BY DEF Sound, Closed

LEMMA OtherSettled ==
    ASSUME NEW o, SettledBy(o), rules' = rules, board'[o] = board[o],
           Recorded(o)' => Recorded(o)
    PROVE  SettledBy(o)'
  BY DEF SettledBy

(* What the activation of a rule by either organisation does. *)
LEMMA Activated ==
    ASSUME ExpertsIInv, NEW o \in Organisations, Activate(o), NEW r, r = Head(scheduled[o])
    PROVE  /\ r \in DOMAIN rules /\ UNCHANGED <<rules, budget, passes, outcome>>
           /\ board' = [board EXCEPT ![o] = Considered(rules, board[o], r)]
           /\ board'[o] = Considered(rules, board[o], r)
           /\ \A p \in Organisations \ {o} : board'[p] = board[p]
           /\ board' \in [Organisations -> Boards(rules)]
           /\ activations' \in [Organisations -> 0 .. budget]
           /\ scheduled' \in [Organisations -> Seq(DOMAIN rules)]
           /\ scheduled'[o] = Tail(scheduled[o])
           /\ \A p \in Organisations \ {o} : scheduled'[p] = scheduled[p]
           /\ \A p \in Organisations : Once(scheduled'[p])
           /\ ToSet(scheduled[o]) = {r} \cup ToSet(scheduled'[o])
           /\ r \notin ToSet(scheduled'[o])
           /\ \A p \in Organisations : Sound(p)' /\ SettledBy(p)'
  <1>1. /\ Types /\ Agenda /\ rules \in Seq(Rule) /\ budget \in Nat
        /\ \A p \in Organisations : Sound(p) /\ SettledBy(p)
    BY RulesAre DEF ExpertsIInv
  <1>2. /\ scheduled[o] # <<>> /\ activations[o] < budget /\ outcome[o] = "running"
        /\ board' = [board EXCEPT ![o] = Considered(rules, board[o], r)]
        /\ activations' = [activations EXCEPT ![o] = activations[o] + 1]
        /\ scheduled' = [scheduled EXCEPT ![o] = Tail(scheduled[o])]
        /\ UNCHANGED <<rules, budget, passes, outcome>>
    BY DEF Activate, Running, config
  <1>3. scheduled[o] \in Seq(DOMAIN rules) /\ Once(scheduled[o]) /\ board[o] \in Boards(rules)
    BY <1>1 DEF Types, Agenda
  <1>4. /\ r \in DOMAIN rules /\ Tail(scheduled[o]) \in Seq(DOMAIN rules)
        /\ Once(Tail(scheduled[o]))
        /\ ToSet(scheduled[o]) = {r} \cup ToSet(Tail(scheduled[o]))
        /\ r \notin ToSet(Tail(scheduled[o]))
    BY <1>2, <1>3, TailOnce
  <1>5. Considered(rules, board[o], r) \in Boards(rules)
    BY <1>1, <1>3, <1>4, ConsideredIs DEF Sound
  <1>6. activations[o] + 1 \in 0 .. budget
    BY <1>1, <1>2 DEF Types
  <1>7. /\ board'[o] = Considered(rules, board[o], r)
        /\ \A p \in Organisations \ {o} : board'[p] = board[p]
        /\ board' \in [Organisations -> Boards(rules)]
        /\ activations' \in [Organisations -> 0 .. budget]
        /\ scheduled' \in [Organisations -> Seq(DOMAIN rules)]
        /\ scheduled'[o] = Tail(scheduled[o])
        /\ \A p \in Organisations \ {o} : scheduled'[p] = scheduled[p]
    BY <1>1, <1>2, <1>4, <1>5, <1>6 DEF Types
  <1>8. \A p \in Organisations : Once(scheduled'[p])
    BY <1>1, <1>4, <1>7 DEF Agenda
  <1>9. Sound(o)'
    BY <1>1, <1>2, <1>4, <1>7, SoundKept DEF config
  <1>10. SettledBy(o)'
    BY <1>2 DEF SettledBy, Recorded
  <1>11. ASSUME NEW p \in Organisations \ {o} PROVE Sound(p)' /\ SettledBy(p)'
    BY <1>1, <1>2, <1>7, OtherSound, OtherSettled DEF Recorded
  <1> QED BY <1>2, <1>4, <1>7, <1>8, <1>9, <1>10, <1>11

LEMMA EngineActivates ==
    ASSUME ExpertsIInv, ActivateRule
    PROVE  ExpertsIInv'
  <1> DEFINE o == "single_engine"
             r == Head(scheduled[o])
             b == board[o]
             c == Considered(rules, b, r)
  <1>0. /\ Types /\ Agenda /\ EnginePass /\ BoardPass /\ Sound(o)
        /\ rules \in Seq(Rule) /\ b \in Boards(rules) /\ o \in Organisations
        /\ Founded(rules, b)
    BY RulesAre DEF ExpertsIInv, Organisations, Types, Sound
  <1>1. /\ r \in DOMAIN rules /\ UNCHANGED <<rules, budget, passes, outcome>>
        /\ board'[o] = c
        /\ \A p \in Organisations \ {o} : board'[p] = board[p]
        /\ board' \in [Organisations -> Boards(rules)]
        /\ activations' \in [Organisations -> 0 .. budget]
        /\ scheduled' \in [Organisations -> Seq(DOMAIN rules)]
        /\ \A p \in Organisations \ {o} : scheduled'[p] = scheduled[p]
        /\ \A p \in Organisations : Once(scheduled'[p])
        /\ ToSet(scheduled[o]) = {r} \cup ToSet(scheduled'[o])
        /\ \A p \in Organisations : Sound(p)' /\ SettledBy(p)'
    BY <1>0, Activated DEF ActivateRule
  <1>2. /\ changed' = (changed \/ Changes(rules, b, r))
        /\ UNCHANGED <<pending, revision>>
    BY DEF ActivateRule
  <1>3. "blackboard" \in Organisations \ {o}
    BY DEF Organisations
  <1>4. Types'
    <2>1. changed' \in BOOLEAN
      BY <1>0, <1>2 DEF Types
    <2> QED BY <1>0, <1>1, <1>2, <2>1 DEF Types
  <1>5. Agenda' /\ BoardPass'
    <2>1. /\ board'["blackboard"] = board["blackboard"]
          /\ scheduled'["blackboard"] = scheduled["blackboard"]
      BY <1>1, <1>3
    <2> QED BY <1>0, <1>1, <1>2, <2>1 DEF Agenda, BoardPass
  <1>6. EnginePass'
    <2>1. SUFFICES ASSUME Paired(rules), ~changed', NEW x \in DOMAIN rules,
                          x \notin ToSet(scheduled'[o])
                   PROVE  ~Changes(rules, c, x)
      BY <1>1 DEF EnginePass
    <2>2. ~changed /\ ~Changes(rules, b, r)
      BY <1>2, <2>1
    <2>3. c.concluded = b.concluded /\ c.fired = b.fired
      BY <1>0, <1>1, <2>1, <2>2, NothingChanged
    <2>4. ~Changes(rules, b, x)
      BY <1>0, <1>1, <2>1, <2>2 DEF EnginePass
    <2> HIDE DEF b, c
    <2> QED BY <2>3, <2>4, ChangesSame
  <1> QED BY <1>1, <1>4, <1>5, <1>6 DEF ExpertsIInv

LEMMA ExpertActivates ==
    ASSUME ExpertsIInv, ActivateExpert
    PROVE  ExpertsIInv'
  <1> DEFINE o == "blackboard"
             r == Head(scheduled[o])
             b == board[o]
             c == Considered(rules, b, r)
             coming == ToSet(scheduled[o]) \cup ToSet(pending)
             left == ToSet(scheduled'[o]) \cup ToSet(pending')
  <1>0. /\ Types /\ Agenda /\ EnginePass /\ BoardPass /\ Sound(o)
        /\ rules \in Seq(Rule) /\ b \in Boards(rules) /\ o \in Organisations
        /\ Founded(rules, b) /\ pending \in Seq(DOMAIN rules) /\ Once(pending)
        /\ ToSet(scheduled[o]) \cap ToSet(pending) = {}
    BY RulesAre DEF ExpertsIInv, Organisations, Types, Sound, Agenda
  <1>1. /\ r \in DOMAIN rules /\ UNCHANGED <<rules, budget, passes, outcome>>
        /\ board'[o] = c
        /\ \A p \in Organisations \ {o} : board'[p] = board[p]
        /\ board' \in [Organisations -> Boards(rules)]
        /\ activations' \in [Organisations -> 0 .. budget]
        /\ scheduled' \in [Organisations -> Seq(DOMAIN rules)]
        /\ \A p \in Organisations \ {o} : scheduled'[p] = scheduled[p]
        /\ \A p \in Organisations : Once(scheduled'[p])
        /\ ToSet(scheduled[o]) = {r} \cup ToSet(scheduled'[o])
        /\ r \notin ToSet(scheduled'[o])
        /\ \A p \in Organisations : Sound(p)' /\ SettledBy(p)'
    BY <1>0, Activated DEF ActivateExpert
  <1>2. /\ IF Changes(rules, b, r)
           THEN revision' = revision + 1 /\ pending' = pending
           ELSE /\ pending' = IF r \in b.fired THEN pending ELSE Append(pending, r)
                /\ revision' = revision
        /\ changed' = changed
    BY DEF ActivateExpert
  <1>3. "single_engine" \in Organisations \ {o}
    BY DEF Organisations
  <1>4. r \notin ToSet(pending)
    BY <1>0, <1>1
  <1>5. /\ pending' \in Seq(DOMAIN rules) /\ Once(pending')
        /\ ToSet(pending') = IF Changes(rules, b, r) \/ r \in b.fired THEN ToSet(pending)
                             ELSE ToSet(pending) \cup {r}
    <2>1. /\ Append(pending, r) \in Seq(DOMAIN rules) /\ Once(Append(pending, r))
          /\ ToSet(Append(pending, r)) = ToSet(pending) \cup {r}
      BY <1>0, <1>1, <1>4, AppendOnce
    <2> QED BY <1>0, <1>2, <2>1
  <1>6. Types'
    <2>1. revision' \in Nat
      BY <1>0, <1>2 DEF Types
    <2> QED BY <1>0, <1>1, <1>2, <1>5, <2>1 DEF Types
  <1>7. EnginePass'
    <2>1. /\ board'["single_engine"] = board["single_engine"]
          /\ scheduled'["single_engine"] = scheduled["single_engine"]
      BY <1>1, <1>3
    <2> QED BY <1>0, <1>1, <1>2, <2>1 DEF EnginePass
  <1>8. Agenda'
    <2>1. ToSet(scheduled'[o]) \cap ToSet(pending') = {}
      BY <1>0, <1>1, <1>5
    <2>2. /\ b.fired \subseteq c.fired /\ b.unresolved \subseteq c.unresolved
          /\ Changes(rules, b, r) => r \in c.fired \cup c.unresolved
      BY <1>0, <1>1, FiredKept
    <2>3. DOMAIN rules \subseteq left \cup c.fired \cup c.unresolved
      <3>1. DOMAIN rules \subseteq coming \cup b.fired \cup b.unresolved
        BY <1>0 DEF Agenda
      <3> HIDE DEF b, c
      <3> QED BY <1>1, <1>5, <2>2, <3>1
    <2>4. ASSUME Orderly(rules), NEW u \in c.unresolved
          PROVE  /\ rules[u].concludes \notin c.concluded
                 /\ u \in c.fired \/ u \notin left
      <3>1. Peaceful(rules, b)
        BY <1>0, <2>4 DEF Sound
      <3>2. \A x \in b.unresolved : /\ rules[x].concludes \notin b.concluded
                                    /\ x \in b.fired \/ x \notin coming
        BY <1>0, <2>4 DEF Agenda
      <3>3. r \in coming
        BY <1>1
      <3>4. /\ rules[u].concludes \notin c.concluded
            /\ u \in b.unresolved \/ u \in b.fired \/ u = r
            /\ b.fired \subseteq c.fired
            /\ r \in c.unresolved => Changes(rules, b, r) \/ r \in b.fired
        <4>1. \A x \in b.unresolved :
                 rules[x].concludes \notin b.concluded /\ (x \in b.fired \/ x # r)
          BY <3>2, <3>3
        <4>2. /\ b.fired \subseteq c.fired
              /\ \A x \in c.unresolved : /\ rules[x].concludes \notin c.concluded
                                         /\ x \in b.unresolved \/ x \in b.fired \/ x = r
              /\ r \in c.unresolved => Changes(rules, b, r) \/ r \in b.fired
          <5> HIDE DEF b, r
          <5> QED BY <1>0, <1>1, <2>4, <3>1, <4>1, UnresolvedKept
        <4> HIDE DEF b, c
        <4> QED BY <2>4, <4>2
      <3> HIDE DEF b, c
      <3> QED BY <1>1, <1>4, <1>5, <2>4, <3>2, <3>3, <3>4
    <2> QED BY <1>1, <1>5, <2>1, <2>3, <2>4 DEF Agenda
  <1>9. BoardPass'
    <2>1. revision \in Nat /\ passes[o] \in Nat \ {0} /\ revision >= passes[o] - 1
      BY <1>0 DEF Types, BoardPass
    <2>2. CASE Changes(rules, b, r)
      <3>1. revision' = revision + 1 /\ passes' = passes
        BY <1>1, <1>2, <2>2
      <3>2. revision' >= passes'[o] - 1 /\ revision' # passes'[o] - 1
        BY <2>1, <3>1
      <3> QED BY <3>2 DEF BoardPass
    <2>3. CASE ~Changes(rules, b, r)
      <3>1. revision' = revision /\ passes' = passes /\ ToSet(pending') \subseteq ToSet(pending) \cup {r}
        BY <1>1, <1>2, <1>5, <2>3
      <3>2. ASSUME Paired(rules), revision = passes[o] - 1, NEW x \in ToSet(pending')
            PROVE  ~Changes(rules, c, x)
        <4>1. c.concluded = b.concluded /\ c.fired = b.fired
          BY <1>0, <1>1, <2>3, <3>2, NothingChanged
        <4>2. ~Changes(rules, b, x)
          BY <1>0, <2>3, <3>1, <3>2 DEF BoardPass
        <4> HIDE DEF b, c
        <4> QED BY <4>1, <4>2, ChangesSame
      <3> QED BY <1>1, <2>1, <3>1, <3>2 DEF BoardPass
    <2> QED BY <2>2, <2>3
  <1> QED BY <1>1, <1>6, <1>7, <1>8, <1>9 DEF ExpertsIInv
LEMMA EngineEnds ==
    ASSUME ExpertsIInv, EndEnginePass
    PROVE  ExpertsIInv'
  <1> DEFINE o == "single_engine"
  <1>0. /\ Types /\ Agenda /\ EnginePass /\ BoardPass /\ rules \in Seq(Rule)
        /\ o \in Organisations /\ "blackboard" \in Organisations /\ "blackboard" # o
        /\ \A p \in Organisations : Sound(p) /\ SettledBy(p)
    BY RulesAre DEF ExpertsIInv, Organisations
  <1>1. /\ UNCHANGED <<rules, budget, board, activations, pending, revision>>
        /\ scheduled[o] = <<>>
    BY DEF EndEnginePass, NextPass, Record, config
  <1>2. \A p \in Organisations : Sound(p)'
    BY <1>0, <1>1, OtherSound
  <1>3. CASE changed /\ changed' = FALSE /\ NextPass(o, All)
    <2>1. /\ passes' = [passes EXCEPT ![o] = passes[o] + 1] /\ outcome' = outcome
          /\ scheduled' = [scheduled EXCEPT ![o] = All] /\ changed' = FALSE
      BY <1>3 DEF NextPass
    <2>2. All \in Seq(DOMAIN rules) /\ Once(All) /\ ToSet(All) = DOMAIN rules
      BY <1>0, AllOnce
    <2>3. /\ scheduled'[o] = All /\ scheduled'["blackboard"] = scheduled["blackboard"]
          /\ passes'["blackboard"] = passes["blackboard"]
          /\ \A p \in Organisations : Once(scheduled'[p])
      BY <1>0, <2>1, <2>2 DEF Types, Agenda
    <2>4. Types'
      <3>1. passes' \in [Organisations -> Nat \ {0}]
        BY <1>0, <2>1 DEF Types
      <3>2. scheduled' \in [Organisations -> Seq(DOMAIN rules)]
        BY <1>0, <2>1, <2>2 DEF Types
      <3> QED BY <1>0, <1>1, <2>1, <3>1, <3>2 DEF Types
    <2>5. EnginePass'
      BY <1>1, <2>2, <2>3 DEF EnginePass
    <2>6. Agenda' /\ BoardPass'
      BY <1>0, <1>1, <2>3 DEF Agenda, BoardPass
    <2>7. \A p \in Organisations : SettledBy(p)'
      BY <1>0, <1>1, <2>1, OtherSettled DEF Recorded
    <2> QED BY <1>2, <2>4, <2>5, <2>6, <2>7 DEF ExpertsIInv
  <1>4. CASE ~changed /\ Record(o)
    <2>1. /\ UNCHANGED <<passes, scheduled, changed>>
          /\ outcome' = [outcome EXCEPT ![o] = "recorded"]
      BY <1>4 DEF Record
    <2>2. Types' /\ Agenda' /\ EnginePass' /\ BoardPass'
      BY <1>0, <1>1, <2>1 DEF Types, Agenda, EnginePass, BoardPass
    <2>3. SettledBy(o)'
      <3>1. Paired(rules) => \A r \in DOMAIN rules : ~Changes(rules, board[o], r)
        BY <1>0, <1>1, <1>4, NoneOnce DEF EnginePass
      <3> QED BY <1>1, <3>1 DEF SettledBy
    <2>4. \A p \in Organisations \ {o} : SettledBy(p)'
      <3>1. \A p \in Organisations \ {o} : outcome'[p] = outcome[p]
        BY <1>0, <2>1 DEF Types
      <3> QED BY <1>0, <1>1, <3>1, OtherSettled DEF Recorded
    <2> QED BY <1>2, <2>2, <2>3, <2>4 DEF ExpertsIInv
  <1> QED BY <1>3, <1>4 DEF EndEnginePass

LEMMA BoardEnds ==
    ASSUME ExpertsIInv, EndBoardPass
    PROVE  ExpertsIInv'
  <1> DEFINE o == "blackboard"
  <1>0. /\ Types /\ Agenda /\ EnginePass /\ BoardPass /\ rules \in Seq(Rule)
        /\ o \in Organisations /\ "single_engine" \in Organisations /\ "single_engine" # o
        /\ \A p \in Organisations : Sound(p) /\ SettledBy(p)
    BY RulesAre DEF ExpertsIInv, Organisations
  <1>1. /\ UNCHANGED <<rules, budget, board, activations, changed, revision>>
        /\ scheduled[o] = <<>>
    BY DEF EndBoardPass, NextPass, Record, config
  <1>2. \A p \in Organisations : Sound(p)'
    BY <1>0, <1>1, OtherSound
  <1>3. revision \in Nat /\ passes[o] \in Nat \ {0} /\ revision >= passes[o] - 1
    BY <1>0 DEF Types, BoardPass
  <1>4. CASE ~Quiet /\ pending' = <<>> /\ NextPass(o, pending)
    <2>1. /\ passes' = [passes EXCEPT ![o] = passes[o] + 1] /\ outcome' = outcome
          /\ scheduled' = [scheduled EXCEPT ![o] = pending] /\ pending' = <<>>
      BY <1>4 DEF NextPass
    <2>2. /\ scheduled'[o] = pending /\ passes'[o] = passes[o] + 1
          /\ scheduled'["single_engine"] = scheduled["single_engine"]
      BY <1>0, <2>1 DEF Types
    <2>3. Types'
      <3>1. passes' \in [Organisations -> Nat \ {0}]
        BY <1>0, <2>1 DEF Types
      <3>2. scheduled' \in [Organisations -> Seq(DOMAIN rules)] /\ <<>> \in Seq(DOMAIN rules)
        BY <1>0, <2>1 DEF Types
      <3> QED BY <1>0, <1>1, <2>1, <3>1, <3>2 DEF Types
    <2>4. EnginePass'
      BY <1>0, <1>1, <2>2 DEF EnginePass
    <2>5. Agenda'
      <3>1. \A p \in Organisations : Once(scheduled'[p])
        BY <1>0, <2>1, <2>2 DEF Types, Agenda
      <3>2. /\ Once(pending') /\ ToSet(pending') = {} /\ ToSet(scheduled[o]) = {}
        BY <1>1, <2>1, NoneOnce
      <3> QED BY <1>0, <1>1, <2>2, <3>1, <3>2 DEF Agenda
    <2>6. BoardPass'
      <3>1. revision # passes[o] - 1
        BY <1>3, <1>4 DEF Quiet
      <3>2. revision' >= passes'[o] - 1 /\ ToSet(pending') = {}
        BY <1>1, <1>3, <2>1, <2>2, <3>1, NoneOnce
      <3> QED BY <3>2 DEF BoardPass
    <2>7. \A p \in Organisations : SettledBy(p)'
      BY <1>0, <1>1, <2>1, OtherSettled DEF Recorded
    <2> QED BY <1>2, <2>3, <2>4, <2>5, <2>6, <2>7 DEF ExpertsIInv
  <1>5. CASE Quiet /\ Record(o)
    <2>1. /\ UNCHANGED <<passes, scheduled, pending>>
          /\ outcome' = [outcome EXCEPT ![o] = "recorded"]
      BY <1>5 DEF Record
    <2>2. Types' /\ Agenda' /\ EnginePass' /\ BoardPass'
      BY <1>0, <1>1, <2>1 DEF Types, Agenda, EnginePass, BoardPass
    <2>3. SettledBy(o)'
      <3>1. pending = <<>> \/ revision = passes[o] - 1
        BY <1>3, <1>5 DEF Quiet
      <3>2. Paired(rules) => \A r \in ToSet(pending) : ~Changes(rules, board[o], r)
        BY <1>0, <3>1, NoneOnce DEF BoardPass
      <3>3. DOMAIN rules \subseteq ToSet(pending) \cup board[o].fired \cup board[o].unresolved
        BY <1>0, <1>1, NoneOnce DEF Agenda
      <3> QED BY <1>1, <3>2, <3>3 DEF SettledBy
    <2>4. \A p \in Organisations \ {o} : SettledBy(p)'
      <3>1. \A p \in Organisations \ {o} : outcome'[p] = outcome[p]
        BY <1>0, <2>1 DEF Types
      <3> QED BY <1>0, <1>1, <3>1, OtherSettled DEF Recorded
    <2> QED BY <1>2, <2>2, <2>3, <2>4 DEF ExpertsIInv
  <1> QED BY <1>4, <1>5 DEF EndBoardPass

(* A budget that is exhausted, and a step of nothing. *)
LEMMA OthersKeep ==
    ASSUME ExpertsIInv,
           UNCHANGED <<rules, budget, board, activations, passes, scheduled, changed, pending, revision>>,
           outcome' \in [Organisations -> {"running", "recorded", "exhausted"}],
           \A o \in Organisations : outcome'[o] = "recorded" => outcome[o] = "recorded"
    PROVE  ExpertsIInv'
  <1>1. Types' /\ Agenda' /\ EnginePass' /\ BoardPass'
    BY DEF ExpertsIInv, Types, Agenda, EnginePass, BoardPass
  <1>2. \A o \in Organisations : Sound(o)'
    BY OtherSound DEF ExpertsIInv
  <1>3. \A o \in Organisations : SettledBy(o)'
    BY OtherSettled DEF ExpertsIInv, Recorded
  <1> QED BY <1>1, <1>2, <1>3 DEF ExpertsIInv

LEMMA Begins == Init => ExpertsIInv
  <1> SUFFICES ASSUME Init PROVE ExpertsIInv
    OBVIOUS
  <1>0. rules \in Seq(Rule) /\ budget \in Nat \ {0}
    BY ExpertsAssumption DEF Init
  <1>1. All \in Seq(DOMAIN rules) /\ Once(All) /\ ToSet(All) = DOMAIN rules
    BY <1>0, AllOnce
  <1>2. "blackboard" \in Organisations
    BY DEF Organisations
  <1>3. /\ EmptyBoard \in Boards(rules) /\ EmptyBoard.concluded = {}
        /\ EmptyBoard.fired = {} /\ EmptyBoard.unresolved = {}
    BY DEF EmptyBoard, Boards
  <1>4. Types
    <2>1. 0 \in 0 .. budget /\ <<>> \in Seq(DOMAIN rules) /\ 1 \in Nat \ {0} /\ 0 \in Nat
      BY <1>0
    <2>2. /\ board \in [Organisations -> Boards(rules)]
          /\ activations \in [Organisations -> 0 .. budget]
          /\ passes \in [Organisations -> Nat \ {0}]
          /\ scheduled \in [Organisations -> Seq(DOMAIN rules)]
      BY <1>1, <1>3, <2>1 DEF Init
    <2>3. outcome \in [Organisations -> {"running", "recorded", "exhausted"}]
      BY DEF Init
    <2> QED BY <2>1, <2>2, <2>3 DEF Init, Types
  <1>5. ASSUME NEW o \in Organisations PROVE Sound(o) /\ SettledBy(o)
    <2>1. board[o] = EmptyBoard /\ outcome[o] = "running"
      BY DEF Init
    <2> QED BY <1>3, <2>1 DEF Sound, SettledBy, Recorded, Founded, Peaceful, Excused
  <1>6. Agenda
    <2>1. \A o \in Organisations : scheduled[o] = All
      BY DEF Init
    <2>2. pending = <<>> /\ board["blackboard"] = EmptyBoard
      BY <1>2 DEF Init
    <2> QED BY <1>1, <1>2, <1>3, <2>1, <2>2, NoneOnce DEF Agenda
  <1>7. EnginePass
    BY <1>1 DEF Init, EnginePass, Organisations
  <1>8. BoardPass
    <2>1. passes["blackboard"] = 1 /\ revision = 0 /\ pending = <<>>
      BY <1>2 DEF Init
    <2> QED BY <2>1, NoneOnce DEF BoardPass
  <1> QED BY <1>4, <1>5, <1>6, <1>7, <1>8 DEF ExpertsIInv

LEMMA Keeps == ExpertsIInv /\ [Next]_vars => ExpertsIInv'
  <1> SUFFICES ASSUME ExpertsIInv, [Next]_vars PROVE ExpertsIInv'
    OBVIOUS
  <1>1. CASE \E o \in Organisations : Exhaust(o)
    <2>1. PICK o \in Organisations : Exhaust(o)
      BY <1>1
    <2>2. outcome \in [Organisations -> {"running", "recorded", "exhausted"}]
      BY DEF ExpertsIInv, Types
    <2>3. outcome' = [outcome EXCEPT ![o] = "exhausted"]
      BY <2>1 DEF Exhaust
    <2>4. /\ outcome' \in [Organisations -> {"running", "recorded", "exhausted"}]
          /\ \A p \in Organisations : outcome'[p] = "recorded" => outcome[p] = "recorded"
      BY <2>2, <2>3
    <2> QED BY <2>1, <2>4, OthersKeep DEF Exhaust, config
  <1>2. CASE UNCHANGED vars
    BY <1>2, OthersKeep DEF vars, ExpertsIInv, Types
  <1> QED BY <1>1, <1>2, EngineActivates, ExpertActivates, EngineEnds, BoardEnds DEF Next

LEMMA Invariant == Spec => []ExpertsIInv
  BY Begins, Keeps, PTL DEF Spec

-------------------------------------------------------------------------------
(* What it says of the boards.                                               *)

(* Boards are well-formed, no organisation ever holds two conclusions that   *)
(* contradict each other, and the blackboard asserts neither conclusion that *)
(* equal authority left unresolved: where rules that contradict each other   *)
(* do so mutually, and nothing else concludes what they conclude.            *)
THEOREM BoardSafe ==
    ASSUME \A inventory \in Inventories : Orderly(inventory)
    PROVE  Spec => []BoardInv
  <1>1. ExpertsIInv => BoardInv
    <2> SUFFICES ASSUME ExpertsIInv PROVE BoardInv
      OBVIOUS
    <2>1. /\ Types /\ Agenda /\ rules \in Seq(Rule) /\ budget \in Nat /\ Orderly(rules)
          /\ \A o \in Organisations : Founded(rules, board[o]) /\ Peaceful(rules, board[o])
      BY RulesAre DEF ExpertsIInv, Sound, Types
    <2>2. TypeOK
      BY <2>1 DEF Types, TypeOK, Boards
    <2>3. NoContradiction
      <3>1. SUFFICES ASSUME NEW o \in Organisations, NEW r \in DOMAIN rules, rules[r].holds,
                            rules[r].concludes \in board[o].concluded,
                            NEW other \in board[o].concluded,
                            other \in ToSet(rules[r].contradicts)
                     PROVE  FALSE
        BY DEF NoContradiction
      <3>2. PICK s \in board[o].fired : rules[s].concludes = other
        BY <2>1 DEF Founded
      <3>3. s \in DOMAIN rules /\ rules[s].holds
        BY <2>1 DEF Types, Boards, Founded
      <3> QED BY <2>1, <3>1, <3>2, <3>3 DEF Rivals, Peaceful
    <2>4. BoardLeavesUnresolved
      BY <2>1 DEF Agenda, BoardLeavesUnresolved
    <2> QED BY <2>2, <2>3, <2>4 DEF BoardInv
  <1> QED BY <1>1, Invariant, PTL

(* A rule that holds, whose premises are concluded and whose conclusion is   *)
(* withheld by a recorded diagnosis.                                         *)
LEMMA Withheld ==
    ASSUME ExpertsIInv, Paired(rules), NEW o \in Organisations, Recorded(o),
           NEW r \in DOMAIN rules, rules[r].holds, rules[r].premises \subseteq board[o].concluded,
           rules[r].concludes \notin board[o].concluded
    PROVE  \/ r \in board[o].unresolved
           \/ \E other \in board[o].concluded \cap ToSet(rules[r].contradicts) :
                 rules[Author(rules, other)].priority > rules[r].priority
  <1> DEFINE b == board[o]
  <1>1. /\ rules \in Seq(Rule) /\ b \in Boards(rules) /\ Founded(rules, b) /\ Excused(rules, b)
        /\ Orderly(rules)
    BY RulesAre DEF ExpertsIInv, Types, Sound, Paired
  <1>2. r \in b.fired \cup b.unresolved \/ ~Changes(rules, b, r)
    BY DEF ExpertsIInv, SettledBy
  <1>3. CASE r \in b.fired
    <2>1. Caused(rules, b, r)
      BY <1>1, <1>3 DEF Excused
    <2>2. ASSUME NEW s \in DOMAIN rules, Rivals(rules, r, s), rules[s].concludes \in b.concluded,
                 rules[s].priority > rules[r].priority
          PROVE  \E other \in b.concluded \cap ToSet(rules[r].contradicts) :
                    rules[Author(rules, other)].priority > rules[r].priority
      <3>1. Author(rules, rules[s].concludes) = s
        BY <1>1, <2>2, AuthorWrote DEF Orderly
      <3> QED BY <2>2, <3>1 DEF Rivals
    <2> QED BY <2>1, <2>2 DEF Caused
  <1>4. CASE r \notin b.fired /\ ~Changes(rules, b, r)
    <2>1. Fires(rules, b, r)
      BY <1>4 DEF Fires
    <2>2. \E k \in Resisting(rules, b, r) :
             rules[Winner(rules, r, k)].priority > rules[r].priority
      <3> HIDE DEF b
      <3> QED BY <1>1, <1>4, <2>1, ConsideredIs
    <2>3. PICK k \in Resisting(rules, b, r) :
             rules[Winner(rules, r, k)].priority > rules[r].priority
      BY <2>2
    <2>4. rules[r].contradicts[k] \in b.concluded \cap ToSet(rules[r].contradicts)
      BY <2>3 DEF Resisting, Losing, ToSet
    <2> QED BY <2>3, <2>4 DEF Winner
  <1> QED BY <1>2, <1>3, <1>4

(* Whatever a recorded diagnosis withholds, although its rule holds and its  *)
(* premises are concluded, it withholds for a stronger conclusion or for a   *)
(* tie: where no rule has two rivals.                                        *)
THEOREM WithheldSafe ==
    ASSUME \A inventory \in Inventories : Paired(inventory)
    PROVE  Spec => []WithheldForCause
  <1>1. ExpertsIInv => WithheldForCause
    <2> SUFFICES ASSUME ExpertsIInv PROVE WithheldForCause
      OBVIOUS
    <2>1. Paired(rules)
      BY DEF ExpertsIInv, Types
    <2> QED BY <2>1, Withheld DEF WithheldForCause
  <1> QED BY <1>1, Invariant, PTL

(* What a diagnosis records, when the evidence contradicts itself nowhere,   *)
(* is what follows from the rules that hold and nothing else, whichever the  *)
(* organisation, the order of the inventory and the budget.                  *)
THEOREM LeastDiagnosis == Spec => []LeastFixedPoint
  <1>1. ExpertsIInv => LeastFixedPoint
    <2> SUFFICES ASSUME ExpertsIInv, NEW o \in Organisations, Recorded(o), Consistent
                 PROVE  board[o].concluded =
                          {label \in Labels : \A S \in SUBSET Labels : Closed(S) => label \in S}
      BY DEF LeastFixedPoint
    <2> DEFINE b == board[o]
    <2>1. /\ b \in Boards(rules) /\ Founded(rules, b) /\ Paired(rules) /\ Peaceful(rules, b)
          /\ \A S \in SUBSET Labels : Closed(S) => b.concluded \subseteq S
      BY DEF ExpertsIInv, Types, Sound, Consistent, Paired, Orderly
    <2>2. b.concluded \in SUBSET Labels
      BY <2>1 DEF Boards
    <2>3. Closed(b.concluded)
      <3>1. SUFFICES ASSUME NEW r \in DOMAIN rules, rules[r].holds,
                            rules[r].premises \subseteq b.concluded,
                            rules[r].concludes \notin b.concluded
                     PROVE  FALSE
        BY DEF Closed
      <3>2. \/ r \in b.unresolved
            \/ \E other \in b.concluded : other \in ToSet(rules[r].contradicts)
        BY <2>1, <3>1, Withheld
      <3>3. r \notin b.unresolved
        BY <2>1 DEF Peaceful, Consistent, Boards
      <3>4. PICK other \in b.concluded : other \in ToSet(rules[r].contradicts)
        BY <3>2, <3>3
      <3>5. PICK s \in b.fired : rules[s].concludes = other
        BY <2>1, <3>4 DEF Founded
      <3>6. s \in DOMAIN rules /\ rules[s].holds
        BY <2>1, <3>5 DEF Boards, Founded
      <3> QED BY <3>1, <3>4, <3>5, <3>6 DEF Consistent, Rivals
    <2> HIDE DEF b
    <2>4. b.concluded = {label \in Labels : \A S \in SUBSET Labels : Closed(S) => label \in S}
      BY <2>1, <2>2, <2>3
    <2> QED BY <2>4 DEF b
  <1> QED BY <1>1, Invariant, PTL

(* No rule would still change what a recorded diagnosis concludes, but for   *)
(* those equal authority left unresolved.                                    *)
FixedPoint ==
    \A o \in Organisations : Recorded(o) =>
        \A r \in DOMAIN rules \ board[o].unresolved :
            Considered(rules, board[o], r).concluded = board[o].concluded

(* _Inference: "accumulate conclusions to a fixed point".  It is one where   *)
(* no rule has two rivals; MCExperts gives an inventory for which it is not. *)
THEOREM NothingLeftToConclude ==
    ASSUME \A inventory \in Inventories : Paired(inventory)
    PROVE  Spec => []FixedPoint
  <1>1. ExpertsIInv => FixedPoint
    <2> SUFFICES ASSUME ExpertsIInv, NEW o \in Organisations, Recorded(o),
                        NEW r \in DOMAIN rules \ board[o].unresolved
                 PROVE  Considered(rules, board[o], r).concluded = board[o].concluded
      BY DEF FixedPoint
    <2>1. /\ rules \in Seq(Rule) /\ board[o] \in Boards(rules) /\ Founded(rules, board[o])
          /\ Paired(rules) /\ r \in DOMAIN rules
      BY RulesAre DEF ExpertsIInv, Types, Sound
    <2>2. r \in board[o].fired \/ ~Changes(rules, board[o], r)
      BY <2>1 DEF ExpertsIInv, SettledBy
    <2>3. ~Changes(rules, board[o], r)
      BY <2>2 DEF Changes, Fires
    <2> QED BY <2>1, <2>3, NothingChanged
  <1> QED BY <1>1, Invariant, PTL


-------------------------------------------------------------------------------
(* Why the organisations agree: they go the same way.  The way is that of an *)
(* engine that never ends, one rule of the inventory after the other; the    *)
(* blackboard leaves out only what would leave the board as it is.           *)

Places(inv) == [board : Boards(inv), turn : DOMAIN inv]

Following(inv, r) == IF r = Len(inv) THEN 1 ELSE r + 1

Onward(inv, p) ==
    [board |-> Considered(inv, p.board, p.turn), turn |-> Following(inv, p.turn)]

Way(inv, n, R) ==
    /\ R \in [0 .. n -> Places(inv)]
    /\ R[0] = [board |-> EmptyBoard, turn |-> 1]
    /\ \A i \in 0 .. n - 1 : R[i + 1] = Onward(inv, R[i])

Comes(inv, b, r) ==
    \E n \in Nat : \E R : Way(inv, n, R) /\ R[n] = [board |-> b, turn |-> r]

(* An activation that leaves everything as it is. *)
Still(inv, b, r) == Considered(inv, b, r) = b

LEMMA WayBegins ==
    ASSUME NEW inv \in Seq(Rule), inv # <<>>
    PROVE  Comes(inv, EmptyBoard, 1)
  <1> DEFINE p == [board |-> EmptyBoard, turn |-> 1]
             R == [i \in 0 .. 0 |-> p]
  <1>1. 1 \in DOMAIN inv
    OBVIOUS
  <1>2. EmptyBoard \in Boards(inv)
    BY DEF EmptyBoard, Boards
  <1>3. p \in Places(inv)
    BY <1>1, <1>2 DEF Places
  <1>4. 0 .. 0 - 1 = {} /\ 0 \in 0 .. 0
    OBVIOUS
  <1>5. Way(inv, 0, R)
    <2> HIDE DEF p
    <2>1. R \in [0 .. 0 -> Places(inv)] /\ R[0] = p
      BY <1>3, <1>4
    <2> QED BY <1>4, <2>1 DEF Way, p
  <1>6. R[0] = p /\ 0 \in Nat
    BY <1>4
  <1> QED BY <1>5, <1>6 DEF Comes

(* From a place of the way over rules that leave the board as it is. *)
LEMMA WalksOn ==
    ASSUME NEW inv \in Seq(Rule), NEW b, NEW r \in DOMAIN inv, Comes(inv, b, r),
           NEW t \in Nat, r <= t, t <= Len(inv) + 1,
           \A x \in DOMAIN inv : r <= x /\ x < t => Still(inv, b, x)
    PROVE  Comes(inv, b, IF t = Len(inv) + 1 THEN 1 ELSE t)
  <1> DEFINE L == Len(inv)
             At(x) == IF x = L + 1 THEN 1 ELSE x
  <1>1. L \in Nat /\ DOMAIN inv = 1 .. L
    OBVIOUS
  <1>20. PICK n \in Nat : \E R : Way(inv, n, R) /\ R[n] = [board |-> b, turn |-> r]
    BY DEF Comes
  <1>2. PICK R : Way(inv, n, R) /\ R[n] = [board |-> b, turn |-> r]
    BY <1>20
  <1>3. b \in Boards(inv)
    <2>1. R[n] \in Places(inv)
      BY <1>2 DEF Way
    <2> QED BY <1>2, <2>1 DEF Places
  <1> DEFINE m == n + (t - r)
             Q == [i \in 0 .. m |->
                     IF i <= n THEN R[i] ELSE [board |-> b, turn |-> At(r + (i - n))]]
  <1> HIDE DEF L
  <1>4. m \in Nat /\ n <= m /\ L >= 1
    BY <1>1
  <1>5. \A i \in 0 .. m : n <= i => Q[i] = [board |-> b, turn |-> At(r + (i - n))]
    <2>1. r + (n - n) = r /\ r # L + 1
      BY <1>1
    <2> QED BY <1>2, <2>1
  <1>6. \A i \in 0 .. n : i \in 0 .. m /\ Q[i] = R[i]
    BY <1>4
  <1>7. Q \in [0 .. m -> Places(inv)]
    <2>1. SUFFICES ASSUME NEW i \in 0 .. m PROVE Q[i] \in Places(inv)
      OBVIOUS
    <2>2. CASE i <= n
      <3>1. i \in 0 .. n
        BY <2>2
      <3> HIDE DEF Q
      <3> QED BY <1>2, <1>6, <3>1 DEF Way
    <2>3. CASE n < i
      <3>1. At(r + (i - n)) \in DOMAIN inv
        <4>1. r + (i - n) \in 1 .. L + 1
          BY <1>1, <2>3 DEF L
        <4> QED BY <1>1, <1>4, <4>1
      <3>2. Q[i] = [board |-> b, turn |-> At(r + (i - n))]
        BY <1>5, <2>3
      <3> HIDE DEF Q, At
      <3> QED BY <1>3, <3>1, <3>2 DEF Places
    <2> QED BY <2>2, <2>3
  <1>8. ASSUME NEW i \in 0 .. m - 1 PROVE Q[i + 1] = Onward(inv, Q[i])
    <2>1. i \in 0 .. m /\ i + 1 \in 0 .. m
      BY <1>4, <1>8
    <2>2. CASE i < n
      <3>1. i \in 0 .. n /\ i + 1 \in 0 .. n /\ i \in 0 .. n - 1
        BY <2>1, <2>2
      <3>2. R[i + 1] = Onward(inv, R[i])
        BY <1>2, <3>1 DEF Way
      <3> HIDE DEF Q
      <3> QED BY <1>6, <3>1, <3>2
    <2>3. CASE n <= i
      <3> DEFINE x == r + (i - n)
      <3>1. /\ x \in 1 .. L /\ r <= x /\ x < t /\ r + ((i + 1) - n) = x + 1
        BY <1>1, <1>8, <2>3 DEF L
      <3>2. Q[i] = [board |-> b, turn |-> x] /\ Q[i + 1] = [board |-> b, turn |-> At(x + 1)]
        <4>1. n <= i + 1 /\ x # L + 1
          BY <1>1, <2>3, <3>1
        <4>2. Q[i] = [board |-> b, turn |-> At(x)]
          BY <1>5, <2>1, <2>3
        <4>3. Q[i + 1] = [board |-> b, turn |-> At(x + 1)]
          BY <1>5, <2>1, <3>1, <4>1
        <4> QED BY <4>1, <4>2, <4>3
      <3>3. Considered(inv, b, x) = b
        BY <1>1, <3>1 DEF Still
      <3>4. At(x + 1) = Following(inv, x)
        BY <1>1, <3>1 DEF Following, L
      <3> HIDE DEF Q, x, At
      <3>5. Onward(inv, Q[i]) = [board |-> b, turn |-> Following(inv, x)]
        BY <3>2, <3>3 DEF Onward
      <3> QED BY <3>2, <3>4, <3>5
    <2> QED BY <2>1, <2>2, <2>3
  <1>9. Q[m] = [board |-> b, turn |-> At(t)]
    <2>1. r + (m - n) = t /\ m \in 0 .. m /\ n <= m
      BY <1>1, <1>4
    <2> HIDE DEF Q, m, At
    <2> QED BY <1>5, <2>1
  <1>10. Q[0] = R[0]
    BY <1>6
  <1>11. Way(inv, m, Q)
    <2> HIDE DEF Q, m
    <2> QED BY <1>2, <1>7, <1>8, <1>10 DEF Way
  <1> HIDE DEF Q, m
  <1> QED BY <1>4, <1>9, <1>11 DEF Comes, L

(* One activation on the way. *)
LEMMA StepsOn ==
    ASSUME NEW inv \in Seq(Rule), NEW b, NEW r \in DOMAIN inv, Comes(inv, b, r),
           Considered(inv, b, r) \in Boards(inv)
    PROVE  Comes(inv, Considered(inv, b, r), Following(inv, r))
  <1> DEFINE L == Len(inv)
             p == [board |-> Considered(inv, b, r), turn |-> Following(inv, r)]
  <1>1. L \in Nat /\ DOMAIN inv = 1 .. L
    OBVIOUS
  <1>20. PICK n \in Nat : \E R : Way(inv, n, R) /\ R[n] = [board |-> b, turn |-> r]
    BY DEF Comes
  <1>2. PICK R : Way(inv, n, R) /\ R[n] = [board |-> b, turn |-> r]
    BY <1>20
  <1> DEFINE Q == [i \in 0 .. n + 1 |-> IF i <= n THEN R[i] ELSE p]
  <1>3. Following(inv, r) \in DOMAIN inv
    BY <1>1 DEF Following
  <1>4. p \in Places(inv)
    BY <1>3 DEF Places
  <1>5. p = Onward(inv, R[n])
    BY <1>2 DEF Onward
  <1> HIDE DEF p
  <1>6. \A i \in 0 .. n : i \in 0 .. n + 1 /\ Q[i] = R[i]
    OBVIOUS
  <1>7. Q[n + 1] = p
    OBVIOUS
  <1>8. Q \in [0 .. n + 1 -> Places(inv)]
    <2>1. ASSUME NEW i \in 0 .. n + 1 PROVE i \in 0 .. n \/ i = n + 1
      OBVIOUS
    <2>2. \A i \in 0 .. n : R[i] \in Places(inv)
      BY <1>2 DEF Way
    <2>3. \A i \in 0 .. n + 1 : Q[i] \in Places(inv)
      BY <1>4, <1>6, <1>7, <2>1, <2>2
    <2> QED BY <2>3
  <1>9. ASSUME NEW i \in 0 .. (n + 1) - 1 PROVE Q[i + 1] = Onward(inv, Q[i])
    <2>1. \/ i \in 0 .. n - 1 /\ i + 1 \in 0 .. n /\ i \in 0 .. n
          \/ i = n
      OBVIOUS
    <2>2. n \in 0 .. n
      OBVIOUS
    <2> HIDE DEF Q
    <2> QED BY <1>2, <1>5, <1>6, <1>7, <2>1, <2>2 DEF Way
  <1>10. Q[0] = R[0] /\ n + 1 \in Nat
    BY <1>6
  <1> HIDE DEF Q
  <1>11. Way(inv, n + 1, Q)
    BY <1>2, <1>8, <1>9, <1>10 DEF Way
  <1> QED BY <1>7, <1>10, <1>11 DEF Comes, p

(* There is one way. *)
LEMMA OneWay ==
    ASSUME NEW inv, NEW n \in Nat, NEW m \in Nat, n <= m, NEW R, NEW Q,
           Way(inv, n, R), Way(inv, m, Q)
    PROVE  \A i \in 0 .. n : R[i] = Q[i]
  <1> DEFINE Apart == {i \in 0 .. n : R[i] # Q[i]}
  <1>1. SUFFICES ASSUME Apart # {} PROVE FALSE
    OBVIOUS
  <1>2. PICK i \in Apart : \A j \in Apart : i <= j
    <2>1. Apart \subseteq Nat
      OBVIOUS
    <2> HIDE DEF Apart
    <2> QED BY <1>1, <2>1, LeastPlace
  <1>3. i # 0
    BY <1>2 DEF Way
  <1>4. i - 1 \in 0 .. n - 1 /\ i - 1 \in 0 .. m - 1 /\ i - 1 \in 0 .. n /\ (i - 1) + 1 = i
    BY <1>2, <1>3
  <1>5. R[i - 1] = Q[i - 1]
    BY <1>2, <1>4
  <1>6. R[(i - 1) + 1] = Onward(inv, R[i - 1]) /\ Q[(i - 1) + 1] = Onward(inv, Q[i - 1])
    BY <1>4 DEF Way
  <1> QED BY <1>2, <1>4, <1>5, <1>6

(* Where every rule leaves the board as it is, it stays as it is. *)
LEMMA WayRests ==
    ASSUME NEW inv \in Seq(Rule), NEW n \in Nat, NEW m \in Nat, n <= m, NEW R, NEW Q,
           Way(inv, n, R), Way(inv, m, Q), \A r \in DOMAIN inv : Still(inv, R[n].board, r)
    PROVE  Q[m].board = R[n].board
  <1> DEFINE b == R[n].board
             Apart == {i \in n .. m : Q[i].board # b}
  <1>1. SUFFICES ASSUME Apart # {} PROVE FALSE
    <2>1. m \in n .. m
      OBVIOUS
    <2> QED BY <2>1
  <1>2. PICK i \in Apart : \A j \in Apart : i <= j
    <2>1. Apart \subseteq Nat
      OBVIOUS
    <2> HIDE DEF Apart
    <2> QED BY <1>1, <2>1, LeastPlace
  <1>3. Q[n] = R[n]
    BY OneWay
  <1>4. i # n
    BY <1>2, <1>3
  <1>5. i - 1 \in 0 .. m - 1 /\ i - 1 \in 0 .. m /\ i - 1 \in n .. m /\ (i - 1) + 1 = i
    BY <1>2, <1>4
  <1>6. Q[i - 1].board = b /\ Q[i - 1].turn \in DOMAIN inv
    <2>1. Q[i - 1] \in Places(inv)
      BY <1>5 DEF Way
    <2> QED BY <1>2, <1>5, <2>1 DEF Places
  <1>7. Q[(i - 1) + 1] = Onward(inv, Q[i - 1])
    BY <1>5 DEF Way
  <1>8. Q[i].board = Considered(inv, b, Q[i - 1].turn)
    <2> HIDE DEF b
    <2> QED BY <1>5, <1>6, <1>7 DEF Onward
  <1> QED BY <1>2, <1>6, <1>8 DEF Still

LEMMA OneEnd ==
    ASSUME NEW inv \in Seq(Rule), NEW b, NEW r, NEW c, NEW s,
           Comes(inv, b, r), Comes(inv, c, s),
           \A x \in DOMAIN inv : Still(inv, b, x) /\ Still(inv, c, x)
    PROVE  b = c
  <1>10. PICK n \in Nat : \E R : Way(inv, n, R) /\ R[n] = [board |-> b, turn |-> r]
    BY DEF Comes
  <1>1. PICK R : Way(inv, n, R) /\ R[n] = [board |-> b, turn |-> r]
    BY <1>10
  <1>20. PICK m \in Nat : \E Q : Way(inv, m, Q) /\ Q[m] = [board |-> c, turn |-> s]
    BY DEF Comes
  <1>2. PICK Q : Way(inv, m, Q) /\ Q[m] = [board |-> c, turn |-> s]
    BY <1>20
  <1>3. R[n].board = b /\ Q[m].board = c
    BY <1>1, <1>2
  <1>6. \A x \in DOMAIN inv : Still(inv, R[n].board, x)
    BY <1>3
  <1>7. \A x \in DOMAIN inv : Still(inv, Q[m].board, x)
    BY <1>3
  <1>8. Way(inv, n, R) /\ Way(inv, m, Q)
    BY <1>1, <1>2
  <1>4. CASE n <= m
    <2>1. Q[m].board = R[n].board
      BY <1>4, <1>6, <1>8, WayRests
    <2> QED BY <1>3, <2>1
  <1>5. CASE m <= n
    <2>1. R[n].board = Q[m].board
      BY <1>5, <1>7, <1>8, WayRests
    <2> QED BY <1>3, <2>1
  <1> QED BY <1>4, <1>5

-------------------------------------------------------------------------------
(* What changes nothing is still after it.                                   *)

(* A rule that is beaten: what its activation leaves behind.                 *)
LEMMA BeatenIs ==
    ASSUME NEW inv \in Seq(Rule), Paired(inv), NEW b \in Boards(inv), Founded(inv, b),
           NEW r \in DOMAIN inv, ~Changes(inv, b, r)
    PROVE  \/ ~Fires(inv, b, r) /\ Still(inv, b, r)
           \/ /\ Fires(inv, b, r) /\ Stopped(inv, b, r) /\ ~Ties(inv, b, r)
              /\ Considered(inv, b, r) =
                   [b EXCEPT !.inhibited =
                      @ \cup {LowerPriority(r, inv[r].contradicts[StoppedAt(inv, b, r)])}]
  <1>1. CASE ~Fires(inv, b, r)
    BY <1>1 DEF Considered, Still
  <1>2. CASE Fires(inv, b, r)
    <2>1. Stopped(inv, b, r) /\ ~Ties(inv, b, r)
      BY <1>2 DEF Changes
    <2>2. PICK k \in Resisting(inv, b, r) : TRUE
      BY <2>1 DEF Stopped
    <2>3. Gone(inv, b, r) = {}
      BY <1>2, <2>2, StoppedAtOnce DEF Fires
    <2>4. Overturned(inv, b, r) = {}
      BY <2>3 DEF Gone
    <2>5. Inhibitions(inv, b, r) = {}
      BY <2>4 DEF Inhibitions
    <2>6. Retracted(inv, b, r) = b
      <3>1. Retracted(inv, b, r) = [b EXCEPT !.concluded = b.concluded \ {},
                                             !.inhibited = b.inhibited \cup {}]
        BY <2>3, <2>5 DEF Retracted, Gone
      <3>2. b.concluded \ {} = b.concluded /\ b.inhibited \cup {} = b.inhibited
        OBVIOUS
      <3> QED BY <3>1, <3>2 DEF Boards
    <2>7. Considered(inv, b, r) = Defeated(inv, b, r)
      BY <1>2, <2>1 DEF Considered
    <2> QED BY <1>2, <2>1, <2>6, <2>7 DEF Defeated
  <1> QED BY <1>1, <1>2

(* The same rule is beaten by the same conclusion on a board that concludes  *)
(* the same.                                                                 *)
LEMMA BeatenSame ==
    ASSUME NEW inv \in Seq(Rule), Paired(inv), NEW b \in Boards(inv), Founded(inv, b),
           NEW c \in Boards(inv), Founded(inv, c), c.concluded = b.concluded, c.fired = b.fired,
           NEW r \in DOMAIN inv, ~Changes(inv, b, r),
           Considered(inv, b, r).inhibited \subseteq c.inhibited
    PROVE  ~Changes(inv, c, r) /\ Still(inv, c, r)
  <1> DEFINE l == LowerPriority(r, inv[r].contradicts[StoppedAt(inv, b, r)])
  <1>1. ~Changes(inv, c, r)
    BY ChangesSame
  <1>2. (Fires(inv, c, r) <=> Fires(inv, b, r)) /\ StoppedAt(inv, c, r) = StoppedAt(inv, b, r)
    BY DEF Fires, StoppedAt, Resisting, Losing
  <1>3. CASE ~Fires(inv, c, r)
    BY <1>1, <1>3 DEF Still, Considered
  <1>4. CASE Fires(inv, c, r)
    <2>1. Considered(inv, b, r) = [b EXCEPT !.inhibited = b.inhibited \cup {l}]
      BY <1>2, <1>4, BeatenIs
    <2>2. Considered(inv, c, r) = [c EXCEPT !.inhibited = c.inhibited \cup {l}]
      BY <1>1, <1>2, <1>4, BeatenIs
    <2> HIDE DEF l
    <2>3. l \in c.inhibited
      BY <2>1 DEF Boards
    <2>4. c.inhibited \cup {l} = c.inhibited
      BY <2>3
    <2>5. Considered(inv, c, r) = c
      BY <2>2, <2>4 DEF Boards
    <2> QED BY <1>1, <2>5 DEF Still
  <1> QED BY <1>3, <1>4

(* A rule that changes nothing leaves the board such that it is still, and   *)
(* leaves still what was still.                                              *)
LEMMA StillAfter ==
    ASSUME NEW inv \in Seq(Rule), Paired(inv), NEW b \in Boards(inv), Founded(inv, b),
           NEW r \in DOMAIN inv, ~Changes(inv, b, r)
    PROVE  LET c == Considered(inv, b, r)
           IN  /\ ~Changes(inv, c, r) /\ Still(inv, c, r)
               /\ \A x \in DOMAIN inv : ~Changes(inv, b, x) /\ Still(inv, b, x) =>
                     ~Changes(inv, c, x) /\ Still(inv, c, x)
  <1> DEFINE c == Considered(inv, b, r)
  <1>1. c.concluded = b.concluded /\ c.fired = b.fired
    BY NothingChanged
  <1>2. c \in Boards(inv) /\ Founded(inv, c)
    BY ConsideredIs, FoundedKept
  <1>3. b.inhibited \subseteq c.inhibited
    <2> DEFINE l == LowerPriority(r, inv[r].contradicts[StoppedAt(inv, b, r)])
    <2>1. c = b \/ c = [b EXCEPT !.inhibited = b.inhibited \cup {l}]
      BY BeatenIs DEF Still
    <2> HIDE DEF c, l
    <2> QED BY <2>1 DEF Boards
  <1>4. ASSUME NEW x \in DOMAIN inv, ~Changes(inv, b, x), Considered(inv, b, x).inhibited \subseteq c.inhibited
        PROVE  ~Changes(inv, c, x) /\ Still(inv, c, x)
    <2> HIDE DEF c
    <2> QED BY <1>1, <1>2, <1>4, BeatenSame
  <1>5. ~Changes(inv, c, r) /\ Still(inv, c, r)
    BY <1>4
  <1>6. ASSUME NEW x \in DOMAIN inv, ~Changes(inv, b, x), Still(inv, b, x)
        PROVE  ~Changes(inv, c, x) /\ Still(inv, c, x)
    <2>1. Considered(inv, b, x).inhibited \subseteq c.inhibited
      BY <1>3, <1>6 DEF Still
    <2> QED BY <1>4, <1>6, <2>1
  <1> QED BY <1>5, <1>6

(* A rule that fired is still. *)
LEMMA FiredStill ==
    ASSUME NEW inv, NEW b, NEW r \in b.fired
    PROVE  Still(inv, b, r) /\ ~Changes(inv, b, r)
  BY DEF Still, Considered, Changes, Fires

-------------------------------------------------------------------------------
(* Where the organisations are on the way.                                   *)

Rising(s) == \A i, j \in DOMAIN s : i < j => s[i] < s[j]

(* The next rule that is looked at. *)
NextTurn(s) == IF s = <<>> THEN 1 ELSE Head(s)

LEMMA RisingTail ==
    ASSUME NEW s \in Seq(Nat), s # <<>>, Rising(s)
    PROVE  /\ Rising(Tail(s))
           /\ \A x \in ToSet(Tail(s)) : Head(s) < x
           /\ \A x \in ToSet(s) : Head(s) <= x
  <1> DEFINE n == Len(s)
             t == Tail(s)
  <1>1. /\ n \in Nat /\ n > 0 /\ DOMAIN s = 1 .. n /\ DOMAIN t = 1 .. n - 1
        /\ Head(s) = s[1] /\ \A i \in 1 .. n : s[i] \in Nat
        /\ \A i \in 1 .. n - 1 : t[i] = s[i + 1]
    OBVIOUS
  <1> HIDE DEF n, t
  <1>2. \A i, j \in 1 .. n : i < j => s[i] < s[j]
    BY <1>1 DEF Rising
  <1>3. Rising(t)
    <2>1. SUFFICES ASSUME NEW i \in 1 .. n - 1, NEW j \in 1 .. n - 1, i < j PROVE t[i] < t[j]
      BY <1>1 DEF Rising
    <2>2. i + 1 \in 1 .. n /\ j + 1 \in 1 .. n /\ i + 1 < j + 1
      BY <1>1, <2>1
    <2> QED BY <1>1, <1>2, <2>2
  <1>4. ASSUME NEW x \in ToSet(t) PROVE s[1] < x
    <2>1. PICK i \in 1 .. n - 1 : x = t[i]
      BY <1>1, <1>4 DEF ToSet
    <2>2. i + 1 \in 1 .. n /\ 1 \in 1 .. n /\ 1 < i + 1
      BY <1>1
    <2> QED BY <1>1, <1>2, <2>1, <2>2
  <1>5. ASSUME NEW x \in ToSet(s) PROVE s[1] <= x
    <2>1. PICK i \in 1 .. n : x = s[i]
      BY <1>1, <1>5 DEF ToSet
    <2>2. 1 \in 1 .. n /\ (1 < i \/ i = 1) /\ s[i] \in Nat /\ s[1] \in Nat
      BY <1>1
    <2>3. s[1] < s[i] \/ s[1] = s[i]
      BY <1>2, <2>2
    <2> QED BY <2>1, <2>2, <2>3
  <1> QED BY <1>1, <1>3, <1>4, <1>5 DEF t

LEMMA RisingAppend ==
    ASSUME NEW s \in Seq(Nat), NEW r \in Nat, Rising(s), \A x \in ToSet(s) : x < r
    PROVE  Rising(Append(s, r))
  <1> DEFINE n == Len(s)
             t == Append(s, r)
  <1>1. /\ n \in Nat /\ DOMAIN s = 1 .. n /\ DOMAIN t = 1 .. n + 1
        /\ t[n + 1] = r /\ \A i \in 1 .. n : t[i] = s[i]
    OBVIOUS
  <1> HIDE DEF n, t
  <1>2. SUFFICES ASSUME NEW i \in 1 .. n + 1, NEW j \in 1 .. n + 1, i < j PROVE t[i] < t[j]
    BY <1>1 DEF Rising, t
  <1>3. i \in 1 .. n /\ (j \in 1 .. n \/ j = n + 1)
    BY <1>1, <1>2
  <1>4. s[i] < r
    BY <1>1, <1>3 DEF ToSet
  <1> QED BY <1>1, <1>2, <1>3, <1>4 DEF Rising

LEMMA PlacesAreNumbers ==
    ASSUME NEW inv \in Seq(Rule)
    PROVE  /\ DOMAIN inv = 1 .. Len(inv) /\ Len(inv) \in Nat
           /\ Seq(DOMAIN inv) \subseteq Seq(Nat)
           /\ \A s \in Seq(DOMAIN inv) : ToSet(s) \subseteq DOMAIN inv
  <1>1. DOMAIN inv = 1 .. Len(inv) /\ Len(inv) \in Nat
    OBVIOUS
  <1>2. DOMAIN inv \subseteq Nat
    BY <1>1
  <1>3. \A s \in Seq(DOMAIN inv) : ToSet(s) \subseteq DOMAIN inv
    BY DEF ToSet
  <1>4. \A s \in Seq(DOMAIN inv) : s \in Seq(Nat)
    BY <1>2
  <1> QED BY <1>1, <1>3, <1>4

(* Over rules that are still, to the next that is looked at. *)
LEMMA NextPlace ==
    ASSUME NEW inv \in Seq(Rule), NEW b, NEW r \in DOMAIN inv, Comes(inv, b, r),
           NEW s \in Seq(DOMAIN inv), Rising(s), \A x \in ToSet(s) : r <= x,
           \A x \in DOMAIN inv : r <= x /\ (\A y \in ToSet(s) : x < y) => Still(inv, b, x)
    PROVE  Comes(inv, b, NextTurn(s))
  <1>0. DOMAIN inv = 1 .. Len(inv) /\ Len(inv) \in Nat /\ s \in Seq(Nat) /\ ToSet(s) \subseteq DOMAIN inv
    BY PlacesAreNumbers
  <1>1. CASE s = <<>>
    <2> DEFINE t == Len(inv) + 1
    <2>1. \A x \in DOMAIN inv : r <= x /\ x < t => Still(inv, b, x)
      BY <1>1, NoneOnce
    <2>2. r <= t /\ t \in Nat
      BY <1>0
    <2>3. Comes(inv, b, IF t = Len(inv) + 1 THEN 1 ELSE t)
      BY <1>0, <2>1, <2>2, WalksOn
    <2> QED BY <1>1, <2>3 DEF NextTurn
  <1>2. CASE s # <<>>
    <2> DEFINE t == Head(s)
    <2>1. t \in ToSet(s) /\ \A x \in ToSet(s) : t <= x
      <3>1. 1 \in DOMAIN s /\ t = s[1]
        BY <1>2
      <3>2. t \in ToSet(s)
        BY <3>1 DEF ToSet
      <3> QED BY <1>0, <1>2, <3>2, RisingTail
    <2>2. t \in Nat /\ r <= t /\ t <= Len(inv) + 1 /\ t # Len(inv) + 1
      BY <1>0, <2>1
    <2>3. ASSUME NEW x \in DOMAIN inv, r <= x, x < t PROVE Still(inv, b, x)
      <3>1. ASSUME NEW y \in ToSet(s) PROVE x < y
        <4>1. t <= y /\ y \in Nat /\ x \in Nat /\ t \in Nat
          BY <1>0, <2>1
        <4> QED BY <2>3, <4>1
      <3> QED BY <2>3, <3>1
    <2> HIDE DEF t
    <2>4. Comes(inv, b, IF t = Len(inv) + 1 THEN 1 ELSE t)
      BY <2>2, <2>3, WalksOn
    <2> QED BY <1>2, <2>2, <2>4 DEF NextTurn, t
  <1> QED BY <1>1, <1>2

(* One activation, and over rules that are still to the next. *)
LEMMA Advances ==
    ASSUME NEW inv \in Seq(Rule), NEW b \in Boards(inv), Founded(inv, b), NEW r \in DOMAIN inv,
           Comes(inv, b, r), NEW s \in Seq(DOMAIN inv), Rising(s), \A x \in ToSet(s) : r < x,
           \A x \in DOMAIN inv : r < x /\ (\A y \in ToSet(s) : x < y) =>
              Still(inv, Considered(inv, b, r), x)
    PROVE  Comes(inv, Considered(inv, b, r), NextTurn(s))
  <1> DEFINE c == Considered(inv, b, r)
  <1>0. /\ DOMAIN inv = 1 .. Len(inv) /\ Len(inv) \in Nat /\ ToSet(s) \subseteq DOMAIN inv
        /\ c \in Boards(inv)
    BY PlacesAreNumbers, ConsideredIs
  <1>1. Comes(inv, c, Following(inv, r))
    BY <1>0, StepsOn
  <1> HIDE DEF c
  <1>2. CASE r = Len(inv)
    <2>1. s = <<>>
      <3>1. \A x \in ToSet(s) : FALSE
        BY <1>0, <1>2
      <3>2. DOMAIN s = {}
        BY <3>1 DEF ToSet
      <3> QED BY <3>2
    <2> QED BY <1>1, <1>2, <2>1 DEF NextTurn, Following, c
  <1>3. CASE r # Len(inv)
    <2> DEFINE u == r + 1
    <2>1. Following(inv, r) = u /\ u \in DOMAIN inv
      BY <1>0, <1>3 DEF Following
    <2>2. \A x \in ToSet(s) : u <= x
      BY <1>0
    <2>3. \A x \in DOMAIN inv : u <= x => r < x
      BY <1>0
    <2>4. \A x \in DOMAIN inv : u <= x /\ (\A y \in ToSet(s) : x < y) => Still(inv, c, x)
      BY <2>3 DEF c
    <2>5. Comes(inv, c, u)
      BY <1>1, <2>1
    <2> HIDE DEF u
    <2> QED BY <2>1, <2>2, <2>4, <2>5, NextPlace DEF c
  <1> QED BY <1>2, <1>3

LEMMA AllRises ==
    ASSUME rules \in Seq(Rule)
    PROVE  Rising(All)
  BY DEF All, Rising

Engine == "single_engine"
Board == "blackboard"

(* The inventory is gone through in its order; what is left for the next     *)
(* pass comes before what is still scheduled in this one.                    *)
Ordered ==
    /\ \A o \in Organisations : Rising(scheduled[o])
    /\ Rising(pending)
    /\ \A x \in ToSet(pending), y \in ToSet(scheduled[Board]) : x < y
    /\ \A y \in ToSet(scheduled[Engine]), x \in DOMAIN rules :
          y <= x => x \in ToSet(scheduled[Engine])

OnTheWay ==
    \A o \in Organisations : board[o].unresolved = {} =>
        Comes(rules, board[o], NextTurn(scheduled[o]))

EngineRests ==
    Paired(rules) /\ ~changed =>
        \A r \in DOMAIN rules :
            \/ r \in ToSet(scheduled[Engine])
            \/ ~Changes(rules, board[Engine], r) /\ Still(rules, board[Engine], r)

BoardRests ==
    Paired(rules) /\ revision = passes[Board] - 1 =>
        \A r \in ToSet(pending) : ~Changes(rules, board[Board], r) /\ Still(rules, board[Board], r)

AtRest(o) ==
    Paired(rules) /\ Recorded(o) =>
        \A r \in DOMAIN rules : r \in board[o].fired \cup board[o].unresolved
                                \/ Still(rules, board[o], r)

WayIInv ==
    /\ ExpertsIInv /\ Ordered /\ OnTheWay /\ EngineRests /\ BoardRests
    /\ \A o \in Organisations : AtRest(o)

LEMMA EngineGoesOn ==
    ASSUME WayIInv, ActivateRule, ExpertsIInv'
    PROVE  WayIInv'
  <1> DEFINE r == Head(scheduled[Engine])
             b == board[Engine]
             c == Considered(rules, b, r)
             s == scheduled'[Engine]
  <1>0. /\ ExpertsIInv /\ Ordered /\ OnTheWay /\ EngineRests /\ BoardRests
        /\ \A o \in Organisations : AtRest(o)
        /\ rules \in Seq(Rule) /\ b \in Boards(rules) /\ Founded(rules, b)
        /\ Engine \in Organisations /\ Board \in Organisations /\ Board # Engine
        /\ scheduled[Engine] \in Seq(DOMAIN rules)
    BY RulesAre DEF WayIInv, ExpertsIInv, Organisations, Engine, Board, Types, Sound
  <1>1. /\ r \in DOMAIN rules /\ UNCHANGED <<rules, budget, passes, outcome>>
        /\ board'[Engine] = c /\ board'[Board] = board[Board]
        /\ s = Tail(scheduled[Engine]) /\ scheduled'[Board] = scheduled[Board]
        /\ s \in Seq(DOMAIN rules)
        /\ ToSet(scheduled[Engine]) = {r} \cup ToSet(s)
    BY <1>0, Activated DEF ActivateRule, Engine, Board
  <1>2. /\ scheduled[Engine] # <<>> /\ outcome[Engine] = "running"
        /\ changed' = (changed \/ Changes(rules, b, r)) /\ UNCHANGED <<pending, revision>>
    BY DEF ActivateRule, Activate, Running, Engine
  <1>3. DOMAIN rules \subseteq Nat /\ scheduled[Engine] \in Seq(Nat)
        /\ ToSet(scheduled[Engine]) \subseteq DOMAIN rules
    BY <1>0, PlacesAreNumbers
  <1>4. Rising(s) /\ \A x \in ToSet(s) : r < x
    BY <1>0, <1>1, <1>2, <1>3, RisingTail DEF Ordered
  <1>5. \A x \in DOMAIN rules : r < x => x \in ToSet(s)
    <2>1. SUFFICES ASSUME NEW x \in DOMAIN rules, r < x PROVE x \in ToSet(s)
      OBVIOUS
    <2>2. r <= x /\ x # r
      BY <1>1, <1>3, <2>1
    <2>3. x \in ToSet(scheduled[Engine])
      BY <1>0, <1>1, <2>2 DEF Ordered
    <2> QED BY <1>1, <2>2, <2>3
  <1>6. Ordered'
    <2>1. ASSUME NEW y \in ToSet(s), NEW x \in DOMAIN rules, y <= x PROVE x \in ToSet(s)
      <3>1. r < x
        BY <1>1, <1>3, <1>4, <2>1
      <3> QED BY <1>5, <3>1
    <2>2. \A o \in Organisations : o = Engine \/ o = Board
      BY DEF Organisations, Engine, Board
    <2> HIDE DEF s
    <2>3. \A o \in Organisations : Rising(scheduled'[o])
      BY <1>0, <1>1, <1>4, <2>2 DEF Ordered, s
    <2> QED BY <1>0, <1>1, <1>2, <2>1, <2>3 DEF Ordered, s
  <1>7. OnTheWay'
    <2>1. ASSUME c.unresolved = {} PROVE Comes(rules, c, NextTurn(s))
      <3>1. b.unresolved = {}
        BY <1>0, <1>1, <2>1, FiredKept
      <3>2. Comes(rules, b, r)
        BY <1>0, <1>2, <3>1 DEF OnTheWay, NextTurn
      <3>3. \A x \in DOMAIN rules : ~(r < x /\ (\A y \in ToSet(s) : x < y))
        BY <1>3, <1>5
      <3> HIDE DEF b, r, s
      <3> QED BY <1>0, <1>1, <1>4, <3>2, <3>3, Advances
    <2>2. \A o \in Organisations : o = Engine \/ o = Board
      BY DEF Organisations, Engine, Board
    <2>3. board[Board].unresolved = {} => Comes(rules, board[Board], NextTurn(scheduled[Board]))
      BY <1>0 DEF OnTheWay
    <2> HIDE DEF c, s
    <2> QED BY <1>1, <2>1, <2>2, <2>3 DEF OnTheWay, s
  <1>8. EngineRests'
    <2>1. SUFFICES ASSUME Paired(rules), ~changed', NEW x \in DOMAIN rules, x \notin ToSet(s)
                   PROVE  ~Changes(rules, c, x) /\ Still(rules, c, x)
      BY <1>1 DEF EngineRests
    <2>2. ~changed /\ ~Changes(rules, b, r)
      BY <1>2, <2>1
    <2>3. x = r \/ (~Changes(rules, b, x) /\ Still(rules, b, x))
      <3>1. x \in ToSet(scheduled[Engine]) => x = r
        BY <1>1, <2>1
      <3>2. x \in ToSet(scheduled[Engine]) \/ (~Changes(rules, b, x) /\ Still(rules, b, x))
        <4>1. \A y \in DOMAIN rules :
                 \/ y \in ToSet(scheduled[Engine])
                 \/ ~Changes(rules, board[Engine], y) /\ Still(rules, board[Engine], y)
          BY <1>0, <2>1, <2>2 DEF EngineRests
        <4> HIDE DEF r
        <4> QED BY <2>1, <4>1
      <3> QED BY <3>1, <3>2
    <2> QED BY <1>0, <1>1, <2>1, <2>2, <2>3, StillAfter
  <1>9. BoardRests'
    BY <1>0, <1>1, <1>2 DEF BoardRests
  <1>10. \A o \in Organisations : AtRest(o)'
    <2>1. \A o \in Organisations : o = Engine \/ o = Board
      BY DEF Organisations, Engine, Board
    <2>2. AtRest(Engine)'
      BY <1>1, <1>2 DEF AtRest, Recorded
    <2>3. AtRest(Board)'
      BY <1>0, <1>1 DEF AtRest, Recorded
    <2> QED BY <2>1, <2>2, <2>3
  <1> QED BY <1>6, <1>7, <1>8, <1>9, <1>10 DEF WayIInv

LEMMA BoardGoesOn ==
    ASSUME WayIInv, ActivateExpert, ExpertsIInv'
    PROVE  WayIInv'
  <1> DEFINE r == Head(scheduled[Board])
             b == board[Board]
             c == Considered(rules, b, r)
             s == scheduled'[Board]
  <1>0. /\ ExpertsIInv /\ Ordered /\ OnTheWay /\ EngineRests /\ BoardRests
        /\ \A o \in Organisations : AtRest(o)
        /\ rules \in Seq(Rule) /\ b \in Boards(rules) /\ Founded(rules, b)
        /\ Engine \in Organisations /\ Board \in Organisations /\ Board # Engine
        /\ scheduled[Board] \in Seq(DOMAIN rules) /\ pending \in Seq(DOMAIN rules)
        /\ revision \in Nat /\ passes[Board] \in Nat /\ revision >= passes[Board] - 1
    BY RulesAre DEF WayIInv, ExpertsIInv, Organisations, Engine, Board, Types, Sound, BoardPass
  <1>1. /\ r \in DOMAIN rules /\ UNCHANGED <<rules, budget, passes, outcome>>
        /\ board'[Board] = c /\ board'[Engine] = board[Engine]
        /\ s = Tail(scheduled[Board]) /\ scheduled'[Engine] = scheduled[Engine]
        /\ s \in Seq(DOMAIN rules)
        /\ ToSet(scheduled[Board]) = {r} \cup ToSet(s)
        /\ r \notin ToSet(s)
    BY <1>0, Activated DEF ActivateExpert, Engine, Board
  <1>2. /\ scheduled[Board] # <<>> /\ outcome[Board] = "running" /\ changed' = changed
        /\ IF Changes(rules, b, r)
           THEN revision' = revision + 1 /\ pending' = pending
           ELSE /\ pending' = IF r \in b.fired THEN pending ELSE Append(pending, r)
                /\ revision' = revision
    BY DEF ActivateExpert, Activate, Running, Board
  <1>3. /\ DOMAIN rules \subseteq Nat /\ scheduled[Board] \in Seq(Nat) /\ pending \in Seq(Nat)
        /\ ToSet(scheduled[Board]) \subseteq DOMAIN rules
        /\ ToSet(pending) \subseteq DOMAIN rules
    BY <1>0, PlacesAreNumbers
  <1>4. Rising(s) /\ \A x \in ToSet(s) : r < x
    BY <1>0, <1>1, <1>2, <1>3, RisingTail DEF Ordered
  <1>5. Rising(pending) /\ \A x \in ToSet(pending) : x < r
    BY <1>0, <1>1 DEF Ordered
  <1>6. Rising(pending') /\ ToSet(pending') \subseteq ToSet(pending) \cup {r}
    <2>1. Once(pending) /\ r \notin ToSet(pending)
      <3>1. Agenda
        BY <1>0 DEF ExpertsIInv
      <3> QED BY <1>1, <3>1 DEF Agenda, Board
    <2>2. ToSet(Append(pending, r)) = ToSet(pending) \cup {r}
      BY <1>0, <1>1, <2>1, AppendOnce
    <2>3. Rising(Append(pending, r))
      BY <1>1, <1>3, <1>5, RisingAppend
    <2> QED BY <1>2, <1>5, <2>2, <2>3
  <1>7. Ordered'
    <2>1. ASSUME NEW x \in ToSet(pending'), NEW y \in ToSet(s) PROVE x < y
      <3>1. x \in DOMAIN rules /\ y \in DOMAIN rules
        BY <1>1, <1>3, <1>6
      <3>2. x <= r
        <4>1. x = r \/ x < r
          BY <1>5, <1>6
        <4> HIDE DEF r
        <4> QED BY <1>1, <1>3, <3>1, <4>1
      <3>3. r < y
        BY <1>4
      <3> HIDE DEF r
      <3> QED BY <1>1, <1>3, <3>1, <3>2, <3>3
    <2>2. \A o \in Organisations : o = Engine \/ o = Board
      BY DEF Organisations, Engine, Board
    <2> HIDE DEF s
    <2>3. \A o \in Organisations : Rising(scheduled'[o])
      BY <1>0, <1>1, <1>4, <2>2 DEF Ordered, s
    <2> QED BY <1>0, <1>1, <1>6, <2>1, <2>3 DEF Ordered, s
  <1>8. OnTheWay'
    <2>1. ASSUME c.unresolved = {} PROVE Comes(rules, c, NextTurn(s))
      <3>1. b.unresolved = {}
        BY <1>0, <1>1, <2>1, FiredKept
      <3>2. Comes(rules, b, r)
        BY <1>0, <1>2, <3>1 DEF OnTheWay, NextTurn
      <3>3. ASSUME NEW x \in DOMAIN rules, r < x, \A y \in ToSet(s) : x < y
            PROVE  Still(rules, c, x)
        <4>1. x \notin ToSet(s)
          BY <1>3, <3>3
        <4>2. x \notin ToSet(pending')
          <5>1. \A y \in ToSet(pending') : y <= r
            BY <1>1, <1>3, <1>5, <1>6
          <5> HIDE DEF r
          <5> QED BY <1>1, <1>3, <3>3, <5>1
        <4>3. x \in c.fired
          <5>1. Agenda'
            BY DEF ExpertsIInv
          <5>2. DOMAIN rules \subseteq (ToSet(s) \cup ToSet(pending')) \cup c.fired \cup c.unresolved
            BY <1>1, <5>1 DEF Agenda, Board
          <5> HIDE DEF c, s
          <5> QED BY <2>1, <4>1, <4>2, <5>2
        <4> QED BY <4>3, FiredStill
      <3> HIDE DEF b, r, s
      <3> QED BY <1>0, <1>1, <1>4, <3>2, <3>3, Advances
    <2>2. \A o \in Organisations : o = Engine \/ o = Board
      BY DEF Organisations, Engine, Board
    <2>3. board[Engine].unresolved = {} => Comes(rules, board[Engine], NextTurn(scheduled[Engine]))
      BY <1>0 DEF OnTheWay
    <2> HIDE DEF c, s
    <2> QED BY <1>1, <2>1, <2>2, <2>3 DEF OnTheWay, s
  <1>9. BoardRests'
    <2>1. SUFFICES ASSUME Paired(rules), revision' = passes[Board] - 1, NEW x \in ToSet(pending')
                   PROVE  ~Changes(rules, c, x) /\ Still(rules, c, x)
      BY <1>1 DEF BoardRests
    <2>2. ~Changes(rules, b, r)
      BY <1>0, <1>2, <2>1
    <2>3. revision = passes[Board] - 1
      BY <1>2, <2>1, <2>2
    <2>4. x \in DOMAIN rules /\ (x = r \/ (~Changes(rules, b, x) /\ Still(rules, b, x)))
      <3>1. x \in ToSet(pending) \/ x = r
        BY <1>6, <2>1
      <3>2. \A y \in ToSet(pending) : ~Changes(rules, b, y) /\ Still(rules, b, y)
        BY <1>0, <2>1, <2>3 DEF BoardRests
      <3> HIDE DEF b, r
      <3>3. x \in DOMAIN rules
        BY <1>1, <1>3, <3>1
      <3> QED BY <3>1, <3>2, <3>3
    <2> QED BY <1>0, <1>1, <2>1, <2>2, <2>4, StillAfter
  <1>10. EngineRests'
    BY <1>0, <1>1, <1>2 DEF EngineRests
  <1>11. \A o \in Organisations : AtRest(o)'
    <2>1. \A o \in Organisations : o = Engine \/ o = Board
      BY DEF Organisations, Engine, Board
    <2>2. AtRest(Board)'
      BY <1>1, <1>2 DEF AtRest, Recorded
    <2>3. AtRest(Engine)'
      BY <1>0, <1>1 DEF AtRest, Recorded
    <2> QED BY <2>1, <2>2, <2>3
  <1> QED BY <1>7, <1>8, <1>9, <1>10, <1>11 DEF WayIInv

LEMMA EnginePassGoesOn ==
    ASSUME WayIInv, EndEnginePass, ExpertsIInv'
    PROVE  WayIInv'
  <1>0. /\ ExpertsIInv /\ Types /\ Ordered /\ OnTheWay /\ EngineRests /\ BoardRests
        /\ \A o \in Organisations : AtRest(o)
        /\ rules \in Seq(Rule) /\ rules # <<>>
        /\ Engine \in Organisations /\ Board \in Organisations /\ Board # Engine
        /\ \A o \in Organisations : o = Engine \/ o = Board
    BY RulesAre, ExpertsAssumption DEF WayIInv, ExpertsIInv, Organisations, Engine, Board, Types
  <1>1. /\ UNCHANGED <<rules, board, pending, revision>> /\ scheduled[Engine] = <<>>
    BY DEF EndEnginePass, NextPass, Record, config, Engine
  <1>2. CASE changed /\ changed' = FALSE /\ NextPass(Engine, All)
    <2>1. /\ passes' = [passes EXCEPT ![Engine] = passes[Engine] + 1] /\ outcome' = outcome
          /\ scheduled' = [scheduled EXCEPT ![Engine] = All] /\ changed' = FALSE
      BY <1>2 DEF NextPass
    <2>2. ToSet(All) = DOMAIN rules /\ Rising(All) /\ NextTurn(All) = 1
      <3>1. All # <<>> /\ Head(All) = 1
        BY <1>0 DEF All
      <3> QED BY <1>0, <3>1, AllOnce, AllRises DEF NextTurn
    <2>3. /\ scheduled'[Engine] = All /\ scheduled'[Board] = scheduled[Board]
          /\ passes'[Board] = passes[Board]
      BY <1>0, <2>1 DEF Types
    <2>4. Ordered'
      <3>1. \A o \in Organisations : Rising(scheduled'[o])
        BY <1>0, <2>2, <2>3 DEF Ordered
      <3> QED BY <1>0, <1>1, <2>2, <2>3, <3>1 DEF Ordered
    <2>5. OnTheWay'
      <3>1. NextTurn(scheduled[Engine]) = 1
        BY <1>1 DEF NextTurn
      <3>2. \A o \in Organisations : NextTurn(scheduled'[o]) = NextTurn(scheduled[o])
        BY <1>0, <2>2, <2>3, <3>1
      <3> QED BY <1>0, <1>1, <3>2 DEF OnTheWay
    <2>6. EngineRests'
      BY <1>1, <2>2, <2>3 DEF EngineRests
    <2>7. BoardRests'
      BY <1>0, <1>1, <2>3 DEF BoardRests
    <2>8. \A o \in Organisations : AtRest(o)'
      BY <1>0, <1>1, <2>1 DEF AtRest, Recorded
    <2> QED BY <2>4, <2>5, <2>6, <2>7, <2>8 DEF WayIInv
  <1>3. CASE ~changed /\ Record(Engine)
    <2>1. /\ UNCHANGED <<passes, scheduled, changed>>
          /\ outcome' = [outcome EXCEPT ![Engine] = "recorded"]
      BY <1>3 DEF Record
    <2>2. Ordered' /\ OnTheWay' /\ EngineRests' /\ BoardRests'
      BY <1>0, <1>1, <2>1 DEF Ordered, OnTheWay, EngineRests, BoardRests
    <2>3. AtRest(Engine)'
      <3>1. Paired(rules) => \A r \in DOMAIN rules : Still(rules, board[Engine], r)
        BY <1>0, <1>1, <1>3, NoneOnce DEF EngineRests
      <3> QED BY <1>1, <3>1 DEF AtRest
    <2>4. AtRest(Board)'
      <3>1. outcome'[Board] = outcome[Board]
        BY <1>0, <2>1 DEF Types
      <3> QED BY <1>0, <1>1, <3>1 DEF AtRest, Recorded
    <2> QED BY <1>0, <2>2, <2>3, <2>4 DEF WayIInv
  <1> QED BY <1>2, <1>3 DEF EndEnginePass, Engine

LEMMA BoardPassGoesOn ==
    ASSUME WayIInv, EndBoardPass, ExpertsIInv'
    PROVE  WayIInv'
  <1> DEFINE b == board[Board]
  <1>0. /\ ExpertsIInv /\ Types /\ Agenda /\ Ordered /\ OnTheWay /\ EngineRests /\ BoardRests
        /\ \A o \in Organisations : AtRest(o)
        /\ rules \in Seq(Rule) /\ rules # <<>>
        /\ Engine \in Organisations /\ Board \in Organisations /\ Board # Engine
        /\ \A o \in Organisations : o = Engine \/ o = Board
        /\ revision \in Nat /\ passes[Board] \in Nat \ {0} /\ revision >= passes[Board] - 1
    BY RulesAre, ExpertsAssumption
       DEF WayIInv, ExpertsIInv, Organisations, Engine, Board, Types, BoardPass
  <1>1. /\ UNCHANGED <<rules, board, changed, revision>> /\ scheduled[Board] = <<>>
    BY DEF EndBoardPass, NextPass, Record, config, Board
  <1>2. DOMAIN rules \subseteq ToSet(pending) \cup b.fired \cup b.unresolved
    BY <1>0, <1>1, NoneOnce DEF Agenda, Board
  <1>3. /\ DOMAIN rules = 1 .. Len(rules) /\ Len(rules) \in Nat /\ Len(rules) # 0
        /\ pending \in Seq(DOMAIN rules) /\ ToSet(pending) \subseteq DOMAIN rules
    <2>1. DOMAIN rules = 1 .. Len(rules) /\ Len(rules) \in Nat /\ Len(rules) # 0
      BY <1>0
    <2> QED BY <1>0, <2>1, PlacesAreNumbers DEF Types
  <1>4. CASE ~Quiet /\ pending' = <<>> /\ NextPass(Board, pending)
    <2>1. /\ passes' = [passes EXCEPT ![Board] = passes[Board] + 1] /\ outcome' = outcome
          /\ scheduled' = [scheduled EXCEPT ![Board] = pending] /\ pending' = <<>>
      BY <1>4 DEF NextPass
    <2>2. /\ scheduled'[Board] = pending /\ scheduled'[Engine] = scheduled[Engine]
          /\ passes'[Board] = passes[Board] + 1 /\ ToSet(pending') = {}
      BY <1>0, <2>1, NoneOnce DEF Types
    <2>3. Ordered'
      <3>1. \A o \in Organisations : Rising(scheduled'[o])
        BY <1>0, <2>2 DEF Ordered
      <3>2. Rising(pending')
        BY <2>1 DEF Rising
      <3> QED BY <1>0, <1>1, <2>2, <3>1, <3>2 DEF Ordered
    <2>4. OnTheWay'
      <3>1. ASSUME b.unresolved = {} PROVE Comes(rules, b, NextTurn(pending))
        <4>1. Comes(rules, b, 1)
          BY <1>0, <1>1, <3>1 DEF OnTheWay, NextTurn
        <4>2. ASSUME NEW x \in DOMAIN rules, \A y \in ToSet(pending) : x < y
              PROVE  Still(rules, b, x)
          <5>1. x \notin ToSet(pending)
            BY <1>3, <4>2
          <5> HIDE DEF b
          <5> QED BY <1>2, <3>1, <5>1, FiredStill
        <4>3. 1 \in DOMAIN rules /\ \A x \in ToSet(pending) : 1 <= x
          BY <1>3
        <4>4. Rising(pending)
          BY <1>0 DEF Ordered
        <4> HIDE DEF b
        <4> QED BY <1>0, <1>3, <4>1, <4>2, <4>3, <4>4, NextPlace
      <3> HIDE DEF b
      <3> QED BY <1>0, <1>1, <2>2, <3>1 DEF OnTheWay, b
    <2>5. EngineRests'
      BY <1>0, <1>1, <2>2 DEF EngineRests
    <2>6. BoardRests'
      BY <2>2 DEF BoardRests
    <2>7. \A o \in Organisations : AtRest(o)'
      BY <1>0, <1>1, <2>1 DEF AtRest, Recorded
    <2> QED BY <2>3, <2>4, <2>5, <2>6, <2>7 DEF WayIInv
  <1>5. CASE Quiet /\ Record(Board)
    <2>1. /\ UNCHANGED <<passes, scheduled, pending>>
          /\ outcome' = [outcome EXCEPT ![Board] = "recorded"]
      BY <1>5 DEF Record
    <2>2. Ordered' /\ OnTheWay' /\ EngineRests' /\ BoardRests'
      BY <1>0, <1>1, <2>1 DEF Ordered, OnTheWay, EngineRests, BoardRests
    <2>3. AtRest(Board)'
      <3>1. pending = <<>> \/ revision = passes[Board] - 1
        BY <1>0, <1>5 DEF Quiet, Board
      <3>2. Paired(rules) => \A r \in ToSet(pending) : Still(rules, b, r)
        BY <1>0, <3>1, NoneOnce DEF BoardRests
      <3> HIDE DEF b
      <3>3. Paired(rules) => \A r \in DOMAIN rules : r \in b.fired \cup b.unresolved \/ Still(rules, b, r)
        BY <1>2, <3>2
      <3> QED BY <1>1, <3>3 DEF AtRest, b
    <2>4. AtRest(Engine)'
      <3>1. outcome'[Engine] = outcome[Engine]
        BY <1>0, <2>1 DEF Types
      <3> QED BY <1>0, <1>1, <3>1 DEF AtRest, Recorded
    <2> QED BY <1>0, <2>2, <2>3, <2>4 DEF WayIInv
  <1> QED BY <1>4, <1>5 DEF EndBoardPass, Board

LEMMA WayKeeps == WayIInv /\ [Next]_vars => WayIInv'
  <1> SUFFICES ASSUME WayIInv, [Next]_vars PROVE WayIInv'
    OBVIOUS
  <1>1. ExpertsIInv'
    BY Keeps DEF WayIInv
  <1>2. ASSUME UNCHANGED <<rules, budget, board, activations, passes, scheduled, changed, pending, revision>>,
               \A o \in Organisations : outcome'[o] = "recorded" => outcome[o] = "recorded"
        PROVE  WayIInv'
    <2>1. Ordered' /\ OnTheWay' /\ EngineRests' /\ BoardRests'
      BY <1>2 DEF WayIInv, Ordered, OnTheWay, EngineRests, BoardRests
    <2>2. \A o \in Organisations : AtRest(o)'
      BY <1>2 DEF WayIInv, AtRest, Recorded
    <2> QED BY <1>1, <2>1, <2>2 DEF WayIInv
  <1>3. CASE \E o \in Organisations : Exhaust(o)
    <2>1. PICK o \in Organisations : Exhaust(o)
      BY <1>3
    <2>2. outcome \in [Organisations -> {"running", "recorded", "exhausted"}]
      BY DEF WayIInv, ExpertsIInv, Types
    <2>3. outcome' = [outcome EXCEPT ![o] = "exhausted"]
      BY <2>1 DEF Exhaust
    <2>4. \A p \in Organisations : outcome'[p] = "recorded" => outcome[p] = "recorded"
      BY <2>2, <2>3
    <2> QED BY <1>2, <2>1, <2>4 DEF Exhaust, config
  <1>4. CASE UNCHANGED vars
    BY <1>2, <1>4 DEF vars
  <1> QED BY <1>1, <1>3, <1>4, EngineGoesOn, BoardGoesOn, EnginePassGoesOn, BoardPassGoesOn DEF Next

LEMMA WayBeginsSo == Init => WayIInv
  <1> SUFFICES ASSUME Init PROVE WayIInv
    OBVIOUS
  <1>0. ExpertsIInv
    BY Begins
  <1>1. /\ rules \in Seq(Rule) /\ rules # <<>> /\ Engine \in Organisations /\ Board \in Organisations
    BY ExpertsAssumption DEF Init, Engine, Board, Organisations
  <1>2. ToSet(All) = DOMAIN rules /\ Rising(All) /\ NextTurn(All) = 1
    <2>1. All # <<>> /\ Head(All) = 1
      BY <1>1 DEF All
    <2> QED BY <1>1, <2>1, AllOnce, AllRises DEF NextTurn
  <1>3. \A o \in Organisations : scheduled[o] = All /\ board[o] = EmptyBoard /\ outcome[o] = "running"
    BY DEF Init
  <1>4. Rising(<<>>) /\ pending = <<>> /\ ToSet(pending) = {}
    BY NoneOnce DEF Rising, Init
  <1>5. Ordered
    BY <1>1, <1>2, <1>3, <1>4 DEF Ordered
  <1>6. OnTheWay
    BY <1>1, <1>2, <1>3, WayBegins DEF OnTheWay
  <1>7. EngineRests /\ BoardRests
    BY <1>1, <1>2, <1>3, <1>4 DEF EngineRests, BoardRests
  <1>8. \A o \in Organisations : AtRest(o)
    BY <1>3 DEF AtRest, Recorded
  <1> QED BY <1>0, <1>5, <1>6, <1>7, <1>8 DEF WayIInv

(* With identical snapshots, rules and conflict policy, single and           *)
(* multi-expert diagnoses agree where no conflict was left unresolved, in    *)
(* all they record, what was inhibited and for what included; and what       *)
(* evidence without contradiction leads to is the least fixed point: for     *)
(* every inventory in which no rule has two rivals.                          *)
THEOREM OrganisationsAgree ==
    ASSUME \A inventory \in Inventories : Paired(inventory)
    PROVE  Spec => []Agree
  <1>1. WayIInv => ((\A o \in Organisations : Recorded(o) /\ board[o].unresolved = {}) =>
                      board["single_engine"] = board["blackboard"])
    <2> SUFFICES ASSUME WayIInv, \A o \in Organisations : Recorded(o) /\ board[o].unresolved = {}
                 PROVE  board[Engine] = board[Board]
      BY DEF Engine, Board
    <2>1. /\ rules \in Seq(Rule) /\ Paired(rules)
          /\ Engine \in Organisations /\ Board \in Organisations
      BY RulesAre DEF WayIInv, ExpertsIInv, Types, Engine, Board, Organisations
    <2>2. \A o \in Organisations : Comes(rules, board[o], NextTurn(scheduled[o]))
      BY DEF WayIInv, OnTheWay
    <2>3. ASSUME NEW o \in Organisations, NEW x \in DOMAIN rules PROVE Still(rules, board[o], x)
      <3>1. x \in board[o].fired \/ Still(rules, board[o], x)
        BY <2>1 DEF WayIInv, AtRest
      <3> QED BY <3>1, FiredStill
    <2> QED BY <2>1, <2>2, <2>3, OneEnd
  <1>2. Spec => []WayIInv
    BY WayBeginsSo, WayKeeps, PTL DEF Spec
  <1>3. Spec => []LeastFixedPoint
    BY LeastDiagnosis
  <1>4. WayIInv /\ LeastFixedPoint => Agree
    BY <1>1 DEF Agree
  <1> QED BY <1>2, <1>3, <1>4, PTL
===============================================================================
