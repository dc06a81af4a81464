----------------------------- MODULE PlanningProofs -----------------------------
(***************************************************************************)
(* Why the searches of ecora/planning.py return cheapest plans, for every  *)
(* catalog, start, goals and budget, and why the proposals made of them    *)
(* claim only what holds: the space of configurations and its costs, one   *)
(* invariant for the frontier of uniform_cost, astar and enumerate_space,  *)
(* the validator along a plan, and the steps of the searches and of their  *)
(* provider.                                                               *)
(*                                                                         *)
(* A configuration below is a state with what some plan that leads to it   *)
(* costs.                                                                  *)
(***************************************************************************)
EXTENDS PlannerProvider, FiniteSetTheorems, SequenceTheorems, WellFoundedInduction, TLAPS

(* Induction over an interval of the natural numbers: Q holds those of which *)
(* the claim is true.                                                        *)
LEMMA UpTo ==
    ASSUME NEW Q, 0 \in Q, \A n \in Nat : n \in Q => n + 1 \in Q
    PROVE  Nat \subseteq Q
  <1> SUFFICES ASSUME NEW m \in Nat, m \notin Q PROVE FALSE
    OBVIOUS
  <1> DEFINE Bad == Nat \ Q
  <1>1. PICK n \in Bad : \A k \in Bad : ~ (<<k, n>> \in OpToRel(<, Nat))
    <2>1. Bad \subseteq Nat /\ Bad # {}
      OBVIOUS
    <2> HIDE DEF Bad
    <2> QED BY <2>1, NatLessThanWellFounded, WFMin
  <1>2. n \in Nat /\ n # 0
    BY <1>1
  <1> HIDE DEF Bad
  <1>6. n - 1 \in Nat /\ (n - 1) + 1 = n /\ n - 1 < n
    BY <1>2
  <1>3. <<n - 1, n>> \in OpToRel(<, Nat)
    BY <1>2, <1>6 DEF OpToRel
  <1>4. n - 1 \in Q
    BY <1>1, <1>3, <1>6 DEF Bad
  <1>5. n \in Q
    BY <1>4, <1>6
  <1> QED BY <1>1, <1>5 DEF Bad

(* A graph that is searched: operators with natural costs.                   *)
Graph(p) ==
    /\ p.operators \in Seq(ToSet(p.operators))
    /\ \A k \in DOMAIN p.operators : p.operators[k].cost \in Nat

Origin(p) == [state |-> p.known, cost |-> 0]
Moves(p, s) == successors(s, p.unknown, p.operators)

(* How far n operators lead.                                                 *)
LEMMA ReachedStep ==
    ASSUME NEW p
    PROVE  /\ Reached(p, 0) = {Origin(p)}
           /\ \A n \in Nat : Reached(p, n + 1) = Extended(p, Reached(p, n))
  <1> DEFINE body(f, m) == IF m = 0 THEN {Origin(p)} ELSE Extended(p, f[m - 1])
             is(f, n) == f = [m \in 0 .. n |-> body(f, m)]
             the(n) == CHOOSE f : is(f, n)
  <1>1. \A n : Reached(p, n) = the(n)[n]
    BY DEF Reached, Origin
  <1>2. \A n \in Nat : is(the(n), n)
    <2> DEFINE Q == {n \in Nat : \E f : is(f, n)}
    <2>1. 0 \in Q
      <3> DEFINE f == [m \in 0 .. 0 |-> {Origin(p)}]
      <3>1. is(f, 0)
        OBVIOUS
      <3> HIDE DEF f, is
      <3> QED BY <3>1
    <2>2. ASSUME NEW n \in Nat, n \in Q PROVE n + 1 \in Q
      <3>1. PICK f : is(f, n)
        BY <2>2
      <3> DEFINE g == [m \in 0 .. n + 1 |-> IF m = n + 1 THEN Extended(p, f[n]) ELSE f[m]]
      <3>2. ASSUME NEW m \in 0 .. n + 1 PROVE g[m] = body(g, m)
        <4>1. CASE m = n + 1
          <5>1. g[m - 1] = f[n] /\ m # 0 /\ m - 1 = n
            BY <4>1
          <5> QED BY <4>1, <5>1
        <4>2. CASE m # n + 1
          <5>1. m \in 0 .. n /\ g[m] = f[m]
            BY <4>2
          <5>2. f[m] = body(f, m)
            BY <3>1, <5>1
          <5>3. CASE m = 0
            BY <5>1, <5>2, <5>3
          <5>4. CASE m # 0
            <6>1. g[m - 1] = f[m - 1]
              BY <5>1, <5>4
            <6> HIDE DEF g
            <6> QED BY <5>1, <5>2, <5>4, <6>1
          <5> QED BY <5>3, <5>4
        <4> QED BY <4>1, <4>2
      <3>3. is(g, n + 1)
        <4>1. g = [m \in 0 .. n + 1 |-> g[m]]
          OBVIOUS
        <4> HIDE DEF g
        <4> QED BY <3>2, <4>1
      <3> HIDE DEF g, is
      <3> QED BY <3>3
    <2>3. Nat \subseteq Q
      <3> HIDE DEF Q
      <3> QED BY <2>1, <2>2, UpTo
    <2> HIDE DEF is
    <2> QED BY <2>3
  <1>3. \A n \in Nat : \A m \in 0 .. n : the(n)[m] = body(the(n), m)
    <2> HIDE DEF the, body
    <2> QED BY <1>2
  <1>4. ASSUME NEW n \in Nat PROVE the(n + 1)[n] = the(n)[n]
    <2> DEFINE Q == {m \in Nat : m <= n => the(n + 1)[m] = the(n)[m]}
    <2>1. 0 \in Q
      <3> HIDE DEF the
      <3> QED BY <1>3
    <2>2. ASSUME NEW m \in Nat, m \in Q PROVE m + 1 \in Q
      <3> SUFFICES ASSUME m + 1 <= n PROVE the(n + 1)[m + 1] = the(n)[m + 1]
        OBVIOUS
      <3>1. the(n + 1)[m] = the(n)[m]
        <4> HIDE DEF the
        <4> QED BY <2>2
      <3>2. the(n + 1)[m + 1] = body(the(n + 1), m + 1) /\ the(n)[m + 1] = body(the(n), m + 1)
        <4>1. m + 1 \in 0 .. n + 1 /\ m + 1 \in 0 .. n /\ n + 1 \in Nat
          OBVIOUS
        <4> HIDE DEF the, body
        <4> QED BY <1>3, <4>1
      <3>3. (m + 1) - 1 = m /\ m + 1 # 0
        OBVIOUS
      <3> HIDE DEF the
      <3> QED BY <3>1, <3>2, <3>3
    <2>3. Nat \subseteq Q
      <3> HIDE DEF Q
      <3> QED BY <2>1, <2>2, UpTo
    <2>4. n \in Q /\ n <= n
      <3> HIDE DEF Q
      <3> QED BY <2>3
    <2> HIDE DEF the
    <2> QED BY <2>4
  <1>5. Reached(p, 0) = {Origin(p)}
    <2> HIDE DEF the
    <2> QED BY <1>1, <1>3
  <1>6. ASSUME NEW n \in Nat PROVE Reached(p, n + 1) = Extended(p, Reached(p, n))
    <2>1. the(n + 1)[n + 1] = body(the(n + 1), n + 1)
      <3>1. n + 1 \in 0 .. n + 1 /\ n + 1 \in Nat
        OBVIOUS
      <3> HIDE DEF the, body
      <3> QED BY <1>3, <3>1
    <2>2. (n + 1) - 1 = n /\ n + 1 # 0
      OBVIOUS
    <2> HIDE DEF the
    <2> QED BY <1>1, <1>4, <2>1, <2>2
  <1> QED BY <1>5, <1>6

(* Everything that any number of operators leads to.                         *)
Space(p) == UNION {Reached(p, n) : n \in Nat}
Found(p) == {r.state : r \in Space(p)}

(* It is what is closed under going on from the origin.                      *)
LEMMA SpaceSteps ==
    ASSUME NEW p
    PROVE  /\ Origin(p) \in Space(p)
           /\ \A r \in Space(p) : \A k \in Moves(p, r.state) : Onward(p, r, k) \in Space(p)
  <1>1. Origin(p) \in Space(p)
    BY ReachedStep DEF Space
  <1>2. ASSUME NEW r \in Space(p), NEW k \in Moves(p, r.state)
        PROVE  Onward(p, r, k) \in Space(p)
    <2>1. PICK n \in Nat : r \in Reached(p, n)
      BY DEF Space
    <2>2. Onward(p, r, k) \in Extended(p, Reached(p, n))
      BY <2>1 DEF Extended, Moves
    <2>3. Onward(p, r, k) \in Reached(p, n + 1) /\ n + 1 \in Nat
      BY <2>2, ReachedStep
    <2> QED BY <2>3 DEF Space
  <1> QED BY <1>1, <1>2

(* Induction over the space: Q holds the configurations of which the claim   *)
(* is true.                                                                  *)
LEMMA SpaceInduction ==
    ASSUME NEW p, NEW Q, Origin(p) \in Q,
           \A r \in Space(p) : r \in Q => \A k \in Moves(p, r.state) : Onward(p, r, k) \in Q
    PROVE  Space(p) \subseteq Q
  <1> DEFINE N == {n \in Nat : Reached(p, n) \subseteq Q}
  <1>1. 0 \in N
    BY ReachedStep
  <1>2. ASSUME NEW n \in Nat, n \in N PROVE n + 1 \in N
    <2>1. Reached(p, n) \subseteq Space(p)
      BY DEF Space
    <2>2. Extended(p, Reached(p, n)) \subseteq Q
      BY <1>2, <2>1 DEF Extended, Moves
    <2> QED BY <2>2, ReachedStep
  <1>3. Nat \subseteq N
    <2> HIDE DEF N
    <2> QED BY <1>1, <1>2, UpTo
  <1> QED BY <1>3 DEF Space

(* A configuration has a state and a natural cost.                           *)
LEMMA SpaceTypes ==
    ASSUME NEW p, Graph(p), NEW r \in Space(p)
    PROVE  r.cost \in Nat /\ r = [state |-> r.state, cost |-> r.cost]
  <1> DEFINE Q == {x \in Space(p) : x.cost \in Nat /\ x = [state |-> x.state, cost |-> x.cost]}
  <1>1. Origin(p) \in Q
    BY SpaceSteps DEF Origin
  <1>2. ASSUME NEW x \in Space(p), x \in Q, NEW k \in Moves(p, x.state)
        PROVE  Onward(p, x, k) \in Q
    <2>1. k \in DOMAIN p.operators
      BY DEF Moves, successors
    <2>2. p.operators[k].cost \in Nat
      BY <2>1 DEF Graph
    <2>3. Onward(p, x, k) \in Space(p)
      BY SpaceSteps
    <2> QED BY <1>2, <2>2, <2>3 DEF Onward
  <1>3. Space(p) \subseteq Q
    <2> HIDE DEF Q
    <2> QED BY <1>1, <1>2, SpaceInduction
  <1> QED BY <1>3

(* Finitely many operators lead to finitely many configurations.             *)
LEMMA ReachedFinite ==
    ASSUME NEW p, Graph(p), NEW n \in Nat
    PROVE  IsFiniteSet(Reached(p, n))
  <1> DEFINE N == {m \in Nat : IsFiniteSet(Reached(p, m))}
  <1>1. 0 \in N
    <2>1. IsFiniteSet({Origin(p)})
      BY FS_Singleton
    <2> QED BY <2>1, ReachedStep
  <1>2. ASSUME NEW m \in Nat, m \in N PROVE m + 1 \in N
    <2> DEFINE R == Reached(p, m)
               onwards(r) == {Onward(p, r, k) : k \in successors(r.state, p.unknown, p.operators)}
               O == {onwards(r) : r \in R}
    <2>1. \A r \in R : IsFiniteSet(onwards(r))
      <3> SUFFICES ASSUME NEW r \in R PROVE IsFiniteSet(onwards(r))
        OBVIOUS
      <3> DEFINE K == successors(r.state, p.unknown, p.operators)
                 at == [k \in K |-> Onward(p, r, k)]
      <3>1. IsFiniteSet(K)
        <4>1. IsFiniteSet(DOMAIN p.operators)
          <5>1. DOMAIN p.operators = 1 .. Len(p.operators) /\ Len(p.operators) \in Nat
            BY DEF Graph
          <5>2. 1 \in Int /\ Len(p.operators) \in Int
            BY <5>1
          <5> QED BY <5>1, <5>2, FS_Interval
        <4>2. K \subseteq DOMAIN p.operators
          BY DEF successors
        <4> QED BY <4>1, <4>2, FS_Subset
      <3>2. onwards(r) = {at[k] : k \in K}
        OBVIOUS
      <3> HIDE DEF at, K, onwards
      <3>3. \A k \in K : k \in K
        OBVIOUS
      <3> DEFINE T == {at[k] : k \in K}
      <3>4. at \in Surjection(K, T)
        <4>1. at \in [K -> T]
          BY DEF at
        <4> QED BY <4>1 DEF Surjection
      <3> QED BY <3>1, <3>2, <3>4, FS_Surjection
    <2>2. IsFiniteSet(O)
      <3> DEFINE at == [r \in R |-> onwards(r)]
      <3>1. at \in Surjection(R, O)
        BY DEF Surjection
      <3> HIDE DEF at, O, R
      <3>2. IsFiniteSet(R)
        BY <1>2 DEF R
      <3> QED BY <3>1, <3>2, FS_Surjection
    <2>3. IsFiniteSet(UNION O)
      <3> HIDE DEF onwards
      <3> QED BY <2>1, <2>2, FS_UNION
    <2>4. Reached(p, m + 1) = R \cup UNION O
      BY ReachedStep DEF Extended
    <2>5. IsFiniteSet(R)
      BY <1>2
    <2>6. IsFiniteSet(R \cup UNION O)
      <3> HIDE DEF O, R
      <3> QED BY <2>3, <2>5, FS_Union
    <2> QED 
      <3> HIDE DEF O, R
      <3>1. m + 1 \in Nat
        OBVIOUS
      <3> QED BY <2>4, <2>6, <3>1
  <1>3. Nat \subseteq N
    <2> HIDE DEF N
    <2> QED BY <1>1, <1>2, UpTo
  <1> QED BY <1>3

(* F is a frontier and B what is known to be paid for each state. A state is *)
(* closed when nothing on the frontier will be expanded for it any more.     *)
Closed(F, B) == {s \in DOMAIN B : \A e \in F : ~ (e.state = s /\ e.cost = B[s])}

(* Everything on the frontier and in the table was found.                    *)
Sound(p, F, B) ==
    /\ p.known \in DOMAIN B /\ B[p.known] = 0
    /\ \A s \in DOMAIN B : [state |-> s, cost |-> B[s]] \in Space(p)
    /\ \A e \in F : /\ e.state \in DOMAIN B /\ B[e.state] <= e.cost
                    /\ [state |-> e.state, cost |-> e.cost] \in Space(p)
                    /\ \A d \in F : d.state = e.state /\ d.cost = e.cost => d = e

Cheapens(p, B, s, k) ==
    /\ Applied(p.operators[k], s) \in DOMAIN B
    /\ B[Applied(p.operators[k], s)] <= B[s] + p.operators[k].cost

(* What was expanded cost the least, and what it leads to is in the table.   *)
Settled(p, B, C) ==
    \A s \in C : /\ s \in DOMAIN B
                 /\ \A r \in Space(p) : r.state = s => B[s] <= r.cost

Searched(p, F, B) ==
    /\ Sound(p, F, B)
    /\ Settled(p, B, Closed(F, B))
    /\ \A s \in Closed(F, B) : \A k \in Moves(p, s) : Cheapens(p, B, s, k)

(* An estimate that an operator lowers by no more than it costs.             *)
Consistent(p, H) ==
    /\ \A s \in Found(p) : H[s] \in Nat
    /\ \A r \in Space(p) : \A k \in Moves(p, r.state) :
          H[r.state] <= p.operators[k].cost + H[Onward(p, r, k).state]

(* The search begins with its start, at no cost.                             *)
LEMMA SearchStarts ==
    ASSUME NEW p, NEW e, e.state = p.known, e.cost = 0
    PROVE  /\ Searched(p, {e}, [s \in {p.known} |-> 0])
           /\ Closed({e}, [s \in {p.known} |-> 0]) = {}
  <1> DEFINE B == [s \in {p.known} |-> 0]
  <1>1. Closed({e}, B) = {}
    BY DEF Closed
  <1>2. Sound(p, {e}, B)
    <2>1. [state |-> p.known, cost |-> 0] \in Space(p)
      BY SpaceSteps DEF Origin
    <2> QED BY <2>1 DEF Sound
  <1> HIDE DEF B
  <1>3. Searched(p, {e}, B)
    BY <1>1, <1>2 DEF Searched, Settled
  <1> QED BY <1>1, <1>3 DEF B

(* Everything in the table and on the frontier is in the space.              *)
LEMMA FoundTypes ==
    ASSUME NEW p, Graph(p), NEW F, NEW B, Sound(p, F, B)
    PROVE  /\ DOMAIN B \subseteq Found(p)
           /\ \A s \in DOMAIN B : B[s] \in Nat
           /\ \A e \in F : e.cost \in Nat /\ e.state \in DOMAIN B
  <1>1. ASSUME NEW s \in DOMAIN B PROVE s \in Found(p) /\ B[s] \in Nat
    <2> DEFINE r == [state |-> s, cost |-> B[s]]
    <2>1. r \in Space(p) /\ r.state = s /\ r.cost = B[s]
      BY DEF Sound
    <2> HIDE DEF r
    <2> QED BY <2>1, SpaceTypes DEF Found
  <1>2. ASSUME NEW e \in F PROVE e.cost \in Nat /\ e.state \in DOMAIN B
    <2> DEFINE r == [state |-> e.state, cost |-> e.cost]
    <2>1. r \in Space(p) /\ r.cost = e.cost /\ e.state \in DOMAIN B
      BY DEF Sound
    <2> HIDE DEF r
    <2> QED BY <2>1, SpaceTypes
  <1> QED BY <1>1, <1>2

(* The search has gone past a configuration or will reach it from an entry   *)
(* of the frontier that promises no more than its cost.                      *)
LEMMA FrontierSeparates ==
    ASSUME NEW p, Graph(p), NEW H, Consistent(p, H), NEW F, NEW B, Searched(p, F, B)
    PROVE  \A r \in Space(p) :
              r.state \in Closed(F, B)
                 \/ \E e \in F : e.cost + H[e.state] <= r.cost + H[r.state]
  <1> DEFINE Ahead(r) == \E e \in F : e.cost + H[e.state] <= r.cost + H[r.state]
             Q == {r \in Space(p) : r.state \in Closed(F, B) \/ Ahead(r)}
  <1> USE DEF Searched
  <1>1. \A s \in DOMAIN B : s \in Closed(F, B) \/ \E e \in F : e.state = s /\ e.cost = B[s]
    BY DEF Closed
  <1>2. \A r \in Space(p) : r.cost \in Nat /\ H[r.state] \in Nat
    BY SpaceTypes DEF Consistent, Found
  <1>3. \A e \in F : e.cost \in Nat /\ H[e.state] \in Nat
    BY FoundTypes DEF Consistent
  <1>4. ASSUME NEW r \in Space(p), r.state \in DOMAIN B, B[r.state] <= r.cost
        PROVE  r \in Q
    <2>1. CASE r.state \in Closed(F, B)
      BY <2>1
    <2>2. CASE \E e \in F : e.state = r.state /\ e.cost = B[r.state]
      <3>1. PICK e \in F : e.state = r.state /\ e.cost = B[r.state]
        BY <2>2
      <3>2. e.cost + H[e.state] <= r.cost + H[r.state]
        BY <1>2, <1>3, <1>4, <3>1
      <3> QED BY <3>2
    <2> QED BY <1>1, <1>4, <2>1, <2>2
  <1>5. Origin(p) \in Q
    <2>1. Origin(p).state \in DOMAIN B /\ B[Origin(p).state] <= Origin(p).cost
      BY DEF Origin, Sound
    <2> HIDE DEF Q
    <2> QED BY <1>4, <2>1, SpaceSteps
  <1>6. ASSUME NEW r \in Space(p), r \in Q, NEW k \in Moves(p, r.state)
        PROVE  Onward(p, r, k) \in Q
    <2> DEFINE t == Onward(p, r, k)
    <2>1. t \in Space(p) /\ t.state = Applied(p.operators[k], r.state)
          /\ t.cost = r.cost + p.operators[k].cost
      BY SpaceSteps DEF Onward
    <2>2. p.operators[k].cost \in Nat
      BY DEF Graph, Moves, successors
    <2>3. CASE r.state \in Closed(F, B)
      <3>1. t.state \in DOMAIN B /\ B[t.state] <= B[r.state] + p.operators[k].cost
        BY <2>1, <2>3 DEF Cheapens
      <3>2. B[r.state] <= r.cost /\ B[r.state] \in Nat /\ B[t.state] \in Nat
        <4>1. r.state \in DOMAIN B /\ B[r.state] <= r.cost
          BY <2>3 DEF Settled
        <4> QED BY <3>1, <4>1, FoundTypes
      <3>3. B[t.state] <= t.cost
        BY <1>2, <2>1, <2>2, <3>1, <3>2
      <3> HIDE DEF Q
      <3>4. t \in Q
        <4> HIDE DEF t
        <4> QED BY <1>4, <2>1, <3>1, <3>3
      <3> QED BY <3>4
    <2>4. CASE Ahead(r)
      <3>1. PICK e \in F : e.cost + H[e.state] <= r.cost + H[r.state]
        BY <2>4
      <3>2. H[r.state] <= p.operators[k].cost + H[t.state]
        BY DEF Consistent
      <3>3. e.cost + H[e.state] <= t.cost + H[t.state]
        <4>1. e.cost \in Nat /\ H[e.state] \in Nat /\ r.cost \in Nat /\ H[r.state] \in Nat
              /\ H[t.state] \in Nat
          BY <1>2, <1>3, <2>1
        <4> DEFINE a == e.cost + H[e.state]
                   c == r.cost
                   g == H[r.state]
                   o == p.operators[k].cost
                   h == H[t.state]
        <4>2. a \in Nat /\ c \in Nat /\ g \in Nat /\ o \in Nat /\ h \in Nat
          BY <2>2, <4>1
        <4>3. a <= c + g /\ g <= o + h /\ t.cost = c + o
          BY <2>1, <3>1, <3>2
        <4> HIDE DEF a, c, g, o, h, t
        <4>4. a <= (c + o) + h
          BY <4>2, <4>3
        <4> QED BY <4>3, <4>4 DEF a, h
      <3> HIDE DEF Q
      <3>4. Ahead(t) /\ t \in Space(p)
        <4> HIDE DEF t
        <4> QED BY <2>1, <3>3
      <3> QED BY <3>4 DEF Q
    <2> QED BY <1>6, <2>3, <2>4
  <1>7. Space(p) \subseteq Q
    <2> HIDE DEF Q
    <2> QED BY <1>5, <1>6, SpaceInduction
  <1> QED BY <1>7

(* The head of the heap was reached at least cost unless its state is closed. *)
LEMMA HeadIsCheapest ==
    ASSUME NEW p, Graph(p), NEW H, Consistent(p, H), NEW F, NEW B, Searched(p, F, B),
           NEW e \in F, \A d \in F : e.cost + H[e.state] <= d.cost + H[d.state],
           e.state \notin Closed(F, B)
    PROVE  /\ \A r \in Space(p) : r.state = e.state => e.cost <= r.cost
           /\ B[e.state] = e.cost
  <1>1. \A d \in F : d.cost \in Nat /\ d.state \in Found(p) /\ H[d.state] \in Nat
    BY FoundTypes DEF Searched, Consistent
  <1>2. ASSUME NEW r \in Space(p), r.state = e.state
        PROVE  e.cost <= r.cost
    <2>1. PICK d \in F : d.cost + H[d.state] <= r.cost + H[r.state]
      BY <1>2, FrontierSeparates
    <2>2. e.cost + H[e.state] <= d.cost + H[d.state]
      OBVIOUS
    <2>3. r.cost \in Nat
      BY SpaceTypes
    <2> QED BY <1>1, <1>2, <2>1, <2>2, <2>3
  <1>3. B[e.state] = e.cost
    <2> DEFINE r == [state |-> e.state, cost |-> B[e.state]]
    <2>1. r \in Space(p) /\ r.state = e.state /\ r.cost = B[e.state]
      BY DEF Searched, Sound
    <2>2. B[e.state] <= e.cost
      BY DEF Searched, Sound
    <2>3. B[e.state] \in Nat
      BY FoundTypes DEF Searched
    <2> HIDE DEF r
    <2> QED BY <1>1, <1>2, <2>1, <2>2, <2>3
  <1> QED BY <1>2, <1>3

(* An entry that is dearer than what is known of its state counts for nothing. *)
LEMMA StaleGoes ==
    ASSUME NEW p, Graph(p), NEW F, NEW B, Searched(p, F, B), NEW e \in F, B[e.state] < e.cost
    PROVE  Searched(p, F \ {e}, B) /\ Closed(F \ {e}, B) = Closed(F, B)
  <1>1. Closed(F \ {e}, B) = Closed(F, B)
    <2>1. B[e.state] \in Nat /\ e.cost \in Nat
      BY FoundTypes DEF Searched
    <2>2. B[e.state] # e.cost
      BY <2>1
    <2> QED BY <2>2 DEF Closed
  <1>2. Sound(p, F \ {e}, B)
    BY DEF Searched, Sound
  <1> QED BY <1>1, <1>2 DEF Searched

(* The expansion of e, from the closed set C, after the first j operators.   *)
Midway(p, C, e, j, F, B) ==
    /\ Sound(p, F, B)
    /\ Closed(F, B) = C \cup {e.state}
    /\ Settled(p, B, C \cup {e.state})
    /\ B[e.state] = e.cost
    /\ \A s \in C : \A k \in Moves(p, s) : Cheapens(p, B, s, k)
    /\ \A k \in Moves(p, e.state) : k <= j => Cheapens(p, B, e.state, k)

(* An expansion begins by taking the entry off the frontier.                 *)
LEMMA ExpansionStarts ==
    ASSUME NEW p, Graph(p), NEW H, Consistent(p, H), NEW F, NEW B, Searched(p, F, B),
           NEW e \in F, \A d \in F : e.cost + H[e.state] <= d.cost + H[d.state],
           e.cost <= B[e.state]
    PROVE  /\ Midway(p, Closed(F, B), e, 0, F \ {e}, B)
           /\ e.state \notin Closed(F, B) /\ B[e.state] = e.cost
  <1>1. B[e.state] = e.cost /\ e.state \in DOMAIN B
    <2>1. B[e.state] \in Nat /\ e.cost \in Nat /\ B[e.state] <= e.cost /\ e.state \in DOMAIN B
      BY FoundTypes DEF Searched, Sound
    <2> QED BY <2>1
  <1>2. e.state \notin Closed(F, B)
    BY <1>1 DEF Closed
  <1>3. Sound(p, F \ {e}, B)
    BY DEF Searched, Sound
  <1>4. Closed(F \ {e}, B) = Closed(F, B) \cup {e.state}
    <2>1. \A d \in F \ {e} : ~ (d.state = e.state /\ d.cost = e.cost)
      BY DEF Searched, Sound
    <2>2. e.state \in Closed(F \ {e}, B)
      BY <1>1, <2>1 DEF Closed
    <2>3. Closed(F, B) \subseteq Closed(F \ {e}, B)
      BY DEF Closed
    <2>4. ASSUME NEW s \in Closed(F \ {e}, B), s # e.state PROVE s \in Closed(F, B)
      BY <2>4 DEF Closed
    <2> QED BY <2>2, <2>3, <2>4
  <1>5. Settled(p, B, Closed(F, B) \cup {e.state})
    <2>1. \A r \in Space(p) : r.state = e.state => e.cost <= r.cost
      BY <1>2, HeadIsCheapest
    <2> QED BY <1>1, <2>1 DEF Searched, Settled
  <1>6. \A k \in Moves(p, e.state) : ~ (k <= 0)
    BY DEF Moves, successors, Graph
  <1> QED BY <1>1, <1>2, <1>3, <1>4, <1>5, <1>6 DEF Midway, Searched

(* An operator that leads nowhere new leaves everything as it is.            *)
LEMMA ExpansionPasses ==
    ASSUME NEW p, Graph(p), NEW C, NEW e, NEW j \in Nat, NEW F, NEW B,
           Midway(p, C, e, j, F, B),
           j + 1 \in Moves(p, e.state) =>
               LET t == Onward(p, e, j + 1)
               IN  t.state \in DOMAIN B /\ B[t.state] <= t.cost
    PROVE  Midway(p, C, e, j + 1, F, B)
  <1> SUFFICES ASSUME NEW k \in Moves(p, e.state), k <= j + 1
               PROVE  Cheapens(p, B, e.state, k)
    BY DEF Midway
  <1>1. k \in Nat
    BY DEF Moves, successors, Graph
  <1>2. CASE k <= j
    BY <1>2 DEF Midway
  <1>3. CASE k = j + 1
    BY <1>3 DEF Midway, Onward, Cheapens
  <1> QED BY <1>1, <1>2, <1>3

(* One that leads to a new state, or to one at less cost, adds an entry.     *)
LEMMA ExpansionPushes ==
    ASSUME NEW p, Graph(p), NEW C, NEW e, NEW j \in Nat, NEW F, NEW B,
           Midway(p, C, e, j, F, B), j + 1 \in Moves(p, e.state),
           NEW t, t = Onward(p, e, j + 1),
           ~ (t.state \in DOMAIN B /\ B[t.state] <= t.cost),
           NEW x, x.state = t.state, x.cost = t.cost
    PROVE  Midway(p, C, e, j + 1, F \cup {x}, Priced(B, t.state, t.cost))
  <1> DEFINE D == Priced(B, t.state, t.cost)
             G == F \cup {x}
             E == C \cup {e.state}
  <1>1. Sound(p, F, B) /\ Closed(F, B) = E /\ Settled(p, B, E) /\ B[e.state] = e.cost
        /\ e.state \in DOMAIN B
    BY DEF Midway, Settled
  <1>2. t \in Space(p) /\ t = [state |-> t.state, cost |-> t.cost] /\ t.cost \in Nat
    <2> DEFINE r == [state |-> e.state, cost |-> e.cost]
    <2>1. r \in Space(p) /\ r.state = e.state /\ t = Onward(p, r, j + 1)
      BY <1>1 DEF Sound, Onward
    <2> HIDE DEF r
    <2> QED BY <2>1, SpaceSteps, SpaceTypes
  <1>3. \A s \in DOMAIN B : B[s] \in Nat
    BY <1>1, FoundTypes
  <1>4. DOMAIN D = DOMAIN B \cup {t.state} /\ D[t.state] = t.cost
        /\ \A s \in DOMAIN B : s # t.state => D[s] = B[s]
    BY DEF Priced
  <1>5. t.state \notin E
    BY <1>1, <1>2 DEF Settled
  <1>6. \A d \in F : d.state = t.state => t.cost < d.cost /\ d.cost \in Nat
    <2> SUFFICES ASSUME NEW d \in F, d.state = t.state PROVE t.cost < d.cost /\ d.cost \in Nat
      OBVIOUS
    <2>1. t.state \in DOMAIN B /\ B[t.state] <= d.cost /\ d.cost \in Nat
      BY <1>1, FoundTypes DEF Sound
    <2>2. t.cost < B[t.state]
      BY <1>2, <1>3, <2>1
    <2> QED BY <1>2, <1>3, <2>1, <2>2
  <1>7. \A s \in DOMAIN B : D[s] <= B[s] /\ D[s] \in Nat
    BY <1>2, <1>3, <1>4
  <1> HIDE DEF D
  <1>8. Sound(p, G, D)
    <2>1. p.known \in DOMAIN D /\ D[p.known] = 0
      BY <1>1, <1>2, <1>4, <1>7 DEF Sound
    <2>2. \A s \in DOMAIN D : [state |-> s, cost |-> D[s]] \in Space(p)
      BY <1>1, <1>2, <1>4 DEF Sound
    <2>3. \A d \in G : d.state \in DOMAIN D /\ D[d.state] <= d.cost
                       /\ [state |-> d.state, cost |-> d.cost] \in Space(p)
      <3>1. ASSUME NEW d \in F
            PROVE  /\ d.state \in DOMAIN D /\ D[d.state] <= d.cost
                   /\ [state |-> d.state, cost |-> d.cost] \in Space(p)
        <4>1. d.state \in DOMAIN B /\ B[d.state] <= d.cost /\ d.cost \in Nat
              /\ [state |-> d.state, cost |-> d.cost] \in Space(p)
          BY <1>1, FoundTypes DEF Sound
        <4> QED BY <1>3, <1>4, <1>7, <4>1
      <3>2. /\ x.state \in DOMAIN D /\ D[x.state] <= x.cost
            /\ [state |-> x.state, cost |-> x.cost] \in Space(p)
        BY <1>2, <1>4
      <3> QED BY <3>1, <3>2
    <2>4. \A d, f \in G : d.state = f.state /\ d.cost = f.cost => d = f
      <3>1. \A d, f \in F : d.state = f.state /\ d.cost = f.cost => d = f
        BY <1>1 DEF Sound
      <3>2. \A d \in F : ~ (d.state = x.state /\ d.cost = x.cost)
        BY <1>2, <1>6
      <3> QED BY <3>1, <3>2
    <2> QED BY <2>1, <2>2, <2>3, <2>4 DEF Sound
  <1>9. Closed(G, D) = E
    <2>1. t.state \notin Closed(G, D)
      BY <1>4 DEF Closed
    <2>2. \A s \in DOMAIN B : s # t.state => (s \in Closed(G, D) <=> s \in Closed(F, B))
      BY <1>4 DEF Closed
    <2>3. Closed(G, D) \subseteq DOMAIN B \cup {t.state} /\ Closed(F, B) \subseteq DOMAIN B
      BY <1>4 DEF Closed
    <2> HIDE DEF G, E
    <2> QED BY <1>1, <1>5, <2>1, <2>2, <2>3
  <1>10. \A s \in E : s \in DOMAIN B /\ s # t.state /\ D[s] = B[s]
    BY <1>1, <1>4, <1>5 DEF Settled
  <1>11. Settled(p, D, E)
    BY <1>1, <1>4, <1>10 DEF Settled
  <1>12. ASSUME NEW s \in E, NEW k \in Moves(p, s), Cheapens(p, B, s, k)
         PROVE  Cheapens(p, D, s, k)
    <2> DEFINE u == Applied(p.operators[k], s)
    <2>1. u \in DOMAIN B /\ B[u] <= B[s] + p.operators[k].cost
      BY <1>12 DEF Cheapens
    <2>2. p.operators[k].cost \in Nat
      BY DEF Graph, Moves, successors
    <2> HIDE DEF u
    <2>3. u \in DOMAIN D /\ D[u] <= D[s] + p.operators[k].cost
      <3>1. D[u] <= B[u] /\ D[u] \in Nat /\ B[u] \in Nat /\ B[s] \in Nat /\ D[s] = B[s]
        BY <1>3, <1>7, <1>10, <2>1
      <3> QED BY <1>4, <2>1, <2>2, <3>1
    <2> QED BY <2>3 DEF Cheapens, u
  <1>13. \A s \in C : \A k \in Moves(p, s) : Cheapens(p, D, s, k)
    <2>1. \A s \in C : \A k \in Moves(p, s) : Cheapens(p, B, s, k)
      BY DEF Midway
    <2> QED BY <1>12, <2>1
  <1>14. ASSUME NEW k \in Moves(p, e.state), k <= j + 1
         PROVE  Cheapens(p, D, e.state, k)
    <2>1. k \in Nat
      BY DEF Moves, successors, Graph
    <2>2. CASE k <= j
      <3>1. Cheapens(p, B, e.state, k)
        BY <2>2 DEF Midway
      <3> QED BY <1>12, <3>1
    <2>3. CASE k = j + 1
      <3>1. Applied(p.operators[k], e.state) = t.state /\ t.cost = e.cost + p.operators[k].cost
        BY <2>3 DEF Onward
      <3>2. D[e.state] = e.cost
        BY <1>1, <1>10
      <3> QED BY <1>2, <1>4, <3>1, <3>2 DEF Cheapens
    <2> QED BY <1>14, <2>1, <2>2, <2>3
  <1>15. D[e.state] = e.cost
    BY <1>1, <1>10
  <1> HIDE DEF G
  <1>16. Midway(p, C, e, j + 1, G, D)
    BY <1>8, <1>9, <1>11, <1>13, <1>14, <1>15 DEF Midway
  <1> QED BY <1>16 DEF G, D

(* After the last operator the state is closed like the others.              *)
LEMMA ExpansionEnds ==
    ASSUME NEW p, Graph(p), NEW C, NEW e, NEW F, NEW B,
           Midway(p, C, e, Len(p.operators), F, B)
    PROVE  Searched(p, F, B) /\ Closed(F, B) = C \cup {e.state}
  <1>1. \A k \in Moves(p, e.state) : k <= Len(p.operators)
    BY DEF Moves, successors, Graph
  <1> QED BY <1>1 DEF Midway, Searched

(* A search that has nothing left has been everywhere, at least cost.        *)
LEMMA NothingLeftIsAll ==
    ASSUME NEW p, Graph(p), NEW B, Searched(p, {}, B)
    PROVE  /\ DOMAIN B = Found(p)
           /\ \A r \in Space(p) : B[r.state] <= r.cost
           /\ \A s \in Found(p) : [state |-> s, cost |-> B[s]] \in Space(p)
           /\ Found(p) \subseteq Closed({}, B)
  <1> DEFINE H == [s \in Found(p) |-> 0]
  <1>1. Consistent(p, H)
    <2>1. \A s \in Found(p) : H[s] = 0
      OBVIOUS
    <2>2. \A r \in Space(p) : \A k \in Moves(p, r.state) :
             /\ r.state \in Found(p) /\ Onward(p, r, k).state \in Found(p)
             /\ p.operators[k].cost \in Nat
      BY SpaceSteps DEF Found, Graph, Moves, successors
    <2> HIDE DEF H
    <2> QED BY <2>1, <2>2 DEF Consistent
  <1> HIDE DEF H
  <1>2. \A r \in Space(p) : r.state \in Closed({}, B)
    BY <1>1, FrontierSeparates
  <1>3. Found(p) \subseteq Closed({}, B) /\ Closed({}, B) \subseteq DOMAIN B
    BY <1>2 DEF Found, Closed
  <1>4. DOMAIN B \subseteq Found(p)
    BY FoundTypes DEF Searched
  <1> QED BY <1>2, <1>3, <1>4 DEF Searched, Sound, Settled

(* A part of an interval of which n is the greatest element.                 *)
LEMMA MaxOf ==
    ASSUME NEW n \in Nat, NEW s \in SUBSET (1 .. n), n \in s
    PROVE  Max(s) = n
  <1>1. \E x \in s : \A y \in s : x >= y
    BY DEF Max
  <1>2. Max(s) \in s /\ \A y \in s : Max(s) >= y
    BY <1>1 DEF Max
  <1>3. Max(s) \in 1 .. n /\ Max(s) >= n
    BY <1>2
  <1> QED BY <1>3

(* What is known after each operator of the expansion of a state.            *)
LEMMA ExpandedInOrder ==
    ASSUME NEW from, operators \in Seq(ToSet(operators))
    PROVE  \E g : /\ g[0] = [best |-> best, tie |-> tie, frontier |-> frontier \ {from}]
                  /\ \A j \in 1 .. Len(operators) :
                        g[j] = IF j \in successors(from.state, problem.unknown, operators)
                               THEN Discovered(g[j - 1], j, from) ELSE g[j - 1]
                  /\ Expanded(from) = g[Len(operators)]
  <1> DEFINE n == Len(operators)
             base == [best |-> best, tie |-> tie, frontier |-> frontier \ {from}]
             seq == [i \in DOMAIN operators |-> i]
             step(k, found) == IF k \in successors(from.state, problem.unknown, operators)
                               THEN Discovered(found, k, from) ELSE found
             body(f, s) == IF s = {} THEN base ELSE step(seq[Max(s)], f[s \ {Max(s)}])
             is(f, S) == f = [s \in SUBSET S |-> body(f, s)]
             iter == CHOOSE f : is(f, DOMAIN seq)
  <1>1. Expanded(from) = iter[DOMAIN seq]
    BY DEF Expanded, FoldLeftDomain, FoldLeft, MapThenFoldSet
  <1>2. n \in Nat /\ DOMAIN seq = 1 .. n /\ \A i \in 1 .. n : seq[i] = i
    OBVIOUS
  <1> HIDE DEF n, seq, base, step
  <1>3. \A m \in Nat : m <= n => \E f : is(f, 1 .. m)
    <2> DEFINE Q == {m \in Nat : m <= n => \E f : is(f, 1 .. m)}
    <2>1. 0 \in Q
      <3> DEFINE f == [s \in SUBSET (1 .. 0) |-> base]
      <3>1. \A s \in SUBSET (1 .. 0) : f[s] = body(f, s)
        OBVIOUS
      <3>2. f = [s \in SUBSET (1 .. 0) |-> f[s]]
        OBVIOUS
      <3> HIDE DEF f, body
      <3>3. is(f, 1 .. 0)
        BY <3>1, <3>2
      <3> HIDE DEF is
      <3> QED BY <3>3
    <2>2. ASSUME NEW m \in Nat, m \in Q PROVE m + 1 \in Q
      <3> SUFFICES ASSUME m + 1 <= n PROVE \E f : is(f, 1 .. m + 1)
        <4> HIDE DEF is
        <4>1. m + 1 \in Nat
          OBVIOUS
        <4> QED BY <4>1
      <3>1. PICK f : is(f, 1 .. m)
        <4> HIDE DEF is
        <4> QED BY <1>2, <2>2
      <3> DEFINE g == [s \in SUBSET (1 .. m + 1) |->
                         IF m + 1 \in s THEN step(seq[m + 1], f[s \ {m + 1}]) ELSE f[s]]
      <3>2. ASSUME NEW s \in SUBSET (1 .. m + 1)
            PROVE  g[s] = body(g, s)
        <4>1. CASE m + 1 \in s
          <5>1. Max(s) = m + 1
            BY <4>1, MaxOf
          <5>2. s \ {m + 1} \in SUBSET (1 .. m) /\ s # {}
            BY <4>1
          <5>3. g[s] = step(seq[m + 1], f[s \ {m + 1}])
            BY <4>1
          <5>4. g[s \ {m + 1}] = f[s \ {m + 1}]
            BY <5>2
          <5> HIDE DEF g
          <5> QED BY <5>1, <5>2, <5>3, <5>4
        <4>2. CASE m + 1 \notin s
          <5>1. s \in SUBSET (1 .. m) /\ g[s] = f[s]
            BY <4>2
          <5>2. f[s] = body(f, s)
            <6> HIDE DEF body
            <6> QED BY <3>1, <5>1
          <5>3. CASE s = {}
            <6> HIDE DEF g
            <6> QED BY <5>1, <5>2, <5>3
          <5>4. CASE s # {}
            <6>1. s \ {Max(s)} \in SUBSET (1 .. m)
              BY <5>1
            <6>2. g[s \ {Max(s)}] = f[s \ {Max(s)}]
              BY <6>1
            <6> HIDE DEF g
            <6> QED BY <5>1, <5>2, <5>4, <6>2
          <5> QED BY <5>3, <5>4
        <4> QED BY <4>1, <4>2
      <3>3. is(g, 1 .. m + 1)
        <4>1. g = [s \in SUBSET (1 .. m + 1) |-> g[s]]
          OBVIOUS
        <4> HIDE DEF g, body
        <4> QED BY <3>2, <4>1
      <3> HIDE DEF g, is
      <3> QED BY <3>3
    <2>3. Nat \subseteq Q
      <3> HIDE DEF Q
      <3> QED BY <2>1, <2>2, UpTo
    <2> QED BY <2>3
  <1>4. is(iter, 1 .. n)
    <2>1. \E f : is(f, DOMAIN seq)
      <3>1. n <= n
        BY <1>2
      <3> HIDE DEF is
      <3> QED BY <1>2, <1>3, <3>1
    <2>2. is(iter, DOMAIN seq)
      <3> HIDE DEF is
      <3> QED BY <2>1
    <2> HIDE DEF is, iter
    <2> QED BY <1>2, <2>2
  <1> DEFINE g == [j \in 0 .. n |-> iter[1 .. j]]
  <1>5. \A s \in SUBSET (1 .. n) : iter[s] = body(iter, s)
    <2> HIDE DEF iter, body
    <2> QED BY <1>4
  <1>6. g[0] = base
    <2>1. iter[{}] = base
      <3> HIDE DEF iter
      <3> QED BY <1>5
    <2>2. 1 .. 0 = {}
      OBVIOUS
    <2> HIDE DEF iter
    <2> QED BY <1>2, <2>1, <2>2
  <1>7. ASSUME NEW j \in 1 .. n
        PROVE  g[j] = step(j, g[j - 1])
    <2>1. Max(1 .. j) = j /\ (1 .. j) \ {j} = 1 .. j - 1 /\ 1 .. j # {}
      <3>1. j \in Nat /\ j \in 1 .. j /\ 1 .. j \in SUBSET (1 .. j)
        BY <1>2
      <3>2. Max(1 .. j) = j
        BY <3>1, MaxOf
      <3> QED BY <3>1, <3>2
    <2>2. iter[1 .. j] = body(iter, 1 .. j)
      <3>1. 1 .. j \in SUBSET (1 .. n)
        BY <1>2
      <3> HIDE DEF iter, body
      <3> QED BY <1>5, <3>1
    <2>3. iter[1 .. j] = step(seq[j], iter[1 .. j - 1])
      <3> HIDE DEF iter
      <3> QED BY <2>1, <2>2
    <2>4. seq[j] = j /\ j - 1 \in 0 .. n /\ j \in 0 .. n
      BY <1>2
    <2> HIDE DEF iter
    <2> QED BY <2>3, <2>4
  <1>8. Expanded(from) = g[n]
    <2> HIDE DEF iter
    <2> QED BY <1>1, <1>2
  <1> HIDE DEF g
  <1>9. \A j \in 1 .. n : g[j] = step(j, g[j - 1])
    BY <1>7
  <1> QED BY <1>6, <1>8, <1>9 DEF step, base, n

(* The same of an expansion by enumerate_space.                              *)
Grown(rest, from) ==
    FoldLeftDomain(LAMBDA found, k : IF k \in successors(from.state, problem.unknown, operators)
                                     THEN Tabulated(found, k, from) ELSE found,
                   rest, operators)

(* enumerate_space goes through the operators in their order.                *)
LEMMA GrownInOrder ==
    ASSUME NEW from, NEW rest, operators \in Seq(ToSet(operators))
    PROVE  \E g : /\ g[0] = rest
                  /\ \A j \in 1 .. Len(operators) :
                        g[j] = IF j \in successors(from.state, problem.unknown, operators)
                               THEN Tabulated(g[j - 1], j, from) ELSE g[j - 1]
                  /\ Grown(rest, from) = g[Len(operators)]
  <1> DEFINE n == Len(operators)
             base == rest
             seq == [i \in DOMAIN operators |-> i]
             step(k, found) == IF k \in successors(from.state, problem.unknown, operators)
                               THEN Tabulated(found, k, from) ELSE found
             body(f, s) == IF s = {} THEN base ELSE step(seq[Max(s)], f[s \ {Max(s)}])
             is(f, S) == f = [s \in SUBSET S |-> body(f, s)]
             iter == CHOOSE f : is(f, DOMAIN seq)
  <1>1. Grown(rest, from) = iter[DOMAIN seq]
    BY DEF Grown, FoldLeftDomain, FoldLeft, MapThenFoldSet
  <1>2. n \in Nat /\ DOMAIN seq = 1 .. n /\ \A i \in 1 .. n : seq[i] = i
    OBVIOUS
  <1> HIDE DEF n, seq, base, step
  <1>3. \A m \in Nat : m <= n => \E f : is(f, 1 .. m)
    <2> DEFINE Q == {m \in Nat : m <= n => \E f : is(f, 1 .. m)}
    <2>1. 0 \in Q
      <3> DEFINE f == [s \in SUBSET (1 .. 0) |-> base]
      <3>1. \A s \in SUBSET (1 .. 0) : f[s] = body(f, s)
        OBVIOUS
      <3>2. f = [s \in SUBSET (1 .. 0) |-> f[s]]
        OBVIOUS
      <3> HIDE DEF f, body
      <3>3. is(f, 1 .. 0)
        BY <3>1, <3>2
      <3> HIDE DEF is
      <3> QED BY <3>3
    <2>2. ASSUME NEW m \in Nat, m \in Q PROVE m + 1 \in Q
      <3> SUFFICES ASSUME m + 1 <= n PROVE \E f : is(f, 1 .. m + 1)
        <4> HIDE DEF is
        <4>1. m + 1 \in Nat
          OBVIOUS
        <4> QED BY <4>1
      <3>1. PICK f : is(f, 1 .. m)
        <4> HIDE DEF is
        <4> QED BY <1>2, <2>2
      <3> DEFINE g == [s \in SUBSET (1 .. m + 1) |->
                         IF m + 1 \in s THEN step(seq[m + 1], f[s \ {m + 1}]) ELSE f[s]]
      <3>2. ASSUME NEW s \in SUBSET (1 .. m + 1)
            PROVE  g[s] = body(g, s)
        <4>1. CASE m + 1 \in s
          <5>1. Max(s) = m + 1
            BY <4>1, MaxOf
          <5>2. s \ {m + 1} \in SUBSET (1 .. m) /\ s # {}
            BY <4>1
          <5>3. g[s] = step(seq[m + 1], f[s \ {m + 1}])
            BY <4>1
          <5>4. g[s \ {m + 1}] = f[s \ {m + 1}]
            BY <5>2
          <5> HIDE DEF g
          <5> QED BY <5>1, <5>2, <5>3, <5>4
        <4>2. CASE m + 1 \notin s
          <5>1. s \in SUBSET (1 .. m) /\ g[s] = f[s]
            BY <4>2
          <5>2. f[s] = body(f, s)
            <6> HIDE DEF body
            <6> QED BY <3>1, <5>1
          <5>3. CASE s = {}
            <6> HIDE DEF g
            <6> QED BY <5>1, <5>2, <5>3
          <5>4. CASE s # {}
            <6>1. s \ {Max(s)} \in SUBSET (1 .. m)
              BY <5>1
            <6>2. g[s \ {Max(s)}] = f[s \ {Max(s)}]
              BY <6>1
            <6> HIDE DEF g
            <6> QED BY <5>1, <5>2, <5>4, <6>2
          <5> QED BY <5>3, <5>4
        <4> QED BY <4>1, <4>2
      <3>3. is(g, 1 .. m + 1)
        <4>1. g = [s \in SUBSET (1 .. m + 1) |-> g[s]]
          OBVIOUS
        <4> HIDE DEF g, body
        <4> QED BY <3>2, <4>1
      <3> HIDE DEF g, is
      <3> QED BY <3>3
    <2>3. Nat \subseteq Q
      <3> HIDE DEF Q
      <3> QED BY <2>1, <2>2, UpTo
    <2> QED BY <2>3
  <1>4. is(iter, 1 .. n)
    <2>1. \E f : is(f, DOMAIN seq)
      <3>1. n <= n
        BY <1>2
      <3> HIDE DEF is
      <3> QED BY <1>2, <1>3, <3>1
    <2>2. is(iter, DOMAIN seq)
      <3> HIDE DEF is
      <3> QED BY <2>1
    <2> HIDE DEF is, iter
    <2> QED BY <1>2, <2>2
  <1> DEFINE g == [j \in 0 .. n |-> iter[1 .. j]]
  <1>5. \A s \in SUBSET (1 .. n) : iter[s] = body(iter, s)
    <2> HIDE DEF iter, body
    <2> QED BY <1>4
  <1>6. g[0] = base
    <2>1. iter[{}] = base
      <3> HIDE DEF iter
      <3> QED BY <1>5
    <2>2. 1 .. 0 = {}
      OBVIOUS
    <2> HIDE DEF iter
    <2> QED BY <1>2, <2>1, <2>2
  <1>7. ASSUME NEW j \in 1 .. n
        PROVE  g[j] = step(j, g[j - 1])
    <2>1. Max(1 .. j) = j /\ (1 .. j) \ {j} = 1 .. j - 1 /\ 1 .. j # {}
      <3>1. j \in Nat /\ j \in 1 .. j /\ 1 .. j \in SUBSET (1 .. j)
        BY <1>2
      <3>2. Max(1 .. j) = j
        BY <3>1, MaxOf
      <3> QED BY <3>1, <3>2
    <2>2. iter[1 .. j] = body(iter, 1 .. j)
      <3>1. 1 .. j \in SUBSET (1 .. n)
        BY <1>2
      <3> HIDE DEF iter, body
      <3> QED BY <1>5, <3>1
    <2>3. iter[1 .. j] = step(seq[j], iter[1 .. j - 1])
      <3> HIDE DEF iter
      <3> QED BY <2>1, <2>2
    <2>4. seq[j] = j /\ j - 1 \in 0 .. n /\ j \in 0 .. n
      BY <1>2
    <2> HIDE DEF iter
    <2> QED BY <2>3, <2>4
  <1>8. Grown(rest, from) = g[n]
    <2> HIDE DEF iter
    <2> QED BY <1>1, <1>2
  <1> HIDE DEF g
  <1>9. \A j \in 1 .. n : g[j] = step(j, g[j - 1])
    BY <1>7
  <1> QED BY <1>6, <1>8, <1>9 DEF step, base, n
(* What validate_plan has after each step of a plan.                         *)
Carried(unknown, edges, run, k) ==
    IF run.executable /\ Applicable(edges[k], run.state, unknown)
    THEN [executable |-> TRUE, state |-> Applied(edges[k], run.state),
          cost |-> run.cost + edges[k].cost]
    ELSE [executable |-> FALSE, state |-> run.state, cost |-> run.cost]

(* The validator goes through the plan in its order.                         *)
LEMMA ReplayedInOrder ==
    ASSUME NEW known, NEW unknown, NEW edges, NEW K, NEW plan \in Seq(K)
    PROVE  \E g : /\ g[0] = [executable |-> TRUE, state |-> known, cost |-> 0]
                  /\ \A j \in 1 .. Len(plan) : g[j] = Carried(unknown, edges, g[j - 1], plan[j])
                  /\ Replayed(known, unknown, edges, plan) = g[Len(plan)]
  <1> DEFINE n == Len(plan)
             base == [executable |-> TRUE, state |-> known, cost |-> 0]
             step(k, run) == Carried(unknown, edges, run, k)
             body(f, s) == IF s = {} THEN base ELSE step(plan[Max(s)], f[s \ {Max(s)}])
             is(f, S) == f = [s \in SUBSET S |-> body(f, s)]
             iter == CHOOSE f : is(f, DOMAIN plan)
  <1>1. Replayed(known, unknown, edges, plan) = iter[DOMAIN plan]
    BY DEF Replayed, Carried, FoldLeft, MapThenFoldSet
  <1>2. n \in Nat /\ DOMAIN plan = 1 .. n
    OBVIOUS
  <1> HIDE DEF n, base, step
  <1>3. \A m \in Nat : m <= n => \E f : is(f, 1 .. m)
    <2> DEFINE Q == {m \in Nat : m <= n => \E f : is(f, 1 .. m)}
    <2>1. 0 \in Q
      <3> DEFINE f == [s \in SUBSET (1 .. 0) |-> base]
      <3>1. \A s \in SUBSET (1 .. 0) : f[s] = body(f, s)
        OBVIOUS
      <3>2. f = [s \in SUBSET (1 .. 0) |-> f[s]]
        OBVIOUS
      <3> HIDE DEF f, body
      <3>3. is(f, 1 .. 0)
        BY <3>1, <3>2
      <3> HIDE DEF is
      <3> QED BY <3>3
    <2>2. ASSUME NEW m \in Nat, m \in Q PROVE m + 1 \in Q
      <3> SUFFICES ASSUME m + 1 <= n PROVE \E f : is(f, 1 .. m + 1)
        <4> HIDE DEF is
        <4>1. m + 1 \in Nat
          OBVIOUS
        <4> QED BY <4>1
      <3>1. PICK f : is(f, 1 .. m)
        <4> HIDE DEF is
        <4> QED BY <1>2, <2>2
      <3> DEFINE g == [s \in SUBSET (1 .. m + 1) |->
                         IF m + 1 \in s THEN step(plan[m + 1], f[s \ {m + 1}]) ELSE f[s]]
      <3>2. ASSUME NEW s \in SUBSET (1 .. m + 1)
            PROVE  g[s] = body(g, s)
        <4>1. CASE m + 1 \in s
          <5>1. Max(s) = m + 1
            BY <4>1, MaxOf
          <5>2. s \ {m + 1} \in SUBSET (1 .. m) /\ s # {}
            BY <4>1
          <5>3. g[s] = step(plan[m + 1], f[s \ {m + 1}])
            BY <4>1
          <5>4. g[s \ {m + 1}] = f[s \ {m + 1}]
            BY <5>2
          <5> HIDE DEF g
          <5> QED BY <5>1, <5>2, <5>3, <5>4
        <4>2. CASE m + 1 \notin s
          <5>1. s \in SUBSET (1 .. m) /\ g[s] = f[s]
            BY <4>2
          <5>2. f[s] = body(f, s)
            <6> HIDE DEF body
            <6> QED BY <3>1, <5>1
          <5>3. CASE s = {}
            <6> HIDE DEF g
            <6> QED BY <5>1, <5>2, <5>3
          <5>4. CASE s # {}
            <6>1. s \ {Max(s)} \in SUBSET (1 .. m)
              BY <5>1
            <6>2. g[s \ {Max(s)}] = f[s \ {Max(s)}]
              BY <6>1
            <6> HIDE DEF g
            <6> QED BY <5>1, <5>2, <5>4, <6>2
          <5> QED BY <5>3, <5>4
        <4> QED BY <4>1, <4>2
      <3>3. is(g, 1 .. m + 1)
        <4>1. g = [s \in SUBSET (1 .. m + 1) |-> g[s]]
          OBVIOUS
        <4> HIDE DEF g, body
        <4> QED BY <3>2, <4>1
      <3> HIDE DEF g, is
      <3> QED BY <3>3
    <2>3. Nat \subseteq Q
      <3> HIDE DEF Q
      <3> QED BY <2>1, <2>2, UpTo
    <2> QED BY <2>3
  <1>4. is(iter, 1 .. n)
    <2>1. \E f : is(f, DOMAIN plan)
      <3>1. n <= n
        BY <1>2
      <3> HIDE DEF is
      <3> QED BY <1>2, <1>3, <3>1
    <2>2. is(iter, DOMAIN plan)
      <3> HIDE DEF is
      <3> QED BY <2>1
    <2> HIDE DEF is, iter
    <2> QED BY <1>2, <2>2
  <1> DEFINE g == [j \in 0 .. n |-> iter[1 .. j]]
  <1>5. \A s \in SUBSET (1 .. n) : iter[s] = body(iter, s)
    <2> HIDE DEF iter, body
    <2> QED BY <1>4
  <1>6. g[0] = base
    <2>1. iter[{}] = base
      <3> HIDE DEF iter
      <3> QED BY <1>5
    <2>2. 1 .. 0 = {}
      OBVIOUS
    <2> HIDE DEF iter
    <2> QED BY <1>2, <2>1, <2>2
  <1>7. ASSUME NEW j \in 1 .. n
        PROVE  g[j] = step(plan[j], g[j - 1])
    <2>1. Max(1 .. j) = j /\ (1 .. j) \ {j} = 1 .. j - 1 /\ 1 .. j # {}
      <3>1. j \in Nat /\ j \in 1 .. j /\ 1 .. j \in SUBSET (1 .. j)
        BY <1>2
      <3>2. Max(1 .. j) = j
        BY <3>1, MaxOf
      <3> QED BY <3>1, <3>2
    <2>2. iter[1 .. j] = body(iter, 1 .. j)
      <3>1. 1 .. j \in SUBSET (1 .. n)
        BY <1>2
      <3> HIDE DEF iter, body
      <3> QED BY <1>5, <3>1
    <2>3. iter[1 .. j] = step(plan[j], iter[1 .. j - 1])
      <3> HIDE DEF iter
      <3> QED BY <2>1, <2>2
    <2>4. j - 1 \in 0 .. n /\ j \in 0 .. n
      BY <1>2
    <2> HIDE DEF iter
    <2> QED BY <2>3, <2>4
  <1>8. Replayed(known, unknown, edges, plan) = g[n]
    <2> HIDE DEF iter
    <2> QED BY <1>1, <1>2
  <1> HIDE DEF g
  <1>9. \A j \in 1 .. n : g[j] = step(plan[j], g[j - 1])
    BY <1>7
  <1> QED BY <1>6, <1>8, <1>9 DEF step, base, n

Replays(p, plan, r) ==
    /\ plan \in Seq(DOMAIN p.operators)
    /\ Replayed(p.known, p.unknown, p.operators, plan)
         = [executable |-> TRUE, state |-> r.state, cost |-> r.cost]

(* The empty plan leads to the origin, a plan extended by an operator that is *)
(* applicable where it leads goes on from there.                              *)
LEMMA ReplayStarts ==
    ASSUME NEW p
    PROVE  Replays(p, <<>>, Origin(p))
  <1> DEFINE plan == <<>>
  <1>1. plan \in Seq(DOMAIN p.operators)
    OBVIOUS
  <1>2. Len(plan) = 0
    OBVIOUS
  <1> HIDE DEF plan
  <1>3. PICK g : /\ g[0] = [executable |-> TRUE, state |-> p.known, cost |-> 0]
                 /\ \A j \in 1 .. Len(plan) :
                       g[j] = Carried(p.unknown, p.operators, g[j - 1], plan[j])
                 /\ Replayed(p.known, p.unknown, p.operators, plan) = g[Len(plan)]
    BY <1>1, ReplayedInOrder
  <1>4. Replays(p, plan, Origin(p))
    BY <1>1, <1>2, <1>3 DEF Replays, Origin
  <1> QED BY <1>4 DEF plan

(* A plan that can be carried out can be carried on by an operator that      *)
(* applies.                                                                  *)
LEMMA ReplayExtends ==
    ASSUME NEW p, NEW plan, NEW r, Replays(p, plan, r),
           NEW k \in DOMAIN p.operators, Applicable(p.operators[k], r.state, p.unknown)
    PROVE  Replays(p, Append(plan, k), Onward(p, r, k))
  <1> DEFINE S == DOMAIN p.operators
             n == Len(plan)
             longer == Append(plan, k)
             step(run, j) == Carried(p.unknown, p.operators, run, j)
  <1>1. plan \in Seq(S) /\ n \in Nat /\ longer \in Seq(S) /\ Len(longer) = n + 1
        /\ longer[n + 1] = k /\ \A j \in 1 .. n : longer[j] = plan[j]
    BY DEF Replays
  <1> HIDE DEF S, n, longer
  <1>2. PICK g : /\ g[0] = [executable |-> TRUE, state |-> p.known, cost |-> 0]
                 /\ \A j \in 1 .. n : g[j] = step(g[j - 1], plan[j])
                 /\ Replayed(p.known, p.unknown, p.operators, plan) = g[n]
    BY <1>1, ReplayedInOrder DEF n
  <1>3. PICK h : /\ h[0] = [executable |-> TRUE, state |-> p.known, cost |-> 0]
                 /\ \A j \in 1 .. n + 1 : h[j] = step(h[j - 1], longer[j])
                 /\ Replayed(p.known, p.unknown, p.operators, longer) = h[n + 1]
    <2>1. Len(longer) = n + 1
      BY <1>1
    <2>2. \E h : /\ h[0] = [executable |-> TRUE, state |-> p.known, cost |-> 0]
                 /\ \A j \in 1 .. Len(longer) :
                       h[j] = Carried(p.unknown, p.operators, h[j - 1], longer[j])
                 /\ Replayed(p.known, p.unknown, p.operators, longer) = h[Len(longer)]
      <3>1. longer \in Seq(S)
        BY <1>1
      <3> QED BY <3>1, ReplayedInOrder
    <2> QED BY <2>1, <2>2
  <1> HIDE DEF step
  <1>4. h[n] = g[n]
    <2> DEFINE Q == {j \in Nat : j <= n => h[j] = g[j]}
    <2>1. 0 \in Q
      BY <1>2, <1>3
    <2>2. ASSUME NEW j \in Nat, j \in Q PROVE j + 1 \in Q
      <3> SUFFICES ASSUME j + 1 <= n PROVE h[j + 1] = g[j + 1]
        OBVIOUS
      <3>1. j + 1 \in 1 .. n /\ j + 1 \in 1 .. n + 1 /\ (j + 1) - 1 = j /\ h[j] = g[j]
        BY <1>1, <2>2
      <3> QED BY <1>1, <1>2, <1>3, <3>1
    <2>3. Nat \subseteq Q
      <3> HIDE DEF Q
      <3> QED BY <2>1, <2>2, UpTo
    <2> QED BY <1>1, <2>3
  <1>5. h[n + 1] = step(h[n], k)
    <2>1. n + 1 \in 1 .. n + 1 /\ (n + 1) - 1 = n
      BY <1>1
    <2> QED BY <1>1, <1>3, <2>1
  <1>6. g[n] = [executable |-> TRUE, state |-> r.state, cost |-> r.cost]
    BY <1>2 DEF Replays
  <1>7. step(g[n], k) = [executable |-> TRUE, state |-> Onward(p, r, k).state,
                         cost |-> Onward(p, r, k).cost]
    <2> DEFINE run == [executable |-> TRUE, state |-> r.state, cost |-> r.cost]
    <2>1. run.executable /\ run.state = r.state /\ run.cost = r.cost
      OBVIOUS
    <2>2. Carried(p.unknown, p.operators, run, k)
            = [executable |-> TRUE, state |-> Onward(p, r, k).state,
               cost |-> Onward(p, r, k).cost]
      <3> HIDE DEF run
      <3> QED BY <2>1 DEF Carried, Onward
    <2> HIDE DEF run
    <2> QED BY <1>6, <2>2 DEF step, run
  <1> QED BY <1>1, <1>3, <1>4, <1>5, <1>7 DEF Replays, longer, S

(* What a search may rely on.                                                *)
Given(p) ==
    /\ Graph(p)
    /\ p.weight \in Nat /\ p.budget \in Nat
    /\ \A k \in DOMAIN p.operators :
          /\ IsFiniteSet(p.operators[k].add)
          /\ p.weight * Cardinality(p.operators[k].add) <= p.operators[k].cost
    /\ p.goals \in Seq(ToSet(p.goals))
    /\ Longest \in Nat /\ Explored(p)

(* Longest operators lead everywhere, at least cost.                         *)
LEMMA LongestIsEnough ==
    ASSUME NEW p, Given(p)
    PROVE  /\ \A r \in Space(p) : \E s \in Reached(p, Longest) : s.state = r.state /\ s.cost <= r.cost
           /\ Reached(p, Longest) \subseteq Space(p)
           /\ Found(p) = {r.state : r \in Reached(p, Longest)}
           /\ IsFiniteSet(Found(p)) /\ IsFiniteSet(Reached(p, Longest))
  <1> DEFINE R == Reached(p, Longest)
             Q == {r \in Space(p) : \E s \in R : s.state = r.state /\ s.cost <= r.cost}
  <1>1. Longest \in Nat /\ Graph(p)
    BY DEF Given
  <1>2. R \subseteq Space(p)
    BY <1>1 DEF Space
  <1>3. Origin(p) \in R
    <2> DEFINE N == {n \in Nat : Origin(p) \in Reached(p, n)}
    <2>1. 0 \in N
      BY ReachedStep
    <2>2. \A n \in Nat : n \in N => n + 1 \in N
      BY ReachedStep DEF Extended
    <2>3. Nat \subseteq N
      <3> HIDE DEF N
      <3> QED BY <2>1, <2>2, UpTo
    <2> QED BY <1>1, <2>3
  <1>4. Origin(p) \in Q
    <2>1. Origin(p).cost <= Origin(p).cost
      BY DEF Origin
    <2> HIDE DEF R
    <2> QED BY <1>2, <1>3, <2>1
  <1>5. ASSUME NEW r \in Space(p), r \in Q, NEW k \in Moves(p, r.state)
        PROVE  Onward(p, r, k) \in Q
    <2>1. PICK s \in R : s.state = r.state /\ s.cost <= r.cost
      BY <1>5
    <2>2. Onward(p, s, k) \in Reached(p, Longest + 1)
      <3>1. Onward(p, s, k) \in Extended(p, Reached(p, Longest))
        BY <2>1 DEF Extended, Moves
      <3> QED BY <1>1, <3>1, ReachedStep
    <2>3. PICK u \in R : u.state = Onward(p, s, k).state /\ u.cost <= Onward(p, s, k).cost
      BY <2>2 DEF Given, Explored
    <2>4. p.operators[k].cost \in Nat /\ s.cost \in Nat /\ r.cost \in Nat /\ u.cost \in Nat
      <3>1. k \in DOMAIN p.operators
        BY DEF Moves, successors
      <3>2. s \in Space(p) /\ u \in Space(p)
        BY <1>2, <2>1, <2>3
      <3> QED BY <1>1, <3>1, <3>2, SpaceTypes DEF Graph
    <2> HIDE DEF R
    <2>5. u.state = Onward(p, r, k).state /\ u.cost <= Onward(p, r, k).cost
      BY <2>1, <2>3, <2>4 DEF Onward
    <2> QED BY <2>3, <2>5, SpaceSteps
  <1>6. Space(p) \subseteq Q
    <2> HIDE DEF Q
    <2> QED BY <1>4, <1>5, SpaceInduction
  <1>7. \A r \in Space(p) : \E s \in R : s.state = r.state /\ s.cost <= r.cost
    BY <1>6
  <1>8. Found(p) = {r.state : r \in R}
    <2> HIDE DEF R
    <2> QED BY <1>2, <1>7 DEF Found
  <1>9. IsFiniteSet(R)
    BY <1>1, ReachedFinite
  <1>10. IsFiniteSet(Found(p))
    <2> DEFINE at == [r \in R |-> r.state]
    <2>1. at \in Surjection(R, Found(p))
      <3> HIDE DEF R
      <3> QED BY <1>8 DEF Surjection
    <2> HIDE DEF R, at
    <2> QED BY <1>9, <2>1, FS_Surjection
  <1> QED BY <1>2, <1>7, <1>8, <1>9, <1>10

(* A set of natural numbers has a least one.                                 *)
LEMMA LeastNat ==
    ASSUME NEW S \in SUBSET Nat, S # {}
    PROVE  \E n \in S : \A m \in S : n <= m
  <1>1. PICK n \in S : \A m \in S : ~ (<<m, n>> \in OpToRel(<, Nat))
    BY NatLessThanWellFounded, WFMin
  <1>2. \A m \in S : ~ (m < n)
    BY <1>1 DEF OpToRel
  <1> QED BY <1>2

(* The estimate is a natural number ...                                      *)
LEMMA EstimateIsNat ==
    ASSUME Given(problem), NEW s
    PROVE  estimate(s) \in Nat /\ (Met(s) => estimate(s) = 0)
  <1> DEFINE unmet == ToSet(problem.goals) \ s
  <1>1. IsFiniteSet(unmet)
    <2>1. IsFiniteSet(ToSet(problem.goals))
      <3> DEFINE g == problem.goals
      <3>1. g \in Seq(ToSet(g)) /\ DOMAIN g = 1 .. Len(g) /\ Len(g) \in Nat
        BY DEF Given
      <3>2. IsFiniteSet(DOMAIN g)
        <4>1. 1 \in Int /\ Len(g) \in Int
          BY <3>1
        <4> QED BY <3>1, <4>1, FS_Interval
      <3>3. g \in Surjection(DOMAIN g, ToSet(g))
        <4>1. g \in [DOMAIN g -> ToSet(g)]
          BY <3>1
        <4> QED BY <4>1 DEF Surjection, ToSet
      <3> HIDE DEF g
      <3>4. IsFiniteSet(ToSet(g))
        BY <3>2, <3>3, FS_Surjection
      <3> QED BY <3>4 DEF g
    <2> QED BY <2>1, FS_Subset
  <1>2. Cardinality(unmet) \in Nat /\ (Met(s) => Cardinality(unmet) = 0)
    <2>1. Met(s) => unmet = {}
      BY DEF Met
    <2> HIDE DEF unmet
    <2> QED BY <1>1, <2>1, FS_CardinalityType, FS_EmptySet
  <1>3. \A c \in Nat : problem.weight * c \in Nat /\ problem.weight * 0 = 0
    BY DEF Given
  <1> QED BY <1>2, <1>3 DEF estimate

(* ... that an operator lowers by no more than it costs: it meets no more    *)
(* goals than it adds predicates.                                            *)
LEMMA EstimateIsConsistent ==
    ASSUME Given(problem), NEW s, NEW k \in DOMAIN problem.operators
    PROVE  estimate(s) <= problem.operators[k].cost
                            + estimate(Applied(problem.operators[k], s))
  <1> DEFINE o == problem.operators[k]
             t == Applied(o, s)
             G == ToSet(problem.goals)
             w == problem.weight
  <1>1. o.cost \in Nat /\ w \in Nat /\ IsFiniteSet(o.add) /\ w * Cardinality(o.add) <= o.cost
    BY DEF Given, Graph
  <1>2. CASE search = "uniform_cost"
    <2>1. estimate(s) = 0 /\ estimate(t) = 0
      BY <1>2 DEF estimate
    <2> HIDE DEF t
    <2> QED BY <1>1, <2>1 DEF t
  <1>3. CASE search # "uniform_cost"
    <2>1. IsFiniteSet(G)
      <3> DEFINE g == problem.goals
      <3>1. g \in Seq(ToSet(g)) /\ DOMAIN g = 1 .. Len(g) /\ Len(g) \in Nat
        BY DEF Given
      <3>2. IsFiniteSet(DOMAIN g)
        <4>1. 1 \in Int /\ Len(g) \in Int
          BY <3>1
        <4> QED BY <3>1, <4>1, FS_Interval
      <3>3. g \in Surjection(DOMAIN g, ToSet(g))
        <4>1. g \in [DOMAIN g -> ToSet(g)]
          BY <3>1
        <4> QED BY <4>1 DEF Surjection, ToSet
      <3> HIDE DEF g
      <3>4. IsFiniteSet(ToSet(g))
        BY <3>2, <3>3, FS_Surjection
      <3> QED BY <3>4 DEF g
    <2>2. IsFiniteSet(G \ s) /\ IsFiniteSet(G \ t)
      <3> HIDE DEF G, t
      <3> QED BY <2>1, FS_Subset
    <2>3. G \ s \subseteq o.add \cup (G \ t)
      BY DEF Applied
    <2>4. Cardinality(G \ s) <= Cardinality(o.add) + Cardinality(G \ t)
      <3> HIDE DEF G, t, o
      <3>1. IsFiniteSet(o.add \cup (G \ t))
            /\ Cardinality(o.add \cup (G \ t)) = Cardinality(o.add) + Cardinality(G \ t)
                                                   - Cardinality(o.add \cap (G \ t))
        BY <1>1, <2>2, FS_Union
      <3>2. Cardinality(G \ s) <= Cardinality(o.add \cup (G \ t))
        BY <2>3, <3>1, FS_Subset
      <3>3. IsFiniteSet(o.add \cap (G \ t))
        BY <1>1, FS_Subset
      <3>4. Cardinality(o.add) \in Nat /\ Cardinality(G \ t) \in Nat
            /\ Cardinality(G \ s) \in Nat /\ Cardinality(o.add \cap (G \ t)) \in Nat
            /\ Cardinality(o.add \cup (G \ t)) \in Nat
        BY <1>1, <2>2, <3>1, <3>3, FS_CardinalityType
      <3> QED BY <3>1, <3>2, <3>4
    <2>5. estimate(s) = w * Cardinality(G \ s) /\ estimate(t) = w * Cardinality(G \ t)
      BY <1>3 DEF estimate
    <2>6. \A a, b, c \in Nat : c <= a + b => w * c <= w * a + w * b
      <3> SUFFICES ASSUME NEW a \in Nat, NEW b \in Nat, NEW c \in Nat, c <= a + b
                   PROVE  w * c <= w * a + w * b
        OBVIOUS
      <3> HIDE DEF w
      <3>1. w * c <= w * (a + b)
        BY <1>1
      <3>2. w * (a + b) = w * a + w * b
        BY <1>1
      <3> QED BY <3>1, <3>2
    <2>7. Cardinality(o.add) \in Nat /\ Cardinality(G \ t) \in Nat /\ Cardinality(G \ s) \in Nat
      <3> HIDE DEF G, t, o
      <3> QED BY <1>1, <2>2, FS_CardinalityType
    <2> DEFINE a == Cardinality(o.add)
               b == Cardinality(G \ t)
               c == Cardinality(G \ s)
    <2>8. w * c <= w * a + w * b /\ w * a <= o.cost
      <3> HIDE DEF w, G, t, o
      <3> QED BY <1>1, <2>4, <2>6, <2>7
    <2>9. w * a \in Nat /\ w * b \in Nat /\ w * c \in Nat
      <3> HIDE DEF w, a, b, c
      <3> QED BY <1>1, <2>7 DEF a, b, c
    <2>10. w * c <= o.cost + w * b
      <3> HIDE DEF a, b, c, o
      <3> QED BY <1>1, <2>8, <2>9
    <2> HIDE DEF o, t, G, w
    <2> QED BY <2>5, <2>10 DEF t, o
  <1> QED BY <1>2, <1>3

Estimates == [s \in Found(problem) |-> estimate(s)]

(* So the estimates of the states that can be found are consistent.          *)
LEMMA EstimatesConsistent ==
    ASSUME Given(problem)
    PROVE  Consistent(problem, Estimates)
  <1>1. \A s \in Found(problem) : Estimates[s] = estimate(s)
    BY DEF Estimates
  <1>2. ASSUME NEW r \in Space(problem), NEW k \in Moves(problem, r.state)
        PROVE  Estimates[r.state]
                  <= problem.operators[k].cost + Estimates[Onward(problem, r, k).state]
    <2>1. k \in DOMAIN problem.operators
      BY DEF Moves, successors
    <2>2. r.state \in Found(problem) /\ Onward(problem, r, k).state \in Found(problem)
      BY SpaceSteps DEF Found
    <2>3. Onward(problem, r, k).state = Applied(problem.operators[k], r.state)
      BY DEF Onward
    <2> QED BY <1>1, <2>1, <2>2, <2>3, EstimateIsConsistent
  <1> QED BY <1>1, <1>2, EstimateIsNat DEF Consistent

(* What the heap holds: entries that rank as the search ranks them, with the *)
(* plan that leads to their state, and each with a tie-breaker of its own.   *)
Heaped(F, last) ==
    /\ last \in Nat
    /\ \A e \in F : /\ e.tie \in Nat /\ e.tie <= last
                    /\ e.rank = e.cost + estimate(e.state)
                    /\ Replays(problem, e.plan, e)
                    /\ \A d \in F : d.tie = e.tie => d = e

BestFirstInv ==
    search # "gps" /\ Running =>
        /\ Searched(problem, frontier, best)
        /\ Heaped(frontier, tie)
        /\ \A s \in Closed(frontier, best) : ~Met(s)
        /\ expansions = Cardinality(Closed(frontier, best))

(* What a search that ended has shown.                                       *)
OutcomeInv ==
    /\ outcome.status \in {"searching", "found", "none", "exhausted"}
    /\ outcome.status = "found" =>
          \E r : /\ Replays(problem, outcome.plan, r) /\ Met(r.state)
                 /\ search # "gps" =>
                       /\ [state |-> r.state, cost |-> r.cost] \in Space(problem)
                       /\ \A x \in Space(problem) :
                             x.state = r.state \/ Met(x.state) => r.cost <= x.cost
    /\ search # "gps" =>
          /\ outcome.status = "none" => \A x \in Space(problem) : ~Met(x.state)
          /\ outcome.status = "exhausted" => problem.budget < Cardinality(Found(problem))

(* What the calls of means-ends analysis hold: a plan that leads to its state. *)
MeansEndsInv ==
    search = "gps" /\ Running =>
        /\ stack # <<>> /\ stack \in Seq(ToSet(stack))
        /\ \A i \in DOMAIN stack :
              /\ DOMAIN stack[i] = {"state", "remaining", "plan", "depth", "visited", "tried"}
              /\ \E c : Replays(problem, stack[i].plan, [state |-> stack[i].state, cost |-> c])

SearchInv == BestFirstInv /\ MeansEndsInv /\ OutcomeInv

(* The head of the heap is an entry that none outranks.                      *)
LEMMA PoppedFacts ==
    ASSUME Given(problem), Sound(problem, frontier, best), Heaped(frontier, tie), frontier # {}
    PROVE  /\ Popped \in frontier
           /\ \A d \in frontier : Popped.rank <= d.rank
  <1>1. \A e \in frontier : e.rank \in Nat /\ e.cost \in Nat /\ e.tie \in Nat
    <2> SUFFICES ASSUME NEW e \in frontier PROVE e.rank \in Nat /\ e.cost \in Nat /\ e.tie \in Nat
      OBVIOUS
    <2>1. e.cost \in Nat /\ e.tie \in Nat /\ e.rank = e.cost + estimate(e.state)
      BY FoundTypes DEF Given, Heaped
    <2>2. estimate(e.state) \in Nat
      BY EstimateIsNat
    <2> QED BY <2>1, <2>2
  <1>2. PICK r \in {e.rank : e \in frontier} : \A m \in {e.rank : e \in frontier} : r <= m
    <2>1. {e.rank : e \in frontier} \in SUBSET Nat /\ {e.rank : e \in frontier} # {}
      BY <1>1
    <2> QED BY <2>1, LeastNat
  <1> DEFINE A == {e \in frontier : e.rank = r}
  <1>3. PICK c \in {e.cost : e \in A} : \A m \in {e.cost : e \in A} : c <= m
    <2>1. {e.cost : e \in A} \in SUBSET Nat /\ {e.cost : e \in A} # {}
      BY <1>1, <1>2
    <2> HIDE DEF A
    <2> QED BY <2>1, LeastNat
  <1> DEFINE B == {e \in A : e.cost = c}
  <1>4. PICK t \in {e.tie : e \in B} : \A m \in {e.tie : e \in B} : t <= m
    <2>1. {e.tie : e \in B} \in SUBSET Nat /\ {e.tie : e \in B} # {}
      BY <1>1, <1>3
    <2> HIDE DEF B
    <2> QED BY <2>1, LeastNat
  <1>5. PICK h \in B : h.tie = t
    BY <1>4
  <1>6. \A d \in frontier \ {h} : Before(h, d)
    <2> SUFFICES ASSUME NEW d \in frontier, d # h PROVE Before(h, d)
      OBVIOUS
    <2>1. h \in frontier /\ h.rank = r /\ h.cost = c /\ h.tie = t
      BY <1>5
    <2>2. r <= d.rank
      BY <1>2
    <2>3. d.rank = r => c <= d.cost
      BY <1>3
    <2>4. d.rank = r /\ d.cost = c => t <= d.tie
      BY <1>4
    <2>5. d.tie # h.tie
      BY <2>1 DEF Heaped
    <2> QED BY <1>1, <2>1, <2>2, <2>3, <2>4, <2>5 DEF Before
  <1>7. Popped \in frontier /\ \A d \in frontier \ {Popped} : Before(Popped, d)
    <2>1. h \in frontier
      BY <1>5
    <2> QED BY <1>6, <2>1 DEF Popped
  <1>8. \A d \in frontier : Popped.rank <= d.rank
    <2> SUFFICES ASSUME NEW d \in frontier PROVE Popped.rank <= d.rank
      OBVIOUS
    <2>1. CASE d = Popped
      BY <1>1, <1>7, <2>1
    <2>2. CASE d # Popped
      BY <1>1, <1>7, <2>2 DEF Before
    <2> QED BY <2>1, <2>2
  <1> QED BY <1>7, <1>8

(* No entry has a lower sum of cost and estimate than the head.              *)
LEMMA HeadRanks ==
    ASSUME Given(problem), Sound(problem, frontier, best), Heaped(frontier, tie), frontier # {}
    PROVE  \A d \in frontier :
              Popped.cost + Estimates[Popped.state] <= d.cost + Estimates[d.state]
  <1>1. \A d \in frontier : d.state \in Found(problem)
    BY FoundTypes DEF Given
  <1>2. \A d \in frontier : d.rank = d.cost + Estimates[d.state]
    BY <1>1 DEF Heaped, Estimates
  <1> QED BY <1>2, PoppedFacts

(* An expansion within the budget.                                           *)
LEMMA ExpandedFacts ==
    ASSUME Given(problem), Searched(problem, frontier, best), Heaped(frontier, tie),
           frontier # {}, Popped.cost <= best[Popped.state]
    PROVE  /\ Searched(problem, Expanded(Popped).frontier, Expanded(Popped).best)
           /\ Heaped(Expanded(Popped).frontier, Expanded(Popped).tie)
           /\ Closed(Expanded(Popped).frontier, Expanded(Popped).best)
                = Closed(frontier, best) \cup {Popped.state}
  <1> DEFINE p == problem
             e == Popped
             C == Closed(frontier, best)
             n == Len(operators)
             Good(x, j) == /\ Midway(p, C, e, j, x.frontier, x.best)
                           /\ Heaped(x.frontier, x.tie)
  <1>1. operators = p.operators /\ operators \in Seq(ToSet(operators)) /\ n \in Nat /\ Graph(p)
    BY DEF operators, Given, Graph
  <1>2. PICK g : /\ g[0] = [best |-> best, tie |-> tie, frontier |-> frontier \ {Popped}]
                 /\ \A j \in 1 .. Len(operators) :
                       g[j] = IF j \in successors(Popped.state, problem.unknown, operators)
                              THEN Discovered(g[j - 1], j, Popped) ELSE g[j - 1]
                 /\ Expanded(Popped) = g[Len(operators)]
    BY <1>1, ExpandedInOrder
  <1>3. e \in frontier /\ Replays(p, e.plan, e)
    BY PoppedFacts DEF Searched, Heaped
  <1>4. Good(g[0], 0)
    <2>1. Midway(p, C, e, 0, frontier \ {e}, best)
      <3>1. Consistent(p, Estimates)
        BY EstimatesConsistent
      <3>2. \A d \in frontier : e.cost + Estimates[e.state] <= d.cost + Estimates[d.state]
        BY HeadRanks DEF Searched
      <3> HIDE DEF e, p
      <3>3. e.cost <= best[e.state] /\ Searched(p, frontier, best)
        BY DEF e, p
      <3> QED BY <1>1, <1>3, <3>1, <3>2, <3>3, ExpansionStarts
    <2>2. Heaped(frontier \ {e}, tie)
      BY DEF Heaped
    <2>3. g[0].best = best /\ g[0].tie = tie /\ g[0].frontier = frontier \ {e}
      BY <1>2
    <2> HIDE DEF e, p, C
    <2> QED BY <2>1, <2>2, <2>3
  <1>5. ASSUME NEW j \in Nat, j + 1 <= n, Good(g[j], j)
        PROVE  Good(g[j + 1], j + 1)
    <2> DEFINE k == j + 1
               found == g[j]
               t == Onward(p, e, k)
    <2>1. k \in 1 .. n /\ k - 1 = j
      BY <1>1, <1>5
    <2>2. g[k] = IF k \in Moves(p, e.state) THEN Discovered(found, k, e) ELSE found
      <3>1. Moves(p, e.state) = successors(e.state, problem.unknown, operators)
        BY <1>1 DEF Moves
      <3> HIDE DEF e, p, k
      <3> QED BY <1>2, <2>1, <3>1 DEF e
    <2>3. CASE k \notin Moves(p, e.state)
      <3>1. Midway(p, C, e, k, found.frontier, found.best)
        <4>1. Midway(p, C, e, j, found.frontier, found.best)
          BY <1>5
        <4> HIDE DEF e, p, C
        <4> QED BY <1>1, <2>3, <4>1, ExpansionPasses
      <3>2. Heaped(found.frontier, found.tie)
        BY <1>5
      <3>3. g[k] = found
        BY <2>2, <2>3
      <3> HIDE DEF found, k
      <3> QED BY <3>1, <3>2, <3>3 DEF k
    <2>4. CASE k \in Moves(p, e.state)
      <3>1. t.state = Applied(operators[k], e.state) /\ t.cost = e.cost + operators[k].cost
        BY <1>1 DEF Onward
      <3>2. CASE t.state \in DOMAIN found.best /\ found.best[t.state] <= t.cost
        <4>1. g[k] = found
          BY <2>2, <2>4, <3>1, <3>2 DEF Discovered
        <4>2. Midway(p, C, e, k, found.frontier, found.best)
          <5>1. Midway(p, C, e, j, found.frontier, found.best)
            BY <1>5
          <5> HIDE DEF e, p, C
          <5> QED BY <1>1, <3>2, <5>1, ExpansionPasses
        <4>3. Heaped(found.frontier, found.tie)
          BY <1>5
        <4> HIDE DEF found, k
        <4> QED BY <4>1, <4>2, <4>3 DEF k
      <3>3. CASE ~ (t.state \in DOMAIN found.best /\ found.best[t.state] <= t.cost)
        <4> DEFINE x == Entry(t.cost, found.tie + 1, t.state, Append(e.plan, k))
                   G == found.frontier \cup {x}
                   D == Priced(found.best, t.state, t.cost)
        <4>1. g[k] = [best |-> D, tie |-> found.tie + 1, frontier |-> G]
          BY <2>2, <2>4, <3>1, <3>3 DEF Discovered
        <4>2. x.state = t.state /\ x.cost = t.cost /\ x.tie = found.tie + 1
              /\ x.plan = Append(e.plan, k) /\ x.rank = t.cost + estimate(t.state)
          BY DEF Entry
        <4>3. Midway(p, C, e, k, G, D)
          <5>1. Midway(p, C, e, j, found.frontier, found.best)
            BY <1>5
          <5> HIDE DEF e, p, C, found, x
          <5> QED BY <1>1, <2>4, <3>3, <4>2, <5>1, ExpansionPushes
        <4>4. Replays(p, x.plan, x)
          <5>1. k \in DOMAIN p.operators /\ Applicable(p.operators[k], e.state, p.unknown)
            BY <2>4 DEF Moves, successors
          <5>2. Replays(p, Append(e.plan, k), t)
            <6> HIDE DEF e, p, k
            <6> QED BY <1>3, <5>1, ReplayExtends
          <5> HIDE DEF x, t
          <5> QED BY <4>2, <5>2 DEF Replays
        <4>5. Heaped(G, found.tie + 1)
          <5>1. Heaped(found.frontier, found.tie)
            BY <1>5
          <5> HIDE DEF found, x, t, k, p, e
          <5>2. found.tie \in Nat
            BY <5>1 DEF Heaped
          <5>3. \A d \in found.frontier : d.tie \in Nat /\ d.tie <= found.tie
            BY <5>1 DEF Heaped
          <5>4. \A d \in found.frontier : d.tie < x.tie
            BY <4>2, <5>2, <5>3
          <5>5. \A d \in G : /\ d.rank = d.cost + estimate(d.state)
                             /\ Replays(problem, d.plan, d)
            BY <4>2, <4>4, <5>1 DEF Heaped, p
          <5>6. \A d, f \in G : d.tie = f.tie => d = f
            BY <5>1, <5>2, <5>3, <5>4 DEF Heaped
          <5>7. \A d \in G : d.tie \in Nat /\ d.tie <= found.tie + 1
            BY <4>2, <5>2, <5>3
          <5> HIDE DEF G
          <5> QED BY <5>2, <5>5, <5>6, <5>7 DEF Heaped
        <4>6. g[k].best = D /\ g[k].tie = found.tie + 1 /\ g[k].frontier = G
          <5> HIDE DEF D, G, found
          <5> QED BY <4>1
        <4> HIDE DEF D, G, found, k, p, C, e
        <4> QED BY <4>3, <4>5, <4>6 DEF k
      <3> QED BY <3>2, <3>3
    <2> QED BY <2>3, <2>4
  <1>6. Good(g[n], n)
    <2> DEFINE Q == {j \in Nat : j <= n => Good(g[j], j)}
    <2>1. 0 \in Q
      <3> HIDE DEF Good
      <3> QED BY <1>4
    <2>2. ASSUME NEW j \in Nat, j \in Q PROVE j + 1 \in Q
      <3> HIDE DEF Good, n
      <3>1. j + 1 \in Nat /\ (j + 1 <= n => j <= n)
        BY <1>1
      <3> QED BY <1>5, <2>2, <3>1
    <2>3. Nat \subseteq Q
      <3> HIDE DEF Q
      <3> QED BY <2>1, <2>2, UpTo
    <2>4. n <= n
      <3> HIDE DEF n
      <3> QED BY <1>1
    <2> HIDE DEF Good
    <2> QED BY <1>1, <2>3, <2>4
  <1>7. /\ Searched(p, g[n].frontier, g[n].best) /\ Heaped(g[n].frontier, g[n].tie)
        /\ Closed(g[n].frontier, g[n].best) = C \cup {e.state}
    <2>1. Midway(p, C, e, Len(p.operators), g[n].frontier, g[n].best)
      BY <1>1, <1>6
    <2> HIDE DEF C, e, p, n
    <2> QED BY <1>1, <1>6, <2>1, ExpansionEnds
  <1>8. Expanded(Popped) = g[n]
    BY <1>2
  <1> HIDE DEF n
  <1> QED BY <1>7, <1>8

(* The steps of uniform_cost and astar.                                      *)
LEMMA ReturnPlanKeeps ==
    ASSUME Given(problem), SearchInv, ReturnPlan
    PROVE  SearchInv'
  <1> DEFINE e == Popped
             p == problem
  <1>1. search # "gps" /\ Running /\ frontier # {} /\ Met(e.state)
        /\ outcome' = [status |-> "found", plan |-> e.plan]
        /\ UNCHANGED <<problem, search>>
    BY DEF ReturnPlan, BestFirst
  <1>2. Searched(p, frontier, best) /\ Heaped(frontier, tie)
        /\ \A s \in Closed(frontier, best) : ~Met(s)
    BY <1>1 DEF SearchInv, BestFirstInv
  <1>3. e \in frontier /\ Replays(p, e.plan, e) /\ Graph(p) /\ Sound(p, frontier, best)
    BY <1>1, <1>2, PoppedFacts DEF Searched, Heaped, Given
  <1>4. [state |-> e.state, cost |-> e.cost] \in Space(p)
    <2> HIDE DEF e
    <2> QED BY <1>3 DEF Sound
  <1>5. ASSUME NEW x \in Space(p), x.state = e.state \/ Met(x.state)
        PROVE  e.cost <= x.cost
    <2>1. Met(x.state)
      BY <1>1, <1>5
    <2>2. x.state \notin Closed(frontier, best)
      BY <1>2, <2>1
    <2>3. PICK d \in frontier : d.cost + Estimates[d.state] <= x.cost + Estimates[x.state]
      BY <1>2, <1>3, <2>2, EstimatesConsistent, FrontierSeparates
    <2>4. e.cost + Estimates[e.state] <= d.cost + Estimates[d.state]
      BY <1>1, <1>2, <1>3, HeadRanks
    <2>5. Estimates[x.state] = 0 /\ Estimates[e.state] = 0
      <3>1. x.state \in Found(p) /\ e.state \in Found(p)
        BY <1>3, FoundTypes DEF Found
      <3> HIDE DEF e
      <3> QED BY <1>1, <2>1, <3>1, EstimateIsNat DEF Estimates
    <2>6. e.cost \in Nat /\ d.cost \in Nat /\ x.cost \in Nat /\ Estimates[d.state] \in Nat
      <3>1. d.state \in Found(p)
        BY <1>3, FoundTypes
      <3>2. Estimates[d.state] \in Nat
        BY <3>1, EstimateIsNat DEF Estimates
      <3> HIDE DEF e
      <3> QED BY <1>3, <3>2, FoundTypes, SpaceTypes
    <2> HIDE DEF e
    <2> QED BY <2>3, <2>4, <2>5, <2>6
  <1>6. OutcomeInv'
    <2>1. outcome'.status = "found" /\ outcome'.plan = e.plan
      BY <1>1
    <2>2. Replays(p, e.plan, e) /\ Met(e.state)
      BY <1>1, <1>3
    <2>3. \A s : Met(s)' = Met(s)
      BY <1>1 DEF Met
    <2> HIDE DEF e
    <2> QED BY <1>1, <1>4, <1>5, <2>1, <2>2, <2>3 DEF OutcomeInv
  <1>7. ~Running'
    BY <1>1 DEF Running
  <1> QED BY <1>6, <1>7 DEF SearchInv, BestFirstInv, MeansEndsInv

(* A stale entry is dropped.                                                 *)
LEMMA SkipStaleKeeps ==
    ASSUME Given(problem), SearchInv, SkipStale
    PROVE  SearchInv'
  <1> DEFINE e == Popped
             p == problem
             F == frontier \ {e}
  <1>1. search # "gps" /\ Running /\ frontier # {} /\ e.cost > best[e.state]
        /\ frontier' = F
        /\ UNCHANGED <<problem, search, best, tie, expansions, stack, outcome>>
    BY DEF SkipStale, BestFirst
  <1>2. Searched(p, frontier, best) /\ Heaped(frontier, tie)
        /\ (\A s \in Closed(frontier, best) : ~Met(s))
        /\ expansions = Cardinality(Closed(frontier, best))
    BY <1>1 DEF SearchInv, BestFirstInv
  <1>3. e \in frontier /\ Graph(p) /\ Sound(p, frontier, best)
    BY <1>1, <1>2, PoppedFacts DEF Searched, Given
  <1>4. Searched(p, F, best) /\ Closed(F, best) = Closed(frontier, best)
    <2>1. best[e.state] < e.cost
      <3>1. e.cost \in Nat /\ best[e.state] \in Nat
        BY <1>3, FoundTypes
      <3> HIDE DEF e
      <3> QED BY <1>1, <3>1
    <2> HIDE DEF e
    <2> QED BY <1>2, <1>3, <2>1, StaleGoes
  <1> HIDE DEF e
  <1>5. Heaped(frontier, tie)' /\ (\A s : Met(s)' = Met(s))
    <2>1. \A s : estimate(s)' = estimate(s) /\ Met(s)' = Met(s)
      BY <1>1 DEF estimate, Met
    <2>2. Heaped(F, tie)
      BY <1>2 DEF Heaped
    <2> HIDE DEF F
    <2>3. Heaped(frontier, tie)'
      BY <1>1, <2>1, <2>2 DEF Heaped
    <2> QED BY <2>1, <2>3
  <1>6. BestFirstInv'
    <2> HIDE DEF F
    <2>1. Searched(problem, frontier, best)'
      BY <1>1, <1>4
    <2>2. (\A s \in Closed(frontier, best) : ~Met(s))'
      BY <1>1, <1>2, <1>4, <1>5
    <2>3. (expansions = Cardinality(Closed(frontier, best)))'
      BY <1>1, <1>2, <1>4
    <2> QED BY <1>5, <2>1, <2>2, <2>3 DEF BestFirstInv
  <1>7. OutcomeInv' /\ MeansEndsInv'
    BY <1>1, <1>5 DEF SearchInv, OutcomeInv, MeansEndsInv, Running
  <1> QED BY <1>6, <1>7 DEF SearchInv

(* The head is closed at the least cost of its state, or the budget is       *)
(* short.                                                                    *)
LEMMA ExpandKeeps ==
    ASSUME Given(problem), SearchInv, Expand
    PROVE  SearchInv'
  <1> DEFINE e == Popped
             p == problem
             C == Closed(frontier, best)
  <1>1. search # "gps" /\ Running /\ frontier # {} /\ ~Met(e.state) /\ e.cost <= best[e.state]
        /\ expansions' = expansions + 1
        /\ UNCHANGED <<problem, search, stack>>
    BY DEF Expand, BestFirst
  <1>2. Searched(p, frontier, best) /\ Heaped(frontier, tie)
        /\ (\A s \in C : ~Met(s))
        /\ expansions = Cardinality(C)
    BY <1>1 DEF SearchInv, BestFirstInv
  <1>3. e \in frontier /\ Graph(p) /\ Sound(p, frontier, best)
    BY <1>1, <1>2, PoppedFacts DEF Searched, Given
  <1>4. e.state \notin C
    <2>1. \A d \in frontier : e.cost + Estimates[e.state] <= d.cost + Estimates[d.state]
      BY <1>1, <1>2, <1>3, HeadRanks
    <2>2. e.cost <= best[e.state]
      BY <1>1
    <2> HIDE DEF e
    <2> QED BY <1>2, <1>3, <2>1, <2>2, EstimatesConsistent, ExpansionStarts
  <1>5. IsFiniteSet(C) /\ C \cup {e.state} \subseteq Found(p) /\ IsFiniteSet(Found(p))
    <2>1. C \subseteq DOMAIN best /\ DOMAIN best \subseteq Found(p) /\ e.state \in DOMAIN best
      BY <1>3, FoundTypes DEF Closed
    <2>2. IsFiniteSet(Found(p))
      BY LongestIsEnough
    <2> HIDE DEF C, e
    <2> QED BY <2>1, <2>2, FS_Subset
  <1>6. Cardinality(C \cup {e.state}) = expansions + 1 /\ IsFiniteSet(C \cup {e.state})
        /\ expansions \in Nat
    <2> HIDE DEF C, e
    <2> QED BY <1>2, <1>4, <1>5, FS_AddElement, FS_CardinalityType
  <1>7. \A s : Met(s)' = Met(s) /\ estimate(s)' = estimate(s)
    BY <1>1 DEF Met, estimate
  <1>8. CASE expansions' > problem.budget
    <2>1. outcome' = [status |-> "exhausted", plan |-> <<>>]
      BY <1>8 DEF Expand
    <2>2. Cardinality(C \cup {e.state}) <= Cardinality(Found(p))
      <3> HIDE DEF C, e
      <3> QED BY <1>5, FS_Subset
    <2>3. problem.budget < Cardinality(Found(p))
      <3>1. Cardinality(Found(p)) \in Nat /\ problem.budget \in Nat
        BY <1>5, FS_CardinalityType DEF Given
      <3> HIDE DEF C, e
      <3> QED BY <1>1, <1>6, <1>8, <2>2, <3>1
    <2>4. OutcomeInv'
      BY <1>1, <2>1, <2>3 DEF OutcomeInv
    <2> QED BY <2>1, <2>4 DEF SearchInv, BestFirstInv, MeansEndsInv, Running
  <1>9. CASE ~ (expansions' > problem.budget)
    <2> DEFINE x == Expanded(Popped)
    <2>1. best' = x.best /\ tie' = x.tie /\ frontier' = x.frontier /\ outcome' = outcome
      BY <1>9 DEF Expand
    <2>2. Searched(p, x.frontier, x.best) /\ Heaped(x.frontier, x.tie)
          /\ Closed(x.frontier, x.best) = C \cup {e.state}
      BY <1>1, <1>2, ExpandedFacts
    <2> HIDE DEF x, C, e
    <2>4. Searched(problem, frontier, best)'
      BY <1>1, <2>1, <2>2
    <2>5. Heaped(frontier, tie)'
      BY <1>1, <1>7, <2>1, <2>2 DEF Heaped
    <2>6. (\A s \in Closed(frontier, best) : ~Met(s))'
      BY <1>1, <1>2, <1>7, <2>1, <2>2
    <2>7. (expansions = Cardinality(Closed(frontier, best)))'
      BY <1>1, <1>6, <2>1, <2>2
    <2>8. BestFirstInv'
      BY <2>4, <2>5, <2>6, <2>7 DEF BestFirstInv
    <2>9. OutcomeInv' /\ MeansEndsInv'
      BY <1>1, <1>7, <2>1 DEF SearchInv, OutcomeInv, MeansEndsInv, Running
    <2> QED BY <2>8, <2>9 DEF SearchInv
  <1> QED BY <1>8, <1>9

(* An empty heap shows that there is no plan.                                *)
LEMMA NothingLeftKeeps ==
    ASSUME Given(problem), SearchInv, NothingLeft
    PROVE  SearchInv'
  <1>1. search # "gps" /\ Running /\ frontier = {}
        /\ outcome' = [status |-> "none", plan |-> <<>>] /\ UNCHANGED <<problem, search>>
    BY DEF NothingLeft, BestFirst
  <1>2. Searched(problem, {}, best) /\ \A s \in Closed({}, best) : ~Met(s)
    BY <1>1 DEF SearchInv, BestFirstInv
  <1>3. \A x \in Space(problem) : ~Met(x.state)
    BY <1>2, NothingLeftIsAll DEF Found, Given
  <1>4. \A s : Met(s)' = Met(s)
    BY <1>1 DEF Met
  <1>5. OutcomeInv'
    BY <1>1, <1>3, <1>4 DEF OutcomeInv
  <1> QED BY <1>1, <1>5 DEF SearchInv, BestFirstInv, MeansEndsInv, Running

(* The steps of gps.  One call returns without a plan ...                    *)
LEMMA ReturnNoneKeeps ==
    ASSUME SearchInv, MeansEnds, ReturnNone
    PROVE  SearchInv'
  <1> DEFINE n == Len(stack)
  <1>1. search = "gps" /\ Running /\ UNCHANGED <<problem, search>>
        /\ stack # <<>> /\ stack \in Seq(ToSet(stack)) /\ stack' = Front(stack)
    BY DEF MeansEnds, ReturnNone, SearchInv, MeansEndsInv
  <1>2. n \in Nat /\ n # 0 /\ DOMAIN stack = 1 .. n
    BY <1>1
  <1>3. CASE n > 1
    <2>1. outcome' = outcome
      BY <1>3 DEF ReturnNone
    <2>2. Front(stack) = [i \in 1 .. n - 1 |-> stack[i]]
      BY <1>1, <1>2 DEF Front
    <2>3. n - 1 \in Nat /\ n - 1 # 0 /\ 1 .. n - 1 \subseteq 1 .. n
      BY <1>2, <1>3
    <2> HIDE DEF n
    <2>4. DOMAIN stack' = 1 .. n - 1 /\ \A i \in 1 .. n - 1 : stack'[i] = stack[i]
      BY <1>1, <2>2
    <2>5. stack' # <<>> /\ stack' \in Seq(ToSet(stack'))
      <3>1. ToSet(stack') = {stack'[i] : i \in 1 .. n - 1}
        BY <2>4 DEF ToSet
      <3>2. stack' \in [1 .. n - 1 -> ToSet(stack')]
        BY <1>1, <2>2, <3>1
      <3>3. stack' \in Seq(ToSet(stack'))
        BY <2>3, <3>2
      <3>4. 1 \in DOMAIN stack'
        <4>1. n - 1 >= 1
          BY <1>2, <2>3
        <4> QED BY <1>2, <2>4, <4>1
      <3> QED BY <3>3, <3>4
    <2>6. MeansEndsInv'
      <3>1. \A i \in DOMAIN stack' : i \in DOMAIN stack /\ stack'[i] = stack[i]
        BY <1>2, <2>3, <2>4 DEF n
      <3>2. \A i \in DOMAIN stack :
              /\ DOMAIN stack[i] = {"state", "remaining", "plan", "depth", "visited", "tried"}
              /\ \E c : Replays(problem, stack[i].plan, [state |-> stack[i].state, cost |-> c])
        BY <1>1 DEF SearchInv, MeansEndsInv
      <3> QED BY <1>1, <2>5, <3>1, <3>2 DEF MeansEndsInv
    <2>7. OutcomeInv'
      BY <1>1, <2>1 DEF SearchInv, OutcomeInv, Running
    <2> QED BY <1>1, <2>6, <2>7 DEF SearchInv, BestFirstInv
  <1>4. CASE ~ (n > 1)
    <2>1. outcome' = [status |-> IF OverBudget THEN "exhausted" ELSE "none", plan |-> <<>>]
      BY <1>4 DEF ReturnNone
    <2>2. outcome'.status \in {"none", "exhausted"}
      BY <2>1
    <2>3. OutcomeInv' /\ MeansEndsInv' /\ BestFirstInv'
      BY <1>1, <2>2 DEF OutcomeInv, MeansEndsInv, BestFirstInv, Running
    <2> QED BY <2>3 DEF SearchInv
  <1> QED BY <1>3, <1>4

(* ... or concludes with one ...                                             *)
LEMMA ConcludeKeeps ==
    ASSUME SearchInv, Conclude
    PROVE  SearchInv'
  <1>1. CASE Met(Current.state)
    <2>1. search = "gps" /\ Running /\ UNCHANGED <<problem, search>>
          /\ outcome' = [status |-> "found", plan |-> Current.plan]
      BY <1>1 DEF Conclude, Entering, MeansEnds
    <2>2. Len(stack) \in DOMAIN stack
      <3>1. stack # <<>> /\ stack \in Seq(ToSet(stack))
        BY <2>1 DEF SearchInv, MeansEndsInv
      <3> QED BY <3>1
    <2>3. PICK c : Replays(problem, Current.plan, [state |-> Current.state, cost |-> c])
      BY <2>1, <2>2 DEF SearchInv, MeansEndsInv, Current, Last
    <2> DEFINE r == [state |-> Current.state, cost |-> c]
    <2>4. Replays(problem, Current.plan, r) /\ Met(r.state) /\ \A s : Met(s)' = Met(s)
      BY <1>1, <2>1, <2>3 DEF Met
    <2> HIDE DEF r
    <2>5. outcome'.status = "found" /\ outcome'.plan = Current.plan
      BY <2>1
    <2>6. OutcomeInv'
      BY <2>1, <2>4, <2>5 DEF OutcomeInv
    <2> QED BY <2>1, <2>5, <2>6 DEF SearchInv, BestFirstInv, MeansEndsInv, Running
  <1>2. CASE ~ Met(Current.state)
    <2>1. MeansEnds /\ ReturnNone
      BY <1>2 DEF Conclude, Entering
    <2> QED BY <2>1, ReturnNoneKeeps
  <1> QED BY <1>1, <1>2

(* ... or tries an operator, and calls itself on what follows.               *)
LEMMA TryKeeps ==
    ASSUME Given(problem), SearchInv, Try
    PROVE  SearchInv'
  <1> DEFINE n == Len(stack)
             k == Min(Reducing)
             following == Applied(operators[k], Current.state)
             waiting == [stack EXCEPT ![n].tried = k]
             remaining == SelectSeq(Tail(Current.remaining), LAMBDA goal : goal \notin following)
             inner == Call(following, remaining, Append(Current.plan, k), Current.depth + 1,
                           Current.visited)
             fields == {"state", "remaining", "plan", "depth", "visited", "tried"}
             Framed(x) == /\ DOMAIN x = fields
                          /\ \E c : Replays(problem, x.plan, [state |-> x.state, cost |-> c])
  <1>1. search = "gps" /\ Running /\ UNCHANGED <<problem, search, outcome>> /\ Reducing # {}
    BY DEF Try, InLoop, MeansEnds
  <1>2. stack # <<>> /\ stack \in Seq(ToSet(stack)) /\ \A i \in DOMAIN stack : Framed(stack[i])
    BY <1>1 DEF SearchInv, MeansEndsInv
  <1>3. n \in Nat /\ n # 0 /\ DOMAIN stack = 1 .. n /\ n \in 1 .. n
    BY <1>2
  <1>4. k \in Reducing
    <2>1. Reducing \in SUBSET Nat
      BY DEF Reducing, Given, Graph, operators
    <2>2. \E x \in Reducing : \A y \in Reducing : x <= y
      BY <1>1, <2>1, LeastNat
    <2> QED BY <2>2 DEF Min
  <1>5. k \in DOMAIN problem.operators
    BY <1>4 DEF Reducing, operators
  <1> HIDE DEF k
  <1>6. DOMAIN waiting = 1 .. n /\ \A i \in 1 .. n : Framed(waiting[i])
    <2>1. DOMAIN waiting = 1 .. n
      BY <1>3
    <2>2. ASSUME NEW i \in 1 .. n
          PROVE  /\ DOMAIN waiting[i] = DOMAIN stack[i]
                 /\ waiting[i].plan = stack[i].plan /\ waiting[i].state = stack[i].state
      <3>1. DOMAIN stack[i] = fields
        BY <1>2, <1>3
      <3>2. CASE i = n
        BY <1>3, <3>1, <3>2
      <3>3. CASE i # n
        BY <1>3, <3>3
      <3> QED BY <3>2, <3>3
    <2> HIDE DEF waiting, n
    <2> QED BY <1>2, <1>3, <2>1, <2>2
  <1>7. waiting \in Seq(ToSet(waiting)) /\ waiting # <<>> /\ Len(waiting) = n
    <2>1. waiting = [i \in 1 .. n |-> waiting[i]]
      BY <1>3
    <2> HIDE DEF waiting, n
    <2>2. waiting \in [1 .. n -> ToSet(waiting)]
      BY <1>6, <2>1 DEF ToSet
    <2>3. waiting \in Seq(ToSet(waiting))
      BY <1>3, <2>2
    <2>4. 1 \in DOMAIN waiting
      BY <1>3, <1>6
    <2> QED BY <1>3, <1>6, <2>3, <2>4
  <1>8. CASE ~ (/\ Applicable(operators[k], Current.state, problem.unknown)
                /\ following \notin Current.visited)
    <2>1. stack' = waiting
      BY <1>8 DEF Try, k
    <2> HIDE DEF waiting, n, following
    <2>2. MeansEndsInv'
      BY <1>1, <1>6, <1>7, <2>1 DEF MeansEndsInv
    <2>3. OutcomeInv' /\ BestFirstInv'
      BY <1>1 DEF SearchInv, OutcomeInv, BestFirstInv, Running
    <2> QED BY <2>2, <2>3 DEF SearchInv
  <1>9. CASE /\ Applicable(operators[k], Current.state, problem.unknown)
             /\ following \notin Current.visited
    <2>1. stack' = Append(waiting, inner)
      BY <1>9 DEF Try, k
    <2>2. Framed(inner)
      <3>1. DOMAIN inner = fields /\ inner.plan = Append(Current.plan, k)
            /\ inner.state = following
        BY DEF Call
      <3>2. PICK c : Replays(problem, Current.plan, [state |-> Current.state, cost |-> c])
        BY <1>2, <1>3 DEF Current, Last
      <3> DEFINE r == [state |-> Current.state, cost |-> c]
      <3>3. Replays(problem, Append(Current.plan, k), Onward(problem, r, k))
        <4>1. Applicable(problem.operators[k], r.state, problem.unknown)
          BY <1>9 DEF operators
        <4>2. Replays(problem, Current.plan, r)
          BY <3>2
        <4> HIDE DEF r
        <4> QED BY <1>5, <4>1, <4>2, ReplayExtends
      <3>4. Onward(problem, r, k) = [state |-> following, cost |-> c + problem.operators[k].cost]
        BY DEF Onward, operators
      <3> HIDE DEF inner, following, r
      <3> QED BY <3>1, <3>3, <3>4
    <2> HIDE DEF waiting, inner, n, following
    <2>3. DOMAIN stack' = 1 .. n + 1 /\ stack'[n + 1] = inner
          /\ \A i \in 1 .. n : stack'[i] = waiting[i]
      BY <1>3, <1>7, <2>1
    <2>4. \A i \in DOMAIN stack' : Framed(stack'[i])
      <3> SUFFICES ASSUME NEW i \in 1 .. n + 1 PROVE Framed(stack'[i])
        BY <2>3
      <3>1. CASE i = n + 1
        <4> HIDE DEF Framed
        <4> QED BY <2>2, <2>3, <3>1
      <3>2. CASE i # n + 1
        <4>1. i \in 1 .. n
          BY <1>3, <3>2
        <4> HIDE DEF Framed
        <4> QED BY <1>6, <2>3, <4>1
      <3> QED BY <3>1, <3>2
    <2>5. stack' # <<>> /\ stack' \in Seq(ToSet(stack'))
      <3>1. stack' = [i \in 1 .. n + 1 |-> stack'[i]]
        <4> DEFINE S == ToSet(waiting) \cup {inner}
        <4>1. waiting \in Seq(S) /\ inner \in S
          BY <1>7
        <4> HIDE DEF S
        <4>2. stack' \in Seq(S)
          BY <2>1, <4>1
        <4> QED BY <2>3, <4>2
      <3>2. stack' \in [1 .. n + 1 -> ToSet(stack')]
        BY <2>3, <3>1 DEF ToSet
      <3>3. n + 1 \in Nat /\ 1 \in 1 .. n + 1
        BY <1>3
      <3> QED BY <2>3, <3>2, <3>3
    <2>6. MeansEndsInv'
      BY <1>1, <2>4, <2>5 DEF MeansEndsInv
    <2>7. OutcomeInv' /\ BestFirstInv'
      BY <1>1 DEF SearchInv, OutcomeInv, BestFirstInv, Running
    <2> QED BY <2>6, <2>7 DEF SearchInv
  <1> QED BY <1>8, <1>9

(* Every step of a search keeps its invariant.                               *)
LEMMA StepKeeps ==
    ASSUME Given(problem), SearchInv, Step
    PROVE  SearchInv'
  <1>1. CASE ReturnPlan
    BY <1>1, ReturnPlanKeeps
  <1>2. CASE SkipStale
    BY <1>2, SkipStaleKeeps
  <1>3. CASE Expand
    BY <1>3, ExpandKeeps
  <1>4. CASE NothingLeft
    BY <1>4, NothingLeftKeeps
  <1>5. CASE CutOff \/ TooDeep \/ NothingReduces
    <2>1. MeansEnds /\ ReturnNone
      BY <1>5 DEF CutOff, TooDeep, NothingReduces, Entering, InLoop
    <2> QED BY <2>1, ReturnNoneKeeps
  <1>6. CASE Conclude
    BY <1>6, ConcludeKeeps
  <1>7. CASE Try
    BY <1>7, TryKeeps
  <1> QED BY <1>1, <1>2, <1>3, <1>4, <1>5, <1>6, <1>7 DEF Step

(* The problems of one request have the same space.                          *)
LEMMA SameSpace ==
    ASSUME NEW p, NEW q, p.known = q.known, p.unknown = q.unknown, p.operators = q.operators
    PROVE  /\ \A n \in Nat : Reached(p, n) = Reached(q, n)
           /\ Space(p) = Space(q) /\ Found(p) = Found(q)
  <1> DEFINE N == {n \in Nat : Reached(p, n) = Reached(q, n)}
  <1>1. 0 \in N
    BY ReachedStep DEF Origin
  <1>2. ASSUME NEW n \in Nat, n \in N PROVE n + 1 \in N
    <2>1. Extended(p, Reached(p, n)) = Extended(q, Reached(q, n))
      BY <1>2 DEF Extended, Onward
    <2> QED BY <2>1, ReachedStep
  <1>3. Nat \subseteq N
    <2> HIDE DEF N
    <2> QED BY <1>1, <1>2, UpTo
  <1>4. \A n \in Nat : Reached(p, n) = Reached(q, n)
    BY <1>3
  <1>5. Space(p) = Space(q)
    BY <1>4 DEF Space
  <1> QED BY <1>4, <1>5 DEF Found

(* What a provider is asked is what a search may rely on.                    *)
LEMMA ProblemGiven ==
    ASSUME request \in Requests, provider \in Providers, NEW a \in DOMAIN Agents
    PROVE  /\ Given(ProblemOf(a))
           /\ Space(ProblemOf(a)) = Space(request) /\ Found(ProblemOf(a)) = Found(request)
           /\ \A n \in Nat : Reached(ProblemOf(a), n) = Reached(request, n)
  <1> DEFINE p == ProblemOf(a)
             q == request
  <1>1. Asks(q) /\ Explored(GraphOf(q)) /\ Longest \in Nat
    BY RequestsAssumption
  <1>2. p.known = q.known /\ p.unknown = q.unknown /\ p.operators = q.operators
        /\ p.weight = q.weight /\ p.goals = Agents[a] /\ p.budget = Budget
    BY DEF ProblemOf
  <1> HIDE DEF p, q
  <1>3. /\ Space(p) = Space(q) /\ Found(p) = Found(q)
        /\ \A n \in Nat : Reached(p, n) = Reached(q, n)
    BY <1>2, SameSpace
  <1>4. Graph(p)
    BY <1>1, <1>2 DEF Asks, Graph, ToSet
  <1>5. p.weight \in Nat
    BY <1>1, <1>2 DEF Asks
  <1>6. p.budget \in Nat
    <2>1. q.budget \in Nat /\ q.cap \in Nat
      BY <1>1 DEF Asks
    <2>2. \E x \in {q.budget, q.cap} : \A y \in {q.budget, q.cap} : x <= y
      BY <2>1
    <2>3. Min({q.budget, q.cap}) \in {q.budget, q.cap}
      BY <2>2 DEF Min
    <2> QED BY <1>2, <2>1, <2>3 DEF Budget, q
  <1>7. \A k \in DOMAIN p.operators :
          /\ IsFiniteSet(p.operators[k].add)
          /\ p.weight * Cardinality(p.operators[k].add) <= p.operators[k].cost
    BY <1>1, <1>2 DEF Asks, ToSet
  <1>8. p.goals \in Seq(ToSet(p.goals))
    <2>1. CASE Exact
      <3>1. Agents = <<q.goals>> /\ a = 1
        BY <2>1 DEF Agents, q
      <3>2. p.goals = q.goals
        BY <1>2, <3>1
      <3> QED BY <1>1, <3>2 DEF Asks
    <2>2. CASE ~Exact
      <3>1. Agents = q.agents
        BY <2>2 DEF Agents, q
      <3>2. q.agents \in Seq({goals \in Seq(ToSet(q.goals)) : goals # <<>>})
        BY <1>1 DEF Asks
      <3>3. Agents[a] \in Seq(ToSet(q.goals))
        BY <3>1, <3>2
      <3> DEFINE g == Agents[a]
      <3>4. g \in Seq(ToSet(g))
        <4> HIDE DEF g
        <4>1. g \in Seq(ToSet(q.goals))
          BY <3>3 DEF g
        <4>2. Len(g) \in Nat /\ g \in [1 .. Len(g) -> ToSet(q.goals)]
          BY <4>1
        <4>3. g \in [1 .. Len(g) -> ToSet(g)]
          BY <4>2 DEF ToSet
        <4> QED BY <4>2, <4>3
      <3> QED BY <1>2, <3>4
    <2> QED BY <2>1, <2>2
  <1>9. Explored(p)
    <2>1. Longest + 1 \in Nat
      BY <1>1
    <2> DEFINE g == GraphOf(q)
    <2>2. p.known = g.known /\ p.unknown = g.unknown /\ p.operators = g.operators
      BY <1>2 DEF GraphOf
    <2>3. Explored(g)
      BY <1>1
    <2> HIDE DEF g
    <2>4. \A n \in Nat : Reached(p, n) = Reached(g, n)
      BY <2>2, SameSpace
    <2> QED BY <1>1, <2>1, <2>3, <2>4 DEF Explored
  <1>10. Given(p)
    BY <1>1, <1>4, <1>5, <1>6, <1>7, <1>8, <1>9 DEF Given
  <1> QED BY <1>3, <1>10 DEF p, q

(* The enumeration keeps a table of the same kind; it has outgrown its limit *)
(* when it says so, unless it has not begun.                                 *)
TableInv ==
    /\ DOMAIN table = {"frontier", "costs", "exceeded"}
    /\ Searched(problem, table.frontier, table.costs)
    /\ \/ table = NewTable
       \/ table.exceeded = (Cardinality(DOMAIN table.costs) > request.limit)

(* enumerate_space takes a cheapest entry of its frontier.                   *)
LEMMA NearestFacts ==
    ASSUME Graph(problem), Sound(problem, table.frontier, table.costs), table.frontier # {}
    PROVE  Nearest \in table.frontier /\ \A d \in table.frontier : Nearest.cost <= d.cost
  <1> DEFINE S == {e.cost : e \in table.frontier}
  <1>1. S \in SUBSET Nat /\ S # {}
    BY FoundTypes
  <1>2. PICK c \in S : \A m \in S : c <= m
    <2> HIDE DEF S
    <2> QED BY <1>1, LeastNat
  <1>3. PICK e \in table.frontier : e.cost = c
    BY <1>2
  <1>4. \A d \in table.frontier : e.cost <= d.cost
    BY <1>2, <1>3
  <1> QED BY <1>4 DEF Nearest

(* Its expansion is one of the searches', with an estimate of 0.             *)
LEMMA GrownFacts ==
    ASSUME Graph(problem), Searched(problem, table.frontier, table.costs),
           NEW e \in table.frontier, \A d \in table.frontier : e.cost <= d.cost,
           e.cost <= table.costs[e.state],
           NEW rest, rest.frontier = table.frontier \ {e}, rest.costs = table.costs,
           DOMAIN rest = {"frontier", "costs", "exceeded"}
    PROVE  /\ Searched(problem, Grown(rest, e).frontier, Grown(rest, e).costs)
           /\ DOMAIN Grown(rest, e) = {"frontier", "costs", "exceeded"}
  <1> DEFINE p == problem
             C == Closed(table.frontier, table.costs)
             n == Len(operators)
             fields == {"frontier", "costs", "exceeded"}
             Good(x, j) == Midway(p, C, e, j, x.frontier, x.costs) /\ DOMAIN x = fields
             Z == [s \in Found(p) |-> 0]
  <1>1. operators = p.operators /\ operators \in Seq(ToSet(operators)) /\ n \in Nat /\ Graph(p)
    BY DEF operators, Graph
  <1>2. PICK g : /\ g[0] = rest
                 /\ \A j \in 1 .. Len(operators) :
                       g[j] = IF j \in successors(e.state, problem.unknown, operators)
                              THEN Tabulated(g[j - 1], j, e) ELSE g[j - 1]
                 /\ Grown(rest, e) = g[Len(operators)]
    BY <1>1, GrownInOrder
  <1>3. Consistent(p, Z) /\ \A d \in table.frontier : Z[d.state] = 0 /\ d.cost \in Nat
    <2>1. \A s \in Found(p) : Z[s] = 0
      OBVIOUS
    <2>2. \A r \in Space(p) : \A k \in Moves(p, r.state) :
             /\ r.state \in Found(p) /\ Onward(p, r, k).state \in Found(p)
             /\ p.operators[k].cost \in Nat
      BY SpaceSteps DEF Found, Graph, Moves, successors
    <2>3. \A d \in table.frontier : d.state \in Found(p) /\ d.cost \in Nat
      BY FoundTypes DEF Searched
    <2> HIDE DEF Z
    <2> QED BY <2>1, <2>2, <2>3 DEF Consistent
  <1> HIDE DEF Z
  <1>4. Good(g[0], 0)
    <2>1. Midway(p, C, e, 0, table.frontier \ {e}, table.costs)
      <3>1. \A d \in table.frontier : e.cost + Z[e.state] <= d.cost + Z[d.state]
        BY <1>3
      <3> HIDE DEF p
      <3>2. Searched(p, table.frontier, table.costs)
        BY DEF p
      <3> QED BY <1>1, <1>3, <3>1, <3>2, ExpansionStarts
    <2> HIDE DEF p, C
    <2> QED BY <1>2, <2>1
  <1>5. ASSUME NEW j \in Nat, j + 1 <= n, Good(g[j], j)
        PROVE  Good(g[j + 1], j + 1)
    <2> DEFINE k == j + 1
               found == g[j]
               t == Onward(p, e, k)
    <2>1. k \in 1 .. n /\ k - 1 = j
      BY <1>1, <1>5
    <2>2. g[k] = IF k \in Moves(p, e.state) THEN Tabulated(found, k, e) ELSE found
      <3>1. Moves(p, e.state) = successors(e.state, problem.unknown, operators)
        BY <1>1 DEF Moves
      <3> HIDE DEF p, k
      <3> QED BY <1>2, <2>1, <3>1
    <2>3. Midway(p, C, e, j, found.frontier, found.costs) /\ DOMAIN found = fields
      BY <1>5
    <2>4. CASE k \in Moves(p, e.state) =>
                 t.state \in DOMAIN found.costs /\ found.costs[t.state] <= t.cost
      <3>1. t.state = Applied(operators[k], e.state) /\ t.cost = e.cost + operators[k].cost
        BY <1>1 DEF Onward
      <3>2. g[k] = found
        BY <2>2, <2>4, <3>1 DEF Tabulated
      <3>3. Midway(p, C, e, k, found.frontier, found.costs)
        <4> HIDE DEF p, C, found
        <4> QED BY <1>1, <2>3, <2>4, ExpansionPasses
      <3> HIDE DEF found, k
      <3> QED BY <2>3, <3>2, <3>3 DEF k
    <2>5. CASE /\ k \in Moves(p, e.state)
               /\ ~ (t.state \in DOMAIN found.costs /\ found.costs[t.state] <= t.cost)
      <3> DEFINE x == [cost |-> t.cost, state |-> t.state]
                 G == found.frontier \cup {x}
                 D == Priced(found.costs, t.state, t.cost)
      <3>1. t.state = Applied(operators[k], e.state) /\ t.cost = e.cost + operators[k].cost
        BY <1>1 DEF Onward
      <3>2. g[k] = [found EXCEPT !.costs = D, !.frontier = G]
        BY <2>2, <2>5, <3>1 DEF Tabulated
      <3>3. x.state = t.state /\ x.cost = t.cost
        OBVIOUS
      <3>4. Midway(p, C, e, k, G, D)
        <4> HIDE DEF p, C, found, x
        <4> QED BY <1>1, <2>3, <2>5, <3>3, ExpansionPushes
      <3>5. g[k].costs = D /\ g[k].frontier = G /\ DOMAIN g[k] = fields
        <4> HIDE DEF D, G, found
        <4> QED BY <2>3, <3>2
      <3> HIDE DEF D, G, found, k, p, C
      <3> QED BY <3>4, <3>5 DEF k
    <2> QED BY <2>4, <2>5
  <1>6. Good(g[n], n)
    <2> DEFINE Q == {j \in Nat : j <= n => Good(g[j], j)}
    <2>1. 0 \in Q
      <3> HIDE DEF Good
      <3> QED BY <1>4
    <2>2. ASSUME NEW j \in Nat, j \in Q PROVE j + 1 \in Q
      <3> HIDE DEF Good, n
      <3>1. j + 1 \in Nat /\ (j + 1 <= n => j <= n)
        BY <1>1
      <3> QED BY <1>5, <2>2, <3>1
    <2>3. Nat \subseteq Q
      <3> HIDE DEF Q
      <3> QED BY <2>1, <2>2, UpTo
    <2>4. n <= n
      <3> HIDE DEF n
      <3> QED BY <1>1
    <2> HIDE DEF Good
    <2> QED BY <1>1, <2>3, <2>4
  <1>7. Searched(p, g[n].frontier, g[n].costs) /\ DOMAIN g[n] = fields
    <2>1. Midway(p, C, e, Len(p.operators), g[n].frontier, g[n].costs)
      BY <1>1, <1>6
    <2> HIDE DEF C, p, n
    <2> QED BY <1>1, <1>6, <2>1, ExpansionEnds
  <1>8. Grown(rest, e) = g[n]
    BY <1>2
  <1> HIDE DEF n
  <1> QED BY <1>7, <1>8

(* One turn of the loop of enumerate_space.                                  *)
LEMMA EnumerateKeeps ==
    ASSUME Graph(problem), TableInv, Enumerate,
           problem.known = request.known
    PROVE  TableInv'
  <1> DEFINE e == Nearest
             rest == [table EXCEPT !.frontier = @ \ {e}]
             grown == Grown(rest, e)
  <1>1. table.frontier # {} /\ ~table.exceeded /\ UNCHANGED <<problem, request>>
    BY DEF Enumerate, Enumerated, vars, providerVars
  <1>2. table' = IF e.cost > table.costs[e.state] THEN rest
                 ELSE [grown EXCEPT !.exceeded = Cardinality(DOMAIN grown.costs) > request.limit]
    BY DEF Enumerate, Grown
  <1>3. /\ rest.frontier = table.frontier \ {e} /\ rest.costs = table.costs
        /\ rest.exceeded = table.exceeded
        /\ DOMAIN rest = {"frontier", "costs", "exceeded"}
    BY DEF TableInv
  <1>4. e \in table.frontier /\ \A d \in table.frontier : e.cost <= d.cost
    BY <1>1, NearestFacts DEF TableInv, Searched
  <1>5. e.cost \in Nat /\ table.costs[e.state] \in Nat
    BY <1>4, FoundTypes DEF TableInv, Searched
  <1> HIDE DEF e, rest, grown
  <1>6. CASE e.cost > table.costs[e.state]
    <2>1. Searched(problem, rest.frontier, rest.costs)
      <3>1. table.costs[e.state] < e.cost
        BY <1>5, <1>6
      <3> QED BY <1>3, <1>4, <3>1, StaleGoes DEF TableInv
    <2>2. table # NewTable
      <3> SUFFICES ASSUME table = NewTable PROVE FALSE
        OBVIOUS
      <3>1. e.cost = 0 /\ e.state = request.known
        BY <1>4 DEF NewTable
      <3>2. table.costs[request.known] = 0
        BY DEF NewTable
      <3> QED BY <1>6, <3>1, <3>2
    <2>3. table' = rest
      BY <1>2, <1>6
    <2>4. table.exceeded = (Cardinality(DOMAIN table.costs) > request.limit)
      BY <2>2 DEF TableInv
    <2> QED BY <1>1, <1>3, <2>1, <2>3, <2>4 DEF TableInv
  <1>7. CASE ~ (e.cost > table.costs[e.state])
    <2>1. e.cost <= table.costs[e.state]
      BY <1>5, <1>7
    <2>2. Searched(problem, grown.frontier, grown.costs)
          /\ DOMAIN grown = {"frontier", "costs", "exceeded"}
      BY <1>3, <1>4, <2>1, GrownFacts DEF TableInv, grown
    <2> DEFINE over == Cardinality(DOMAIN grown.costs) > request.limit
    <2>3. table' = [grown EXCEPT !.exceeded = over]
      BY <1>2, <1>7
    <2> HIDE DEF over
    <2>4. table'.frontier = grown.frontier /\ table'.costs = grown.costs
          /\ table'.exceeded = over /\ DOMAIN table' = {"frontier", "costs", "exceeded"}
      BY <2>2, <2>3
    <2> QED BY <1>1, <2>2, <2>4 DEF TableInv, over
  <1> QED BY <1>6, <1>7

(* A search that begins.                                                     *)
Started ==
    /\ expansions = 0 /\ tie = 0
    /\ outcome = [status |-> "searching", plan |-> <<>>]
    /\ best = [s \in {problem.known} |-> 0]
    /\ frontier = {Entry(0, 0, problem.known, <<>>)}
    /\ \E remaining, visited : stack = <<Call(problem.known, remaining, <<>>, 0, visited)>>

(* A search that begins satisfies the invariant of the searches.             *)
LEMMA StartHolds == Given(problem) /\ Started => SearchInv
  <1> SUFFICES ASSUME Given(problem), Started PROVE SearchInv
    OBVIOUS
  <1> DEFINE e == Entry(0, 0, problem.known, <<>>)
  <1>1. e.state = problem.known /\ e.cost = 0 /\ e.tie = 0 /\ e.plan = <<>>
        /\ e.rank = 0 + estimate(problem.known)
    BY DEF Entry
  <1>2. expansions = 0 /\ tie = 0 /\ outcome.status = "searching"
        /\ best = [s \in {problem.known} |-> 0] /\ frontier = {e}
    BY DEF Started
  <1>3. Replays(problem, <<>>, Origin(problem))
    BY ReplayStarts
  <1> HIDE DEF e
  <1>4. Searched(problem, frontier, best) /\ Closed(frontier, best) = {}
    BY <1>1, <1>2, SearchStarts
  <1>5. Heaped(frontier, tie)
    <2>1. Replays(problem, e.plan, e)
      BY <1>1, <1>3 DEF Replays, Origin
    <2> QED BY <1>1, <1>2, <2>1 DEF Heaped
  <1>6. BestFirstInv
    <2>1. Cardinality({}) = 0
      BY FS_EmptySet
    <2> QED BY <1>2, <1>4, <1>5, <2>1 DEF BestFirstInv
  <1>7. MeansEndsInv
    <2>1. PICK remaining, visited : stack = <<Call(problem.known, remaining, <<>>, 0, visited)>>
      BY DEF Started
    <2> DEFINE c == Call(problem.known, remaining, <<>>, 0, visited)
    <2>2. c.plan = <<>> /\ c.state = problem.known
          /\ DOMAIN c = {"state", "remaining", "plan", "depth", "visited", "tried"}
      BY DEF Call
    <2>3. Replays(problem, c.plan, [state |-> c.state, cost |-> 0])
      BY <1>3, <2>2 DEF Origin
    <2> HIDE DEF c
    <2>4. stack = <<c>>
      BY <2>1 DEF c
    <2>5. stack # <<>> /\ DOMAIN stack = {1} /\ stack[1] = c /\ stack \in Seq({c})
      BY <2>4
    <2>6. ToSet(stack) = {c}
      BY <2>5 DEF ToSet
    <2> QED BY <2>2, <2>3, <2>5, <2>6 DEF MeansEndsInv
  <1>8. OutcomeInv
    BY <1>2 DEF OutcomeInv
  <1> QED BY <1>6, <1>7, <1>8 DEF SearchInv

(* The steps of a search leave alone what is searched for.                   *)
LEMMA StepSearchesOn ==
    ASSUME Step
    PROVE  UNCHANGED <<problem, search>>
  <1>1. ReturnNone => UNCHANGED <<problem, search>>
    BY DEF ReturnNone
  <1> QED BY <1>1 DEF Step, ReturnPlan, SkipStale, Expand, NothingLeft, CutOff, TooDeep, Conclude,
                      Try, NothingReduces

(* The claims of a proposal, over the whole space.                           *)
LeastOf(goals, run) ==
    /\ [state |-> run.state, cost |-> run.cost] \in Space(request)
    /\ \A x \in Space(request) : ToSet(goals) \subseteq x.state => run.cost <= x.cost

Earned(p) ==
    LET run == Replayed(request.known, request.unknown, request.operators, p.plan)
    IN  /\ p.status = "achieved_in_model" => run.executable /\ ToSet(p.goals) \subseteq run.state
        /\ p.status # "unmet"
        /\ p.certified => /\ p.status = "achieved_in_model"
                          /\ Cardinality(Found(request)) <= request.limit
                          /\ provider # "gps" => LeastOf(p.goals, run)
        /\ p.reason = "no plan exists in this graph" =>
               \A x \in Space(request) : ~ (ToSet(p.goals) \subseteq x.state)
        /\ p.reason = "no plan within the declared budget" =>
               request.budget < Cardinality(Found(request))
        /\ p.reason = "space_exceeded" <=> Exact /\ Cardinality(Found(request)) > request.limit

Begun == /\ request \in Requests /\ provider \in Providers /\ search = Method
         /\ \E a \in DOMAIN Agents : problem = ProblemOf(a)

ProviderInv ==
    /\ Begun /\ SearchInv /\ TableInv
    /\ Exact /\ ~Running => Enumerated /\ ~table.exceeded
    /\ proposals \in Seq(ToSet(proposals)) /\ \A p \in ToSet(proposals) : Earned(p)
    /\ report = "raised" => /\ request.certify /\ ~Exact
                            /\ Cardinality(Found(request)) > request.limit

(* The problem at hand is one that the searches are given, and its space is  *)
(* the request's.                                                            *)
LEMMA BegunGiven ==
    ASSUME Begun
    PROVE  /\ Given(problem) /\ Graph(problem)
           /\ Space(problem) = Space(request) /\ Found(problem) = Found(request)
           /\ \A n \in Nat : Reached(problem, n) = Reached(request, n)
           /\ problem.known = request.known /\ problem.unknown = request.unknown
           /\ problem.operators = request.operators
           /\ problem.budget = Budget
           /\ request.limit \in Nat /\ request.certify \in BOOLEAN
           /\ IsFiniteSet(Found(request)) /\ Cardinality(Found(request)) \in Nat
  <1>1. PICK a \in DOMAIN Agents : problem = ProblemOf(a)
    BY DEF Begun
  <1>2. Given(problem) /\ Space(problem) = Space(request) /\ Found(problem) = Found(request)
        /\ \A n \in Nat : Reached(problem, n) = Reached(request, n)
    BY <1>1, ProblemGiven DEF Begun
  <1>3. problem.known = request.known /\ problem.unknown = request.unknown
        /\ problem.operators = request.operators /\ problem.budget = Budget
    BY <1>1 DEF ProblemOf
  <1>4. request.limit \in Nat /\ request.certify \in BOOLEAN
    BY RequestsAssumption DEF Begun, Asks
  <1>5. IsFiniteSet(Found(request)) /\ Cardinality(Found(request)) \in Nat
    BY <1>2, LongestIsEnough, FS_CardinalityType
  <1> QED BY <1>2, <1>3, <1>4, <1>5 DEF Given

(* An enumeration that ended within its limit has the whole space.           *)
LEMMA TableDone ==
    ASSUME Begun, TableInv, Enumerated, ~table.exceeded
    PROVE  /\ Searched(problem, {}, table.costs)
           /\ Cardinality(Found(request)) <= request.limit
  <1>1. table.frontier = {}
    BY DEF Enumerated
  <1>2. Searched(problem, {}, table.costs)
    BY <1>1 DEF TableInv
  <1>3. table # NewTable
    <2>1. NewTable.frontier # {}
      BY DEF NewTable
    <2> QED BY <1>1, <2>1
  <1>4. ~ (Cardinality(DOMAIN table.costs) > request.limit)
    BY <1>3 DEF TableInv
  <1>5. DOMAIN table.costs = Found(request)
    BY <1>2, BegunGiven, NothingLeftIsAll
  <1> QED BY <1>2, <1>4, <1>5, BegunGiven

(* One that outgrew it shows that the space does.                            *)
LEMMA TableExceeded ==
    ASSUME Begun, TableInv, table.exceeded
    PROVE  Cardinality(Found(request)) > request.limit
  <1>1. table # NewTable
    BY DEF NewTable
  <1>2. Cardinality(DOMAIN table.costs) > request.limit
    BY <1>1 DEF TableInv
  <1>3. DOMAIN table.costs \subseteq Found(request)
    BY BegunGiven, FoundTypes DEF TableInv, Searched
  <1>4. Cardinality(DOMAIN table.costs) <= Cardinality(Found(request))
        /\ Cardinality(DOMAIN table.costs) \in Nat
    BY <1>3, BegunGiven, FS_Subset, FS_CardinalityType
  <1> QED BY <1>2, <1>4, BegunGiven

(* A plan that was found achieves its goals; it is a cheapest one, and costs *)
(* what the table says its state costs.                                      *)
LEMMA FoundFacts ==
    ASSUME Begun, SearchInv, outcome.status = "found"
    PROVE  /\ Achieved
           /\ Replay = Replayed(request.known, request.unknown, request.operators, outcome.plan)
           /\ search # "gps" =>
                 /\ LeastOf(problem.goals, Replay)
                 /\ \A x \in Space(request) : x.state = Replay.state => Replay.cost <= x.cost
  <1>1. PICK r : /\ Replays(problem, outcome.plan, r) /\ Met(r.state)
                 /\ search # "gps" =>
                       /\ [state |-> r.state, cost |-> r.cost] \in Space(problem)
                       /\ \A x \in Space(problem) :
                             x.state = r.state \/ Met(x.state) => r.cost <= x.cost
    BY DEF SearchInv, OutcomeInv
  <1>2. Replay = [executable |-> TRUE, state |-> r.state, cost |-> r.cost]
    BY <1>1 DEF Replay, Replays, operators
  <1>3. Replay.executable /\ Replay.state = r.state /\ Replay.cost = r.cost
    BY <1>2
  <1>4. Replay = Replayed(request.known, request.unknown, request.operators, outcome.plan)
    BY BegunGiven DEF Replay, operators
  <1>5. \A s : Met(s) <=> ToSet(problem.goals) \subseteq s
    BY DEF Met
  <1> HIDE DEF Replay
  <1> QED BY <1>1, <1>3, <1>4, <1>5, BegunGiven DEF Achieved, LeastOf

(* The cost of a cheapest plan is the one in a finished table.               *)
LEMMA NeverDisagree ==
    ASSUME Begun, SearchInv, TableInv, outcome.status = "found", Enumerated, ~table.exceeded
    PROVE  ~Disagree
  <1> SUFFICES ASSUME Disagree PROVE FALSE
    OBVIOUS
  <1>1. search # "gps"
    BY DEF Disagree, Begun, Exact, Method
  <1> DEFINE s == Replay.state
             x == [state |-> s, cost |-> table.costs[s]]
  <1>2. [state |-> s, cost |-> Replay.cost] \in Space(request)
        /\ \A y \in Space(request) : y.state = s => Replay.cost <= y.cost
    BY <1>1, FoundFacts DEF LeastOf
  <1>3. s \in Found(request)
    BY <1>2 DEF Found
  <1>4. x \in Space(request) /\ table.costs[s] <= Replay.cost
    <2>1. Searched(problem, {}, table.costs)
      BY TableDone
    <2>2. \A y \in Space(request) : table.costs[y.state] <= y.cost
      BY <2>1, BegunGiven, NothingLeftIsAll
    <2>3. x \in Space(request)
      BY <1>3, <2>1, BegunGiven, NothingLeftIsAll
    <2> HIDE DEF s
    <2> QED BY <1>2, <2>2, <2>3
  <1>5. Replay.cost <= table.costs[s]
    BY <1>2, <1>4
  <1>6. Replay.cost \in Nat /\ table.costs[s] \in Nat
    <2> HIDE DEF s
    <2>1. \A y \in Space(request) : y.cost \in Nat
      BY BegunGiven, SpaceTypes
    <2> QED BY <1>2, <1>4, <2>1
  <1>7. table.costs[s] = Replay.cost
    <2> HIDE DEF s, x
    <2> QED BY <1>4, <1>5, <1>6
  <1> QED BY <1>7 DEF Disagree

(* What the other agents' proposals claim stays true.                        *)
LEMMA EarnedStays ==
    ASSUME UNCHANGED <<request, provider>>, NEW p, Earned(p)
    PROVE  Earned(p)'
  <1>1. request' = request /\ provider' = provider /\ (Exact' <=> Exact)
    BY DEF Exact
  <1> QED BY <1>1 DEF Earned, LeastOf

(* What a request is, and whose turn it is, are settled when it begins.      *)
LEMMA BegunStays ==
    ASSUME Begun, UNCHANGED <<request, provider, problem, search>>
    PROVE  Begun'
  <1>1. (Exact' <=> Exact) /\ Agents' = Agents /\ Budget' = Budget /\ Method' = Method
    BY DEF Exact, Agents, Budget, Method
  <1>2. \A a : ProblemOf(a)' = ProblemOf(a)
    BY <1>1 DEF ProblemOf
  <1> QED BY <1>1, <1>2 DEF Begun

(* So is the table, when it is left alone.                                   *)
LEMMA TableStays ==
    ASSUME TableInv, UNCHANGED <<request, problem, table>>
    PROVE  TableInv'
  <1>1. NewTable' = NewTable
    BY DEF NewTable
  <1> QED BY <1>1 DEF TableInv

(* And so is the search.                                                     *)
LEMMA SearchStays ==
    ASSUME SearchInv, UNCHANGED vars
    PROVE  SearchInv'
  <1>1. UNCHANGED <<problem, search, frontier, best, tie, expansions, stack, outcome>>
    BY DEF vars, bestFirstVars
  <1>2. (Running' <=> Running) /\ \A s : (Met(s)' <=> Met(s)) /\ estimate(s)' = estimate(s)
    BY <1>1 DEF Running, Met, estimate
  <1>3. BestFirstInv'
    BY <1>1, <1>2 DEF SearchInv, BestFirstInv, Heaped
  <1>4. MeansEndsInv'
    BY <1>1, <1>2 DEF SearchInv, MeansEndsInv
  <1>5. OutcomeInv'
    BY <1>1, <1>2 DEF SearchInv, OutcomeInv
  <1> QED BY <1>3, <1>4, <1>5 DEF SearchInv

(* An invocation has an agent, and the exact reference has one only.         *)
LEMMA AgentsAreInOrder ==
    ASSUME request \in Requests, provider \in Providers
    PROVE  /\ DOMAIN Agents = 1 .. Len(Agents) /\ Len(Agents) \in Nat /\ 1 \in DOMAIN Agents
           /\ Exact => Len(Agents) = 1
  <1>1. CASE Exact
    <2>1. Agents = <<request.goals>>
      BY <1>1 DEF Agents
    <2> QED BY <2>1
  <1>2. CASE ~Exact
    <2>1. Agents = request.agents
      BY <1>2 DEF Agents
    <2>2. Agents \in Seq({goals \in Seq(ToSet(request.goals)) : goals # <<>>}) /\ Agents # <<>>
      BY <2>1, RequestsAssumption DEF Asks
    <2> HIDE DEF Agents
    <2> QED BY <1>2, <2>2
  <1> QED BY <1>1, <1>2

(* A search begins with the table that goes with it.                         *)
LEMMA TableStarts ==
    ASSUME table = NewTable, problem.known = request.known
    PROVE  TableInv
  <1> DEFINE e == [cost |-> 0, state |-> request.known]
  <1>1. e.cost = 0 /\ e.state = problem.known
    OBVIOUS
  <1>2. table.frontier = {e} /\ table.costs = [s \in {problem.known} |-> 0]
        /\ DOMAIN table = {"frontier", "costs", "exceeded"}
    BY DEF NewTable
  <1> HIDE DEF e
  <1>3. Searched(problem, table.frontier, table.costs)
    BY <1>1, <1>2, SearchStarts
  <1> QED BY <1>2, <1>3 DEF TableInv

(* The same, as an implication.                                              *)
LEMMA TableStartsAgain ==
    table = NewTable /\ problem.known = request.known => TableInv
  BY TableStarts

(* A proposal that is earned is recorded, and the next search begins.        *)
LEMMA ProposeKeeps ==
    ASSUME ProviderInv, report = "running", NEW p, Earned(p), Propose(p)
    PROVE  ProviderInv'
  <1>1. proposals' = Append(proposals, p) /\ UNCHANGED <<request, provider>>
    BY DEF Propose
  <1>2. Begun /\ SearchInv /\ TableInv /\ proposals \in Seq(ToSet(proposals))
        /\ (Exact /\ ~Running => Enumerated /\ ~table.exceeded)
        /\ \A q \in ToSet(proposals) : Earned(q)
    BY DEF ProviderInv
  <1>3. proposals' \in Seq(ToSet(proposals')) /\ ToSet(proposals') = ToSet(proposals) \cup {p}
    <2> DEFINE s == proposals
               n == Len(s)
               t == Append(s, p)
    <2>1. s \in Seq(ToSet(s)) /\ n \in Nat /\ DOMAIN s = 1 .. n
      BY <1>2
    <2>2. s \in Seq(ToSet(s) \cup {p})
      <3> DEFINE T == ToSet(s)
      <3>1. s \in Seq(T)
        BY <2>1
      <3> HIDE DEF T, s
      <3>2. s \in Seq(T \cup {p})
        BY <3>1
      <3> QED BY <3>2 DEF T
    <2>3. t \in Seq(ToSet(s) \cup {p}) /\ Len(t) = n + 1 /\ DOMAIN t = 1 .. n + 1
          /\ t[n + 1] = p /\ \A i \in 1 .. n : t[i] = s[i]
      <3> DEFINE T == ToSet(s) \cup {p}
      <3>1. s \in Seq(T) /\ p \in T
        BY <2>2
      <3> HIDE DEF T, s
      <3>2. t \in Seq(T) /\ Len(t) = n + 1 /\ DOMAIN t = 1 .. n + 1
            /\ t[n + 1] = p /\ \A i \in 1 .. n : t[i] = s[i]
        BY <3>1
      <3> QED BY <3>2 DEF T
    <2> HIDE DEF t
    <2>4. ToSet(t) = ToSet(s) \cup {p}
      <3>1. DOMAIN t = DOMAIN s \cup {n + 1}
        BY <2>1, <2>3
      <3> HIDE DEF s, n
      <3>2. ToSet(s) = {s[i] : i \in DOMAIN s} /\ ToSet(t) = {t[i] : i \in DOMAIN t}
        BY DEF ToSet
      <3>3. \A i \in DOMAIN s : t[i] = s[i]
        BY <2>1, <2>3
      <3> QED BY <2>3, <3>1, <3>2, <3>3
    <2> QED BY <1>1, <2>3, <2>4 DEF t
  <1>4. \A q \in ToSet(proposals') : Earned(q)'
    BY <1>1, <1>2, <1>3, EarnedStays
  <1>5. \A q \in ToSet(proposals)' : Earned(q)'
    BY <1>4
  <1>6. CASE Agent < Len(Agents)
    <2> DEFINE a == Agent + 1
               c == ProblemOf(a)
    <2>1. StartNext(c) /\ table' = NewTable /\ UNCHANGED report
      BY <1>6 DEF Propose
    <2>2. a \in DOMAIN Agents
      <3>1. DOMAIN Agents = 1 .. Len(Agents) /\ Len(Agents) \in Nat
        BY <1>2, AgentsAreInOrder DEF Begun
      <3>2. Len(proposals) \in Nat
        BY <1>2
      <3> HIDE DEF Agents
      <3> QED BY <1>6, <3>1, <3>2 DEF Agent
    <2>3. Given(c) /\ c.known = request.known
      <3>1. Given(c)
        BY <1>2, <2>2, ProblemGiven DEF Begun
      <3> QED BY <3>1 DEF ProblemOf
    <2> HIDE DEF a, c
    <2>4. problem' = c /\ UNCHANGED search /\ expansions' = 0
          /\ outcome' = [status |-> "searching", plan |-> <<>>] /\ tie' = 0
          /\ best' = [s \in {c.known} |-> 0] /\ frontier' = {Entry(0, 0, problem.known, <<>>)'}
          /\ stack' = <<Call(c.known, SelectSeq(c.goals, LAMBDA goal : goal \notin c.known),
                             <<>>, 0, {})>>
      BY <2>1 DEF StartNext
    <2>5. Started'
      <3>1. \E remaining, visited :
               stack' = <<Call(problem'.known, remaining, <<>>, 0, visited)>>
        <4> DEFINE R == SelectSeq(c.goals, LAMBDA goal : goal \notin c.known)
        <4>1. stack' = <<Call(c.known, R, <<>>, 0, {})>>
          BY <2>4
        <4> HIDE DEF R
        <4> QED BY <2>4, <4>1
      <3>2. frontier' = {Entry(0, 0, problem.known, <<>>)}'
        BY <2>4
      <3>3. expansions' = 0 /\ tie' = 0 /\ outcome' = [status |-> "searching", plan |-> <<>>]
            /\ best' = [s \in {problem'.known} |-> 0]
        BY <2>4
      <3> QED BY <3>1, <3>2, <3>3 DEF Started
    <2>6. SearchInv'
      <3>1. (Given(problem) /\ Started => SearchInv)'
        BY StartHolds, PTL
      <3>2. Given(problem)'
        <4>1. Given(problem')
          BY <2>3, <2>4
        <4> QED BY <4>1
      <3> QED BY <2>5, <3>1, <3>2
    <2>7. Begun'
      <3>1. (Exact' <=> Exact) /\ Agents' = Agents /\ Budget' = Budget /\ Method' = Method
        BY <1>1 DEF Exact, Agents, Budget, Method
      <3>2. \A b : ProblemOf(b)' = ProblemOf(b)
        BY <1>1, <3>1 DEF ProblemOf
      <3>3. problem' = ProblemOf(a)
        BY <2>4 DEF c
      <3> QED BY <1>1, <1>2, <2>2, <2>4, <3>1, <3>2, <3>3 DEF Begun
    <2>8. TableInv'
      <3>1. (table = NewTable /\ problem.known = request.known => TableInv)'
        BY TableStartsAgain, PTL
      <3>2. NewTable' = NewTable
        BY <1>1 DEF NewTable
      <3> QED BY <1>1, <2>1, <2>3, <2>4, <3>1, <3>2
    <2>9. Running'
      BY <2>4 DEF Running
    <2>10. report' = "running"
      BY <2>1
    <2> QED BY <1>3, <1>5, <2>6, <2>7, <2>8, <2>9, <2>10 DEF ProviderInv
  <1>7. CASE ~ (Agent < Len(Agents))
    <2>1. report' = "ok" /\ UNCHANGED <<vars, table>>
      BY <1>7 DEF Propose
    <2>2. Begun'
      BY <1>1, <1>2, <2>1, BegunStays DEF vars
    <2>3. TableInv'
      BY <1>1, <1>2, <2>1, TableStays DEF vars
    <2>4. SearchInv'
      BY <1>2, <2>1, SearchStays
    <2>5. (Exact /\ ~Running => Enumerated /\ ~table.exceeded)'
      <3>1. table' = table /\ outcome' = outcome /\ provider' = provider
        BY <1>1, <2>1 DEF vars
      <3>2. (Exact' <=> Exact) /\ (Running' <=> Running) /\ (Enumerated' <=> Enumerated)
        BY <3>1 DEF Exact, Running, Enumerated
      <3>3. Exact /\ ~Running => Enumerated /\ ~table.exceeded
        BY <1>2
      <3>4. table'.exceeded = table.exceeded
        BY <3>1
      <3> QED BY <3>2, <3>3, <3>4
    <2> QED BY <1>3, <1>5, <2>1, <2>2, <2>3, <2>4, <2>5 DEF ProviderInv
  <1> QED BY <1>6, <1>7

(* A step of the search at hand.                                             *)
LEMMA SearchKeeps ==
    ASSUME ProviderInv, Search
    PROVE  ProviderInv'
  <1>1. /\ report = "running" /\ Step /\ UNCHANGED <<table, request, provider, proposals, report>>
        /\ Exact => Enumerated /\ ~table.exceeded
    BY DEF Search, providerVars
  <1>2. Begun /\ SearchInv /\ TableInv /\ proposals \in Seq(ToSet(proposals))
        /\ \A q \in ToSet(proposals) : Earned(q)
    BY DEF ProviderInv
  <1>3. UNCHANGED <<problem, search>>
    BY <1>1, StepSearchesOn
  <1>4. SearchInv'
    BY <1>1, <1>2, BegunGiven, StepKeeps
  <1>5. Begun'
    BY <1>1, <1>2, <1>3, BegunStays
  <1>6. TableInv'
    BY <1>1, <1>2, <1>3, TableStays
  <1>7. (Exact /\ ~Running => Enumerated /\ ~table.exceeded)'
    <2>1. (Exact' <=> Exact) /\ (Enumerated' <=> Enumerated) /\ table' = table
      BY <1>1 DEF Exact, Enumerated
    <2> QED BY <1>1, <2>1
  <1>8. \A q \in ToSet(proposals)' : Earned(q)'
    BY <1>1, <1>2, EarnedStays
  <1>9. report' = "running" /\ (proposals \in Seq(ToSet(proposals)))'
    BY <1>1, <1>2
  <1> QED BY <1>4, <1>5, <1>6, <1>7, <1>8, <1>9 DEF ProviderInv

(* A step of the enumeration.                                                *)
LEMMA EnumerateStepKeeps ==
    ASSUME ProviderInv, Enumerate
    PROVE  ProviderInv'
  <1>1. /\ report = "running" /\ UNCHANGED <<vars, request, provider, proposals, report>>
        /\ Exact => Running
    BY DEF Enumerate, providerVars
  <1>2. Begun /\ SearchInv /\ TableInv /\ proposals \in Seq(ToSet(proposals))
        /\ \A q \in ToSet(proposals) : Earned(q)
    BY DEF ProviderInv
  <1>3. UNCHANGED <<problem, search, outcome>>
    BY <1>1 DEF vars
  <1>4. SearchInv'
    BY <1>1, <1>2, SearchStays
  <1>5. Begun'
    BY <1>1, <1>2, <1>3, BegunStays
  <1>6. TableInv'
    BY <1>2, BegunGiven, EnumerateKeeps
  <1>7. (Exact /\ ~Running => Enumerated /\ ~table.exceeded)'
    <2>1. (Exact' <=> Exact) /\ (Running' <=> Running)
      BY <1>1, <1>3 DEF Exact, Running
    <2> QED BY <1>1, <2>1
  <1>8. \A q \in ToSet(proposals)' : Earned(q)'
    BY <1>1, <1>2, EarnedStays
  <1>9. report' = "running" /\ (proposals \in Seq(ToSet(proposals)))'
    BY <1>1, <1>2
  <1> QED BY <1>4, <1>5, <1>6, <1>7, <1>8, <1>9 DEF ProviderInv

(* A proposal without a plan gives its true reason.                          *)
LEMMA NoPlanKeeps ==
    ASSUME ProviderInv, NoPlan
    PROVE  ProviderInv'
  <1> DEFINE reason == IF ~Exact THEN "no_plan_within_budget"
                       ELSE IF outcome.status = "exhausted" THEN "no plan within the declared budget"
                       ELSE "no plan exists in this graph"
             p == Uncertified(reason)
  <1>1. report = "running" /\ outcome.status \in {"none", "exhausted"} /\ Propose(p)
    BY DEF NoPlan
  <1>2. Begun /\ SearchInv /\ TableInv /\ (Exact /\ ~Running => Enumerated /\ ~table.exceeded)
    BY DEF ProviderInv
  <1>3. p.status = "unknown" /\ p.certified = FALSE /\ p.reason = reason /\ p.goals = problem.goals
    BY DEF Uncertified, Proposal
  <1>4. /\ reason = "no plan exists in this graph" => Exact /\ outcome.status = "none"
        /\ reason = "no plan within the declared budget" => Exact /\ outcome.status = "exhausted"
        /\ reason # "space_exceeded"
    BY <1>1
  <1> HIDE DEF reason, p
  <1>7. Exact => search # "gps" /\ problem.budget = request.budget
    BY <1>2, BegunGiven DEF Begun, Method, Budget
  <1>8. Exact => ~ (Cardinality(Found(request)) > request.limit)
    <2> SUFFICES ASSUME Exact PROVE ~ (Cardinality(Found(request)) > request.limit)
      OBVIOUS
    <2>1. Enumerated /\ ~table.exceeded
      BY <1>1, <1>2 DEF Running
    <2>2. Cardinality(Found(request)) <= request.limit
      BY <1>2, <2>1, TableDone
    <2> QED BY <1>2, <2>2, BegunGiven
  <1>9. p.reason = "no plan exists in this graph" =>
           \A x \in Space(request) : ~ (ToSet(p.goals) \subseteq x.state)
    BY <1>2, <1>3, <1>4, <1>7, BegunGiven DEF SearchInv, OutcomeInv, Met
  <1>10. p.reason = "no plan within the declared budget" =>
            request.budget < Cardinality(Found(request))
    BY <1>2, <1>3, <1>4, <1>7, BegunGiven DEF SearchInv, OutcomeInv
  <1>11. Earned(p)
    BY <1>3, <1>4, <1>8, <1>9, <1>10 DEF Earned
  <1> QED BY <1>1, <1>11, ProposeKeeps

(* And so does one that is withheld for the size of the space.               *)
LEMMA SpaceExceededKeeps ==
    ASSUME ProviderInv, SpaceExceeded
    PROVE  ProviderInv'
  <1> DEFINE p == Uncertified("space_exceeded")
  <1>1. report = "running" /\ Exact /\ table.exceeded /\ Propose(p)
    BY DEF SpaceExceeded
  <1>2. Cardinality(Found(request)) > request.limit
    BY <1>1, TableExceeded DEF ProviderInv
  <1>3. p.status = "unknown" /\ p.certified = FALSE /\ p.reason = "space_exceeded"
    BY DEF Uncertified, Proposal
  <1> HIDE DEF p
  <1>4. Earned(p)
    BY <1>1, <1>2, <1>3 DEF Earned
  <1> QED BY <1>1, <1>4, ProposeKeeps

(* A proposal with a plan claims what its search and its table have shown.   *)
LEMMA PlanKeeps ==
    ASSUME ProviderInv, Plan
    PROVE  ProviderInv'
  <1> DEFINE status == IF Achieved THEN "achieved_in_model" ELSE "unmet"
             p == Proposal(outcome.plan, status, Exact \/ request.certify, "none")
  <1>1. report = "running" /\ outcome.status = "found" /\ Propose(p)
        /\ (Exact \/ request.certify => Enumerated /\ ~table.exceeded)
    BY DEF Plan, Certified
  <1>2. Begun /\ SearchInv /\ TableInv
    BY DEF ProviderInv
  <1>3. p.plan = outcome.plan /\ p.status = status /\ p.reason = "none"
        /\ p.goals = problem.goals /\ (p.certified = (Exact \/ request.certify))
    BY DEF Proposal
  <1>4. /\ Achieved
        /\ Replay = Replayed(request.known, request.unknown, request.operators, outcome.plan)
        /\ search # "gps" =>
              /\ LeastOf(problem.goals, Replay)
              /\ \A x \in Space(request) : x.state = Replay.state => Replay.cost <= x.cost
    BY <1>1, <1>2, FoundFacts
  <1>5. status = "achieved_in_model"
    BY <1>4
  <1> HIDE DEF p, status, Replay
  <1>6. Exact \/ request.certify => Cardinality(Found(request)) <= request.limit
    BY <1>1, <1>2, TableDone
  <1>7. Exact => ~ (Cardinality(Found(request)) > request.limit)
    BY <1>2, <1>6, BegunGiven
  <1>8. provider # "gps" => search # "gps"
    BY <1>2 DEF Begun, Method
  <1>9. Replay.executable /\ ToSet(p.goals) \subseteq Replay.state
    BY <1>3, <1>4 DEF Achieved, Met
  <1>10. Replay = Replayed(request.known, request.unknown, request.operators, p.plan)
    BY <1>3, <1>4
  <1>11. p.certified => Exact \/ request.certify
    BY <1>3
  <1>12. Earned(p)
    BY <1>3, <1>4, <1>5, <1>6, <1>7, <1>8, <1>9, <1>10, <1>11 DEF Earned
  <1> QED BY <1>1, <1>12, ProposeKeeps

(* An invocation fails for the size of the space alone.                      *)
LEMMA RaiseKeeps ==
    ASSUME ProviderInv, Raise
    PROVE  ProviderInv'
  <1>1. /\ report = "running" /\ outcome.status = "found" /\ (Exact \/ request.certify)
        /\ Enumerated /\ (table.exceeded \/ Disagree)
        /\ report' = "raised" /\ proposals' = <<>>
        /\ UNCHANGED <<vars, table, request, provider>>
    BY DEF Raise
  <1>2. Begun /\ SearchInv /\ TableInv /\ (Exact /\ ~Running => Enumerated /\ ~table.exceeded)
    BY DEF ProviderInv
  <1>3. UNCHANGED <<problem, search, outcome>>
    BY <1>1 DEF vars
  <1>4. table.exceeded
    BY <1>1, <1>2, NeverDisagree
  <1>5. ~Running
    BY <1>1 DEF Running
  <1>6. ~Exact /\ request.certify /\ Cardinality(Found(request)) > request.limit
    BY <1>1, <1>2, <1>4, <1>5, TableExceeded
  <1>7. SearchInv' /\ Begun' /\ TableInv'
    BY <1>1, <1>2, <1>3, SearchStays, BegunStays, TableStays
  <1>8. (Exact' <=> Exact) /\ request' = request
    BY <1>1 DEF Exact
  <1>9. ToSet(proposals)' = {} /\ (proposals \in Seq(ToSet(proposals)))'
    BY <1>1 DEF ToSet
  <1>10. (Exact /\ ~Running => Enumerated /\ ~table.exceeded)'
    BY <1>6, <1>8
  <1>11. (report = "raised" => /\ request.certify /\ ~Exact
                               /\ Cardinality(Found(request)) > request.limit)'
    BY <1>6, <1>8
  <1> QED BY <1>7, <1>9, <1>10, <1>11 DEF ProviderInv

(* A step of something else.                                                 *)
LEMMA StutterKeeps ==
    ASSUME ProviderInv, UNCHANGED allVars
    PROVE  ProviderInv'
  <1>1. UNCHANGED <<vars, table, request, provider, proposals, report>>
    BY DEF allVars, providerVars
  <1>2. Begun /\ SearchInv /\ TableInv
    BY DEF ProviderInv
  <1>3. UNCHANGED <<problem, search, outcome>>
    BY <1>1 DEF vars
  <1>4. SearchInv' /\ Begun' /\ TableInv'
    BY <1>1, <1>2, <1>3, SearchStays, BegunStays, TableStays
  <1>5. (Exact' <=> Exact) /\ (Running' <=> Running) /\ (Enumerated' <=> Enumerated)
        /\ table' = table /\ request' = request /\ report' = report /\ proposals' = proposals
    BY <1>1, <1>3 DEF Exact, Running, Enumerated
  <1>6. (Exact /\ ~Running => Enumerated /\ ~table.exceeded)'
    BY <1>5 DEF ProviderInv
  <1>7. (report = "raised" => /\ request.certify /\ ~Exact
                              /\ Cardinality(Found(request)) > request.limit)'
    BY <1>5 DEF ProviderInv
  <1>8. \A q \in ToSet(proposals)' : Earned(q)'
    BY <1>1, <1>5, EarnedStays DEF ProviderInv
  <1>9. (proposals \in Seq(ToSet(proposals)))'
    BY <1>5 DEF ProviderInv
  <1> QED BY <1>4, <1>6, <1>7, <1>8, <1>9 DEF ProviderInv

(* An invocation starts in the invariant.                                    *)
LEMMA ProviderStarts ==
    ASSUME Init
    PROVE  ProviderInv
  <1>1. request \in Requests /\ provider \in Providers /\ proposals = <<>> /\ report = "running"
        /\ Start(ProblemOf(1), Method) /\ table = NewTable
    BY DEF Init
  <1>2. 1 \in DOMAIN Agents
    BY <1>1, AgentsAreInOrder
  <1> DEFINE c == ProblemOf(1)
  <1>3. Given(c) /\ c.known = request.known
    <2>1. Given(c)
      BY <1>1, <1>2, ProblemGiven
    <2> QED BY <2>1 DEF ProblemOf
  <1>4. problem = c /\ search = Method
    BY <1>1 DEF Start
  <1> HIDE DEF c
  <1>5. Started
    <2> DEFINE R == SelectSeq(c.goals, LAMBDA goal : goal \notin c.known)
    <2>1. stack = <<Call(c.known, R, <<>>, 0, {})>>
      BY <1>1 DEF Start, c
    <2>2. expansions = 0 /\ tie = 0 /\ outcome = [status |-> "searching", plan |-> <<>>]
          /\ best = [s \in {c.known} |-> 0] /\ frontier = {Entry(0, 0, c.known, <<>>)}
      BY <1>1 DEF Start, c
    <2> HIDE DEF R
    <2> QED BY <1>4, <2>1, <2>2 DEF Started
  <1>6. SearchInv
    BY <1>3, <1>4, <1>5, StartHolds
  <1>7. Begun
    BY <1>1, <1>2, <1>4 DEF Begun, c
  <1>8. TableInv
    BY <1>1, <1>3, <1>4, TableStarts
  <1>9. Running
    BY <1>5 DEF Started, Running
  <1>10. ToSet(proposals) = {} /\ proposals \in Seq(ToSet(proposals))
    BY <1>1 DEF ToSet
  <1> QED BY <1>1, <1>6, <1>7, <1>8, <1>9, <1>10 DEF ProviderInv

(* The inductive invariant of PlannerProvider.invoke and                     *)
(* ExactPlannerProvider.invoke, for every request and every search.          *)
THEOREM ProviderHolds == Spec => []ProviderInv
  <1>1. Init => ProviderInv
    BY ProviderStarts
  <1>2. ProviderInv /\ [Next]_allVars => ProviderInv'
    <2> SUFFICES ASSUME ProviderInv, [Next]_allVars PROVE ProviderInv'
      OBVIOUS
    <2>1. CASE Search
      BY <2>1, SearchKeeps
    <2>2. CASE Enumerate
      BY <2>2, EnumerateStepKeeps
    <2>3. CASE NoPlan
      BY <2>3, NoPlanKeeps
    <2>4. CASE SpaceExceeded
      BY <2>4, SpaceExceededKeeps
    <2>5. CASE Plan
      BY <2>5, PlanKeeps
    <2>6. CASE Raise
      BY <2>6, RaiseKeeps
    <2>7. CASE UNCHANGED allVars
      BY <2>7, StutterKeeps
    <2> QED BY <2>1, <2>2, <2>3, <2>4, <2>5, <2>6, <2>7 DEF Next
  <1> QED BY <1>1, <1>2, PTL DEF Spec

(* What is cheapest over the whole space is cheapest over what is certified. *)
LEMMA LeastIsCheapest ==
    ASSUME Given(problem), NEW goals, NEW plan, NEW run,
           run = Replayed(problem.known, problem.unknown, problem.operators, plan),
           run.executable, ToSet(goals) \subseteq run.state,
           [state |-> run.state, cost |-> run.cost] \in Space(problem),
           \A x \in Space(problem) : ToSet(goals) \subseteq x.state => run.cost <= x.cost
    PROVE  Cheapest(goals, plan)
  <1> DEFINE R == Reached(problem, Longest)
             costs == {r.cost : r \in Solutions(goals)}
             here == [state |-> run.state, cost |-> run.cost]
  <1>1. Graph(problem) /\ R \subseteq Space(problem)
        /\ \A r \in Space(problem) : \E s \in R : s.state = r.state /\ s.cost <= r.cost
    BY LongestIsEnough DEF Given
  <1>2. PICK s \in R : s.state = run.state /\ s.cost <= run.cost
    <2>1. here \in Space(problem) /\ here.state = run.state /\ here.cost = run.cost
      OBVIOUS
    <2> HIDE DEF here, R
    <2> QED BY <1>1, <2>1
  <1>3. run.cost <= s.cost
    <2> HIDE DEF R
    <2> QED BY <1>1, <1>2
  <1>4. run.cost \in Nat /\ s.cost \in Nat
    <2>1. here \in Space(problem) /\ here.cost = run.cost
      OBVIOUS
    <2>2. s \in Space(problem)
      BY <1>1, <1>2
    <2> HIDE DEF here, R
    <2> QED BY <1>1, <2>1, <2>2, SpaceTypes
  <1>5. s.cost = run.cost
    BY <1>2, <1>3, <1>4
  <1>6. Solutions(goals) = {r \in R : ToSet(goals) \subseteq r.state}
    BY DEF Solutions
  <1> HIDE DEF R, here
  <1>7. run.cost \in costs
    BY <1>2, <1>5, <1>6
  <1>8. \A c \in costs : c \in Nat /\ run.cost <= c
    BY <1>1, <1>6, SpaceTypes
  <1>9. run.cost = Min(costs)
    <2>1. \A c \in costs : (\A d \in costs : c <= d) => c = run.cost
      <3> HIDE DEF costs
      <3> QED BY <1>4, <1>7, <1>8
    <2> HIDE DEF costs
    <2>2. Min(costs) \in costs /\ \A d \in costs : Min(costs) <= d
      BY <1>7, <1>8 DEF Min
    <2> QED BY <2>1, <2>2
  <1> QED BY <1>9 DEF Cheapest, operators

(* What is found with up to Longest operators is all there is.               *)
LEMMA Certifies ==
    ASSUME ProviderInv
    PROVE  /\ States = Found(request)
           /\ \A goals : (\A x \in Space(request) : ~ (ToSet(goals) \subseteq x.state))
                            => Solutions(goals) = {}
  <1>1. Given(problem) /\ Space(problem) = Space(request) /\ Found(problem) = Found(request)
    BY BegunGiven DEF ProviderInv
  <1>2. Found(problem) = {r.state : r \in Reached(problem, Longest)}
        /\ Reached(problem, Longest) \subseteq Space(problem)
    BY <1>1, LongestIsEnough
  <1>3. States = Found(request)
    BY <1>1, <1>2 DEF States
  <1> QED BY <1>1, <1>2, <1>3 DEF Solutions

(* From the invariant follows that what is found is cheapest,                *)
LEMMA HasOptimal == ProviderInv => Optimal
  <1> SUFFICES ASSUME ProviderInv, outcome.status = "found", search # "gps"
               PROVE  Cheapest(problem.goals, outcome.plan)
    BY DEF Optimal
  <1>1. Begun /\ SearchInv
    BY DEF ProviderInv
  <1>2. Achieved /\ LeastOf(problem.goals, Replay)
    BY <1>1, FoundFacts
  <1>3. Given(problem) /\ Space(problem) = Space(request)
    BY <1>1, BegunGiven
  <1>4. Replay.executable /\ ToSet(problem.goals) \subseteq Replay.state
    BY <1>2 DEF Achieved, Met
  <1>5. Replay = Replayed(problem.known, problem.unknown, problem.operators, outcome.plan)
    BY DEF Replay, operators
  <1> HIDE DEF Replay
  <1> QED BY <1>2, <1>3, <1>4, <1>5, LeastIsCheapest DEF LeastOf

(* that what is not found is not there, or more than the budget,             *)
LEMMA HasHonest == ProviderInv => Honest
  <1> SUFFICES ASSUME ProviderInv, search # "gps"
               PROVE  /\ outcome.status = "none" => Solutions(problem.goals) = {}
                      /\ outcome.status = "exhausted" => problem.budget < Cardinality(States)
    BY DEF Honest
  <1>1. Begun /\ OutcomeInv
    BY DEF ProviderInv, SearchInv
  <1>2. Space(problem) = Space(request) /\ Found(problem) = Found(request)
    BY <1>1, BegunGiven
  <1>3. ASSUME outcome.status = "none" PROVE Solutions(problem.goals) = {}
    <2>1. \A x \in Space(request) : ~ (ToSet(problem.goals) \subseteq x.state)
      BY <1>1, <1>2, <1>3 DEF OutcomeInv, Met
    <2> QED BY <2>1, Certifies
  <1>4. ASSUME outcome.status = "exhausted" PROVE problem.budget < Cardinality(States)
    BY <1>1, <1>2, <1>4, Certifies DEF OutcomeInv
  <1> QED BY <1>3, <1>4

(* and that the proposals claim only that.                                   *)
LEMMA HasProposalsEarned == ProviderInv => ProposalsEarned
  <1> SUFFICES ASSUME ProviderInv PROVE ProposalsEarned
    OBVIOUS
  <1>1. Begun /\ \A p \in ToSet(proposals) : Earned(p)
    BY DEF ProviderInv
  <1>2. Given(problem) /\ Space(problem) = Space(request) /\ problem.known = request.known
        /\ problem.unknown = request.unknown /\ problem.operators = request.operators
    BY <1>1, BegunGiven
  <1>3. report = "raised" => request.certify /\ ~Exact /\ Cardinality(States) > request.limit
    BY Certifies DEF ProviderInv
  <1>4. ASSUME NEW p \in ToSet(proposals),
               NEW run, run = Replayed(request.known, request.unknown, request.operators, p.plan)
        PROVE  /\ p.status = "achieved_in_model" => run.executable /\ ToSet(p.goals) \subseteq run.state
               /\ p.status # "unmet"
               /\ p.certified => /\ p.status = "achieved_in_model"
                                 /\ Cardinality(States) <= request.limit
                                 /\ provider # "gps" => Cheapest(p.goals, p.plan)
               /\ p.reason = "no plan exists in this graph" => Solutions(p.goals) = {}
               /\ p.reason = "no plan within the declared budget" =>
                      request.budget < Cardinality(States)
               /\ p.reason = "space_exceeded" <=> Exact /\ Cardinality(States) > request.limit
    <2>1. Earned(p)
      BY <1>1
    <2>2. States = Found(request)
      BY Certifies
    <2>3. /\ p.status = "achieved_in_model" => run.executable /\ ToSet(p.goals) \subseteq run.state
          /\ p.status # "unmet"
          /\ p.certified => /\ p.status = "achieved_in_model"
                            /\ Cardinality(States) <= request.limit
                            /\ provider # "gps" => LeastOf(p.goals, run)
          /\ p.reason = "no plan exists in this graph" =>
                 \A x \in Space(request) : ~ (ToSet(p.goals) \subseteq x.state)
          /\ p.reason = "no plan within the declared budget" =>
                 request.budget < Cardinality(States)
          /\ p.reason = "space_exceeded" <=> Exact /\ Cardinality(States) > request.limit
      BY <1>4, <2>1, <2>2 DEF Earned
    <2>4. ASSUME p.certified, provider # "gps" PROVE Cheapest(p.goals, p.plan)
      <3>1. run.executable /\ ToSet(p.goals) \subseteq run.state /\ LeastOf(p.goals, run)
        BY <2>3, <2>4
      <3>2. run = Replayed(problem.known, problem.unknown, problem.operators, p.plan)
        BY <1>2, <1>4
      <3> QED BY <1>2, <3>1, <3>2, LeastIsCheapest DEF LeastOf
    <2>5. p.reason = "no plan exists in this graph" => Solutions(p.goals) = {}
      BY <2>3, Certifies
    <2> QED BY <2>3, <2>4, <2>5
  <1> QED BY <1>3, <1>4 DEF ProposalsEarned

(* Whatever uniform_cost or astar returns can be carried out, meets every    *)
(* goal and costs the least of all plans that do, for every catalog, goals,  *)
(* start and budget.                                                         *)
THEOREM PlansAreCheapest == Spec => []Optimal
  BY ProviderHolds, HasOptimal, PTL

(* They return nothing only where there is no plan, or where there are more  *)
(* configurations than the budget allows expansions.                         *)
THEOREM FailureIsHonest == Spec => []Honest
  BY ProviderHolds, HasHonest, PTL

(* Every proposal of a provider has what it claims: goals that are reached,  *)
(* a certificate that the table bears out, the true reason for no plan; and  *)
(* an invocation fails only for the limit of the table.                      *)
THEOREM ClaimsAreEarned == Spec => []ProposalsEarned
  BY ProviderHolds, HasProposalsEarned, PTL
===============================================================================
