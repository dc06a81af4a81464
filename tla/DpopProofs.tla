------------------------------ MODULE DpopProofs ------------------------------
(***************************************************************************)
(* That solve is exact, for every problem, root and budget.  First why the *)
(* tables of UTIL are, for every tree: the algebra of costs and tables,    *)
(* the parts into which a pseudo-tree cuts the factors, and the two steps  *)
(* of _compute_util_if_ready, join and minimize, which turn exact tables   *)
(* of the children into an exact table of the agent with a choice that     *)
(* attains it.  Then the run, stage by stage: where tables and choices are *)
(* while messages are in flight (DpopInv, from Tabled onwards), and that   *)
(* the distributed run implements the exact solver.                        *)
(*                                                                         *)
(* Folds are proved about by induction over the subsets of a finite set,   *)
(* which the well-founded order of those subsets gives without an operator *)
(* as a parameter.                                                         *)
(***************************************************************************)
EXTENDS Dpop, PseudoTreeProofs

(* Induction over the subsets of a finite set: Q holds the sets of which the *)
(* claim is true.                                                            *)
LEMMA SubsetInduction ==
    ASSUME NEW S, IsFiniteSet(S), NEW Q,
           \A t \in SUBSET S : (\A x \in t : t \ {x} \in Q) => t \in Q
    PROVE  S \in Q
  <1> SUFFICES ASSUME S \notin Q PROVE FALSE
    OBVIOUS
  <1> DEFINE Bad == {t \in SUBSET S : t \notin Q}
  <1>1. Bad \subseteq FiniteSubsetsOf(S) /\ Bad # {}
    BY FS_FiniteSubsetsOfFinite
  <1>2. PICK t \in Bad : \A u \in Bad : ~ (<<u, t>> \in StrictSubsetOrdering(S))
    <2> HIDE DEF Bad
    <2> QED BY <1>1, FS_StrictSubsetOrderingWellFounded, WFMin
  <1>3. ASSUME NEW x \in t PROVE t \ {x} \in Q
    <2>1. t \ {x} \in SUBSET S /\ t \ {x} # t /\ t \ {x} \subseteq t
      OBVIOUS
    <2>2. <<t \ {x}, t>> \in StrictSubsetOrdering(S)
      BY <2>1 DEF StrictSubsetOrdering
    <2> QED BY <1>2, <2>1, <2>2
  <1> QED BY <1>3

(* The two ways the entries of a table are combined: costs are added and the *)
(* sizes of domains are multiplied.                                          *)
Costs == Nat \cup {Forbidden}
Operands(op) == IF op = "sum" THEN Costs ELSE Nat
Neutral(op) == IF op = "sum" THEN 0 ELSE 1
Combine(op, c, d) == IF op = "sum" THEN Plus(c, d) ELSE c * d

(* Both operations are associative and commutative and have a neutral        *)
(* element.                                                                  *)
LEMMA CombineFacts ==
    ASSUME NEW op, NEW c \in Operands(op), NEW d \in Operands(op), NEW e \in Operands(op)
    PROVE  /\ Neutral(op) \in Operands(op)
           /\ Combine(op, c, d) \in Operands(op)
           /\ Combine(op, c, d) = Combine(op, d, c)
           /\ Combine(op, c, Combine(op, d, e)) = Combine(op, Combine(op, c, d), e)
           /\ Combine(op, c, Neutral(op)) = c
  <1>1. CASE op = "sum"
    BY <1>1 DEF Operands, Neutral, Combine, Costs, Plus, Forbidden
  <1>2. CASE op # "sum"
    <2>1. \A x, y \in Nat : x * y \in Nat /\ x * y = y * x /\ x * 1 = x
      OBVIOUS
    <2>2. \A x, y, z \in Nat : x * (y * z) = (x * y) * z
      OBVIOUS
    <2> QED BY <1>2, <2>1, <2>2 DEF Operands, Neutral, Combine
  <1> QED BY <1>1, <1>2

(* g computes the fold of f on every subset of S.                            *)
FoldStep(op, f, g, s) ==
    IF s = {} THEN Neutral(op)
    ELSE LET x == CHOOSE x \in s : TRUE
         IN  Combine(op, f[x], g[s \ {x}])
Folds(op, f, S, g) == g = [s \in SUBSET S |-> FoldStep(op, f, g, s)]

(* Two such functions agree where both are defined.                          *)
LEMMA FoldsAgree ==
    ASSUME NEW op, NEW f, NEW S, NEW T, NEW g, NEW h,
           Folds(op, f, S, g), Folds(op, f, T, h),
           NEW U, IsFiniteSet(U), U \subseteq S, U \subseteq T
    PROVE  g[U] = h[U]
  <1> DEFINE Q == {t \in SUBSET U : g[t] = h[t]}
  <1>1. ASSUME NEW t \in SUBSET U, \A x \in t : t \ {x} \in Q
        PROVE  t \in Q
    <2>1. g[t] = FoldStep(op, f, g, t) /\ h[t] = FoldStep(op, f, h, t)
      <3>1. t \in SUBSET S /\ t \in SUBSET T
        OBVIOUS
      <3> QED BY <3>1 DEF Folds
    <2>2. CASE t = {}
      BY <2>1, <2>2 DEF FoldStep
    <2>3. CASE t # {}
      <3> DEFINE x == CHOOSE x \in t : TRUE
      <3>1. x \in t
        BY <2>3
      <3>2. g[t \ {x}] = h[t \ {x}]
        BY <3>1, <1>1
      <3> QED BY <2>1, <2>3, <3>2 DEF FoldStep
    <2> QED BY <2>2, <2>3
  <1>2. U \in Q
    <2> HIDE DEF Q
    <2> QED BY <1>1, SubsetInduction
  <1> QED BY <1>2

(* Such a function exists for every finite set.                              *)
LEMMA FoldsExist ==
    ASSUME NEW op, NEW f, NEW S, IsFiniteSet(S)
    PROVE  \E g : Folds(op, f, S, g)
  <1> DEFINE Q == {t \in SUBSET S : \E g : Folds(op, f, t, g)}
  <1>1. ASSUME NEW t \in SUBSET S, \A x \in t : t \ {x} \in Q
        PROVE  t \in Q
    <2> DEFINE part(x) == CHOOSE g : Folds(op, f, t \ {x}, g)
    <2>1. \A x \in t : Folds(op, f, t \ {x}, part(x))
      BY <1>1
    <2> DEFINE below(s) == part(CHOOSE x \in t : x \notin s)[s]
               top == IF t = {} THEN Neutral(op)
                      ELSE LET x == CHOOSE x \in t : TRUE
                           IN  Combine(op, f[x], below(t \ {x}))
               g == [s \in SUBSET t |-> IF s = t THEN top ELSE below(s)]
    <2>2. ASSUME NEW s \in SUBSET t
          PROVE  g[s] = FoldStep(op, f, g, s)
      <3>1. CASE s = t
        <4>1. CASE t = {}
          BY <3>1, <4>1 DEF FoldStep
        <4>2. CASE t # {}
          <5> DEFINE x == CHOOSE x \in t : TRUE
          <5>1. x \in t /\ t \ {x} \in SUBSET t /\ t \ {x} # t
            BY <4>2
          <5>2. g[t \ {x}] = below(t \ {x})
            BY <5>1
          <5>3. g[t] = Combine(op, f[x], below(t \ {x}))
            BY <4>2
          <5>4. FoldStep(op, f, g, t) = Combine(op, f[x], g[t \ {x}])
            <6> HIDE DEF g
            <6> QED BY <4>2 DEF FoldStep
          <5> QED BY <3>1, <5>2, <5>3, <5>4
        <4> QED BY <4>1, <4>2
      <3>2. CASE s # t
        <4> DEFINE y == CHOOSE y \in t : y \notin s
                   h == part(y)
        <4>1. y \in t /\ y \notin s /\ s \in SUBSET (t \ {y})
          BY <3>2
        <4>2. Folds(op, f, t \ {y}, h)
          BY <4>1, <2>1
        <4>3. g[s] = h[s]
          BY <3>2
        <4>4. h[s] = FoldStep(op, f, h, s)
          <5> HIDE DEF h, y
          <5> QED BY <4>1, <4>2 DEF Folds
        <4>5. CASE s = {}
          BY <4>3, <4>4, <4>5 DEF FoldStep
        <4>6. CASE s # {}
          <5> DEFINE x == CHOOSE x \in s : TRUE
                     r == s \ {x}
                     z == CHOOSE z \in t : z \notin r
          <5>1. x \in s /\ x \in t /\ r \in SUBSET t /\ r # t
            BY <4>6
          <5>2. z \in t /\ z \notin r
            BY <5>1
          <5>3. g[r] = part(z)[r]
            BY <5>1
          <5>4. Folds(op, f, t \ {z}, part(z))
            BY <5>2, <2>1
          <5>5. IsFiniteSet(r) /\ r \subseteq t \ {z} /\ r \subseteq t \ {y}
            <6>1. r \subseteq S
              BY <5>1
            <6>2. IsFiniteSet(r)
              BY <6>1, FS_Subset
            <6> QED BY <4>1, <5>1, <5>2, <6>2
          <5>6. part(z)[r] = h[r]
            <6> HIDE DEF part, r, z, h, y
            <6> QED BY <4>2, <5>4, <5>5, FoldsAgree
          <5>7. g[r] = h[r]
            BY <5>3, <5>6
          <5> HIDE DEF g, h
          <5> QED BY <4>3, <4>4, <4>6, <5>7 DEF FoldStep
        <4> QED BY <4>5, <4>6
      <3> QED BY <3>1, <3>2
    <2>3. Folds(op, f, t, g)
      <3>1. g = [s \in SUBSET t |-> g[s]]
        OBVIOUS
      <3> HIDE DEF g
      <3> QED BY <2>2, <3>1 DEF Folds
    <2> QED BY <2>3
  <1>2. S \in Q
    <2> HIDE DEF Q
    <2> QED BY <1>1, SubsetInduction
  <1> QED BY <1>2

(* The combination of f over S.                                              *)
Fold(op, f, S) == (CHOOSE g : Folds(op, f, S, g))[S]

(* Each such function computes the fold.                                     *)
LEMMA FoldIs ==
    ASSUME NEW op, NEW f, NEW S, IsFiniteSet(S), NEW T, S \subseteq T, NEW g, Folds(op, f, T, g)
    PROVE  g[S] = Fold(op, f, S)
  <1> DEFINE h == CHOOSE h : Folds(op, f, S, h)
  <1>1. Folds(op, f, S, h)
    BY FoldsExist
  <1> HIDE DEF h
  <1>2. g[S] = h[S]
    BY <1>1, FoldsAgree
  <1> QED BY <1>2 DEF Fold, h

(* Nothing combined is the neutral element.                                  *)
LEMMA FoldEmpty ==
    ASSUME NEW op, NEW f
    PROVE  Fold(op, f, {}) = Neutral(op)
  <1>1. IsFiniteSet({})
    BY FS_EmptySet
  <1>2. PICK g : Folds(op, f, {}, g)
    BY <1>1, FoldsExist
  <1>3. g[{}] = FoldStep(op, f, g, {})
    BY <1>2 DEF Folds
  <1>4. g[{}] = Fold(op, f, {})
    BY <1>1, <1>2, FoldIs
  <1> QED BY <1>3, <1>4 DEF FoldStep

(* The element taken first, as the definition chooses it.                    *)
LEMMA FoldFirst ==
    ASSUME NEW op, NEW f, NEW S, IsFiniteSet(S), S # {}
    PROVE  \E x \in S : Fold(op, f, S) = Combine(op, f[x], Fold(op, f, S \ {x}))
  <1>1. PICK g : Folds(op, f, S, g)
    BY FoldsExist
  <1> DEFINE x == CHOOSE x \in S : TRUE
  <1>2. x \in S /\ IsFiniteSet(S \ {x})
    BY FS_Subset
  <1>3. g[S] = Combine(op, f[x], g[S \ {x}])
    BY <1>1 DEF Folds, FoldStep
  <1>4. g[S] = Fold(op, f, S) /\ g[S \ {x}] = Fold(op, f, S \ {x})
    <2> HIDE DEF x
    <2> QED BY <1>1, <1>2, FoldIs
  <1> HIDE DEF x
  <1> QED BY <1>2, <1>3, <1>4

(* The operands combined are an operand.                                     *)
LEMMA FoldType ==
    ASSUME NEW op, NEW f, NEW S, IsFiniteSet(S), \A x \in S : f[x] \in Operands(op)
    PROVE  Fold(op, f, S) \in Operands(op)
  <1> DEFINE Q == {t \in SUBSET S : Fold(op, f, t) \in Operands(op)}
  <1>1. ASSUME NEW t \in SUBSET S, \A x \in t : t \ {x} \in Q
        PROVE  t \in Q
    <2>1. CASE t = {}
      <3>1. Neutral(op) \in Operands(op)
        BY DEF Neutral, Operands, Costs
      <3> QED BY <2>1, <3>1, FoldEmpty
    <2>2. CASE t # {}
      <3>1. PICK x \in t : Fold(op, f, t) = Combine(op, f[x], Fold(op, f, t \ {x}))
        BY <2>2, FoldFirst, FS_Subset
      <3>2. Fold(op, f, t \ {x}) \in Operands(op) /\ f[x] \in Operands(op)
        BY <1>1
      <3> QED BY <3>1, <3>2, CombineFacts
    <2> QED BY <2>1, <2>2
  <1>2. S \in Q
    <2> HIDE DEF Q
    <2> QED BY <1>1, SubsetInduction
  <1> QED BY <1>2

(* Any element may be taken first.                                           *)
LEMMA FoldRemove ==
    ASSUME NEW op, NEW f, NEW S, IsFiniteSet(S), \A x \in S : f[x] \in Operands(op),
           NEW y \in S
    PROVE  Fold(op, f, S) = Combine(op, f[y], Fold(op, f, S \ {y}))
  <1> DEFINE Q == {t \in SUBSET S : \A z \in t :
                     Fold(op, f, t) = Combine(op, f[z], Fold(op, f, t \ {z}))}
  <1>1. ASSUME NEW t \in SUBSET S, \A x \in t : t \ {x} \in Q
        PROVE  t \in Q
    <2> SUFFICES ASSUME NEW z \in t
                 PROVE  Fold(op, f, t) = Combine(op, f[z], Fold(op, f, t \ {z}))
      OBVIOUS
    <2>1. PICK x \in t : Fold(op, f, t) = Combine(op, f[x], Fold(op, f, t \ {x}))
      BY FoldFirst, FS_Subset
    <2>2. CASE x # z
      <3>1. /\ Fold(op, f, t \ {x}) = Combine(op, f[z], Fold(op, f, (t \ {x}) \ {z}))
            /\ Fold(op, f, t \ {z}) = Combine(op, f[x], Fold(op, f, (t \ {z}) \ {x}))
        BY <1>1, <2>2
      <3>2. (t \ {x}) \ {z} = (t \ {z}) \ {x}
        OBVIOUS
      <3> DEFINE r == Fold(op, f, (t \ {x}) \ {z})
      <3>3. r \in Operands(op) /\ f[x] \in Operands(op) /\ f[z] \in Operands(op)
        <4>1. IsFiniteSet((t \ {x}) \ {z})
          BY FS_Subset
        <4> QED BY <4>1, FoldType
      <3> HIDE DEF r
      <3>4. /\ Combine(op, f[x], Combine(op, f[z], r)) = Combine(op, Combine(op, f[x], f[z]), r)
            /\ Combine(op, f[z], Combine(op, f[x], r)) = Combine(op, Combine(op, f[z], f[x]), r)
            /\ Combine(op, f[x], f[z]) = Combine(op, f[z], f[x])
        BY <3>3, CombineFacts
      <3> QED BY <2>1, <3>1, <3>2, <3>4 DEF r
    <2> QED BY <2>1, <2>2
  <1>2. S \in Q
    <2> HIDE DEF Q
    <2> QED BY <1>1, SubsetInduction
  <1> QED BY <1>2

(* The combination depends on the operands only.                             *)
LEMMA FoldSame ==
    ASSUME NEW op, NEW f, NEW g, NEW S, IsFiniteSet(S),
           \A x \in S : f[x] \in Operands(op) /\ g[x] = f[x]
    PROVE  Fold(op, f, S) = Fold(op, g, S)
  <1> DEFINE Q == {t \in SUBSET S : Fold(op, f, t) = Fold(op, g, t)}
  <1>1. ASSUME NEW t \in SUBSET S, \A x \in t : t \ {x} \in Q
        PROVE  t \in Q
    <2>1. CASE t = {}
      BY <2>1, FoldEmpty
    <2>2. CASE t # {}
      <3>1. PICK x \in t : Fold(op, f, t) = Combine(op, f[x], Fold(op, f, t \ {x}))
        BY <2>2, FoldFirst, FS_Subset
      <3>2. Fold(op, g, t) = Combine(op, g[x], Fold(op, g, t \ {x}))
        <4>1. IsFiniteSet(t) /\ \A y \in t : g[y] \in Operands(op)
          BY FS_Subset
        <4> QED BY <4>1, FoldRemove
      <3>3. Fold(op, f, t \ {x}) = Fold(op, g, t \ {x}) /\ f[x] = g[x]
        BY <1>1
      <3> QED BY <3>1, <3>2, <3>3
    <2> QED BY <2>1, <2>2
  <1>2. S \in Q
    <2> HIDE DEF Q
    <2> QED BY <1>1, SubsetInduction
  <1> QED BY <1>2

(* Two disjoint sets are combined one after the other.                       *)
LEMMA FoldUnion ==
    ASSUME NEW op, NEW f, NEW S, NEW T, IsFiniteSet(S), IsFiniteSet(T), S \cap T = {},
           \A x \in S \cup T : f[x] \in Operands(op)
    PROVE  Fold(op, f, S \cup T) = Combine(op, Fold(op, f, S), Fold(op, f, T))
  <1> DEFINE Q == {t \in SUBSET S :
                     Fold(op, f, t \cup T) = Combine(op, Fold(op, f, t), Fold(op, f, T))}
  <1>0. Fold(op, f, T) \in Operands(op)
    BY FoldType
  <1>1. ASSUME NEW t \in SUBSET S, \A x \in t : t \ {x} \in Q
        PROVE  t \in Q
    <2>0. /\ IsFiniteSet(t)
          /\ IsFiniteSet(t \cup T)
      BY FS_Subset, FS_Union
    <2>1. CASE t = {}
      <3>1. Neutral(op) \in Operands(op)
        BY DEF Neutral, Operands, Costs
      <3>2. /\ Fold(op, f, t) = Neutral(op)
            /\ Combine(op, Fold(op, f, t), Fold(op, f, T)) = Fold(op, f, T)
        BY <1>0, <2>1, <3>1, FoldEmpty, CombineFacts
      <3>3. t \cup T = T
        BY <2>1
      <3> QED BY <3>2, <3>3
    <2>2. CASE t # {}
      <3>1. PICK x : x \in t
        BY <2>2
      <3>2. /\ Fold(op, f, t) = Combine(op, f[x], Fold(op, f, t \ {x}))
            /\ Fold(op, f, t \cup T) = Combine(op, f[x], Fold(op, f, (t \cup T) \ {x}))
        BY <2>0, <3>1, FoldRemove
      <3>3. (t \cup T) \ {x} = (t \ {x}) \cup T
        BY <3>1
      <3>4. Fold(op, f, (t \ {x}) \cup T) =
               Combine(op, Fold(op, f, t \ {x}), Fold(op, f, T))
        BY <1>1, <3>1
      <3>5. f[x] \in Operands(op) /\ Fold(op, f, t \ {x}) \in Operands(op)
        <4>1. IsFiniteSet(t \ {x})
          BY FS_Subset
        <4> QED BY <3>1, <4>1, FoldType
      <3>6. Combine(op, f[x], Combine(op, Fold(op, f, t \ {x}), Fold(op, f, T))) =
            Combine(op, Combine(op, f[x], Fold(op, f, t \ {x})), Fold(op, f, T))
        BY <1>0, <3>5, CombineFacts
      <3> QED BY <3>2, <3>3, <3>4, <3>6
    <2> QED BY <2>1, <2>2
  <1>2. S \in Q
    <2> HIDE DEF Q
    <2> QED BY <1>1, SubsetInduction
  <1> QED BY <1>2

(* A single operand combined is itself.                                      *)
LEMMA FoldSingle ==
    ASSUME NEW op, NEW f, NEW x, f[x] \in Operands(op)
    PROVE  Fold(op, f, {x}) = f[x]
  <1>1. IsFiniteSet({x}) /\ {x} \ {x} = {}
    BY FS_Singleton
  <1>2. Fold(op, f, {x}) = Combine(op, f[x], Neutral(op))
    BY <1>1, FoldRemove, FoldEmpty
  <1> QED BY <1>2, CombineFacts

(* The operands may be renamed.                                              *)
LEMMA FoldRenamed ==
    ASSUME NEW op, NEW h, NEW g, NEW S, IsFiniteSet(S), NEW m, NEW T,
           \A x \in S : m[x] \in T,
           \A z \in T : \E x \in S : z = m[x],
           \A x, y \in S : m[x] = m[y] => x = y,
           \A x \in S : g[x] \in Operands(op) /\ h[m[x]] = g[x]
    PROVE  /\ IsFiniteSet(T)
           /\ Fold(op, h, T) = Fold(op, g, S)
  <1> DEFINE Named(t) == {m[x] : x \in t}
             Q == {t \in SUBSET S : /\ IsFiniteSet(Named(t))
                                    /\ Fold(op, h, Named(t)) = Fold(op, g, t)}
  <1>1. ASSUME NEW t \in SUBSET S, \A x \in t : t \ {x} \in Q
        PROVE  t \in Q
    <2>0. IsFiniteSet(t)
      BY FS_Subset
    <2>1. CASE t = {}
      <3>1. Named(t) = {}
        BY <2>1
      <3> QED BY <2>1, <3>1, FoldEmpty, FS_EmptySet
    <2>2. CASE t # {}
      <3>1. PICK x : x \in t
        BY <2>2
      <3> DEFINE z == m[x]
                 u == Named(t)
                 r == Named(t \ {x})
      <3>2. z \in u /\ u \ {z} = r /\ u = r \cup {z}
        BY <3>1
      <3>3. IsFiniteSet(r) /\ Fold(op, h, r) = Fold(op, g, t \ {x})
        BY <1>1, <3>1
      <3>4. \A y \in u : h[y] \in Operands(op)
        OBVIOUS
      <3>5. h[z] = g[x]
        BY <3>1
      <3> HIDE DEF z, u, r
      <3>6. IsFiniteSet(u)
        <4>1. IsFiniteSet({z})
          BY FS_Singleton
        <4>2. IsFiniteSet(r \cup {z})
          BY <3>3, <4>1, FS_Union
        <4> QED BY <3>2, <4>2
      <3>7. Fold(op, h, u) = Combine(op, h[z], Fold(op, h, u \ {z}))
        BY <3>2, <3>4, <3>6, FoldRemove
      <3>8. Fold(op, g, t) = Combine(op, g[x], Fold(op, g, t \ {x}))
        <4>1. \A y \in t : g[y] \in Operands(op)
          OBVIOUS
        <4> HIDE DEF Q
        <4> QED BY <2>0, <3>1, <4>1, FoldRemove
      <3> QED BY <3>2, <3>3, <3>5, <3>6, <3>7, <3>8 DEF u
    <2> QED BY <2>1, <2>2
  <1>2. S \in Q
    <2> HIDE DEF Q
    <2> QED BY <1>1, SubsetInduction
  <1>3. T = Named(S)
    OBVIOUS
  <1> HIDE DEF Named
  <1> QED BY <1>2, <1>3

(* A set cut into disjoint parts is combined part by part.                   *)
LEMMA FoldParts ==
    ASSUME NEW op, NEW f, NEW K, IsFiniteSet(K), NEW P,
           \A c \in K : /\ IsFiniteSet(P[c])
                        /\ \A x \in P[c] : f[x] \in Operands(op)
                        /\ \A d \in K : c # d => P[c] \cap P[d] = {},
           NEW g, \A c \in K : g[c] = Fold(op, f, P[c]),
           NEW R, \A x : x \in R <=> \E c \in K : x \in P[c]
    PROVE  /\ IsFiniteSet(R)
           /\ \A c \in K : g[c] \in Operands(op)
           /\ Fold(op, f, R) = Fold(op, g, K)
  <1>0. \A c \in K : g[c] \in Operands(op)
    BY FoldType
  <1> DEFINE Over(t) == UNION {P[c] : c \in t}
             Q == {t \in SUBSET K : /\ IsFiniteSet(Over(t))
                                    /\ Fold(op, f, Over(t)) = Fold(op, g, t)}
  <1>1. ASSUME NEW t \in SUBSET K, \A x \in t : t \ {x} \in Q
        PROVE  t \in Q
    <2>1. CASE t = {}
      <3>1. Over(t) = {}
        BY <2>1
      <3> QED BY <2>1, <3>1, FoldEmpty, FS_EmptySet
    <2>2. CASE t # {}
      <3>1. PICK c : c \in t
        BY <2>2
      <3> DEFINE r == Over(t \ {c})
      <3>2. Over(t) = P[c] \cup r /\ P[c] \cap r = {}
        BY <3>1
      <3>3. IsFiniteSet(r) /\ Fold(op, f, r) = Fold(op, g, t \ {c})
        BY <1>1, <3>1
      <3>4. \A x \in P[c] \cup r : f[x] \in Operands(op)
        BY <3>1
      <3> HIDE DEF Over
      <3>5. Fold(op, f, P[c] \cup r) = Combine(op, Fold(op, f, P[c]), Fold(op, f, r))
        <4> HIDE DEF r
        <4> QED BY <3>1, <3>2, <3>3, <3>4, FoldUnion
      <3>6. Fold(op, g, t) = Combine(op, g[c], Fold(op, g, t \ {c}))
        BY <1>0, <3>1, FoldRemove, FS_Subset
      <3>7. IsFiniteSet(P[c] \cup r)
        BY <3>1, <3>3, FS_Union
      <3> QED BY <3>1, <3>2, <3>3, <3>5, <3>6, <3>7
    <2> QED BY <2>1, <2>2
  <1>2. K \in Q
    <2> HIDE DEF Q
    <2> QED BY <1>1, SubsetInduction
  <1>3. R = Over(K)
    OBVIOUS
  <1> HIDE DEF Over
  <1> QED BY <1>0, <1>2, <1>3

-----------------------------------------------------------------------------
(* Costs.                                                                    *)

SumOf(f, S) == Fold("sum", f, S)

(* c is not above d; forbidden is above every finite cost.                   *)
AtMost(c, d) == ~ Cheaper(d, c)

(* The order of Cost.__lt__ is total, and adding a cost to both sides keeps  *)
(* it.                                                                       *)
LEMMA AtMostFacts ==
    ASSUME NEW c \in Costs, NEW d \in Costs, NEW e \in Costs
    PROVE  /\ AtMost(c, c)
           /\ AtMost(c, d) /\ AtMost(d, e) => AtMost(c, e)
           /\ AtMost(c, d) /\ AtMost(d, c) => c = d
           /\ AtMost(c, d) \/ AtMost(d, c)
           /\ AtMost(c, d) => AtMost(Plus(e, c), Plus(e, d))
           /\ AtMost(c, Plus(c, e))
           /\ AtMost(c, d) /\ d # Forbidden => c # Forbidden
  BY DEF AtMost, Cheaper, Costs, Plus, Forbidden

(* Cost.__add__ is associative and commutative, and a finite sum has finite  *)
(* terms.                                                                    *)
LEMMA PlusFacts ==
    ASSUME NEW c \in Costs, NEW d \in Costs, NEW e \in Costs
    PROVE  /\ Plus(c, d) \in Costs
           /\ Plus(c, d) = Plus(d, c)
           /\ Plus(c, Plus(d, e)) = Plus(Plus(c, d), e)
           /\ Plus(c, 0) = c /\ 0 \in Costs
           /\ Plus(c, d) # Forbidden => c # Forbidden /\ d # Forbidden
  BY DEF Costs, Plus, Forbidden

(* The facts about folds, said of sums.                                      *)
LEMMA SumFacts ==
    ASSUME NEW f, NEW S, IsFiniteSet(S), \A x \in S : f[x] \in Costs
    PROVE  /\ SumOf(f, S) \in Costs
           /\ \A x \in S : SumOf(f, S) = Plus(f[x], SumOf(f, S \ {x}))
  BY FoldType, FoldRemove DEF SumOf, Operands, Combine

(* No terms cost nothing.                                                    *)
LEMMA SumEmpty == ASSUME NEW f PROVE SumOf(f, {}) = 0
  BY FoldEmpty DEF SumOf, Neutral

(* A sum depends on its terms only.                                          *)
LEMMA SumSame ==
    ASSUME NEW f, NEW g, NEW S, IsFiniteSet(S), \A x \in S : f[x] \in Costs /\ g[x] = f[x]
    PROVE  SumOf(f, S) = SumOf(g, S)
  BY FoldSame DEF SumOf, Operands

(* Two disjoint sets of terms are added one after the other.                 *)
LEMMA SumUnion ==
    ASSUME NEW f, NEW S, NEW T, IsFiniteSet(S), IsFiniteSet(T), S \cap T = {},
           \A x \in S \cup T : f[x] \in Costs
    PROVE  SumOf(f, S \cup T) = Plus(SumOf(f, S), SumOf(f, T))
  <1>1. \A x \in S \cup T : f[x] \in Operands("sum")
    BY DEF Operands
  <1>2. Fold("sum", f, S \cup T) = Combine("sum", Fold("sum", f, S), Fold("sum", f, T))
    BY <1>1, FoldUnion
  <1> QED BY <1>2 DEF SumOf, Combine

(* A sum of smaller terms is smaller.                                        *)
LEMMA SumAtMost ==
    ASSUME NEW f, NEW g, NEW S, IsFiniteSet(S),
           \A x \in S : f[x] \in Costs /\ g[x] \in Costs /\ AtMost(f[x], g[x])
    PROVE  AtMost(SumOf(f, S), SumOf(g, S))
  <1> DEFINE Q == {t \in SUBSET S : AtMost(SumOf(f, t), SumOf(g, t))}
  <1>1. ASSUME NEW t \in SUBSET S, \A x \in t : t \ {x} \in Q
        PROVE  t \in Q
    <2>1. CASE t = {}
      <3>1. SumOf(f, t) = 0 /\ SumOf(g, t) = 0
        BY <2>1, SumEmpty
      <3>2. AtMost(0, 0)
        BY DEF AtMost, Cheaper
      <3> QED BY <3>1, <3>2
    <2>2. CASE t # {}
      <3>1. PICK x : x \in t
        BY <2>2
      <3> DEFINE fr == SumOf(f, t \ {x})
                 gr == SumOf(g, t \ {x})
      <3>2. IsFiniteSet(t) /\ IsFiniteSet(t \ {x})
        BY FS_Subset
      <3>3. SumOf(f, t) = Plus(f[x], fr) /\ SumOf(g, t) = Plus(g[x], gr)
        BY <3>1, <3>2, SumFacts
      <3>4. fr \in Costs /\ gr \in Costs
        BY <3>2, SumFacts
      <3>5. AtMost(fr, gr)
        BY <1>1, <3>1
      <3> HIDE DEF fr, gr
      <3>6. f[x] \in Costs /\ g[x] \in Costs /\ AtMost(f[x], g[x])
        BY <3>1
      <3>7. AtMost(Plus(f[x], fr), Plus(f[x], gr))
        BY <3>4, <3>5, <3>6, AtMostFacts
      <3>8. AtMost(Plus(gr, f[x]), Plus(gr, g[x]))
        BY <3>4, <3>6, AtMostFacts
      <3>9. Plus(gr, f[x]) = Plus(f[x], gr) /\ Plus(gr, g[x]) = Plus(g[x], gr)
        BY <3>4, <3>6, PlusFacts
      <3>10. AtMost(Plus(f[x], fr), Plus(g[x], gr))
        <4>1. /\ Plus(f[x], fr) \in Costs
              /\ Plus(f[x], gr) \in Costs
              /\ Plus(g[x], gr) \in Costs
          BY <3>4, <3>6, PlusFacts
        <4> QED BY <3>7, <3>8, <3>9, <4>1, AtMostFacts
      <3> QED BY <3>3, <3>10
    <2> QED BY <2>1, <2>2
  <1>2. S \in Q
    <2> HIDE DEF Q
    <2> QED BY <1>1, SubsetInduction
  <1> QED BY <1>2

(* The fold of the model is the sum.                                         *)
FoldPlus(f, S) ==
    LET iter[s \in SUBSET S] ==
          IF s = {} THEN 0
          ELSE LET x == CHOOSE x \in s : TRUE
               IN  Plus(f[x], iter[s \ {x}])
    IN  iter[S]

(* The recursive function under Total computes the sum.                      *)
LEMMA FoldPlusIsSum ==
    ASSUME NEW f, NEW S, IsFiniteSet(S)
    PROVE  FoldPlus(f, S) = SumOf(f, S)
  <1> DEFINE Step(g, s) == IF s = {} THEN 0
                           ELSE LET x == CHOOSE x \in s : TRUE
                                IN  Plus(f[x], g[s \ {x}])
             iter == CHOOSE g : g = [s \in SUBSET S |-> Step(g, s)]
  <1>1. PICK g : Folds("sum", f, S, g)
    BY FoldsExist
  <1>2. \A h : Folds("sum", f, S, h) <=> h = [s \in SUBSET S |-> Step(h, s)]
    BY DEF Folds, FoldStep, Combine, Neutral
  <1>3. g = [s \in SUBSET S |-> Step(g, s)]
    BY <1>1, <1>2
  <1>4. iter = [s \in SUBSET S |-> Step(iter, s)]
    BY <1>3
  <1>5. Folds("sum", f, S, iter)
    BY <1>2, <1>4
  <1>6. iter[S] = SumOf(f, S)
    <2> HIDE DEF iter
    <2> QED BY <1>5, FoldIs DEF SumOf
  <1>7. FoldPlus(f, S) = iter[S]
    BY DEF FoldPlus
  <1> QED BY <1>6, <1>7

(* FoldFunction of the community modules, with the addition of costs, is     *)
(* that recursive function.                                                  *)
LEMMA FoldFunctionPlus ==
    ASSUME NEW f
    PROVE  FoldFunction(Plus, 0, f) = FoldPlus(f, DOMAIN f)
  BY DEF FoldFunction, FoldFunctionOnSet, MapThenFoldSet, FoldPlus

FoldTimes(f, S) ==
    LET iter[s \in SUBSET S] ==
          IF s = {} THEN 1
          ELSE LET x == CHOOSE x \in s : TRUE
               IN  f[x] * iter[s \ {x}]
    IN  iter[S]

(* The recursive function under Entries computes the product.                *)
LEMMA FoldTimesIsFold ==
    ASSUME NEW f, NEW S, IsFiniteSet(S)
    PROVE  FoldTimes(f, S) = Fold("product", f, S)
  <1> DEFINE Step(g, s) == IF s = {} THEN 1
                           ELSE LET x == CHOOSE x \in s : TRUE
                                IN  f[x] * g[s \ {x}]
             iter == CHOOSE g : g = [s \in SUBSET S |-> Step(g, s)]
  <1>1. PICK g : Folds("product", f, S, g)
    BY FoldsExist
  <1>2. \A h : Folds("product", f, S, h) <=> h = [s \in SUBSET S |-> Step(h, s)]
    BY DEF Folds, FoldStep, Combine, Neutral
  <1>3. g = [s \in SUBSET S |-> Step(g, s)]
    BY <1>1, <1>2
  <1>4. iter = [s \in SUBSET S |-> Step(iter, s)]
    BY <1>3
  <1>5. Folds("product", f, S, iter)
    BY <1>2, <1>4
  <1>6. iter[S] = Fold("product", f, S)
    <2> HIDE DEF iter
    <2> QED BY <1>5, FoldIs
  <1>7. FoldTimes(f, S) = iter[S]
    BY DEF FoldTimes
  <1> QED BY <1>6, <1>7

(* What check_size compares with the budget is the product of the sizes of   *)
(* the domains.                                                              *)
LEMMA EntriesIsFold ==
    ASSUME NEW dom, IsFiniteSet(DOMAIN dom)
    PROVE  Entries(dom) = Fold("product", [n \in DOMAIN dom |-> Cardinality(dom[n])], DOMAIN dom)
  <1> DEFINE f == [n \in DOMAIN dom |-> Cardinality(dom[n])]
  <1>1. Entries(dom) = FoldTimes(f, DOMAIN f)
    BY DEF Entries, FoldFunction, FoldFunctionOnSet, MapThenFoldSet, FoldTimes
  <1> QED BY <1>1, FoldTimesIsFold

(* What the rest of a run uses of the tree: the order of the ancestors, the  *)
(* children, and the separators.                                             *)
Order ==
    /\ ancestors \in [Agents -> Seq(Agents)]
    /\ root \in Agents
    /\ \A a \in Agents :
          /\ a \notin Above(a)
          /\ \A b \in Above(a) : b \in Agents /\ Above(b) \subseteq Above(a) /\ a \notin Above(b)
          /\ \A x, y \in Above(a) : x = y \/ x \in Above(y) \/ y \in Above(x)
          /\ Parent(a) = NoAgent <=> a = root
          /\ IF a = root THEN Above(a) = {}
             ELSE /\ Parent(a) \in Agents
                  /\ Above(a) = Above(Parent(a)) \cup {Parent(a)}
                  /\ Len(ancestors[a]) = Len(ancestors[Parent(a)]) + 1

Offspring ==
    /\ children \in [Agents -> Seq(Agents)]
    /\ \A a \in Agents :
          /\ IsInjective(children[a])
          /\ \A c \in Agents : c \in ToSet(children[a]) <=> Parent(c) = a
          /\ \A d \in Agents : a \in Above(d) =>
                \E c \in ToSet(children[a]) : d = c \/ c \in Above(d)

Edges ==
    /\ nbrs \in [Agents -> SUBSET Agents]
    /\ \A a \in Agents : \A n \in nbrs[a] :
          a # n /\ a \in nbrs[n] /\ (n \in Above(a) \/ a \in Above(n))

Separators ==
    /\ separator \in [Agents -> SUBSET Agents]
    /\ \A a \in Agents :
          /\ separator[a] = Boundary(a)
          /\ \A c \in ToSet(children[a]) : childSep[a][c] = separator[c]

(* Every path starts at the root, and a parent is a neighbour.               *)
Linked ==
    \A a \in Agents : a # root => root \in Above(a) /\ Parent(a) \in nbrs[a]

Tree == Order /\ Offspring /\ Edges /\ Separators /\ Linked

(* A parent keeps the separator its child reported.                          *)
ReportedSeparators ==
    \A a \in Agents : \A c \in ToSet(children[a]) : childSep[a][c] = separator[c]

(* A finished search that reached every agent has built such a tree; what    *)
(* the search keeps true of the path, the edges and the children comes from  *)
(* TreeInv.                                                                  *)
LEMMA TreeBuilt ==
    ASSUME TreeInv, Late = {}, Spanned, ReportedSeparators
    PROVE  Tree
  <1>1. /\ TypeOK
        /\ Undirected
        /\ Ancestry(phase, ancestors)
        /\ Rooted(nbrs, root, phase, ancestors)
        /\ CompleteEdges(nbrs, phase, ancestors)
        /\ Adopted(phase, ancestors, children, Late)
    BY DEF TreeInv
  <1>2. /\ nbrs \in [Agents -> SUBSET Agents]
        /\ root \in Agents
        /\ ancestors \in [Agents -> Seq(Agents)]
        /\ children \in [Agents -> Seq(Agents)]
        /\ separator \in [Agents -> SUBSET Agents]
    BY <1>1 DEF TypeOK
  <1>3. \A a \in Agents : phase[a] = "ready" /\ phase[a] # "new"
    BY DEF Spanned
  <1>4. \A a \in Agents :
           /\ Parent(a) = NoAgent <=> ancestors[a] = <<>>
           /\ \A b \in Agents :
                 Parent(a) = b <=> /\ ancestors[a] # <<>>
                                   /\ ancestors[a][Len(ancestors[a])] = b
    BY <1>1, Parents
  <1>5. \A a \in Agents : ancestors[a] = <<>> <=> a = root
    BY <1>1, <1>3 DEF Rooted
  <1>6. \A a \in Agents :
           /\ a \notin Above(a)
           /\ \A b \in Above(a) : b \in Agents /\ Above(b) \subseteq Above(a) /\ a \notin Above(b)
           /\ \A x, y \in Above(a) : x = y \/ x \in Above(y) \/ y \in Above(x)
    BY <1>1, Paths DEF Above
  <1>7. ASSUME NEW a \in Agents
        PROVE  IF a = root THEN Above(a) = {}
               ELSE /\ Parent(a) \in Agents
                    /\ Above(a) = Above(Parent(a)) \cup {Parent(a)}
                    /\ Len(ancestors[a]) = Len(ancestors[Parent(a)]) + 1
    <2>1. CASE a = root
      <3>1. ancestors[a] = <<>>
        BY <1>5, <2>1
      <3> QED BY <2>1, <3>1 DEF Above, ToSet
    <2>2. CASE a # root
      <3>1. ancestors[a] # <<>>
        BY <1>5, <2>2
      <3> DEFINE p == ancestors[a][Len(ancestors[a])]
      <3>2. IsParent(p, a, phase, ancestors)
        BY <1>1, <3>1, ParentPath
      <3> HIDE DEF p
      <3>3. p \in Agents
        BY <3>2 DEF IsParent
      <3>4. Parent(a) = p
        BY <1>4, <3>1, <3>3 DEF p
      <3>5. Above(a) = Above(p) \cup {p}
        BY <3>2 DEF IsParent, Above
      <3>6. Len(ancestors[a]) = Len(ancestors[p]) + 1
        <4>1. Len(ancestors[a]) \in Nat
          BY <1>2
        <4> QED BY <3>2, <4>1 DEF IsParent
      <3> QED BY <2>2, <3>3, <3>4, <3>5, <3>6
    <2> QED BY <2>1, <2>2
  <1>8. Order
    BY <1>2, <1>4, <1>5, <1>6, <1>7 DEF Order
  <1>9. ASSUME NEW a \in Agents, NEW c \in Agents
        PROVE  c \in ToSet(children[a]) <=> Parent(c) = a
    <2>1. c \in ToSet(children[a]) <=>
            ancestors[c] # <<>> /\ ancestors[c][Len(ancestors[c])] = a
      BY <1>1, <1>3 DEF Adopted
    <2> QED BY <1>4, <2>1
  <1>10. ASSUME NEW a \in Agents, NEW d \in Agents, a \in Above(d)
         PROVE  \E c \in ToSet(children[a]) : d = c \/ c \in Above(d)
    <2> DEFINE k == Len(ancestors[d])
    <2>1. k \in Nat /\ ancestors[d] \in Seq(Agents)
      BY <1>2
    <2>2. PICK i \in 1..k : ancestors[d][i] = a
      BY <1>10, <2>1, ToSetIndex DEF Above
    <2> HIDE DEF k
    <2>3. CASE i = k
      <3>1. k > 0
        BY <2>1, <2>2, <2>3
      <3>2. ancestors[d] # <<>>
        BY <2>1, <3>1 DEF k
      <3>3. Parent(d) = a
        BY <1>4, <2>2, <2>3, <3>2 DEF k
      <3> QED BY <1>9, <3>3
    <2>4. CASE i # k
      <3>1. i \in Nat /\ i + 1 \in 1..k
        BY <2>1, <2>2, <2>4
      <3> DEFINE c == ancestors[d][i + 1]
      <3>2. /\ c \in Agents
            /\ c \in Above(d)
            /\ Len(ancestors[c]) = (i + 1) - 1
            /\ \A j \in 1..(i + 1) - 1 : ancestors[c][j] = ancestors[d][j]
        BY <1>1, <3>1, PathElements DEF k, Above
      <3> HIDE DEF c
      <3>3. Len(ancestors[c]) = i /\ ancestors[c][i] = a /\ i > 0
        <4>1. (i + 1) - 1 = i /\ i \in 1..i /\ i > 0
          BY <2>1, <2>2
        <4> QED BY <2>2, <3>2, <4>1
      <3>4. ancestors[c] # <<>>
        BY <3>3
      <3>5. Parent(c) = a
        BY <1>4, <3>2, <3>3, <3>4
      <3> QED BY <1>9, <3>2, <3>5
    <2> QED BY <2>3, <2>4
  <1>11. Offspring
    BY <1>1, <1>2, <1>9, <1>10 DEF Offspring, Adopted
  <1>12. Edges
    <2> SUFFICES ASSUME NEW a \in Agents, NEW n \in nbrs[a]
                 PROVE  a # n /\ a \in nbrs[n] /\ (n \in Above(a) \/ a \in Above(n))
      BY <1>2 DEF Edges
    <2>1. n \in Agents
      BY <1>2
    <2> QED BY <1>1, <1>3, <2>1 DEF Undirected, CompleteEdges, Covered, Above
  <1>13. Separators
    BY <1>2, SeparatorIsBoundary DEF Separators, ReportedSeparators
  <1>14. ASSUME NEW a \in Agents, a # root
         PROVE  root \in Above(a) /\ Parent(a) \in nbrs[a]
    <2>1. ancestors[a] # <<>> /\ ancestors[a] \in Seq(Agents)
      BY <1>2, <1>5, <1>14
    <2>2. 1 \in 1..Len(ancestors[a])
      BY <2>1
    <2> DEFINE r == ancestors[a][1]
    <2>3. r \in Agents /\ r \in Above(a) /\ Len(ancestors[r]) = 1 - 1
      BY <1>1, <2>2, PathElements DEF Above
    <2> DEFINE p == ancestors[a][Len(ancestors[a])]
    <2>4. p \in nbrs[a]
      BY <1>1, <1>3, <2>1 DEF Rooted
    <2> HIDE DEF r, p
    <2>5. ancestors[r] = <<>>
      <3>1. ancestors[r] \in Seq(Agents) /\ Len(ancestors[r]) = 0
        BY <1>2, <2>3
      <3> QED BY <3>1
    <2>6. r = root
      BY <1>5, <2>3, <2>5
    <2>7. p \in Agents
      BY <1>2, <2>4
    <2>8. Parent(a) = p
      BY <1>4, <2>1, <2>7 DEF p
    <2> QED BY <2>3, <2>4, <2>6, <2>8
  <1> QED BY <1>8, <1>11, <1>12, <1>13, <1>14 DEF Tree, Linked

(* What lies below an agent.                                                 *)
LEMMA SubtreeParts ==
    ASSUME Tree, NEW a \in Agents
    PROVE  /\ Subtree(a) = {a} \cup UNION {Subtree(c) : c \in ToSet(children[a])}
           /\ \A c \in ToSet(children[a]) :
                 /\ c \in Agents
                 /\ Parent(c) = a
                 /\ a \in Above(c)
                 /\ Above(c) = Above(a) \cup {a}
                 /\ a \notin Subtree(c)
                 /\ Above(a) \cap Subtree(c) = {}
                 /\ \A d \in ToSet(children[a]) : c # d => Subtree(c) \cap Subtree(d) = {}
           /\ Above(a) \cap Subtree(a) = {}
  <1> DEFINE K == ToSet(children[a])
  <1>1. ASSUME NEW c \in K
        PROVE  c \in Agents /\ Parent(c) = a /\ Above(c) = Above(a) \cup {a}
    <2>1. c \in Agents
      <3>1. children[a] \in Seq(Agents)
        BY DEF Tree, Offspring
      <3> QED BY <3>1 DEF ToSet
    <2>2. Parent(c) = a
      BY <2>1 DEF Tree, Offspring
    <2>3. a # NoAgent
      BY AgentsAssumption DEF NoAgent
    <2> QED BY <2>1, <2>2, <2>3 DEF Tree, Order
  <1>2. \A c \in K : a \in Above(c)
    BY <1>1
  <1> HIDE DEF K
  <1>3. \A b \in Agents :
           /\ b \notin Above(b)
           /\ \A x \in Above(b) : x \in Agents /\ Above(x) \subseteq Above(b) /\ b \notin Above(x)
           /\ \A x, y \in Above(b) : x = y \/ x \in Above(y) \/ y \in Above(x)
    BY DEF Tree, Order
  <1>4. Above(a) \cap Subtree(a) = {}
    BY <1>3 DEF Subtree
  <1>5. ASSUME NEW c \in K
        PROVE  a \notin Subtree(c) /\ Above(a) \cap Subtree(c) = {}
    <2>1. c \in Agents /\ a \in Above(c) /\ Above(a) \subseteq Above(c)
      BY <1>1
    <2>2. Above(c) \cap Subtree(c) = {}
      BY <1>3, <2>1 DEF Subtree
    <2> QED BY <2>1, <2>2
  <1>6. ASSUME NEW c \in K, NEW d \in K, c # d, NEW x \in Subtree(c) \cap Subtree(d)
        PROVE  FALSE
    <2>1. /\ c \in Agents /\ d \in Agents
          /\ x \in Agents
          /\ x = c \/ c \in Above(x)
          /\ x = d \/ d \in Above(x)
      BY <1>1 DEF Subtree
    <2>2. c \in Above(d) \/ d \in Above(c)
      BY <1>3, <1>6, <2>1
    <2>3. /\ Above(c) = Above(a) \cup {a}
          /\ Above(d) = Above(a) \cup {a}
          /\ a \in Above(c) /\ a \in Above(d)
      BY <1>1
    <2>4. c \notin Above(a) /\ d \notin Above(a) /\ c # a /\ d # a
      BY <1>3, <2>1, <2>3
    <2> QED BY <2>2, <2>3, <2>4
  <1>7. ASSUME NEW d
        PROVE  d \in Subtree(a) <=> d = a \/ \E c \in K : d \in Subtree(c)
    <2>1. ASSUME d \in Subtree(a), d # a
          PROVE  \E c \in K : d \in Subtree(c)
      <3>1. d \in Agents /\ a \in Above(d)
        BY <2>1 DEF Subtree
      <3>2. PICK c \in K : d = c \/ c \in Above(d)
        BY <3>1 DEF Tree, Offspring, K
      <3> QED BY <3>1, <3>2 DEF Subtree
    <2>2. ASSUME NEW c \in K, d \in Subtree(c)
          PROVE  d \in Subtree(a)
      <3>1. d \in Agents /\ c \in Agents /\ (d = c \/ c \in Above(d)) /\ a \in Above(c)
        BY <1>1, <1>2, <2>2 DEF Subtree
      <3>2. a \in Above(d)
        BY <1>3, <3>1
      <3> QED BY <3>1, <3>2 DEF Subtree
    <2>3. a \in Subtree(a)
      BY DEF Subtree
    <2> QED BY <2>1, <2>2, <2>3
  <1>8. Subtree(a) = {a} \cup UNION {Subtree(c) : c \in K}
    BY <1>7
  <1> QED BY <1>1, <1>2, <1>4, <1>5, <1>6, <1>8 DEF K

(* The separator of an agent is above it, and it holds every agent outside   *)
(* the subtree with an edge into it.                                         *)
LEMMA SeparatorAbove ==
    ASSUME Tree, NEW a \in Agents
    PROVE  /\ separator[a] \subseteq Above(a)
           /\ \A n \in Agents : \A d \in Subtree(a) :
                 n \in nbrs[d] => n \in Subtree(a) \/ n \in separator[a]
           /\ \A n \in separator[a] : \E d \in Subtree(a) : n \in nbrs[d]
  <1>1. \A b \in Agents :
           /\ b \notin Above(b)
           /\ \A x \in Above(b) : x \in Agents /\ Above(x) \subseteq Above(b) /\ b \notin Above(x)
           /\ \A x, y \in Above(b) : x = y \/ x \in Above(y) \/ y \in Above(x)
    BY DEF Tree, Order
  <1>2. \A b \in Agents : \A n \in nbrs[b] :
           n \in Agents /\ b \in nbrs[n] /\ (n \in Above(b) \/ b \in Above(n))
    BY DEF Tree, Edges
  <1>3. separator[a] = Boundary(a)
    BY DEF Tree, Separators
  <1>4. Subtree(a) \subseteq Agents
    BY DEF Subtree
  <1>5. ASSUME NEW n \in separator[a]
        PROVE  n \in Above(a) /\ \E d \in Subtree(a) : n \in nbrs[d]
    <2>1. PICK d \in Subtree(a) : d \in nbrs[n]
      BY <1>3 DEF Boundary
    <2>2. n \in Agents /\ n \notin Subtree(a)
      BY <1>3 DEF Boundary
    <2>3. d \in Agents /\ n \in nbrs[d] /\ (d \in Above(n) \/ n \in Above(d))
      BY <1>2, <1>4, <2>1, <2>2
    <2>4. d = a \/ a \in Above(d)
      BY <2>1 DEF Subtree
    <2>5. n # a /\ a \notin Above(n)
      BY <2>2 DEF Subtree
    <2>6. d \notin Above(n)
      BY <1>1, <2>2, <2>4, <2>5
    <2>7. n \in Above(a)
      BY <1>1, <2>3, <2>4, <2>5, <2>6
    <2> QED BY <2>1, <2>3, <2>7
  <1>6. ASSUME NEW n \in Agents, NEW d \in Subtree(a), n \in nbrs[d]
        PROVE  n \in Subtree(a) \/ n \in separator[a]
    BY <1>2, <1>3, <1>4, <1>6 DEF Boundary
  <1> QED BY <1>5, <1>6

(* A context gives each name one of its values.                              *)
LEMMA InContexts ==
    ASSUME NEW dom, NEW v
    PROVE  v \in Contexts(dom) <=> /\ v = [n \in DOMAIN dom |-> v[n]]
                                   /\ \A n \in DOMAIN dom : v[n] \in dom[n]
  <1>1. ASSUME v \in Contexts(dom)
        PROVE  v = [n \in DOMAIN dom |-> v[n]] /\ \A n \in DOMAIN dom : v[n] \in dom[n]
    BY <1>1 DEF Contexts
  <1>2. ASSUME v = [n \in DOMAIN dom |-> v[n]], \A n \in DOMAIN dom : v[n] \in dom[n]
        PROVE  v \in Contexts(dom)
    <2>1. \A n \in DOMAIN dom : v[n] \in UNION Range(dom)
      BY <1>2 DEF Range
    <2>2. v \in [DOMAIN dom -> UNION Range(dom)]
      BY <1>2, <2>1
    <2> QED BY <1>2, <2>2 DEF Contexts
  <1> QED BY <1>1, <1>2

(* The separator of an agent, from its own edges and its children's.         *)
LEMMA SeparatorParts ==
    ASSUME Tree, NEW a \in Agents
    PROVE  /\ \A c \in ToSet(children[a]) : separator[c] \subseteq separator[a] \cup {a}
           /\ nbrs[a] \cap Above(a) \subseteq separator[a]
           /\ \A n \in separator[a] :
                 \/ n \in nbrs[a] /\ n \in Above(a)
                 \/ \E c \in ToSet(children[a]) : n \in separator[c]
  <1>1. /\ separator[a] \subseteq Above(a)
        /\ \A n \in Agents : \A d \in Subtree(a) :
              n \in nbrs[d] => n \in Subtree(a) \/ n \in separator[a]
        /\ \A n \in separator[a] : \E d \in Subtree(a) : n \in nbrs[d]
    BY SeparatorAbove
  <1>2. /\ Subtree(a) = {a} \cup UNION {Subtree(c) : c \in ToSet(children[a])}
        /\ \A c \in ToSet(children[a]) : c \in Agents /\ Above(c) = Above(a) \cup {a}
        /\ Above(a) \cap Subtree(a) = {}
    BY SubtreeParts
  <1>3. \A x \in Above(a) : x \in Agents
    BY DEF Tree, Order
  <1>4. a \in Subtree(a)
    BY DEF Subtree
  <1>5. ASSUME NEW c \in ToSet(children[a]), NEW n \in separator[c]
        PROVE  n \in separator[a] \cup {a}
    <2>1. n \in Above(c) /\ \E d \in Subtree(c) : n \in nbrs[d]
      BY <1>2, SeparatorAbove
    <2>2. PICK d \in Subtree(c) : n \in nbrs[d]
      BY <2>1
    <2>3. d \in Subtree(a) /\ (n = a \/ n \in Above(a))
      BY <1>2, <2>1
    <2> QED BY <1>1, <1>2, <1>3, <2>2, <2>3
  <1>6. ASSUME NEW n \in nbrs[a] \cap Above(a)
        PROVE  n \in separator[a]
    BY <1>1, <1>2, <1>3, <1>4
  <1>7. ASSUME NEW n \in separator[a]
        PROVE  \/ n \in nbrs[a] /\ n \in Above(a)
               \/ \E c \in ToSet(children[a]) : n \in separator[c]
    <2>1. n \in Above(a) /\ n \in Agents
      BY <1>1, <1>3
    <2>2. PICK d \in Subtree(a) : n \in nbrs[d]
      BY <1>1
    <2>3. CASE d = a
      BY <2>1, <2>2, <2>3
    <2>4. CASE d # a
      <3>1. PICK c \in ToSet(children[a]) : d \in Subtree(c)
        BY <1>2, <2>4
      <3>2. n \notin Subtree(c)
        BY <1>2, <2>1, SubtreeParts
      <3>3. n \in separator[c]
        BY <1>2, <2>1, <2>2, <3>1, <3>2, SeparatorAbove
      <3> QED BY <3>3
    <2> QED BY <2>3, <2>4
  <1> QED BY <1>5, <1>6, <1>7

-----------------------------------------------------------------------------
(* Factors.                                                                  *)

Given == problem \in Problems /\ nbrs = NeighborsIn(problem)

Factors == DOMAIN problem.factors
ScopeOf(k) == Scope(problem.factors[k])

(* A factor mentions some agents, and any two agents that it mentions are    *)
(* neighbours.                                                               *)
LEMMA FactorFacts ==
    ASSUME Given, NEW k \in Factors
    PROVE  /\ ScopeOf(k) \subseteq Agents
           /\ ScopeOf(k) # {}
           /\ \A x, y \in ScopeOf(k) : x # y => x \in nbrs[y]
  <1>1. ScopeOf(k) \subseteq Agents /\ Cardinality(ScopeOf(k)) \in {1, 2}
    BY ProblemsAssumption DEF Given, Factors, ScopeOf
  <1>2. ScopeOf(k) # {}
    BY <1>1, FS_EmptySet
  <1>3. ASSUME NEW x \in ScopeOf(k), NEW y \in ScopeOf(k), x # y
        PROVE  x \in nbrs[y]
    <2>1. y \in Agents
      BY <1>1
    <2>2. nbrs[y] = (UNION {Scope(problem.factors[j]) : j \in {j \in DOMAIN problem.factors :
                                               y \in Scope(problem.factors[j])}}) \ {y}
      BY <2>1 DEF Given, NeighborsIn
    <2>3. k \in {j \in DOMAIN problem.factors : y \in Scope(problem.factors[j])}
      BY DEF Factors, ScopeOf
    <2>4. x \in Scope(problem.factors[k])
      BY DEF ScopeOf
    <2> QED BY <1>3, <2>2, <2>3, <2>4
  <1> QED BY <1>1, <1>2, <1>3

(* A factor that mentions two agents mentions no other.                      *)
LEMMA FactorPair ==
    ASSUME Given, NEW k \in Factors, NEW x \in ScopeOf(k), NEW y \in ScopeOf(k), x # y,
           NEW w \in ScopeOf(k)
    PROVE  w = x \/ w = y
  <1>1. ScopeOf(k) \subseteq Agents /\ Cardinality(ScopeOf(k)) \in {1, 2} /\ IsFiniteSet(Agents)
    BY ProblemsAssumption DEF Given, Factors, ScopeOf
  <1>2. IsFiniteSet(ScopeOf(k))
    BY <1>1, FS_Subset
  <1>3. /\ IsFiniteSet(ScopeOf(k) \ {x})
        /\ Cardinality(ScopeOf(k) \ {x}) = Cardinality(ScopeOf(k)) - 1
    BY <1>2, FS_RemoveElement
  <1>4. /\ IsFiniteSet((ScopeOf(k) \ {x}) \ {y})
        /\ Cardinality((ScopeOf(k) \ {x}) \ {y}) = Cardinality(ScopeOf(k) \ {x}) - 1
    BY <1>3, FS_RemoveElement
  <1>5. Cardinality((ScopeOf(k) \ {x}) \ {y}) \in Nat
    BY <1>4, FS_CardinalityType
  <1>6. Cardinality((ScopeOf(k) \ {x}) \ {y}) = 0
    BY <1>1, <1>3, <1>4, <1>5
  <1>7. (ScopeOf(k) \ {x}) \ {y} = {}
    BY <1>4, <1>6, FS_EmptySet
  <1> QED BY <1>7

(* The factors of a subtree are those its root owns and those of the         *)
(* subtrees below it, each exactly once.                                     *)
LEMMA FactorParts ==
    ASSUME Tree, Given, NEW a \in Agents
    PROVE  /\ SubtreeFactors(a) = OwnedFactors(a)
                 \cup UNION {SubtreeFactors(c) : c \in ToSet(children[a])}
           /\ \A c \in ToSet(children[a]) :
                 /\ OwnedFactors(a) \cap SubtreeFactors(c) = {}
                 /\ \A d \in ToSet(children[a]) :
                       c # d => SubtreeFactors(c) \cap SubtreeFactors(d) = {}
           /\ \A k \in OwnedFactors(a) : k \in Factors /\ a \in ScopeOf(k)
                                         /\ ScopeOf(k) \subseteq separator[a] \cup {a}
           /\ \A k \in SubtreeFactors(a) : k \in Factors
                                           /\ ScopeOf(k) \subseteq Subtree(a) \cup separator[a]
  <1> DEFINE K == ToSet(children[a])
  <1>1. /\ Subtree(a) = {a} \cup UNION {Subtree(c) : c \in K}
        /\ \A c \in K :
              /\ c \in Agents
              /\ Parent(c) = a
              /\ a \in Above(c)
              /\ Above(c) = Above(a) \cup {a}
              /\ a \notin Subtree(c)
              /\ Above(a) \cap Subtree(c) = {}
              /\ \A d \in K : c # d => Subtree(c) \cap Subtree(d) = {}
        /\ Above(a) \cap Subtree(a) = {}
    BY SubtreeParts
  <1> HIDE DEF K
  <1>2. \A k \in Factors : /\ ScopeOf(k) \subseteq Agents
                           /\ ScopeOf(k) # {}
                           /\ \A x, y \in ScopeOf(k) : x # y => x \in nbrs[y]
    BY FactorFacts
  <1>3. /\ OwnedFactors(a) = {k \in Factors : a \in ScopeOf(k) /\ ScopeOf(k) \ {a} \subseteq Above(a)}
        /\ \A b : SubtreeFactors(b) = {k \in Factors : ScopeOf(k) \cap Subtree(b) # {}}
    BY DEF OwnedFactors, SubtreeFactors, Factors, ScopeOf
  <1>4. ASSUME NEW b \in Agents, NEW k \in SubtreeFactors(b)
        PROVE  k \in Factors /\ ScopeOf(k) \subseteq Subtree(b) \cup separator[b]
    <2>1. k \in Factors
      BY <1>3
    <2>2. PICK d \in ScopeOf(k) : d \in Subtree(b)
      BY <1>3
    <2>3. ASSUME NEW n \in ScopeOf(k)
          PROVE  n \in Subtree(b) \cup separator[b]
      <3>1. n \in Agents /\ (n = d \/ n \in nbrs[d])
        BY <1>2, <2>1, <2>2
      <3>2. n \in nbrs[d] => n \in Subtree(b) \/ n \in separator[b]
        BY <2>2, <3>1, SeparatorAbove
      <3> QED BY <2>2, <3>1, <3>2
    <2> QED BY <2>1, <2>3
  <1>5. \A c \in K : separator[c] \subseteq Above(a) \cup {a}
    BY <1>1, SeparatorAbove
  <1>6. ASSUME NEW k \in OwnedFactors(a)
        PROVE  /\ k \in Factors /\ a \in ScopeOf(k)
               /\ ScopeOf(k) \subseteq separator[a] \cup {a}
    <2>1. k \in Factors /\ a \in ScopeOf(k) /\ ScopeOf(k) \ {a} \subseteq Above(a)
      BY <1>3
    <2>2. \A n \in ScopeOf(k) \ {a} : n \in nbrs[a]
      BY <1>2, <2>1
    <2>3. nbrs[a] \cap Above(a) \subseteq separator[a]
      BY SeparatorParts
    <2> QED BY <2>1, <2>2, <2>3
  <1>7. ASSUME NEW c \in K, NEW k \in OwnedFactors(a) \cap SubtreeFactors(c)
        PROVE  FALSE
    BY <1>1, <1>3
  <1>8. ASSUME NEW c \in K, NEW d \in K, c # d, NEW k \in SubtreeFactors(c) \cap SubtreeFactors(d)
        PROVE  FALSE
    <2>1. PICK x \in ScopeOf(k) : x \in Subtree(c)
      BY <1>3
    <2>2. ScopeOf(k) \subseteq Subtree(d) \cup separator[d]
      BY <1>1, <1>4, <1>8
    <2>3. x \in Subtree(d) \/ x \in Above(a) \/ x = a
      BY <1>5, <2>1, <2>2
    <2> QED BY <1>1, <1>8, <2>1, <2>3
  <1>9. ASSUME NEW k
        PROVE  k \in SubtreeFactors(a) <=>
                  k \in OwnedFactors(a) \/ \E c \in K : k \in SubtreeFactors(c)
    <2>1. ASSUME k \in SubtreeFactors(a), \A c \in K : k \notin SubtreeFactors(c)
          PROVE  k \in OwnedFactors(a)
      <3>1. k \in Factors /\ ScopeOf(k) \subseteq Subtree(a) \cup separator[a]
        BY <1>4, <2>1
      <3>2. ScopeOf(k) \cap Subtree(a) \subseteq {a}
        BY <1>1, <1>3, <2>1, <3>1
      <3>3. a \in ScopeOf(k)
        BY <1>3, <2>1, <3>2
      <3>4. separator[a] \subseteq Above(a)
        BY SeparatorAbove
      <3> QED BY <1>3, <3>1, <3>2, <3>3, <3>4
    <2>2. ASSUME k \in OwnedFactors(a)
          PROVE  k \in SubtreeFactors(a)
      BY <1>1, <1>3, <2>2
    <2>3. ASSUME NEW c \in K, k \in SubtreeFactors(c)
          PROVE  k \in SubtreeFactors(a)
      BY <1>1, <1>3, <2>3
    <2> QED BY <2>1, <2>2, <2>3
  <1>10. SubtreeFactors(a) = OwnedFactors(a) \cup UNION {SubtreeFactors(c) : c \in K}
    BY <1>9
  <1> QED BY <1>4, <1>6, <1>7, <1>8, <1>10 DEF K

(* Every assignment of all agents, what the factors cost in it, and the      *)
(* entry a table holds for it.                                               *)
World == Contexts(problem.dom)
Local(v) == [k \in Factors |-> problem.factors[k].at[Restrict(v, ScopeOf(k))]]
At(t, v) == t.at[Restrict(v, Scope(t))]

(* t is a table over the agents of S, with the domains of the problem.       *)
TableOver(t, S) ==
    /\ t.dom = Restrict(problem.dom, S)
    /\ t.at \in [Contexts(t.dom) -> Costs]

(* What every problem provides: finite domains, finitely many factors, and a *)
(* table of costs for each of them.                                          *)
LEMMA DomainFacts ==
    ASSUME Given
    PROVE  /\ DOMAIN problem.dom = Agents
           /\ \A n \in Agents : /\ problem.dom[n] # {}
                                /\ problem.dom[n] \subseteq Nat \ {NoValue}
                                /\ IsFiniteSet(problem.dom[n])
           /\ IsFiniteSet(Factors)
           /\ \A k \in Factors : TableOver(problem.factors[k], ScopeOf(k))
           /\ IsFiniteSet(Agents)
  <1>1. problem \in Problems
    BY DEF Given
  <1>2. /\ DOMAIN problem.dom = Agents
        /\ \A n \in Agents : /\ problem.dom[n] # {}
                             /\ problem.dom[n] \subseteq Nat \ {NoValue}
                             /\ IsFiniteSet(problem.dom[n])
        /\ IsFiniteSet(DOMAIN problem.factors)
        /\ IsFiniteSet(Agents)
    BY <1>1, ProblemsAssumption
  <1>3. ASSUME NEW k \in Factors
        PROVE  TableOver(problem.factors[k], ScopeOf(k))
    BY <1>1, ProblemsAssumption DEF Factors, TableOver, ScopeOf, Costs
  <1> QED BY <1>2, <1>3 DEF Factors

(* An assignment of all agents gives each agent one of its values.           *)
LEMMA InWorld ==
    ASSUME Given, NEW v
    PROVE  v \in World <=> /\ v = [n \in Agents |-> v[n]]
                           /\ \A n \in Agents : v[n] \in problem.dom[n]
  BY DomainFacts, InContexts DEF World

(* A context of some of the agents is part of an assignment of all.          *)
LEMMA Extend ==
    ASSUME Given, NEW S, S \subseteq Agents
    PROVE  /\ \A v \in World : Restrict(v, S) \in Contexts(Restrict(problem.dom, S))
           /\ \A w \in Contexts(Restrict(problem.dom, S)) :
                 /\ w = [n \in S |-> w[n]]
                 /\ \A n \in S : w[n] \in problem.dom[n]
                 /\ \E v \in World : w = Restrict(v, S)
  <1> DEFINE dom == Restrict(problem.dom, S)
  <1>1. DOMAIN dom = S /\ \A n \in S : dom[n] = problem.dom[n]
    BY DEF Restrict
  <1> HIDE DEF dom
  <1>2. ASSUME NEW v \in World
        PROVE  Restrict(v, S) \in Contexts(dom)
    <2>1. \A n \in S : v[n] \in problem.dom[n]
      BY InWorld
    <2> DEFINE w == Restrict(v, S)
    <2>2. w = [n \in S |-> w[n]] /\ \A n \in S : w[n] = v[n]
      BY DEF Restrict
    <2> HIDE DEF w
    <2> QED BY <1>1, <2>1, <2>2, InContexts DEF w
  <1>3. ASSUME NEW w \in Contexts(dom)
        PROVE  /\ w = [n \in S |-> w[n]]
               /\ \A n \in S : w[n] \in problem.dom[n]
               /\ \E v \in World : w = Restrict(v, S)
    <2>1. w = [n \in S |-> w[n]] /\ \A n \in S : w[n] \in problem.dom[n]
      BY <1>1, InContexts
    <2> DEFINE v == [n \in Agents |-> IF n \in S THEN w[n] ELSE CHOOSE d \in problem.dom[n] : TRUE]
    <2>2. \A n \in Agents : v[n] \in problem.dom[n]
      BY <2>1, DomainFacts
    <2>3. v = [n \in Agents |-> v[n]] /\ \A n \in S : v[n] = w[n]
      OBVIOUS
    <2> HIDE DEF v
    <2>4. v \in World
      BY <2>2, <2>3, InWorld
    <2>5. Restrict(v, S) = [n \in S |-> v[n]]
      BY DEF Restrict
    <2>6. [n \in S |-> v[n]] = [n \in S |-> w[n]]
      BY <2>3
    <2> QED BY <2>1, <2>4, <2>5, <2>6
  <1> QED BY <1>2, <1>3 DEF dom

(* The value of one agent may be changed, and the values of a set of agents  *)
(* may be taken from another assignment.                                     *)
LEMMA Change ==
    ASSUME Given, NEW v \in World, NEW a \in Agents, NEW d \in problem.dom[a]
    PROVE  /\ With(v, a, d) \in World
           /\ With(v, a, d)[a] = d
           /\ \A n \in Agents : n # a => With(v, a, d)[n] = v[n]
  <1>1. v = [n \in Agents |-> v[n]] /\ \A n \in Agents : v[n] \in problem.dom[n]
    BY InWorld
  <1>2. DOMAIN v = Agents
    BY <1>1
  <1> DEFINE w == With(v, a, d)
  <1>3. /\ w = [n \in Agents |-> IF n = a THEN d ELSE v[n]]
    <2>1. Agents \cup {a} = Agents
      OBVIOUS
    <2> QED BY <1>2, <2>1 DEF With
  <1>4. w = [n \in Agents |-> w[n]] /\ \A n \in Agents : w[n] \in problem.dom[n]
    BY <1>1, <1>3
  <1> QED BY <1>3, <1>4, InWorld

(* A restriction depends on the values of the names that it keeps.           *)
LEMMA RestrictSame ==
    ASSUME NEW u, NEW v, NEW S, \A n \in S : u[n] = v[n]
    PROVE  Restrict(u, S) = Restrict(v, S)
  BY DEF Restrict

(* A table only depends on the values of its scope.                          *)
LEMMA TableFacts ==
    ASSUME Given, NEW S, S \subseteq Agents, NEW t, TableOver(t, S)
    PROVE  /\ Scope(t) = S
           /\ \A v : At(t, v) = t.at[Restrict(v, S)]
           /\ \A v \in World : At(t, v) \in Costs
  <1>1. Scope(t) = S
    BY DEF TableOver, Scope, Restrict
  <1>2. \A v \in World : Restrict(v, S) \in Contexts(t.dom)
    BY Extend DEF TableOver
  <1> QED BY <1>1, <1>2 DEF TableOver, At

(* A table holds the same entry for two assignments that agree on its scope. *)
LEMMA TableSame ==
    ASSUME Given, NEW S, S \subseteq Agents, NEW t, TableOver(t, S),
           NEW u, NEW v, \A n \in S : u[n] = v[n]
    PROVE  At(t, u) = At(t, v)
  <1>1. Restrict(u, S) = Restrict(v, S)
    BY RestrictSame
  <1>2. Scope(t) = S
    BY TableFacts
  <1> QED BY <1>1, <1>2 DEF At

(* The entry of a factor is a cost, and depends on the agents of the factor. *)
LEMMA LocalFacts ==
    ASSUME Given, NEW k \in Factors
    PROVE  /\ \A v : Local(v)[k] = At(problem.factors[k], v)
           /\ \A v \in World : Local(v)[k] \in Costs
           /\ \A u, v : (\A n \in ScopeOf(k) : u[n] = v[n]) => Local(u)[k] = Local(v)[k]
  <1>1. TableOver(problem.factors[k], ScopeOf(k)) /\ ScopeOf(k) \subseteq Agents
    BY DomainFacts, FactorFacts
  <1>2. \A v : Local(v)[k] = At(problem.factors[k], v)
    BY DEF Local, At, ScopeOf
  <1>3. \A v \in World : At(problem.factors[k], v) \in Costs
    BY <1>1, TableFacts
  <1>4. ASSUME NEW u, NEW v, \A n \in ScopeOf(k) : u[n] = v[n]
        PROVE  Local(u)[k] = Local(v)[k]
    <2>1. At(problem.factors[k], u) = At(problem.factors[k], v)
      BY <1>1, <1>4, TableSame
    <2> QED BY <1>2, <2>1
  <1> QED BY <1>2, <1>3, <1>4

-----------------------------------------------------------------------------
(* Joining tables adds their entries.                                        *)

Joinable(family) ==
    /\ IsFiniteSet(DOMAIN family)
    /\ \A k \in DOMAIN family : /\ Scope(family[k]) \subseteq Agents
                                /\ TableOver(family[k], Scope(family[k]))

JoinedScope(family) == UNION {Scope(family[k]) : k \in DOMAIN family}

(* join: the tables have no conflicting domains, and each entry of the       *)
(* result is the sum of the entries of the tables.                           *)
LEMMA JoinFacts ==
    ASSUME Given, NEW family, Joinable(family)
    PROVE  /\ SameDomains(family)
           /\ JoinedScope(family) \subseteq Agents
           /\ JoinedDomains(family) = Restrict(problem.dom, JoinedScope(family))
           /\ TableOver(Join(family), JoinedScope(family))
           /\ \A v \in World : At(Join(family), v) =
                 SumOf([k \in DOMAIN family |-> At(family[k], v)], DOMAIN family)
  <1> DEFINE U == JoinedScope(family)
  <1>1. \A k \in DOMAIN family : /\ Scope(family[k]) \subseteq Agents
                                 /\ Scope(family[k]) \subseteq U
                                 /\ TableOver(family[k], Scope(family[k]))
    BY DEF Joinable, JoinedScope
  <1>2. U \subseteq Agents /\ \A n \in U : \E k \in DOMAIN family : n \in Scope(family[k])
    BY <1>1 DEF JoinedScope
  <1>3. \A k \in DOMAIN family : \A n \in Scope(family[k]) : family[k].dom[n] = problem.dom[n]
    BY <1>1 DEF TableOver, Restrict
  <1>4. SameDomains(family)
    BY <1>3 DEF SameDomains
  <1>5. JoinedDomains(family) = Restrict(problem.dom, U)
    <2> DEFINE k(n) == CHOOSE k \in DOMAIN family : n \in Scope(family[k])
    <2>1. \A n \in U : family[k(n)].dom[n] = problem.dom[n]
      <3>1. \A n \in U : k(n) \in DOMAIN family /\ n \in Scope(family[k(n)])
        BY <1>2
      <3> HIDE DEF k
      <3> QED BY <1>3, <3>1
    <2>2. JoinedDomains(family) = [n \in U |-> family[k(n)].dom[n]]
      BY DEF JoinedDomains, JoinedScope
    <2>3. Restrict(problem.dom, U) = [n \in U |-> problem.dom[n]]
      BY DEF Restrict
    <2> HIDE DEF k, U
    <2> QED BY <2>1, <2>2, <2>3
  <1> HIDE DEF U
  <1> DEFINE t == Join(family)
             entries(v) == [k \in DOMAIN family |-> At(family[k], v)]
  <1>6. t.dom = Restrict(problem.dom, U) /\ t.at = [w \in Contexts(t.dom) |-> Total(family, w)]
    BY <1>5 DEF Join
  <1>7. ASSUME NEW v \in World
        PROVE  Total(family, Restrict(v, U)) = SumOf(entries(v), DOMAIN family)
    <2> DEFINE w == Restrict(v, U)
               f == [k \in DOMAIN family |-> family[k].at[Restrict(w, Scope(family[k]))]]
    <2>1. ASSUME NEW k \in DOMAIN family
          PROVE  Restrict(w, Scope(family[k])) = Restrict(v, Scope(family[k]))
      <3>1. \A n \in Scope(family[k]) : w[n] = v[n]
        BY <1>1 DEF Restrict
      <3> HIDE DEF w
      <3> QED BY <3>1, RestrictSame
    <2>2. f = entries(v)
      <3> HIDE DEF w
      <3> QED BY <2>1 DEF At
    <2>3. DOMAIN f = DOMAIN family /\ IsFiniteSet(DOMAIN family)
      BY DEF Joinable
    <2>4. Total(family, w) = FoldPlus(f, DOMAIN f)
      BY FoldFunctionPlus DEF Total
    <2> HIDE DEF f, entries, w
    <2> QED BY <2>2, <2>3, <2>4, FoldPlusIsSum DEF w
  <1>8. \A v \in World : SumOf(entries(v), DOMAIN family) \in Costs
    <2> SUFFICES ASSUME NEW v \in World PROVE SumOf(entries(v), DOMAIN family) \in Costs
      OBVIOUS
    <2>1. \A k \in DOMAIN family : entries(v)[k] \in Costs
      <3>1. \A k \in DOMAIN family : At(family[k], v) \in Costs
        BY <1>1, TableFacts
      <3> QED BY <3>1
    <2> HIDE DEF entries
    <2> QED BY <2>1, SumFacts DEF Joinable
  <1>9. TableOver(t, U)
    <2>1. \A w \in Contexts(t.dom) : Total(family, w) \in Costs
      <3>1. \A w \in Contexts(t.dom) : \E v \in World : w = Restrict(v, U)
        BY <1>2, <1>6, Extend
      <3> HIDE DEF t, entries
      <3> QED BY <1>7, <1>8, <3>1
    <2> HIDE DEF t
    <2> QED BY <1>6, <2>1 DEF TableOver
  <1>10. ASSUME NEW v \in World
         PROVE  At(t, v) = SumOf(entries(v), DOMAIN family)
    <2>1. At(t, v) = t.at[Restrict(v, U)]
      <3> HIDE DEF t
      <3> QED BY <1>2, <1>9, TableFacts
    <2>2. Restrict(v, U) \in Contexts(t.dom)
      BY <1>2, <1>6, Extend
    <2> HIDE DEF t, entries
    <2> QED BY <1>6, <1>7, <2>1, <2>2
  <1> QED BY <1>2, <1>4, <1>5, <1>9, <1>10 DEF U

(* A nonempty set of costs has a least one.                                  *)
LEMMA LeastCost ==
    ASSUME NEW C, C \subseteq Costs, C # {}
    PROVE  \E c \in C : \A e \in C : ~ Cheaper(e, c)
  <1>1. CASE C \subseteq {Forbidden}
    BY <1>1 DEF Cheaper
  <1>2. CASE ~ (C \subseteq {Forbidden})
    <2> DEFINE N == C \ {Forbidden}
    <2>1. N \subseteq Nat /\ N # {}
      BY <1>2 DEF Costs
    <2>2. Min(N) \in N /\ \A y \in N : Min(N) <= y
      <3> HIDE DEF N
      <3> QED BY <2>1, MinIsLeast
    <2>3. \A e \in C : ~ Cheaper(e, Min(N))
      <3>1. \A e \in C : e = Forbidden \/ e \in N
        OBVIOUS
      <3>2. Min(N) \in Nat
        BY <2>1, <2>2
      <3>3. \A e \in N : Min(N) <= e /\ e \in Nat
        BY <2>1, <2>2
      <3> DEFINE m == Min(N)
      <3> HIDE DEF m, N
      <3>4. ASSUME NEW e \in C PROVE ~ Cheaper(e, m)
        <4>1. m \in Nat /\ (e = Forbidden \/ (e \in Nat /\ m <= e))
          BY <3>1, <3>2, <3>3 DEF m
        <4> QED BY <4>1 DEF Cheaper, Forbidden
      <3> QED BY <3>4 DEF m
    <2> QED BY <2>2, <2>3
  <1> QED BY <1>1, <1>2

(* r holds the least entry of t over the values of a, and a choice that      *)
(* attains it.                                                               *)
Minimized(U, a, t, r) ==
    /\ TableOver(r.table, U \ {a})
    /\ \A v \in World :
          /\ AtMost(At(r.table, v), At(t, v))
          /\ \E d \in problem.dom[a] : At(r.table, v) = At(t, With(v, a, d))
          /\ LET d == r.choice[Restrict(v, U \ {a})]
             IN  IF At(r.table, v) = Forbidden THEN d = NoValue
                 ELSE /\ d \in problem.dom[a]
                      /\ At(r.table, v) = At(t, With(v, a, d))

(* minimize: every entry of the result is the least of the agent's values,   *)
(* and the choice attains it, or there is none.                              *)
LEMMA MinimizeFacts ==
    ASSUME Given, NEW U, U \subseteq Agents, NEW a \in U, NEW t, TableOver(t, U)
    PROVE  Minimized(U, a, t, Minimize(t, a))
  <1> DEFINE r == Minimize(t, a)
             S == U \ {a}
             dom == Restrict(problem.dom, S)
             cost(w, d) == t.at[With(w, a, d)]
             costs(w) == {cost(w, d) : d \in t.dom[a]}
             best(w) == CHOOSE c \in costs(w) : \A e \in costs(w) : ~ Cheaper(e, c)
             first(w) == IF best(w) = Forbidden THEN NoValue
                         ELSE Min({d \in t.dom[a] : cost(w, d) = best(w)})
  <1>1. S \subseteq Agents /\ a \in Agents /\ Scope(t) = U /\ t.dom[a] = problem.dom[a]
        /\ Restrict(t.dom, Scope(t) \ {a}) = dom
    <2>1. Scope(t) = U /\ t.dom[a] = problem.dom[a]
      BY DEF TableOver, Restrict, Scope
    <2>2. \A n \in S : t.dom[n] = problem.dom[n]
      BY DEF TableOver, Restrict
    <2>3. Restrict(t.dom, S) = Restrict(problem.dom, S)
      BY <2>2, RestrictSame
    <2> QED BY <2>1, <2>3
  <1>2. /\ r.table.dom = dom
        /\ r.table.at = [w \in Contexts(dom) |-> best(w)]
        /\ \A w \in Contexts(dom) : r.choice[w] = first(w)
    <2> DEFINE tdom == Restrict(t.dom, Scope(t) \ {a})
               b == [w \in Contexts(tdom) |-> best(w)]
               f == [w \in Contexts(tdom) |-> IF b[w] = Forbidden THEN NoValue
                        ELSE Min({d \in t.dom[a] : cost(w, d) = b[w]})]
    <2>1. r = [table |-> [dom |-> tdom, at |-> b], choice |-> f]
      BY DEF Minimize
    <2>2. tdom = dom
      BY <1>1
    <2> HIDE DEF r, tdom, dom
    <2>3. \A w \in Contexts(tdom) : b[w] = best(w)
      OBVIOUS
    <2>4. \A w \in Contexts(tdom) : f[w] = first(w)
      <3> HIDE DEF best, cost
      <3> QED BY <2>3
    <2>5. r.table.dom = tdom /\ r.table.at = b /\ r.choice = f
      <3> HIDE DEF b, f
      <3> QED BY <2>1
    <2> HIDE DEF f, first
    <2> QED BY <2>2, <2>4, <2>5
  <1>3. \A n \in Agents : problem.dom[n] # {} /\ problem.dom[n] \subseteq Nat
    BY DomainFacts
  <1>4. ASSUME NEW v \in World, NEW d \in problem.dom[a]
        PROVE  /\ cost(Restrict(v, S), d) = At(t, With(v, a, d))
               /\ At(t, With(v, a, d)) \in Costs
    <2>1. At(t, With(v, a, d)) = t.at[Restrict(With(v, a, d), U)]
      BY TableFacts
    <2>2. With(v, a, d) \in World
      BY <1>1, Change
    <2>3. Restrict(With(v, a, d), U) = With(Restrict(v, S), a, d)
      <3>1. DOMAIN Restrict(v, S) \cup {a} = U /\ \A n \in S : Restrict(v, S)[n] = v[n]
        BY DEF Restrict
      <3>2. DOMAIN v \cup {a} = Agents
        BY <1>1, InWorld
      <3>3. With(v, a, d) = [n \in Agents |-> IF n = a THEN d ELSE v[n]]
        BY <3>2 DEF With
      <3>4. With(Restrict(v, S), a, d) = [n \in U |-> IF n = a THEN d ELSE Restrict(v, S)[n]]
        BY <3>1 DEF With
      <3>5. Restrict(With(v, a, d), U) = [n \in U |-> IF n = a THEN d ELSE v[n]]
        BY <3>3 DEF Restrict
      <3> QED BY <3>1, <3>4, <3>5
    <2>4. At(t, With(v, a, d)) \in Costs
      BY <2>2, TableFacts
    <2> QED BY <2>1, <2>3, <2>4
  <1>5. ASSUME NEW v \in World
        PROVE  LET w == Restrict(v, S)
               IN  /\ w \in Contexts(dom)
                   /\ best(w) \in Costs
                   /\ AtMost(best(w), At(t, v))
                   /\ \E d \in problem.dom[a] : best(w) = At(t, With(v, a, d))
                   /\ IF best(w) = Forbidden THEN first(w) = NoValue
                      ELSE /\ first(w) \in problem.dom[a]
                           /\ best(w) = At(t, With(v, a, first(w)))
    <2> DEFINE w == Restrict(v, S)
    <2>1. w \in Contexts(dom)
      BY <1>1, Extend
    <2>2. costs(w) \subseteq Costs /\ costs(w) # {}
      BY <1>1, <1>3, <1>4
    <2>3. best(w) \in costs(w) /\ \A e \in costs(w) : ~ Cheaper(e, best(w))
      <3> HIDE DEF costs, w
      <3> QED BY <2>2, LeastCost
    <2>4. PICK d \in problem.dom[a] : best(w) = cost(w, d)
      <3> HIDE DEF best, cost
      <3> QED BY <1>1, <2>3
    <2>5. v[a] \in problem.dom[a] /\ At(t, With(v, a, v[a])) = At(t, v)
      <3>1. v[a] \in problem.dom[a]
        BY <1>1, InWorld
      <3>2. \A n \in U : With(v, a, v[a])[n] = v[n]
        BY <1>1, <3>1, Change
      <3>3. Restrict(With(v, a, v[a]), U) = Restrict(v, U)
        BY <3>2, RestrictSame
      <3>4. \A x : At(t, x) = t.at[Restrict(x, U)]
        BY TableFacts
      <3> QED BY <3>1, <3>3, <3>4
    <2>6. cost(w, v[a]) \in costs(w)
      <3> HIDE DEF cost, w
      <3> QED BY <1>1, <2>5
    <2>7. AtMost(best(w), At(t, v))
      <3>1. cost(w, v[a]) = At(t, v)
        BY <1>4, <2>5
      <3> HIDE DEF best, costs, cost, w
      <3> QED BY <2>3, <2>6, <3>1 DEF AtMost
    <2>8. ASSUME best(w) # Forbidden
          PROVE  first(w) \in problem.dom[a] /\ best(w) = cost(w, first(w))
      <3> DEFINE D == {e \in t.dom[a] : cost(w, e) = best(w)}
      <3>1. D \subseteq Nat /\ D # {}
        BY <1>1, <1>3, <2>4
      <3>2. Min(D) \in D
        <4> HIDE DEF D
        <4> QED BY <3>1, MinIsLeast
      <3>3. first(w) = Min(D)
        BY <2>8
      <3> HIDE DEF first, best, cost, w
      <3> QED BY <1>1, <3>2, <3>3
    <2>9. best(w) = Forbidden => first(w) = NoValue
      OBVIOUS
    <2>10. best(w) \in Costs
      <3> HIDE DEF best, costs, w
      <3> QED BY <2>2, <2>3
    <2> HIDE DEF best, first, costs
    <2>11. \E e \in problem.dom[a] : best(w) = At(t, With(v, a, e))
      BY <1>4, <2>4
    <2>12. best(w) # Forbidden => /\ first(w) \in problem.dom[a]
                                  /\ best(w) = At(t, With(v, a, first(w)))
      BY <1>4, <2>8
    <2> QED BY <2>1, <2>7, <2>9, <2>10, <2>11, <2>12
  <1> HIDE DEF best, first, costs, r, dom, S
  <1>6. TableOver(r.table, S)
    <2>1. \A w \in Contexts(dom) : \E v \in World : w = Restrict(v, S)
      BY <1>1, Extend DEF dom
    <2>2. \A w \in Contexts(dom) : best(w) \in Costs
      BY <1>5, <2>1
    <2> QED BY <1>2, <2>2 DEF TableOver, dom
  <1>7. ASSUME NEW v \in World
        PROVE  At(r.table, v) = best(Restrict(v, S)) /\ r.choice[Restrict(v, S)] = first(Restrict(v, S))
    <2>1. At(r.table, v) = r.table.at[Restrict(v, S)]
      BY <1>1, <1>6, TableFacts
    <2>2. Restrict(v, S) \in Contexts(dom)
      BY <1>5
    <2> QED BY <1>2, <2>1, <2>2
  <1>8. Minimized(U, a, t, r)
    <2>1. \A v \in World :
             /\ AtMost(At(r.table, v), At(t, v))
             /\ \E d \in problem.dom[a] : At(r.table, v) = At(t, With(v, a, d))
             /\ LET d == r.choice[Restrict(v, S)]
                IN  IF At(r.table, v) = Forbidden THEN d = NoValue
                    ELSE /\ d \in problem.dom[a]
                         /\ At(r.table, v) = At(t, With(v, a, d))
      BY <1>5, <1>7
    <2> QED BY <1>6, <2>1 DEF Minimized, S
  <1> QED BY <1>8 DEF r

(* What the factors of a subtree cost in an assignment.                      *)
Below(a, v) == SumOf(Local(v), SubtreeFactors(a))

(* u differs from v in the agents of S at most.                              *)
Outside(S, u, v) == \A n \in Agents \ S : u[n] = v[n]

(* The table t of agent a never promises less than the subtree of a costs,   *)
(* and some values of the subtree cost what it promises.                     *)
Exact(a, t) ==
    /\ TableOver(t, separator[a])
    /\ \A v \in World :
          /\ AtMost(At(t, v), Below(a, v))
          /\ \E u \in World : Outside(Subtree(a), u, v) /\ Below(a, u) = At(t, v)

(* The choice that belongs to the table is part of such values.              *)
Attains(a, t, choice) ==
    \A v \in World :
        LET d == choice[Restrict(v, separator[a])]
        IN  IF At(t, v) = Forbidden THEN d = NoValue
            ELSE /\ d \in problem.dom[a]
                 /\ \E u \in World : /\ Outside(Subtree(a), u, v)
                                     /\ u[a] = d
                                     /\ Below(a, u) = At(t, v)

(* The sets that the sums run over are finite.                               *)
LEMMA FiniteParts ==
    ASSUME Tree, Given, NEW a \in Agents
    PROVE  /\ IsFiniteSet(OwnedFactors(a)) /\ OwnedFactors(a) \subseteq Factors
           /\ IsFiniteSet(SubtreeFactors(a)) /\ SubtreeFactors(a) \subseteq Factors
           /\ IsFiniteSet(ToSet(children[a])) /\ ToSet(children[a]) \subseteq Agents
           /\ separator[a] \subseteq Agents
  <1>1. OwnedFactors(a) \subseteq Factors /\ SubtreeFactors(a) \subseteq Factors
    BY DEF OwnedFactors, SubtreeFactors, Factors
  <1>2. ToSet(children[a]) \subseteq Agents
    BY SubtreeParts
  <1>3. separator[a] \subseteq Agents
    BY DEF Tree, Separators
  <1> QED BY <1>1, <1>2, <1>3, DomainFacts, FS_Subset

(* A subtree costs a cost.                                                   *)
LEMMA BelowCost ==
    ASSUME Tree, Given, NEW a \in Agents, NEW v \in World
    PROVE  Below(a, v) \in Costs
  BY FiniteParts, LocalFacts, SumFacts DEF Below

(* The cost of a subtree depends on the subtree and its separator only.      *)
LEMMA BelowSame ==
    ASSUME Tree, Given, NEW a \in Agents, NEW u \in World, NEW v \in World,
           \A n \in Subtree(a) \cup separator[a] : u[n] = v[n]
    PROVE  Below(a, u) = Below(a, v)
  <1>1. \A k \in SubtreeFactors(a) : k \in Factors /\ ScopeOf(k) \subseteq Subtree(a) \cup separator[a]
    BY FactorParts
  <1>2. \A k \in SubtreeFactors(a) : Local(u)[k] \in Costs /\ Local(v)[k] = Local(u)[k]
    <2> SUFFICES ASSUME NEW k \in SubtreeFactors(a)
                 PROVE  Local(u)[k] \in Costs /\ Local(v)[k] = Local(u)[k]
      OBVIOUS
    <2>1. k \in Factors /\ \A n \in ScopeOf(k) : u[n] = v[n]
      BY <1>1
    <2> QED BY <2>1, LocalFacts
  <1> QED BY <1>2, FiniteParts, SumSame DEF Below

(* The cost of a subtree is the cost of the factors its root owns and of the *)
(* subtrees below.                                                           *)
LEMMA BelowParts ==
    ASSUME Tree, Given, NEW a \in Agents, NEW v \in World
    PROVE  Below(a, v) = Plus(SumOf(Local(v), OwnedFactors(a)),
                              SumOf([c \in ToSet(children[a]) |-> Below(c, v)], ToSet(children[a])))
  <1> DEFINE K == ToSet(children[a])
             O == OwnedFactors(a)
             P == [c \in K |-> SubtreeFactors(c)]
             g == [c \in K |-> Below(c, v)]
             R == UNION {P[c] : c \in K}
  <1>1. /\ SubtreeFactors(a) = O \cup UNION {SubtreeFactors(c) : c \in K}
        /\ \A c \in K : /\ O \cap SubtreeFactors(c) = {}
                        /\ \A d \in K : c # d => SubtreeFactors(c) \cap SubtreeFactors(d) = {}
    BY FactorParts
  <1>2. R = UNION {SubtreeFactors(c) : c \in K}
    BY Zenon
  <1>3. IsFiniteSet(O) /\ O \subseteq Factors /\ IsFiniteSet(K) /\ K \subseteq Agents
    BY FiniteParts
  <1>4. \A c \in K : IsFiniteSet(SubtreeFactors(c)) /\ SubtreeFactors(c) \subseteq Factors
    BY <1>3, FiniteParts
  <1>5. \A k \in Factors : Local(v)[k] \in Costs
    BY LocalFacts
  <1>6. /\ IsFiniteSet(R)
        /\ SumOf(Local(v), R) = SumOf(g, K)
    <2>1. \A c \in K : /\ P[c] = SubtreeFactors(c)
                       /\ g[c] = Fold("sum", Local(v), SubtreeFactors(c))
      BY DEF Below, SumOf
    <2>2. \A c \in K : /\ IsFiniteSet(P[c])
                       /\ \A x \in P[c] : Local(v)[x] \in Operands("sum")
                       /\ \A d \in K : c # d => P[c] \cap P[d] = {}
      <3> HIDE DEF P, g
      <3>1. \A x \in Factors : Local(v)[x] \in Operands("sum")
        BY <1>5 DEF Operands
      <3> QED BY <1>1, <1>4, <2>1, <3>1
    <2>3. \A c \in K : g[c] = Fold("sum", Local(v), P[c])
      <3> HIDE DEF P, g
      <3> QED BY <2>1
    <2>4. \A x : x \in R <=> \E c \in K : x \in P[c]
      <3> HIDE DEF P, K
      <3> QED OBVIOUS
    <2> HIDE DEF P, g, K, R
    <2> QED BY <1>3, <2>2, <2>3, <2>4, FoldParts DEF SumOf
  <1>7. O \cap R = {}
    <2> HIDE DEF O, K
    <2> QED BY <1>1, <1>2
  <1>8. \A x \in O \cup R : Local(v)[x] \in Costs
    <2> HIDE DEF O, K, R
    <2> QED BY <1>2, <1>3, <1>4, <1>5
  <1>9. SumOf(Local(v), O \cup R) = Plus(SumOf(Local(v), O), SumOf(Local(v), R))
    <2> HIDE DEF O, R
    <2> QED BY <1>3, <1>6, <1>7, <1>8, SumUnion
  <1>10. SubtreeFactors(a) = O \cup R
    BY <1>1, <1>2
  <1> HIDE DEF O, R, g
  <1> QED BY <1>6, <1>9, <1>10 DEF Below, O, g

(* What an agent joins holds its factors and the tables of its children; its *)
(* scope is the agent and its separator.                                     *)
LEMMA ContributionFacts ==
    ASSUME Tree, Given, NEW a \in Agents, NEW tables, DOMAIN tables = ToSet(children[a]),
           \A c \in DOMAIN tables : TableOver(tables[c], separator[c])
    PROVE  LET family == Contributions(a, tables)
           IN  /\ Joinable(family)
               /\ JoinedScope(family) = separator[a] \cup {a}
               /\ \A v \in World :
                     At(Join(family), v) =
                        Plus(SumOf(Local(v), OwnedFactors(a)),
                             SumOf([c \in ToSet(children[a]) |-> At(tables[c], v)],
                                 ToSet(children[a])))
  <1> DEFINE K == ToSet(children[a])
             O == OwnedFactors(a)
             L == {"local"} \X O
             C == {"child"} \X K
             own == [n \in {a} |-> problem.dom[n]]
             zero == [dom |-> own, at |-> [v \in Contexts(own) |-> 0]]
             z == <<"zero", a>>
             member(k) == CASE k[1] = "local" -> problem.factors[k[2]]
                            [] k[1] = "child" -> tables[k[2]]
                            [] k[1] = "zero" -> zero
             spare == IF \E k \in L \cup C : a \in Scope(member(k)) THEN {} ELSE {z}
             family == [k \in L \cup C \cup spare |-> member(k)]
  <1>1. Contributions(a, tables) = family
    BY DEF Contributions
  <1>2. IsFiniteSet(O) /\ O \subseteq Factors /\ IsFiniteSet(K) /\ K \subseteq Agents
        /\ separator[a] \subseteq Agents
    BY FiniteParts
  <1>3. /\ \A k \in O : k \in Factors /\ a \in ScopeOf(k)
                        /\ ScopeOf(k) \subseteq separator[a] \cup {a}
        /\ \A c \in K : separator[c] \subseteq separator[a] \cup {a}
    BY FactorParts, SeparatorParts
  <1>4. /\ \A k \in O : member(<<"local", k>>) = problem.factors[k]
        /\ \A c \in K : member(<<"child", c>>) = tables[c]
        /\ member(z) = zero
    OBVIOUS
  <1>5. TableOver(zero, {a})
    <2>1. own = Restrict(problem.dom, {a})
      BY DEF Restrict
    <2>2. zero.dom = own /\ zero.at = [v \in Contexts(own) |-> 0]
      OBVIOUS
    <2> HIDE DEF own, zero
    <2> QED BY <2>1, <2>2 DEF TableOver, Costs
  <1>6. /\ \A k \in O : TableOver(member(<<"local", k>>), ScopeOf(k))
        /\ \A c \in K : TableOver(member(<<"child", c>>), separator[c])
        /\ TableOver(member(z), {a})
    <2> HIDE DEF member, zero
    <2> QED BY <1>2, <1>4, <1>5, DomainFacts
  <1>7. /\ \A k \in O : Scope(member(<<"local", k>>)) = ScopeOf(k)
        /\ \A c \in K : Scope(member(<<"child", c>>)) = separator[c]
        /\ Scope(member(z)) = {a}
    <2> HIDE DEF member
    <2>1. \A k \in O : ScopeOf(k) \subseteq Agents
      BY <1>2, FactorFacts
    <2>2. \A c \in K : separator[c] \subseteq Agents
      BY <1>2, FiniteParts
    <2> QED BY <1>6, <2>1, <2>2, TableFacts
  <1>8. ASSUME NEW k \in L \cup C \cup {z}
        PROVE  \/ \E j \in O : k = <<"local", j>>
               \/ \E c \in K : k = <<"child", c>>
               \/ k = z
    OBVIOUS
  <1>9. \A k \in L \cup C \cup {z} :
           /\ Scope(member(k)) \subseteq separator[a] \cup {a}
           /\ Scope(member(k)) \subseteq Agents
           /\ TableOver(member(k), Scope(member(k)))
    <2> HIDE DEF member, O, L, C, z, K
    <2> QED BY <1>2, <1>3, <1>6, <1>7, <1>8
  <1>10. spare \subseteq {z} /\ DOMAIN family = L \cup C \cup spare
         /\ \A k \in DOMAIN family : family[k] = member(k) /\ k \in L \cup C \cup {z}
    OBVIOUS
  <1>11. IsFiniteSet(L) /\ IsFiniteSet(C) /\ IsFiniteSet(spare) /\ IsFiniteSet(DOMAIN family)
    <2>1. IsFiniteSet({"local"}) /\ IsFiniteSet({"child"}) /\ IsFiniteSet({z}) /\ IsFiniteSet({})
      BY FS_Singleton, FS_EmptySet
    <2>2. IsFiniteSet(L) /\ IsFiniteSet(C)
      BY <1>2, <2>1, FS_Product
    <2> HIDE DEF L, C, z, family
    <2>3. IsFiniteSet(spare)
      BY <2>1
    <2> HIDE DEF spare
    <2>4. IsFiniteSet(L \cup C \cup spare)
      BY <2>2, <2>3, FS_Union
    <2> QED BY <1>10, <2>2, <2>3, <2>4
  <1>12. Joinable(family)
    <2> HIDE DEF family, member, L, C, spare, z
    <2> QED BY <1>9, <1>10, <1>11 DEF Joinable
  <1>13. JoinedScope(family) = separator[a] \cup {a}
    <2>1. \A k \in DOMAIN family : Scope(family[k]) \subseteq separator[a] \cup {a}
      <3> HIDE DEF family, member, L, C, spare, z
      <3> QED BY <1>9, <1>10
    <2>2. \E k \in DOMAIN family : a \in Scope(family[k])
      <3>1. CASE \E k \in L \cup C : a \in Scope(member(k))
        <4> HIDE DEF family, member, L, C
        <4> QED BY <1>10, <3>1
      <3>2. CASE ~ \E k \in L \cup C : a \in Scope(member(k))
        <4>1. spare = {z}
          BY <3>2
        <4>2. a \in Scope(member(z))
          <5> HIDE DEF member
          <5> QED BY <1>7
        <4> HIDE DEF family, member, L, C, spare
        <4> QED BY <1>10, <4>1, <4>2
      <3> QED BY <3>1, <3>2
    <2>3. ASSUME NEW n \in separator[a]
          PROVE  \E k \in DOMAIN family : n \in Scope(family[k])
      <3>1. CASE n \in nbrs[a] /\ n \in Above(a)
        <4>1. PICK k \in Factors : a \in ScopeOf(k) /\ n \in ScopeOf(k) /\ n # a
          <5>1. nbrs[a] = (UNION {Scope(problem.factors[j]) : j \in
                   {j \in DOMAIN problem.factors : a \in Scope(problem.factors[j])}}) \ {a}
            BY DEF Given, NeighborsIn
          <5> QED BY <3>1, <5>1 DEF Factors, ScopeOf
        <4>2. k \in O
          <5>1. ASSUME NEW x \in ScopeOf(k) \ {a}
                PROVE  x \in Above(a)
            <6>1. x = a \/ x = n
              BY <4>1, FactorPair
            <6> QED BY <3>1, <6>1
          <5> QED BY <4>1, <5>1 DEF OwnedFactors, Factors, ScopeOf
        <4>3. <<"local", k>> \in L
          BY <4>2
        <4> HIDE DEF family, member, L, C, spare, z, O
        <4>4. <<"local", k>> \in DOMAIN family
          BY <1>10, <4>3
        <4> QED BY <1>7, <1>10, <4>1, <4>2, <4>4
      <3>2. CASE \E c \in K : n \in separator[c]
        <4>1. PICK c \in K : n \in separator[c]
          BY <3>2
        <4>2. <<"child", c>> \in C
          BY <4>1
        <4> HIDE DEF family, member, L, C, spare, z, K
        <4>3. <<"child", c>> \in DOMAIN family
          BY <1>10, <4>2
        <4> QED BY <1>7, <1>10, <4>1, <4>3
      <3> QED BY <3>1, <3>2, SeparatorParts
    <2> HIDE DEF family
    <2> QED BY <2>1, <2>2, <2>3 DEF JoinedScope
  <1>14. ASSUME NEW v \in World
         PROVE  At(Join(family), v) =
                   Plus(SumOf(Local(v), O), SumOf([c \in K |-> At(tables[c], v)], K))
    <2> DEFINE e == [k \in DOMAIN family |-> At(family[k], v)]
               g == [c \in K |-> At(tables[c], v)]
    <2>1. At(Join(family), v) = SumOf(e, DOMAIN family)
      <3> HIDE DEF family
      <3> QED BY <1>12, JoinFacts
    <2>2. \A k \in DOMAIN family : e[k] \in Costs /\ e[k] = At(member(k), v)
      <3>1. \A k \in DOMAIN family : At(member(k), v) \in Costs
        <4> HIDE DEF family, member, L, C, spare, z
        <4> QED BY <1>9, <1>10, TableFacts
      <3> HIDE DEF member
      <3> QED BY <3>1
    <2>3. \A k \in O : e[<<"local", k>>] = Local(v)[k]
      <3>1. \A k \in O : At(problem.factors[k], v) = Local(v)[k]
        BY <1>2, LocalFacts
      <3>2. \A k \in O : <<"local", k>> \in DOMAIN family
        OBVIOUS
      <3> HIDE DEF e, family, member, O
      <3> QED BY <1>4, <2>2, <3>1, <3>2
    <2>4. \A c \in K : e[<<"child", c>>] = g[c]
      <3>1. \A c \in K : <<"child", c>> \in DOMAIN family
        OBVIOUS
      <3>2. \A c \in K : g[c] = At(tables[c], v)
        OBVIOUS
      <3> HIDE DEF e, family, member, K, g
      <3> QED BY <1>4, <2>2, <3>1, <3>2
    <2>5. spare = {z} => e[z] = 0
      <3> SUFFICES ASSUME spare = {z} PROVE e[z] = 0
        OBVIOUS
      <3>1. z \in DOMAIN family
        OBVIOUS
      <3>2. At(zero, v) = 0
        <4>1. At(zero, v) = zero.at[Restrict(v, {a})] /\ zero.dom = Restrict(problem.dom, {a})
          <5> HIDE DEF e, g, family, member, L, C, O, K, spare, z, own, zero
          <5>1. {a} \subseteq Agents
            OBVIOUS
          <5>2. At(zero, v) = zero.at[Restrict(v, {a})]
            BY <1>5, <5>1, TableFacts
          <5>3. zero.dom = Restrict(problem.dom, {a})
            BY <1>5 DEF TableOver
          <5> QED BY <5>2, <5>3
        <4>2. Restrict(v, {a}) \in Contexts(zero.dom)
          <5> HIDE DEF zero
          <5> QED BY <4>1, Extend
        <4>3. zero.at = [w \in Contexts(zero.dom) |-> 0]
          <5> HIDE DEF e, g, family, member, L, C, O, K, spare, z
          <5>1. zero.dom = own
            OBVIOUS
          <5>2. zero.at = [w \in Contexts(own) |-> 0]
            OBVIOUS
          <5> HIDE DEF zero, own
          <5> QED BY <5>1, <5>2
        <4> HIDE DEF zero
        <4> QED BY <4>1, <4>2, <4>3
      <3> HIDE DEF e, family, member, zero, z
      <3> QED BY <1>4, <2>2, <3>1, <3>2
    <2>6. L \cup C \subseteq DOMAIN family
      OBVIOUS
    <2>7. L \cap C = {} /\ z \notin L \cup C
      OBVIOUS
    <2>8. /\ SumOf(e, L) = SumOf(Local(v), O)
          /\ SumOf(e, C) = SumOf(g, K)
      <3>1. \A k \in O : Local(v)[k] \in Operands("sum")
        BY <1>2, LocalFacts DEF Operands
      <3>2. \A c \in K : g[c] \in Operands("sum")
        <4>1. \A c \in K : <<"child", c>> \in DOMAIN family
          OBVIOUS
        <4> HIDE DEF e, g, family, member
        <4> QED BY <2>2, <2>4, <4>1 DEF Operands
      <3>3. Fold("sum", e, L) = Fold("sum", Local(v), O)
        <4> DEFINE m == [k \in O |-> <<"local", k>>]
                   w == Local(v)
        <4>1. /\ \A k \in O : m[k] \in L /\ m[k] = <<"local", k>>
              /\ \A x \in L : \E k \in O : x = m[k]
              /\ \A j, k \in O : m[j] = m[k] => j = k
          OBVIOUS
        <4>2. \A k \in O : w[k] \in Operands("sum") /\ e[m[k]] = w[k]
          <5> HIDE DEF e, O, L, m
          <5> QED BY <2>3, <3>1, <4>1
        <4> HIDE DEF e, O, family, L, m, w
        <4>3. IsFiniteSet(L) /\ Fold("sum", e, L) = Fold("sum", w, O)
          BY <1>2, <4>1, <4>2, FoldRenamed
        <4> QED BY <4>3 DEF w
      <3>4. Fold("sum", e, C) = Fold("sum", g, K)
        <4> DEFINE m == [c \in K |-> <<"child", c>>]
        <4>1. /\ \A c \in K : m[c] \in C /\ m[c] = <<"child", c>>
              /\ \A x \in C : \E c \in K : x = m[c]
              /\ \A c, d \in K : m[c] = m[d] => c = d
          OBVIOUS
        <4>2. \A c \in K : g[c] \in Operands("sum") /\ e[m[c]] = g[c]
          <5> HIDE DEF e, K, C, m, g
          <5> QED BY <2>4, <3>2, <4>1
        <4>3. IsFiniteSet(K)
          BY <1>2
        <4> HIDE DEF e, K, family, g, C, m
        <4>4. IsFiniteSet(C) /\ Fold("sum", e, C) = Fold("sum", g, K)
          BY <4>1, <4>2, <4>3, FoldRenamed
        <4> QED BY <4>4
      <3> QED BY <3>3, <3>4 DEF SumOf
    <2>9. SumOf(e, L \cup C) = Plus(SumOf(e, L), SumOf(e, C)) /\ SumOf(e, L \cup C) \in Costs
          /\ IsFiniteSet(L \cup C)
      <3> HIDE DEF e, L, C, family, spare
      <3>1. \A x \in L \cup C : e[x] \in Costs
        BY <2>2, <2>6
      <3>2. IsFiniteSet(L \cup C)
        BY <1>11, FS_Union
      <3> QED BY <1>11, <2>7, <3>1, <3>2, SumUnion, SumFacts
    <2>10. SumOf(e, DOMAIN family) = SumOf(e, L \cup C)
      <3>1. CASE spare = {}
        <4>1. DOMAIN family = L \cup C
          BY <3>1
        <4> QED BY <4>1
      <3>2. CASE spare = {z}
        <4>1. DOMAIN family = (L \cup C) \cup {z} /\ (L \cup C) \cap {z} = {}
          BY <3>2, <2>7
        <4> HIDE DEF e, L, C, family, z, spare
        <4>2. \A x \in (L \cup C) \cup {z} : e[x] \in Costs
          BY <2>2, <4>1
        <4>3. SumOf(e, (L \cup C) \cup {z}) = Plus(SumOf(e, L \cup C), SumOf(e, {z}))
          <5> DEFINE M == L \cup C
          <5>1. IsFiniteSet(M) /\ IsFiniteSet({z}) /\ M \cap {z} = {}
                /\ \A x \in M \cup {z} : e[x] \in Costs
            BY <2>9, <4>1, <4>2, FS_Singleton
          <5> HIDE DEF M
          <5>2. SumOf(e, M \cup {z}) = Plus(SumOf(e, M), SumOf(e, {z}))
            BY <5>1, SumUnion
          <5> QED BY <5>2 DEF M
        <4>4. SumOf(e, {z}) = 0
          <5>1. e[z] \in Operands("sum")
            BY <4>2 DEF Operands
          <5> QED BY <2>5, <3>2, <5>1, FoldSingle DEF SumOf
        <4> QED BY <2>9, <4>1, <4>3, <4>4, PlusFacts
      <3> QED BY <3>1, <3>2
    <2> HIDE DEF e, g, family
    <2> QED BY <2>1, <2>8, <2>9, <2>10 DEF g
  <1> HIDE DEF family
  <1> QED BY <1>1, <1>12, <1>13, <1>14

(* What an agent joins is exact for its subtree but for its own value: no    *)
(* assignment costs less, and the subtrees below can be given values that    *)
(* cost as much.                                                             *)
LEMMA JoinedIsExact ==
    ASSUME Tree, Given, NEW a \in Agents, NEW tables, DOMAIN tables = ToSet(children[a]),
           \A c \in DOMAIN tables : Exact(c, tables[c]),
           NEW w \in World
    PROVE  LET t == Join(Contributions(a, tables))
           IN  /\ AtMost(At(t, w), Below(a, w))
               /\ \E u \in World : /\ \A n \in Agents : n \notin Subtree(a) \/ n = a => u[n] = w[n]
                                   /\ Below(a, u) = At(t, w)
  <1> DEFINE K == ToSet(children[a])
             O == OwnedFactors(a)
             t == Join(Contributions(a, tables))
             g == [c \in K |-> At(tables[c], w)]
             own == SumOf(Local(w), O)
  <1>1. /\ IsFiniteSet(O) /\ O \subseteq Factors
        /\ IsFiniteSet(K) /\ K \subseteq Agents
        /\ separator[a] \subseteq Agents
    BY FiniteParts
  <1>2. At(t, w) = Plus(own, SumOf(g, K))
    <2>1. \A c \in DOMAIN tables : TableOver(tables[c], separator[c])
      BY DEF Exact
    <2> QED BY <2>1, ContributionFacts
  <1> HIDE DEF t
  <1>3. own \in Costs
    <2>1. \A k \in O : Local(w)[k] \in Costs
      BY <1>1, LocalFacts
    <2> HIDE DEF O
    <2> QED BY <1>1, <2>1, SumFacts
  <1>4. \A c \in K : At(tables[c], w) \in Costs
    <2> SUFFICES ASSUME NEW c \in K PROVE At(tables[c], w) \in Costs
      OBVIOUS
    <2>1. TableOver(tables[c], separator[c]) /\ separator[c] \subseteq Agents
      BY <1>1, FiniteParts DEF Exact
    <2> QED BY <2>1, TableFacts
  <1>5. SumOf(g, K) \in Costs
    <2>1. \A c \in K : g[c] \in Costs
      BY <1>4
    <2> HIDE DEF g, K
    <2> QED BY <1>1, <2>1, SumFacts
  <1>6. AtMost(At(t, w), Below(a, w))
    <2> DEFINE h == [c \in K |-> Below(c, w)]
    <2>1. Below(a, w) = Plus(own, SumOf(h, K))
      BY BelowParts
    <2>2. \A c \in K : g[c] \in Costs /\ h[c] \in Costs /\ AtMost(g[c], h[c])
      BY <1>1, <1>4, BelowCost DEF Exact
    <2> HIDE DEF g, h, K, own
    <2>3. AtMost(SumOf(g, K), SumOf(h, K))
      BY <1>1, <2>2, SumAtMost
    <2>4. SumOf(h, K) \in Costs
      BY <1>1, <2>2, SumFacts
    <2>5. AtMost(Plus(own, SumOf(g, K)), Plus(own, SumOf(h, K)))
      BY <1>3, <1>5, <2>3, <2>4, AtMostFacts
    <2> QED BY <1>2, <2>1, <2>5
  <1>7. \E u \in World : /\ \A n \in Agents : n \notin Subtree(a) \/ n = a => u[n] = w[n]
                         /\ Below(a, u) = At(t, w)
    <2> DEFINE Fits(c, x) == x \in World /\ Outside(Subtree(c), x, w) /\ Below(c, x) = g[c]
               part == [c \in K |-> CHOOSE x : Fits(c, x)]
    <2>1. ASSUME NEW c \in K PROVE Fits(c, part[c])
      <3>1. \E x \in World : Outside(Subtree(c), x, w) /\ Below(c, x) = At(tables[c], w)
        BY DEF Exact
      <3>2. \E x : Fits(c, x)
        BY <3>1
      <3>3. part[c] = CHOOSE x : Fits(c, x)
        OBVIOUS
      <3> HIDE DEF Fits, part
      <3> QED BY <3>2, <3>3
    <2> DEFINE home(n) == CHOOSE c \in K : n \in Subtree(c)
               u == [n \in Agents |-> IF \E c \in K : n \in Subtree(c) THEN part[home(n)][n] ELSE w[n]]
    <2>2. /\ Subtree(a) = {a} \cup UNION {Subtree(c) : c \in K}
          /\ \A c \in K : /\ c \in Agents
                          /\ Above(c) = Above(a) \cup {a}
                          /\ a \notin Subtree(c)
                          /\ Above(a) \cap Subtree(c) = {}
                          /\ \A d \in K : c # d => Subtree(c) \cap Subtree(d) = {}
      BY SubtreeParts
    <2>3. /\ w = [n \in Agents |-> w[n]] /\ \A n \in Agents : w[n] \in problem.dom[n]
          /\ \A c \in K : \A n \in Agents : part[c][n] \in problem.dom[n]
      <3>1. \A x \in World : \A n \in Agents : x[n] \in problem.dom[n]
        BY InWorld
      <3>2. \A c \in K : part[c] \in World
        BY <2>1
      <3>3. w = [n \in Agents |-> w[n]]
        BY InWorld
      <3> HIDE DEF part
      <3> QED BY <3>1, <3>2, <3>3
    <2>4. \A n \in Agents : \A c \in K : n \in Subtree(c) => u[n] = part[c][n]
      <3> SUFFICES ASSUME NEW n \in Agents, NEW c \in K, n \in Subtree(c)
                   PROVE  u[n] = part[c][n]
        OBVIOUS
      <3>1. home(n) \in K /\ n \in Subtree(home(n))
        OBVIOUS
      <3> HIDE DEF home, part, K
      <3>2. home(n) = c
        BY <2>2, <3>1
      <3> QED BY <3>2
    <2>5. \A n \in Agents : (\A c \in K : n \notin Subtree(c)) => u[n] = w[n]
      <3> HIDE DEF home, part, K
      <3> QED OBVIOUS
    <2>6. u \in World
      <3>1. \A n \in Agents : u[n] \in problem.dom[n]
        <4> HIDE DEF u, part, K
        <4> QED BY <2>3, <2>4, <2>5
      <3>2. u = [n \in Agents |-> u[n]]
        OBVIOUS
      <3> HIDE DEF u
      <3> QED BY <3>1, <3>2, InWorld
    <2> HIDE DEF u, home
    <2>7. \A n \in Agents : n \notin Subtree(a) \/ n = a => u[n] = w[n]
      <3> HIDE DEF K, part
      <3> QED BY <2>2, <2>5
    <2>8. ASSUME NEW c \in K PROVE Below(c, u) = g[c]
      <3>1. part[c] \in World /\ Outside(Subtree(c), part[c], w) /\ Below(c, part[c]) = g[c]
        BY <2>1
      <3>2. c \in Agents /\ separator[c] \subseteq Agents /\ separator[c] \subseteq Above(a) \cup {a}
            /\ Subtree(c) \subseteq Agents
        BY <1>1, <2>2, FiniteParts, SeparatorAbove DEF Subtree
      <3>3. ASSUME NEW n \in Subtree(c) \cup separator[c]
            PROVE  u[n] = part[c][n]
        <4>1. CASE n \in Subtree(c)
          <5> HIDE DEF part, g, K
          <5> QED BY <2>4, <3>2, <4>1
        <4>2. CASE n \in separator[c]
          <5> HIDE DEF part, g, K
          <5>1. \A d \in K : n \notin Subtree(d)
            BY <2>2, <3>2, <4>2
          <5>2. n \in Agents \ Subtree(c) /\ u[n] = w[n]
            BY <2>5, <3>2, <4>2, <5>1
          <5> QED BY <3>1, <5>2 DEF Outside
        <4> QED BY <4>1, <4>2
      <3> HIDE DEF part, g, K
      <3>4. Below(c, u) = Below(c, part[c])
        BY <2>6, <3>1, <3>2, <3>3, BelowSame
      <3> QED BY <3>1, <3>4
    <2>9. SumOf(Local(u), O) = own
      <3>1. ASSUME NEW k \in O
            PROVE  Local(w)[k] \in Costs /\ Local(u)[k] = Local(w)[k]
        <4>1. k \in Factors /\ ScopeOf(k) \subseteq separator[a] \cup {a}
          BY FactorParts
        <4>2. separator[a] \cup {a} \subseteq Agents \ UNION {Subtree(c) : c \in K}
          BY <1>1, <2>2, SeparatorAbove
        <4>3. \A n \in ScopeOf(k) : u[n] = w[n]
          <5> HIDE DEF K, part
          <5> QED BY <2>5, <4>1, <4>2
        <4> QED BY <4>1, <4>3, LocalFacts
      <3> HIDE DEF O
      <3>2. SumOf(Local(w), O) = SumOf(Local(u), O)
        BY <1>1, <3>1, SumSame
      <3> QED BY <3>2
    <2>10. Below(a, u) = Plus(own, SumOf(g, K))
      <3> DEFINE h == [c \in K |-> Below(c, u)]
      <3>1. Below(a, u) = Plus(SumOf(Local(u), O), SumOf(h, K))
        BY <2>6, BelowParts
      <3>2. h = g
        <4> HIDE DEF K
        <4> QED BY <2>8
      <3> HIDE DEF h, g, K, O, own
      <3> QED BY <2>9, <3>1, <3>2
    <2> QED BY <1>2, <2>6, <2>7, <2>10
  <1> QED BY <1>6, <1>7 DEF t

(* The table an agent computes from exact tables is exact, and its choices   *)
(* attain it.                                                                *)
LEMMA MinimizedIsExact ==
    ASSUME Tree, Given, NEW a \in Agents, NEW tables, DOMAIN tables = ToSet(children[a]),
           \A c \in DOMAIN tables : Exact(c, tables[c])
    PROVE  LET r == Minimize(Join(Contributions(a, tables)), a)
           IN  Exact(a, r.table) /\ Attains(a, r.table, r.choice)
  <1> DEFINE t == Join(Contributions(a, tables))
             r == Minimize(t, a)
             U == separator[a] \cup {a}
  <1>1. separator[a] \subseteq Agents /\ U \subseteq Agents /\ a \in U
    BY FiniteParts
  <1>2. U \ {a} = separator[a]
    <2>1. a \notin separator[a]
      BY SeparatorAbove DEF Tree, Order
    <2> QED BY <2>1
  <1>3. TableOver(t, U)
    <2>1. \A c \in DOMAIN tables : TableOver(tables[c], separator[c])
      BY DEF Exact
    <2>2. Joinable(Contributions(a, tables)) /\ JoinedScope(Contributions(a, tables)) = U
      BY <2>1, ContributionFacts
    <2> QED BY <2>2, JoinFacts
  <1>4. /\ TableOver(r.table, separator[a])
        /\ \A v \in World :
              /\ AtMost(At(r.table, v), At(t, v))
              /\ \E d \in problem.dom[a] : At(r.table, v) = At(t, With(v, a, d))
              /\ LET d == r.choice[Restrict(v, separator[a])]
                 IN  IF At(r.table, v) = Forbidden THEN d = NoValue
                     ELSE /\ d \in problem.dom[a]
                          /\ At(r.table, v) = At(t, With(v, a, d))
    <2> HIDE DEF t, U
    <2>1. Minimized(U, a, t, r)
      BY <1>1, <1>3, MinimizeFacts
    <2> HIDE DEF r
    <2> QED BY <1>2, <2>1 DEF Minimized
  <1> HIDE DEF r, U
  <1>5. ASSUME NEW v \in World
        PROVE  AtMost(At(t, v), Below(a, v)) /\ At(t, v) \in Costs
    <2>1. AtMost(At(t, v), Below(a, v))
      BY JoinedIsExact
    <2> HIDE DEF t
    <2> QED BY <1>1, <1>3, <2>1, TableFacts
  <1>6. ASSUME NEW v \in World, NEW d \in problem.dom[a]
        PROVE  \E u \in World : Outside(Subtree(a), u, v) /\ u[a] = d
                                /\ Below(a, u) = At(t, With(v, a, d))
    <2>1. /\ With(v, a, d) \in World
          /\ With(v, a, d)[a] = d
          /\ \A n \in Agents : n # a => With(v, a, d)[n] = v[n]
      BY Change
    <2>2. PICK u \in World :
             /\ \A n \in Agents : n \notin Subtree(a) \/ n = a => u[n] = With(v, a, d)[n]
             /\ Below(a, u) = At(t, With(v, a, d))
      BY <2>1, JoinedIsExact
    <2>3. a \in Subtree(a)
      BY DEF Subtree
    <2>4. Outside(Subtree(a), u, v) /\ u[a] = d
      BY <2>1, <2>2, <2>3 DEF Outside
    <2> QED BY <2>2, <2>4
  <1> HIDE DEF t
  <1>7. Exact(a, r.table)
    <2> SUFFICES ASSUME NEW v \in World
                 PROVE  /\ AtMost(At(r.table, v), Below(a, v))
                        /\ \E u \in World : Outside(Subtree(a), u, v) /\ Below(a, u) = At(r.table, v)
      BY <1>4 DEF Exact
    <2>1. At(r.table, v) \in Costs
      BY <1>1, <1>4, TableFacts
    <2>2. AtMost(At(r.table, v), Below(a, v))
      BY <1>4, <1>5, <2>1, BelowCost, AtMostFacts
    <2>3. PICK d \in problem.dom[a] : At(r.table, v) = At(t, With(v, a, d))
      BY <1>4
    <2> QED BY <1>6, <2>2, <2>3
  <1>8. Attains(a, r.table, r.choice)
    <2> SUFFICES ASSUME NEW v \in World
                 PROVE  LET d == r.choice[Restrict(v, separator[a])]
                        IN  IF At(r.table, v) = Forbidden THEN d = NoValue
                            ELSE /\ d \in problem.dom[a]
                                 /\ \E u \in World : /\ Outside(Subtree(a), u, v)
                                                     /\ u[a] = d
                                                     /\ Below(a, u) = At(r.table, v)
      BY DEF Attains
    <2> DEFINE d == r.choice[Restrict(v, separator[a])]
    <2>1. IF At(r.table, v) = Forbidden THEN d = NoValue
          ELSE d \in problem.dom[a] /\ At(r.table, v) = At(t, With(v, a, d))
      BY <1>4
    <2> HIDE DEF d
    <2>2. ASSUME At(r.table, v) # Forbidden
          PROVE  /\ d \in problem.dom[a]
                 /\ \E u \in World : Outside(Subtree(a), u, v) /\ u[a] = d
                                     /\ Below(a, u) = At(r.table, v)
      BY <1>6, <2>1, <2>2
    <2> QED BY <2>1, <2>2 DEF d
  <1> QED BY <1>7, <1>8 DEF r, t

(* The root's subtree is everything.                                         *)
LEMMA RootFacts ==
    ASSUME Tree, Given
    PROVE  /\ root \in Agents
           /\ Subtree(root) = Agents
           /\ separator[root] = {}
           /\ SubtreeFactors(root) = Factors
  <1>1. root \in Agents
    BY DEF Tree, Order
  <1>2. Subtree(root) = Agents
    BY <1>1 DEF Tree, Linked, Subtree
  <1>3. separator[root] = {}
    <2>1. separator[root] \subseteq Above(root)
      BY <1>1, SeparatorAbove
    <2>2. Above(root) = {}
      BY <1>1 DEF Tree, Order
    <2> QED BY <2>1, <2>2
  <1>4. SubtreeFactors(root) = Factors
    <2>1. \A k \in Factors : ScopeOf(k) \subseteq Agents /\ ScopeOf(k) # {}
      BY FactorFacts
    <2> QED BY <1>2, <2>1 DEF SubtreeFactors, Factors, ScopeOf
  <1> QED BY <1>1, <1>2, <1>3, <1>4

(* Restricted to no names, every assignment is the empty one.                *)
LEMMA EmptyContext ==
    ASSUME NEW v
    PROVE  Restrict(v, {}) = <<>>
  BY DEF Restrict

(* The least cost of a set that holds one below all others.                  *)
LEMMA LeastOf ==
    ASSUME NEW C, C \subseteq Costs, NEW c \in C, \A e \in C : AtMost(c, e)
    PROVE  (IF C = {Forbidden} THEN Forbidden ELSE Min(C \ {Forbidden})) = c
  <1>1. CASE c = Forbidden
    <2>1. \A e \in C : e = Forbidden
      BY <1>1 DEF AtMost, Cheaper
    <2>2. C = {Forbidden}
      BY <1>1, <2>1
    <2> QED BY <1>1, <2>2
  <1>2. CASE c # Forbidden
    <2>1. C # {Forbidden}
      BY <1>2
    <2> DEFINE D == C \ {Forbidden}
    <2>2. D \subseteq Nat /\ D # {}
      BY <1>2 DEF Costs
    <2>3. c \in D /\ \A e \in D : c <= e
      <3>1. \A e \in D : e \in Nat
        BY <2>2
      <3> QED BY <1>2, <2>2, <3>1 DEF AtMost, Cheaper, Forbidden
    <2>4. Min(D) \in D /\ \A y \in D : Min(D) <= y
      <3> HIDE DEF D
      <3> QED BY <2>2, MinIsLeast
    <2>5. Min(D) = c
      <3> HIDE DEF D
      <3>1. c \in Nat /\ Min(D) \in Nat /\ c <= Min(D) /\ Min(D) <= c
        BY <2>2, <2>3, <2>4
      <3> QED BY <3>1
    <2> QED BY <2>1, <2>5
  <1> QED BY <1>1, <1>2

(* What a family of tables of the problem costs in a context.                *)
LEMMA TotalIsSum ==
    ASSUME Given, NEW S, S \subseteq Factors, NEW part, DOMAIN part = S,
           \A k \in S : part[k] = problem.factors[k],
           NEW v \in World, NEW w, \A k \in S : \A n \in ScopeOf(k) : w[n] = v[n]
    PROVE  Total(part, w) = SumOf(Local(v), S)
  <1> DEFINE f == [k \in DOMAIN part |-> part[k].at[Restrict(w, Scope(part[k]))]]
  <1>1. DOMAIN part = S /\ \A k \in S : part[k] = problem.factors[k]
    OBVIOUS
  <1>2. IsFiniteSet(S)
    BY DomainFacts, FS_Subset
  <1>3. ASSUME NEW k \in S
        PROVE  f[k] = Local(v)[k] /\ Local(v)[k] \in Costs
    <2>1. k \in Factors
      OBVIOUS
    <2>2. Restrict(w, ScopeOf(k)) = Restrict(v, ScopeOf(k))
      BY RestrictSame
    <2>3. Local(v)[k] = problem.factors[k].at[Restrict(v, ScopeOf(k))]
      BY <2>1 DEF Local
    <2>4. Local(v)[k] \in Costs
      BY <2>1, LocalFacts
    <2>5. f[k] = problem.factors[k].at[Restrict(w, ScopeOf(k))]
      BY <1>1 DEF ScopeOf
    <2> QED BY <2>2, <2>3, <2>4, <2>5
  <1>4. DOMAIN f = S
    BY <1>1
  <1>5. Total(part, w) = FoldFunction(Plus, 0, f)
    BY DEF Total
  <1> HIDE DEF f
  <1>6. FoldFunction(Plus, 0, f) = FoldPlus(f, DOMAIN f)
    BY FoldFunctionPlus
  <1>7. FoldPlus(f, S) = SumOf(f, S)
    BY <1>2, FoldPlusIsSum
  <1>8. SumOf(Local(v), S) = SumOf(f, S)
    <2> DEFINE g == Local(v)
    <2>1. \A k \in S : g[k] \in Costs /\ f[k] = g[k]
      BY <1>3
    <2> HIDE DEF g
    <2>2. SumOf(g, S) = SumOf(f, S)
      BY <1>2, <2>1, SumSame
    <2> QED BY <2>2 DEF g
  <1> QED BY <1>4, <1>5, <1>6, <1>7, <1>8

(* The cost of an assignment of all agents.                                  *)
LEMMA TotalIsBelow ==
    ASSUME Tree, Given, NEW v \in World
    PROVE  Total(problem.factors, v) = Below(root, v)
  <1>1. DOMAIN problem.factors = Factors
    BY DEF Factors
  <1>2. Total(problem.factors, v) = SumOf(Local(v), Factors)
    BY <1>1, TotalIsSum
  <1> QED BY <1>2, RootFacts DEF Below

(* An exact table holds what enumerating the subtree would find.             *)
LEMMA ExactIsOptimum ==
    ASSUME Tree, Given, NEW a \in Agents, NEW t, Exact(a, t), NEW context \in DOMAIN t.at
    PROVE  t.at[context] = SubtreeOptimum(a, context)
  <1> DEFINE S == Subtree(a)
             below == Restrict(problem.dom, S)
             part == Restrict(problem.factors, SubtreeFactors(a))
             w(v) == [n \in S \cup DOMAIN context |-> IF n \in S THEN v[n] ELSE context[n]]
             costs == {Total(part, w(v)) : v \in Contexts(below)}
  <1>1. /\ S \subseteq Agents
        /\ separator[a] \subseteq Agents
        /\ SubtreeFactors(a) \subseteq Factors
        /\ S \cap separator[a] = {}
    <2>1. separator[a] \subseteq Above(a) /\ Above(a) \cap Subtree(a) = {}
      BY SeparatorAbove, SubtreeParts
    <2> QED BY <2>1, FiniteParts DEF Subtree
  <1>2. /\ TableOver(t, separator[a])
        /\ context \in Contexts(Restrict(problem.dom, separator[a]))
    BY DEF Exact, TableOver
  <1>3. PICK v0 \in World : context = Restrict(v0, separator[a])
    BY <1>1, <1>2, Extend
  <1>4. DOMAIN context = separator[a] /\ \A n \in separator[a] : context[n] = v0[n]
    BY <1>3 DEF Restrict
  <1>5. t.at[context] = At(t, v0) /\ At(t, v0) \in Costs
    BY <1>1, <1>2, <1>3, TableFacts
  <1>6. \A k \in SubtreeFactors(a) : ScopeOf(k) \subseteq S \cup separator[a]
    BY FactorParts
  <1>7. ASSUME NEW v \in Contexts(below), NEW u \in World,
               \A n \in S : u[n] = v[n], Outside(S, u, v0)
        PROVE  Total(part, w(v)) = Below(a, u)
    <2>1. \A n \in S \cup separator[a] : w(v)[n] = u[n]
      <3>1. \A n \in separator[a] : u[n] = v0[n]
        BY <1>1, <1>7 DEF Outside
      <3> QED BY <1>1, <1>4, <1>7, <3>1
    <2>2. \A k \in SubtreeFactors(a) : \A n \in ScopeOf(k) : w(v)[n] = u[n]
      BY <1>6, <2>1
    <2>3. DOMAIN part = SubtreeFactors(a)
          /\ \A k \in SubtreeFactors(a) : part[k] = problem.factors[k]
      BY <1>1 DEF Restrict, Factors
    <2> DEFINE x == w(v)
               f == part
    <2>4. \A k \in SubtreeFactors(a) : \A n \in ScopeOf(k) : x[n] = u[n]
      BY <2>2
    <2> HIDE DEF x, f
    <2>5. DOMAIN f = SubtreeFactors(a)
          /\ \A k \in SubtreeFactors(a) : f[k] = problem.factors[k]
      BY <2>3 DEF f
    <2>6. Total(f, x) = SumOf(Local(u), SubtreeFactors(a))
      BY <1>1, <2>4, <2>5, TotalIsSum
    <2> QED BY <2>6 DEF Below, f, x
  <1>8. ASSUME NEW v \in Contexts(below)
        PROVE  \E u \in World : (\A n \in S : u[n] = v[n]) /\ Outside(S, u, v0)
    <2> DEFINE u == [n \in Agents |-> IF n \in S THEN v[n] ELSE v0[n]]
    <2>1. \A n \in S : v[n] \in problem.dom[n]
      <3>1. S \subseteq Agents
        BY <1>1
      <3> QED BY <1>1, Extend
    <2>2. \A n \in Agents : v0[n] \in problem.dom[n]
      BY InWorld
    <2>3. u = [n \in Agents |-> u[n]] /\ \A n \in Agents : u[n] \in problem.dom[n]
      BY <2>1, <2>2
    <2>4. (\A n \in S : u[n] = v[n]) /\ Outside(S, u, v0)
      BY <1>1 DEF Outside
    <2> HIDE DEF u
    <2>5. u \in World
      BY <2>3, InWorld
    <2> QED BY <2>4, <2>5
  <1>9. ASSUME NEW u \in World, Outside(S, u, v0)
        PROVE  Below(a, u) \in costs
    <2> DEFINE v == Restrict(u, S)
    <2>1. v \in Contexts(below) /\ \A n \in S : u[n] = v[n]
      <3>1. v \in Contexts(below)
        BY <1>1, Extend
      <3> QED BY <3>1 DEF Restrict
    <2> HIDE DEF v
    <2>2. Total(part, w(v)) = Below(a, u)
      BY <1>7, <1>9, <2>1
    <2> QED BY <2>1, <2>2
  <1>10. ASSUME NEW e \in costs
         PROVE  e \in Costs /\ AtMost(At(t, v0), e)
    <2>1. PICK v \in Contexts(below) : e = Total(part, w(v))
      OBVIOUS
    <2>2. PICK u \in World : (\A n \in S : u[n] = v[n]) /\ Outside(S, u, v0)
      BY <1>8
    <2>3. e = Below(a, u)
      BY <1>7, <2>1, <2>2
    <2>4. Below(a, u) \in Costs
      BY BelowCost
    <2>5. AtMost(At(t, u), Below(a, u))
      BY DEF Exact
    <2>6. At(t, u) = At(t, v0)
      <3>1. \A n \in separator[a] : u[n] = v0[n]
        BY <1>1, <2>2 DEF Outside
      <3> QED BY <1>1, <1>2, <3>1, TableSame
    <2> QED BY <2>3, <2>4, <2>5, <2>6
  <1>11. At(t, v0) \in costs
    <2>1. PICK u \in World : Outside(S, u, v0) /\ Below(a, u) = At(t, v0)
      BY DEF Exact
    <2> QED BY <1>9, <2>1
  <1>12. SubtreeOptimum(a, context) =
            IF costs = {Forbidden} THEN Forbidden ELSE Min(costs \ {Forbidden})
    BY DEF SubtreeOptimum
  <1> HIDE DEF costs
  <1>13. (IF costs = {Forbidden} THEN Forbidden ELSE Min(costs \ {Forbidden})) = At(t, v0)
    BY <1>10, <1>11, LeastOf
  <1> QED BY <1>5, <1>12, <1>13

(* The number of entries of a table over the agents of S.                    *)
Size == [n \in Agents |-> Cardinality(problem.dom[n])]

(* A table has at least one entry.                                           *)
LEMMA PositiveProduct ==
    ASSUME Given, NEW S, S \subseteq Agents
    PROVE  Fold("product", Size, S) \in Nat /\ Fold("product", Size, S) > 0
  <1> DEFINE Q == {T \in SUBSET Agents : Fold("product", Size, T) \in Nat
                                         /\ Fold("product", Size, T) > 0}
  <1>1. \A n \in Agents : Size[n] \in Nat /\ Size[n] > 0
    <2> TAKE n \in Agents
    <2>1. IsFiniteSet(problem.dom[n]) /\ problem.dom[n] # {}
      BY DomainFacts
    <2>2. Cardinality(problem.dom[n]) \in Nat /\ Cardinality(problem.dom[n]) # 0
      BY <2>1, FS_CardinalityType, FS_EmptySet
    <2> QED BY <2>2 DEF Size
  <1>2. IsFiniteSet(S)
    BY DomainFacts, FS_Subset
  <1>3. ASSUME NEW T \in SUBSET S, \A x \in T : T \ {x} \in Q
        PROVE  T \in Q
    <2>1. CASE T = {}
      BY <2>1, FoldEmpty DEF Neutral
    <2>2. CASE T # {}
      <3>1. PICK x \in T : TRUE
        BY <2>2
      <3>2. IsFiniteSet(T) /\ \A y \in T : Size[y] \in Operands("product")
        BY <1>1, <1>2, FS_Subset DEF Operands
      <3>3. Fold("product", Size, T) = Combine("product", Size[x], Fold("product", Size, T \ {x}))
        BY <3>2, FoldRemove
      <3>4. Fold("product", Size, T) = Size[x] * Fold("product", Size, T \ {x})
        BY <3>3 DEF Combine
      <3>5. Fold("product", Size, T \ {x}) \in Nat /\ Fold("product", Size, T \ {x}) > 0
        BY <1>3
      <3>6. Size[x] \in Nat /\ Size[x] > 0
        BY <1>1
      <3> DEFINE c == Size[x]
                 d == Fold("product", Size, T \ {x})
      <3>7. c * d \in Nat /\ c * d > 0
        <4>1. c \in Nat /\ d \in Nat /\ c > 0 /\ d > 0
          BY <3>5, <3>6
        <4> HIDE DEF c, d
        <4> QED BY <4>1
      <3> QED BY <3>4, <3>7
    <2> QED BY <2>1, <2>2
  <1> HIDE DEF Q
  <1>4. S \in Q
    BY <1>2, <1>3, SubsetInduction
  <1> QED BY <1>4 DEF Q

(* The number of entries of a table over some of the agents.                 *)
LEMMA EntriesOf ==
    ASSUME Given, NEW S, S \subseteq Agents
    PROVE  Entries(Restrict(problem.dom, S)) = Fold("product", Size, S)
  <1> DEFINE d == Restrict(problem.dom, S)
             f == [n \in DOMAIN d |-> Cardinality(d[n])]
  <1>1. DOMAIN d = S /\ \A n \in S : d[n] = problem.dom[n]
    BY DEF Restrict
  <1>2. IsFiniteSet(S) /\ \A n \in Agents : IsFiniteSet(problem.dom[n])
    BY DomainFacts, FS_Subset
  <1>3. \A n \in S : f[n] \in Operands("product") /\ Size[n] = f[n]
    <2> TAKE n \in S
    <2>1. Cardinality(problem.dom[n]) \in Nat
      BY <1>2, FS_CardinalityType
    <2> QED BY <1>1, <2>1 DEF Size, Operands
  <1> HIDE DEF d
  <1>4. Entries(d) = Fold("product", f, DOMAIN d)
    BY <1>1, <1>2, EntriesIsFold
  <1> HIDE DEF f
  <1>5. Fold("product", f, S) = Fold("product", Size, S)
    BY <1>2, <1>3, FoldSame
  <1> QED BY <1>1, <1>4, <1>5 DEF d

(* A table over more agents has no fewer entries.                            *)
LEMMA MoreEntries ==
    ASSUME Given, NEW T, T \subseteq Agents, NEW S, S \subseteq T
    PROVE  /\ Entries(Restrict(problem.dom, S)) \in Nat
           /\ Entries(Restrict(problem.dom, T)) \in Nat
           /\ Entries(Restrict(problem.dom, S)) <= Entries(Restrict(problem.dom, T))
  <1> DEFINE U == T \ S
  <1>1. S \subseteq Agents /\ U \subseteq Agents /\ S \cap U = {} /\ T = S \cup U
    OBVIOUS
  <1> HIDE DEF U
  <1>2. IsFiniteSet(S) /\ IsFiniteSet(U)
    BY <1>1, DomainFacts, FS_Subset
  <1>3. \A x \in S \cup U : Size[x] \in Operands("product")
    <2> TAKE x \in S \cup U
    <2>1. x \in Agents /\ IsFiniteSet(problem.dom[x])
      BY <1>1, DomainFacts
    <2>2. Cardinality(problem.dom[x]) \in Nat
      BY <2>1, FS_CardinalityType
    <2> QED BY <2>1, <2>2 DEF Size, Operands
  <1>4. Fold("product", Size, S \cup U)
          = Combine("product", Fold("product", Size, S), Fold("product", Size, U))
    BY <1>1, <1>2, <1>3, FoldUnion
  <1> DEFINE c == Fold("product", Size, S)
             d == Fold("product", Size, U)
  <1>5. c \in Nat /\ d \in Nat /\ c > 0 /\ d > 0
    BY <1>1, PositiveProduct
  <1>6. Fold("product", Size, T) = c * d
    BY <1>1, <1>4 DEF Combine
  <1>7. Entries(Restrict(problem.dom, S)) = c /\ Entries(Restrict(problem.dom, T)) = c * d
    BY <1>1, <1>6, EntriesOf
  <1> HIDE DEF c, d
  <1>8. c * d \in Nat /\ c <= c * d
    BY <1>5
  <1> QED BY <1>5, <1>7, <1>8

(* Some agent of a set is deepest and some agent is least deep.              *)
LEMMA Extremes ==
    ASSUME Tree, IsFiniteSet(Agents), NEW S, S \subseteq Agents, S # {}
    PROVE  /\ \E a \in S : \A b \in S : Len(ancestors[b]) <= Len(ancestors[a])
           /\ \E a \in S : \A b \in S : Len(ancestors[a]) <= Len(ancestors[b])
  <1> DEFINE Deepest(T) == \E a \in T : \A b \in T : Len(ancestors[b]) <= Len(ancestors[a])
             Least(T) == \E a \in T : \A b \in T : Len(ancestors[a]) <= Len(ancestors[b])
             Q == {T \in SUBSET Agents : T = {} \/ (Deepest(T) /\ Least(T))}
  <1>1. \A a \in Agents : Len(ancestors[a]) \in Nat
    BY DEF Tree, Order
  <1>2. ASSUME NEW T \in SUBSET S, \A x \in T : T \ {x} \in Q
        PROVE  T \in Q
    <2>1. CASE T = {}
      BY <2>1
    <2>2. CASE T # {}
      <3>1. PICK x \in T : TRUE
        BY <2>2
      <3>2. T \subseteq Agents
        OBVIOUS
      <3>3. CASE T \ {x} = {}
        <4>1. \A y \in T : y = x
          BY <3>3
        <4>2. x \in Agents
          BY <3>2
        <4>3. Len(ancestors[x]) \in Nat
          BY <1>1, <4>2
        <4>4. Deepest(T) /\ Least(T)
          BY <4>1, <4>3
        <4> QED BY <4>4
      <3>4. CASE T \ {x} # {}
        <4>1. Deepest(T \ {x}) /\ Least(T \ {x})
          BY <1>2, <3>4
        <4>2. PICK p \in T \ {x} : \A b \in T \ {x} : Len(ancestors[b]) <= Len(ancestors[p])
          BY <4>1
        <4>3. PICK q \in T \ {x} : \A b \in T \ {x} : Len(ancestors[q]) <= Len(ancestors[b])
          BY <4>1
        <4>4. \A b \in T : Len(ancestors[b]) \in Nat
          BY <1>1, <3>2
        <4>5. Deepest(T)
          <5>1. CASE Len(ancestors[x]) <= Len(ancestors[p])
            BY <4>2, <5>1
          <5>2. CASE ~ (Len(ancestors[x]) <= Len(ancestors[p]))
            <6>1. Len(ancestors[x]) \in Nat /\ Len(ancestors[p]) \in Nat
              BY <4>4
            <6>2. Len(ancestors[p]) < Len(ancestors[x])
              BY <5>2, <6>1
            <6>3. ASSUME NEW b \in T
                  PROVE  Len(ancestors[b]) <= Len(ancestors[x])
              <7>1. CASE b = x
                BY <6>1, <7>1
              <7>2. CASE b # x
                <8>1. Len(ancestors[b]) <= Len(ancestors[p]) /\ Len(ancestors[b]) \in Nat
                  BY <4>2, <4>4, <7>2
                <8> QED BY <6>1, <6>2, <8>1
              <7> QED BY <7>1, <7>2
            <6> QED BY <6>3
          <5> QED BY <5>1, <5>2
        <4>6. Least(T)
          <5>1. CASE Len(ancestors[q]) <= Len(ancestors[x])
            BY <4>3, <5>1
          <5>2. CASE ~ (Len(ancestors[q]) <= Len(ancestors[x]))
            <6>1. Len(ancestors[x]) \in Nat /\ Len(ancestors[q]) \in Nat
              BY <4>4
            <6>2. Len(ancestors[x]) < Len(ancestors[q])
              BY <5>2, <6>1
            <6>3. ASSUME NEW b \in T
                  PROVE  Len(ancestors[x]) <= Len(ancestors[b])
              <7>1. CASE b = x
                BY <6>1, <7>1
              <7>2. CASE b # x
                <8>1. Len(ancestors[q]) <= Len(ancestors[b]) /\ Len(ancestors[b]) \in Nat
                  BY <4>3, <4>4, <7>2
                <8> QED BY <6>1, <6>2, <8>1
              <7> QED BY <7>1, <7>2
            <6> QED BY <6>3
          <5> QED BY <5>1, <5>2
        <4> QED BY <4>5, <4>6
      <3> QED BY <3>3, <3>4
    <2> QED BY <2>1, <2>2
  <1>3. IsFiniteSet(S)
    BY FS_Subset
  <1> HIDE DEF Q
  <1>4. S \in Q
    BY <1>2, <1>3, SubsetInduction
  <1> QED BY <1>4 DEF Q

(* The best choice of an agent whose separator has chosen does not cost the  *)
(* rest anything: the optimal assignment can be changed below the agent so   *)
(* that it holds the choice and stays optimal.                               *)
LEMMA ChoiceKeepsOptimum ==
    ASSUME Tree, Given, NEW top, Exact(root, top),
           NEW a \in Agents, NEW t, Exact(a, t), NEW choice, Attains(a, t, choice),
           NEW v \in World, Below(root, v) = At(top, v), At(top, v) # Forbidden
    PROVE  LET d == choice[Restrict(v, separator[a])]
           IN  /\ d \in problem.dom[a] /\ d # NoValue
               /\ \E u \in World : /\ Outside(Subtree(a), u, v)
                                   /\ u[a] = d
                                   /\ Below(root, u) = At(top, u)
                                   /\ At(top, u) = At(top, v)
  <1> DEFINE d == choice[Restrict(v, separator[a])]
             P == SubtreeFactors(a)
             R == Factors \ SubtreeFactors(a)
  <1>1. P \subseteq Factors /\ IsFiniteSet(P) /\ IsFiniteSet(R) /\ R \subseteq Factors
        /\ P \cap R = {} /\ Factors = P \cup R
    <2>1. IsFiniteSet(Factors)
      BY DomainFacts
    <2>2. P \subseteq Factors /\ IsFiniteSet(P)
      BY FiniteParts
    <2>3. R \subseteq Factors
      OBVIOUS
    <2>4. IsFiniteSet(R)
      BY <2>1, <2>3, FS_Subset
    <2> QED BY <2>2, <2>4
  <1>2. \A k \in R : ScopeOf(k) \cap Subtree(a) = {} /\ ScopeOf(k) \subseteq Agents
    BY FactorFacts DEF SubtreeFactors, Factors, ScopeOf
  <1>3. ASSUME NEW w \in World
        PROVE  /\ Below(root, w) = Plus(SumOf(Local(w), P), SumOf(Local(w), R))
               /\ SumOf(Local(w), P) = Below(a, w)
               /\ Below(a, w) \in Costs
               /\ SumOf(Local(w), R) \in Costs
               /\ Below(root, w) \in Costs
    <2> DEFINE f == Local(w)
    <2>1. \A k \in Factors : f[k] \in Costs
      BY LocalFacts
    <2>2. Below(root, w) = SumOf(f, Factors) /\ SumOf(f, P) = Below(a, w)
      BY RootFacts DEF Below
    <2> HIDE DEF f, P, R
    <2>3. SumOf(f, P \cup R) = Plus(SumOf(f, P), SumOf(f, R))
      BY <1>1, <2>1, SumUnion
    <2>4. SumOf(f, R) \in Costs /\ SumOf(f, P) \in Costs /\ SumOf(f, Factors) \in Costs
      <3>1. \A k \in R : f[k] \in Costs
        BY <1>1, <2>1
      <3>2. \A k \in P : f[k] \in Costs
        BY <1>1, <2>1
      <3>3. IsFiniteSet(Factors)
        BY DomainFacts
      <3>4. SumOf(f, R) \in Costs
        BY <1>1, <3>1, SumFacts
      <3>5. SumOf(f, P) \in Costs
        BY <1>1, <3>2, SumFacts
      <3>6. SumOf(f, Factors) \in Costs
        BY <2>1, <3>3, SumFacts
      <3> QED BY <3>4, <3>5, <3>6
    <2> QED BY <1>1, <2>2, <2>3, <2>4 DEF f
  <1>4. ASSUME NEW u \in World, Outside(Subtree(a), u, v)
        PROVE  SumOf(Local(u), R) = SumOf(Local(v), R)
    <2> DEFINE f == Local(v)
               g == Local(u)
    <2>1. \A k \in R : f[k] \in Costs /\ g[k] = f[k]
      <3> TAKE k \in R
      <3>1. k \in Factors /\ \A n \in ScopeOf(k) : u[n] = v[n]
        BY <1>1, <1>2, <1>4 DEF Outside
      <3> QED BY <3>1, LocalFacts
    <2> HIDE DEF f, g, R
    <2>2. SumOf(f, R) = SumOf(g, R)
      BY <1>1, <2>1, SumSame
    <2> QED BY <2>2 DEF f, g
  <1>5. root \in Agents /\ TableOver(top, {}) /\ TableOver(t, separator[a])
        /\ separator[a] \subseteq Agents
    BY RootFacts, FiniteParts DEF Exact
  <1>6. At(t, v) \in Costs /\ AtMost(At(t, v), Below(a, v)) /\ At(top, v) \in Costs
    BY <1>5, TableFacts DEF Exact
  <1>7. Below(a, v) # Forbidden
    BY <1>3, PlusFacts
  <1>8. At(t, v) # Forbidden
    BY <1>3, <1>6, <1>7, AtMostFacts
  <1>9. /\ d \in problem.dom[a]
        /\ \E u \in World : /\ Outside(Subtree(a), u, v)
                            /\ u[a] = d
                            /\ Below(a, u) = At(t, v)
    BY <1>8 DEF Attains
  <1>10. PICK u \in World : /\ Outside(Subtree(a), u, v)
                            /\ u[a] = d
                            /\ Below(a, u) = At(t, v)
    BY <1>9
  <1>11. d # NoValue
    BY <1>9, DomainFacts
  <1>12. At(top, u) = At(top, v) /\ AtMost(At(top, u), Below(root, u))
    <2>1. At(top, u) = At(top, v)
      BY <1>5, TableSame
    <2> QED BY <2>1 DEF Exact
  <1>13. AtMost(Below(root, u), Below(root, v))
    <2> DEFINE r == SumOf(Local(v), R)
    <2>1. /\ Below(root, u) = Plus(At(t, v), r)
          /\ Below(root, v) = Plus(Below(a, v), r)
          /\ r \in Costs
      BY <1>3, <1>4, <1>10
    <2> HIDE DEF r
    <2>2. Below(root, u) = Plus(r, At(t, v)) /\ Below(root, v) = Plus(r, Below(a, v))
      BY <1>3, <1>6, <2>1, PlusFacts
    <2> QED BY <1>3, <1>6, <2>1, <2>2, AtMostFacts
  <1>14. Below(root, u) = At(top, u)
    <2>1. AtMost(Below(root, u), At(top, u)) /\ AtMost(At(top, u), Below(root, u))
      BY <1>12, <1>13
    <2>2. Below(root, u) \in Costs /\ At(top, u) \in Costs
      BY <1>3, <1>6, <1>12
    <2> QED BY <2>1, <2>2, AtMostFacts
  <1> QED BY <1>9, <1>10, <1>11, <1>12, <1>14

Tabled(a, r) ==
    /\ Exact(a, r.table)
    /\ Attains(a, r.table, r.choice)
    /\ Width(a) <= budget

(* Nothing of the tree or of the instance changes.                           *)
Settled == UNCHANGED <<nbrs, root, problem, budget, ancestors, children, childSep, separator>>

(* The tree depends on what UTIL and VALUE leave alone.                      *)
LEMMA TreeStays ==
    ASSUME Tree, Settled
    PROVE  Tree'
  <1>1. /\ nbrs' = nbrs /\ root' = root /\ ancestors' = ancestors
        /\ children' = children /\ childSep' = childSep /\ separator' = separator
    BY DEF Settled
  <1>2. Order'
    BY <1>1 DEF Tree, Order, Above, Parent
  <1>3. Offspring'
    BY <1>1 DEF Tree, Offspring, Above, Parent
  <1>4. Edges'
    BY <1>1 DEF Tree, Edges, Above
  <1>5. Separators'
    BY <1>1 DEF Tree, Separators, Boundary, Subtree, Above
  <1>6. Linked'
    BY <1>1 DEF Tree, Linked, Above, Parent
  <1> QED BY <1>2, <1>3, <1>4, <1>5, <1>6 DEF Tree

(* So does what it means for an agent to hold its table.                     *)
LEMMA TabledStays ==
    ASSUME Settled, NEW a \in Agents, NEW r
    PROVE  Tabled(a, r)' <=> Tabled(a, r)
  <1>1. /\ nbrs' = nbrs /\ root' = root /\ ancestors' = ancestors /\ problem' = problem
        /\ children' = children /\ childSep' = childSep /\ separator' = separator
        /\ budget' = budget
    BY DEF Settled
  <1>2. Subtree(a)' = Subtree(a)
    BY <1>1 DEF Subtree, Above
  <1>3. \A v : Below(a, v)' = Below(a, v)
    BY <1>1, <1>2 DEF Below, SubtreeFactors, Local, Factors, ScopeOf
  <1>4. World' = World
    BY <1>1 DEF World
  <1>5. \A t : TableOver(t, separator[a])' <=> TableOver(t, separator[a])
    BY <1>1 DEF TableOver
  <1>6. \A u, v : Outside(Subtree(a), u, v)' <=> Outside(Subtree(a), u, v)
    BY <1>1, <1>2 DEF Outside
  <1>7. Width(a)' = Width(a)
    BY <1>1 DEF Width
  <1> QED BY <1>1, <1>3, <1>4, <1>5, <1>6, <1>7 DEF Tabled, Exact, Attains

-----------------------------------------------------------------------------
(* The messages in a queue.                                                  *)

Listed(q) == \E S : q \in Seq(S)
Posts(q) == {q[i] : i \in 1..Len(q)}
SendersApart(q) == \A i, j \in 1..Len(q) : q[i].from = q[j].from => i = j
ReceiversApart(q) == \A i, j \in 1..Len(q) : q[i].to = q[j].to => i = j

(* drain takes the oldest message.                                           *)
LEMMA TailPosts ==
    ASSUME NEW q, Listed(q), q # <<>>
    PROVE  /\ Listed(Tail(q))
           /\ Head(q) \in Posts(q)
           /\ Posts(q) = Posts(Tail(q)) \cup {Head(q)}
           /\ SendersApart(q) => /\ SendersApart(Tail(q))
                                 /\ \A m \in Posts(Tail(q)) : m.from # Head(q).from
           /\ ReceiversApart(q) => /\ ReceiversApart(Tail(q))
                                   /\ \A m \in Posts(Tail(q)) : m.to # Head(q).to
  <1>1. PICK S : q \in Seq(S)
    BY DEF Listed
  <1> DEFINE t == Tail(q)
             n == Len(q)
  <1>2. /\ n \in Nat /\ n > 0
        /\ Head(q) = q[1]
        /\ t \in Seq(S)
        /\ Len(t) = n - 1
        /\ \A i \in 1..n - 1 : t[i] = q[i + 1]
    BY <1>1
  <1> HIDE DEF t, n
  <1>3. Listed(t)
    BY <1>2 DEF Listed
  <1>4. 1 \in 1..n
    BY <1>2
  <1>5. \A i \in 1..n - 1 : i + 1 \in 1..n /\ i + 1 # 1
    BY <1>2
  <1>6. \A i \in 1..n : i = 1 \/ (i - 1 \in 1..n - 1 /\ (i - 1) + 1 = i)
    BY <1>2
  <1>7. \A m \in Posts(t) : \E i \in 1..n - 1 : m = q[i + 1]
    BY <1>2 DEF Posts
  <1>8. Posts(q) = Posts(t) \cup {Head(q)}
    <2>1. \A m \in Posts(t) : m \in Posts(q)
      BY <1>5, <1>7 DEF Posts, n
    <2>2. ASSUME NEW m \in Posts(q)
          PROVE  m \in Posts(t) \/ m = Head(q)
      <3>1. PICK i \in 1..n : m = q[i]
        BY DEF Posts, n
      <3>2. CASE i = 1
        BY <1>2, <3>1, <3>2
      <3>3. CASE i # 1
        <4>1. i - 1 \in 1..Len(t) /\ t[i - 1] = q[i]
          BY <1>2, <1>6, <3>3
        <4> QED BY <3>1, <4>1 DEF Posts
      <3> QED BY <3>2, <3>3
    <2>3. Head(q) \in Posts(q)
      BY <1>2, <1>4 DEF Posts, n
    <2> QED BY <2>1, <2>2, <2>3
  <1>9. ASSUME SendersApart(q)
        PROVE  SendersApart(t) /\ \A m \in Posts(t) : m.from # Head(q).from
    <2>1. \A i, j \in 1..n : q[i].from = q[j].from => i = j
      BY <1>9 DEF SendersApart, n
    <2>2. ASSUME NEW i \in 1..Len(t), NEW j \in 1..Len(t), t[i].from = t[j].from
          PROVE  i = j
      <3>1. i \in 1..n - 1 /\ j \in 1..n - 1 /\ i \in Int /\ j \in Int
        BY <1>2
      <3>2. t[i] = q[i + 1] /\ t[j] = q[j + 1] /\ i + 1 \in 1..n /\ j + 1 \in 1..n
        BY <1>2, <1>5, <3>1
      <3>3. i + 1 = j + 1
        BY <2>1, <2>2, <3>2
      <3> QED BY <3>1, <3>3
    <2>3. \A m \in Posts(t) : m.from # Head(q).from
      BY <1>2, <1>4, <1>5, <1>7, <2>1
    <2> QED BY <2>2, <2>3 DEF SendersApart
  <1>10. ASSUME ReceiversApart(q)
         PROVE  ReceiversApart(t) /\ \A m \in Posts(t) : m.to # Head(q).to
    <2>1. \A i, j \in 1..n : q[i].to = q[j].to => i = j
      BY <1>10 DEF ReceiversApart, n
    <2>2. ASSUME NEW i \in 1..Len(t), NEW j \in 1..Len(t), t[i].to = t[j].to
          PROVE  i = j
      <3>1. i \in 1..n - 1 /\ j \in 1..n - 1 /\ i \in Int /\ j \in Int
        BY <1>2
      <3>2. t[i] = q[i + 1] /\ t[j] = q[j + 1] /\ i + 1 \in 1..n /\ j + 1 \in 1..n
        BY <1>2, <1>5, <3>1
      <3>3. i + 1 = j + 1
        BY <2>1, <2>2, <3>2
      <3> QED BY <3>1, <3>3
    <2>3. \A m \in Posts(t) : m.to # Head(q).to
      BY <1>2, <1>4, <1>5, <1>7, <2>1
    <2> QED BY <2>2, <2>3 DEF ReceiversApart
  <1> QED BY <1>3, <1>8, <1>9, <1>10 DEF t

(* _send puts one message at the end.                                        *)
LEMMA AppendPosts ==
    ASSUME NEW q, Listed(q), NEW m
    PROVE  /\ Listed(Append(q, m))
           /\ Posts(Append(q, m)) = Posts(q) \cup {m}
           /\ SendersApart(q) /\ (\A x \in Posts(q) : x.from # m.from)
                 => SendersApart(Append(q, m))
  <1>1. PICK S : q \in Seq(S)
    BY DEF Listed
  <1> DEFINE T == S \cup {m}
             r == Append(q, m)
             n == Len(q)
  <1>2. q \in Seq(T) /\ m \in T
    BY <1>1
  <1>3. /\ n \in Nat
        /\ r \in Seq(T)
        /\ Len(r) = n + 1
        /\ \A i \in 1..n : r[i] = q[i]
        /\ r[n + 1] = m
    BY <1>2
  <1> HIDE DEF r, n, T
  <1>4. \A i \in 1..n + 1 : i \in 1..n \/ i = n + 1
    BY <1>3
  <1>5. \A i \in 1..n : i \in 1..n + 1 /\ i # n + 1
    BY <1>3
  <1>6. n + 1 \in 1..n + 1
    BY <1>3
  <1>7. Posts(r) = Posts(q) \cup {m}
    <2>1. \A x \in Posts(r) : x \in Posts(q) \/ x = m
      BY <1>3, <1>4 DEF Posts, n
    <2>2. \A x \in Posts(q) : x \in Posts(r)
      BY <1>3, <1>5 DEF Posts, n
    <2>3. m \in Posts(r)
      BY <1>3, <1>6 DEF Posts
    <2> QED BY <2>1, <2>2, <2>3
  <1>8. ASSUME SendersApart(q), \A x \in Posts(q) : x.from # m.from
        PROVE  SendersApart(r)
    <2>1. \A i, j \in 1..n : q[i].from = q[j].from => i = j
      BY <1>8 DEF SendersApart, n
    <2>2. \A i \in 1..n : q[i].from # m.from
      BY <1>8 DEF Posts, n
    <2>3. \A i, j \in 1..n + 1 : r[i].from = r[j].from => i = j
      BY <1>3, <1>4, <2>1, <2>2
    <2> QED BY <1>3, <2>3 DEF SendersApart
  <1> QED BY <1>3, <1>7, <1>8 DEF r, Listed

(* _choose puts its messages at the end.                                     *)
LEMMA ConcatPosts ==
    ASSUME NEW q, Listed(q), NEW r, Listed(r)
    PROVE  /\ Listed(q \o r)
           /\ Posts(q \o r) = Posts(q) \cup Posts(r)
           /\ ReceiversApart(q) /\ ReceiversApart(r)
              /\ (\A x \in Posts(q), y \in Posts(r) : x.to # y.to)
                 => ReceiversApart(q \o r)
  <1>1. PICK S : q \in Seq(S)
    BY DEF Listed
  <1>2. PICK R : r \in Seq(R)
    BY DEF Listed
  <1> DEFINE T == S \cup R
             s == q \o r
             n == Len(q)
             k == Len(r)
  <1>3. q \in Seq(T) /\ r \in Seq(T)
    BY <1>1, <1>2
  <1>4. /\ n \in Nat /\ k \in Nat
        /\ s \in Seq(T)
        /\ Len(s) = n + k
        /\ \A i \in 1..n + k : s[i] = IF i <= n THEN q[i] ELSE r[i - n]
    BY <1>3
  <1> HIDE DEF s, n, k, T
  <1>5. \A i \in 1..n : i \in 1..n + k /\ s[i] = q[i]
    BY <1>4
  <1>6. \A i \in 1..k : i + n \in 1..n + k /\ s[i + n] = r[i] /\ i + n \notin 1..n
    <2> TAKE i \in 1..k
    <2>1. i + n \in 1..n + k /\ ~ (i + n <= n) /\ (i + n) - n = i
      BY <1>4
    <2> QED BY <1>4, <2>1
  <1>7. \A i \in 1..n + k : i \in 1..n \/ (i - n \in 1..k /\ (i - n) + n = i)
    BY <1>4
  <1>8. Posts(s) = Posts(q) \cup Posts(r)
    <2>1. ASSUME NEW x \in Posts(s)
          PROVE  x \in Posts(q) \/ x \in Posts(r)
      <3>1. PICK i \in 1..n + k : x = s[i]
        BY <1>4 DEF Posts
      <3>2. CASE i \in 1..n
        BY <1>5, <3>1, <3>2 DEF Posts, n
      <3>3. CASE i \notin 1..n
        <4>1. i - n \in 1..k /\ s[i] = r[i - n]
          BY <1>6, <1>7, <3>3
        <4> QED BY <3>1, <4>1 DEF Posts, k
      <3> QED BY <3>2, <3>3
    <2>2. \A x \in Posts(q) : x \in Posts(s)
      BY <1>4, <1>5 DEF Posts, n
    <2>3. \A x \in Posts(r) : x \in Posts(s)
      BY <1>4, <1>6 DEF Posts, k
    <2> QED BY <2>1, <2>2, <2>3
  <1>9. ASSUME ReceiversApart(q), ReceiversApart(r),
               \A x \in Posts(q), y \in Posts(r) : x.to # y.to
        PROVE  ReceiversApart(s)
    <2>1. \A i, j \in 1..n : q[i].to = q[j].to => i = j
      BY <1>9 DEF ReceiversApart, n
    <2>2. \A i, j \in 1..k : r[i].to = r[j].to => i = j
      BY <1>9 DEF ReceiversApart, k
    <2>3. \A i \in 1..n, j \in 1..k : q[i].to # r[j].to
      BY <1>9 DEF Posts, n, k
    <2>4. ASSUME NEW i \in 1..n + k, NEW j \in 1..n + k, s[i].to = s[j].to
          PROVE  i = j
      <3>1. CASE i \in 1..n /\ j \in 1..n
        BY <1>5, <2>1, <2>4, <3>1
      <3>2. CASE i \in 1..n /\ j \notin 1..n
        <4>1. j - n \in 1..k /\ s[j] = r[j - n]
          BY <1>6, <1>7, <3>2
        <4> QED BY <1>5, <2>3, <2>4, <3>2, <4>1
      <3>3. CASE i \notin 1..n /\ j \in 1..n
        <4>1. i - n \in 1..k /\ s[i] = r[i - n]
          BY <1>6, <1>7, <3>3
        <4> QED BY <1>5, <2>3, <2>4, <3>3, <4>1
      <3>4. CASE i \notin 1..n /\ j \notin 1..n
        <4>1. i - n \in 1..k /\ s[i] = r[i - n] /\ (i - n) + n = i
          BY <1>6, <1>7, <3>4
        <4>2. j - n \in 1..k /\ s[j] = r[j - n] /\ (j - n) + n = j
          BY <1>6, <1>7, <3>4
        <4>3. i - n = j - n
          BY <2>2, <2>4, <4>1, <4>2
        <4> QED BY <4>1, <4>2, <4>3
      <3> QED BY <3>1, <3>2, <3>3, <3>4
    <2> QED BY <1>4, <2>4 DEF ReceiversApart
  <1> QED BY <1>4, <1>8, <1>9 DEF s, Listed

(* Keys are never used twice.                                                *)
Ledger(sn, rc) ==
    /\ sn \in [Agents -> Nat]
    /\ rc = [b \in Agents |-> rc[b]]
    /\ \A b, c \in Agents : \A n \in Nat : <<c, n>> \in rc[b] => n < sn[c]

(* A UTIL message carries the table of its sender to the parent, once.       *)
TableMail(m, ph, pr, sn, rc, ct) ==
    /\ m.kind = "util"
    /\ m.from \in Agents /\ m.from # root /\ m.to = Parent(m.from)
    /\ ph[m.from] = "util_done"
    /\ m.payload = pr[m.from].table
    /\ m.seq \in Nat /\ m.seq < sn[m.from]
    /\ <<m.from, m.seq>> \notin rc[m.to]
    /\ m.from \notin DOMAIN ct[m.to]

(* Where the tables are while UTIL runs: each agent that is done has an      *)
(* exact one, which its parent holds or which is in flight.                  *)
UtilState(ph, pr, sn, rc, q, ct) ==
    /\ ph \in [Agents -> {"ready", "util", "util_done"}]
    /\ pr = [b \in Agents |-> pr[b]]
    /\ ct = [b \in Agents |-> ct[b]]
    /\ Ledger(sn, rc)
    /\ Listed(q) /\ SendersApart(q)
    /\ \A m \in Posts(q) : TableMail(m, ph, pr, sn, rc, ct)
    /\ \A b \in Agents : \A c \in DOMAIN ct[b] :
          c \in ToSet(children[b]) /\ ph[c] = "util_done" /\ ct[b][c] = pr[c].table
    /\ \A b \in Agents : ph[b] = "util_done" =>
          Tabled(b, pr[b]) /\ DOMAIN ct[b] = ToSet(children[b])
    /\ \A b \in Agents : ph[b] = "util_done" /\ b # root =>
          b \in DOMAIN ct[Parent(b)] \/ \E m \in Posts(q) : m.from = b

(* Every agent that waits, but x, misses the table of a child.               *)
Waiting(ph, ct, x) ==
    \A b \in Agents : ph[b] = "util" /\ b # x => DOMAIN ct[b] # ToSet(children[b])

(* Done agents have exact tables, whatever became of the run.                *)
Tabulated(ph, pr) ==
    \A b \in Agents : ph[b] \in {"util_done", "assigned"} => Tabled(b, pr[b])

(* An agent and its parent know each other: the parent lists it, is its      *)
(* neighbour, and keeps its separator.                                       *)
LEMMA TreeLinks ==
    ASSUME Tree, NEW a \in Agents
    PROVE  /\ Parent(a) = NoAgent <=> a = root
           /\ a # root => /\ Parent(a) \in Agents
                          /\ a \in ToSet(children[Parent(a)])
                          /\ Parent(a) \in nbrs[a]
                          /\ a \in nbrs[Parent(a)]
                          /\ childSep[Parent(a)][a] = separator[a]
           /\ \A c \in ToSet(children[a]) : c \in Agents /\ c # root /\ Parent(c) = a
  <1>1. \A b \in Agents : Parent(b) = NoAgent <=> b = root
    BY DEF Tree, Order
  <1>2. ASSUME a # root
        PROVE  /\ Parent(a) \in Agents
               /\ a \in ToSet(children[Parent(a)])
               /\ Parent(a) \in nbrs[a]
               /\ a \in nbrs[Parent(a)]
               /\ childSep[Parent(a)][a] = separator[a]
    <2>1. Parent(a) \in Agents /\ Parent(a) \in nbrs[a]
      BY <1>2 DEF Tree, Order, Linked
    <2>2. a \in ToSet(children[Parent(a)])
      BY <2>1 DEF Tree, Offspring
    <2>3. a \in nbrs[Parent(a)]
      BY <2>1 DEF Tree, Edges
    <2>4. childSep[Parent(a)][a] = separator[a]
      BY <2>1, <2>2 DEF Tree, Separators
    <2> QED BY <2>1, <2>2, <2>3, <2>4
  <1>3. ASSUME NEW c \in ToSet(children[a])
        PROVE  c \in Agents /\ c # root /\ Parent(c) = a
    <2>1. c \in Agents /\ Parent(c) = a
      BY SubtreeParts
    <2>2. a # NoAgent
      BY AgentsAssumption
    <2> QED BY <1>1, <2>1, <2>2
  <1> QED BY <1>1, <1>2, <1>3

(* What an agent with all tables computes.                                   *)
LEMMA ComputeFacts ==
    ASSUME Tree, Given, budget \in Budgets, NEW a \in Agents, NEW tables,
           DOMAIN tables = ToSet(children[a]),
           \A c \in DOMAIN tables : Exact(c, tables[c])
    PROVE  /\ SameDomains(Contributions(a, tables))
           /\ TooLarge(JoinedDomains(Contributions(a, tables))) <=> Width(a) > budget
           /\ ~ TooLarge(JoinedDomains(Contributions(a, tables))) =>
                 Tabled(a, Minimize(Join(Contributions(a, tables)), a))
           /\ Scope(Minimize(Join(Contributions(a, tables)), a).table) = separator[a]
  <1> DEFINE family == Contributions(a, tables)
             r == Minimize(Join(family), a)
  <1>1. \A c \in DOMAIN tables : TableOver(tables[c], separator[c])
    BY DEF Exact
  <1>2. Joinable(family) /\ JoinedScope(family) = separator[a] \cup {a}
    BY <1>1, ContributionFacts
  <1>3. Exact(a, r.table) /\ Attains(a, r.table, r.choice)
    BY MinimizedIsExact
  <1> HIDE DEF family
  <1>4. SameDomains(family) /\ JoinedDomains(family) = Restrict(problem.dom, JoinedScope(family))
    BY <1>2, JoinFacts
  <1>5. separator[a] \cup {a} = {a} \cup separator[a]
    OBVIOUS
  <1>6. Entries(JoinedDomains(family)) = Width(a)
    BY <1>2, <1>4, <1>5 DEF Width
  <1>7. separator[a] \subseteq Agents
    BY FiniteParts
  <1>8. Width(a) \in Nat
    <2>1. {a} \cup separator[a] \subseteq Agents
      BY <1>7
    <2> QED BY <2>1, MoreEntries DEF Width
  <1>9. budget \in Nat
    BY BudgetsAssumption
  <1>10. TooLarge(JoinedDomains(family)) <=> Width(a) > budget
    BY <1>6 DEF TooLarge
  <1>11. ~ TooLarge(JoinedDomains(family)) => Tabled(a, r)
    <2> HIDE DEF r
    <2> QED BY <1>3, <1>8, <1>9, <1>10 DEF Tabled
  <1>12. Scope(r.table) = separator[a]
    <2> HIDE DEF r
    <2> QED BY <1>3, <1>7, TableFacts DEF Exact
  <1> QED BY <1>4, <1>10, <1>11, <1>12 DEF family

(* A sender that counts further keeps its old keys apart from the new ones.  *)
LEMMA LedgerGrows ==
    ASSUME NEW sn, NEW rc, Ledger(sn, rc), NEW a \in Agents, NEW k \in Nat
    PROVE  Ledger([sn EXCEPT ![a] = @ + k], rc)
  <1> DEFINE sn2 == [sn EXCEPT ![a] = @ + k]
  <1>1. sn \in [Agents -> Nat]
    BY DEF Ledger
  <1>2. sn2 \in [Agents -> Nat] /\ \A c \in Agents : sn2[c] \in Nat /\ sn[c] \in Nat /\ sn2[c] >= sn[c]
    BY <1>1
  <1> HIDE DEF sn2
  <1>3. \A b, c \in Agents : \A n \in Nat : <<c, n>> \in rc[b] => n < sn2[c]
    <2> TAKE b, c \in Agents
    <2> TAKE n \in Nat
    <2> HAVE <<c, n>> \in rc[b]
    <2>1. n < sn[c]
      BY DEF Ledger
    <2> QED BY <1>2, <2>1
  <1> QED BY <1>2, <1>3 DEF Ledger, sn2

(* An agent completes its table and, below the root, sends it.               *)
LEMMA DoneKeeps ==
    ASSUME Tree, NEW ph, NEW pr, NEW sn, NEW rc, NEW q, NEW ct,
           UtilState(ph, pr, sn, rc, q, ct),
           NEW a \in Agents, ph[a] # "util_done", DOMAIN ct[a] = ToSet(children[a]),
           NEW r, Tabled(a, r),
           NEW sn2, NEW q2,
           IF a = root THEN sn2 = sn /\ q2 = q
           ELSE /\ sn2 = [sn EXCEPT ![a] = @ + 1]
                /\ q2 = Append(q, [kind |-> "util", from |-> a, to |-> Parent(a),
                                   seq |-> sn[a], payload |-> r.table])
    PROVE  UtilState([ph EXCEPT ![a] = "util_done"], [pr EXCEPT ![a] = r], sn2, rc, q2, ct)
  <1> DEFINE ph2 == [ph EXCEPT ![a] = "util_done"]
             pr2 == [pr EXCEPT ![a] = r]
             m == [kind |-> "util", from |-> a, to |-> Parent(a),
                   seq |-> sn[a], payload |-> r.table]
  <1>1. /\ ph \in [Agents -> {"ready", "util", "util_done"}]
        /\ pr = [b \in Agents |-> pr[b]]
        /\ ct = [b \in Agents |-> ct[b]]
        /\ Ledger(sn, rc)
        /\ Listed(q) /\ SendersApart(q)
    BY DEF UtilState
  <1>2. \A x \in Posts(q) : TableMail(x, ph, pr, sn, rc, ct)
    BY DEF UtilState
  <1>3. \A b \in Agents : \A c \in DOMAIN ct[b] :
          c \in ToSet(children[b]) /\ ph[c] = "util_done" /\ ct[b][c] = pr[c].table
    BY DEF UtilState
  <1>4. \A b \in Agents : ph[b] = "util_done" =>
          Tabled(b, pr[b]) /\ DOMAIN ct[b] = ToSet(children[b])
    BY DEF UtilState
  <1>5. \A b \in Agents : ph[b] = "util_done" /\ b # root =>
          b \in DOMAIN ct[Parent(b)] \/ \E x \in Posts(q) : x.from = b
    BY DEF UtilState
  <1>6. /\ ph2 \in [Agents -> {"ready", "util", "util_done"}]
        /\ pr2 = [b \in Agents |-> pr2[b]]
        /\ ph2[a] = "util_done" /\ pr2[a] = r
        /\ \A b \in Agents : b # a => ph2[b] = ph[b] /\ pr2[b] = pr[b]
    BY <1>1
  <1>7. m.kind = "util" /\ m.from = a /\ m.to = Parent(a) /\ m.seq = sn[a] /\ m.payload = r.table
    OBVIOUS
  <1> HIDE DEF ph2, pr2, m
  <1>8. Ledger(sn2, rc) /\ sn2 \in [Agents -> Nat]
        /\ \A b \in Agents : sn[b] \in Nat /\ sn2[b] \in Nat /\ sn2[b] >= sn[b]
        /\ (a # root => sn2[a] = sn[a] + 1)
    <2>1. sn \in [Agents -> Nat]
      BY <1>1 DEF Ledger
    <2>2. CASE a = root
      BY <1>1, <2>1, <2>2
    <2>3. CASE a # root
      <3>1. sn2 = [sn EXCEPT ![a] = @ + 1]
        BY <2>3
      <3>2. Ledger(sn2, rc)
        BY <1>1, <3>1, LedgerGrows
      <3> QED BY <2>1, <2>3, <3>1, <3>2
    <2> QED BY <2>2, <2>3
  <1>9. \A x \in Posts(q) : x.from # a
    BY <1>2 DEF TableMail
  <1>10. /\ Listed(q2) /\ SendersApart(q2)
         /\ Posts(q2) = IF a = root THEN Posts(q) ELSE Posts(q) \cup {m}
    <2>1. CASE a = root
      BY <1>1, <2>1
    <2>2. CASE a # root
      <3>1. q2 = Append(q, m)
        BY <2>2 DEF m
      <3>2. \A x \in Posts(q) : x.from # m.from
        BY <1>7, <1>9
      <3> QED BY <1>1, <2>2, <3>1, <3>2, AppendPosts
    <2> QED BY <2>1, <2>2
  <1>11. \A b \in Agents : \A c \in DOMAIN ct[b] : c # a /\ c \in Agents
    <2> TAKE b \in Agents
    <2> TAKE c \in DOMAIN ct[b]
    <2>1. c \in ToSet(children[b]) /\ ph[c] = "util_done"
      BY <1>3
    <2> QED BY <2>1, TreeLinks
  <1>12. ASSUME NEW x \in Posts(q)
         PROVE  TableMail(x, ph2, pr2, sn2, rc, ct)
    <2>1. TableMail(x, ph, pr, sn, rc, ct) /\ x.from # a
      BY <1>2, <1>9
    <2>2. x.from \in Agents /\ x.seq \in Nat /\ x.seq < sn[x.from]
      BY <2>1 DEF TableMail
    <2>3. x.seq < sn2[x.from]
      BY <1>8, <2>2
    <2>4. ph2[x.from] = ph[x.from] /\ pr2[x.from] = pr[x.from]
      BY <1>6, <2>1, <2>2
    <2> QED BY <2>1, <2>3, <2>4 DEF TableMail
  <1>13. ASSUME a # root
         PROVE  TableMail(m, ph2, pr2, sn2, rc, ct)
    <2>1. Parent(a) \in Agents
      BY <1>13, TreeLinks
    <2>2. <<a, sn[a]>> \notin rc[Parent(a)]
      <3>1. sn[a] \in Nat
        BY <1>8
      <3>2. <<a, sn[a]>> \in rc[Parent(a)] => sn[a] < sn[a]
        BY <1>1, <2>1, <3>1 DEF Ledger
      <3> QED BY <3>1, <3>2
    <2>3. a \notin DOMAIN ct[Parent(a)]
      BY <1>11, <2>1
    <2>4. sn[a] \in Nat /\ sn[a] < sn2[a]
      BY <1>8, <1>13
    <2> QED BY <1>6, <1>7, <1>13, <2>1, <2>2, <2>3, <2>4 DEF TableMail
  <1>14. \A x \in Posts(q2) : TableMail(x, ph2, pr2, sn2, rc, ct)
    BY <1>10, <1>12, <1>13
  <1>15. \A b \in Agents : \A c \in DOMAIN ct[b] :
           c \in ToSet(children[b]) /\ ph2[c] = "util_done" /\ ct[b][c] = pr2[c].table
    <2> TAKE b \in Agents
    <2> TAKE c \in DOMAIN ct[b]
    <2>1. c \in ToSet(children[b]) /\ ph[c] = "util_done" /\ ct[b][c] = pr[c].table
      BY <1>3
    <2>2. c # a /\ c \in Agents
      BY <1>11
    <2> QED BY <1>6, <2>1, <2>2
  <1>16. \A b \in Agents : ph2[b] = "util_done" =>
           Tabled(b, pr2[b]) /\ DOMAIN ct[b] = ToSet(children[b])
    <2> TAKE b \in Agents
    <2>1. CASE b = a
      BY <1>6, <2>1
    <2>2. CASE b # a
      BY <1>4, <1>6, <2>2
    <2> QED BY <2>1, <2>2
  <1>17. \A b \in Agents : ph2[b] = "util_done" /\ b # root =>
           b \in DOMAIN ct[Parent(b)] \/ \E x \in Posts(q2) : x.from = b
    <2> TAKE b \in Agents
    <2> HAVE ph2[b] = "util_done" /\ b # root
    <2>1. CASE b = a
      BY <1>7, <1>10, <2>1
    <2>2. CASE b # a
      BY <1>5, <1>6, <1>10, <2>2
    <2> QED BY <2>1, <2>2
  <1>18. UtilState(ph2, pr2, sn2, rc, q2, ct)
    BY <1>1, <1>6, <1>8, <1>10, <1>14, <1>15, <1>16, <1>17 DEF UtilState
  <1> QED BY <1>18 DEF ph2, pr2

(* An agent stays, or becomes, one that waits.                               *)
LEMMA WaitKeeps ==
    ASSUME Tree, NEW ph, NEW pr, NEW sn, NEW rc, NEW q, NEW ct,
           UtilState(ph, pr, sn, rc, q, ct),
           NEW a \in Agents, ph[a] # "util_done"
    PROVE  UtilState([ph EXCEPT ![a] = "util"], pr, sn, rc, q, ct)
  <1> DEFINE ph2 == [ph EXCEPT ![a] = "util"]
  <1>1. ph \in [Agents -> {"ready", "util", "util_done"}]
    BY DEF UtilState
  <1>2. /\ ph2 \in [Agents -> {"ready", "util", "util_done"}]
        /\ \A b \in Agents : ph2[b] = "util_done" <=> ph[b] = "util_done"
    BY <1>1
  <1> HIDE DEF ph2
  <1>3. \A m \in Posts(q) : TableMail(m, ph2, pr, sn, rc, ct)
    <2> TAKE m \in Posts(q)
    <2>1. TableMail(m, ph, pr, sn, rc, ct)
      BY DEF UtilState
    <2> QED BY <1>2, <2>1 DEF TableMail
  <1>4. \A b \in Agents : \A c \in DOMAIN ct[b] :
          c \in ToSet(children[b]) /\ ph2[c] = "util_done" /\ ct[b][c] = pr[c].table
    <2> TAKE b \in Agents
    <2> TAKE c \in DOMAIN ct[b]
    <2>1. c \in ToSet(children[b]) /\ ph[c] = "util_done" /\ ct[b][c] = pr[c].table
      BY DEF UtilState
    <2>2. c \in Agents
      BY <2>1, TreeLinks
    <2> QED BY <1>2, <2>1, <2>2
  <1>5. UtilState(ph2, pr, sn, rc, q, ct)
    BY <1>2, <1>3, <1>4 DEF UtilState
  <1> QED BY <1>5 DEF ph2

(* _compute_util_if_ready of an agent that is not done.                      *)
LEMMA ComputeKeeps ==
    ASSUME Tree, Given, budget \in Budgets, NEW rc, NEW rest, NEW ct,
           UtilState(phase, projection, sent, rc, rest, ct),
           NEW a \in Agents, phase[a] # "util_done", Waiting(phase, ct, a),
           ComputeUtil(a, rest, ct[a])
    PROVE  \/ /\ stage' = stage
              /\ UtilState(phase', projection', sent', rc, queue', ct)
              /\ Waiting(phase', ct, NoAgent)
           \/ /\ stage' = "budget_exceeded"
              /\ Width(a) > budget
              /\ Tabulated(phase', projection')
  <1> DEFINE family == Contributions(a, ct[a])
             r == Minimize(Join(family), a)
  <1>1. phase \in [Agents -> {"ready", "util", "util_done"}]
    BY DEF UtilState
  <1>2. a # NoAgent
    BY AgentsAssumption
  <1>3. CASE DOMAIN ct[a] # ToSet(children[a])
    <2>1. /\ phase' = [phase EXCEPT ![a] = "util"]
          /\ queue' = rest
          /\ UNCHANGED <<stage, sent, projection>>
      BY <1>3 DEF ComputeUtil
    <2>2. UtilState(phase', projection', sent', rc, queue', ct)
      BY <2>1, WaitKeeps
    <2>3. Waiting(phase', ct, NoAgent)
      BY <1>1, <1>3, <2>1 DEF Waiting
    <2> QED BY <2>1, <2>2, <2>3
  <1>4. CASE DOMAIN ct[a] = ToSet(children[a])
    <2>1. \A c \in DOMAIN ct[a] : Exact(c, ct[a][c])
      <3> TAKE c \in DOMAIN ct[a]
      <3>1. c \in ToSet(children[a]) /\ phase[c] = "util_done" /\ ct[a][c] = projection[c].table
        BY DEF UtilState
      <3>2. c \in Agents
        BY <3>1, TreeLinks
      <3>3. Tabled(c, projection[c])
        BY <3>1, <3>2 DEF UtilState
      <3> QED BY <3>1, <3>3 DEF Tabled
    <2> DEFINE tables == ct[a]
    <2>2. /\ SameDomains(Contributions(a, tables))
          /\ TooLarge(JoinedDomains(Contributions(a, tables))) <=> Width(a) > budget
          /\ ~ TooLarge(JoinedDomains(Contributions(a, tables))) =>
                Tabled(a, Minimize(Join(Contributions(a, tables)), a))
          /\ Scope(Minimize(Join(Contributions(a, tables)), a).table) = separator[a]
      <3>1. DOMAIN tables = ToSet(children[a]) /\ \A c \in DOMAIN tables : Exact(c, tables[c])
        BY <1>4, <2>1
      <3> HIDE DEF tables
      <3> QED BY <3>1, ComputeFacts
    <2>3. CASE TooLarge(JoinedDomains(family))
      <3>1. Fail(a, rest, "budget_exceeded")
        BY <1>4, <2>2, <2>3 DEF ComputeUtil
      <3>2. /\ stage' = "budget_exceeded"
            /\ phase' = [phase EXCEPT ![a] = "failed"]
            /\ projection' = projection
        BY <3>1 DEF Fail
      <3>3. Tabulated(phase', projection')
        <4>1. \A b \in Agents : phase'[b] \in {"util_done", "assigned"} => phase[b] = "util_done"
          BY <1>1, <3>2
        <4>2. \A b \in Agents : phase[b] = "util_done" => Tabled(b, projection[b])
          BY DEF UtilState
        <4> QED BY <3>2, <4>1, <4>2 DEF Tabulated
      <3> QED BY <2>2, <2>3, <3>2, <3>3
    <2>4. CASE ~ TooLarge(JoinedDomains(family))
      <3>1. Tabled(a, r) /\ Scope(r.table) = separator[a]
        BY <2>2, <2>4
      <3>2. /\ phase' = [phase EXCEPT ![a] = "util_done"]
            /\ projection' = [projection EXCEPT ![a] = r]
            /\ stage' = stage
            /\ IF Parent(a) = NoAgent
               THEN queue' = rest /\ UNCHANGED sent
               ELSE Post(rest, a, Parent(a), "util", r.table)
        BY <1>4, <2>2, <2>4, <3>1 DEF ComputeUtil
      <3> HIDE DEF r
      <3>3. IF a = root THEN sent' = sent /\ queue' = rest
            ELSE /\ sent' = [sent EXCEPT ![a] = @ + 1]
                 /\ queue' = Append(rest, [kind |-> "util", from |-> a, to |-> Parent(a),
                                           seq |-> sent[a], payload |-> r.table])
        BY <3>2, TreeLinks DEF Post
      <3>4. UtilState(phase', projection', sent', rc, queue', ct)
        BY <1>4, <3>1, <3>2, <3>3, DoneKeeps
      <3>5. Waiting(phase', ct, NoAgent)
        BY <1>1, <3>2 DEF Waiting
      <3> QED BY <3>2, <3>4, <3>5
    <2> QED BY <2>3, <2>4
  <1> QED BY <1>3, <1>4

UtilStage ==
    /\ UtilState(phase, projection, sent, received, queue, childTable)
    /\ Waiting(phase, childTable, NoAgent)

(* The stage of UTIL holds after a step when its parts hold of the new       *)
(* values.                                                                   *)
LEMMA UtilStays ==
    ASSUME Settled, UtilState(phase', projection', sent', received', queue', childTable'),
           Waiting(phase', childTable', NoAgent)
    PROVE  UtilStage'
  <1>1. /\ nbrs' = nbrs /\ root' = root /\ ancestors' = ancestors /\ problem' = problem
        /\ children' = children /\ childSep' = childSep /\ separator' = separator
        /\ budget' = budget
    BY DEF Settled
  <1>2. \A b : Parent(b)' = Parent(b)
    BY <1>1 DEF Parent
  <1>3. \A b \in Agents : phase'[b] = "util_done" => Tabled(b, projection[b])'
    <2>1. \A b \in Agents : phase'[b] = "util_done" => Tabled(b, projection'[b])
      BY DEF UtilState
    <2> QED BY <2>1, TabledStays
  <1>4. \A m \in Posts(queue') :
           TableMail(m, phase', projection', sent', received', childTable')
    BY DEF UtilState
  <1>5. \A m \in Posts(queue') :
           TableMail(m, phase, projection, sent, received, childTable)'
    BY <1>1, <1>2, <1>4 DEF TableMail
  <1>6. UtilState(phase, projection, sent, received, queue, childTable)'
    BY <1>1, <1>2, <1>3, <1>5 DEF UtilState
  <1>7. Waiting(phase, childTable, NoAgent)'
    BY <1>1 DEF Waiting
  <1> QED BY <1>6, <1>7 DEF UtilStage

(* And so does the exactness of the tables.                                  *)
LEMMA TabulatedStays ==
    ASSUME Settled, Tabulated(phase', projection')
    PROVE  Tabulated(phase, projection)'
  <1>1. \A b \in Agents : phase'[b] \in {"util_done", "assigned"} => Tabled(b, projection'[b])
    BY DEF Tabulated
  <1> QED BY <1>1, TabledStays DEF Tabulated

(* While UTIL runs every agent that is done has its table.                   *)
LEMMA UtilTabulated ==
    ASSUME UtilStage
    PROVE  Tabulated(phase, projection)
  BY DEF UtilStage, UtilState, Tabulated

(* _run_util starts an agent.                                                *)
LEMMA StartUtilKeeps ==
    ASSUME Tree, Given, budget \in Budgets, UtilStage, StartUtil
    PROVE  \/ stage' = "util" /\ UtilStage'
           \/ /\ stage' = "budget_exceeded"
              /\ \E a \in Agents : Width(a) > budget
              /\ Tabulated(phase, projection)'
  <1> DEFINE a == Min({b \in Agents : phase[b] = "ready"})
  <1>1. a \in Agents /\ phase[a] = "ready"
    <2> DEFINE S == {b \in Agents : phase[b] = "ready"}
    <2>1. S \in SUBSET Agents /\ S # {}
      BY DEF StartUtil, UtilStarted
    <2>2. Min(S) \in S
      <3> HIDE DEF S
      <3> QED BY <2>1, MinAgent
    <2> QED BY <2>2
  <1>2. /\ ComputeUtil(a, queue, childTable[a])
        /\ stage = "util"
        /\ Settled
        /\ received' = received /\ childTable' = childTable
    BY DEF StartUtil, given, instance, tree, Settled
  <1> HIDE DEF a
  <1>3. Waiting(phase, childTable, a) /\ phase[a] # "util_done"
    BY <1>1, AgentsAssumption DEF UtilStage, Waiting
  <1>4. UtilState(phase, projection, sent, received, queue, childTable)
    BY DEF UtilStage
  <1>5. \/ /\ stage' = stage
           /\ UtilState(phase', projection', sent', received, queue', childTable)
           /\ Waiting(phase', childTable, NoAgent)
        \/ /\ stage' = "budget_exceeded"
           /\ Width(a) > budget
           /\ Tabulated(phase', projection')
    BY <1>1, <1>2, <1>3, <1>4, ComputeKeeps
  <1> QED BY <1>1, <1>2, <1>5, UtilStays, TabulatedStays

(* The table that arrives is the one the parent misses.                      *)
LEMMA TableArrives ==
    ASSUME Tree, Given, budget \in Budgets, UtilStage, UtilStarted, queue # <<>>,
           NEW m, m = Head(queue)
    PROVE  /\ Acceptable(m) /\ GoodUtil(m)
           /\ ~ TooLarge(m.payload.dom)
           /\ m.to \in Agents /\ phase[m.to] = "util"
           /\ m.from \in Agents /\ m.seq \in Nat
  <1>1. UtilState(phase, projection, sent, received, queue, childTable)
    BY DEF UtilStage
  <1>2. Listed(queue) /\ m \in Posts(queue)
    <2>1. Listed(queue)
      BY <1>1 DEF UtilState
    <2> QED BY <2>1, TailPosts
  <1>3. TableMail(m, phase, projection, sent, received, childTable)
    BY <1>1, <1>2 DEF UtilState
  <1> DEFINE c == m.from
             a == m.to
  <1>4. /\ c \in Agents /\ c # root /\ a = Parent(c)
        /\ phase[c] = "util_done"
        /\ m.kind = "util" /\ m.payload = projection[c].table
        /\ m.seq \in Nat
        /\ <<c, m.seq>> \notin received[a]
        /\ c \notin DOMAIN childTable[a]
    BY <1>3 DEF TableMail
  <1>5. /\ a \in Agents /\ c \in ToSet(children[a])
        /\ c \in nbrs[a]
        /\ childSep[a][c] = separator[c]
    BY <1>4, TreeLinks
  <1>6. phase[a] = "util"
    <2>1. phase[a] \in {"ready", "util", "util_done"}
      BY <1>1, <1>5 DEF UtilState
    <2>2. phase[a] # "ready"
      BY <1>5 DEF UtilStarted
    <2>3. phase[a] # "util_done"
      BY <1>1, <1>4, <1>5 DEF UtilState
    <2> QED BY <2>1, <2>2, <2>3
  <1> HIDE DEF c, a
  <1>7. \A d \in Agents : phase[d] = "util_done" =>
           /\ TableOver(projection[d].table, separator[d])
           /\ Width(d) <= budget
           /\ separator[d] \subseteq Agents
    <2> TAKE d \in Agents
    <2> HAVE phase[d] = "util_done"
    <2>1. Tabled(d, projection[d])
      BY <1>1 DEF UtilState
    <2>2. separator[d] \subseteq Agents
      BY FiniteParts
    <2> QED BY <2>1, <2>2 DEF Tabled, Exact
  <1>8. m.payload.dom = Restrict(problem.dom, separator[c])
    BY <1>4, <1>7 DEF TableOver
  <1>9. Scope(m.payload) = separator[c]
        /\ \A n \in Scope(m.payload) : m.payload.dom[n] = problem.dom[n]
    BY <1>8 DEF Scope, Restrict
  <1>10. \A d \in DOMAIN childTable[a] : \A n \in Scope(childTable[a][d]) :
            childTable[a][d].dom[n] = problem.dom[n]
    <2> TAKE d \in DOMAIN childTable[a]
    <2>1. d \in ToSet(children[a]) /\ phase[d] = "util_done" /\ childTable[a][d] = projection[d].table
      BY <1>1, <1>5 DEF UtilState
    <2>2. d \in Agents
      BY <1>5, <2>1, TreeLinks
    <2>3. childTable[a][d].dom = Restrict(problem.dom, separator[d])
      BY <1>7, <2>1, <2>2 DEF TableOver
    <2> QED BY <2>3 DEF Scope, Restrict
  <1>11. GoodUtil(m)
    <2>1. \A n \in Scope(m.payload) \cap ({m.to} \cup nbrs[m.to]) :
             m.payload.dom[n] = problem.dom[n]
      BY <1>9
    <2>2. \A d \in DOMAIN childTable[m.to] :
             \A n \in Scope(m.payload) \cap Scope(childTable[m.to][d]) :
                m.payload.dom[n] = childTable[m.to][d].dom[n]
      BY <1>9, <1>10 DEF a
    <2>3. Scope(m.payload) = childSep[m.to][m.from]
      BY <1>5, <1>9 DEF a, c
    <2> QED BY <1>4, <1>5, <1>6, <2>1, <2>2, <2>3 DEF GoodUtil, a, c
  <1>12. Acceptable(m)
    BY <1>4, <1>5 DEF Acceptable, Key, a, c
  <1>13. ~ TooLarge(m.payload.dom)
    <2>1. {c} \cup separator[c] \subseteq Agents /\ separator[c] \subseteq {c} \cup separator[c]
      BY <1>4, <1>7
    <2>2. /\ Entries(Restrict(problem.dom, separator[c])) \in Nat
          /\ Entries(Restrict(problem.dom, {c} \cup separator[c])) \in Nat
          /\ Entries(Restrict(problem.dom, separator[c]))
                <= Entries(Restrict(problem.dom, {c} \cup separator[c]))
      BY <2>1, MoreEntries
    <2>3. Width(c) <= budget /\ budget \in Nat
      BY <1>4, <1>7, BudgetsAssumption
    <2>4. /\ Entries(m.payload.dom) \in Nat /\ Width(c) \in Nat
          /\ Entries(m.payload.dom) <= Width(c)
      BY <1>8, <2>2 DEF Width
    <2>5. ~ (Entries(m.payload.dom) > budget)
      BY <2>3, <2>4
    <2> QED BY <2>5 DEF TooLarge
  <1> QED BY <1>4, <1>5, <1>6, <1>11, <1>12, <1>13 DEF a, c

(* The parent stores it.                                                     *)
LEMMA TableStored ==
    ASSUME Tree, UtilStage, queue # <<>>, NEW m, m = Head(queue),
           m.to \in Agents, m.from \in Agents, m.seq \in Nat, phase[m.to] = "util",
           NEW tables, tables = [c \in DOMAIN childTable[m.to] \cup {m.from} |->
                                   IF c = m.from THEN m.payload ELSE childTable[m.to][c]],
           NEW ct, ct = [childTable EXCEPT ![m.to] = tables],
           NEW rc, rc = [received EXCEPT ![m.to] = @ \cup {Key(m)}]
    PROVE  /\ UtilState(phase, projection, sent, rc, Tail(queue), ct)
           /\ Waiting(phase, ct, m.to)
  <1>1. /\ phase \in [Agents -> {"ready", "util", "util_done"}]
        /\ projection = [b \in Agents |-> projection[b]]
        /\ childTable = [b \in Agents |-> childTable[b]]
        /\ Ledger(sent, received)
        /\ Listed(queue) /\ SendersApart(queue)
    BY DEF UtilStage, UtilState
  <1>2. \A x \in Posts(queue) : TableMail(x, phase, projection, sent, received, childTable)
    BY DEF UtilStage, UtilState
  <1>3. /\ Listed(Tail(queue)) /\ SendersApart(Tail(queue))
        /\ Posts(queue) = Posts(Tail(queue)) \cup {m}
        /\ m \in Posts(queue)
        /\ \A x \in Posts(Tail(queue)) : x.from # m.from
    BY <1>1, TailPosts
  <1>4. TableMail(m, phase, projection, sent, received, childTable)
    BY <1>2, <1>3
  <1>5. /\ m.from \in Agents /\ m.from # root /\ m.to = Parent(m.from)
        /\ phase[m.from] = "util_done"
        /\ m.payload = projection[m.from].table
        /\ m.seq < sent[m.from]
        /\ m.from \notin DOMAIN childTable[m.to]
    BY <1>4 DEF TableMail
  <1>6. m.from \in ToSet(children[m.to])
    BY <1>5, TreeLinks
  <1>7. /\ ct = [b \in Agents |-> ct[b]]
        /\ ct[m.to] = tables
        /\ \A b \in Agents : b # m.to => ct[b] = childTable[b]
    BY <1>1
  <1>8. /\ DOMAIN tables = DOMAIN childTable[m.to] \cup {m.from}
        /\ tables[m.from] = m.payload
        /\ \A c \in DOMAIN childTable[m.to] : tables[c] = childTable[m.to][c]
    BY <1>5
  <1>9. /\ rc = [b \in Agents |-> rc[b]]
        /\ rc[m.to] = received[m.to] \cup {<<m.from, m.seq>>}
        /\ \A b \in Agents : b # m.to => rc[b] = received[b]
    BY <1>1 DEF Ledger, Key
  <1>10. Ledger(sent, rc)
    <2>1. sent \in [Agents -> Nat]
          /\ \A b, c \in Agents : \A n \in Nat : <<c, n>> \in received[b] => n < sent[c]
      BY <1>1 DEF Ledger
    <2>2. ASSUME NEW b \in Agents, NEW c \in Agents, NEW n \in Nat, <<c, n>> \in rc[b]
          PROVE  n < sent[c]
      <3>1. <<c, n>> \in received[b] \/ (c = m.from /\ n = m.seq)
        BY <1>9, <2>2
      <3> QED BY <1>5, <2>1, <3>1
    <2> QED BY <1>9, <2>1, <2>2 DEF Ledger
  <1>11. ASSUME NEW x \in Posts(Tail(queue))
         PROVE  TableMail(x, phase, projection, sent, rc, ct)
    <2>1. TableMail(x, phase, projection, sent, received, childTable) /\ x.from # m.from
      BY <1>2, <1>3
    <2>2. x.from \in Agents /\ x.from # root /\ x.to = Parent(x.from)
      BY <2>1 DEF TableMail
    <2>3. x.to \in Agents
      BY <2>2, TreeLinks
    <2>4. <<x.from, x.seq>> \notin rc[x.to]
      <3>1. <<x.from, x.seq>> \notin received[x.to]
        BY <2>1 DEF TableMail
      <3> QED BY <1>9, <2>1, <2>3, <3>1
    <2>5. x.from \notin DOMAIN ct[x.to]
      <3>1. x.from \notin DOMAIN childTable[x.to]
        BY <2>1 DEF TableMail
      <3> QED BY <1>7, <1>8, <2>1, <2>3, <3>1
    <2> QED BY <2>1, <2>4, <2>5 DEF TableMail
  <1>12. ASSUME NEW b \in Agents, NEW c \in DOMAIN ct[b]
         PROVE  c \in ToSet(children[b]) /\ phase[c] = "util_done" /\ ct[b][c] = projection[c].table
    <2>1. \A d \in DOMAIN childTable[b] :
             d \in ToSet(children[b]) /\ phase[d] = "util_done" /\ childTable[b][d] = projection[d].table
      BY DEF UtilStage, UtilState
    <2>2. CASE b = m.to
      <3>1. c \in DOMAIN childTable[b] \/ c = m.from
        BY <1>7, <1>8, <2>2
      <3>2. CASE c = m.from
        BY <1>5, <1>6, <1>7, <1>8, <2>2, <3>2
      <3>3. CASE c \in DOMAIN childTable[b]
        BY <1>7, <1>8, <2>1, <2>2, <3>3
      <3> QED BY <3>1, <3>2, <3>3
    <2>3. CASE b # m.to
      BY <1>7, <2>1, <2>3
    <2> QED BY <2>2, <2>3
  <1>13. ASSUME NEW b \in Agents, phase[b] = "util_done"
         PROVE  Tabled(b, projection[b]) /\ DOMAIN ct[b] = ToSet(children[b])
    <2>1. Tabled(b, projection[b]) /\ DOMAIN childTable[b] = ToSet(children[b])
      BY <1>13 DEF UtilStage, UtilState
    <2>2. b # m.to
      BY <1>13
    <2> QED BY <1>7, <2>1, <2>2
  <1>14. ASSUME NEW b \in Agents, phase[b] = "util_done", b # root
         PROVE  b \in DOMAIN ct[Parent(b)] \/ \E x \in Posts(Tail(queue)) : x.from = b
    <2>1. b \in DOMAIN childTable[Parent(b)] \/ \E x \in Posts(queue) : x.from = b
      BY <1>14 DEF UtilStage, UtilState
    <2>2. Parent(b) \in Agents
      BY <1>14, TreeLinks
    <2>3. CASE b = m.from
      BY <1>5, <1>7, <1>8, <2>3
    <2>4. CASE b # m.from
      <3>1. b \in DOMAIN childTable[Parent(b)] => b \in DOMAIN ct[Parent(b)]
        BY <1>7, <1>8, <2>2
      <3> QED BY <1>3, <2>1, <2>4, <3>1
    <2> QED BY <2>3, <2>4
  <1>15. UtilState(phase, projection, sent, rc, Tail(queue), ct)
    BY <1>1, <1>3, <1>7, <1>10, <1>11, <1>12, <1>13, <1>14 DEF UtilState
  <1>16. Waiting(phase, ct, m.to)
    BY <1>7, AgentsAssumption DEF UtilStage, Waiting
  <1> QED BY <1>15, <1>16

(* One turn of drain while UTIL runs.                                        *)
LEMMA DeliverUtilKeeps ==
    ASSUME Tree, Given, budget \in Budgets, UtilStage, DeliverUtil
    PROVE  \/ stage' = "util" /\ UtilStage'
           \/ /\ stage' = "budget_exceeded"
              /\ \E a \in Agents : Width(a) > budget
              /\ Tabulated(phase, projection)'
  <1> DEFINE m == Head(queue)
             tables == [c \in DOMAIN childTable[m.to] \cup {m.from} |->
                          IF c = m.from THEN m.payload ELSE childTable[m.to][c]]
             ct == [childTable EXCEPT ![m.to] = tables]
             rc == [received EXCEPT ![m.to] = @ \cup {Key(m)}]
  <1>1. UtilStarted /\ queue # <<>> /\ stage = "util"
    BY DEF DeliverUtil
  <1>2. /\ Acceptable(m) /\ GoodUtil(m)
        /\ ~ TooLarge(m.payload.dom)
        /\ m.to \in Agents /\ phase[m.to] = "util"
        /\ m.from \in Agents /\ m.seq \in Nat
    BY <1>1, TableArrives
  <1>3. /\ ReceiveUtil(m)
        /\ UNCHANGED <<tree, value>> /\ UNCHANGED given
    BY <1>2 DEF DeliverUtil
  <1>4. /\ childTable' = ct
        /\ ComputeUtil(m.to, Tail(queue), tables)
        /\ AcceptUnless(stage' # stage, m)
        /\ Settled
    BY <1>2, <1>3 DEF ReceiveUtil, given, instance, tree, Settled
  <1>5. UtilState(phase, projection, sent, rc, Tail(queue), ct) /\ Waiting(phase, ct, m.to)
    <2>1. tables = [c \in DOMAIN childTable[m.to] \cup {m.from} |->
                          IF c = m.from THEN m.payload ELSE childTable[m.to][c]]
      OBVIOUS
    <2> DEFINE x == m
    <2> HIDE DEF tables
    <2>2. ct = [childTable EXCEPT ![m.to] = tables] /\ rc = [received EXCEPT ![m.to] = @ \cup {Key(m)}]
      OBVIOUS
    <2> HIDE DEF ct, rc
    <2> QED BY <1>1, <1>2, <2>1, <2>2, TableStored
  <1>6. ct[m.to] = tables
    <2>1. childTable = [b \in Agents |-> childTable[b]]
      BY DEF UtilStage, UtilState
    <2> HIDE DEF tables
    <2> QED BY <1>2, <2>1
  <1>7. stage' = stage => received' = rc
    BY <1>4 DEF AcceptUnless, Accept
  <1> HIDE DEF m, tables, ct, rc
  <1>8. ComputeUtil(m.to, Tail(queue), ct[m.to])
    BY <1>4, <1>6
  <1>9. \/ /\ stage' = stage
           /\ UtilState(phase', projection', sent', rc, queue', ct)
           /\ Waiting(phase', ct, NoAgent)
        \/ /\ stage' = "budget_exceeded"
           /\ Width(m.to) > budget
           /\ Tabulated(phase', projection')
    BY <1>2, <1>5, <1>8, ComputeKeeps
  <1> QED BY <1>1, <1>2, <1>4, <1>7, <1>9, UtilStays, TabulatedStays

(* When nothing is in flight and every agent has started, all are done.      *)
LEMMA UtilEnds ==
    ASSUME Tree, Given, UtilStage, UtilStarted, queue = <<>>
    PROVE  \A a \in Agents : phase[a] = "util_done"
  <1> SUFFICES ASSUME \E a \in Agents : phase[a] # "util_done"
               PROVE  FALSE
    OBVIOUS
  <1> DEFINE S == {a \in Agents : phase[a] # "util_done"}
  <1>1. S \subseteq Agents /\ S # {} /\ IsFiniteSet(Agents)
    BY DomainFacts
  <1> HIDE DEF S
  <1>2. PICK a \in S : \A b \in S : Len(ancestors[b]) <= Len(ancestors[a])
    BY <1>1, Extremes
  <1>3. a \in Agents /\ phase[a] # "util_done"
    BY DEF S
  <1>4. phase[a] = "util"
    BY <1>3 DEF UtilStage, UtilState, UtilStarted
  <1>5. DOMAIN childTable[a] # ToSet(children[a])
    BY <1>3, <1>4, AgentsAssumption DEF UtilStage, Waiting
  <1>6. \A c \in DOMAIN childTable[a] : c \in ToSet(children[a])
    BY <1>3 DEF UtilStage, UtilState
  <1>7. PICK c \in ToSet(children[a]) : c \notin DOMAIN childTable[a]
    BY <1>5, <1>6
  <1>8. c \in Agents /\ c # root /\ Parent(c) = a
    BY <1>3, TreeLinks
  <1>9. Posts(queue) = {}
    BY DEF Posts
  <1>10. phase[c] # "util_done"
    BY <1>7, <1>8, <1>9 DEF UtilStage, UtilState
  <1>11. Len(ancestors[c]) = Len(ancestors[a]) + 1 /\ Len(ancestors[a]) \in Nat
    BY <1>3, <1>8 DEF Tree, Order
  <1>12. Len(ancestors[c]) <= Len(ancestors[a])
    BY <1>2, <1>8, <1>10 DEF S
  <1> QED BY <1>11, <1>12

(* A VALUE message carries the choices made above its recipient, once.       *)
ChoiceMail(m, ph, val, sn, rc) ==
    /\ m.kind = "value"
    /\ m.to \in Agents /\ m.to # root /\ m.from = Parent(m.to)
    /\ ph[m.from] = "assigned" /\ ph[m.to] = "util_done"
    /\ m.payload = Restrict(val, separator[m.to])
    /\ m.seq \in Nat /\ m.seq < sn[m.from]
    /\ <<m.from, m.seq>> \notin rc[m.to]

(* The agents that have chosen are the top of the tree, and each agent just  *)
(* below them, but x, has its message.                                       *)
ValueState(ph, val, sn, rc, q, x) ==
    /\ ph \in [Agents -> {"util_done", "assigned"}]
    /\ val = [b \in Agents |-> val[b]]
    /\ Ledger(sn, rc)
    /\ Listed(q) /\ ReceiversApart(q)
    /\ \A m \in Posts(q) : ChoiceMail(m, ph, val, sn, rc) /\ m.to # x
    /\ \A b \in Agents : ph[b] = "assigned" => \A c \in Above(b) : ph[c] = "assigned"
    /\ \A b \in Agents : b # root /\ b # x /\ ph[Parent(b)] = "assigned" /\ ph[b] # "assigned" =>
          \E m \in Posts(q) : m.to = b

(* Some assignment that costs what the root's table says holds the choices.  *)
Promised(ph, val) ==
    \E v \in World :
        /\ Below(root, v) = RootCost
        /\ \A b \in Agents : ph[b] = "assigned" => v[b] = val[b]

(* The root's table has one entry.                                           *)
LEMMA TopEntry ==
    ASSUME Tree, Given, NEW t, Exact(root, t)
    PROVE  /\ \A v \in World : At(t, v) = t.at[<<>>]
           /\ World # {}
           /\ t.at[<<>>] \in Costs
           /\ \E v \in World : Below(root, v) = t.at[<<>>]
           /\ \A v \in World : AtMost(t.at[<<>>], Below(root, v))
  <1>1. TableOver(t, {}) /\ {} \subseteq Agents
    BY RootFacts DEF Exact
  <1>2. \A v \in World : At(t, v) = t.at[<<>>] /\ At(t, v) \in Costs
    <2> TAKE v \in World
    <2>1. At(t, v) = t.at[Restrict(v, {})] /\ At(t, v) \in Costs
      BY <1>1, TableFacts
    <2> QED BY <2>1, EmptyContext
  <1>3. PICK v : v \in World
    <2> DEFINE v == [n \in Agents |-> CHOOSE d \in problem.dom[n] : TRUE]
    <2>1. v = [n \in Agents |-> v[n]] /\ \A n \in Agents : v[n] \in problem.dom[n]
      BY DomainFacts
    <2> HIDE DEF v
    <2>2. v \in World
      BY <2>1, InWorld
    <2> QED BY <2>2
  <1>4. \E u \in World : Below(root, u) = t.at[<<>>]
    BY <1>2, <1>3 DEF Exact
  <1> QED BY <1>2, <1>3, <1>4 DEF Exact

(* The messages with which an agent passes on the choices it knows.          *)
LEMMA ChoicePosts ==
    ASSUME Tree, NEW a \in Agents, NEW known, NEW msgs, msgs = ChoiceMessages(a, known),
           sent \in [Agents -> Nat]
    PROVE  /\ Listed(msgs) /\ ReceiversApart(msgs)
           /\ \A m \in Posts(msgs) :
                 /\ m.kind = "value" /\ m.from = a
                 /\ m.to \in ToSet(children[a])
                 /\ m.seq \in Nat /\ m.seq >= sent[a] /\ m.seq < sent[a] + Len(children[a])
                 /\ m.payload = Restrict(known, separator[m.to])
           /\ \A c \in ToSet(children[a]) : \E m \in Posts(msgs) : m.to = c
  <1> DEFINE k == Len(children[a])
  <1>1. children[a] \in Seq(Agents) /\ IsInjective(children[a])
    BY DEF Tree, Offspring
  <1>2. k \in Nat /\ DOMAIN children[a] = 1..k
    BY <1>1
  <1>3. \A c \in ToSet(children[a]) : childSep[a][c] = separator[c]
    BY DEF Tree, Separators
  <1>4. \A i \in 1..k : children[a][i] \in ToSet(children[a])
    BY <1>1, ToSetIndex
  <1>5. \A c \in ToSet(children[a]) : \E i \in 1..k : c = children[a][i]
    BY <1>1, ToSetIndex
  <1>6. sent[a] \in Nat
    OBVIOUS
  <1>7. msgs = [i \in 1..k |->
                  [kind |-> "value", from |-> a, to |-> children[a][i],
                   seq |-> sent[a] + i - 1,
                   payload |-> Restrict(known, childSep[a][children[a][i]])]]
    BY <1>2 DEF ChoiceMessages
  <1> HIDE DEF k
  <1>8. /\ DOMAIN msgs = 1..k
        /\ \A i \in 1..k :
              /\ msgs[i].kind = "value" /\ msgs[i].from = a /\ msgs[i].to = children[a][i]
              /\ msgs[i].seq = sent[a] + i - 1
              /\ msgs[i].payload = Restrict(known, separator[children[a][i]])
    BY <1>3, <1>4, <1>7
  <1>9. msgs \in Seq({msgs[i] : i \in 1..k}) /\ Len(msgs) = k
    <2> DEFINE T == {msgs[i] : i \in 1..k}
    <2>1. msgs \in [1..k -> T]
      BY <1>7
    <2> HIDE DEF T
    <2> QED BY <1>2, <2>1 DEF T
  <1>10. Listed(msgs)
    BY <1>9 DEF Listed
  <1>11. Posts(msgs) = {msgs[i] : i \in 1..k}
    BY <1>9 DEF Posts
  <1>12. ReceiversApart(msgs)
    <2>1. \A i, j \in 1..k : children[a][i] = children[a][j] => i = j
      BY <1>1, <1>2 DEF IsInjective, k
    <2>2. \A i \in 1..k : msgs[i].to = children[a][i]
      BY <1>8
    <2>3. \A i, j \in 1..k : msgs[i].to = msgs[j].to => i = j
      BY <2>1, <2>2
    <2> QED BY <1>9, <2>3 DEF ReceiversApart
  <1>13. ASSUME NEW m \in Posts(msgs)
         PROVE  /\ m.kind = "value" /\ m.from = a
                /\ m.to \in ToSet(children[a])
                /\ m.seq \in Nat /\ m.seq >= sent[a] /\ m.seq < sent[a] + k
                /\ m.payload = Restrict(known, separator[m.to])
    <2>1. PICK i \in 1..k : m = msgs[i]
      BY <1>11
    <2>2. /\ m.kind = "value" /\ m.from = a /\ m.to = children[a][i]
          /\ m.seq = sent[a] + i - 1
          /\ m.payload = Restrict(known, separator[children[a][i]])
      BY <1>8, <2>1
    <2>3. m.seq \in Nat /\ m.seq >= sent[a] /\ m.seq < sent[a] + k
      BY <1>2, <1>6, <2>2 DEF k
    <2> QED BY <1>4, <2>2, <2>3
  <1>14. \A c \in ToSet(children[a]) : \E m \in Posts(msgs) : m.to = c
    BY <1>5, <1>8, <1>11
  <1> QED BY <1>10, <1>12, <1>13, <1>14 DEF k

(* An agent that is told the choices above it chooses, and tells its         *)
(* children.                                                                 *)
LEMMA ChooseKeeps ==
    ASSUME Tree, Given, Tabulated(phase, projection), RootCost # Forbidden,
           NEW a \in Agents, phase[a] = "util_done",
           \A b \in Above(a) : phase[b] = "assigned",
           NEW rc, NEW rest, ValueState(phase, value, sent, rc, rest, a),
           Promised(phase, value),
           NEW context, context = Restrict(value, separator[a]),
           Choose(a, rest, context)
    PROVE  /\ stage' = "value"
           /\ ValueState(phase', value', sent', rc, queue', NoAgent)
           /\ \E v \in World :
                 /\ Below(root, v) = RootCost
                 /\ \A b \in Agents : phase'[b] = "assigned" => v[b] = value'[b]
           /\ \A b \in Agents : phase'[b] \in {"util_done", "assigned"}
                                 /\ phase[b] \in {"util_done", "assigned"}
  <1> DEFINE top == projection[root].table
             t == projection[a].table
             choice == projection[a].choice
             d == choice[context]
             known == With(context, a, d)
             msgs == ChoiceMessages(a, known)
  <1>1. /\ phase \in [Agents -> {"util_done", "assigned"}]
        /\ value = [b \in Agents |-> value[b]]
        /\ Ledger(sent, rc)
        /\ Listed(rest) /\ ReceiversApart(rest)
        /\ \A m \in Posts(rest) : ChoiceMail(m, phase, value, sent, rc) /\ m.to # a
        /\ \A b \in Agents : phase[b] = "assigned" => \A c \in Above(b) : phase[c] = "assigned"
        /\ \A b \in Agents : b # root /\ b # a /\ phase[Parent(b)] = "assigned" /\ phase[b] # "assigned" =>
              \E m \in Posts(rest) : m.to = b
    BY DEF ValueState
  <1>2. \A b \in Agents : Tabled(b, projection[b]) /\ phase[b] \in {"util_done", "assigned"}
    BY <1>1 DEF Tabulated
  <1>3. root \in Agents
    BY RootFacts
  <1>4. Exact(root, top) /\ Exact(a, t) /\ Attains(a, t, choice)
    BY <1>2, <1>3 DEF Tabled
  <1>5. PICK v \in World : /\ Below(root, v) = RootCost
                           /\ \A b \in Agents : phase[b] = "assigned" => v[b] = value[b]
    BY DEF Promised
  <1>6. \A w \in World : At(top, w) = RootCost
    <2> DEFINE x == top
    <2>1. Exact(root, x)
      BY <1>4
    <2> HIDE DEF x
    <2>2. \A w \in World : At(x, w) = x.at[<<>>]
      BY <2>1, TopEntry
    <2> QED BY <2>2 DEF x, RootCost
  <1>7. separator[a] \subseteq Above(a) /\ separator[a] \subseteq Agents /\ a \notin separator[a]
    <2>1. separator[a] \subseteq Above(a)
      BY SeparatorAbove
    <2>2. a \notin Above(a)
      BY DEF Tree, Order
    <2> QED BY <2>1, <2>2, FiniteParts
  <1>8. context = Restrict(v, separator[a])
    <2>1. \A n \in separator[a] : value[n] = v[n]
      BY <1>5, <1>7
    <2> QED BY <2>1, RestrictSame
  <1>9. /\ d \in problem.dom[a] /\ d # NoValue
        /\ \E u \in World : /\ Outside(Subtree(a), u, v)
                            /\ u[a] = d
                            /\ Below(root, u) = At(top, u)
                            /\ At(top, u) = At(top, v)
    <2>1. Below(root, v) = At(top, v) /\ At(top, v) # Forbidden
      BY <1>5, <1>6
    <2> HIDE DEF top, t, choice
    <2> QED BY <1>4, <1>8, <2>1, ChoiceKeepsOptimum
  <1>10. PICK u \in World : Outside(Subtree(a), u, v) /\ u[a] = d /\ Below(root, u) = RootCost
    BY <1>6, <1>9
  <1>11. /\ DOMAIN known = separator[a] \cup {a}
         /\ known[a] = d
         /\ \A n \in separator[a] : known[n] = value[n]
    <2>1. DOMAIN context = separator[a] /\ \A n \in separator[a] : context[n] = value[n]
      BY DEF Restrict
    <2> HIDE DEF d
    <2> QED BY <1>7, <2>1 DEF With
  <1>12. \A c \in ToSet(children[a]) : /\ childSep[a][c] = separator[c]
                                       /\ separator[c] \subseteq separator[a] \cup {a}
    <2>1. \A c \in ToSet(children[a]) : childSep[a][c] = separator[c]
      BY DEF Tree, Separators
    <2> QED BY <2>1, SeparatorParts
  <1>13. /\ stage' = "value"
         /\ value' = [value EXCEPT ![a] = d]
         /\ phase' = [phase EXCEPT ![a] = "assigned"]
         /\ queue' = rest \o msgs
         /\ sent' = [sent EXCEPT ![a] = @ + Len(children[a])]
    BY <1>9, <1>11, <1>12 DEF Choose
  <1> HIDE DEF top, t, choice, d, known, msgs
  <1>14. sent \in [Agents -> Nat]
    BY <1>1 DEF Ledger
  <1>15. /\ Listed(msgs) /\ ReceiversApart(msgs)
         /\ \A m \in Posts(msgs) :
               /\ m.kind = "value" /\ m.from = a
               /\ m.to \in ToSet(children[a])
               /\ m.seq \in Nat /\ m.seq >= sent[a] /\ m.seq < sent[a] + Len(children[a])
               /\ m.payload = Restrict(known, separator[m.to])
         /\ \A c \in ToSet(children[a]) : \E m \in Posts(msgs) : m.to = c
    BY <1>14, ChoicePosts DEF msgs
  <1>16. /\ value'[a] = d /\ phase'[a] = "assigned"
         /\ \A b \in Agents : b # a => value'[b] = value[b] /\ phase'[b] = phase[b]
         /\ value' = [b \in Agents |-> value'[b]]
         /\ phase' \in [Agents -> {"util_done", "assigned"}]
    BY <1>1, <1>13
  <1>17. \A c \in ToSet(children[a]) : c \in Agents /\ c # root /\ Parent(c) = a /\ a \in Above(c)
                                       /\ c # a
    <2>1. \A c \in ToSet(children[a]) : c \in Agents /\ Parent(c) = a /\ a \in Above(c) /\ a \notin Subtree(c)
      BY SubtreeParts
    <2>2. \A c \in ToSet(children[a]) : c # root
      BY TreeLinks
    <2>3. a \in Subtree(a)
      BY DEF Subtree
    <2> QED BY <2>1, <2>2, <2>3
  <1>18. \A c \in ToSet(children[a]) : phase[c] = "util_done"
    BY <1>1, <1>17
  <1>19. \A m \in Posts(rest) : m.to \in Agents /\ m.to \notin ToSet(children[a]) /\ m.from \in Agents /\ m.from # a
    <2> TAKE m \in Posts(rest)
    <2>1. m.to \in Agents /\ m.to # root /\ m.from = Parent(m.to) /\ phase[m.from] = "assigned"
      BY <1>1 DEF ChoiceMail
    <2>2. m.from \in Agents
      BY <2>1, TreeLinks
    <2> QED BY <1>17, <2>1, <2>2
  <1>20. /\ Listed(queue') /\ ReceiversApart(queue')
         /\ Posts(queue') = Posts(rest) \cup Posts(msgs)
    <2>1. \A x \in Posts(rest), y \in Posts(msgs) : x.to # y.to
      BY <1>15, <1>19
    <2> QED BY <1>1, <1>13, <1>15, <2>1, ConcatPosts
  <1>21. Ledger(sent', rc)
    <2>1. children[a] \in Seq(Agents)
      BY DEF Tree, Offspring
    <2>2. Len(children[a]) \in Nat
      BY <2>1
    <2> QED BY <1>1, <1>13, <2>2, LedgerGrows
  <1>22. /\ \A b \in Agents : sent[b] \in Nat /\ sent'[b] \in Nat /\ sent'[b] >= sent[b]
         /\ sent'[a] = sent[a] + Len(children[a])
    <2>1. children[a] \in Seq(Agents)
      BY DEF Tree, Offspring
    <2>2. Len(children[a]) \in Nat
      BY <2>1
    <2> QED BY <1>13, <1>14, <2>2
  <1>23. ASSUME NEW m \in Posts(rest)
         PROVE  ChoiceMail(m, phase', value', sent', rc) /\ m.to # NoAgent
    <2>1. ChoiceMail(m, phase, value, sent, rc) /\ m.to # a
      BY <1>1
    <2>2. /\ m.to \in Agents /\ m.to # root /\ m.from = Parent(m.to)
          /\ phase[m.from] = "assigned" /\ phase[m.to] = "util_done"
          /\ m.seq \in Nat /\ m.seq < sent[m.from]
          /\ m.payload = Restrict(value, separator[m.to])
      BY <2>1 DEF ChoiceMail
    <2>3. m.from \in Agents /\ m.from # a
      BY <1>19
    <2>4. m.from \in Above(m.to)
      BY <2>2 DEF Tree, Order
    <2>5. a \notin Above(m.to)
      <3>1. ASSUME a \in Above(m.to)
            PROVE  FALSE
        <4>1. Above(m.to) = Above(m.from) \cup {m.from}
          BY <2>2 DEF Tree, Order
        <4>2. a \in Above(m.from)
          BY <2>3, <3>1, <4>1
        <4> QED BY <1>1, <2>2, <2>3, <4>2
      <3> QED BY <3>1
    <2>6. separator[m.to] \subseteq Above(m.to) /\ separator[m.to] \subseteq Agents
      BY <2>2, SeparatorAbove, FiniteParts
    <2>7. Restrict(value', separator[m.to]) = Restrict(value, separator[m.to])
      <3>1. \A n \in separator[m.to] : value'[n] = value[n]
        BY <1>16, <2>5, <2>6
      <3> QED BY <3>1, RestrictSame
    <2>8. m.seq < sent'[m.from]
      BY <1>22, <2>2, <2>3
    <2>9. m.to # NoAgent
      BY <2>2, AgentsAssumption
    <2> QED BY <1>16, <2>1, <2>2, <2>3, <2>7, <2>8, <2>9 DEF ChoiceMail
  <1>24. ASSUME NEW m \in Posts(msgs)
         PROVE  ChoiceMail(m, phase', value', sent', rc) /\ m.to # NoAgent
    <2>1. /\ m.kind = "value" /\ m.from = a
          /\ m.to \in ToSet(children[a])
          /\ m.seq \in Nat /\ m.seq >= sent[a] /\ m.seq < sent[a] + Len(children[a])
          /\ m.payload = Restrict(known, separator[m.to])
      BY <1>15
    <2>2. m.to \in Agents /\ m.to # root /\ Parent(m.to) = a /\ m.to # a
      BY <1>17, <2>1
    <2>3. Restrict(known, separator[m.to]) = Restrict(value', separator[m.to])
      <3>1. \A n \in separator[m.to] : known[n] = value'[n]
        BY <1>7, <1>11, <1>12, <1>16, <2>1
      <3> QED BY <3>1, RestrictSame
    <2>4. <<a, m.seq>> \notin rc[m.to]
      <3>1. <<a, m.seq>> \in rc[m.to] => m.seq < sent[a]
        BY <1>1, <2>1, <2>2 DEF Ledger
      <3>2. sent[a] \in Nat
        BY <1>14
      <3> QED BY <2>1, <3>1, <3>2
    <2>5. m.seq < sent'[a]
      BY <1>22, <2>1
    <2>6. phase'[m.to] = "util_done"
      BY <1>16, <1>18, <2>1, <2>2
    <2>7. m.to # NoAgent
      BY <2>2, AgentsAssumption
    <2> QED BY <1>16, <2>1, <2>2, <2>3, <2>4, <2>5, <2>6, <2>7 DEF ChoiceMail
  <1>25. ASSUME NEW b \in Agents, phase'[b] = "assigned"
         PROVE  \A c \in Above(b) : phase'[c] = "assigned"
    <2> TAKE c \in Above(b)
    <2>1. c \in Agents
      BY DEF Tree, Order
    <2>2. phase[c] = "assigned"
      BY <1>1, <1>16, <1>25
    <2> QED BY <1>16, <2>1, <2>2
  <1>26. ASSUME NEW b \in Agents, b # root, phase'[Parent(b)] = "assigned", phase'[b] # "assigned"
         PROVE  \E m \in Posts(queue') : m.to = b
    <2>1. Parent(b) \in Agents /\ b \in ToSet(children[Parent(b)]) /\ b # a
      BY <1>16, <1>26, TreeLinks
    <2>2. CASE Parent(b) = a
      BY <1>15, <1>20, <2>1, <2>2
    <2>3. CASE Parent(b) # a
      BY <1>1, <1>16, <1>20, <1>26, <2>1, <2>3
    <2> QED BY <2>2, <2>3
  <1>27. ValueState(phase', value', sent', rc, queue', NoAgent)
    BY <1>16, <1>20, <1>21, <1>23, <1>24, <1>25, <1>26 DEF ValueState
  <1>28. \A b \in Agents : phase'[b] = "assigned" => u[b] = value'[b]
    <2> TAKE b \in Agents
    <2> HAVE phase'[b] = "assigned"
    <2>1. CASE b = a
      BY <1>10, <1>16, <2>1
    <2>2. CASE b # a
      <3>1. phase[b] = "assigned"
        BY <1>16, <2>2
      <3>2. b \notin Subtree(a)
        BY <1>1, <2>2, <3>1 DEF Subtree
      <3>3. u[b] = v[b] /\ v[b] = value[b]
        BY <1>5, <1>10, <3>1, <3>2 DEF Outside
      <3> QED BY <1>16, <2>2, <3>3
    <2> QED BY <2>1, <2>2
  <1> QED BY <1>2, <1>10, <1>13, <1>16, <1>27, <1>28

ValueStage ==
    /\ ValueState(phase, value, sent, received, queue, NoAgent)
    /\ Promised(phase, value)
    /\ phase[root] = "assigned"

(* The promise holds after a step when it holds of the new values.           *)
LEMMA PromisedStays ==
    ASSUME Settled, projection' = projection,
           \E v \in World :
                 /\ Below(root, v) = RootCost
                 /\ \A b \in Agents : phase'[b] = "assigned" => v[b] = value'[b]
    PROVE  Promised(phase, value)'
  <1>1. /\ root' = root /\ problem' = problem /\ ancestors' = ancestors
    BY DEF Settled
  <1>2. \A b : Subtree(b)' = Subtree(b)
    BY <1>1 DEF Subtree, Above
  <1>3. \A b, v : Below(b, v)' = Below(b, v)
    BY <1>1, <1>2 DEF Below, SubtreeFactors, Local, Factors, ScopeOf
  <1>4. World' = World
    BY <1>1 DEF World
  <1>5. RootCost' = RootCost
    BY <1>1 DEF RootCost
  <1>6. PICK v \in World : /\ Below(root, v) = RootCost
                           /\ \A b \in Agents : phase'[b] = "assigned" => v[b] = value'[b]
    OBVIOUS
  <1>7. Below(root, v)' = RootCost'
    BY <1>1, <1>3, <1>5, <1>6
  <1> QED BY <1>4, <1>6, <1>7 DEF Promised

(* And so does the state of VALUE.                                           *)
LEMMA ValueStays ==
    ASSUME Settled, ValueState(phase', value', sent', received', queue', NoAgent)
    PROVE  ValueState(phase, value, sent, received, queue, NoAgent)'
  <1>1. /\ nbrs' = nbrs /\ root' = root /\ ancestors' = ancestors /\ problem' = problem
        /\ children' = children /\ childSep' = childSep /\ separator' = separator
        /\ budget' = budget
    BY DEF Settled
  <1>2. \A b : Parent(b)' = Parent(b) /\ Above(b)' = Above(b)
    BY <1>1 DEF Parent, Above
  <1>3. \A m \in Posts(queue') : ChoiceMail(m, phase', value', sent', received') /\ m.to # NoAgent
    BY DEF ValueState
  <1>4. \A m \in Posts(queue') : ChoiceMail(m, phase, value, sent, received)' /\ m.to # NoAgent
    BY <1>1, <1>2, <1>3 DEF ChoiceMail
  <1> QED BY <1>1, <1>2, <1>4 DEF ValueState

(* solve: the root chooses.                                                  *)
LEMMA StartValueKeeps ==
    ASSUME Tree, Given, Tabulated(phase, projection), RootCost # Forbidden,
           phase \in [Agents -> {"util_done"}], value = [b \in Agents |-> value[b]],
           Ledger(sent, received), queue = <<>>, StartValue
    PROVE  stage' = "value" /\ ValueStage'
  <1>1. Choose(root, queue, <<>>) /\ Settled /\ received' = received /\ projection' = projection
    BY DEF StartValue, given, instance, tree, Settled
  <1>2. root \in Agents /\ separator[root] = {} /\ Above(root) = {}
    BY RootFacts DEF Tree, Order
  <1>3. <<>> = Restrict(value, separator[root])
    BY <1>2, EmptyContext
  <1>4. Listed(queue) /\ ReceiversApart(queue) /\ Posts(queue) = {}
    <2>1. queue \in Seq({}) /\ Len(queue) = 0
      OBVIOUS
    <2> QED BY <2>1 DEF Listed, ReceiversApart, Posts
  <1>5. \A b \in Agents : phase[b] = "util_done"
    OBVIOUS
  <1>6. phase \in [Agents -> {"util_done", "assigned"}]
    OBVIOUS
  <1>7. \A b \in Agents : b # root => Parent(b) \in Agents
    BY TreeLinks
  <1>8. ValueState(phase, value, sent, received, queue, root)
    BY <1>4, <1>5, <1>6, <1>7 DEF ValueState
  <1>9. Promised(phase, value)
    <2> DEFINE top == projection[root].table
    <2>1. Exact(root, top)
      BY <1>2, <1>5 DEF Tabulated, Tabled
    <2> HIDE DEF top
    <2>2. PICK v \in World : Below(root, v) = top.at[<<>>]
      BY <2>1, TopEntry
    <2> QED BY <1>5, <2>2 DEF Promised, RootCost, top
  <1>10. /\ stage' = "value"
         /\ ValueState(phase', value', sent', received, queue', NoAgent)
         /\ \E v \in World :
               /\ Below(root, v) = RootCost
               /\ \A b \in Agents : phase'[b] = "assigned" => v[b] = value'[b]
    BY <1>1, <1>2, <1>3, <1>5, <1>8, <1>9, ChooseKeeps
  <1>11. phase' = [phase EXCEPT ![root] = "assigned"]
    BY <1>1, <1>10 DEF Choose
  <1>12. root' = root /\ phase'[root] = "assigned"
    BY <1>1, <1>2, <1>11 DEF Settled
  <1> QED BY <1>1, <1>10, <1>12, PromisedStays, ValueStays DEF ValueStage

(* The message that arrives is expected.                                     *)
LEMMA ChoiceArrives ==
    ASSUME Tree, Given, Tabulated(phase, projection), ValueStage, queue # <<>>,
           NEW m, m = Head(queue)
    PROVE  /\ Acceptable(m) /\ GoodValue(m)
           /\ m.to \in Agents /\ phase[m.to] = "util_done"
           /\ \A b \in Above(m.to) : phase[b] = "assigned"
           /\ m.payload = Restrict(value, separator[m.to])
           /\ ValueState(phase, value, sent, [received EXCEPT ![m.to] = @ \cup {Key(m)}],
                         Tail(queue), m.to)
  <1>1. /\ phase \in [Agents -> {"util_done", "assigned"}]
        /\ value = [b \in Agents |-> value[b]]
        /\ Ledger(sent, received)
        /\ Listed(queue) /\ ReceiversApart(queue)
        /\ \A x \in Posts(queue) : ChoiceMail(x, phase, value, sent, received)
        /\ \A b \in Agents : phase[b] = "assigned" => \A c \in Above(b) : phase[c] = "assigned"
        /\ \A b \in Agents : b # root /\ b # NoAgent /\ phase[Parent(b)] = "assigned" /\ phase[b] # "assigned" =>
              \E x \in Posts(queue) : x.to = b
    BY DEF ValueStage, ValueState
  <1>2. /\ Listed(Tail(queue)) /\ ReceiversApart(Tail(queue))
        /\ Posts(queue) = Posts(Tail(queue)) \cup {m}
        /\ m \in Posts(queue)
        /\ \A x \in Posts(Tail(queue)) : x.to # m.to
    BY <1>1, TailPosts
  <1>3. /\ m.kind = "value"
        /\ m.to \in Agents /\ m.to # root /\ m.from = Parent(m.to)
        /\ phase[m.from] = "assigned" /\ phase[m.to] = "util_done"
        /\ m.payload = Restrict(value, separator[m.to])
        /\ m.seq \in Nat /\ m.seq < sent[m.from]
        /\ <<m.from, m.seq>> \notin received[m.to]
    BY <1>1, <1>2 DEF ChoiceMail
  <1>4. m.from \in Agents /\ m.from \in nbrs[m.to]
    BY <1>3, TreeLinks
  <1>5. \A b \in Above(m.to) : phase[b] = "assigned"
    <2>1. Above(m.to) = Above(m.from) \cup {m.from}
      BY <1>3 DEF Tree, Order
    <2> QED BY <1>1, <1>3, <1>4, <2>1
  <1>6. Acceptable(m)
    BY <1>3, <1>4 DEF Acceptable, Key
  <1>7. m.payload \in Contexts(projection[m.to].table.dom)
    <2>1. PICK v \in World : \A b \in Agents : phase[b] = "assigned" => v[b] = value[b]
      BY DEF ValueStage, Promised
    <2>2. separator[m.to] \subseteq Above(m.to) /\ separator[m.to] \subseteq Agents
      BY <1>3, SeparatorAbove, FiniteParts
    <2>3. \A n \in separator[m.to] : value[n] = v[n]
      BY <1>5, <2>1, <2>2
    <2>4. m.payload = Restrict(v, separator[m.to])
      BY <1>3, <2>3, RestrictSame
    <2>5. Restrict(v, separator[m.to]) \in Contexts(Restrict(problem.dom, separator[m.to]))
      BY <2>2, Extend
    <2>6. projection[m.to].table.dom = Restrict(problem.dom, separator[m.to])
      BY <1>3 DEF Tabulated, Tabled, Exact, TableOver
    <2> QED BY <2>4, <2>5, <2>6
  <1>8. GoodValue(m)
    BY <1>3, <1>7 DEF GoodValue
  <1> DEFINE rc == [received EXCEPT ![m.to] = @ \cup {Key(m)}]
  <1>9. /\ rc = [b \in Agents |-> rc[b]]
        /\ rc[m.to] = received[m.to] \cup {<<m.from, m.seq>>}
        /\ \A b \in Agents : b # m.to => rc[b] = received[b]
    BY <1>1, <1>3 DEF Ledger, Key
  <1> HIDE DEF rc
  <1>10. Ledger(sent, rc)
    <2>1. sent \in [Agents -> Nat]
          /\ \A b, c \in Agents : \A n \in Nat : <<c, n>> \in received[b] => n < sent[c]
      BY <1>1 DEF Ledger
    <2>2. ASSUME NEW b \in Agents, NEW c \in Agents, NEW n \in Nat, <<c, n>> \in rc[b]
          PROVE  n < sent[c]
      <3>1. <<c, n>> \in received[b] \/ (c = m.from /\ n = m.seq)
        BY <1>9, <2>2
      <3> QED BY <1>3, <2>1, <3>1
    <2> QED BY <1>9, <2>1, <2>2 DEF Ledger
  <1>11. ASSUME NEW x \in Posts(Tail(queue))
         PROVE  ChoiceMail(x, phase, value, sent, rc) /\ x.to # m.to
    <2>1. ChoiceMail(x, phase, value, sent, received) /\ x.to # m.to
      BY <1>1, <1>2
    <2>2. x.to \in Agents /\ <<x.from, x.seq>> \notin received[x.to]
      BY <2>1 DEF ChoiceMail
    <2>3. rc[x.to] = received[x.to]
      BY <1>9, <2>1, <2>2
    <2> QED BY <2>1, <2>2, <2>3 DEF ChoiceMail
  <1>12. ASSUME NEW b \in Agents, b # root, b # m.to, phase[Parent(b)] = "assigned",
                phase[b] # "assigned"
         PROVE  \E x \in Posts(Tail(queue)) : x.to = b
    <2>1. b # NoAgent
      BY AgentsAssumption
    <2> QED BY <1>1, <1>2, <1>12, <2>1
  <1>13. ValueState(phase, value, sent, rc, Tail(queue), m.to)
    BY <1>1, <1>2, <1>10, <1>11, <1>12 DEF ValueState
  <1> QED BY <1>3, <1>5, <1>6, <1>8, <1>13 DEF rc

(* One turn of drain while VALUE runs.                                       *)
LEMMA DeliverValueKeeps ==
    ASSUME Tree, Given, Tabulated(phase, projection), RootCost # Forbidden, ValueStage, DeliverValue
    PROVE  stage' = "value" /\ ValueStage'
  <1> DEFINE m == Head(queue)
             rc == [received EXCEPT ![m.to] = @ \cup {Key(m)}]
  <1>1. queue # <<>> /\ stage = "value"
    BY DEF DeliverValue
  <1>2. /\ Acceptable(m) /\ GoodValue(m)
        /\ m.to \in Agents /\ phase[m.to] = "util_done"
        /\ \A b \in Above(m.to) : phase[b] = "assigned"
        /\ m.payload = Restrict(value, separator[m.to])
        /\ ValueState(phase, value, sent, rc, Tail(queue), m.to)
    BY <1>1, ChoiceArrives
  <1>3. /\ Choose(m.to, Tail(queue), m.payload)
        /\ AcceptUnless(stage' = "protocol_error", m)
        /\ Settled /\ projection' = projection
    BY <1>2 DEF DeliverValue, given, instance, tree, Settled
  <1>4. Promised(phase, value)
    BY DEF ValueStage
  <1> DEFINE a == m.to
  <1> HIDE DEF rc
  <1>5. /\ stage' = "value"
        /\ ValueState(phase', value', sent', rc, queue', NoAgent)
        /\ \E v \in World :
              /\ Below(root, v) = RootCost
              /\ \A b \in Agents : phase'[b] = "assigned" => v[b] = value'[b]
    BY <1>2, <1>3, <1>4, ChooseKeeps
  <1>6. received' = rc
    BY <1>3, <1>5 DEF AcceptUnless, Accept, rc
  <1>7. phase' = [phase EXCEPT ![m.to] = "assigned"]
    BY <1>3, <1>5 DEF Choose
  <1>8. root' = root /\ phase'[root] = "assigned"
    <2>1. phase \in [Agents -> {"util_done", "assigned"}] /\ phase[root] = "assigned"
      BY DEF ValueStage, ValueState
    <2>2. root \in Agents /\ root' = root
      BY <1>3, RootFacts DEF Settled
    <2> HIDE DEF m
    <2> QED BY <1>2, <1>7, <2>1, <2>2
  <1> QED BY <1>3, <1>5, <1>6, <1>8, PromisedStays, ValueStays DEF ValueStage

(* When nothing is in flight every agent has chosen.                         *)
LEMMA ValueEnds ==
    ASSUME Tree, Given, ValueStage, queue = <<>>
    PROVE  \A a \in Agents : phase[a] = "assigned"
  <1> SUFFICES ASSUME \E a \in Agents : phase[a] # "assigned"
               PROVE  FALSE
    OBVIOUS
  <1> DEFINE S == {a \in Agents : phase[a] # "assigned"}
  <1>1. S \subseteq Agents /\ S # {} /\ IsFiniteSet(Agents)
    BY DomainFacts
  <1> HIDE DEF S
  <1>2. PICK a \in S : \A b \in S : Len(ancestors[a]) <= Len(ancestors[b])
    BY <1>1, Extremes
  <1>3. a \in Agents /\ phase[a] # "assigned"
    BY DEF S
  <1>4. a # root
    BY <1>3 DEF ValueStage
  <1>5. Parent(a) \in Agents
    BY <1>3, <1>4, TreeLinks
  <1>6. Posts(queue) = {}
    BY DEF Posts
  <1>7. phase[Parent(a)] # "assigned"
    BY <1>3, <1>4, <1>6, AgentsAssumption DEF ValueStage, ValueState
  <1>8. Len(ancestors[a]) <= Len(ancestors[Parent(a)])
    BY <1>2, <1>5, <1>7 DEF S
  <1>9. /\ Len(ancestors[a]) = Len(ancestors[Parent(a)]) + 1
        /\ Len(ancestors[Parent(a)]) \in Nat
    BY <1>3, <1>4, <1>5 DEF Tree, Order
  <1> QED BY <1>8, <1>9

(* The choices cost what the root's table says.                              *)
LEMMA ChoicesCost ==
    ASSUME Tree, Given, ValueStage, \A a \in Agents : phase[a] = "assigned"
    PROVE  /\ value \in World
           /\ Total(problem.factors, value) = RootCost
  <1>1. PICK v \in World : Below(root, v) = RootCost /\ \A a \in Agents : v[a] = value[a]
    BY DEF ValueStage, Promised
  <1>2. value = [a \in Agents |-> value[a]]
    BY DEF ValueStage, ValueState
  <1>3. v = [a \in Agents |-> v[a]]
    BY InWorld
  <1>4. value = v
    BY <1>1, <1>2, <1>3
  <1>5. Total(problem.factors, v) = Below(root, v)
    BY TotalIsBelow
  <1> QED BY <1>1, <1>4, <1>5

(* Before UTIL the fields of the later stages hold what Init gave them.      *)
Blank ==
    /\ childTable = [a \in Agents |-> <<>>]
    /\ projection = [a \in Agents |-> NoProjection]

Searching == DfsInv /\ ReportedSeparators /\ Blank

Costed == stage = "infeasible" <=> RootCost = Forbidden

(* The invariant of the run, one part for each stage of it.                  *)
DpopInv ==
    /\ Given
    /\ budget \in Budgets
    /\ value = [a \in Agents |-> value[a]]
    /\ stage \in {"start", "dfs", "disconnected", "util", "budget_exceeded",
                  "optimal_cost", "infeasible", "value", "solved"}
    /\ stage \in {"start", "dfs"} => Searching
    /\ stage = "disconnected" => phase \in [Agents -> Phases] /\ ~ Connected
    /\ stage \notin {"start", "dfs", "disconnected"} =>
          Tree /\ Connected /\ Tabulated(phase, projection)
    /\ stage = "util" => UtilStage
    /\ stage = "budget_exceeded" => \E a \in Agents : Width(a) > budget
    /\ stage \in {"optimal_cost", "infeasible", "value", "solved"} =>
          /\ Costed
          /\ phase \in [Agents -> {"util_done", "assigned"}]
    /\ stage = "optimal_cost" =>
          /\ phase \in [Agents -> {"util_done"}]
          /\ Ledger(sent, received)
          /\ queue = <<>>
    /\ stage = "value" => ValueStage
    /\ stage = "solved" => value \in World /\ Total(problem.factors, value) = RootCost

(* The harness starts in the invariant.                                      *)
LEMMA DpopInitHolds == Init => DpopInv
  <1> SUFFICES ASSUME Init
               PROVE  DpopInv
    OBVIOUS
  <1>1. DfsInit
    BY DEF Init
  <1>2. DfsInv
    BY <1>1, InitHolds
  <1>3. \A a \in Agents : children[a] = <<>>
    BY <1>1 DEF DfsInit
  <1>4. ReportedSeparators
    <2>1. \A a \in Agents : ToSet(children[a]) = {}
      BY <1>3 DEF ToSet
    <2> QED BY <2>1 DEF ReportedSeparators
  <1>5. Blank /\ Given /\ budget \in Budgets /\ value = [a \in Agents |-> value[a]]
    BY DEF Init, Blank, Given
  <1>6. stage = "start"
    BY <1>1 DEF DfsInit
  <1> QED BY <1>2, <1>4, <1>5, <1>6 DEF DpopInv, Searching

(* Only completed agents are children.                                       *)
LEMMA ChildrenReady ==
    ASSUME DfsInv, NEW a \in Agents, NEW c \in ToSet(children[a])
    PROVE  c \in Agents /\ phase[c] = "ready" /\ c \notin Late
  <1>1. children[a] \in Seq(Agents)
    BY DEF DfsInv, TreeInv, TypeOK
  <1>2. c \in Agents
    BY <1>1 DEF ToSet
  <1> QED BY <1>2 DEF DfsInv, TreeInv, Adopted

(* No step of the search changes the separator of an agent that has reported *)
(* it.                                                                       *)
LEMMA ReportsKept ==
    ASSUME DfsInv, ReportedSeparators, Start \/ Deliver
    PROVE  ReportedSeparators'
  <1>1. \A a \in Agents : \A c \in ToSet(children[a]) :
           c \in Agents /\ phase[c] = "ready" /\ childSep[a][c] = separator[c]
    BY ChildrenReady DEF ReportedSeparators
  <1>2. /\ separator \in [Agents -> SUBSET Agents]
        /\ children \in [Agents -> Seq(Agents)]
        /\ childSep \in [Agents -> [Agents -> SUBSET Agents]]
        /\ root \in Agents
    BY DEF DfsInv, TreeInv, TypeOK
  <1>3. ASSUME NEW x \in Agents, phase[x] # "ready", NEW s,
               separator' = [separator EXCEPT ![x] = s],
               children' = children, childSep' = childSep
        PROVE  ReportedSeparators'
    <2>1. ASSUME NEW a \in Agents, NEW c \in ToSet(children'[a])
          PROVE  childSep'[a][c] = separator'[c]
      <3>1. c \in Agents /\ phase[c] = "ready" /\ childSep[a][c] = separator[c]
        BY <1>1, <1>3, <2>1
      <3>2. c # x
        BY <1>3, <3>1
      <3> QED BY <1>2, <1>3, <3>1, <3>2
    <2> QED BY <2>1 DEF ReportedSeparators
  <1>4. ASSUME UNCHANGED <<separator, children, childSep>>
        PROVE  ReportedSeparators'
    BY <1>4 DEF ReportedSeparators
  <1>5. CASE Start
    <2>1. phase[root] = "new"
      BY <1>2, <1>5 DEF Start, DfsInv, Staged
    <2>2. /\ separator' = [separator EXCEPT ![root] = nbrs[root] \cap ToSet(<<>>)]
          /\ children' = children /\ childSep' = childSep
      BY <1>5 DEF Start, Enter
    <2> QED BY <1>2, <1>3, <2>1, <2>2
  <1>6. CASE Deliver
    <2> DEFINE m == Head(queue)
    <2>1. queue # <<>>
      BY <1>6 DEF Deliver
    <2>2. /\ m = queue[1]
          /\ m.from \in Agents /\ m.to \in Agents
          /\ Truthful(m)
          /\ Acceptable(m) /\ DfsMessage(m)
          /\ Late = IF m.kind = "return" THEN {m.from} ELSE {}
      BY <2>1, OneMessage
    <2>3. Receive(m)
      BY <1>6, <2>2 DEF Deliver
    <2> HIDE DEF m
    <2>4. CASE ReceiveFirstProbe(m)
      <3>1. phase[m.to] = "new"
        BY <2>4 DEF ReceiveFirstProbe, FirstProbe
      <3>2. /\ separator' = [separator EXCEPT ![m.to] = nbrs[m.to] \cap ToSet(m.payload)]
            /\ children' = children /\ childSep' = childSep
        BY <2>4 DEF ReceiveFirstProbe, Enter
      <3> QED BY <1>3, <2>2, <3>1, <3>2
    <2>5. CASE ReceiveLaterProbe(m)
      BY <1>4, <2>5 DEF ReceiveLaterProbe
    <2>6. CASE ReceiveSeen(m)
      BY <1>4, <2>6 DEF ReceiveSeen
    <2>7. CASE ReceiveReturn(m)
      <3> DEFINE x == m.to
                 n == m.from
                 s == separator[x] \cup (m.payload \ {x})
      <3>1. /\ phase[x] = "dfs"
            /\ m.kind = "return"
            /\ children' = [children EXCEPT ![x] = Append(children[x], n)]
            /\ childSep' = [childSep EXCEPT ![x][n] = m.payload]
            /\ separator' = [separator EXCEPT ![x] = s]
        BY <2>7 DEF ReceiveReturn, GoodReturn, Awaited
      <3>2. x \in Agents /\ n \in Agents
        BY <2>2
      <3>3. m.payload = separator[n] /\ phase[n] = "ready"
        BY <2>2, <3>1 DEF Truthful
      <3> HIDE DEF x, n, s
      <3>4. x # n
        BY <3>1, <3>3
      <3>5. \A a \in Agents : ToSet(children'[a]) =
               IF a = x THEN ToSet(children[a]) \cup {n} ELSE ToSet(children[a])
        <4> TAKE a \in Agents
        <4>1. CASE a = x
          <5>1. children[x] \in Seq(Agents)
            BY <1>2, <3>2
          <5>2. children'[x] = Append(children[x], n)
            BY <1>2, <3>1, <3>2
          <5> QED BY <3>2, <4>1, <5>1, <5>2, ToSetAppend
        <4>2. CASE a # x
          BY <1>2, <3>1, <4>2
        <4> QED BY <4>1, <4>2
      <3>6. ASSUME NEW a \in Agents, NEW c \in ToSet(children'[a])
            PROVE  childSep'[a][c] = separator'[c]
        <4>1. CASE a = x /\ c = n
          BY <1>2, <3>1, <3>2, <3>3, <3>4, <4>1
        <4>2. CASE ~ (a = x /\ c = n)
          <5>1. c \in ToSet(children[a])
            BY <3>5, <3>6, <4>2
          <5>2. c \in Agents /\ phase[c] = "ready" /\ childSep[a][c] = separator[c]
            BY <1>1, <5>1
          <5>3. c # x
            BY <3>1, <5>2
          <5>4. separator'[c] = separator[c]
            BY <1>2, <3>1, <5>2, <5>3
          <5>5. childSep'[a][c] = childSep[a][c]
            BY <1>2, <3>1, <3>2, <4>2, <5>2
          <5> QED BY <5>2, <5>4, <5>5
        <4> QED BY <4>1, <4>2
      <3> QED BY <3>6 DEF ReportedSeparators
    <2> QED BY <2>3, <2>4, <2>5, <2>6, <2>7 DEF Receive
  <1> QED BY <1>5, <1>6

(* What does not change while the tree and the instance do not.              *)
LEMMA Frame ==
    ASSUME Settled
    PROVE  /\ Given => Given'
           /\ Connected' <=> Connected
           /\ World' = World
           /\ \A a \in Agents : Width(a)' = Width(a)
           /\ budget' = budget
           /\ problem' = problem
  <1>1. /\ nbrs' = nbrs /\ root' = root /\ problem' = problem /\ budget' = budget
        /\ separator' = separator
    BY DEF Settled
  <1>2. Given => Given'
    BY <1>1 DEF Given, NeighborsIn
  <1>3. Connected' <=> Connected
    BY <1>1 DEF Connected
  <1>4. World' = World
    BY <1>1 DEF World
  <1>5. \A a \in Agents : Width(a)' = Width(a)
    BY <1>1 DEF Width
  <1> QED BY <1>1, <1>2, <1>3, <1>4, <1>5

(* _prepare.                                                                 *)
LEMMA TraverseKeeps ==
    ASSUME DpopInv, Traverse
    PROVE  DpopInv'
  <1>1. UNCHANGED <<problem, budget, childTable, projection, value>>
    BY DEF Traverse
  <1>2. stage \in {"start", "dfs"}
    BY DEF Traverse, Start, Deliver, Prepared
  <1>3. DfsInv /\ ReportedSeparators /\ Blank
    BY <1>2 DEF DpopInv, Searching
  <1>4. Given /\ budget \in Budgets /\ value = [a \in Agents |-> value[a]]
    BY DEF DpopInv
  <1>5. Blank' /\ budget' \in Budgets /\ value' = [a \in Agents |-> value'[a]]
    BY <1>1, <1>3, <1>4 DEF Blank
  <1>6. TypeOK
    BY <1>3 DEF DfsInv, TreeInv
  <1>7. CASE Start \/ Deliver
    <2>1. nbrs' = nbrs
      BY <1>7 DEF Start, Deliver, instance
    <2>2. Given'
      BY <1>1, <1>4, <2>1 DEF Given, NeighborsIn
    <2>3. TypeOK'
      <3>1. [DfsNext]_dfsVars
        BY <1>7 DEF DfsNext
      <3> QED BY <1>6, <3>1, NextType
    <2>4. DfsInv'
      BY <1>3, <1>7, <2>3, StartKeeps, DeliverKeeps
    <2>5. ReportedSeparators'
      BY <1>3, <1>7, ReportsKept
    <2>6. stage' = "dfs"
      <3>1. CASE Start
        BY <3>1 DEF Start
      <3>2. CASE Deliver
        <4>1. queue # <<>> /\ stage = "dfs"
          BY <3>2 DEF Deliver
        <4>2. Acceptable(Head(queue)) /\ DfsMessage(Head(queue))
          BY <1>3, <4>1, OneMessage
        <4> QED BY <3>2, <4>1, <4>2 DEF Deliver, Receive
      <3> QED BY <1>7, <3>1, <3>2
    <2> QED BY <1>5, <2>2, <2>4, <2>5, <2>6 DEF DpopInv, Searching
  <1>8. CASE Prepared("util")
    <2>1. /\ stage = "dfs" /\ queue = <<>>
          /\ stage' = IF ~ Spanned THEN "disconnected"
                      ELSE IF ValidTree THEN "util" ELSE "protocol_error"
          /\ UNCHANGED <<instance, phase, ancestors, remaining, pending, children,
                         childSep, separator, sent, received, queue>>
      BY <1>8 DEF Prepared
    <2>2. Settled /\ phase' = phase /\ sent' = sent /\ received' = received /\ queue' = queue
          /\ projection' = projection /\ childTable' = childTable
      BY <1>1, <2>1 DEF Settled, instance
    <2>3. Given' /\ (Connected' <=> Connected)
      BY <1>4, <2>2, Frame
    <2>4. CASE ~ Spanned
      <3>1. phase[root] # "new"
        BY <1>3, <2>1 DEF DfsInv, Staged
      <3>2. ~ Connected
        BY <1>3, <2>1, <2>4, <3>1, DrainedIsClosed
      <3>3. phase' \in [Agents -> Phases]
        BY <1>6, <2>2 DEF TypeOK
      <3> QED BY <1>5, <2>1, <2>3, <2>4, <3>2, <3>3 DEF DpopInv
    <2>5. CASE Spanned
      <3>1. Late = {}
        BY <2>1 DEF Late
      <3>2. TreeInv
        BY <1>3 DEF DfsInv
      <3>3. stage' = "util"
        BY <2>1, <2>5, <3>1, <3>2, TreeIsValid
      <3>4. Connected
        BY <2>5, <3>2, SpannedIsConnected
      <3>5. Tree
        BY <1>3, <2>5, <3>1, <3>2, TreeBuilt
      <3>6. \A a \in Agents : phase[a] = "ready"
        BY <2>5 DEF Spanned
      <3>7. phase \in [Agents -> {"ready", "util", "util_done"}]
        <4>1. phase \in [Agents -> Phases]
          BY <1>6 DEF TypeOK
        <4> QED BY <3>6, <4>1
      <3>8. Ledger(sent, received)
        <4>1. sent \in [Agents -> Nat] /\ received \in [Agents -> SUBSET (Agents \X Nat)]
          BY <1>6 DEF TypeOK
        <4>2. \A b \in Agents : \A key \in received[b] : key[2] < sent[key[1]]
          BY <1>3 DEF DfsInv, FreshKeys
        <4>3. \A b, c \in Agents : \A n \in Nat : <<c, n>> \in received[b] => n < sent[c]
          BY <4>2
        <4> QED BY <4>1, <4>3 DEF Ledger
      <3>9. Listed(queue) /\ SendersApart(queue) /\ Posts(queue) = {}
        <4>1. queue \in Seq({}) /\ Len(queue) = 0
          BY <2>1
        <4> QED BY <4>1 DEF Listed, SendersApart, Posts
      <3>10. \A b \in Agents : DOMAIN childTable[b] = {}
        <4>1. \A b \in Agents : childTable[b] = <<>>
          BY <1>3 DEF Blank
        <4> QED BY <4>1
      <3>11. childTable = [b \in Agents |-> childTable[b]] /\ projection = [b \in Agents |-> projection[b]]
        BY <1>3 DEF Blank
      <3>12. UtilState(phase, projection, sent, received, queue, childTable)
        BY <3>6, <3>7, <3>8, <3>9, <3>10, <3>11 DEF UtilState
      <3>13. Waiting(phase, childTable, NoAgent)
        BY <3>6 DEF Waiting
      <3>14. UtilStage'
        <4>1. UtilState(phase', projection', sent', received', queue', childTable')
              /\ Waiting(phase', childTable', NoAgent)
          BY <2>2, <3>12, <3>13
        <4> QED BY <2>2, <4>1, UtilStays
      <3>15. Tree'
        BY <2>2, <3>5, TreeStays
      <3>16. Tabulated(phase, projection)'
        BY <3>14 DEF UtilStage, UtilState, Tabulated
      <3> QED BY <1>5, <2>3, <3>3, <3>4, <3>14, <3>15, <3>16 DEF DpopInv
    <2> QED BY <2>4, <2>5
  <1> QED BY <1>7, <1>8 DEF Traverse

(* UTIL.                                                                     *)
LEMMA UtilKeeps ==
    ASSUME DpopInv, StartUtil \/ DeliverUtil
    PROVE  DpopInv'
  <1>1. stage = "util"
    BY DEF StartUtil, DeliverUtil
  <1>2. /\ Given /\ budget \in Budgets /\ value = [a \in Agents |-> value[a]]
        /\ Tree /\ Connected /\ UtilStage
    BY <1>1 DEF DpopInv
  <1>3. Settled /\ value' = value
    <2>1. CASE StartUtil
      BY <2>1 DEF StartUtil, given, instance, tree, Settled
    <2>2. CASE DeliverUtil
      <3> DEFINE m == Head(queue)
      <3>1. CASE Acceptable(m) /\ GoodUtil(m)
        BY <2>2, <3>1 DEF DeliverUtil, given, instance, tree, Settled
      <3>2. CASE ~ (Acceptable(m) /\ GoodUtil(m))
        BY <2>2, <3>2 DEF DeliverUtil, RejectLate, Reject, given, instance, Settled
      <3> QED BY <3>1, <3>2
    <2> QED BY <2>1, <2>2
  <1>4. \/ stage' = "util" /\ UtilStage'
        \/ /\ stage' = "budget_exceeded"
           /\ \E a \in Agents : Width(a) > budget
           /\ Tabulated(phase, projection)'
    BY <1>2, StartUtilKeeps, DeliverUtilKeeps
  <1>5. /\ Given' /\ Connected' /\ budget' \in Budgets /\ value' = [a \in Agents |-> value'[a]]
        /\ Tree'
    BY <1>2, <1>3, Frame, TreeStays
  <1>6. CASE stage' = "util" /\ UtilStage'
    <2>1. Tabulated(phase, projection)'
      BY <1>6 DEF UtilStage, UtilState, Tabulated
    <2> QED BY <1>5, <1>6, <2>1 DEF DpopInv
  <1>7. CASE /\ stage' = "budget_exceeded"
             /\ \E a \in Agents : Width(a) > budget
             /\ Tabulated(phase, projection)'
    <2>1. (\E a \in Agents : Width(a) > budget)'
      BY <1>3, <1>7, Frame
    <2> QED BY <1>5, <1>7, <2>1 DEF DpopInv
  <1> QED BY <1>4, <1>6, <1>7

(* The end of _run_util: every agent has its table, so the run has a verdict *)
(* or a finite cost.                                                         *)
LEMMA FinishUtilKeeps ==
    ASSUME DpopInv, FinishUtil
    PROVE  DpopInv'
  <1>1. stage = "util" /\ UtilStarted /\ queue = <<>>
    BY DEF FinishUtil
  <1>2. /\ Given /\ budget \in Budgets /\ value = [a \in Agents |-> value[a]]
        /\ Tree /\ Connected /\ UtilStage
    BY <1>1 DEF DpopInv
  <1>3. \A a \in Agents : phase[a] = "util_done"
    BY <1>1, <1>2, UtilEnds
  <1>4. /\ Settled /\ value' = value /\ phase' = phase /\ projection' = projection
        /\ sent' = sent /\ received' = received /\ queue' = queue
        /\ stage' = IF RootCost = Forbidden THEN "infeasible" ELSE "optimal_cost"
    BY <1>3 DEF FinishUtil, given, instance, tree, Settled
  <1>5. phase' \in [Agents -> {"util_done"}] /\ phase' \in [Agents -> {"util_done", "assigned"}]
    <2>1. phase \in [Agents -> {"ready", "util", "util_done"}]
      BY <1>2 DEF UtilStage, UtilState
    <2> QED BY <1>3, <1>4, <2>1
  <1>6. RootCost' = RootCost
    <2>1. root' = root
      BY <1>4 DEF Settled
    <2> QED BY <1>4, <2>1 DEF RootCost
  <1>7. Costed'
    BY <1>4, <1>6 DEF Costed
  <1>8. Ledger(sent, received)'
    <2>1. Ledger(sent, received)
      BY <1>2 DEF UtilStage, UtilState
    <2> QED BY <1>4, <2>1 DEF Ledger
  <1>9. Tabulated(phase, projection)'
    <2>1. Tabulated(phase', projection')
      BY <1>2, <1>4, UtilTabulated
    <2> QED BY <1>4, <2>1, TabulatedStays
  <1>10. /\ Given' /\ Connected' /\ budget' \in Budgets /\ value' = [a \in Agents |-> value'[a]]
         /\ Tree'
    BY <1>2, <1>4, Frame, TreeStays
  <1> QED BY <1>1, <1>4, <1>5, <1>7, <1>8, <1>9, <1>10 DEF DpopInv

(* VALUE.                                                                    *)
LEMMA ValueKeeps ==
    ASSUME DpopInv, StartValue \/ DeliverValue
    PROVE  DpopInv'
  <1>1. stage \in {"optimal_cost", "value"}
    BY DEF StartValue, DeliverValue
  <1>2. /\ Given /\ budget \in Budgets /\ value = [a \in Agents |-> value[a]]
        /\ Tree /\ Connected /\ Tabulated(phase, projection)
        /\ Costed /\ phase \in [Agents -> {"util_done", "assigned"}]
    BY <1>1 DEF DpopInv
  <1>3. RootCost # Forbidden
    BY <1>1, <1>2 DEF Costed
  <1>4. Settled /\ projection' = projection
    <2>1. CASE StartValue
      BY <2>1 DEF StartValue, given, instance, tree, Settled
    <2>2. CASE DeliverValue
      <3> DEFINE m == Head(queue)
      <3>1. CASE Acceptable(m) /\ GoodValue(m)
        BY <2>2, <3>1 DEF DeliverValue, given, instance, tree, Settled
      <3>2. CASE ~ (Acceptable(m) /\ GoodValue(m))
        BY <2>2, <3>2 DEF DeliverValue, RejectLate, Reject, given, instance, Settled
      <3> QED BY <3>1, <3>2
    <2> QED BY <2>1, <2>2
  <1>5. stage' = "value" /\ ValueStage'
    <2>1. CASE StartValue
      <3>1. /\ phase \in [Agents -> {"util_done"}]
            /\ Ledger(sent, received) /\ queue = <<>>
        BY <2>1 DEF StartValue, DpopInv
      <3> QED BY <1>2, <1>3, <2>1, <3>1, StartValueKeeps
    <2>2. CASE DeliverValue
      <3>1. ValueStage
        BY <2>2 DEF DeliverValue, DpopInv
      <3> QED BY <1>2, <1>3, <2>2, <3>1, DeliverValueKeeps
    <2> QED BY <2>1, <2>2
  <1>6. /\ phase' \in [Agents -> {"util_done", "assigned"}]
        /\ value' = [a \in Agents |-> value'[a]]
    BY <1>5 DEF ValueStage, ValueState
  <1>7. RootCost' = RootCost
    <2>1. root' = root
      BY <1>4 DEF Settled
    <2> QED BY <1>4, <2>1 DEF RootCost
  <1>8. Costed'
    BY <1>3, <1>5, <1>7 DEF Costed
  <1>9. Tabulated(phase, projection)'
    <2>1. \A a \in Agents : Tabled(a, projection[a])
      BY <1>2 DEF Tabulated
    <2>2. Tabulated(phase', projection')
      BY <1>4, <2>1 DEF Tabulated
    <2> QED BY <1>4, <2>2, TabulatedStays
  <1>10. Given' /\ Connected' /\ budget' \in Budgets /\ Tree'
    BY <1>2, <1>4, Frame, TreeStays
  <1> QED BY <1>5, <1>6, <1>8, <1>9, <1>10 DEF DpopInv

(* The end of solve: every agent has chosen, and the choices cost what the   *)
(* root's table promised.                                                    *)
LEMMA FinishValueKeeps ==
    ASSUME DpopInv, FinishValue
    PROVE  DpopInv'
  <1>1. stage = "value" /\ queue = <<>>
    BY DEF FinishValue
  <1>2. /\ Given /\ budget \in Budgets /\ value = [a \in Agents |-> value[a]]
        /\ Tree /\ Connected /\ Tabulated(phase, projection) /\ ValueStage
        /\ Costed /\ phase \in [Agents -> {"util_done", "assigned"}]
    BY <1>1 DEF DpopInv
  <1>3. \A a \in Agents : phase[a] = "assigned"
    BY <1>1, <1>2, ValueEnds
  <1>4. value \in World /\ Total(problem.factors, value) = RootCost
    BY <1>2, <1>3, ChoicesCost
  <1>5. /\ Settled /\ value' = value /\ phase' = phase /\ projection' = projection
        /\ stage' = "solved"
    BY <1>3, <1>4 DEF FinishValue, given, instance, tree, Settled
  <1>6. RootCost' = RootCost
    <2>1. root' = root
      BY <1>5 DEF Settled
    <2> QED BY <1>5, <2>1 DEF RootCost
  <1>7. Costed'
    BY <1>1, <1>2, <1>5, <1>6 DEF Costed
  <1>8. Tabulated(phase, projection)'
    <2>1. Tabulated(phase', projection')
      BY <1>2, <1>5
    <2> QED BY <1>5, <2>1, TabulatedStays
  <1>9. /\ Given' /\ Connected' /\ budget' \in Budgets /\ Tree' /\ World' = World
        /\ problem' = problem
    BY <1>2, <1>5, Frame, TreeStays
  <1>10. value' \in World' /\ Total(problem'.factors, value') = RootCost'
    BY <1>4, <1>5, <1>6, <1>9
  <1> QED BY <1>2, <1>5, <1>7, <1>8, <1>9, <1>10 DEF DpopInv

(* A step of something else.                                                 *)
LEMMA DpopStutterKeeps ==
    ASSUME DpopInv, UNCHANGED vars
    PROVE  DpopInv'
  <1>1. /\ UNCHANGED <<nbrs, root, stage, phase, ancestors, remaining, pending, children,
                       childSep, separator, sent, received, queue>>
        /\ UNCHANGED <<problem, budget, childTable, projection, value>>
    BY DEF vars, dfsVars
  <1>2. Settled
    BY <1>1 DEF Settled
  <1>3. /\ Given' /\ (Connected' <=> Connected) /\ World' = World
        /\ \A a \in Agents : Width(a)' = Width(a)
    BY <1>2, Frame DEF DpopInv
  <1>4. Searching => Searching'
    <2> HAVE Searching
    <2>1. UNCHANGED dfsVars
      BY <1>1 DEF dfsVars
    <2>2. DfsInv'
      BY <2>1, StutterKeeps DEF Searching
    <2>3. ReportedSeparators'
      BY <1>1 DEF Searching, ReportedSeparators
    <2>4. Blank'
      BY <1>1 DEF Searching, Blank
    <2> QED BY <2>2, <2>3, <2>4 DEF Searching
  <1>5. Tree => Tree'
    BY <1>2, TreeStays
  <1>6. Tabulated(phase, projection) => Tabulated(phase, projection)'
    <2> HAVE Tabulated(phase, projection)
    <2>1. Tabulated(phase', projection')
      BY <1>1
    <2> QED BY <1>2, <2>1, TabulatedStays
  <1>7. UtilStage => UtilStage'
    <2> HAVE UtilStage
    <2>1. UtilState(phase', projection', sent', received', queue', childTable')
          /\ Waiting(phase', childTable', NoAgent)
      BY <1>1 DEF UtilStage
    <2> QED BY <1>2, <2>1, UtilStays
  <1>8. ValueStage => ValueStage'
    <2> HAVE ValueStage
    <2>1. ValueState(phase', value', sent', received', queue', NoAgent)
      BY <1>1 DEF ValueStage
    <2>2. \E v \in World :
             /\ Below(root, v) = RootCost
             /\ \A b \in Agents : phase'[b] = "assigned" => v[b] = value'[b]
      BY <1>1 DEF ValueStage, Promised
    <2>3. phase'[root'] = "assigned"
      BY <1>1 DEF ValueStage
    <2> QED BY <1>1, <1>2, <2>1, <2>2, <2>3, PromisedStays, ValueStays DEF ValueStage
  <1>9. RootCost' = RootCost
    BY <1>1 DEF RootCost
  <1>10. Costed => Costed'
    BY <1>1, <1>9 DEF Costed
  <1>11. Ledger(sent, received) => Ledger(sent, received)'
    BY <1>1 DEF Ledger
  <1>12. (\E a \in Agents : Width(a) > budget) => (\E a \in Agents : Width(a) > budget)'
    BY <1>1, <1>3
  <1>13. value \in World /\ Total(problem.factors, value) = RootCost =>
            value' \in World' /\ Total(problem'.factors, value') = RootCost'
    BY <1>1, <1>3, <1>9
  <1> QED BY <1>1, <1>3, <1>4, <1>5, <1>6, <1>7, <1>8, <1>10, <1>11, <1>12, <1>13 DEF DpopInv

(* Every step of the run keeps the invariant.                                *)
LEMMA DpopNextKeeps == DpopInv /\ [Next]_vars => DpopInv'
  BY TraverseKeeps, UtilKeeps, FinishUtilKeeps, ValueKeeps, FinishValueKeeps, DpopStutterKeeps
     DEF Next

(* In every run of solve, whatever the graph, the domains, the costs and the *)
(* budget, the state is the one the invariant describes for its stage.       *)
THEOREM DpopInvariant == Spec => []DpopInv
  BY DpopInitHolds, DpopNextKeeps, PTL DEF Spec

(* An agent that is done has an exact table in every stage.                  *)
LEMMA DoneStage ==
    ASSUME DpopInv, NEW a \in Agents, phase[a] \in {"util_done", "assigned"}
    PROVE  Given /\ Tree /\ Tabled(a, projection[a])
  <1>1. stage \notin {"start", "dfs", "disconnected"}
    <2>1. stage \in {"start", "dfs", "disconnected"} => phase \in [Agents -> Phases]
      BY DEF DpopInv, Searching, DfsInv, TreeInv, TypeOK
    <2> QED BY <2>1 DEF Phases
  <1> QED BY <1>1 DEF DpopInv, Tabulated

(* Every UTIL table a run computes holds, for each combination of values of  *)
(* the separator, the least cost of the whole subtree                        *)
(* (_compute_util_if_ready).                                                 *)
THEOREM UtilIsExact == Spec => []UtilExact
  <1>1. DpopInv => UtilExact
    <2> SUFFICES ASSUME DpopInv, NEW a \in Agents, phase[a] \in {"util_done", "assigned"},
                        NEW context \in DOMAIN projection[a].table.at
                 PROVE  projection[a].table.at[context] = SubtreeOptimum(a, context)
      BY DEF UtilExact
    <2>1. Given /\ Tree /\ Tabled(a, projection[a])
      BY DoneStage
    <2> DEFINE t == projection[a].table
    <2>2. Exact(a, t) /\ context \in DOMAIN t.at
      BY <2>1 DEF Tabled
    <2> HIDE DEF t
    <2>3. t.at[context] = SubtreeOptimum(a, context)
      BY <2>1, <2>2, ExactIsOptimum
    <2> QED BY <2>3 DEF t
  <1> QED BY <1>1, DpopInvariant, PTL

(* Whatever part of the tree has chosen, some assignment of the cost at the  *)
(* root agrees with all the choices: no local argmin of _choose is ever      *)
(* wrong.                                                                    *)
THEOREM ChoicesAlwaysExtend == Spec => []ChoicesExtend
  <1>1. DpopInv => ChoicesExtend
    <2> SUFFICES ASSUME DpopInv, stage = "value"
                 PROVE  \E v \in Contexts(problem.dom) :
                           /\ Total(problem.factors, v) = RootCost
                           /\ \A a \in Agents : phase[a] = "assigned" => v[a] = value[a]
      BY DEF ChoicesExtend
    <2>1. Given /\ Tree /\ Promised(phase, value)
      BY DEF DpopInv, ValueStage
    <2>2. PICK v \in World : /\ Below(root, v) = RootCost
                             /\ \A a \in Agents : phase[a] = "assigned" => v[a] = value[a]
      BY <2>1 DEF Promised
    <2>3. Total(problem.factors, v) = Below(root, v)
      BY <2>1, TotalIsBelow
    <2> QED BY <2>2, <2>3 DEF World
  <1> QED BY <1>1, DpopInvariant, PTL

(* A run ends for its entry budget exactly when some agent of the tree joins *)
(* more entries than the budget allows (check_size).                         *)
THEOREM BudgetIsExact == Spec => []BudgetVerdict
  <1>1. DpopInv => BudgetVerdict
    <2> SUFFICES ASSUME DpopInv
                 PROVE  BudgetVerdict
      OBVIOUS
    <2>1. ASSUME stage \in {"optimal_cost", "infeasible", "value", "solved"}, NEW a \in Agents
          PROVE  Width(a) <= budget
      <3>1. phase[a] \in {"util_done", "assigned"}
        BY <2>1 DEF DpopInv
      <3> QED BY <3>1, DoneStage DEF Tabled
    <2> QED BY <2>1 DEF DpopInv, BudgetVerdict
  <1> QED BY <1>1, DpopInvariant, PTL

(* No agent ever raises ProtocolError, and none of the checks of solve at    *)
(* the end of its stages ever fails.                                         *)
THEOREM SolveNeverFails == Spec => []NoProtocolError
  <1>1. DpopInv => NoProtocolError
    BY DEF DpopInv, NoProtocolError
  <1> QED BY <1>1, DpopInvariant, PTL

(* The tables of the exact solver are those of the agents.                   *)
LEMMA SolverTables ==
    /\ \A f : Solver!Scope(f) = Scope(f)
    /\ \A dom : Solver!Contexts(dom) = Contexts(dom)
    /\ Solver!Forbidden = Forbidden /\ Solver!NoValue = NoValue
  <1>1. \A f : Solver!Scope(f) = Scope(f)
    BY DEF Solver!Scope, Scope
  <1>2. \A dom : Solver!Contexts(dom) = Contexts(dom)
    BY DEF Solver!Contexts, Contexts, Solver!Range, Range
  <1>3. Solver!Forbidden = Forbidden /\ Solver!NoValue = NoValue
    BY DEF Solver!Forbidden, Forbidden, Solver!NoValue, NoValue
  <1> QED BY <1>1, <1>2, <1>3

(* And so are its costs.                                                     *)
LEMMA SolverTotal ==
    ASSUME NEW f, NEW v
    PROVE  Solver!Total(f, v) = Total(f, v)
  <1> DEFINE g == [k \in DOMAIN f |-> f[k].at[Restrict(v, Scope(f[k]))]]
  <1>1. g = [k \in DOMAIN f |-> f[k].at[Solver!Restrict(v, Solver!Scope(f[k]))]]
    BY DEF Solver!Restrict, Restrict, Solver!Scope, Scope
  <1>2. Solver!Total(f, v) = Solver!FoldFunction(Solver!Plus, 0, g)
    BY <1>1 DEF Solver!Total
  <1>3. Total(f, v) = FoldPlus(g, DOMAIN g)
    BY FoldFunctionPlus DEF Total
  <1> HIDE DEF g
  <1>4. Solver!FoldFunction(Solver!Plus, 0, g) = FoldPlus(g, DOMAIN g)
    BY DEF Solver!FoldFunction, Solver!FoldFunctionOnSet, Solver!MapThenFoldSet, FoldPlus,
           Solver!Plus, Plus, Solver!Forbidden, Forbidden
  <1> QED BY <1>2, <1>3, <1>4

(* And its numbers of entries.                                               *)
LEMMA SolverEntries ==
    ASSUME NEW dom
    PROVE  Solver!Entries(dom) = Entries(dom)
  <1> DEFINE g == [n \in DOMAIN dom |-> Cardinality(dom[n])]
  <1>1. Entries(dom) = FoldTimes(g, DOMAIN g)
    BY DEF Entries, FoldFunction, FoldFunctionOnSet, MapThenFoldSet, FoldTimes
  <1>2. Solver!Entries(dom) = FoldTimes(g, DOMAIN g)
    BY DEF Solver!Entries, Solver!FoldFunction, Solver!FoldFunctionOnSet, Solver!MapThenFoldSet,
           FoldTimes, Solver!Cardinality, Cardinality
  <1> QED BY <1>1, <1>2

(* Two neighbours share a factor.                                            *)
LEMMA NeighborsShare ==
    ASSUME Given, NEW a \in Agents, NEW n \in nbrs[a]
    PROVE  \E k \in Factors : a \in ScopeOf(k) /\ n \in ScopeOf(k)
  <1>1. nbrs[a] = (UNION {Scope(problem.factors[j]) : j \in {j \in DOMAIN problem.factors :
                                            a \in Scope(problem.factors[j])}}) \ {a}
    BY DEF Given, NeighborsIn
  <1>2. PICK j \in DOMAIN problem.factors : a \in Scope(problem.factors[j])
                                           /\ n \in Scope(problem.factors[j])
    BY <1>1
  <1> QED BY <1>2 DEF Factors, ScopeOf

(* The search reaches every agent exactly when no part of the agents keeps   *)
(* all its factors to itself.                                                *)
LEMMA SolverConnected ==
    ASSUME Given
    PROVE  /\ Solver!Connected(problem) => Connected
           /\ root \in Agents /\ Connected => Solver!Connected(problem)
  <1>1. ASSUME Solver!Connected(problem), NEW S \in SUBSET Agents, root \in S,
               \A a \in S : nbrs[a] \subseteq S, S # Agents
        PROVE  FALSE
    <2>1. S \in (SUBSET Agents) \ {{}, Agents}
      BY <1>1
    <2>2. PICK k \in DOMAIN problem.factors :
             /\ Solver!Scope(problem.factors[k]) \cap S # {}
             /\ ~ (Solver!Scope(problem.factors[k]) \subseteq S)
      BY <1>1, <2>1 DEF Solver!Connected
    <2>3. k \in Factors /\ ScopeOf(k) \cap S # {} /\ ~ (ScopeOf(k) \subseteq S)
      BY <2>2, SolverTables DEF Factors, ScopeOf
    <2>4. PICK x, y : x \in ScopeOf(k) /\ x \in S /\ y \in ScopeOf(k) /\ y \notin S
      BY <2>3
    <2>5. y \in nbrs[x]
      BY <2>3, <2>4, FactorFacts
    <2> QED BY <1>1, <2>4, <2>5
  <1>2. ASSUME root \in Agents, Connected, NEW S \in (SUBSET Agents) \ {{}, Agents},
               \A k \in Factors : ScopeOf(k) \cap S # {} => ScopeOf(k) \subseteq S
        PROVE  FALSE
    <2> DEFINE T == Agents \ S
    <2>1. \A a \in S : nbrs[a] \subseteq S
      <3> SUFFICES ASSUME NEW a \in S, NEW n \in nbrs[a]
                   PROVE  n \in S
        OBVIOUS
      <3>1. a \in Agents
        OBVIOUS
      <3>2. PICK k \in Factors : a \in ScopeOf(k) /\ n \in ScopeOf(k)
        BY <3>1, NeighborsShare
      <3> QED BY <1>2, <3>2
    <2>2. \A a \in T : nbrs[a] \subseteq T
      <3> SUFFICES ASSUME NEW a \in T, NEW n \in nbrs[a]
                   PROVE  n \in T
        OBVIOUS
      <3>1. a \in Agents
        OBVIOUS
      <3>2. PICK k \in Factors : a \in ScopeOf(k) /\ n \in ScopeOf(k)
        BY <3>1, NeighborsShare
      <3>3. ScopeOf(k) \subseteq Agents
        BY FactorFacts
      <3> QED BY <1>2, <3>2, <3>3
    <2>3. CASE root \in S
      BY <1>2, <2>1, <2>3 DEF Connected
    <2>4. CASE root \in T
      <3>1. T = Agents
        BY <1>2, <2>2, <2>4 DEF Connected
      <3> QED BY <3>1
    <2> QED BY <1>2, <2>3, <2>4
  <1>3. ASSUME root \in Agents, Connected, NEW S \in (SUBSET Agents) \ {{}, Agents}
        PROVE  \E k \in DOMAIN problem.factors :
                  /\ Solver!Scope(problem.factors[k]) \cap S # {}
                  /\ ~ (Solver!Scope(problem.factors[k]) \subseteq S)
    <2>1. PICK k \in Factors : ScopeOf(k) \cap S # {} /\ ~ (ScopeOf(k) \subseteq S)
      BY <1>2, <1>3
    <2> QED BY <2>1, SolverTables DEF Factors, ScopeOf
  <1>4. Solver!Connected(problem) => Connected
    BY <1>1 DEF Connected
  <1>5. root \in Agents /\ Connected => Solver!Connected(problem)
    BY <1>3 DEF Solver!Connected
  <1> QED BY <1>4, <1>5

(* The root's table holds the least cost of all the assignments.             *)
LEMMA RootHoldsOptimum ==
    ASSUME Tree, Given, Tabled(root, projection[root])
    PROVE  Solver!Optimum(problem) = RootCost
  <1> DEFINE t == projection[root].table
             C == {Below(root, v) : v \in World}
  <1>1. Exact(root, t)
    BY DEF Tabled
  <1> HIDE DEF t
  <1>2. /\ \E v \in World : Below(root, v) = t.at[<<>>]
        /\ \A v \in World : AtMost(t.at[<<>>], Below(root, v))
    BY <1>1, TopEntry
  <1>3. root \in Agents
    BY DEF Tree, Order
  <1>4. C \subseteq Costs
    <2> SUFFICES ASSUME NEW v \in World
                 PROVE  Below(root, v) \in Costs
      OBVIOUS
    <2>1. IsFiniteSet(Factors) /\ \A k \in Factors : Local(v)[k] \in Costs
      BY DomainFacts, LocalFacts
    <2>2. SumOf(Local(v), Factors) \in Costs
      BY <2>1, SumFacts
    <2> QED BY <2>2, RootFacts DEF Below
  <1>5. t.at[<<>>] \in C /\ \A e \in C : AtMost(t.at[<<>>], e)
    BY <1>2
  <1>6. {Solver!Total(problem.factors, v) : v \in Solver!Contexts(problem.dom)} = C
    <2>1. \A v \in World : Solver!Total(problem.factors, v) = Below(root, v)
      BY SolverTotal, TotalIsBelow
    <2>2. Solver!Contexts(problem.dom) = World
      BY SolverTables DEF World
    <2> QED BY <2>1, <2>2
  <1> DEFINE c == t.at[<<>>]
  <1> HIDE DEF C, c
  <1>7. (IF C = {Forbidden} THEN Forbidden ELSE Min(C \ {Forbidden})) = c
    BY <1>4, <1>5, LeastOf DEF c
  <1>8. \A D : Solver!Min(D) = Min(D)
    BY DEF Solver!Min, Min
  <1>9. Solver!Optimum(problem) = c
    BY <1>6, <1>7, <1>8, SolverTables DEF Solver!Optimum
  <1> QED BY <1>9 DEF c, t, RootCost

(* An agent that joins more than the budget is proof that all the agents'    *)
(* assignments are more than the budget.                                     *)
LEMMA WidthBelowAll ==
    ASSUME Tree, Given, budget \in Budgets, NEW a \in Agents, Width(a) > budget
    PROVE  Solver!Entries(problem.dom) > budget
  <1> DEFINE S == {a} \cup separator[a]
             m == Entries(Restrict(problem.dom, S))
             n == Entries(Restrict(problem.dom, Agents))
  <1>1. S \subseteq Agents
    BY DEF Tree, Separators
  <1>2. m \in Nat /\ n \in Nat /\ m <= n
    BY <1>1, MoreEntries
  <1>3. Entries(problem.dom) = n
    <2>1. DOMAIN problem.dom = Agents /\ IsFiniteSet(DOMAIN problem.dom)
      BY DomainFacts
    <2>2. Entries(problem.dom) = Fold("product", Size, Agents)
      BY <2>1, EntriesIsFold DEF Size
    <2> QED BY <2>2, EntriesOf
  <1>4. m > budget /\ budget \in Nat
    BY BudgetsAssumption DEF Width
  <1>5. Solver!Entries(problem.dom) = n
    BY <1>3, SolverEntries
  <1> HIDE DEF m, n
  <1> QED BY <1>2, <1>4, <1>5

(* What ends a run, action by action: no step leaves a verdict, and a step   *)
(* that reaches one leaves the tree and the instance alone.                  *)
LEMMA StepEnds ==
    ASSUME DpopInv, Next
    PROVE  /\ problem' = problem /\ budget' = budget
           /\ stage \notin Outcomes \cup {"protocol_error"}
           /\ \/ stage' \in {"dfs", "util", "optimal_cost", "value", "protocol_error"}
              \/ stage' = "disconnected" /\ Settled
              \/ /\ stage' = "budget_exceeded" /\ Tree /\ Connected
                 /\ \E a \in Agents : Width(a) > budget
              \/ /\ stage' = "infeasible" /\ Tree /\ Connected
                 /\ Tabled(root, projection[root]) /\ RootCost = Forbidden
              \/ /\ stage' = "solved" /\ Tree /\ Connected
                 /\ value' = value /\ value \in World
                 /\ Tabled(root, projection[root]) /\ RootCost # Forbidden
                 /\ Total(problem.factors, value) = RootCost
  <1> DEFINE Kept == problem' = problem /\ budget' = budget
                     /\ stage \notin Outcomes \cup {"protocol_error"}
  <1>1. CASE Traverse
    <2>1. Kept
      BY <1>1 DEF Traverse, Start, Deliver, Prepared, Outcomes
    <2>2. CASE Start
      BY <2>1, <2>2 DEF Start
    <2>3. CASE Deliver
      BY <2>1, <2>3 DEF Deliver, Receive, Reject, DpopInv
    <2>4. CASE Prepared("util")
      <3>1. Settled
        BY <1>1, <2>4 DEF Traverse, Prepared, instance, Settled
      <3> QED BY <2>1, <2>4, <3>1 DEF Prepared
    <2> QED BY <1>1, <2>2, <2>3, <2>4 DEF Traverse
  <1>2. CASE StartUtil \/ DeliverUtil
    <2>1. stage = "util" /\ Kept
      BY <1>2 DEF StartUtil, DeliverUtil, given, Outcomes
    <2>2. Tree /\ Connected /\ Given /\ budget \in Budgets /\ UtilStage
      BY <2>1 DEF DpopInv
    <2>3. \/ stage' = "util"
          \/ stage' = "budget_exceeded" /\ \E a \in Agents : Width(a) > budget
      BY <1>2, <2>2, StartUtilKeeps, DeliverUtilKeeps
    <2> QED BY <2>1, <2>2, <2>3
  <1>3. CASE FinishUtil
    <2>1. stage = "util" /\ UtilStarted /\ queue = <<>> /\ Kept
      BY <1>3 DEF FinishUtil, given, Outcomes
    <2>2. Tree /\ Connected /\ Given /\ UtilStage /\ root \in Agents
      BY <2>1 DEF DpopInv, Tree, Order
    <2>3. \A a \in Agents : phase[a] = "util_done"
      BY <2>1, <2>2, UtilEnds
    <2>4. Tabled(root, projection[root])
      BY <2>2, <2>3, DoneStage
    <2>5. stage' = IF RootCost = Forbidden THEN "infeasible" ELSE "optimal_cost"
      BY <1>3, <2>3 DEF FinishUtil
    <2> QED BY <2>1, <2>2, <2>4, <2>5
  <1>4. CASE StartValue \/ DeliverValue
    <2>1. Kept
      BY <1>4 DEF StartValue, DeliverValue, given, Outcomes
    <2>2. stage' \in {"value", "protocol_error"}
      BY <1>4 DEF StartValue, DeliverValue, Choose, RejectLate, Reject
    <2> QED BY <2>1, <2>2
  <1>5. CASE FinishValue
    <2>1. stage = "value" /\ queue = <<>> /\ Kept
      BY <1>5 DEF FinishValue, given, Outcomes
    <2>2. /\ Given /\ value = [a \in Agents |-> value[a]]
          /\ Tree /\ Connected /\ Tabulated(phase, projection) /\ ValueStage
          /\ Costed /\ root \in Agents
      BY <2>1 DEF DpopInv, Tree, Order
    <2>3. \A a \in Agents : phase[a] = "assigned"
      BY <2>1, <2>2, ValueEnds
    <2>4. value \in World /\ Total(problem.factors, value) = RootCost
      BY <2>2, <2>3, ChoicesCost
    <2>5. Tabled(root, projection[root])
      BY <2>2, <2>3, DoneStage
    <2>6. RootCost # Forbidden
      BY <2>1, <2>2 DEF Costed
    <2>7. value' = value /\ stage' = "solved"
      BY <1>5, <2>3, <2>4 DEF FinishValue
    <2> QED BY <2>1, <2>2, <2>4, <2>5, <2>6, <2>7
  <1> QED BY <1>1, <1>2, <1>3, <1>4, <1>5 DEF Next


(* Every step of the distributed run is a step of the exact solver, or       *)
(* changes nothing that its caller sees.                                     *)
LEMMA StepSolves ==
    ASSUME DpopInv, DpopInv', [Next]_vars
    PROVE  [Solver!Next]_Solver!vars
  <1> DEFINE verdict == IF stage \in Outcomes \cup {"protocol_error"} THEN stage ELSE "running"
             plan == IF stage = "solved" THEN value ELSE [a \in Agents |-> NoValue]
             Same == problem' = problem /\ budget' = budget
  <1>1. CASE UNCHANGED vars
    <2>1. problem' = problem /\ budget' = budget /\ stage' = stage /\ value' = value
      BY <1>1 DEF vars, dfsVars
    <2> QED BY <2>1 DEF Solver!vars
  <1>2. CASE Next
    <2>1. Same /\ verdict = "running" /\ plan = [a \in Agents |-> NoValue]
      BY <1>2, StepEnds DEF Outcomes
    <2>2. Given /\ budget \in Budgets /\ stage' # "protocol_error"
      BY DEF DpopInv
    <2>3. ASSUME Tree, Connected
          PROVE  Solver!Connected(problem)
      <3>1. root \in Agents
        BY <2>3 DEF Tree, Order
      <3> QED BY <2>2, <2>3, <3>1, SolverConnected
    <2>4. CASE stage' \in {"dfs", "util", "optimal_cost", "value", "protocol_error"}
      <3>1. verdict' = "running" /\ plan' = plan
        BY <2>1, <2>2, <2>4 DEF Outcomes
      <3> QED BY <2>1, <3>1 DEF Solver!vars
    <2>5. CASE stage' = "disconnected" /\ Settled
      <3>1. ~ Connected
        <4>1. ~ (Connected')
          BY <2>5 DEF DpopInv
        <4> QED BY <2>5, <4>1, Frame
      <3>2. ~ Solver!Connected(problem)
        BY <2>2, <3>1, SolverConnected
      <3>3. verdict' = "disconnected" /\ plan' = plan
        BY <2>1, <2>5 DEF Outcomes
      <3> QED BY <2>1, <3>2, <3>3 DEF Solver!Next, Solver!Refuse
    <2>6. CASE /\ stage' = "budget_exceeded" /\ Tree /\ Connected
               /\ \E a \in Agents : Width(a) > budget
      <3>1. Solver!Entries(problem.dom) > budget
        BY <2>2, <2>6, WidthBelowAll
      <3>2. verdict' = "budget_exceeded" /\ plan' = plan
        BY <2>1, <2>6 DEF Outcomes
      <3> QED BY <2>1, <2>3, <2>6, <3>1, <3>2 DEF Solver!Next, Solver!GiveUp
    <2>7. CASE /\ stage' = "infeasible" /\ Tree /\ Connected
               /\ Tabled(root, projection[root]) /\ RootCost = Forbidden
      <3>1. Solver!Optimum(problem) = Solver!Forbidden
        BY <2>2, <2>7, RootHoldsOptimum, SolverTables
      <3>2. verdict' = "infeasible" /\ plan' = plan
        BY <2>1, <2>7 DEF Outcomes
      <3> QED BY <2>1, <2>3, <2>7, <3>1, <3>2 DEF Solver!Next, Solver!Infeasible
    <2>8. CASE /\ stage' = "solved" /\ Tree /\ Connected
               /\ value' = value /\ value \in World
               /\ Tabled(root, projection[root]) /\ RootCost # Forbidden
               /\ Total(problem.factors, value) = RootCost
      <3>1. /\ Solver!Optimum(problem) = RootCost
            /\ Solver!Optimum(problem) # Solver!Forbidden
        BY <2>2, <2>8, RootHoldsOptimum, SolverTables
      <3>2. verdict' = "solved" /\ plan' = value
        BY <2>8 DEF Outcomes
      <3>3. plan' \in Solver!Contexts(problem.dom)
        BY <2>8, <3>2, SolverTables DEF World
      <3>4. Solver!Total(problem.factors, plan') = Solver!Optimum(problem)
        BY <2>8, <3>1, <3>2, SolverTotal
      <3> QED BY <2>1, <2>3, <2>8, <3>1, <3>2, <3>3, <3>4 DEF Solver!Next, Solver!Solved
    <2> QED BY <1>2, <2>4, <2>5, <2>6, <2>7, <2>8, StepEnds
  <1> QED BY <1>1, <1>2

(* The distributed run implements the exact solver.                          *)
THEOREM SolveIsExact == Spec => IsExactSolver
  <1>1. Init => Solver!Init
    <2> SUFFICES ASSUME Init
                 PROVE  Solver!Init
      OBVIOUS
    <2>1. stage = "start"
      BY DEF Init, DfsInit
    <2> QED BY <2>1, SolverTables DEF Init, Solver!Init, Solver!NoPlan, Outcomes
  <1>2. DpopInv /\ DpopInv' /\ [Next]_vars => [Solver!Next]_Solver!vars
    BY StepSolves
  <1> QED BY <1>1, <1>2, DpopInvariant, PTL DEF Spec, IsExactSolver, Solver!Spec
===============================================================================
