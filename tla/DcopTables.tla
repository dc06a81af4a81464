------------------------------ MODULE DcopTables ------------------------------
(***************************************************************************)
(* The exact min-sum algebra of dcop.py and tables.py.                     *)
(*                                                                         *)
(* A table is a record: dom maps each name of its scope to the values of   *)
(* that name, at maps each assignment of the scope to a cost.  Axis order  *)
(* and the flattened index are abstracted: a table is a function of the    *)
(* assignment, and values are numbers ordered like their identifiers.      *)
(***************************************************************************)
EXTENDS Integers, FiniteSets, SequencesExt

(* Cost(None), a forbidden combination; other costs are natural numbers.     *)
Forbidden == -1

(* Projection.choices holds None where every candidate is forbidden.         *)
NoValue == 0

(* Cost.__add__ : forbidden absorbs.                                         *)
Plus(c, d) == IF c = Forbidden \/ d = Forbidden THEN Forbidden ELSE c + d

(* Costs compared by their representation, forbidden below every finite one. *)
Smaller(c, d) == c < d

(* Cost.__lt__ : forbidden is above every finite cost.                       *)
Cheaper(c, d) == c # Forbidden /\ (d = Forbidden \/ c < d)

Scope(t) == DOMAIN t.dom

(* The assignments of the names of dom, in the order product enumerates them. *)
Contexts(dom) == {v \in [DOMAIN dom -> UNION Range(dom)] :
                     \A n \in DOMAIN dom : v[n] \in dom[n]}

(* What check_size compares with the budget.                                 *)
Entries(dom) == FoldFunction(LAMBDA n, k : n * k, 1,
                             [n \in DOMAIN dom |-> Cardinality(dom[n])])

(* The cost that a family of tables gives an assignment of their scopes.     *)
Total(family, v) ==
    FoldFunction(Plus, 0, [k \in DOMAIN family |->
                              family[k].at[Restrict(v, Scope(family[k]))]])

(* The domains of the union of the scopes.                                   *)
JoinedDomains(family) ==
    [n \in UNION {Scope(family[k]) : k \in DOMAIN family} |->
        family[CHOOSE k \in DOMAIN family : n \in Scope(family[k])].dom[n]]

(* Every family member gives a shared name the same values.                  *)
SameDomains(family) ==
    \A j, k \in DOMAIN family :
        \A n \in Scope(family[j]) \cap Scope(family[k]) :
            family[j].dom[n] = family[k].dom[n]

Join(family) ==
    LET dom == JoinedDomains(family)
    IN  [dom |-> dom, at |-> [v \in Contexts(dom) |-> Total(family, v)]]

(* The context v of the other names, with x taking the value d.              *)
With(v, x, d) == [n \in DOMAIN v \cup {x} |-> IF n = x THEN d ELSE v[n]]

(* Eliminate x, choosing its least value that is not forbidden.              *)
MinimizeFeasible(t, x) ==
    LET dom == Restrict(t.dom, Scope(t) \ {x})
        costs(v) == {t.at[With(v, x, d)] : d \in t.dom[x]}
        allowed(v) == {d \in t.dom[x] : t.at[With(v, x, d)] # Forbidden}
    IN  [table |-> [dom |-> dom,
                    at |-> [v \in Contexts(dom) |->
                              CHOOSE c \in costs(v) :
                                 \A e \in costs(v) : ~ Cheaper(e, c)]],
         choice |-> [v \in Contexts(dom) |->
                       IF allowed(v) = {} THEN NoValue ELSE Min(allowed(v))]]

(* Eliminate x: its best cost in each context, and the least value that      *)
(* attains it.                                                               *)
Minimize(t, x) ==
    LET dom == Restrict(t.dom, Scope(t) \ {x})
        cost(v, d) == t.at[With(v, x, d)]
        least(v) == LET costs == {cost(v, d) : d \in t.dom[x]}
                    IN  CHOOSE c \in costs : \A e \in costs : ~ Cheaper(e, c)
        best == [v \in Contexts(dom) |-> least(v)]
        first(v) == IF best[v] = Forbidden THEN NoValue
                    ELSE Min({d \in t.dom[x] : cost(v, d) = best[v]})
    IN  [table |-> [dom |-> dom, at |-> best],
         choice |-> [v \in Contexts(dom) |-> first(v)]]
=============================================================================
