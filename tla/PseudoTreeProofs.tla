--------------------------- MODULE PseudoTreeProofs ---------------------------
(***************************************************************************)
(* Proofs about the distributed DFS, for every set of agents, every graph  *)
(* and every root: what it keeps, and that it takes the steps of           *)
(* DepthFirst.                                                             *)
(***************************************************************************)
EXTENDS PseudoTreeInv, SequenceTheorems, FiniteSetTheorems,
        WellFoundedInduction, TLAPS

(* A nonempty set of natural numbers has a least element: the set inclusion  *)
(* of the intervals 0..n is well founded.                                    *)
LEMMA MinIsLeast ==
    ASSUME NEW S, S \subseteq Nat, S # {}
    PROVE  /\ Min(S) \in S
           /\ \A y \in S : Min(S) <= y
  <1> DEFINE T == {0..n : n \in S}
  <1>1. T \subseteq FiniteSubsetsOf(Nat)
    <2>1. \A n \in Nat : IsFiniteSet(0..n) /\ 0..n \subseteq Nat
      BY FS_Interval
    <2> QED BY <2>1 DEF FiniteSubsetsOf
  <1>2. T # {}
    OBVIOUS
  <1>3. PICK t \in T : \A u \in T : ~ (<<u, t>> \in StrictSubsetOrdering(Nat))
    <2> HIDE DEF T
    <2> QED BY <1>1, <1>2, FS_StrictSubsetOrderingWellFounded, WFMin
  <1>4. PICK x \in S : t = 0..x
    OBVIOUS
  <1>5. ASSUME NEW y \in S
        PROVE  x <= y
    <2>1. ~ (<<0..y, 0..x>> \in StrictSubsetOrdering(Nat))
      BY <1>3, <1>4
    <2>2. CASE y < x
      <3>1. 0..y \subseteq 0..x /\ x \in 0..x /\ x \notin 0..y
        BY <2>2
      <3>2. 0..y \in SUBSET Nat /\ 0..x \in SUBSET Nat
        OBVIOUS
      <3> QED BY <2>1, <3>1, <3>2 DEF StrictSubsetOrdering
    <2> QED BY <2>2
  <1> QED BY <1>5 DEF Min

(* An agent that probes the least neighbour left probes an agent.            *)
LEMMA MinAgent ==
    ASSUME NEW S \in SUBSET Agents, S # {}
    PROVE  Min(S) \in S /\ Min(S) \in Agents
  BY MinIsLeast, AgentsAssumption
-----------------------------------------------------------------------------
(* Type correctness.                                                         *)

LEMMA PostType ==
    ASSUME TypeOK, NEW rest \in Seq(Messages), NEW a \in Agents,
           NEW to \in Agents, NEW kind, NEW payload,
           \/ kind = "explore" /\ payload \in Seq(Agents)
           \/ kind \in {"return", "seen"} /\ payload \in SUBSET Agents,
           Post(rest, a, to, kind, payload)
    PROVE  /\ queue' \in Seq(Messages)
           /\ sent' \in [Agents -> Nat]
  <1> DEFINE m == [kind |-> kind, from |-> a, to |-> to, seq |-> sent[a],
                   payload |-> payload]
  <1>1. sent[a] \in Nat
    BY DEF TypeOK
  <1>2. m \in Messages
    BY <1>1 DEF Messages
  <1>3. queue' = Append(rest, m)
    BY DEF Post
  <1>4. queue' \in Seq(Messages)
    <2> HIDE DEF m
    <2> QED BY <1>2, <1>3
  <1>5. sent' \in [Agents -> Nat]
    BY <1>1 DEF TypeOK, Post
  <1> QED BY <1>4, <1>5

LEMMA AdvanceType ==
    ASSUME TypeOK, NEW rest \in Seq(Messages), NEW a \in Agents,
           NEW anc \in Seq(Agents), NEW rem \in SUBSET Agents,
           NEW sep \in SUBSET Agents, Advance(rest, a, anc, rem, sep)
    PROVE  /\ phase' \in [Agents -> Phases]
           /\ pending' \in [Agents -> Agents \cup {NoAgent}]
           /\ remaining' \in [Agents -> SUBSET Agents]
           /\ queue' \in Seq(Messages)
           /\ sent' \in [Agents -> Nat]
  <1>1. CASE Probe(rest, a, anc, rem)
    <2>1. Min(rem) \in Agents
      BY <1>1, MinAgent DEF Probe
    <2>2. Append(anc, a) \in Seq(Agents)
      OBVIOUS
    <2>3. Post(rest, a, Min(rem), "explore", Append(anc, a))
      BY <1>1 DEF Probe
    <2>4. queue' \in Seq(Messages) /\ sent' \in [Agents -> Nat]
      BY <2>1, <2>2, <2>3, PostType
    <2> QED BY <1>1, <2>1, <2>4 DEF Probe, TypeOK, Phases
  <1>2. CASE Complete(rest, a, anc, rem, sep)
    <2>1. queue' \in Seq(Messages) /\ sent' \in [Agents -> Nat]
      <3>1. CASE anc = <<>>
        BY <1>2, <3>1 DEF Complete, TypeOK
      <3>2. CASE anc # <<>>
        <4>1. Last(anc) \in Agents
          BY <3>2 DEF Last
        <4>2. Post(rest, a, Last(anc), "return", sep)
          BY <1>2, <3>2 DEF Complete
        <4> QED BY <4>1, <4>2, PostType
      <3> QED BY <3>1, <3>2
    <2> QED BY <1>2, <2>1 DEF Complete, TypeOK, Phases
  <1> QED BY <1>1, <1>2 DEF Advance

LEMMA EnterType ==
    ASSUME TypeOK, NEW rest \in Seq(Messages), NEW a \in Agents,
           NEW path \in Seq(Agents), Enter(rest, a, path)
    PROVE  /\ ancestors' \in [Agents -> Seq(Agents)]
           /\ separator' \in [Agents -> SUBSET Agents]
           /\ phase' \in [Agents -> Phases]
           /\ pending' \in [Agents -> Agents \cup {NoAgent}]
           /\ remaining' \in [Agents -> SUBSET Agents]
           /\ queue' \in Seq(Messages)
           /\ sent' \in [Agents -> Nat]
  <1>1. nbrs[a] \in SUBSET Agents
    BY DEF TypeOK
  <1>2. Advance(rest, a, path, nbrs[a] \ ToSet(path), nbrs[a] \cap ToSet(path))
    BY DEF Enter
  <1>3. /\ nbrs[a] \ ToSet(path) \in SUBSET Agents
        /\ nbrs[a] \cap ToSet(path) \in SUBSET Agents
    BY <1>1
  <1>4. /\ phase' \in [Agents -> Phases]
        /\ pending' \in [Agents -> Agents \cup {NoAgent}]
        /\ remaining' \in [Agents -> SUBSET Agents]
        /\ queue' \in Seq(Messages)
        /\ sent' \in [Agents -> Nat]
    BY <1>2, <1>3, AdvanceType
  <1> QED BY <1>3, <1>4 DEF Enter, TypeOK

(* The initial states have the right types.                                  *)
LEMMA InitType == DfsInit => TypeOK
  BY GraphsAssumption DEF DfsInit, TypeOK, Phases, Stages

(* Every step of the harness or of an agent keeps the types.                 *)
LEMMA NextType == TypeOK /\ [DfsNext]_dfsVars => TypeOK'
  <1> SUFFICES ASSUME TypeOK, [DfsNext]_dfsVars
               PROVE  TypeOK'
    OBVIOUS
  <1>1. CASE Start
    <2>1. queue \in Seq(Messages) /\ root \in Agents /\ <<>> \in Seq(Agents)
      BY DEF TypeOK
    <2>2. Enter(queue, root, <<>>)
      BY <1>1 DEF Start
    <2> QED BY <1>1, <2>1, <2>2, EnterType DEF Start, TypeOK, Stages, instance
  <1>2. CASE Deliver
    <2> DEFINE m == Head(queue)
    <2>1. /\ queue \in Seq(Messages)
          /\ m \in Messages
          /\ Tail(queue) \in Seq(Messages)
      BY <1>2, HeadTailProperties DEF Deliver, TypeOK
    <2>2. m.from \in Agents /\ m.to \in Agents /\ Key(m) \in Agents \X Nat
      BY <2>1 DEF Messages, Key
    <2>3. Accept(m) => received' \in [Agents -> SUBSET (Agents \X Nat)]
      BY <2>2 DEF Accept, TypeOK
    <2>4. CASE ReceiveFirstProbe(m) /\ UNCHANGED <<stage, nbrs, root>>
      <3>1. m.payload \in Seq(Agents)
        BY <2>1, <2>4 DEF ReceiveFirstProbe, FirstProbe, Messages
      <3>2. Enter(Tail(queue), m.to, m.payload) /\ Accept(m)
        BY <2>4 DEF ReceiveFirstProbe
      <3> HIDE DEF m
      <3> QED BY <2>1, <2>2, <2>3, <2>4, <3>1, <3>2, EnterType
              DEF ReceiveFirstProbe, TypeOK
    <2>5. CASE ReceiveLaterProbe(m) /\ UNCHANGED <<stage, nbrs, root>>
      <3>1. Post(Tail(queue), m.to, m.from, "seen", {}) /\ Accept(m)
        BY <2>5 DEF ReceiveLaterProbe
      <3> HIDE DEF m
      <3>2. queue' \in Seq(Messages) /\ sent' \in [Agents -> Nat]
        BY <2>1, <2>2, <3>1, PostType
      <3> QED BY <2>3, <2>5, <3>1, <3>2 DEF ReceiveLaterProbe, TypeOK
    <2>6. CASE ReceiveReturn(m) /\ UNCHANGED <<stage, nbrs, root>>
      <3>1. m.payload \in SUBSET Agents
        BY <2>1, <2>6 DEF ReceiveReturn, GoodReturn, Messages
      <3> HIDE DEF m
      <3> DEFINE sep == separator[m.to] \cup (m.payload \ {m.to})
      <3>2. /\ ancestors[m.to] \in Seq(Agents)
            /\ remaining[m.to] \in SUBSET Agents
            /\ sep \in SUBSET Agents
        BY <2>2, <3>1 DEF TypeOK
      <3>3. /\ Advance(Tail(queue), m.to, ancestors[m.to], remaining[m.to], sep)
            /\ Accept(m)
            /\ separator' = [separator EXCEPT ![m.to] = sep]
        BY <2>6 DEF ReceiveReturn
      <3> HIDE DEF sep
      <3>4. /\ phase' \in [Agents -> Phases]
            /\ pending' \in [Agents -> Agents \cup {NoAgent}]
            /\ remaining' \in [Agents -> SUBSET Agents]
            /\ queue' \in Seq(Messages)
            /\ sent' \in [Agents -> Nat]
        BY <2>1, <2>2, <3>2, <3>3, AdvanceType
      <3>5. children' \in [Agents -> Seq(Agents)]
        <4>1. Append(children[m.to], m.from) \in Seq(Agents)
          BY <2>2 DEF TypeOK
        <4> QED BY <2>6, <4>1 DEF ReceiveReturn, TypeOK
      <3>6. childSep' \in [Agents -> [Agents -> SUBSET Agents]]
        BY <2>2, <2>6, <3>1 DEF ReceiveReturn, TypeOK
      <3>7. separator' \in [Agents -> SUBSET Agents]
        BY <3>2, <3>3 DEF TypeOK
      <3> QED BY <2>3, <2>6, <3>3, <3>4, <3>5, <3>6, <3>7 DEF ReceiveReturn, TypeOK
    <2>7. CASE ReceiveSeen(m) /\ UNCHANGED <<stage, nbrs, root>>
      <3> HIDE DEF m
      <3>1. /\ ancestors[m.to] \in Seq(Agents)
            /\ remaining[m.to] \in SUBSET Agents
            /\ separator[m.to] \in SUBSET Agents
        BY <2>2 DEF TypeOK
      <3>2. /\ Advance(Tail(queue), m.to, ancestors[m.to], remaining[m.to],
                       separator[m.to])
            /\ Accept(m)
        BY <2>7 DEF ReceiveSeen
      <3>3. /\ phase' \in [Agents -> Phases]
            /\ pending' \in [Agents -> Agents \cup {NoAgent}]
            /\ remaining' \in [Agents -> SUBSET Agents]
            /\ queue' \in Seq(Messages)
            /\ sent' \in [Agents -> Nat]
        BY <2>1, <2>2, <3>1, <3>2, AdvanceType
      <3> QED BY <2>3, <2>7, <3>2, <3>3 DEF ReceiveSeen, TypeOK
    <2>8. CASE Reject /\ UNCHANGED <<nbrs, root>>
      BY <2>1, <2>8 DEF Reject, TypeOK, Stages
    <2> QED BY <1>2, <2>4, <2>5, <2>6, <2>7, <2>8 DEF Deliver, Receive, instance
  <1>3. CASE Prepare
    BY <1>3 DEF Prepare, Prepared, TypeOK, Stages, instance
  <1>4. CASE UNCHANGED dfsVars
    BY <1>4 DEF dfsVars, TypeOK
  <1> QED BY <1>1, <1>2, <1>3, <1>4 DEF DfsNext

(* The fields of the agents and of the transport always hold values of the   *)
(* types the code declares.                                                  *)
THEOREM TypeCorrect == DfsSpec => []TypeOK
  BY InitType, NextType, PTL DEF DfsSpec
-----------------------------------------------------------------------------
(* Paths.                                                                    *)

LEMMA ToSetIndex ==
    ASSUME NEW s \in Seq(Agents), NEW x
    PROVE  x \in ToSet(s) <=> \E i \in 1..Len(s) : s[i] = x
  BY DEF ToSet

LEMMA ToSetAppend ==
    ASSUME NEW s \in Seq(Agents), NEW x \in Agents
    PROVE  ToSet(Append(s, x)) = ToSet(s) \cup {x}
  <1>1. /\ Append(s, x) \in Seq(Agents)
        /\ Len(Append(s, x)) = Len(s) + 1
        /\ \A i \in 1..Len(s) : Append(s, x)[i] = s[i]
        /\ Append(s, x)[Len(s) + 1] = x
    BY AppendProperties
  <1>2. ASSUME NEW y
        PROVE  y \in ToSet(Append(s, x)) <=> y \in ToSet(s) \/ y = x
    <2>1. y \in ToSet(Append(s, x)) <=>
             \E i \in 1..Len(s) + 1 : Append(s, x)[i] = y
      BY <1>1, ToSetIndex
    <2>2. y \in ToSet(s) <=> \E i \in 1..Len(s) : s[i] = y
      BY ToSetIndex
    <2>3. Len(s) \in Nat
      OBVIOUS
    <2> QED BY <1>1, <2>1, <2>2, <2>3
  <1> QED BY <1>2

(* An agent is not on its own path, an agent on the path of b stands at the  *)
(* place of its depth, its path is what precedes it, and the path of b is    *)
(* ordered by it.                                                            *)
LEMMA Paths ==
    ASSUME NEW ph, NEW anc, Ancestry(ph, anc), NEW b \in Agents
    PROVE  /\ b \notin ToSet(anc[b])
           /\ \A x \in ToSet(anc[b]) :
                 /\ x \in Agents
                 /\ ph[x] # "new"
                 /\ ph[b] = "dfs" => ph[x] = "dfs"
                 /\ Len(anc[x]) + 1 \in 1..Len(anc[b])
                 /\ anc[b][Len(anc[x]) + 1] = x
                 /\ ToSet(anc[x]) \subseteq ToSet(anc[b])
                 /\ b \notin ToSet(anc[x])
           /\ \A x, y \in ToSet(anc[b]) :
                 x = y \/ x \in ToSet(anc[y]) \/ y \in ToSet(anc[x])
  <1>0. \A z \in Agents : anc[z] \in Seq(Agents) /\ Len(anc[z]) \in Nat
    BY DEF Ancestry
  <1>1. \A z \in Agents : \A i \in 1..Len(anc[z]) :
           /\ anc[z][i] \in Agents
           /\ ph[anc[z][i]] # "new"
           /\ ph[z] = "dfs" => ph[anc[z][i]] = "dfs"
           /\ Len(anc[anc[z][i]]) = i - 1
           /\ \A j \in 1..i - 1 : anc[anc[z][i]][j] = anc[z][j]
    BY <1>0 DEF Ancestry
  <1>2. \A z \in Agents : \A x :
           x \in ToSet(anc[z]) <=> \E i \in 1..Len(anc[z]) : anc[z][i] = x
    BY <1>0, ToSetIndex
  <1>3. \A z \in Agents : z \notin ToSet(anc[z])
    <2> SUFFICES ASSUME NEW z \in Agents, z \in ToSet(anc[z])
                 PROVE  FALSE
      OBVIOUS
    <2>1. PICK i \in 1..Len(anc[z]) : anc[z][i] = z
      BY <1>2
    <2>2. Len(anc[z]) = i - 1
      BY <1>1, <2>1
    <2> QED BY <2>2, <1>0
  <1>4. ASSUME NEW x \in ToSet(anc[b])
        PROVE  /\ x \in Agents
               /\ ph[x] # "new"
               /\ ph[b] = "dfs" => ph[x] = "dfs"
               /\ Len(anc[x]) + 1 \in 1..Len(anc[b])
               /\ anc[b][Len(anc[x]) + 1] = x
               /\ ToSet(anc[x]) \subseteq ToSet(anc[b])
               /\ b \notin ToSet(anc[x])
    <2>1. PICK i \in 1..Len(anc[b]) : anc[b][i] = x
      BY <1>2
    <2>2. /\ x \in Agents
          /\ ph[x] # "new"
          /\ ph[b] = "dfs" => ph[x] = "dfs"
          /\ Len(anc[x]) = i - 1
          /\ \A j \in 1..Len(anc[x]) : anc[x][j] = anc[b][j]
      BY <1>1, <2>1
    <2>3. ToSet(anc[x]) \subseteq ToSet(anc[b])
      <3> SUFFICES ASSUME NEW y \in ToSet(anc[x])
                   PROVE  y \in ToSet(anc[b])
        OBVIOUS
      <3>1. PICK j \in 1..Len(anc[x]) : anc[x][j] = y
        BY <1>2, <2>2
      <3>2. j \in 1..Len(anc[b]) /\ anc[b][j] = y
        BY <1>0, <2>2, <3>1
      <3> QED BY <1>2, <3>2
    <2> QED BY <1>0, <1>3, <2>1, <2>2, <2>3
  <1>5. ASSUME NEW x \in ToSet(anc[b]), NEW y \in ToSet(anc[b])
        PROVE  x = y \/ x \in ToSet(anc[y]) \/ y \in ToSet(anc[x])
    <2>1. PICK i \in 1..Len(anc[b]) : anc[b][i] = x
      BY <1>2
    <2>2. PICK j \in 1..Len(anc[b]) : anc[b][j] = y
      BY <1>2
    <2> x \in Agents /\ y \in Agents
      BY <1>4
    <2>3. CASE i < j
      <3>1. Len(anc[y]) = j - 1 /\ \A k \in 1..j - 1 : anc[y][k] = anc[b][k]
        BY <1>1, <2>2
      <3>2. i \in 1..Len(anc[y]) /\ anc[y][i] = x
        BY <1>0, <2>1, <2>3, <3>1
      <3> QED BY <1>2, <3>2
    <2>4. CASE j < i
      <3>1. Len(anc[x]) = i - 1 /\ \A k \in 1..i - 1 : anc[x][k] = anc[b][k]
        BY <1>1, <2>1
      <3>2. j \in 1..Len(anc[x]) /\ anc[x][j] = y
        BY <1>0, <2>2, <2>4, <3>1
      <3> QED BY <1>2, <3>2
    <2> QED BY <1>0, <2>1, <2>2, <2>3, <2>4
  <1> QED BY <1>3, <1>4, <1>5
(* The same facts by place.                                                  *)
LEMMA PathElements ==
    ASSUME NEW ph, NEW anc, Ancestry(ph, anc), NEW b \in Agents, NEW i \in 1..Len(anc[b])
    PROVE  /\ anc[b][i] \in Agents
           /\ anc[b][i] # b
           /\ anc[b][i] \in ToSet(anc[b])
           /\ ph[anc[b][i]] # "new"
           /\ Len(anc[anc[b][i]]) = i - 1
           /\ \A j \in 1..i - 1 : anc[anc[b][i]][j] = anc[b][j]
  <1>1. anc[b] \in Seq(Agents)
    BY DEF Ancestry
  <1>2. anc[b][i] \in Agents /\ anc[b][i] \in ToSet(anc[b])
    BY <1>1, ToSetIndex
  <1>3. anc[b][i] # b
    BY <1>2, Paths
  <1> QED BY <1>2, <1>3 DEF Ancestry

(* The parent of b: its path is the path of b without it.                    *)
IsParent(p, b, ph, anc) ==
    /\ p \in Agents
    /\ p # b
    /\ p \in ToSet(anc[b])
    /\ ph[p] # "new"
    /\ ph[b] = "dfs" => ph[p] = "dfs"
    /\ Len(anc[b]) \in Nat /\ Len(anc[b]) > 0
    /\ Len(anc[p]) = Len(anc[b]) - 1
    /\ \A j \in 1..Len(anc[p]) : anc[p][j] = anc[b][j]
    /\ \A x : x \in ToSet(anc[b]) <=> x \in ToSet(anc[p]) \/ x = p

LEMMA ParentPath ==
    ASSUME NEW ph, NEW anc, Ancestry(ph, anc), NEW b \in Agents, anc[b] # <<>>
    PROVE  IsParent(anc[b][Len(anc[b])], b, ph, anc)
  <1> DEFINE k == Len(anc[b])
             p == anc[b][k]
  <1>1. anc[b] \in Seq(Agents) /\ k \in Nat /\ k > 0
    BY DEF Ancestry
  <1>2. k \in 1..Len(anc[b])
    BY <1>1
  <1>3. /\ p \in Agents
        /\ p # b
        /\ p \in ToSet(anc[b])
        /\ ph[p] # "new"
        /\ Len(anc[p]) = k - 1
        /\ \A j \in 1..k - 1 : anc[p][j] = anc[b][j]
    <2>1. \A i \in 1..Len(anc[b]) :
             /\ anc[b][i] \in Agents
             /\ anc[b][i] # b
             /\ anc[b][i] \in ToSet(anc[b])
             /\ ph[anc[b][i]] # "new"
             /\ Len(anc[anc[b][i]]) = i - 1
             /\ \A j \in 1..i - 1 : anc[anc[b][i]][j] = anc[b][j]
      BY PathElements
    <2> QED BY <1>2, <2>1
  <1>4. ph[b] = "dfs" => ph[p] = "dfs"
    BY <1>3, Paths
  <1>5. ASSUME NEW x
        PROVE  x \in ToSet(anc[b]) <=> x \in ToSet(anc[p]) \/ x = p
    <2> HIDE DEF p
    <2>1. x \in ToSet(anc[b]) <=> \E i \in 1..k : anc[b][i] = x
      BY <1>1, ToSetIndex
    <2>2. x \in ToSet(anc[p]) <=> \E i \in 1..k - 1 : anc[p][i] = x
      <3>1. anc[p] \in Seq(Agents)
        BY <1>3 DEF Ancestry
      <3> HIDE DEF k
      <3> QED BY <1>3, <3>1, ToSetIndex
    <2>3. \A i \in 1..k : i = k \/ i \in 1..k - 1
      BY <1>1
    <2>4. \A i \in 1..k - 1 : i \in 1..k
      BY <1>1
    <2> HIDE DEF k
    <2>5. p = anc[b][k] /\ k \in 1..k
      BY <1>1 DEF p, k
    <2> QED BY <1>3, <2>1, <2>2, <2>3, <2>4, <2>5
  <1> QED BY <1>1, <1>3, <1>4, <1>5 DEF IsParent

-----------------------------------------------------------------------------
(* The second half of a step: the agent whose turn it is sends its message.  *)

(* The neighbour that is probed is either new or completed and below.        *)
LEMMA ProbeKeeps ==
    ASSUME TypeOK, Undirected,
           NEW ph, NEW anc, NEW rem, NEW pend, NEW ch, NEW sep,
           NEW a \in Agents, NEW R, NEW n \in R,
           Holding(nbrs, root, a, R, ph, anc, rem, pend, ch, sep),
           NEW rem2, rem2 = [rem EXCEPT ![a] = R \ {n}],
           NEW pend2, pend2 = [pend EXCEPT ![a] = n]
    PROVE  /\ a \in nbrs[n]
           /\ Probeable(n, a, ph, anc)
           /\ Awaits(nbrs, a, n, ph, anc, rem2, pend2)
  <1>1. n \in nbrs[a] /\ n \notin ToSet(anc[a]) /\ n \in Agents
    BY DEF Holding, OpenEdges, TypeOK
  <1>2. a \in nbrs[n] /\ n # a
    BY <1>1 DEF Undirected
  <1>3. ph[a] = "dfs" /\ ph[n] # "dfs"
    BY <1>1, <1>2 DEF Holding, Turn
  <1>4. ph[n] = "new" \/ (ph[n] = "ready" /\ a \in ToSet(anc[n]))
    <2>1. ph[n] \in Phases
      BY <1>1 DEF Holding, Ancestry
    <2>2. ASSUME ph[n] = "ready"
          PROVE  a \in ToSet(anc[n])
      <3>1. Covered(nbrs, n, ph, anc, {})
        BY <1>1, <2>2 DEF Holding, CompleteEdges
      <3> QED BY <1>2, <1>3, <3>1 DEF Covered
    <2> QED BY <1>3, <2>1, <2>2 DEF Phases
  <1>5. Turn(nbrs, a, ph, anc, rem2, pend2)
    <2>1. Turn(nbrs, a, ph, anc, rem, pend) /\ Ancestry(ph, anc)
      BY DEF Holding
    <2>2. \A i \in 1..Len(anc[a]) : anc[a][i] # a /\ anc[a][i] \in Agents
      BY <2>1, PathElements
    <2>3. \A b \in Agents : b # a => rem2[b] = rem[b] /\ pend2[b] = pend[b]
      BY <2>1 DEF Turn
    <2>4. R \in SUBSET Agents
      BY DEF Holding, OpenEdges, TypeOK
    <2>5. /\ rem2 \in [Agents -> SUBSET Agents]
          /\ pend2 \in [Agents -> Agents \cup {NoAgent}]
      BY <1>1, <2>1, <2>4 DEF Turn
    <2> QED BY <2>1, <2>2, <2>3, <2>5 DEF Turn
  <1>6. OpenEdges(nbrs, a, anc, R \ {n})
    BY DEF Holding, OpenEdges
  <1>7. Covered(nbrs, a, ph, anc, (R \ {n}) \cup {n})
    BY DEF Holding, Covered
  <1>8. rem2[a] = R \ {n} /\ pend2[a] = n
    BY DEF Holding, Turn
  <1> QED BY <1>2, <1>4, <1>5, <1>6, <1>7, <1>8 DEF Probeable, Awaits
(* The agent that completes leaves a tree that is still right.               *)
LEMMA CompleteTree ==
    ASSUME NEW ph, NEW anc, NEW rem, NEW pend, NEW ch, NEW sep,
           NEW a \in Agents, Holding(nbrs, root, a, {}, ph, anc, rem, pend, ch, sep),
           NEW ph2, ph2 = [ph EXCEPT ![a] = "ready"]
    PROVE  /\ Ancestry(ph2, anc)
           /\ Rooted(nbrs, root, ph2, anc)
           /\ CompleteEdges(nbrs, ph2, anc)
  <1>1. /\ Ancestry(ph, anc)
        /\ Rooted(nbrs, root, ph, anc)
        /\ CompleteEdges(nbrs, ph, anc)
        /\ Covered(nbrs, a, ph, anc, {})
        /\ ph[a] = "dfs"
        /\ \A b \in Agents : ph[b] = "dfs" => b = a \/ b \in ToSet(anc[a])
    BY DEF Holding, Turn
  <1>2. /\ ph \in [Agents -> Phases]
        /\ anc \in [Agents -> Seq(Agents)]
    BY <1>1 DEF Ancestry
  <1>3. /\ ph2 \in [Agents -> Phases]
        /\ \A b \in Agents : ph2[b] = IF b = a THEN "ready" ELSE ph[b]
    BY <1>2 DEF Phases
  <1>4. Ancestry(ph2, anc)
    <2>1. ASSUME NEW b \in Agents, ph2[b] = "new"
          PROVE  anc[b] = <<>>
      BY <1>1, <1>3, <2>1 DEF Ancestry
    <2>2. ASSUME NEW b \in Agents, NEW i \in 1..Len(anc[b])
          PROVE  /\ ph2[anc[b][i]] # "new"
                 /\ ph2[b] = "dfs" => ph2[anc[b][i]] = "dfs"
                 /\ Len(anc[anc[b][i]]) = i - 1
                 /\ \A j \in 1..i - 1 : anc[anc[b][i]][j] = anc[b][j]
      <3> DEFINE x == anc[b][i]
      <3>1. /\ x \in Agents
            /\ x \in ToSet(anc[b])
            /\ ph[x] # "new"
            /\ Len(anc[x]) = i - 1
            /\ \A j \in 1..i - 1 : anc[x][j] = anc[b][j]
        BY <1>1, PathElements
      <3>2. ph[b] = "dfs" => ph[x] = "dfs"
        BY <1>1 DEF Ancestry
      <3> HIDE DEF x
      <3>3. ASSUME ph2[b] = "dfs"
            PROVE  ph2[x] = "dfs"
        <4>1. b # a /\ ph[b] = "dfs"
          BY <1>3, <3>3
        <4>2. b \in ToSet(anc[a])
          BY <1>1, <4>1
        <4>3. a \notin ToSet(anc[b])
          BY <1>1, <4>2, Paths
        <4> QED BY <1>3, <3>1, <3>2, <4>1, <4>3
      <3>4. ph2[x] # "new"
        BY <1>3, <3>1
      <3> QED BY <3>1, <3>3, <3>4 DEF x
    <2> QED BY <1>2, <1>3, <2>1, <2>2 DEF Ancestry
  <1>5. Rooted(nbrs, root, ph2, anc)
    BY <1>1, <1>3 DEF Rooted
  <1>6. CompleteEdges(nbrs, ph2, anc)
    <2> SUFFICES ASSUME NEW b \in Agents, ph2[b] = "ready"
                 PROVE  Covered(nbrs, b, ph2, anc, {})
      BY DEF CompleteEdges
    <2>1. Covered(nbrs, b, ph, anc, {})
      BY <1>1, <1>3 DEF CompleteEdges
    <2>2. ASSUME NEW n, ph[n] = "ready", b \in ToSet(anc[n])
          PROVE  ph2[n] = "ready"
      BY <1>1, <1>2, <1>3, <2>2
    <2> QED BY <2>1, <2>2 DEF Covered
  <1> QED BY <1>4, <1>5, <1>6
(* Its parent is the one agent that does not know it as a child yet.         *)
LEMMA CompleteAdopted ==
    ASSUME NEW ph, NEW anc, NEW rem, NEW pend, NEW ch, NEW sep,
           NEW a \in Agents, Holding(nbrs, root, a, {}, ph, anc, rem, pend, ch, sep),
           NEW ph2, ph2 = [ph EXCEPT ![a] = "ready"]
    PROVE  Adopted(ph2, anc, ch, IF anc[a] = <<>> THEN {} ELSE {a})
  <1>1. /\ Ancestry(ph, anc)
        /\ Adopted(ph, anc, ch, {})
        /\ ph[a] = "dfs"
    BY DEF Holding, Turn
  <1>2. \A b \in Agents : ph2[b] = IF b = a THEN "ready" ELSE ph[b]
    BY <1>1 DEF Ancestry
  <1> QED BY <1>1, <1>2 DEF Adopted

(* Everything below an agent whose turn it is was reported to it by a child. *)
LEMMA BelowIsKnown ==
    ASSUME NEW ph, NEW anc, NEW rem, NEW pend, NEW ch,
           NEW a \in Agents, NEW d \in Agents,
           Ancestry(ph, anc), Turn(nbrs, a, ph, anc, rem, pend), Adopted(ph, anc, ch, {})
    PROVE  a \in ToSet(anc[d]) <=> \E c \in ToSet(ch[a]) : d = c \/ c \in ToSet(anc[d])
  <1>1. /\ ph[a] = "dfs"
        /\ \A b \in Agents : ph[b] = "dfs" => b = a \/ b \in ToSet(anc[a])
        /\ ph \in [Agents -> Phases]
        /\ anc \in [Agents -> Seq(Agents)]
    BY DEF Turn, Ancestry
  <1>2. \A c \in Agents : c \in ToSet(ch[a]) <=> /\ ph[c] = "ready"
                                                 /\ anc[c] # <<>>
                                                 /\ anc[c][Len(anc[c])] = a
    BY DEF Adopted
  <1>3. ASSUME NEW c \in ToSet(ch[a]), d = c \/ c \in ToSet(anc[d])
        PROVE  a \in ToSet(anc[d])
    <2>1. c \in Agents
      BY <1>3, Paths
    <2>2. anc[c] # <<>> /\ anc[c][Len(anc[c])] = a
      BY <1>2, <2>1
    <2>3. a \in ToSet(anc[c])
      BY <2>1, <2>2, ParentPath DEF IsParent
    <2> QED BY <1>3, <2>3, Paths
  <1>4. ASSUME a \in ToSet(anc[d])
        PROVE  \E c \in ToSet(ch[a]) : d = c \/ c \in ToSet(anc[d])
    <2>1. \A c \in Agents : a \in ToSet(anc[c]) => ph[c] \in Phases \ {"new", "dfs"}
      <3> SUFFICES ASSUME NEW c \in Agents, a \in ToSet(anc[c])
                   PROVE  ph[c] # "new" /\ ph[c] # "dfs"
        BY <1>1
      <3>1. anc[c] # <<>>
        BY DEF ToSet
      <3>2. a \notin ToSet(anc[a]) /\ \A b \in ToSet(anc[a]) : a \notin ToSet(anc[b])
        BY Paths
      <3> QED BY <1>1, <3>1, <3>2 DEF Ancestry
    <2>2. PICK i \in 1..Len(anc[d]) : anc[d][i] = a
      BY <1>1, <1>4, ToSetIndex
    <2>3. \A j \in 1..Len(anc[d]) :
             /\ anc[d][j] \in Agents
             /\ anc[d][j] \in ToSet(anc[d])
             /\ Len(anc[anc[d][j]]) = j - 1
             /\ \A k \in 1..j - 1 : anc[anc[d][j]][k] = anc[d][k]
      BY PathElements
    <2>4. Len(anc[d]) \in Nat
      BY <1>1
    <2>5. CASE i = Len(anc[d])
      <3>1. anc[d] # <<>> /\ anc[d][Len(anc[d])] = a /\ ph[d] = "ready"
        BY <1>1, <1>4, <2>1, <2>2, <2>4, <2>5 DEF Phases
      <3> QED BY <1>2, <3>1
    <2>6. CASE i # Len(anc[d])
      <3> DEFINE c == anc[d][i + 1]
      <3>1. i + 1 \in 1..Len(anc[d]) /\ i \in 1..(i + 1) - 1 /\ (i + 1) - 1 = i
        BY <2>2, <2>4, <2>6
      <3>2. /\ c \in Agents
            /\ c \in ToSet(anc[d])
            /\ Len(anc[c]) = i
            /\ anc[c][i] = a
        BY <2>2, <2>3, <3>1
      <3> HIDE DEF c
      <3>3. anc[c] # <<>> /\ anc[c][Len(anc[c])] = a
        BY <1>1, <2>2, <3>2
      <3>4. a \in ToSet(anc[c])
        BY <3>2, <3>3, ParentPath DEF IsParent
      <3>5. ph[c] = "ready"
        BY <2>1, <3>2, <3>4 DEF Phases
      <3> QED BY <1>2, <3>2, <3>3, <3>5
    <2> QED BY <2>5, <2>6
  <1> QED BY <1>3, <1>4

(* What it reports is the separator of its whole subtree.                    *)
LEMMA CompleteSeparated ==
    ASSUME NEW ph, NEW anc, NEW rem, NEW pend, NEW ch, NEW sep,
           NEW a \in Agents, Holding(nbrs, root, a, {}, ph, anc, rem, pend, ch, sep),
           NEW ph2, ph2 = [ph EXCEPT ![a] = "ready"]
    PROVE  Separated(nbrs, ph2, anc, ch, sep)
  <1>1. /\ Ancestry(ph, anc)
        /\ Turn(nbrs, a, ph, anc, rem, pend)
        /\ Adopted(ph, anc, ch, {})
        /\ Separated(nbrs, ph, anc, ch, sep)
        /\ ph[a] = "dfs"
    BY DEF Holding, Turn
  <1>2. \A b \in Agents : ph2[b] = IF b = a THEN "ready" ELSE ph[b]
    BY <1>1 DEF Ancestry
  <1>3. ASSUME NEW b \in Agents, NEW d \in Agents
        PROVE  Known(d, b, ph2, anc, ch) <=> Known(d, b, ph, anc, ch)
    <2>1. CASE b = a
      <3>1. a \in ToSet(anc[d]) <=>
               \E c \in ToSet(ch[a]) : d = c \/ c \in ToSet(anc[d])
        BY <1>1, BelowIsKnown
      <3> QED BY <1>1, <1>2, <2>1, <3>1 DEF Known
    <2>2. CASE b # a
      BY <1>2, <2>2 DEF Known
    <2> QED BY <2>1, <2>2
  <1>4. \A b \in Agents : ph2[b] # "new" => ph[b] # "new"
    BY <1>1, <1>2
  <1> QED BY <1>1, <1>3, <1>4 DEF Separated
HandsOver(a, p, ph, anc, rem, pend) ==
    /\ p \in Agents
    /\ a \in nbrs[p]
    /\ p \in ToSet(anc[a])
    /\ Awaits(nbrs, p, a, ph, anc, rem, pend)

(* The turn goes to its parent, which awaits it; the search is over when it  *)
(* has none.                                                                 *)
LEMMA CompleteTurn ==
    ASSUME Undirected, NEW ph, NEW anc, NEW rem, NEW pend, NEW ch, NEW sep,
           NEW a \in Agents, Holding(nbrs, root, a, {}, ph, anc, rem, pend, ch, sep),
           NEW ph2, ph2 = [ph EXCEPT ![a] = "ready"],
           NEW rem2, rem2 = [rem EXCEPT ![a] = {}],
           NEW pend2, pend2 = [pend EXCEPT ![a] = NoAgent]
    PROVE  /\ anc[a] = <<>> => \A b \in Agents : ph2[b] # "dfs"
           /\ anc[a] # <<>> => HandsOver(a, anc[a][Len(anc[a])], ph2, anc, rem2, pend2)
  <1>1. /\ Ancestry(ph, anc)
        /\ Rooted(nbrs, root, ph, anc)
        /\ Turn(nbrs, a, ph, anc, rem, pend)
        /\ ph[a] = "dfs"
        /\ \A b \in Agents : ph[b] = "dfs" => b = a \/ b \in ToSet(anc[a])
        /\ \A i \in 1..Len(anc[a]) :
              /\ pend[anc[a][i]] = IF i = Len(anc[a]) THEN a ELSE anc[a][i + 1]
              /\ OpenEdges(nbrs, anc[a][i], anc, rem[anc[a][i]])
              /\ Covered(nbrs, anc[a][i], ph, anc, rem[anc[a][i]] \cup {pend[anc[a][i]]})
    BY DEF Holding, Turn
  <1>2. /\ \A b \in Agents : ph2[b] = IF b = a THEN "ready" ELSE ph[b]
        /\ \A b \in Agents : b # a => rem2[b] = rem[b] /\ pend2[b] = pend[b]
        /\ rem2 \in [Agents -> SUBSET Agents]
        /\ pend2 \in [Agents -> Agents \cup {NoAgent}]
    BY <1>1 DEF Ancestry, Turn
  <1>3. CASE anc[a] = <<>>
    <2>1. ToSet(anc[a]) = {}
      BY <1>3 DEF ToSet
    <2> QED BY <1>1, <1>2, <1>3, <2>1
  <1>4. CASE anc[a] # <<>>
    <2> DEFINE p == anc[a][Len(anc[a])]
               k == Len(anc[a])
    <2>0. IsParent(p, a, ph, anc)
      BY <1>1, <1>4, ParentPath
    <2>1. /\ p \in Agents
          /\ p # a
          /\ p \in ToSet(anc[a])
          /\ ph[p] = "dfs"
          /\ k \in Nat /\ k > 0
          /\ Len(anc[p]) = k - 1
          /\ \A j \in 1..Len(anc[p]) : anc[p][j] = anc[a][j]
          /\ \A x : x \in ToSet(anc[a]) <=> x \in ToSet(anc[p]) \/ x = p
      BY <1>1, <2>0 DEF IsParent
    <2>2. a \in nbrs[p]
      <3>1. p \in nbrs[a]
        BY <1>1, <1>4 DEF Rooted
      <3> HIDE DEF p
      <3> QED BY <2>1, <3>1 DEF Undirected
    <2>3. \A i \in 1..k :
             /\ anc[a][i] \in Agents
             /\ anc[a][i] # a
      BY <1>1, PathElements
    <2>4. \A R : \A b \in Agents : Covered(nbrs, b, ph, anc, R) => Covered(nbrs, b, ph2, anc, R)
      <3>1. ASSUME NEW b \in Agents, NEW n, ph[n] = "ready", b \in ToSet(anc[n])
            PROVE  ph2[n] = "ready"
        BY <1>1, <1>2, <3>1 DEF Ancestry
      <3> QED BY <3>1 DEF Covered
    <2>5. p = anc[a][k] /\ k \in 1..Len(anc[a]) /\ k = Len(anc[a])
      BY <2>1
    <2> HIDE DEF p, k
    <2>6. /\ pend2[p] = a
          /\ OpenEdges(nbrs, p, anc, rem2[p])
          /\ Covered(nbrs, p, ph2, anc, rem2[p] \cup {a})
      BY <1>1, <1>2, <2>1, <2>4, <2>5
    <2>7. Turn(nbrs, p, ph2, anc, rem2, pend2)
      <3>1. \A b \in Agents : ph2[b] = "dfs" => b = p \/ b \in ToSet(anc[p])
        BY <1>1, <1>2, <2>1
      <3>2. ASSUME NEW i \in 1..Len(anc[p])
            PROVE  LET b == anc[p][i]
                   IN  /\ pend2[b] = IF i = Len(anc[p]) THEN p ELSE anc[p][i + 1]
                       /\ OpenEdges(nbrs, b, anc, rem2[b])
                       /\ Covered(nbrs, b, ph2, anc, rem2[b] \cup {pend2[b]})
        <4> DEFINE b == anc[p][i]
        <4>1. /\ i \in 1..Len(anc[a])
              /\ i # Len(anc[a])
              /\ b = anc[a][i]
              /\ i = Len(anc[p]) => anc[a][i + 1] = p
              /\ i # Len(anc[p]) => anc[a][i + 1] = anc[p][i + 1]
          <5>1. /\ k \in Nat
                /\ Len(anc[p]) = k - 1
                /\ k = Len(anc[a])
                /\ p = anc[a][k]
                /\ \A j \in 1..Len(anc[p]) : anc[p][j] = anc[a][j]
            BY <2>1, <2>5
          <5>2. CASE i = Len(anc[p])
            BY <5>1, <5>2
          <5>3. CASE i # Len(anc[p])
            <6>1. i + 1 \in 1..Len(anc[p])
              BY <5>1, <5>3
            <6> QED BY <5>1, <5>3, <6>1
          <5> QED BY <5>2, <5>3
        <4>2. b \in Agents /\ b # a
          BY <2>3, <2>5, <4>1
        <4>3. /\ pend[b] = anc[a][i + 1]
              /\ OpenEdges(nbrs, b, anc, rem[b])
              /\ Covered(nbrs, b, ph, anc, rem[b] \cup {pend[b]})
          BY <1>1, <4>1
        <4> HIDE DEF b
        <4>4. /\ pend2[b] = anc[a][i + 1]
              /\ OpenEdges(nbrs, b, anc, rem2[b])
              /\ Covered(nbrs, b, ph2, anc, rem2[b] \cup {pend2[b]})
          BY <1>2, <2>4, <4>2, <4>3
        <4> QED BY <4>1, <4>4 DEF b
      <3>3. ph2[p] = "dfs"
        BY <1>2, <2>1
      <3> QED BY <1>2, <3>1, <3>2, <3>3 DEF Turn
    <2> QED BY <1>4, <2>1, <2>2, <2>6, <2>7 DEF p, HandsOver, Awaits
  <1> QED BY <1>3, <1>4
(* One step seen from the agent that takes its turn: what it sends is true,  *)
(* and the tree is right.                                                    *)
LEMMA AdvanceKeeps ==
    ASSUME TypeOK, TypeOK', Undirected, nbrs' = nbrs, root' = root,
           NEW a \in Agents, NEW R \in SUBSET Agents,
           NEW ph, ph = [phase EXCEPT ![a] = "dfs"],
           Holding(nbrs, root, a, R, ph, ancestors', remaining, pending, children', separator'),
           Advance(<<>>, a, ancestors'[a], R, separator'[a])
    PROVE  /\ Ancestry(phase, ancestors)'
           /\ Rooted(nbrs, root, phase, ancestors)'
           /\ CompleteEdges(nbrs, phase, ancestors)'
           /\ Adopted(phase, ancestors, children, Late)'
           /\ Separated(nbrs, phase, ancestors, children, separator)'
           /\ InFlight'
           /\ phase'[a] # "new"
           /\ \A b \in Agents : b # a => phase'[b] = phase[b]
  <1>1. /\ Ancestry(ph, ancestors')
        /\ Rooted(nbrs, root, ph, ancestors')
        /\ CompleteEdges(nbrs, ph, ancestors')
        /\ Adopted(ph, ancestors', children', {})
        /\ Separated(nbrs, ph, ancestors', children', separator')
    BY DEF Holding
  <1>2. CASE Probe(<<>>, a, ancestors'[a], R)
    <2> DEFINE n == Min(R)
               m == [kind |-> "explore", from |-> a, to |-> n, seq |-> sent[a],
                     payload |-> Append(ancestors'[a], a)]
    <2>1. n \in R /\ n \in Agents
      BY <1>2, MinAgent DEF Probe
    <2>2. /\ phase' = ph
          /\ pending' = [pending EXCEPT ![a] = n]
          /\ remaining' = [remaining EXCEPT ![a] = R \ {n}]
          /\ queue' = <<m>>
      BY <1>2 DEF Probe, Post
    <2>3. /\ pending'[a] = n
          /\ remaining'[a] = R \ {n}
          /\ phase'[a] = "dfs"
      BY <2>2 DEF TypeOK
    <2> HIDE DEF n
    <2>4. /\ a \in nbrs[n]
          /\ Probeable(n, a, ph, ancestors')
          /\ Awaits(nbrs, a, n, ph, ancestors', remaining', pending')
      <3> HIDE DEF m
      <3>1. /\ n \in R
            /\ remaining' = [remaining EXCEPT ![a] = R \ {n}]
            /\ pending' = [pending EXCEPT ![a] = n]
        BY <2>1, <2>2
      <3>2. a \in nbrs[n]
        BY <3>1, ProbeKeeps
      <3>3. Probeable(n, a, ph, ancestors')
        BY <3>1, ProbeKeeps
      <3>4. Awaits(nbrs, a, n, ph, ancestors', remaining', pending')
        BY <3>1, ProbeKeeps
      <3> QED BY <3>2, <3>3, <3>4
    <2>5. /\ m.from = a /\ m.to = n /\ m.kind = "explore"
          /\ m.payload = Append(ancestors'[a], a)
      OBVIOUS
    <2> HIDE DEF m
    <2>6. Len(queue') = 1 /\ queue'[1] = m /\ queue' # <<>>
      BY <2>2
    <2>7. Truthful(queue[1])'
      BY <2>2, <2>3, <2>4, <2>5, <2>6 DEF Truthful
    <2>8. Late' = {}
      BY <2>5, <2>6 DEF Late
    <2>9. InFlight'
      BY <2>6, <2>7 DEF InFlight
    <2>10. Adopted(phase, ancestors, children, Late)'
      BY <1>1, <2>2, <2>8
    <2>11. /\ Ancestry(phase, ancestors)'
           /\ Rooted(nbrs, root, phase, ancestors)'
           /\ CompleteEdges(nbrs, phase, ancestors)'
           /\ Separated(nbrs, phase, ancestors, children, separator)'
      BY <1>1, <2>2 
    <2> QED BY <2>2, <2>3, <2>9, <2>10, <2>11 DEF TypeOK
  <1>3. CASE Complete(<<>>, a, ancestors'[a], R, separator'[a])
    <2>1. /\ R = {}
          /\ phase' = [ph EXCEPT ![a] = "ready"]
          /\ pending' = [pending EXCEPT ![a] = NoAgent]
          /\ remaining' = [remaining EXCEPT ![a] = {}]
          /\ phase'[a] = "ready"
          /\ \A b \in Agents : b # a => phase'[b] = phase[b]
      BY <1>3 DEF Complete, TypeOK
    <2>2. Holding(nbrs, root, a, {}, ph, ancestors', remaining, pending, children',
                  separator')
      BY <2>1
    <2>3. Ancestry(phase', ancestors')
      BY <2>1, <2>2, CompleteTree
    <2>4. Rooted(nbrs, root, phase', ancestors')
      BY <2>1, <2>2, CompleteTree
    <2>5. CompleteEdges(nbrs, phase', ancestors')
      BY <2>1, <2>2, CompleteTree
    <2>6. Separated(nbrs, phase', ancestors', children', separator')
      BY <2>1, <2>2, CompleteSeparated
    <2>7. Adopted(phase', ancestors', children',
                  IF ancestors'[a] = <<>> THEN {} ELSE {a})
      BY <2>1, <2>2, CompleteAdopted
    <2>8. CASE ancestors'[a] = <<>>
      <3>1. queue' = <<>>
        BY <1>3, <2>8 DEF Complete
      <3>2. Late' = {} /\ Len(queue') = 0
        BY <3>1 DEF Late
      <3>3. \A b \in Agents : phase'[b] # "dfs"
        <4>1. /\ phase' = [ph EXCEPT ![a] = "ready"]
              /\ remaining' = [remaining EXCEPT ![a] = {}]
              /\ pending' = [pending EXCEPT ![a] = NoAgent]
          BY <2>1
        <4> QED BY <2>2, <2>8, <4>1, CompleteTurn
      <3>4. InFlight'
        BY <3>1, <3>2, <3>3 DEF InFlight
      <3>5. Adopted(phase, ancestors, children, Late)'
        BY <2>7, <2>8, <3>2
      <3> QED BY <2>1, <2>3, <2>4, <2>5, <2>6, <3>4, <3>5
    <2>9. CASE ancestors'[a] # <<>>
      <3> DEFINE p == ancestors'[a][Len(ancestors'[a])]
                 m == [kind |-> "return", from |-> a, to |-> p, seq |-> sent[a],
                       payload |-> separator'[a]]
      <3>1. queue' = <<m>>
        BY <1>3, <2>9 DEF Complete, Post, Last
      <3>2. /\ m.from = a /\ m.to = p /\ m.kind = "return"
            /\ m.payload = separator'[a]
        OBVIOUS
      <3>3. HandsOver(a, p, phase', ancestors', remaining', pending')
        <4>1. /\ phase' = [ph EXCEPT ![a] = "ready"]
              /\ remaining' = [remaining EXCEPT ![a] = {}]
              /\ pending' = [pending EXCEPT ![a] = NoAgent]
          BY <2>1
        <4> HIDE DEF m
        <4> QED BY <2>2, <2>9, <4>1, CompleteTurn
      <3> HIDE DEF m
      <3>4. Len(queue') = 1 /\ queue'[1] = m /\ queue' # <<>>
        BY <3>1
      <3>5. m.to = ancestors'[a][Len(ancestors'[a])]
        BY <3>2
      <3> HIDE DEF p
      <3>6. Truthful(queue[1])'
        BY <2>1, <3>2, <3>3, <3>4, <3>5 DEF Truthful, Above, HandsOver
      <3>7. Late' = {a}
        BY <3>2, <3>4 DEF Late
      <3>8. InFlight'
        BY <3>4, <3>6 DEF InFlight
      <3>9. Adopted(phase, ancestors, children, Late)'
        BY <2>7, <2>9, <3>7
      <3> QED BY <2>1, <2>3, <2>4, <2>5, <2>6, <3>8, <3>9
    <2> QED BY <2>8, <2>9
  <1> QED BY <1>2, <1>3 DEF Advance
-----------------------------------------------------------------------------
(* The first half of a step: an agent takes its message in.                  *)

(* A new agent entered by x joins the tree below x.                          *)
LEMMA EnterHolds ==
    ASSUME TreeInv, Late = {}, phase[root] # "new",
           NEW x \in Agents, NEW a \in Agents, x \in nbrs[a], phase[a] = "new",
           Awaits(nbrs, x, a, phase, ancestors, remaining, pending),
           NEW path, path = Append(ancestors[x], x),
           NEW ph, ph = [phase EXCEPT ![a] = "dfs"],
           NEW anc, anc = [ancestors EXCEPT ![a] = path],
           NEW sep, sep = [separator EXCEPT ![a] = nbrs[a] \cap ToSet(path)]
    PROVE  Holding(nbrs, root, a, nbrs[a] \ ToSet(path), ph, anc, remaining,
                   pending, children, sep)
  <1>1. /\ Turn(nbrs, x, phase, ancestors, remaining, pending)
        /\ pending[x] = a
        /\ OpenEdges(nbrs, x, ancestors, remaining[x])
        /\ Covered(nbrs, x, phase, ancestors, remaining[x] \cup {a})
        /\ phase[x] = "dfs"
        /\ \A b \in Agents : phase[b] = "dfs" => b = x \/ b \in ToSet(ancestors[x])
    BY DEF Awaits, Turn
  <1>2. /\ path \in Seq(Agents)
        /\ path # <<>>
        /\ Len(path) = Len(ancestors[x]) + 1
        /\ Len(ancestors[x]) \in Nat
        /\ \A i \in 1..Len(ancestors[x]) : path[i] = ancestors[x][i]
        /\ path[Len(path)] = x
        /\ ToSet(path) = ToSet(ancestors[x]) \cup {x}
    <2>1. ancestors[x] \in Seq(Agents)
      BY DEF TreeInv, TypeOK
    <2>2. ToSet(path) = ToSet(ancestors[x]) \cup {x}
      BY <2>1, ToSetAppend
    <2>3. /\ path \in Seq(Agents)
          /\ path # <<>>
          /\ Len(path) = Len(ancestors[x]) + 1
          /\ Len(ancestors[x]) \in Nat
          /\ \A i \in 1..Len(ancestors[x]) : path[i] = ancestors[x][i]
          /\ path[Len(ancestors[x]) + 1] = x
      BY <2>1, AppendProperties
    <2> QED BY <2>2, <2>3
  <1>3. /\ \A b \in Agents : ph[b] = IF b = a THEN "dfs" ELSE phase[b]
        /\ \A b \in Agents : anc[b] = IF b = a THEN path ELSE ancestors[b]
        /\ \A b \in Agents : sep[b] = IF b = a THEN nbrs[a] \cap ToSet(path)
                                      ELSE separator[b]
        /\ ph \in [Agents -> Phases]
        /\ anc \in [Agents -> Seq(Agents)]
    BY <1>2 DEF TreeInv, TypeOK, Phases
  <1>4. /\ ancestors[a] = <<>>
        /\ \A b \in Agents : ancestors[b] = <<>> => ToSet(ancestors[b]) = {}
    BY DEF TreeInv, Ancestry, ToSet
  <1>5. \A b \in ToSet(path) : b \in Agents /\ phase[b] = "dfs" /\ b # a
    <2>1. \A b \in ToSet(ancestors[x]) :
             b \in Agents /\ (phase[x] = "dfs" => phase[b] = "dfs")
      BY Paths DEF TreeInv
    <2> QED BY <1>1, <1>2, <2>1
  <1>6. \A b \in Agents : a \notin ToSet(ancestors[b])
    BY Paths DEF TreeInv
  <1>7. \A b \in Agents : phase[b] = "dfs" => b \in ToSet(path)
    BY <1>1, <1>2
  <1>8. \A b \in Agents : \A i \in 1..Len(ancestors[b]) :
           /\ ancestors[b][i] \in Agents
           /\ ancestors[b][i] \in ToSet(ancestors[b])
    BY PathElements DEF TreeInv
  <1>9. Ancestry(ph, anc)
    <2>1. ASSUME NEW b \in Agents, ph[b] = "new"
          PROVE  anc[b] = <<>>
      BY <1>3, <2>1 DEF TreeInv, Ancestry
    <2>2. ASSUME NEW b \in Agents, NEW i \in 1..Len(anc[b])
          PROVE  /\ ph[anc[b][i]] # "new"
                 /\ ph[b] = "dfs" => ph[anc[b][i]] = "dfs"
                 /\ Len(anc[anc[b][i]]) = i - 1
                 /\ \A j \in 1..i - 1 : anc[anc[b][i]][j] = anc[b][j]
      <3>1. CASE b # a
        <4>1. anc[b] = ancestors[b] /\ ph[b] = phase[b]
          BY <1>3, <3>1
        <4>2. ancestors[b][i] \in Agents /\ ancestors[b][i] # a
          BY <1>6, <1>8, <2>2, <4>1
        <4>3. /\ phase[ancestors[b][i]] # "new"
              /\ phase[b] = "dfs" => phase[ancestors[b][i]] = "dfs"
              /\ Len(ancestors[ancestors[b][i]]) = i - 1
              /\ \A j \in 1..i - 1 : ancestors[ancestors[b][i]][j] = ancestors[b][j]
          BY <2>2, <4>1 DEF TreeInv, Ancestry
        <4>4. /\ ph[ancestors[b][i]] = phase[ancestors[b][i]]
              /\ anc[ancestors[b][i]] = ancestors[ancestors[b][i]]
          BY <1>3, <4>2
        <4> QED BY <4>1, <4>3, <4>4
      <3>2. CASE b = a /\ i = Len(path)
        <4>1. anc[b][i] = x /\ x # a
          BY <1>1, <1>2, <1>3, <3>2
        <4>2. anc[x] = ancestors[x] /\ ph[x] = "dfs"
          BY <1>1, <1>3, <4>1
        <4> QED BY <1>2, <1>3, <3>2, <4>1, <4>2
      <3>3. CASE b = a /\ i # Len(path)
        <4>1. i \in 1..Len(ancestors[x]) /\ anc[b][i] = ancestors[x][i]
          BY <1>2, <1>3, <3>3
        <4> DEFINE y == ancestors[x][i]
        <4>2. /\ y \in Agents
              /\ y \in ToSet(path)
              /\ Len(ancestors[y]) = i - 1
              /\ \A j \in 1..i - 1 : ancestors[y][j] = ancestors[x][j]
          BY <1>2, <1>8, <4>1 DEF TreeInv, Ancestry
        <4> HIDE DEF y
        <4>3. ph[y] = "dfs" /\ anc[y] = ancestors[y]
          BY <1>3, <1>5, <4>2
        <4>4. \A j \in 1..i - 1 : anc[b][j] = ancestors[x][j]
          BY <1>2, <1>3, <3>3, <4>1
        <4> QED BY <4>1, <4>2, <4>3, <4>4 DEF y
      <3> QED BY <3>1, <3>2, <3>3
    <2> QED BY <1>3, <2>1, <2>2 DEF Ancestry
  <1>10. Rooted(nbrs, root, ph, anc)
    BY <1>2, <1>3 DEF TreeInv, Rooted
  <1>11. \A R : \A b \in Agents :
            Covered(nbrs, b, phase, ancestors, R) /\ b # a
               => Covered(nbrs, b, ph, anc, R)
    <2>1. \A n \in Agents : phase[n] = "ready" => ph[n] = "ready" /\ anc[n] = ancestors[n]
      BY <1>3
    <2> QED BY <1>3, <2>1 DEF Covered, TreeInv, TypeOK
  <1>12. CompleteEdges(nbrs, ph, anc)
    BY <1>3, <1>11 DEF TreeInv, CompleteEdges
  <1>13. Turn(nbrs, a, ph, anc, remaining, pending)
    <2>1. \A b \in Agents : ph[b] = "dfs" => b = a \/ b \in ToSet(anc[a])
      BY <1>3, <1>7
    <2>2. ASSUME NEW i \in 1..Len(anc[a])
          PROVE  LET b == anc[a][i]
                 IN  /\ pending[b] = IF i = Len(anc[a]) THEN a ELSE anc[a][i + 1]
                     /\ OpenEdges(nbrs, b, anc, remaining[b])
                     /\ Covered(nbrs, b, ph, anc, remaining[b] \cup {pending[b]})
      <3> DEFINE b == anc[a][i]
      <3>1. anc[a] = path
        BY <1>3
      <3>2. CASE i = Len(path)
        <4>1. b = x
          BY <1>2, <3>1, <3>2
        <4>2. x # a
          BY <1>1
        <4>3. anc[x] = ancestors[x]
          BY <1>3, <4>2
        <4>4. OpenEdges(nbrs, x, anc, remaining[x])
          BY <1>1, <4>3 DEF OpenEdges
        <4>5. Covered(nbrs, x, ph, anc, remaining[x] \cup {a})
          BY <1>1, <1>11, <4>2
        <4> HIDE DEF b
        <4>6. /\ pending[b] = IF i = Len(anc[a]) THEN a ELSE anc[a][i + 1]
              /\ OpenEdges(nbrs, b, anc, remaining[b])
              /\ Covered(nbrs, b, ph, anc, remaining[b] \cup {pending[b]})
          BY <1>1, <3>1, <3>2, <4>1, <4>4, <4>5
        <4> QED BY <4>6 DEF b
      <3>3. CASE i # Len(path)
        <4>1. /\ i \in 1..Len(ancestors[x])
              /\ b = ancestors[x][i]
          BY <1>2, <3>1, <3>3
        <4>2. path[i + 1] = IF i = Len(ancestors[x]) THEN x ELSE ancestors[x][i + 1]
          <5>1. CASE i = Len(ancestors[x])
            BY <1>2, <5>1
          <5>2. CASE i # Len(ancestors[x])
            <6>1. i + 1 \in 1..Len(ancestors[x])
              BY <1>2, <4>1, <5>2
            <6> QED BY <1>2, <5>2, <6>1
          <5> QED BY <5>1, <5>2
        <4>3. b \in Agents /\ b # a
          BY <1>6, <1>8, <4>1
        <4>4. /\ pending[b] = path[i + 1]
              /\ OpenEdges(nbrs, b, ancestors, remaining[b])
              /\ Covered(nbrs, b, phase, ancestors, remaining[b] \cup {pending[b]})
          BY <1>1, <4>1, <4>2 DEF Turn
        <4> HIDE DEF b
        <4>5. /\ OpenEdges(nbrs, b, anc, remaining[b])
              /\ Covered(nbrs, b, ph, anc, remaining[b] \cup {pending[b]})
          BY <1>3, <1>11, <4>3, <4>4 DEF OpenEdges
        <4> QED BY <3>1, <3>3, <4>4, <4>5 DEF b
      <3> QED BY <3>2, <3>3
    <2> QED BY <1>3, <2>1, <2>2 DEF Turn, TreeInv, TypeOK
  <1>14. /\ OpenEdges(nbrs, a, anc, nbrs[a] \ ToSet(path))
         /\ Covered(nbrs, a, ph, anc, nbrs[a] \ ToSet(path))
    BY <1>3 DEF OpenEdges, Covered
  <1>15. Adopted(ph, anc, children, {})
    <2>1. Adopted(phase, ancestors, children, {})
      BY DEF TreeInv
    <2> QED BY <1>3, <2>1 DEF Adopted
  <1>16. Separated(nbrs, ph, anc, children, sep)
    <2>1. \A b, c \in Agents : c \in ToSet(children[b]) =>
             /\ phase[c] = "ready"
             /\ ancestors[c] # <<>>
             /\ b = ancestors[c][Len(ancestors[c])]
      BY DEF TreeInv, Adopted
    <2>2. \A b \in Agents : \A c \in ToSet(children[b]) : c \in Agents
      <3>1. \A b \in Agents : children[b] \in Seq(Agents)
        BY DEF TreeInv, TypeOK
      <3> QED BY <3>1, ToSetIndex
    <2>3. ASSUME NEW b \in Agents, b # a, NEW d \in Agents
          PROVE  Known(d, b, ph, anc, children)
                    <=> Known(d, b, phase, ancestors, children)
      BY <1>3, <1>4, <1>5, <2>1, <2>2, <2>3 DEF Known
    <2>4. ASSUME NEW d \in Agents
          PROVE  Known(d, a, ph, anc, children) <=> d = a
      <3>1. ToSet(children[a]) = {}
        <4> SUFFICES ASSUME NEW c \in ToSet(children[a])
                     PROVE  FALSE
          OBVIOUS
        <4>1. c \in Agents /\ ancestors[c] # <<>> /\ a = ancestors[c][Len(ancestors[c])]
          BY <2>1, <2>2
        <4>2. a \in ToSet(ancestors[c])
          BY <4>1, ParentPath DEF IsParent, TreeInv
        <4> QED BY <1>6, <4>1, <4>2
      <3> QED BY <1>3, <3>1 DEF Known
    <2>5. ASSUME NEW b \in Agents, ph[b] # "new", NEW n \in Agents
          PROVE  n \in sep[b] <=>
                    /\ n \in ToSet(anc[b])
                    /\ \E d \in Agents : Known(d, b, ph, anc, children)
                                         /\ n \in nbrs[d]
      <3>1. CASE b = a
        <4>1. (\E d \in Agents : Known(d, a, ph, anc, children) /\ n \in nbrs[d])
                 <=> n \in nbrs[a]
          BY <2>4
        <4>2. sep[b] = nbrs[a] \cap ToSet(path) /\ anc[b] = path
          BY <1>3, <3>1
        <4>3. n \in sep[b] <=> n \in ToSet(anc[b]) /\ n \in nbrs[a]
          BY <4>2
        <4>4. n \in nbrs[a] <=> \E d \in Agents : Known(d, b, ph, anc, children)
                                                  /\ n \in nbrs[d]
          BY <3>1, <4>1
        <4> QED BY <4>3, <4>4
      <3>2. CASE b # a
        <4>1. n \in separator[b] <=>
                 /\ n \in ToSet(ancestors[b])
                 /\ \E d \in Agents : Known(d, b, phase, ancestors, children)
                                      /\ n \in nbrs[d]
          BY <1>3, <2>5, <3>2 DEF TreeInv, Separated
        <4> QED BY <1>3, <2>3, <3>2, <4>1
      <3> QED BY <3>1, <3>2
    <2> QED BY <2>5 DEF Separated
  <1> QED BY <1>9, <1>10, <1>12, <1>13, <1>14, <1>15, <1>16 DEF Holding
(* The root enters a graph in which every agent is new.                      *)
LEMMA StartHolds ==
    ASSUME TreeInv, Late = {}, \A b \in Agents : phase[b] = "new",
           NEW ph, ph = [phase EXCEPT ![root] = "dfs"],
           NEW anc, anc = [ancestors EXCEPT ![root] = <<>>],
           NEW sep, sep = [separator EXCEPT ![root] = nbrs[root] \cap ToSet(<<>>)]
    PROVE  Holding(nbrs, root, root, nbrs[root] \ ToSet(<<>>), ph, anc, remaining,
                   pending, children, sep)
  <1>1. /\ root \in Agents
        /\ \A b \in Agents : nbrs[b] \subseteq Agents
        /\ remaining \in [Agents -> SUBSET Agents]
        /\ pending \in [Agents -> Agents \cup {NoAgent}]
    BY DEF TreeInv, TypeOK
  <1>2. \A b \in Agents : ancestors[b] = <<>>
    BY DEF TreeInv, Ancestry
  <1>3. /\ \A b \in Agents : ph[b] = IF b = root THEN "dfs" ELSE "new"
        /\ ph \in [Agents -> Phases]
    BY <1>1 DEF TreeInv, TypeOK, Phases
  <1>4. anc \in [Agents -> Seq(Agents)] /\ \A b \in Agents : anc[b] = <<>>
    BY <1>1, <1>2 DEF TreeInv, TypeOK
  <1>5. ToSet(<<>>) = {}
    BY DEF ToSet
  <1>6. \A b \in Agents : ToSet(anc[b]) = {} /\ Len(anc[b]) = 0
    BY <1>4, <1>5
  <1>7. sep[root] = {}
    BY <1>1, <1>5 DEF TreeInv, TypeOK
  <1>8. Ancestry(ph, anc)
    BY <1>3, <1>4, <1>6 DEF Ancestry
  <1>9. Rooted(nbrs, root, ph, anc)
    BY <1>3, <1>4 DEF Rooted
  <1>10. CompleteEdges(nbrs, ph, anc)
    BY <1>3 DEF CompleteEdges
  <1>11. Turn(nbrs, root, ph, anc, remaining, pending)
    BY <1>1, <1>3, <1>6 DEF Turn
  <1>12. /\ OpenEdges(nbrs, root, anc, nbrs[root] \ ToSet(<<>>))
         /\ Covered(nbrs, root, ph, anc, nbrs[root] \ ToSet(<<>>))
    BY <1>1, <1>5, <1>6 DEF OpenEdges, Covered
  <1>13. Adopted(ph, anc, children, {})
    BY <1>3, <1>4 DEF TreeInv, Adopted
  <1>14. Separated(nbrs, ph, anc, children, sep)
    BY <1>3, <1>6, <1>7 DEF Separated
  <1> QED BY <1>8, <1>9, <1>10, <1>11, <1>12, <1>13, <1>14 DEF Holding

(* The answer of n, which has completed below a, leaves a with what it has   *)
(* not probed.                                                               *)
LEMMA AnswerCovers ==
    ASSUME NEW a \in Agents, NEW n, phase[n] = "ready", a \in ToSet(ancestors[n]),
           Awaits(nbrs, a, n, phase, ancestors, remaining, pending)
    PROVE  /\ Turn(nbrs, a, phase, ancestors, remaining, pending)
           /\ OpenEdges(nbrs, a, ancestors, remaining[a])
           /\ Covered(nbrs, a, phase, ancestors, remaining[a])
  BY DEF Awaits, Covered

(* A SEEN changes nothing but the turn.                                      *)
LEMMA SeenHolds ==
    ASSUME TreeInv, Late = {}, NEW a \in Agents, NEW n, phase[n] = "ready",
           a \in ToSet(ancestors[n]),
           Awaits(nbrs, a, n, phase, ancestors, remaining, pending)
    PROVE  Holding(nbrs, root, a, remaining[a], phase, ancestors, remaining, pending,
                   children, separator)
  BY AnswerCovers DEF TreeInv, Holding

(* A RETURN makes its sender a child and adds its separator.                 *)
LEMMA ReturnHolds ==
    ASSUME TreeInv, NEW a \in Agents, NEW n \in Agents, Late = {n},
           phase[n] = "ready", a \in ToSet(ancestors[n]),
           a = ancestors[n][Len(ancestors[n])],
           Awaits(nbrs, a, n, phase, ancestors, remaining, pending),
           NEW ch, ch = [children EXCEPT ![a] = Append(children[a], n)],
           NEW sep,
           sep = [separator EXCEPT ![a] = separator[a] \cup (separator[n] \ {a})]
    PROVE  Holding(nbrs, root, a, remaining[a], phase, ancestors, remaining, pending,
                   ch, sep)
  <1>1. /\ Ancestry(phase, ancestors)
        /\ phase[a] = "dfs"
        /\ ancestors[n] # <<>>
    BY DEF TreeInv, Awaits, Turn, ToSet
  <1>2. IsParent(a, n, phase, ancestors)
    BY <1>1, ParentPath
  <1>3. /\ n \notin ToSet(children[a])
        /\ IsInjective(children[a])
        /\ children[a] \in Seq(Agents)
    BY DEF TreeInv, Adopted, TypeOK
  <1>4. /\ ch[a] = Append(children[a], n)
        /\ ToSet(ch[a]) = ToSet(children[a]) \cup {n}
        /\ \A b \in Agents : b # a => ch[b] = children[b]
    BY <1>3, ToSetAppend DEF TreeInv, TypeOK
  <1>5. /\ sep[a] = separator[a] \cup (separator[n] \ {a})
        /\ \A b \in Agents : b # a => sep[b] = separator[b]
    BY DEF TreeInv, TypeOK
  <1>6. Adopted(phase, ancestors, ch, {})
    <2>1. IsInjective(ch[a])
      <3>1. /\ Len(ch[a]) = Len(children[a]) + 1
            /\ Len(children[a]) \in Nat
            /\ DOMAIN ch[a] = 1..Len(ch[a])
            /\ DOMAIN children[a] = 1..Len(children[a])
            /\ \A i \in 1..Len(children[a]) : ch[a][i] = children[a][i]
            /\ ch[a][Len(children[a]) + 1] = n
        BY <1>3, <1>4, AppendProperties
      <3>2. \A i \in 1..Len(children[a]) : children[a][i] # n
        BY <1>3, ToSetIndex
      <3>3. \A i, j \in 1..Len(children[a]) :
               children[a][i] = children[a][j] => i = j
        BY <1>3, <3>1 DEF IsInjective
      <3>4. \A i \in DOMAIN ch[a] : i \in 1..Len(children[a]) \/ i = Len(children[a]) + 1
        BY <3>1
      <3> QED BY <3>1, <3>2, <3>3, <3>4 DEF IsInjective
    <2>2. \A b \in Agents : IsInjective(ch[b])
      BY <1>4, <2>1 DEF TreeInv, Adopted
    <2>3. ASSUME NEW b \in Agents, NEW c \in Agents
          PROVE  c \in ToSet(ch[b]) <=> /\ phase[c] = "ready"
                                        /\ ancestors[c] # <<>>
                                        /\ ancestors[c][Len(ancestors[c])] = b
                                        /\ c \notin {}
      <3>1. c \in ToSet(children[b]) <=> /\ phase[c] = "ready"
                                         /\ ancestors[c] # <<>>
                                         /\ ancestors[c][Len(ancestors[c])] = b
                                         /\ c \notin {n}
        BY DEF TreeInv, Adopted
      <3> QED BY <1>1, <1>4, <3>1
    <2> QED BY <2>2, <2>3 DEF Adopted
  <1>7. Separated(nbrs, phase, ancestors, ch, sep)
    <2>1. \A b, d \in Agents : b # a =>
             (Known(d, b, phase, ancestors, ch)
                <=> Known(d, b, phase, ancestors, children))
      BY <1>4 DEF Known
    <2>2. \A d \in Agents :
             Known(d, a, phase, ancestors, ch)
                <=> \/ Known(d, a, phase, ancestors, children)
                    \/ Known(d, n, phase, ancestors, children)
      BY <1>1, <1>4 DEF Known
    <2>3. ASSUME NEW m \in Agents
          PROVE  m \in sep[a] <=>
                    /\ m \in ToSet(ancestors[a])
                    /\ \E d \in Agents : Known(d, a, phase, ancestors, ch)
                                         /\ m \in nbrs[d]
      <3>1. m \in separator[a] <=>
               /\ m \in ToSet(ancestors[a])
               /\ \E d \in Agents : Known(d, a, phase, ancestors, children)
                                    /\ m \in nbrs[d]
        BY <1>1 DEF TreeInv, Separated
      <3>2. m \in separator[n] <=>
               /\ m \in ToSet(ancestors[n])
               /\ \E d \in Agents : Known(d, n, phase, ancestors, children)
                                    /\ m \in nbrs[d]
        BY DEF TreeInv, Separated
      <3>3. m \in ToSet(ancestors[n]) /\ m # a <=> m \in ToSet(ancestors[a])
        BY <1>1, <1>2, Paths DEF IsParent
      <3> QED BY <1>5, <2>2, <3>1, <3>2, <3>3
    <2>4. ASSUME NEW b \in Agents, phase[b] # "new", NEW m \in Agents
          PROVE  m \in sep[b] <=>
                    /\ m \in ToSet(ancestors[b])
                    /\ \E d \in Agents : Known(d, b, phase, ancestors, ch)
                                         /\ m \in nbrs[d]
      <3>1. CASE b = a
        BY <2>3, <3>1
      <3>2. CASE b # a
        <4>1. m \in separator[b] <=>
                 /\ m \in ToSet(ancestors[b])
                 /\ \E d \in Agents : Known(d, b, phase, ancestors, children)
                                      /\ m \in nbrs[d]
          BY <2>4 DEF TreeInv, Separated
        <4> QED BY <1>5, <2>1, <3>2, <4>1
      <3> QED BY <3>1, <3>2
    <2> QED BY <2>4 DEF Separated
  <1>8. /\ Turn(nbrs, a, phase, ancestors, remaining, pending)
        /\ OpenEdges(nbrs, a, ancestors, remaining[a])
        /\ Covered(nbrs, a, phase, ancestors, remaining[a])
    BY AnswerCovers
  <1> QED BY <1>6, <1>7, <1>8 DEF TreeInv, Holding
-----------------------------------------------------------------------------
(* Delivery.                                                                 *)

(* A key is given to one message and accepted once.                          *)
LEMMA FreshKept ==
    ASSUME TypeOK, TypeOK', FreshKeys, queue # <<>> => Len(queue) = 1,
           \/ received' = received
           \/ queue # <<>> /\ Accept(queue[1]),
           \/ queue' = <<>> /\ sent' = sent
           \/ \E a \in Agents, to \in Agents : \E kind, payload :
                 Post(<<>>, a, to, kind, payload)
    PROVE  FreshKeys'
  <1>1. \A b \in Agents : sent[b] \in Nat /\ sent'[b] \in Nat
    BY DEF TypeOK
  <1>2. \A b \in Agents : sent[b] <= sent'[b]
    <2>1. CASE sent' = sent
      BY <1>1, <2>1
    <2>2. ASSUME NEW a \in Agents, NEW to, NEW kind, NEW payload,
                 Post(<<>>, a, to, kind, payload)
          PROVE  \A b \in Agents : sent[b] <= sent'[b]
      <3>1. \A b \in Agents : sent'[b] = IF b = a THEN sent[b] + 1 ELSE sent[b]
        BY <2>2 DEF Post, TypeOK
      <3> QED BY <1>1, <3>1
    <2> QED BY <2>1, <2>2
  <1>3. ASSUME NEW b \in Agents, NEW key \in received'[b]
        PROVE  key[1] \in Agents /\ key[2] \in Nat /\ key[2] < sent[key[1]]
    <2>1. received'[b] \subseteq Agents \X Nat
      BY DEF TypeOK
    <2>2. key[1] \in Agents /\ key[2] \in Nat
      BY <1>3, <2>1
    <2>3. CASE key \in received[b]
      BY <2>2, <2>3 DEF FreshKeys
    <2>4. CASE key \notin received[b]
      <3>1. queue # <<>> /\ Accept(queue[1])
        BY <1>3, <2>4
      <3>2. key = Key(queue[1])
        BY <1>3, <2>4, <3>1 DEF Accept, TypeOK
      <3>3. 1 \in 1..Len(queue)
        BY <3>1
      <3> QED BY <2>2, <3>2, <3>3 DEF FreshKeys, Key
    <2> QED BY <2>3, <2>4
  <1>4. \A b \in Agents : \A key \in received'[b] : key[2] < sent'[key[1]]
    <2> SUFFICES ASSUME NEW b \in Agents, NEW key \in received'[b]
                 PROVE  key[2] < sent'[key[1]]
      OBVIOUS
    <2>1. key[1] \in Agents /\ key[2] \in Nat /\ key[2] < sent[key[1]]
      BY <1>3
    <2>2. sent[key[1]] <= sent'[key[1]]
      BY <1>2, <2>1
    <2> QED BY <1>1, <2>1, <2>2
  <1>5. CASE queue' = <<>>
    BY <1>4, <1>5 DEF FreshKeys
  <1>6. CASE \E a \in Agents, to \in Agents : \E kind, payload :
                Post(<<>>, a, to, kind, payload)
    <2>0. PICK a \in Agents, to \in Agents :
             \E kind, payload : Post(<<>>, a, to, kind, payload)
      BY <1>6
    <2>1. PICK kind, payload : Post(<<>>, a, to, kind, payload)
      BY <2>0
    <2> DEFINE m == [kind |-> kind, from |-> a, to |-> to, seq |-> sent[a],
                     payload |-> payload]
    <2>2. queue' = <<m>> /\ sent'[a] = sent[a] + 1
      BY <2>1 DEF Post, TypeOK
    <2>3. m.seq = sent[a] /\ m.from = a /\ m.to = to
      OBVIOUS
    <2> HIDE DEF m
    <2>4. \A i \in 1..Len(queue') : queue'[i] = m
      BY <2>2
    <2>5. m.seq < sent'[m.from]
      BY <1>1, <2>2, <2>3
    <2>6. Key(m) \notin received'[m.to]
      <3>1. Key(m)[1] = a /\ Key(m)[2] = sent[a]
        BY <2>3 DEF Key
      <3> QED BY <1>1, <1>3, <2>3, <3>1
    <2> QED BY <1>4, <2>4, <2>5, <2>6 DEF FreshKeys, Key
  <1> QED BY <1>5, <1>6

(* The agent that receives the message in flight accepts it.                 *)
LEMMA Accepted ==
    ASSUME DfsInv, queue # <<>>, NEW m, m = queue[1]
    PROVE  Acceptable(m) /\ DfsMessage(m)
  <1>1. /\ m \in Messages
        /\ Truthful(m)
        /\ 1 \in 1..Len(queue)
    <2>1. queue \in Seq(Messages) /\ Len(queue) # 0
      BY DEF DfsInv, TreeInv, TypeOK
    <2> QED BY <2>1 DEF DfsInv, InFlight
  <1>2. /\ m.from \in Agents
        /\ m.to \in Agents
        /\ m.kind \in {"explore", "return", "seen"}
    BY <1>1 DEF Messages
  <1>3. Acceptable(m)
    BY <1>1 DEF Acceptable, DfsInv, FreshKeys, Truthful
  <1>4. /\ Ancestry(phase, ancestors)
        /\ ancestors[m.from] \in Seq(Agents)
        /\ ancestors[m.to] \in Seq(Agents)
        /\ m.to \in nbrs[m.from]
    BY <1>1, <1>2 DEF DfsInv, TreeInv, TypeOK, Undirected, Truthful
  <1>5. CASE m.kind = "explore"
    <2>1. /\ phase[m.from] = "dfs"
          /\ m.payload = Append(ancestors[m.from], m.from)
          /\ Probeable(m.to, m.from, phase, ancestors)
      BY <1>1, <1>5 DEF Truthful, Awaits, Turn
    <2>2. CASE phase[m.to] = "new"
      <3>1. ToSet(m.payload) = ToSet(ancestors[m.from]) \cup {m.from}
        BY <1>2, <1>4, <2>1, ToSetAppend
      <3>2. \A b \in ToSet(ancestors[m.from]) : phase[b] = "dfs"
        BY <1>2, <1>4, <2>1, Paths
      <3> QED BY <1>3, <1>5, <2>1, <2>2, <3>1, <3>2 DEF DfsMessage, FirstProbe
    <2>3. CASE phase[m.to] # "new"
      <3>1. phase[m.to] = "ready" /\ m.from \in ToSet(ancestors[m.to])
        BY <2>1, <2>3 DEF Probeable
      <3> DEFINE i == Len(ancestors[m.from]) + 1
                 s == SubSeq(ancestors[m.to], 1, i)
      <3>2. i \in 1..Len(ancestors[m.to]) /\ ancestors[m.to][i] = m.from
        BY <1>2, <1>4, <3>1, Paths
      <3>3. \A j \in 1..i - 1 : ancestors[m.from][j] = ancestors[m.to][j]
        <4>1. \A k \in 1..Len(ancestors[m.to]) : \A j \in 1..k - 1 :
                 ancestors[ancestors[m.to][k]][j] = ancestors[m.to][j]
          BY <1>2, <1>4 DEF Ancestry
        <4> HIDE DEF i
        <4> QED BY <3>2, <4>1
      <3>4. /\ s \in Seq(Agents)
            /\ Len(s) = i
            /\ \A j \in 1..i : s[j] = ancestors[m.to][j]
        BY <1>4, <3>2, SubSeqProperties
      <3>5. /\ m.payload \in Seq(Agents)
            /\ Len(m.payload) = i
            /\ \A j \in 1..i - 1 : m.payload[j] = ancestors[m.from][j]
            /\ m.payload[i] = m.from
        BY <1>2, <1>4, <2>1, AppendProperties
      <3>6. \A j \in 1..i : m.payload[j] = s[j]
        <4>1. i \in Nat
          BY <3>4
        <4> HIDE DEF i, s
        <4> SUFFICES ASSUME NEW j \in 1..i
                     PROVE  m.payload[j] = s[j]
          OBVIOUS
        <4>2. CASE j = i
          BY <3>2, <3>4, <3>5, <4>1, <4>2
        <4>3. CASE j # i
          <5>1. j \in 1..i - 1
            BY <4>1, <4>3
          <5> QED BY <3>3, <3>4, <3>5, <5>1
        <4> QED BY <4>2, <4>3
      <3>7. m.payload = s
        BY <3>4, <3>5, <3>6, SeqEqual
      <3>8. i \in DOMAIN ancestors[m.to]
        BY <1>4, <3>2
      <3> QED BY <1>3, <1>5, <3>1, <3>2, <3>7, <3>8 DEF DfsMessage, LaterProbe
    <2> QED BY <2>2, <2>3
  <1>6. CASE m.kind = "seen"
    BY <1>1, <1>3, <1>6 DEF Truthful, Awaits, Turn, DfsMessage, GoodSeen, Awaited
  <1>7. CASE m.kind = "return"
    <2>1. /\ phase[m.to] = "dfs"
          /\ pending[m.to] = m.from
          /\ phase[m.from] = "ready"
          /\ m.to \in ToSet(ancestors[m.from])
          /\ m.payload = separator[m.from]
          /\ m.to = ancestors[m.from][Len(ancestors[m.from])]
      BY <1>1, <1>7 DEF Truthful, Awaits, Turn, Above
    <2>2. IsParent(m.to, m.from, phase, ancestors)
      <3>1. ancestors[m.from] # <<>>
        BY <2>1 DEF ToSet
      <3> QED BY <1>2, <1>4, <2>1, <3>1, ParentPath
    <2>3. \A n \in Agents : n \in separator[m.from] <=>
             /\ n \in ToSet(ancestors[m.from])
             /\ \E d \in Agents : Known(d, m.from, phase, ancestors, children)
                                  /\ n \in nbrs[d]
      BY <1>2, <2>1 DEF DfsInv, TreeInv, Separated
    <2>4. separator[m.from] \subseteq Agents
      BY <1>2 DEF DfsInv, TreeInv, TypeOK
    <2>5. m.to \in m.payload
      <3>1. Known(m.from, m.from, phase, ancestors, children)
        BY DEF Known
      <3> QED BY <1>2, <1>4, <2>1, <2>3, <3>1
    <2>6. m.payload \subseteq ToSet(ancestors[m.to]) \cup {m.to}
      BY <2>1, <2>2, <2>3, <2>4 DEF IsParent
    <2> QED BY <1>3, <1>7, <2>1, <2>5, <2>6 DEF DfsMessage, GoodReturn, Awaited, Above
  <1> QED BY <1>2, <1>5, <1>6, <1>7
-----------------------------------------------------------------------------
(* The steps, one lemma for each action.                                     *)

LEMMA InitHolds == DfsInit => DfsInv
  <1> SUFFICES ASSUME DfsInit
               PROVE  DfsInv
    OBVIOUS
  <1>1. TypeOK /\ Undirected
    BY InitType, GraphsAssumption DEF DfsInit, Undirected
  <1>2. \A b \in Agents : /\ phase[b] = "new"
                          /\ ancestors[b] = <<>>
                          /\ children[b] = <<>>
                          /\ received[b] = {}
    BY DEF DfsInit
  <1>3. queue = <<>> /\ Late = {} /\ stage = "start" /\ Len(queue) = 0
    BY DEF DfsInit, Late
  <1>4. Ancestry(phase, ancestors)
    BY <1>1, <1>2 DEF Ancestry, TypeOK
  <1>5. /\ Rooted(nbrs, root, phase, ancestors)
        /\ CompleteEdges(nbrs, phase, ancestors)
        /\ Separated(nbrs, phase, ancestors, children, separator)
    BY <1>2 DEF Rooted, CompleteEdges, Separated
  <1>6. Adopted(phase, ancestors, children, Late)
    BY <1>2 DEF Adopted, IsInjective, ToSet
  <1> QED BY <1>1, <1>2, <1>3, <1>4, <1>5, <1>6
          DEF DfsInv, TreeInv, Ascending, FreshKeys, InFlight, Staged, Verdicts

(* The neighbour that is probed is the least of those that are left.         *)
LEMMA AdvanceAscends ==
    ASSUME TypeOK, Ascending, NEW a \in Agents, NEW anc, NEW R \in SUBSET Agents, NEW sep,
           Advance(<<>>, a, anc, R, sep)
    PROVE  Ascending'
  <1>1. CASE Probe(<<>>, a, anc, R)
    <2>1. \A n \in R : Min(R) <= n
      BY <1>1, MinIsLeast, AgentsAssumption DEF Probe
    <2>2. pending'[a] = Min(R) /\ remaining'[a] = R \ {Min(R)}
      BY <1>1 DEF Probe, TypeOK
    <2>3. \A b \in Agents : b # a => /\ phase'[b] = phase[b]
                                     /\ pending'[b] = pending[b]
                                     /\ remaining'[b] = remaining[b]
      BY <1>1 DEF Probe, TypeOK
    <2> QED BY <2>1, <2>2, <2>3 DEF Ascending
  <1>2. CASE Complete(<<>>, a, anc, R, sep)
    <2>1. phase'[a] = "ready"
      BY <1>2 DEF Complete, TypeOK
    <2>2. \A b \in Agents : b # a => /\ phase'[b] = phase[b]
                                     /\ pending'[b] = pending[b]
                                     /\ remaining'[b] = remaining[b]
      BY <1>2 DEF Complete, TypeOK
    <2> QED BY <2>1, <2>2 DEF Ascending
  <1> QED BY <1>1, <1>2 DEF Advance

(* What is common to the steps that end in _advance.                         *)
LEMMA TurnTaken ==
    ASSUME DfsInv, TypeOK', FreshKeys', nbrs' = nbrs, root' = root, stage' = "dfs",
           NEW a \in Agents, a = root \/ phase[root] # "new",
           NEW R \in SUBSET Agents,
           NEW ph, ph = [phase EXCEPT ![a] = "dfs"],
           Holding(nbrs, root, a, R, ph, ancestors', remaining, pending, children',
                   separator'),
           Advance(<<>>, a, ancestors'[a], R, separator'[a])
    PROVE  DfsInv'
  <1>1. TypeOK /\ Undirected
    BY DEF DfsInv, TreeInv
  <1>2. /\ Ancestry(phase, ancestors)'
        /\ Rooted(nbrs, root, phase, ancestors)'
        /\ CompleteEdges(nbrs, phase, ancestors)'
        /\ Adopted(phase, ancestors, children, Late)'
        /\ Separated(nbrs, phase, ancestors, children, separator)'
        /\ InFlight'
        /\ phase'[a] # "new"
        /\ \A b \in Agents : b # a => phase'[b] = phase[b]
    BY <1>1, AdvanceKeeps
  <1>3. Undirected'
    BY <1>1 DEF Undirected
  <1>4. phase'[root'] # "new"
    BY <1>1, <1>2 DEF TypeOK
  <1>5. Staged' /\ Verdicts'
    BY <1>4 DEF Staged, Verdicts
  <1>6. Ascending'
    <2>1. Ascending
      BY DEF DfsInv
    <2> QED BY <1>1, <2>1, AdvanceAscends DEF TypeOK
  <1> QED BY <1>2, <1>3, <1>5, <1>6 DEF DfsInv, TreeInv

(* An agent that advances posts one message, or none.                        *)
LEMMA AdvancePosts ==
    ASSUME TypeOK, NEW a \in Agents, NEW anc \in Seq(Agents), NEW R \in SUBSET Agents,
           NEW sep, Advance(<<>>, a, anc, R, sep)
    PROVE  \/ queue' = <<>> /\ sent' = sent
           \/ \E b \in Agents, to \in Agents : \E kind, payload :
                 Post(<<>>, b, to, kind, payload)
  <1>1. CASE Probe(<<>>, a, anc, R)
    BY <1>1, MinAgent DEF Probe
  <1>2. CASE Complete(<<>>, a, anc, R, sep)
    <2>1. CASE anc = <<>>
      BY <1>2, <2>1 DEF Complete
    <2>2. CASE anc # <<>>
      <3>1. Last(anc) \in Agents
        BY <2>2 DEF Last
      <3> QED BY <1>2, <2>2, <3>1 DEF Complete
    <2> QED BY <2>1, <2>2
  <1> QED BY <1>1, <1>2 DEF Advance

LEMMA StartKeeps ==
    ASSUME DfsInv, TypeOK', Start
    PROVE  DfsInv'
  <1>1. /\ TypeOK
        /\ TreeInv
        /\ queue = <<>>
        /\ \A b \in Agents : phase[b] = "new"
        /\ root \in Agents
        /\ FreshKeys
    BY DEF DfsInv, TreeInv, TypeOK, Staged, Start
  <1>2. Late = {}
    BY <1>1 DEF Late
  <1> DEFINE R == nbrs[root] \ ToSet(<<>>)
             ph == [phase EXCEPT ![root] = "dfs"]
  <1>3. /\ nbrs' = nbrs /\ root' = root /\ stage' = "dfs"
        /\ children' = children /\ received' = received
        /\ ancestors' = [ancestors EXCEPT ![root] = <<>>]
        /\ separator' = [separator EXCEPT ![root] = nbrs[root] \cap ToSet(<<>>)]
        /\ Advance(<<>>, root, <<>>, R, nbrs[root] \cap ToSet(<<>>))
    BY <1>1 DEF Start, Enter, instance
  <1>4. ancestors'[root] = <<>> /\ separator'[root] = nbrs[root] \cap ToSet(<<>>)
    BY <1>1, <1>3 DEF TypeOK
  <1>5. R \in SUBSET Agents /\ <<>> \in Seq(Agents)
    BY <1>1 DEF TypeOK
  <1>6. Holding(nbrs, root, root, R, ph, ancestors', remaining, pending, children',
                separator')
    BY <1>1, <1>2, <1>3, StartHolds
  <1> HIDE DEF R, ph
  <1>7. \/ queue' = <<>> /\ sent' = sent
        \/ \E b \in Agents, to \in Agents : \E kind, payload :
              Post(<<>>, b, to, kind, payload)
    BY <1>1, <1>3, <1>5, AdvancePosts
  <1>8. FreshKeys'
    BY <1>1, <1>3, <1>7, FreshKept
  <1> QED BY <1>1, <1>3, <1>4, <1>5, <1>6, <1>8, TurnTaken DEF ph

(* What an agent finds when the message in flight is delivered.              *)
LEMMA OneMessage ==
    ASSUME DfsInv, queue # <<>>, NEW m, m = Head(queue)
    PROVE  /\ m = queue[1]
           /\ Tail(queue) = <<>>
           /\ Len(queue) = 1
           /\ m \in Messages
           /\ m.from \in Agents /\ m.to \in Agents
           /\ m.kind \in {"explore", "return", "seen"}
           /\ Truthful(m)
           /\ Acceptable(m) /\ DfsMessage(m)
           /\ Late = IF m.kind = "return" THEN {m.from} ELSE {}
  <1>1. queue \in Seq(Messages) /\ Len(queue) # 0 /\ Len(queue) <= 1
    BY DEF DfsInv, TreeInv, TypeOK, InFlight
  <1>2. Len(queue) = 1 /\ m = queue[1] /\ m \in Messages /\ Tail(queue) = <<>>
    <2>1. Len(queue) = 1
      <3>1. Len(queue) \in Nat
        BY <1>1, LenProperties
      <3> QED BY <1>1, <3>1
    <2>2. /\ m = queue[1] /\ m \in Messages
          /\ Tail(queue) \in Seq(Messages)
          /\ Len(Tail(queue)) = 0
      BY <1>1, <2>1, HeadTailProperties
    <2>3. Tail(queue) = <<>>
      BY <2>2, EmptySeq
    <2> QED BY <2>1, <2>2, <2>3
  <1>3. Truthful(m) /\ Acceptable(m) /\ DfsMessage(m)
    BY <1>2, Accepted DEF DfsInv, InFlight
  <1>4. m.from \in Agents /\ m.to \in Agents /\ m.kind \in {"explore", "return", "seen"}
    BY <1>2 DEF Messages
  <1>5. Late = IF m.kind = "return" THEN {m.from} ELSE {}
    <2>1. \A i \in 1..Len(queue) : i = 1 /\ queue[i] = m
      BY <1>2
    <2>2. 1 \in 1..Len(queue)
      BY <1>2
    <2> QED BY <2>1, <2>2 DEF Late
  <1> QED BY <1>2, <1>3, <1>4, <1>5

LEMMA FirstProbeKeeps ==
    ASSUME DfsInv, TypeOK', queue # <<>>, nbrs' = nbrs, root' = root, stage' = stage,
           stage = "dfs", NEW m, m = Head(queue), ReceiveFirstProbe(m)
    PROVE  DfsInv'
  <1>1. /\ TypeOK
        /\ TreeInv
        /\ FreshKeys
        /\ phase[root] # "new"
    BY DEF DfsInv, TreeInv, Staged
  <1>2. /\ m = queue[1]
        /\ Tail(queue) = <<>>
        /\ Len(queue) = 1
        /\ m.from \in Agents /\ m.to \in Agents
        /\ m.kind = "explore"
        /\ Truthful(m)
        /\ Late = {}
        /\ phase[m.to] = "new"
    BY OneMessage DEF ReceiveFirstProbe, FirstProbe
  <1>3. /\ m.from \in nbrs[m.to]
        /\ Awaits(nbrs, m.from, m.to, phase, ancestors, remaining, pending)
        /\ m.payload = Append(ancestors[m.from], m.from)
    BY <1>2 DEF Truthful
  <1> DEFINE a == m.to
             path == m.payload
             R == nbrs[a] \ ToSet(path)
             ph == [phase EXCEPT ![a] = "dfs"]
  <1>4. /\ children' = children
        /\ Accept(m)
        /\ ancestors' = [ancestors EXCEPT ![a] = path]
        /\ separator' = [separator EXCEPT ![a] = nbrs[a] \cap ToSet(path)]
        /\ Advance(<<>>, a, path, R, nbrs[a] \cap ToSet(path))
    BY <1>2 DEF ReceiveFirstProbe, Enter
  <1>5. /\ path \in Seq(Agents)
        /\ a \in Agents
        /\ R \in SUBSET Agents
    <2>1. m.payload \in Seq(Agents)
      <3>1. ancestors[m.from] \in Seq(Agents) /\ m.from \in Agents
        BY <1>1, <1>2 DEF TypeOK
      <3>2. Append(ancestors[m.from], m.from) \in Seq(Agents)
        BY <3>1
      <3> QED BY <1>3, <3>2
    <2>2. nbrs[m.to] \subseteq Agents
      BY <1>1, <1>2 DEF TypeOK
    <2> QED BY <1>2, <2>1, <2>2
  <1> HIDE DEF a, path
  <1>6. ancestors'[a] = path /\ separator'[a] = nbrs[a] \cap ToSet(path)
    BY <1>1, <1>4, <1>5 DEF TypeOK
  <1>7. Holding(nbrs, root, a, R, ph, ancestors', remaining, pending, children',
                separator')
    <2>1. /\ m.from \in Agents
          /\ m.from \in nbrs[a]
          /\ phase[a] = "new"
          /\ Awaits(nbrs, m.from, a, phase, ancestors, remaining, pending)
          /\ path = Append(ancestors[m.from], m.from)
      BY <1>2, <1>3 DEF a, path
    <2> QED BY <1>1, <1>2, <1>4, <1>5, <2>1, EnterHolds
  <1> HIDE DEF R, ph
  <1>8. \/ queue' = <<>> /\ sent' = sent
        \/ \E b \in Agents, to \in Agents : \E kind, payload :
              Post(<<>>, b, to, kind, payload)
    BY <1>1, <1>4, <1>5, AdvancePosts
  <1>9. FreshKeys'
    BY <1>1, <1>2, <1>4, <1>8, FreshKept
  <1> QED BY <1>1, <1>4, <1>5, <1>6, <1>7, <1>9, TurnTaken DEF ph

LEMMA ReturnKeeps ==
    ASSUME DfsInv, TypeOK', queue # <<>>, nbrs' = nbrs, root' = root, stage' = stage,
           stage = "dfs", NEW m, m = Head(queue), ReceiveReturn(m)
    PROVE  DfsInv'
  <1>1. /\ TypeOK
        /\ TreeInv
        /\ FreshKeys
        /\ phase[root] # "new"
    BY DEF DfsInv, TreeInv, Staged
  <1>2. /\ m = queue[1]
        /\ Tail(queue) = <<>>
        /\ Len(queue) = 1
        /\ m.from \in Agents /\ m.to \in Agents
        /\ m.kind = "return"
        /\ Truthful(m)
        /\ Late = {m.from}
    BY OneMessage DEF ReceiveReturn, GoodReturn
  <1>3. /\ Awaits(nbrs, m.to, m.from, phase, ancestors, remaining, pending)
        /\ phase[m.from] = "ready"
        /\ m.to \in ToSet(ancestors[m.from])
        /\ m.payload = separator[m.from]
        /\ m.to = ancestors[m.from][Len(ancestors[m.from])]
    BY <1>2 DEF Truthful, Above
  <1> DEFINE a == m.to
             n == m.from
             R == remaining[a]
             sep == separator[a] \cup (separator[n] \ {a})
  <1>4. /\ ancestors' = ancestors
        /\ Accept(m)
        /\ children' = [children EXCEPT ![a] = Append(children[a], n)]
        /\ separator' = [separator EXCEPT ![a] = sep]
        /\ Advance(<<>>, a, ancestors[a], R, sep)
    BY <1>2, <1>3 DEF ReceiveReturn
  <1>5. /\ ancestors[a] \in Seq(Agents)
        /\ a \in Agents
        /\ n \in Agents
        /\ R \in SUBSET Agents
        /\ phase[a] = "dfs"
    BY <1>1, <1>2, <1>3 DEF TypeOK, Awaits, Turn
  <1>6. separator'[a] = sep
    BY <1>1, <1>4, <1>5 DEF TypeOK
  <1>7. Holding(nbrs, root, a, R, phase, ancestors', remaining, pending, children',
                separator')
    <2>1. /\ phase[n] = "ready"
          /\ Late = {n}
          /\ a \in ToSet(ancestors[n])
          /\ a = ancestors[n][Len(ancestors[n])]
          /\ Awaits(nbrs, a, n, phase, ancestors, remaining, pending)
      BY <1>2, <1>3
    <2> HIDE DEF a, n
    <2> QED BY <1>1, <1>4, <1>5, <2>1, ReturnHolds
  <1> HIDE DEF a, n, R, sep
  <1>8. phase = [phase EXCEPT ![a] = "dfs"]
    BY <1>1, <1>5 DEF TypeOK
  <1>9. \/ queue' = <<>> /\ sent' = sent
        \/ \E b \in Agents, to \in Agents : \E kind, payload :
              Post(<<>>, b, to, kind, payload)
    BY <1>1, <1>4, <1>5, AdvancePosts
  <1>10. FreshKeys'
    BY <1>1, <1>2, <1>4, <1>9, FreshKept
  <1> QED BY <1>1, <1>4, <1>5, <1>6, <1>7, <1>8, <1>10, TurnTaken

LEMMA SeenKeeps ==
    ASSUME DfsInv, TypeOK', queue # <<>>, nbrs' = nbrs, root' = root, stage' = stage,
           stage = "dfs", NEW m, m = Head(queue), ReceiveSeen(m)
    PROVE  DfsInv'
  <1>1. /\ TypeOK
        /\ TreeInv
        /\ FreshKeys
        /\ phase[root] # "new"
    BY DEF DfsInv, TreeInv, Staged
  <1>2. /\ m = queue[1]
        /\ Tail(queue) = <<>>
        /\ Len(queue) = 1
        /\ m.from \in Agents /\ m.to \in Agents
        /\ m.kind = "seen"
        /\ Truthful(m)
        /\ Late = {}
    BY OneMessage DEF ReceiveSeen, GoodSeen
  <1>3. /\ Awaits(nbrs, m.to, m.from, phase, ancestors, remaining, pending)
        /\ phase[m.from] = "ready"
        /\ m.to \in ToSet(ancestors[m.from])
    BY <1>2 DEF Truthful, Above
  <1> DEFINE a == m.to
             R == remaining[a]
  <1>4. /\ ancestors' = ancestors
        /\ children' = children
        /\ separator' = separator
        /\ Accept(m)
        /\ Advance(<<>>, a, ancestors[a], R, separator[a])
    BY <1>2 DEF ReceiveSeen
  <1>5. /\ ancestors[a] \in Seq(Agents)
        /\ a \in Agents
        /\ R \in SUBSET Agents
        /\ phase[a] = "dfs"
    BY <1>1, <1>2, <1>3 DEF TypeOK, Awaits, Turn
  <1>6. Holding(nbrs, root, a, R, phase, ancestors', remaining, pending, children',
                separator')
    <2>1. Holding(nbrs, root, a, R, phase, ancestors, remaining, pending, children,
                  separator)
      BY <1>1, <1>2, <1>3, SeenHolds
    <2> QED BY <1>4, <2>1
  <1> HIDE DEF a, R
  <1>7. phase = [phase EXCEPT ![a] = "dfs"]
    BY <1>1, <1>5 DEF TypeOK
  <1>8. \/ queue' = <<>> /\ sent' = sent
        \/ \E b \in Agents, to \in Agents : \E kind, payload :
              Post(<<>>, b, to, kind, payload)
    BY <1>1, <1>4, <1>5, AdvancePosts
  <1>9. FreshKeys'
    BY <1>1, <1>2, <1>4, <1>8, FreshKept
  <1> QED BY <1>1, <1>4, <1>5, <1>6, <1>7, <1>9, TurnTaken

LEMMA LaterProbeKeeps ==
    ASSUME DfsInv, TypeOK', queue # <<>>, nbrs' = nbrs, root' = root, stage' = stage,
           stage = "dfs", NEW m, m = Head(queue), ReceiveLaterProbe(m)
    PROVE  DfsInv'
  <1>1. /\ TypeOK
        /\ TreeInv
        /\ FreshKeys
        /\ phase[root] # "new"
        /\ Undirected
    BY DEF DfsInv, TreeInv, Staged
  <1>2. /\ m = queue[1]
        /\ Tail(queue) = <<>>
        /\ Len(queue) = 1
        /\ m.from \in Agents /\ m.to \in Agents
        /\ m.kind = "explore"
        /\ Truthful(m)
        /\ Late = {}
        /\ phase[m.to] = "ready"
    BY OneMessage DEF ReceiveLaterProbe, LaterProbe
  <1>3. /\ m.to \in nbrs[m.from]
        /\ Awaits(nbrs, m.from, m.to, phase, ancestors, remaining, pending)
        /\ m.from \in ToSet(ancestors[m.to])
    <2>1. ancestors[m.to] \in Seq(Agents)
      BY <1>1, <1>2 DEF TypeOK
    <2>2. \E i \in DOMAIN ancestors[m.to] : ancestors[m.to][i] = m.from
      BY DEF ReceiveLaterProbe, LaterProbe
    <2>3. m.from \in ToSet(ancestors[m.to])
      BY <2>1, <2>2, ToSetIndex
    <2> QED BY <1>1, <1>2, <2>3 DEF Truthful, Undirected
  <1>4. /\ Accept(m)
        /\ Post(<<>>, m.to, m.from, "seen", {})
        /\ UNCHANGED <<phase, ancestors, remaining, pending, children, separator>>
    BY <1>2 DEF ReceiveLaterProbe
  <1> DEFINE r == [kind |-> "seen", from |-> m.to, to |-> m.from, seq |-> sent[m.to],
                   payload |-> {}]
  <1>5. queue' = <<r>>
    BY <1>4 DEF Post
  <1>6. r.kind = "seen" /\ r.from = m.to /\ r.to = m.from
    OBVIOUS
  <1> HIDE DEF r
  <1>7. Len(queue') = 1 /\ queue' # <<>> /\ queue'[1] = r
    BY <1>5
  <1>8. Truthful(queue[1])'
    BY <1>2, <1>3, <1>4, <1>6, <1>7 DEF Truthful, Above
  <1>9. Late' = {}
    BY <1>6, <1>7 DEF Late
  <1>10. InFlight'
    BY <1>7, <1>8 DEF InFlight
  <1>11. FreshKeys'
    <2>1. \E b \in Agents, to \in Agents : \E kind, payload :
             Post(<<>>, b, to, kind, payload)
      BY <1>2, <1>4
    <2> QED BY <1>1, <1>2, <1>4, <2>1, FreshKept
  <1>12. Adopted(phase, ancestors, children, Late)'
    BY <1>2, <1>4, <1>9 DEF DfsInv, TreeInv
  <1>13. Staged' /\ Verdicts'
    BY <1>1, <1>4 DEF Staged, Verdicts
  <1>14. TreeInv'
    <2>1. Undirected'
      BY <1>1 DEF Undirected
    <2> QED BY <1>4, <1>12, <2>1 DEF DfsInv, TreeInv
  <1>15. Ascending'
    BY <1>4 DEF DfsInv, Ascending
  <1> QED BY <1>10, <1>11, <1>13, <1>14, <1>15 DEF DfsInv

LEMMA DeliverKeeps ==
    ASSUME DfsInv, TypeOK', Deliver
    PROVE  DfsInv'
  <1> DEFINE m == Head(queue)
  <1>1. /\ stage = "dfs" /\ queue # <<>> /\ nbrs' = nbrs /\ root' = root
        /\ Acceptable(m) /\ DfsMessage(m) => Receive(m)
    BY DEF Deliver, instance
  <1>2. Receive(m)
    BY <1>1, OneMessage
  <1> HIDE DEF m
  <1>3. m = Head(queue) /\ stage' = stage
    BY <1>2 DEF m, Receive
  <1>4. CASE ReceiveFirstProbe(m)
    BY <1>1, <1>3, <1>4, FirstProbeKeeps
  <1>5. CASE ReceiveLaterProbe(m)
    BY <1>1, <1>3, <1>5, LaterProbeKeeps
  <1>6. CASE ReceiveReturn(m)
    BY <1>1, <1>3, <1>6, ReturnKeeps
  <1>7. CASE ReceiveSeen(m)
    BY <1>1, <1>3, <1>7, SeenKeeps
  <1> QED BY <1>2, <1>4, <1>5, <1>6, <1>7 DEF Receive
-----------------------------------------------------------------------------
(* The tree that is handed on.                                               *)

LEMMA Parents ==
    ASSUME TypeOK, NEW a \in Agents
    PROVE  /\ Parent(a) = NoAgent <=> ancestors[a] = <<>>
           /\ \A b \in Agents :
                 Parent(a) = b <=> /\ ancestors[a] # <<>>
                                   /\ ancestors[a][Len(ancestors[a])] = b
  <1>1. ancestors[a] \in Seq(Agents)
    BY DEF TypeOK
  <1>2. ancestors[a] # <<>> => Last(ancestors[a]) \in Agents
    BY <1>1 DEF Last
  <1>3. NoAgent \notin Agents
    BY AgentsAssumption DEF NoAgent
  <1> QED BY <1>2, <1>3 DEF Parent, Last

(* When every agent has completed, the separator the messages have built up  *)
(* is the boundary of the subtree.                                           *)
LEMMA SeparatorIsBoundary ==
    ASSUME TreeInv, Spanned, NEW a \in Agents
    PROVE  separator[a] = Boundary(a)
  <1>1. /\ separator[a] \subseteq Agents
        /\ nbrs \in [Agents -> SUBSET Agents]
        /\ Ancestry(phase, ancestors)
        /\ Undirected
    BY DEF TreeInv, TypeOK
  <1>2. \A d \in Agents : Known(d, a, phase, ancestors, children)
                            <=> d \in Subtree(a)
    BY DEF Known, Subtree, Above, Spanned
  <1>3. \A n \in Agents : n \in separator[a] <=>
           n \in Above(a) /\ \E d \in Subtree(a) : n \in nbrs[d]
    <2>1. \A n \in Agents : n \in separator[a] <=>
             /\ n \in ToSet(ancestors[a])
             /\ \E d \in Agents : Known(d, a, phase, ancestors, children)
                                  /\ n \in nbrs[d]
      BY DEF TreeInv, Separated, Spanned
    <2>2. Subtree(a) \subseteq Agents
      BY DEF Subtree
    <2> QED BY <1>2, <2>1, <2>2 DEF Above
  <1>4. \A b \in Agents : \A x \in Above(b) :
           b \notin Above(x) /\ x # b /\ Above(x) \subseteq Above(b)
    BY <1>1, Paths DEF Above
  <1>5. ASSUME NEW n \in separator[a]
        PROVE  n \in Boundary(a)
    <2>1. n \in Above(a) /\ n \in Agents
      BY <1>1, <1>3
    <2>2. PICK d \in Subtree(a) : n \in nbrs[d]
      BY <1>1, <1>3
    <2>3. d \in Agents /\ d \in nbrs[n]
      BY <1>1, <2>1, <2>2 DEF Subtree, Undirected
    <2>4. n \notin Subtree(a)
      BY <1>4, <2>1 DEF Subtree
    <2> QED BY <2>1, <2>2, <2>3, <2>4 DEF Boundary
  <1>6. ASSUME NEW n \in Boundary(a)
        PROVE  n \in separator[a]
    <2>1. n \in Agents /\ n # a /\ a \notin Above(n)
      BY DEF Boundary, Subtree
    <2>2. PICK d \in Subtree(a) : d \in nbrs[n]
      BY DEF Boundary
    <2>3. d \in Agents /\ n \in nbrs[d] /\ (d = a \/ a \in Above(d))
      BY <1>1, <2>1, <2>2 DEF Subtree, Undirected
    <2>4. n \in Above(d) \/ d \in Above(n)
      BY <2>3 DEF TreeInv, CompleteEdges, Covered, Spanned, Above
    <2>5. d \notin Above(n)
      BY <1>4, <2>1, <2>3
    <2>6. n \in Above(a)
      <3>1. CASE d = a
        BY <2>4, <2>5, <3>1
      <3>2. CASE a \in Above(d)
        <4>1. n = a \/ n \in Above(a) \/ a \in Above(n)
          BY <1>1, <2>3, <2>4, <2>5, <3>2, Paths DEF Above
        <4> QED BY <2>1, <4>1
      <3> QED BY <2>3, <3>1, <3>2
    <2> QED BY <1>3, <2>1, <2>2, <2>3, <2>6
  <1> QED BY <1>5, <1>6

(* The tree passes validate_pseudotree.                                      *)
LEMMA TreeIsValid ==
    ASSUME TreeInv, Late = {}, Spanned
    PROVE  ValidTree
  <1>1. /\ TypeOK
        /\ Undirected
        /\ Ancestry(phase, ancestors)
        /\ root \in Agents
    BY DEF TreeInv, TypeOK
  <1>2. \A a \in Agents : phase[a] = "ready" /\ phase[a] # "new"
    BY DEF Spanned
  <1>3. {a \in Agents : Parent(a) = NoAgent} = {root}
    <2>1. \A a \in Agents : ancestors[a] = <<>> <=> a = root
      BY <1>2 DEF TreeInv, Rooted
    <2> QED BY <1>1, <2>1, Parents
  <1>4. \A a \in Agents : \A n \in nbrs[a] :
           /\ n \in Agents
           /\ n \in Above(a) \/ a \in Above(n)
           /\ ~ (n \in Above(a) /\ a \in Above(n))
    <2> SUFFICES ASSUME NEW a \in Agents, NEW n \in nbrs[a]
                 PROVE  /\ n \in Agents
                        /\ n \in Above(a) \/ a \in Above(n)
                        /\ ~ (n \in Above(a) /\ a \in Above(n))
      OBVIOUS
    <2>1. n \in Agents
      BY <1>1 DEF TypeOK
    <2>2. n \in Above(a) \/ a \in Above(n)
      BY <1>2 DEF TreeInv, CompleteEdges, Covered, Above
    <2>3. n \in Above(a) => a \notin Above(n)
      BY <1>1, Paths DEF Above
    <2> QED BY <2>1, <2>2, <2>3
  <1>5. ASSUME NEW a \in Agents
        PROVE  ParentChain(a)
    <2>1. ancestors[a] \in Seq(Agents) /\ Len(ancestors[a]) \in Nat
      BY <1>1 DEF TypeOK
    <2>2. a \notin Above(a)
      BY <1>1, Paths DEF Above
    <2>3. \A i \in 1..Len(ancestors[a]) :
             /\ ancestors[a][i] \in Agents
             /\ Len(ancestors[ancestors[a][i]]) = i - 1
             /\ \A j \in 1..i - 1 : ancestors[ancestors[a][i]][j] = ancestors[a][j]
      BY <1>1, PathElements
    <2>4. \A i, j \in 1..Len(ancestors[a]) : ancestors[a][i] = ancestors[a][j] => i = j
      <3> SUFFICES ASSUME NEW i \in 1..Len(ancestors[a]), NEW j \in 1..Len(ancestors[a]),
                          ancestors[a][i] = ancestors[a][j]
                   PROVE  i = j
        OBVIOUS
      <3>1. i - 1 = j - 1
        BY <2>3
      <3> QED BY <2>1, <3>1
    <2>5. IsInjective(ancestors[a])
      BY <2>1, <2>4 DEF IsInjective
    <2>6. ASSUME NEW i \in 1..Len(ancestors[a])
          PROVE  Parent(ancestors[a][i]) = IF i = 1 THEN NoAgent ELSE ancestors[a][i - 1]
      <3> DEFINE p == ancestors[a][i]
      <3>1. /\ p \in Agents
            /\ Len(ancestors[p]) = i - 1
            /\ \A j \in 1..i - 1 : ancestors[p][j] = ancestors[a][j]
        BY <2>3
      <3> HIDE DEF p
      <3>2. ancestors[p] \in Seq(Agents) /\ i \in Nat
        BY <1>1, <2>1, <3>1 DEF TypeOK
      <3>3. CASE i = 1
        <4>1. ancestors[p] = <<>>
          BY <3>1, <3>2, <3>3
        <4> QED BY <3>3, <4>1 DEF Parent, p
      <3>4. CASE i # 1
        <4>1. i - 1 \in 1..i - 1 /\ ancestors[p] # <<>>
          BY <3>1, <3>2, <3>4
        <4> QED BY <3>1, <3>4, <4>1 DEF Parent, Last, p
      <3> QED BY <3>3, <3>4
    <2> QED BY <2>1, <2>2, <2>5, <2>6 DEF ParentChain
  <1>6. ASSUME NEW a \in Agents
        PROVE  ChildrenMatch(a)
    <2>1. /\ IsInjective(children[a])
          /\ \A c \in Agents :
                c \in ToSet(children[a]) <=> /\ ancestors[c] # <<>>
                                            /\ ancestors[c][Len(ancestors[c])] = a
      BY <1>2 DEF TreeInv, Adopted
    <2>2. ToSet(children[a]) \subseteq Agents
      <3>1. children[a] \in Seq(Agents)
        BY <1>1 DEF TypeOK
      <3> QED BY <3>1, ToSetIndex
    <2>3. \A c \in Agents : Parent(c) = a <=> c \in ToSet(children[a])
      BY <1>1, <2>1, Parents
    <2> QED BY <2>1, <2>2, <2>3 DEF ChildrenMatch
  <1>7. ASSUME NEW a \in Agents
        PROVE  ToSet(children[a]) \cup ({Parent(a)} \ {NoAgent}) \subseteq nbrs[a]
    <2>1. \A c \in Agents : ancestors[c] # <<>> =>
             /\ Last(ancestors[c]) \in nbrs[c]
             /\ Last(ancestors[c]) \in Agents
             /\ Parent(c) = Last(ancestors[c])
      BY <1>1, <1>2 DEF TreeInv, Rooted, TypeOK, Last, Parent
    <2>2. Parent(a) # NoAgent => Parent(a) \in nbrs[a]
      BY <2>1 DEF Parent
    <2>3. \A c \in ToSet(children[a]) : c \in Agents /\ a \in nbrs[c]
      <3>1. \A c \in ToSet(children[a]) : c \in Agents /\ Parent(c) = a
        BY <1>6 DEF ChildrenMatch
      <3>2. \A c \in Agents : Parent(c) = a => ancestors[c] # <<>>
        BY <1>1, Parents
      <3> QED BY <2>1, <3>1, <3>2
    <2> QED BY <1>1, <2>2, <2>3 DEF Undirected
  <1>8. \A a \in Agents : separator[a] = Boundary(a)
    BY SeparatorIsBoundary
  <1>9. \A a \in Agents : ValidPosition(a)
    BY <1>4, <1>5, <1>6, <1>7, <1>8 DEF ValidPosition
  <1>10. \A a \in Agents : \A b \in nbrs[a] : Owns(a, b) # Owns(b, a)
    <2> SUFFICES ASSUME NEW a \in Agents, NEW b \in nbrs[a]
                 PROVE  Owns(a, b) # Owns(b, a)
      OBVIOUS
    <2>1. b \in Agents /\ a \in nbrs[b]
      BY <1>1, <1>4 DEF Undirected
    <2> QED BY <1>4, <2>1 DEF Owns
  <1> QED BY <1>3, <1>9, <1>10 DEF ValidTree
-----------------------------------------------------------------------------
(* The invariant and what follows from it.                                   *)

(* _prepare hands on a tree it has validated, or refuses the instance.       *)
LEMMA PrepareKeeps ==
    ASSUME DfsInv, Prepare
    PROVE  DfsInv'
  <1>1. /\ queue = <<>>
        /\ stage = "dfs"
        /\ stage' = IF ~ Spanned THEN "disconnected"
                    ELSE IF ValidTree THEN "tree" ELSE "protocol_error"
        /\ UNCHANGED <<nbrs, root, phase, ancestors, remaining, pending, children,
                       childSep, separator, sent, received, queue>>
    BY DEF Prepare, Prepared, instance
  <1>2. Late = {}
    BY <1>1 DEF DfsInv, InFlight, Late
  <1>3. Spanned => ValidTree
    BY <1>2, TreeIsValid DEF DfsInv
  <1>4. Spanned' <=> Spanned
    BY <1>1 DEF Spanned
  <1>5. stage' = IF Spanned THEN "tree" ELSE "disconnected"
    BY <1>1, <1>3
  <1>6. Verdicts'
    BY <1>4, <1>5 DEF Verdicts
  <1>7. Staged'
    BY <1>1, <1>5 DEF DfsInv, Staged
  <1>8. TypeOK' /\ Undirected'
    <2>1. stage' \in Stages
      BY <1>5 DEF Stages
    <2> QED BY <1>1, <2>1 DEF DfsInv, TreeInv, TypeOK, Undirected
  <1>9. Late' = {}
    BY <1>1 DEF DfsInv, InFlight, Late
  <1>10. InFlight' /\ FreshKeys'
    BY <1>1 DEF DfsInv, InFlight, FreshKeys, Key
  <1>11. /\ Ancestry(phase, ancestors)'
         /\ Rooted(nbrs, root, phase, ancestors)'
         /\ CompleteEdges(nbrs, phase, ancestors)'
         /\ Adopted(phase, ancestors, children, Late)'
         /\ Separated(nbrs, phase, ancestors, children, separator)'
    BY <1>1, <1>2, <1>9 DEF DfsInv, TreeInv
  <1>12. Ascending'
    BY <1>1 DEF DfsInv, Ascending
  <1> QED BY <1>6, <1>7, <1>8, <1>10, <1>11, <1>12 DEF DfsInv, TreeInv

LEMMA StutterKeeps ==
    ASSUME DfsInv, UNCHANGED dfsVars
    PROVE  DfsInv'
  <1>1. UNCHANGED <<nbrs, root, stage, phase, ancestors, remaining, pending, children,
                    childSep, separator, sent, received, queue>>
    BY DEF dfsVars
  <1>2. Late' = Late
    BY <1>1 DEF Late
  <1>3. TypeOK' /\ Undirected'
    BY <1>1 DEF DfsInv, TreeInv, TypeOK, Undirected
  <1>4. Staged' /\ Verdicts' /\ FreshKeys'
    BY <1>1 DEF DfsInv, Staged, Verdicts, FreshKeys, Key, Spanned
  <1>5. InFlight'
    BY <1>1 DEF DfsInv, InFlight, Truthful, Above
  <1>6. /\ Ancestry(phase, ancestors)'
        /\ Rooted(nbrs, root, phase, ancestors)'
        /\ CompleteEdges(nbrs, phase, ancestors)'
        /\ Adopted(phase, ancestors, children, Late)'
        /\ Separated(nbrs, phase, ancestors, children, separator)'
    BY <1>1, <1>2 DEF DfsInv, TreeInv
  <1>7. Ascending'
    BY <1>1 DEF DfsInv, Ascending
  <1> QED BY <1>3, <1>4, <1>5, <1>6, <1>7 DEF DfsInv, TreeInv

LEMMA NextKeeps == DfsInv /\ [DfsNext]_dfsVars => DfsInv'
  <1> SUFFICES ASSUME DfsInv, [DfsNext]_dfsVars
               PROVE  DfsInv'
    OBVIOUS
  <1>1. TypeOK'
    BY NextType DEF DfsInv, TreeInv
  <1> QED BY <1>1, StartKeeps, DeliverKeeps, PrepareKeeps, StutterKeeps DEF DfsNext

(* The search is one token walking a depth-first tree, from the first probe  *)
(* to the verdict of _prepare.                                               *)
THEOREM Invariant == DfsSpec => []DfsInv
  BY InitHolds, NextKeeps, PTL DEF DfsSpec

(* No message raises ProtocolError in AgentSession.receive, and no tree that *)
(* spans its graph fails validate_pseudotree.                                *)
THEOREM NeverProtocolError == DfsSpec => []NoProtocolError
  <1>1. DfsInv => NoProtocolError
    BY DEF DfsInv, Verdicts, NoProtocolError
  <1> QED BY <1>1, Invariant, PTL

(* QueueTransport never holds two messages, and drain returns in the DFS     *)
(* stage only when the root has completed.                                   *)
THEOREM SingleToken == DfsSpec => []OneToken
  <1>1. DfsInv => OneToken
    <2> SUFFICES ASSUME DfsInv
                 PROVE  OneToken
      OBVIOUS
    <2>1. phase[root] \in Phases
      BY DEF DfsInv, TreeInv, TypeOK
    <2>2. (stage = "dfs" /\ queue = <<>>) => phase[root] \notin {"new", "dfs"}
      BY DEF DfsInv, TreeInv, TypeOK, InFlight, Staged
    <2> QED BY <2>1, <2>2 DEF DfsInv, InFlight, OneToken, Phases
  <1> QED BY <1>1, Invariant, PTL

(* From the moment an agent completes, each of its edges leads up its path   *)
(* or down to an agent that has completed.                                   *)
THEOREM TreeEdgesOnly == DfsSpec => []NoCrossEdge
  <1>1. DfsInv => NoCrossEdge
    BY DEF DfsInv, TreeInv, CompleteEdges, Covered, NoCrossEdge, Above
  <1> QED BY <1>1, Invariant, PTL

LEMMA SpannedIsConnected ==
    ASSUME TreeInv, Spanned
    PROVE  Connected
  <1> SUFFICES ASSUME NEW S \in SUBSET Agents, root \in S,
                      \A a \in S : nbrs[a] \subseteq S, S # Agents
               PROVE  FALSE
    BY DEF Connected
  <1> DEFINE Depths == {Len(ancestors[b]) : b \in Agents \ S}
  <1>1. \A b \in Agents : Len(ancestors[b]) \in Nat
    BY DEF TreeInv, TypeOK
  <1>2. Depths \subseteq Nat /\ Depths # {}
    BY <1>1
  <1>3. Min(Depths) \in Depths /\ \A d \in Depths : Min(Depths) <= d
    <2> HIDE DEF Depths
    <2> QED BY <1>2, MinIsLeast
  <1>4. PICK b \in Agents \ S : Len(ancestors[b]) = Min(Depths)
    BY <1>3
  <1>5. \A c \in Agents \ S : Len(ancestors[b]) <= Len(ancestors[c])
    BY <1>3, <1>4
  <1> HIDE DEF Depths
  <1>6. ancestors[b] # <<>>
    BY <1>4 DEF TreeInv, Rooted, Spanned
  <1> DEFINE p == ancestors[b][Len(ancestors[b])]
  <1>7. IsParent(p, b, phase, ancestors)
    BY <1>4, <1>6, ParentPath DEF TreeInv
  <1>8. p \in nbrs[b]
    BY <1>4, <1>6 DEF TreeInv, Rooted, Spanned
  <1> HIDE DEF p
  <1>9. p \in Agents /\ Len(ancestors[p]) = Len(ancestors[b]) - 1
    BY <1>7 DEF IsParent
  <1>10. p \in S
    BY <1>1, <1>4, <1>5, <1>9
  <1>11. b \in nbrs[p]
    BY <1>4, <1>8, <1>9 DEF TreeInv, Undirected
  <1> QED BY <1>4, <1>10, <1>11

LEMMA DrainedIsClosed ==
    ASSUME DfsInv, queue = <<>>, phase[root] # "new", ~ Spanned
    PROVE  ~ Connected
  <1> DEFINE S == {a \in Agents : phase[a] = "ready"}
  <1>1. \A a \in Agents : phase[a] \in {"new", "ready"}
    BY DEF DfsInv, TreeInv, TypeOK, InFlight, Phases
  <1>2. root \in S
    BY <1>1 DEF DfsInv, TreeInv, TypeOK
  <1>3. ASSUME NEW a \in S, NEW n \in nbrs[a]
        PROVE  n \in S
    <2>1. n \in Agents
      BY DEF DfsInv, TreeInv, TypeOK
    <2>2. n \in ToSet(ancestors[a]) \/ phase[n] = "ready"
      BY DEF DfsInv, TreeInv, CompleteEdges, Covered
    <2>3. n \in ToSet(ancestors[a]) => phase[n] # "new"
      BY Paths DEF DfsInv, TreeInv
    <2> QED BY <1>1, <2>1, <2>2, <2>3
  <1>4. S # Agents
    BY DEF Spanned
  <1> QED BY <1>2, <1>3, <1>4 DEF Connected

(* _prepare raises DisconnectedInstance on disconnected graphs and on no     *)
(* others.                                                                   *)
THEOREM DisconnectedIsRefused == DfsSpec => []RefusesDisconnected
  <1>1. DfsInv => RefusesDisconnected
    <2> SUFFICES ASSUME DfsInv
                 PROVE  RefusesDisconnected
      OBVIOUS
    <2>1. stage = "tree" => Connected
      BY SpannedIsConnected DEF DfsInv, Verdicts
    <2>2. stage = "disconnected" => queue = <<>> /\ phase[root] # "new" /\ ~ Spanned
      BY DEF DfsInv, Verdicts, Staged
    <2>3. stage = "disconnected" => ~ Connected
      BY <2>2, DrainedIsClosed
    <2> QED BY <2>1, <2>3 DEF RefusesDisconnected
  <1> QED BY <1>1, Invariant, PTL

-----------------------------------------------------------------------------
(* The traversal is the depth-first search of one processor with a stack.    *)

(* p is the agents of the stack, by depth.                                   *)
IsStack(p) ==
    /\ p \in Seq(Agents)
    /\ \A i \in 1..Len(p) : Len(ancestors[p[i]]) = i - 1
    /\ \A a \in Agents : OnStack(a) <=> \E i \in 1..Len(p) : p[i] = a

LEMMA StackIs ==
    ASSUME NEW p, IsStack(p)
    PROVE  Stack = p
  <1> DEFINE S == {a \in Agents : OnStack(a)}
             f == [i \in 1..Len(p) |-> p[i]]
  <1>1. /\ p \in Seq(Agents)
        /\ Len(p) \in Nat
        /\ \A i \in 1..Len(p) : p[i] \in Agents /\ Len(ancestors[p[i]]) = i - 1
        /\ \A a \in Agents : OnStack(a) <=> \E i \in 1..Len(p) : p[i] = a
    BY DEF IsStack
  <1>2. p = f
    BY <1>1
  <1>3. Cardinality(S) = Len(p)
    <2>1. f \in [1..Len(p) -> S]
      BY <1>1
    <2>2. \A i, j \in 1..Len(p) : f[i] = f[j] => i = j
      <3> SUFFICES ASSUME NEW i \in 1..Len(p), NEW j \in 1..Len(p), p[i] = p[j]
                   PROVE  i = j
        OBVIOUS
      <3>1. Len(ancestors[p[i]]) = i - 1 /\ Len(ancestors[p[i]]) = j - 1
        BY <1>1
      <3> QED BY <3>1
    <2>3. \A a \in S : \E i \in 1..Len(p) : f[i] = a
      BY <1>1
    <2> HIDE DEF f, S
    <2>4. f \in Bijection(1..Len(p), S)
      BY <2>1, <2>2, <2>3 DEF Bijection, Injection, Surjection, IsInjective
    <2>5. ExistsBijection(1..Len(p), S)
      BY <2>4 DEF ExistsBijection
    <2> QED BY <1>1, <2>5, FS_CountingElements
  <1>4. ASSUME NEW i \in 1..Len(p)
        PROVE  p[i] = CHOOSE a \in Agents : OnStack(a) /\ Len(ancestors[a]) = i - 1
    <2>1. p[i] \in Agents /\ OnStack(p[i]) /\ Len(ancestors[p[i]]) = i - 1
      BY <1>1
    <2>2. ASSUME NEW a \in Agents, OnStack(a), Len(ancestors[a]) = i - 1
          PROVE  a = p[i]
      <3>1. PICK j \in 1..Len(p) : p[j] = a
        BY <1>1, <2>2
      <3>2. j - 1 = i - 1
        BY <1>1, <2>2, <3>1
      <3> QED BY <3>1, <3>2
    <2> QED BY <2>1, <2>2
  <1>5. Stack = [i \in 1..Len(p) |->
                    CHOOSE a \in Agents : OnStack(a) /\ Len(ancestors[a]) = i - 1]
    BY <1>3 DEF Stack
  <1>6. Stack = f
    BY <1>4, <1>5
  <1> QED BY <1>2, <1>6

(* The agents from the root down to x.                                       *)
Line(x) == Append(ancestors[x], x)

LEMMA LineDown ==
    ASSUME TreeInv, NEW x \in Agents
    PROVE  /\ Line(x) \in Seq(Agents)
           /\ Len(Line(x)) = Len(ancestors[x]) + 1
           /\ Line(x)[Len(Line(x))] = x
           /\ SubSeq(Line(x), 1, Len(Line(x)) - 1) = ancestors[x]
           /\ \A i \in 1..Len(Line(x)) : Len(ancestors[Line(x)[i]]) = i - 1
           /\ \A a : (\E i \in 1..Len(Line(x)) : Line(x)[i] = a)
                         <=> a = x \/ a \in ToSet(ancestors[x])
  <1> DEFINE p == Line(x)
             n == Len(ancestors[x])
  <1>1. ancestors[x] \in Seq(Agents) /\ n \in Nat
    BY DEF TreeInv, TypeOK
  <1>2. /\ p \in Seq(Agents)
        /\ Len(p) = n + 1
        /\ \A i \in 1..n : p[i] = ancestors[x][i]
        /\ p[n + 1] = x
    BY <1>1, AppendProperties DEF Line
  <1>3. SubSeq(p, 1, n) = ancestors[x]
    BY <1>1 DEF Line
  <1>4. \A i \in 1..n : Len(ancestors[ancestors[x][i]]) = i - 1
    BY DEF TreeInv, Ancestry
  <1>5. ASSUME NEW i \in 1..n + 1
        PROVE  Len(ancestors[p[i]]) = i - 1
    <2>1. CASE i = n + 1
      BY <1>1, <1>2, <2>1
    <2>2. CASE i \in 1..n
      BY <1>2, <1>4, <2>2
    <2> HIDE DEF n, p
    <2> QED BY <1>1, <2>1, <2>2
  <1>6. ASSUME NEW a
        PROVE  (\E i \in 1..n + 1 : p[i] = a) <=> a = x \/ a \in ToSet(ancestors[x])
    <2>1. a \in ToSet(ancestors[x]) <=> \E i \in 1..n : ancestors[x][i] = a
      BY <1>1, ToSetIndex
    <2> HIDE DEF n, p
    <2>2. \A i \in 1..n + 1 : i = n + 1 \/ i \in 1..n
      BY <1>1
    <2>3. n + 1 \in 1..n + 1 /\ \A i \in 1..n : i \in 1..n + 1
      BY <1>1
    <2> QED BY <1>2, <2>1, <2>2, <2>3
  <1>7. Len(p) - 1 = n
    BY <1>1, <1>2
  <1> QED BY <1>2, <1>3, <1>5, <1>6, <1>7

(* The root is the agent or above it.                                        *)
LEMMA RootAbove ==
    ASSUME TreeInv, NEW x \in Agents, phase[x] # "new"
    PROVE  root = x \/ root \in ToSet(ancestors[x])
  <1>1. CASE ancestors[x] = <<>>
    BY <1>1 DEF TreeInv, Rooted
  <1>2. CASE ancestors[x] # <<>>
    <2>1. ancestors[x] \in Seq(Agents)
      BY DEF TreeInv, TypeOK
    <2>2. 1 \in 1..Len(ancestors[x])
      BY <1>2, <2>1
    <2> DEFINE r == ancestors[x][1]
    <2>3. r \in Agents /\ r \in ToSet(ancestors[x]) /\ phase[r] # "new" /\ Len(ancestors[r]) = 0
      BY <2>2, PathElements DEF TreeInv
    <2>4. ancestors[r] = <<>>
      BY <2>3, EmptySeq DEF TreeInv, TypeOK
    <2> QED BY <2>3, <2>4 DEF TreeInv, Rooted
  <1> QED BY <1>1, <1>2

(* The top of the stack: the sender of a probe or of a RETURN, the agent     *)
(* that is told of another as seen, and the root at either end.              *)
TopAgent ==
    IF queue = <<>> THEN root
    ELSE IF queue[1].kind = "seen" THEN queue[1].to ELSE queue[1].from

LEMMA StackIsPath ==
    DfsInv /\ stage \in {"start", "dfs"} =>
        /\ TopAgent \in Agents
        /\ Stack = Line(TopAgent)
  <1> SUFFICES ASSUME DfsInv, stage \in {"start", "dfs"}
               PROVE  /\ TopAgent \in Agents
                      /\ Stack = Line(TopAgent)
    OBVIOUS
  <1>1. /\ TreeInv
        /\ root \in Agents
        /\ phase \in [Agents -> Phases]
    BY DEF DfsInv, TreeInv, TypeOK
  <1>2. ASSUME NEW x \in Agents, TopAgent = x,
               \A a \in Agents : OnStack(a) <=> a = x \/ a \in ToSet(ancestors[x])
        PROVE  /\ TopAgent \in Agents
               /\ Stack = Line(TopAgent)
    <2>1. /\ Line(x) \in Seq(Agents)
          /\ \A i \in 1..Len(Line(x)) : Len(ancestors[Line(x)[i]]) = i - 1
          /\ \A a : (\E i \in 1..Len(Line(x)) : Line(x)[i] = a)
                        <=> (a = x \/ a \in ToSet(ancestors[x]))
      BY <1>1, LineDown
    <2>2. IsStack(Line(x))
      BY <1>2, <2>1 DEF IsStack
    <2> QED BY <1>2, <2>2, StackIs
  <1>3. CASE queue = <<>>
    <2>1. \A b \in Agents : phase[b] # "dfs"
      BY <1>3 DEF DfsInv, InFlight
    <2>2. ancestors[root] = <<>>
      <3>1. phase[root] = "new" => ancestors[root] = <<>>
        BY <1>1 DEF TreeInv, Ancestry
      <3> QED BY <1>1, <3>1 DEF TreeInv, Rooted
    <2>3. \A a \in Agents : OnStack(a) <=> a = root
      BY <1>3, <2>1 DEF OnStack
    <2>4. \A a : a \notin ToSet(ancestors[root])
      BY <2>2 DEF ToSet
    <2> QED BY <1>1, <1>2, <1>3, <2>3, <2>4 DEF TopAgent
  <1>4. CASE queue # <<>>
    <2> DEFINE m == queue[1]
    <2>1. /\ m.from \in Agents /\ m.to \in Agents
          /\ m.kind \in {"explore", "return", "seen"}
          /\ Truthful(m)
          /\ Len(queue) = 1
      BY <1>4, OneMessage
    <2>2. \A a \in Agents :
             OnStack(a) <=> (phase[a] = "dfs" \/ a = root \/ (m.kind = "return" /\ m.from = a))
      <3>1. queue \in Seq(Messages)
        BY <1>1 DEF TreeInv, TypeOK
      <3>2. DOMAIN queue = {1}
        BY <2>1, <3>1
      <3> HIDE DEF m
      <3>3. \A i : i \in DOMAIN queue <=> i = 1
        BY <3>2
      <3>4. queue[1] = m
        BY DEF m
      <3> QED BY <3>3, <3>4 DEF OnStack
    <2>3. ASSUME NEW x \in Agents, Turn(nbrs, x, phase, ancestors, remaining, pending)
          PROVE  /\ phase[x] = "dfs"
                 /\ \A a \in Agents : phase[a] = "dfs" <=> a = x \/ a \in ToSet(ancestors[x])
                 /\ phase[root] = "dfs"
      <3>1. /\ phase[x] = "dfs"
            /\ \A a \in Agents : phase[a] = "dfs" => a = x \/ a \in ToSet(ancestors[x])
        BY <2>3 DEF Turn
      <3>2. \A a \in ToSet(ancestors[x]) : phase[a] = "dfs"
        BY <1>1, <3>1, Paths DEF TreeInv
      <3>3. root = x \/ root \in ToSet(ancestors[x])
        BY <1>1, <3>1, RootAbove
      <3> QED BY <3>1, <3>2, <3>3
    <2>4. CASE m.kind = "explore"
      <3>1. Turn(nbrs, m.from, phase, ancestors, remaining, pending)
        BY <2>1, <2>4 DEF Truthful, Awaits
      <3>2. TopAgent = m.from
        BY <1>4, <2>4 DEF TopAgent
      <3> HIDE DEF m
      <3>3. \A a \in Agents : phase[a] = "dfs" <=> a = m.from \/ a \in ToSet(ancestors[m.from])
        BY <2>1, <2>3, <3>1
      <3>4. phase[root] = "dfs"
        BY <2>1, <2>3, <3>1
      <3>5. \A a \in Agents : OnStack(a) <=> a = m.from \/ a \in ToSet(ancestors[m.from])
        BY <2>2, <2>4, <3>3, <3>4
      <3> QED BY <1>2, <2>1, <3>2, <3>5
    <2>5. CASE m.kind = "seen"
      <3>1. Turn(nbrs, m.to, phase, ancestors, remaining, pending)
        BY <2>1, <2>5 DEF Truthful, Awaits
      <3>2. TopAgent = m.to
        BY <1>4, <2>5 DEF TopAgent
      <3> HIDE DEF m
      <3>3. \A a \in Agents : phase[a] = "dfs" <=> a = m.to \/ a \in ToSet(ancestors[m.to])
        BY <2>1, <2>3, <3>1
      <3>4. phase[root] = "dfs"
        BY <2>1, <2>3, <3>1
      <3>5. \A a \in Agents : OnStack(a) <=> a = m.to \/ a \in ToSet(ancestors[m.to])
        BY <2>2, <2>5, <3>3, <3>4
      <3> QED BY <1>2, <2>1, <3>2, <3>5
    <2>6. CASE m.kind = "return"
      <3>1. /\ Turn(nbrs, m.to, phase, ancestors, remaining, pending)
            /\ m.to = ancestors[m.from][Len(ancestors[m.from])]
            /\ m.to \in ToSet(ancestors[m.from])
        BY <2>1, <2>6 DEF Truthful, Awaits, Above
      <3>2. TopAgent = m.from
        BY <1>4, <2>6 DEF TopAgent
      <3>3. ancestors[m.from] # <<>>
        BY <3>1 DEF ToSet
      <3> HIDE DEF m
      <3>4. IsParent(m.to, m.from, phase, ancestors)
        BY <1>1, <2>1, <3>1, <3>3, ParentPath DEF TreeInv
      <3>5. \A a : a \in ToSet(ancestors[m.from]) <=> a \in ToSet(ancestors[m.to]) \/ a = m.to
        BY <3>4 DEF IsParent
      <3>6. /\ \A a \in Agents : phase[a] = "dfs" <=> a = m.to \/ a \in ToSet(ancestors[m.to])
            /\ phase[root] = "dfs"
        BY <2>1, <2>3, <3>1
      <3>7. \A a \in Agents : OnStack(a) <=> a = m.from \/ a \in ToSet(ancestors[m.from])
        BY <2>2, <2>6, <3>5, <3>6
      <3> QED BY <1>2, <2>1, <3>2, <3>7
    <2> QED BY <2>1, <2>4, <2>5, <2>6
  <1> QED BY <1>3, <1>4

LEMMA StackIsPathNext ==
    ASSUME DfsInv', stage' \in {"start", "dfs"}, NEW x, TopAgent' = x
    PROVE  x \in Agents /\ Stack' = Append(ancestors'[x], x)
  <1>1. (DfsInv /\ stage \in {"start", "dfs"} =>
            /\ TopAgent \in Agents
            /\ Stack = Line(TopAgent))'
    BY StackIsPath, PTL
  <1> QED BY <1>1 DEF Line

Visited == {root} \cup {a \in Agents : phase[a] # "new"}

(* The steps of the search in the traversal's own terms.                     *)
LEMMA ADescent ==
    ASSUME NEW p, NEW n, p # <<>>, Stack = p,
           n = Min(nbrs[p[Len(p)]] \ Visited), nbrs[p[Len(p)]] \ Visited # {},
           Stack' = Append(p, n), Visited' = Visited \cup {n},
           nbrs' = nbrs, root' = root
    PROVE  Search!Next
  <1>1. Search!Unvisited = nbrs[p[Len(p)]] \ Visited
    BY DEF Visited, Search!Unvisited, Search!Top
  <1>2. Visited = {root} \cup {a \in Agents : phase[a] # "new"}
    BY DEF Visited
  <1>3. Visited' = ({root} \cup {a \in Agents : phase[a] # "new"})'
    BY DEF Visited
  <1>4. Search!Min(Search!Unvisited) = n
    BY <1>1 DEF Search!Min, Min
  <1>5. Search!Descend
    BY <1>1, <1>2, <1>3, <1>4 DEF Search!Descend, Search!instance
  <1> QED BY <1>5 DEF Search!Next

LEMMA ABacktrack ==
    ASSUME NEW p, p # <<>>, Stack = p, nbrs[p[Len(p)]] \subseteq Visited,
           Stack' = SubSeq(p, 1, Len(p) - 1), Visited' = Visited,
           nbrs' = nbrs, root' = root
    PROVE  Search!Next
  <1>1. nbrs[p[Len(p)]] \ Visited = {}
    OBVIOUS
  <1> QED BY <1>1 DEF Visited, Search!Next, Search!Backtrack, Search!Top, Search!Unvisited,
                      Search!instance

LEMMA AStutter ==
    ASSUME Stack' = Stack, Visited' = Visited, nbrs' = nbrs, root' = root
    PROVE  UNCHANGED Search!vars
  BY DEF Visited, Search!vars

(* An agent that advances is, or stays, the top of the stack.                *)
LEMMA AdvanceTop ==
    ASSUME DfsInv', stage' = "dfs", NEW a \in Agents, NEW anc \in Seq(Agents),
           NEW R \in SUBSET Agents, NEW sep, Advance(<<>>, a, anc, R, sep),
           anc # <<>> \/ a = root, root' = root, phase \in [Agents -> Phases],
           ancestors'[a] = anc
    PROVE  /\ Stack' = Append(anc, a)
           /\ Visited' = Visited \cup {a}
  <1>1. /\ TopAgent' = a
        /\ phase'[a] # "new"
        /\ \A b \in Agents : b # a => phase'[b] = phase[b]
    <2>1. CASE Probe(<<>>, a, anc, R)
      <3>1. queue' # <<>> /\ queue'[1].kind = "explore" /\ queue'[1].from = a
        BY <2>1 DEF Probe, Post
      <3> QED BY <2>1, <3>1 DEF Probe, TopAgent
    <2>2. CASE Complete(<<>>, a, anc, R, sep) /\ anc = <<>>
      BY <2>2 DEF Complete, TopAgent
    <2>3. CASE Complete(<<>>, a, anc, R, sep) /\ anc # <<>>
      <3>1. queue' # <<>> /\ queue'[1].kind = "return" /\ queue'[1].from = a
        <4>1. Post(<<>>, a, Last(anc), "return", sep)
          BY <2>3 DEF Complete
        <4> QED BY <4>1 DEF Post
      <3> QED BY <2>3, <3>1 DEF Complete, TopAgent
    <2> QED BY <2>1, <2>2, <2>3 DEF Advance
  <1>2. Visited' = Visited \cup {a}
    BY <1>1 DEF Visited
  <1> QED BY <1>1, <1>2, StackIsPathNext

LEMMA StartSearches ==
    ASSUME DfsInv, DfsInv', Start
    PROVE  UNCHANGED Search!vars
  <1>1. /\ stage = "start" /\ stage' = "dfs" /\ nbrs' = nbrs /\ root' = root
        /\ ancestors' = [ancestors EXCEPT ![root] = <<>>]
        /\ Advance(queue, root, <<>>, nbrs[root] \ ToSet(<<>>), nbrs[root] \cap ToSet(<<>>))
    BY DEF Start, Enter, instance
  <1>2. /\ queue = <<>>
        /\ root \in Agents
        /\ phase \in [Agents -> Phases]
        /\ ancestors \in [Agents -> Seq(Agents)]
        /\ ancestors[root] = <<>>
        /\ nbrs[root] \subseteq Agents
    BY <1>1 DEF DfsInv, TreeInv, TypeOK, Staged, Ancestry
  <1>3. Stack = Append(<<>>, root)
    BY <1>1, <1>2, StackIsPath DEF TopAgent, Line
  <1>4. Stack' = Append(<<>>, root) /\ Visited' = Visited \cup {root}
    <2>1. ancestors'[root] = <<>>
      BY <1>1, <1>2
    <2>2. <<>> \in Seq(Agents)
      OBVIOUS
    <2> DEFINE R == nbrs[root] \ ToSet(<<>>)
               sep == nbrs[root] \cap ToSet(<<>>)
    <2>3. R \in SUBSET Agents /\ Advance(<<>>, root, <<>>, R, sep)
      BY <1>1, <1>2
    <2> HIDE DEF R, sep
    <2> QED BY <1>1, <1>2, <2>1, <2>2, <2>3, AdvanceTop
  <1>5. root \in Visited
    BY DEF Visited
  <1> QED BY <1>1, <1>3, <1>4, <1>5, AStutter

LEMMA LaterProbeSearches ==
    ASSUME DfsInv, DfsInv', queue # <<>>, nbrs' = nbrs, root' = root, stage = "dfs",
           stage' = stage, NEW m, m = Head(queue), ReceiveLaterProbe(m)
    PROVE  UNCHANGED Search!vars
  <1>1. /\ m = queue[1] /\ Tail(queue) = <<>>
        /\ m.from \in Agents
        /\ m.kind = "explore"
    BY OneMessage DEF ReceiveLaterProbe, LaterProbe
  <1>2. /\ Post(<<>>, m.to, m.from, "seen", {})
        /\ phase' = phase /\ ancestors' = ancestors
    BY <1>1 DEF ReceiveLaterProbe
  <1>3. TopAgent = m.from
    BY <1>1 DEF TopAgent
  <1>4. TopAgent' = m.from
    <2>1. queue' # <<>> /\ queue'[1].kind = "seen" /\ queue'[1].to = m.from
      BY <1>2 DEF Post
    <2> QED BY <2>1 DEF TopAgent
  <1>5. Stack = Append(ancestors[m.from], m.from)
    BY <1>3, StackIsPath DEF Line
  <1>6. Stack' = Append(ancestors[m.from], m.from)
    BY <1>2, <1>4, StackIsPathNext
  <1>7. Visited' = Visited
    BY <1>2 DEF Visited
  <1> QED BY <1>5, <1>6, <1>7, AStutter

LEMMA SeenSearches ==
    ASSUME DfsInv, DfsInv', queue # <<>>, nbrs' = nbrs, root' = root, stage = "dfs",
           stage' = stage, NEW m, m = Head(queue), ReceiveSeen(m)
    PROVE  UNCHANGED Search!vars
  <1> DEFINE a == m.to
  <1>1. /\ m = queue[1] /\ Tail(queue) = <<>>
        /\ a \in Agents
        /\ m.kind = "seen"
        /\ Truthful(m)
    BY OneMessage DEF ReceiveSeen, GoodSeen
  <1>2. /\ ancestors' = ancestors
        /\ Advance(<<>>, a, ancestors[a], remaining[a], separator[a])
    BY <1>1 DEF ReceiveSeen
  <1>3. /\ phase[a] = "dfs"
        /\ ancestors[a] \in Seq(Agents)
        /\ remaining[a] \in SUBSET Agents
        /\ phase \in [Agents -> Phases]
        /\ ancestors[a] # <<>> \/ a = root
    BY <1>1 DEF Truthful, Awaits, Turn, DfsInv, TreeInv, TypeOK, Rooted
  <1>4. TopAgent = a
    BY <1>1 DEF TopAgent
  <1>5. Stack = Append(ancestors[a], a)
    BY <1>4, StackIsPath DEF Line
  <1> HIDE DEF a
  <1>6. Stack' = Append(ancestors[a], a) /\ Visited' = Visited \cup {a}
    BY <1>1, <1>2, <1>3, AdvanceTop
  <1>7. a \in Visited
    BY <1>1, <1>3 DEF Visited
  <1> QED BY <1>5, <1>6, <1>7, AStutter

LEMMA FirstProbeSearches ==
    ASSUME DfsInv, DfsInv', queue # <<>>, nbrs' = nbrs, root' = root, stage = "dfs",
           stage' = stage, NEW m, m = Head(queue), ReceiveFirstProbe(m)
    PROVE  Search!Next
  <1> DEFINE a == m.to
             x == m.from
             p == Append(ancestors[x], x)
             R == nbrs[a] \ ToSet(p)
             sep == nbrs[a] \cap ToSet(p)
  <1>1. /\ m = queue[1] /\ Tail(queue) = <<>>
        /\ a \in Agents /\ x \in Agents
        /\ m.kind = "explore"
        /\ Truthful(m)
        /\ phase[a] = "new"
    BY OneMessage DEF ReceiveFirstProbe, FirstProbe
  <1>2. /\ Awaits(nbrs, x, a, phase, ancestors, remaining, pending)
        /\ m.payload = p
        /\ a \in nbrs[x]
    BY <1>1 DEF Truthful, DfsInv, TreeInv, Undirected
  <1>3. /\ phase[x] = "dfs"
        /\ pending[x] = a
        /\ Covered(nbrs, x, phase, ancestors, remaining[x] \cup {a})
        /\ \A n \in remaining[x] : a <= n
    BY <1>1, <1>2 DEF Awaits, Turn, DfsInv, Ascending
  <1>4. /\ ancestors' = [ancestors EXCEPT ![a] = p]
        /\ Advance(<<>>, a, p, R, sep)
    BY <1>1, <1>2 DEF ReceiveFirstProbe, Enter
  <1>5. /\ ancestors \in [Agents -> Seq(Agents)]
        /\ nbrs \in [Agents -> SUBSET Agents]
        /\ phase \in [Agents -> Phases]
        /\ phase[root] # "new"
    BY DEF DfsInv, TreeInv, TypeOK, Staged
  <1>6. ancestors[x] \in Seq(Agents)
    BY <1>1, <1>5
  <1>7. /\ p \in Seq(Agents)
        /\ Len(p) = Len(ancestors[x]) + 1
        /\ p[Len(p)] = x
    BY <1>1, <1>6, AppendProperties
  <1>8. p # <<>>
    BY <1>6, <1>7
  <1>9. ancestors'[a] = p
    BY <1>1, <1>4, <1>5
  <1>10. TopAgent = x
    BY <1>1 DEF TopAgent
  <1>11. Stack = p
    BY <1>10, StackIsPath DEF Line
  <1>12. R \in SUBSET Agents
    BY <1>1, <1>5
  <1> HIDE DEF p, R, sep
  <1>13. Stack' = Append(p, a) /\ Visited' = Visited \cup {a}
    BY <1>1, <1>4, <1>5, <1>7, <1>8, <1>9, <1>12, AdvanceTop
  <1>14. a \in nbrs[x] \ Visited
    BY <1>1, <1>2, <1>5 DEF Visited
  <1>15. ASSUME NEW n \in nbrs[x] \ Visited
         PROVE  n \in remaining[x] \cup {a}
    <2>1. n \in Agents /\ phase[n] = "new"
      BY <1>1, <1>5 DEF Visited
    <2>2. n \notin ToSet(ancestors[x])
      BY <1>1, <2>1, Paths DEF DfsInv, TreeInv
    <2> QED BY <1>3, <2>1, <2>2 DEF Covered
  <1>16. a = Min(nbrs[x] \ Visited)
    <2> DEFINE S == nbrs[x] \ Visited
    <2>1. S \subseteq Nat
      BY <1>1, <1>5, AgentsAssumption
    <2>2. \A n \in S : a <= n
      BY <1>3, <1>14, <1>15, <2>1
    <2>3. a \in S
      BY <1>14
    <2> HIDE DEF S, a
    <2>4. Min(S) \in S /\ Min(S) <= a
      BY <2>1, <2>3, MinIsLeast
    <2>5. a = Min(S)
      <3> DEFINE least == Min(S)
      <3>1. a \in Nat /\ least \in Nat /\ a <= least /\ least <= a
        BY <2>1, <2>2, <2>3, <2>4
      <3> HIDE DEF least
      <3>2. a = least
        BY <3>1
      <3> QED BY <3>2 DEF least
    <2> QED BY <2>5 DEF S
  <1> QED BY <1>7, <1>8, <1>11, <1>13, <1>14, <1>16, ADescent

LEMMA ReturnSearches ==
    ASSUME DfsInv, DfsInv', queue # <<>>, nbrs' = nbrs, root' = root, stage = "dfs",
           stage' = stage, NEW m, m = Head(queue), ReceiveReturn(m)
    PROVE  Search!Next
  <1> DEFINE a == m.to
             c == m.from
             sep == separator[a] \cup (m.payload \ {a})
  <1>1. /\ m = queue[1] /\ Tail(queue) = <<>>
        /\ a \in Agents /\ c \in Agents
        /\ m.kind = "return"
        /\ Truthful(m)
    BY OneMessage DEF ReceiveReturn, GoodReturn
  <1>2. /\ phase[a] = "dfs" /\ phase[c] = "ready"
        /\ a \in ToSet(ancestors[c])
        /\ a = ancestors[c][Len(ancestors[c])]
    BY <1>1 DEF Truthful, Awaits, Turn, Above
  <1>3. /\ ancestors' = ancestors
        /\ Advance(<<>>, a, ancestors[a], remaining[a], sep)
    BY <1>1 DEF ReceiveReturn
  <1>4. /\ ancestors[a] \in Seq(Agents) /\ ancestors[c] \in Seq(Agents)
        /\ remaining[a] \in SUBSET Agents
        /\ phase \in [Agents -> Phases]
        /\ nbrs[c] \subseteq Agents
        /\ ancestors[a] # <<>> \/ a = root
        /\ TreeInv
    BY <1>1, <1>2 DEF DfsInv, TreeInv, TypeOK, Rooted
  <1>5. TopAgent = c
    BY <1>1 DEF TopAgent
  <1>6. Stack = Line(c)
    BY <1>5, StackIsPath
  <1> HIDE DEF a, c, sep
  <1>7. Stack' = Append(ancestors[a], a) /\ Visited' = Visited \cup {a}
    BY <1>1, <1>3, <1>4, AdvanceTop
  <1>8. a \in Visited
    BY <1>1, <1>2 DEF Visited
  <1>9. /\ Line(c) # <<>>
        /\ Line(c)[Len(Line(c))] = c
        /\ SubSeq(Line(c), 1, Len(Line(c)) - 1) = ancestors[c]
    <2>1. Len(Line(c)) # 0
      BY <1>1, <1>4, LineDown
    <2> QED BY <1>1, <1>4, <2>1, LineDown
  <1>10. ancestors[c] = Append(ancestors[a], a)
    <2>1. ancestors[c] # <<>>
      BY <1>2 DEF ToSet
    <2>2. IsParent(a, c, phase, ancestors)
      BY <1>1, <1>2, <1>4, <2>1, ParentPath DEF TreeInv
    <2>3. /\ Len(ancestors[c]) = Len(ancestors[a]) + 1
          /\ \A j \in 1..Len(ancestors[a]) : ancestors[a][j] = ancestors[c][j]
          /\ ancestors[c][Len(ancestors[a]) + 1] = a
      BY <1>2, <1>4, <2>2 DEF IsParent
    <2> DEFINE s == ancestors[c]
               t == Append(ancestors[a], a)
    <2>4. /\ t \in Seq(Agents)
          /\ Len(t) = Len(ancestors[a]) + 1
          /\ \A j \in 1..Len(ancestors[a]) : t[j] = ancestors[a][j]
          /\ t[Len(ancestors[a]) + 1] = a
      BY <1>1, <1>4, AppendProperties
    <2>5. s \in Seq(Agents) /\ Len(s) = Len(t) /\ Len(ancestors[a]) \in Nat
      BY <1>4, <2>3, <2>4
    <2>6. \A j \in 1..Len(s) : s[j] = t[j]
      <3> SUFFICES ASSUME NEW j \in 1..Len(s)
                   PROVE  s[j] = t[j]
        OBVIOUS
      <3>1. CASE j = Len(ancestors[a]) + 1
        BY <2>3, <2>4, <3>1
      <3>2. CASE j \in 1..Len(ancestors[a])
        BY <2>3, <2>4, <3>2
      <3> HIDE DEF s, t
      <3> QED BY <2>4, <2>5, <3>1, <3>2
    <2> HIDE DEF s, t
    <2>7. s = t
      BY <2>4, <2>5, <2>6, SeqEqual
    <2> QED BY <2>7 DEF s, t
  <1>11. nbrs[c] \subseteq Visited
    <2> SUFFICES ASSUME NEW n \in nbrs[c]
                 PROVE  n \in Visited
      OBVIOUS
    <2>1. n \in Agents
      BY <1>4
    <2>2. n \in ToSet(ancestors[c]) \/ phase[n] = "ready"
      BY <1>1, <1>2, <1>4 DEF TreeInv, CompleteEdges, Covered
    <2>3. n \in ToSet(ancestors[c]) => phase[n] # "new"
      BY <1>1, <1>4, Paths DEF TreeInv
    <2> QED BY <2>1, <2>2, <2>3 DEF Visited
  <1> QED BY <1>6, <1>7, <1>8, <1>9, <1>10, <1>11, ABacktrack

LEMMA PrepareSearches ==
    ASSUME DfsInv, DfsInv', Prepare
    PROVE  Search!Next
  <1>1. /\ queue = <<>> /\ stage = "dfs"
        /\ queue' = <<>> /\ stage' \in {"tree", "disconnected", "protocol_error"}
        /\ nbrs' = nbrs /\ root' = root /\ phase' = phase /\ ancestors' = ancestors
    BY DEF Prepare, Prepared, instance
  <1>2. /\ TreeInv
        /\ root \in Agents
        /\ phase[root] = "ready"
        /\ \A b \in Agents : phase[b] # "dfs"
        /\ nbrs[root] \subseteq Agents
    BY <1>1 DEF DfsInv, TreeInv, TypeOK, InFlight, Staged, Phases
  <1>3. ancestors[root] = <<>>
    BY <1>2 DEF TreeInv, Rooted
  <1>4. Stack = <<root>>
    <2>1. Stack = Line(root)
      BY <1>1, StackIsPath DEF TopAgent
    <2> QED BY <1>3, <2>1 DEF Line
  <1>5. Stack' = <<>>
    <2>1. \A a \in Agents : ~ OnStack(a)'
      BY <1>1, <1>2 DEF OnStack
    <2>2. {a \in Agents : OnStack(a)'} = {}
      BY <2>1
    <2>3. Cardinality({a \in Agents : OnStack(a)'}) = 0
      BY <2>2, FS_EmptySet
    <2>4. Stack' = [depth \in 1..Cardinality({a \in Agents : OnStack(a)'}) |->
                       CHOOSE a \in Agents : OnStack(a)' /\ Len(ancestors'[a]) = depth - 1]
      BY DEF Stack
    <2>5. DOMAIN Stack' = 1..0
      BY <2>3, <2>4
    <2> QED BY <2>3, <2>4, <2>5
  <1>6. nbrs[root] \subseteq Visited
    <2> SUFFICES ASSUME NEW n \in nbrs[root]
                 PROVE  n \in Visited
      OBVIOUS
    <2>1. n \notin ToSet(ancestors[root])
      BY <1>3 DEF ToSet
    <2>2. phase[n] = "ready"
      BY <1>2, <2>1 DEF TreeInv, CompleteEdges, Covered
    <2> QED BY <1>2, <2>2 DEF Visited
  <1>7. Visited' = Visited
    BY <1>1 DEF Visited
  <1> DEFINE p == <<root>>
  <1>8. p # <<>> /\ p[Len(p)] = root /\ SubSeq(p, 1, Len(p) - 1) = <<>>
    OBVIOUS
  <1> HIDE DEF p
  <1>9. Stack = p
    BY <1>4 DEF p
  <1> QED BY <1>1, <1>5, <1>6, <1>7, <1>8, <1>9, ABacktrack

LEMMA DeliverSearches ==
    ASSUME DfsInv, DfsInv', Deliver
    PROVE  Search!Next \/ UNCHANGED Search!vars
  <1> DEFINE m == Head(queue)
  <1>1. /\ stage = "dfs" /\ queue # <<>> /\ nbrs' = nbrs /\ root' = root
        /\ Acceptable(m) /\ DfsMessage(m) => Receive(m)
    BY DEF Deliver, instance
  <1>2. Receive(m)
    BY <1>1, OneMessage
  <1> HIDE DEF m
  <1>3. m = Head(queue) /\ stage' = stage
    BY <1>2 DEF m, Receive
  <1>4. CASE ReceiveFirstProbe(m)
    BY <1>1, <1>3, <1>4, FirstProbeSearches
  <1>5. CASE ReceiveLaterProbe(m)
    BY <1>1, <1>3, <1>5, LaterProbeSearches
  <1>6. CASE ReceiveReturn(m)
    BY <1>1, <1>3, <1>6, ReturnSearches
  <1>7. CASE ReceiveSeen(m)
    BY <1>1, <1>3, <1>7, SeenSearches
  <1> QED BY <1>2, <1>4, <1>5, <1>6, <1>7 DEF Receive

LEMMA SearchStarts == DfsInit => Search!Init
  <1> SUFFICES ASSUME DfsInit
               PROVE  Search!Init
    OBVIOUS
  <1>1. DfsInv
    BY InitHolds
  <1>2. /\ queue = <<>> /\ stage = "start" /\ root \in Agents /\ nbrs \in Graphs
        /\ ancestors[root] = <<>>
        /\ \A a \in Agents : phase[a] = "new"
    BY DEF DfsInit
  <1>3. Stack = <<root>>
    <2>1. Stack = Line(root)
      BY <1>1, <1>2, StackIsPath DEF TopAgent
    <2> QED BY <1>2, <2>1 DEF Line
  <1>4. {root} \cup {a \in Agents : phase[a] # "new"} = {root}
    BY <1>2
  <1> QED BY <1>2, <1>3, <1>4 DEF Search!Init

LEMMA SearchSteps == DfsInv /\ DfsInv' /\ [DfsNext]_dfsVars => [Search!Next]_Search!vars
  <1> SUFFICES ASSUME DfsInv, DfsInv', [DfsNext]_dfsVars
               PROVE  [Search!Next]_Search!vars
    OBVIOUS
  <1>1. CASE UNCHANGED dfsVars
    <2>1. /\ nbrs' = nbrs /\ root' = root /\ phase' = phase /\ stage' = stage
          /\ queue' = queue /\ ancestors' = ancestors
      BY <1>1 DEF dfsVars
    <2>2. Visited' = Visited /\ Stack' = Stack
      BY <2>1 DEF Visited, Stack, OnStack
    <2> QED BY <2>1, <2>2, AStutter
  <1>2. CASE Start
    BY <1>2, StartSearches
  <1>3. CASE Deliver
    BY <1>3, DeliverSearches
  <1>4. CASE Prepare
    BY <1>4, PrepareSearches
  <1> QED BY <1>1, <1>2, <1>3, <1>4 DEF DfsNext

(* The messages of agents.py carry out the depth-first search of one         *)
(* processor: each of them goes down to the least neighbour not visited,     *)
(* leaves an agent none of whose neighbours is left, or changes nothing.     *)
THEOREM SearchesDepthFirst == DfsSpec => Search!Steps
  BY Invariant, SearchStarts, SearchSteps, PTL DEF DfsSpec, Search!Steps
=============================================================================
