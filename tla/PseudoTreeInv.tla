---------------------------- MODULE PseudoTreeInv ----------------------------
(***************************************************************************)
(* The inductive invariant of the distributed DFS: what the local states   *)
(* of the agents and the one message in flight have to do with each other. *)
(* Its parts take the fields they speak of as arguments, so that they can   *)
(* also be said of the moment between the two halves of a step, when an     *)
(* agent has taken its message in and has not yet sent its own.             *)
(***************************************************************************)
EXTENDS PseudoTree

(* The path of every agent is the path of its parent, and the parent: the    *)
(* i-th agent on a path is at depth i and has the first i-1 of it above it.  *)
(* No agent on a path is new, and above an agent in its search all are.      *)
Ancestry(ph, anc) ==
    /\ ph \in [Agents -> Phases]
    /\ anc \in [Agents -> Seq(Agents)]
    /\ \A b \in Agents :
          /\ ph[b] = "new" => anc[b] = <<>>
          /\ \A i \in 1..Len(anc[b]) :
                /\ ph[anc[b][i]] # "new"
                /\ ph[b] = "dfs" => ph[anc[b][i]] = "dfs"
                /\ Len(anc[anc[b][i]]) = i - 1
                /\ \A j \in 1..i - 1 : anc[anc[b][i]][j] = anc[b][j]

(* Only the root has no parent, and a parent is a neighbour.                 *)
Rooted(g, r, ph, anc) ==
    \A b \in Agents : ph[b] # "new" =>
        /\ anc[b] = <<>> <=> b = r
        /\ anc[b] # <<>> => anc[b][Len(anc[b])] \in g[b]

(* Every neighbour of b is above it, in R, or completed and below it.        *)
Covered(g, b, ph, anc, R) ==
    \A n \in g[b] :
        \/ n \in ToSet(anc[b])
        \/ n \in R
        \/ ph[n] = "ready" /\ b \in ToSet(anc[n])

CompleteEdges(g, ph, anc) ==
    \A b \in Agents : ph[b] = "ready" => Covered(g, b, ph, anc, {})

(* What b still has to probe.                                                *)
OpenEdges(g, b, anc, R) == R \subseteq g[b] /\ R \cap ToSet(anc[b]) = {}

(* Agent a may probe n: n is new, or completed below a.                      *)
Probeable(n, a, ph, anc) ==
    ph[n] = "new" \/ (ph[n] = "ready" /\ a \in ToSet(anc[n]))

(* x is the agent whose turn it is: the search stack is x and those above,   *)
(* each of which awaits the answer of the next.                              *)
Turn(g, x, ph, anc, rem, pend) ==
    /\ rem \in [Agents -> SUBSET Agents]
    /\ pend \in [Agents -> Agents \cup {NoAgent}]
    /\ ph[x] = "dfs"
    /\ \A b \in Agents : ph[b] = "dfs" => b = x \/ b \in ToSet(anc[x])
    /\ \A i \in 1..Len(anc[x]) :
          LET b == anc[x][i]
          IN  /\ pend[b] = IF i = Len(anc[x]) THEN x ELSE anc[x][i + 1]
              /\ OpenEdges(g, b, anc, rem[b])
              /\ Covered(g, b, ph, anc, rem[b] \cup {pend[b]})

(* x, whose turn it is, awaits the answer of n.                              *)
Awaits(g, x, n, ph, anc, rem, pend) ==
    /\ Turn(g, x, ph, anc, rem, pend)
    /\ pend[x] = n
    /\ OpenEdges(g, x, anc, rem[x])
    /\ Covered(g, x, ph, anc, rem[x] \cup {n})

(* The children of b are the completed agents with parent b, but for those   *)
(* of late, whose RETURN has not arrived.                                    *)
Adopted(ph, anc, ch, late) ==
    \A b \in Agents :
        /\ IsInjective(ch[b])
        /\ \A c \in Agents :
              c \in ToSet(ch[b]) <=> /\ ph[c] = "ready"
                                     /\ anc[c] # <<>>
                                     /\ anc[c][Len(anc[c])] = b
                                     /\ c \notin late

(* d is b, or below b and already reported to b.                             *)
Known(d, b, ph, anc, ch) ==
    \/ d = b
    \/ ph[b] = "ready" /\ b \in ToSet(anc[d])
    \/ ph[b] = "dfs" /\ \E c \in ToSet(ch[b]) : d = c \/ c \in ToSet(anc[d])

(* The separator of b is the agents above b that have an edge to b or to an  *)
(* agent known to be below it.                                               *)
Separated(g, ph, anc, ch, sep) ==
    \A b \in Agents : ph[b] # "new" =>
        \A n \in Agents :
            n \in sep[b] <=> /\ n \in ToSet(anc[b])
                             /\ \E d \in Agents : Known(d, b, ph, anc, ch)
                                                  /\ n \in g[d]

(* Agent a has taken its message in and has R left to probe; nothing is in   *)
(* flight.                                                                   *)
Holding(g, r, a, R, ph, anc, rem, pend, ch, sep) ==
    /\ Ancestry(ph, anc)
    /\ Rooted(g, r, ph, anc)
    /\ CompleteEdges(g, ph, anc)
    /\ Turn(g, a, ph, anc, rem, pend)
    /\ OpenEdges(g, a, anc, R)
    /\ Covered(g, a, ph, anc, R)
    /\ Adopted(ph, anc, ch, {})
    /\ Separated(g, ph, anc, ch, sep)

(* Keys are never used twice.                                                *)
FreshKeys ==
    /\ \A b \in Agents : \A key \in received[b] : key[2] < sent[key[1]]
    /\ \A i \in 1..Len(queue) :
          /\ queue[i].seq < sent[queue[i].from]
          /\ Key(queue[i]) \notin received[queue[i].to]

(* The message in flight says the truth about its sender, and its recipient  *)
(* is the agent, or belongs to the agent, whose turn it is.                  *)
Truthful(m) ==
    /\ m.from \in nbrs[m.to]
    /\ \/ /\ m.kind = "explore"
          /\ Awaits(nbrs, m.from, m.to, phase, ancestors, remaining, pending)
          /\ m.payload = Append(ancestors[m.from], m.from)
          /\ Probeable(m.to, m.from, phase, ancestors)
       \/ /\ m.kind \in {"return", "seen"}
          /\ Awaits(nbrs, m.to, m.from, phase, ancestors, remaining, pending)
          /\ phase[m.from] = "ready"
          /\ m.to \in Above(m.from)
          /\ m.kind = "return" =>
                /\ m.payload = separator[m.from]
                /\ m.to = ancestors[m.from][Len(ancestors[m.from])]

(* Agents whose RETURN is in flight.                                         *)
Late == {queue[i].from : i \in {i \in 1..Len(queue) : queue[i].kind = "return"}}

(* While an agent is in its search there is one message in flight.           *)
InFlight ==
    /\ Len(queue) <= 1
    /\ queue # <<>> => Truthful(queue[1])
    /\ queue = <<>> => \A b \in Agents : phase[b] # "dfs"

(* Nothing happens before the root starts, and messages travel in the DFS    *)
(* stage only.                                                               *)
Staged ==
    /\ stage = "start" => queue = <<>> /\ \A b \in Agents : phase[b] = "new"
    /\ stage # "start" => phase[root] # "new"
    /\ queue # <<>> => stage = "dfs"

Verdicts ==
    /\ stage # "protocol_error"
    /\ stage = "tree" => Spanned
    /\ stage = "disconnected" => ~ Spanned

(* An agent in its search has probed its neighbours from the least one up.    *)
Ascending ==
    \A b \in Agents : phase[b] = "dfs" => \A n \in remaining[b] : pending[b] <= n

Undirected == \A a, b \in Agents : b \in nbrs[a] => a # b /\ a \in nbrs[b]

(* What the tree is between two steps: what is already built is a depth-first *)
(* tree with its separators.                                                 *)
TreeInv ==
    /\ TypeOK
    /\ Undirected
    /\ Ancestry(phase, ancestors)
    /\ Rooted(nbrs, root, phase, ancestors)
    /\ CompleteEdges(nbrs, phase, ancestors)
    /\ Adopted(phase, ancestors, children, Late)
    /\ Separated(nbrs, phase, ancestors, children, separator)

(* The search is one token walking such a tree: the agents at work are one   *)
(* path of it, and the message in flight is what moves the token.            *)
DfsInv ==
    /\ TreeInv
    /\ Ascending
    /\ FreshKeys
    /\ InFlight
    /\ Staged
    /\ Verdicts
=============================================================================
