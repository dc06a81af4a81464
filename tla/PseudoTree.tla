------------------------------ MODULE PseudoTree ------------------------------
(***************************************************************************)
(* The distributed DFS of dcop_channel_assignment: AgentSession up to its  *)
(* READY phase (agents.py), the global FIFO of QueueTransport              *)
(* (protocol.py) and the harness _prepare, which starts the root, drains   *)
(* the queue and validates the tree the agents built.                      *)
(*                                                                         *)
(* Names are numbers: the code only compares them, to probe the neighbours *)
(* in sorted order.  An agent's parent is the last element of its ancestor *)
(* path, and the list _remaining is kept as the set of its elements, which *)
(* _advance takes in ascending order.  The key (sender, sequence) that     *)
(* QueueTransport.send tests is fresh because a sender numbers its own     *)
(* messages; the same test of the receiving agent is kept.                 *)
(***************************************************************************)
EXTENDS Integers, Sequences, SequencesExt

CONSTANTS
    Agents,      \* the agents' names
    Graphs       \* the constraint graphs a run may be given

NoAgent == 0

ASSUME AgentsAssumption == Agents \subseteq Nat \ {NoAgent}

ASSUME GraphsAssumption ==
    \A g \in Graphs :
        /\ g \in [Agents -> SUBSET Agents]
        /\ \A a, b \in Agents : b \in g[a] => a # b /\ a \in g[b]

VARIABLES
    nbrs,        \* the graph: the neighbours in each agent's local view
    root,        \* the agent the harness starts
    stage,       \* where the harness is
    phase,       \* AgentSession.phase
    ancestors,   \* .ancestors, the path from the root
    remaining,   \* ._remaining, neighbours not probed yet
    pending,     \* .pending, the neighbour whose answer is awaited
    children,    \* .children, in the order of their RETURNs
    childSep,    \* ._child_separators
    separator,   \* ._separator
    sent,        \* ._sequence, also the number of messages sent
    received,    \* ._received, the keys <<sender, sequence>> accepted
    queue        \* QueueTransport._queue

instance == <<nbrs, root>>
dfsVars == <<nbrs, root, stage, phase, ancestors, remaining, pending, children,
          childSep, separator, sent, received, queue>>

Above(a) == ToSet(ancestors[a])
Parent(a) == IF ancestors[a] = <<>> THEN NoAgent ELSE Last(ancestors[a])
Key(m) == <<m.from, m.seq>>

DfsInit ==
    /\ nbrs \in Graphs
    /\ root \in Agents
    /\ stage = "start"
    /\ phase = [a \in Agents |-> "new"]
    /\ ancestors = [a \in Agents |-> <<>>]
    /\ remaining = [a \in Agents |-> {}]
    /\ pending = [a \in Agents |-> NoAgent]
    /\ children = [a \in Agents |-> <<>>]
    /\ childSep = [a \in Agents |-> [c \in Agents |-> {}]]
    /\ separator = [a \in Agents |-> {}]
    /\ sent = [a \in Agents |-> 0]
    /\ received = [a \in Agents |-> {}]
    /\ queue = <<>>

-----------------------------------------------------------------------------
(* Agent a, handling a message that leaves the queue with the messages rest, *)
(* sends one message of its own.                                             *)
Post(rest, a, to, kind, payload) ==
    /\ queue' = Append(rest, [kind |-> kind, from |-> a, to |-> to,
                              seq |-> sent[a], payload |-> payload])
    /\ sent' = [sent EXCEPT ![a] = @ + 1]

(* The neighbours probed from the last one down.                             *)
ProbeLast(rest, a, anc, rem) ==
    /\ rem # {}
    /\ phase' = [phase EXCEPT ![a] = "dfs"]
    /\ pending' = [pending EXCEPT ![a] = Max(rem)]
    /\ remaining' = [remaining EXCEPT ![a] = rem \ {Max(rem)}]
    /\ Post(rest, a, Max(rem), "explore", Append(anc, a))

(* Probe the least neighbour left, with the path down to a itself. *)
Probe(rest, a, anc, rem) ==
    /\ rem # {}
    /\ phase' = [phase EXCEPT ![a] = "dfs"]
    /\ pending' = [pending EXCEPT ![a] = Min(rem)]
    /\ remaining' = [remaining EXCEPT ![a] = rem \ {Min(rem)}]
    /\ Post(rest, a, Min(rem), "explore", Append(anc, a))

(* No neighbour is left: report the separator of the subtree to the parent. *)
Complete(rest, a, anc, rem, sep) ==
    /\ rem = {}
    /\ phase' = [phase EXCEPT ![a] = "ready"]
    /\ pending' = [pending EXCEPT ![a] = NoAgent]
    /\ remaining' = [remaining EXCEPT ![a] = {}]
    /\ IF anc = <<>>
       THEN queue' = rest /\ UNCHANGED sent
       ELSE Post(rest, a, Last(anc), "return", sep)

Advance(rest, a, anc, rem, sep) ==
    Probe(rest, a, anc, rem) \/ Complete(rest, a, anc, rem, sep)

(* A separator that starts from every neighbour.                             *)
EnterWide(rest, a, path) ==
    /\ ancestors' = [ancestors EXCEPT ![a] = path]
    /\ separator' = [separator EXCEPT ![a] = nbrs[a]]
    /\ Advance(rest, a, path, nbrs[a] \ ToSet(path), nbrs[a])

(* An agent that probes its ancestors, too.                                  *)
EnterProbingAll(rest, a, path) ==
    LET sep == nbrs[a] \cap ToSet(path)
    IN  /\ ancestors' = [ancestors EXCEPT ![a] = path]
        /\ separator' = [separator EXCEPT ![a] = sep]
        /\ Advance(rest, a, path, nbrs[a], sep)

(* An agent enters the search below the ancestors named by path. *)
Enter(rest, a, path) ==
    LET sep == nbrs[a] \cap ToSet(path)
    IN  /\ ancestors' = [ancestors EXCEPT ![a] = path]
        /\ separator' = [separator EXCEPT ![a] = sep]
        /\ Advance(rest, a, path, nbrs[a] \ ToSet(path), sep)

Start ==
    /\ stage = "start"
    /\ stage' = "dfs"
    /\ Enter(queue, root, <<>>)
    /\ UNCHANGED <<instance, children, childSep, received>>

-----------------------------------------------------------------------------
(* AgentSession.receive, one action for each way a message is accepted.      *)

Acceptable(m) == m.from \in nbrs[m.to] /\ Key(m) \notin received[m.to]

FirstProbe(m) ==
    /\ m.kind = "explore"
    /\ phase[m.to] = "new"
    /\ m.to \notin ToSet(m.payload)

(* A completed agent is probed by an ancestor across a non-tree edge. *)
LaterProbe(m) ==
    /\ m.kind = "explore"
    /\ phase[m.to] = "ready"
    /\ \E i \in DOMAIN ancestors[m.to] :
          /\ ancestors[m.to][i] = m.from
          /\ m.payload = SubSeq(ancestors[m.to], 1, i)

Awaited(m) == phase[m.to] = "dfs" /\ m.from = pending[m.to]

GoodReturn(m) ==
    /\ m.kind = "return"
    /\ Awaited(m)
    /\ m.to \in m.payload
    /\ m.payload \subseteq Above(m.to) \cup {m.to}

GoodSeen(m) == m.kind = "seen" /\ Awaited(m)

Accept(m) == received' = [received EXCEPT ![m.to] = @ \cup {Key(m)}]

ReceiveFirstProbe(m) ==
    /\ FirstProbe(m)
    /\ Accept(m)
    /\ Enter(Tail(queue), m.to, m.payload)
    /\ UNCHANGED <<children, childSep>>

ReceiveLaterProbe(m) ==
    /\ LaterProbe(m)
    /\ Accept(m)
    /\ Post(Tail(queue), m.to, m.from, "seen", {})
    /\ UNCHANGED <<phase, ancestors, remaining, pending, children, childSep,
                   separator>>

ReceiveReturn(m) ==
    LET a == m.to
        sep == separator[a] \cup (m.payload \ {a})
    IN  /\ GoodReturn(m)
        /\ Accept(m)
        /\ children' = [children EXCEPT ![a] = Append(@, m.from)]
        /\ childSep' = [childSep EXCEPT ![a][m.from] = m.payload]
        /\ separator' = [separator EXCEPT ![a] = sep]
        /\ Advance(Tail(queue), a, ancestors[a], remaining[a], sep)
        /\ UNCHANGED ancestors

ReceiveSeen(m) ==
    LET a == m.to
    IN  /\ GoodSeen(m)
        /\ Accept(m)
        /\ Advance(Tail(queue), a, ancestors[a], remaining[a], separator[a])
        /\ UNCHANGED <<children, childSep, separator, ancestors>>

Receive(m) ==
    /\ \/ ReceiveFirstProbe(m)
       \/ ReceiveLaterProbe(m)
       \/ ReceiveReturn(m)
       \/ ReceiveSeen(m)
    /\ UNCHANGED stage

DfsMessage(m) == FirstProbe(m) \/ LaterProbe(m) \/ GoodReturn(m) \/ GoodSeen(m)

(* Any other message raises ProtocolError, which ends the run.               *)
Reject ==
    /\ stage' = "protocol_error"
    /\ queue' = Tail(queue)
    /\ UNCHANGED <<phase, ancestors, remaining, pending, children, childSep,
                   separator, sent, received>>

(* One turn of QueueTransport.drain: the oldest message goes to its agent.   *)
Deliver ==
    /\ stage = "dfs"
    /\ queue # <<>>
    /\ LET m == Head(queue)
       IN  IF Acceptable(m) /\ DfsMessage(m) THEN Receive(m) ELSE Reject
    /\ UNCHANGED instance

-----------------------------------------------------------------------------
(* validate_pseudotree, over the positions that the agents report.           *)

Subtree(a) == {d \in Agents : d = a \/ a \in Above(d)}
Boundary(a) == {n \in Agents \ Subtree(a) : nbrs[n] \cap Subtree(a) # {}}

ParentChain(a) ==
    /\ a \notin Above(a)
    /\ IsInjective(ancestors[a])
    /\ \A i \in DOMAIN ancestors[a] :
          Parent(ancestors[a][i]) = IF i = 1 THEN NoAgent ELSE ancestors[a][i - 1]

ChildrenMatch(a) ==
    /\ ToSet(children[a]) = {c \in Agents : Parent(c) = a}
    /\ IsInjective(children[a])

ValidPosition(a) ==
    /\ ParentChain(a)
    /\ ChildrenMatch(a)
    /\ ToSet(children[a]) \cup ({Parent(a)} \ {NoAgent}) \subseteq nbrs[a]
    /\ \A n \in nbrs[a] : n \in Above(a) \/ a \in Above(n)
    /\ separator[a] = Boundary(a)

(* An agent owns the factors whose other endpoint is an ancestor. *)
Owns(a, b) == b \in nbrs[a] /\ b \in Above(a)

ValidTree ==
    /\ {a \in Agents : Parent(a) = NoAgent} = {root}
    /\ \A a \in Agents : ValidPosition(a)
    /\ \A a \in Agents : \A b \in nbrs[a] : Owns(a, b) # Owns(b, a)

Spanned == \A a \in Agents : phase[a] = "ready"

(* The queue drained, and an unfinished search waited for.                   *)
PreparedWhenSpanned(next) ==
    /\ stage = "dfs"
    /\ queue = <<>>
    /\ Spanned
    /\ stage' = IF ValidTree THEN next ELSE "protocol_error"
    /\ UNCHANGED <<instance, phase, ancestors, remaining, pending, children,
                   childSep, separator, sent, received, queue>>

(* The queue is empty: _prepare checks that the search spanned the graph     *)
(* and that the tree is valid before it hands the agents on.                 *)
Prepared(next) ==
    /\ stage = "dfs"
    /\ queue = <<>>
    /\ stage' = IF ~ Spanned THEN "disconnected"
                ELSE IF ValidTree THEN next ELSE "protocol_error"
    /\ UNCHANGED <<instance, phase, ancestors, remaining, pending, children,
                   childSep, separator, sent, received, queue>>

Prepare == Prepared("tree")

DfsNext == Start \/ Deliver \/ Prepare

DfsSpec == DfsInit /\ [][DfsNext]_dfsVars

(* _prepare runs to its end in one thread: some step is always taken while   *)
(* one can be.                                                               *)
FairDfsSpec == DfsSpec /\ WF_dfsVars(DfsNext)

-----------------------------------------------------------------------------
(* Properties.                                                               *)

Phases == {"new", "dfs", "ready"}
Stages == {"start", "dfs", "tree", "disconnected", "protocol_error"}

Messages ==
    [kind : {"explore"}, from : Agents, to : Agents, seq : Nat, payload : Seq(Agents)]
    \cup [kind : {"return", "seen"}, from : Agents, to : Agents, seq : Nat,
          payload : SUBSET Agents]

(* The values the fields of AgentSession and of the transport may hold.      *)
TypeOK ==
    /\ nbrs \in [Agents -> SUBSET Agents]
    /\ root \in Agents
    /\ stage \in Stages
    /\ phase \in [Agents -> Phases]
    /\ ancestors \in [Agents -> Seq(Agents)]
    /\ remaining \in [Agents -> SUBSET Agents]
    /\ pending \in [Agents -> Agents \cup {NoAgent}]
    /\ children \in [Agents -> Seq(Agents)]
    /\ childSep \in [Agents -> [Agents -> SUBSET Agents]]
    /\ separator \in [Agents -> SUBSET Agents]
    /\ sent \in [Agents -> Nat]
    /\ received \in [Agents -> SUBSET (Agents \X Nat)]
    /\ queue \in Seq(Messages)

(* Every agent can be reached from the root: no proper set of agents that    *)
(* contains the root is closed under adjacency.                              *)
Connected ==
    \A S \in SUBSET Agents :
        (root \in S /\ \A a \in S : nbrs[a] \subseteq S) => S = Agents

(* No agent ever raises ProtocolError on a message of another agent, whatever *)
(* phase the message finds it in, and the tree they build always passes      *)
(* validate_pseudotree; nor, in the whole solve, does any check at the end   *)
(* of a stage fail.                                                          *)
NoProtocolError == stage # "protocol_error"

(* The search is one token: while it runs exactly one message is in flight,  *)
(* and _prepare finds the queue empty only when the root has completed.      *)
OneToken ==
    /\ Len(queue) <= 1
    /\ (stage = "dfs" /\ queue = <<>>) => phase[root] = "ready"

(* A completed agent has no edge to an agent outside its own root path and   *)
(* its subtree, at every moment of the search and not only at its end: an    *)
(* edge between siblings would break the independence UTIL relies on.        *)
NoCrossEdge ==
    \A a \in Agents : phase[a] = "ready" =>
        \A n \in nbrs[a] : \/ n \in Above(a)
                          \/ (phase[n] = "ready" /\ a \in Above(n))

(* _prepare refuses an instance exactly when its graph is disconnected.      *)
RefusesDisconnected ==
    /\ stage = "disconnected" => ~ Connected
    /\ stage = "tree" => Connected

(* The harness always reaches a verdict, and the one the graph deserves.     *)
Verdict ==
    /\ Connected => <>(stage = "tree")
    /\ ~ Connected => <>(stage = "disconnected")

(* The messages carry out a depth-first search: the stack is the agents in   *)
(* their DFS phase, plus the one whose RETURN is in flight, by depth; the    *)
(* root leaves it when the harness finds the queue drained.                  *)
OnStack(a) ==
    \/ phase[a] = "dfs"
    \/ a = root /\ stage \in {"start", "dfs"}
    \/ \E i \in DOMAIN queue : queue[i].kind = "return" /\ queue[i].from = a

Stack ==
    [depth \in 1..Cardinality({a \in Agents : OnStack(a)}) |->
        CHOOSE a \in Agents : OnStack(a) /\ Len(ancestors[a]) = depth - 1]

Search == INSTANCE DepthFirst
            WITH path <- Stack,
                 visited <- {root} \cup {a \in Agents : phase[a] # "new"}

IsDepthFirst == Search!Spec
=============================================================================
