------------------------------ MODULE DepthFirst ------------------------------
(***************************************************************************)
(* What the distributed traversal of agents.py promises: the pre-order     *)
(* depth-first search that one processor with a stack would run.  The      *)
(* search visits the neighbours of the agent on top of the stack in        *)
(* ascending identifier order, and leaves an agent only when every one of  *)
(* its neighbours has been visited.                                        *)
(***************************************************************************)
EXTENDS Integers, Sequences, FiniteSetsExt

CONSTANTS
    Agents,      \* agent identifiers, ordered like the sorted names
    Graphs       \* the constraint graphs a run may be given

VARIABLES
    nbrs,        \* the constraint graph of this run
    root,        \* the agent the harness starts
    path,        \* the stack, root first
    visited      \* agents that have ever been on the stack

instance == <<nbrs, root>>
vars == <<nbrs, root, path, visited>>

Top == path[Len(path)]
Unvisited == nbrs[Top] \ visited

Init ==
    /\ nbrs \in Graphs
    /\ root \in Agents
    /\ path = <<root>>
    /\ visited = {root}

(* Go down to the least unvisited neighbour of the top of the stack. *)
Descend ==
    /\ path # <<>>
    /\ Unvisited # {}
    /\ path' = Append(path, Min(Unvisited))
    /\ visited' = visited \cup {Min(Unvisited)}
    /\ UNCHANGED instance

(* Leave an agent all of whose neighbours have been visited. *)
Backtrack ==
    /\ path # <<>>
    /\ Unvisited = {}
    /\ path' = SubSeq(path, 1, Len(path) - 1)
    /\ UNCHANGED <<instance, visited>>

Next == Descend \/ Backtrack

Steps == Init /\ [][Next]_vars

Spec == Steps /\ WF_vars(Next)
=============================================================================
