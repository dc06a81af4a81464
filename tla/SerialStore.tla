------------------------------ MODULE SerialStore ------------------------------
(***************************************************************************)
(* What ecora/store.py promises, without files, locks, processes and       *)
(* crashes: one log, in which every event was valid after all of those     *)
(* before it, and a consumer that is called only in the moment the claim   *)
(* for the call enters the log.  ArtifactStore implements it.              *)
(***************************************************************************)
EXTENDS StoreLog

VARIABLES
    log,         \* the events recorded
    stored,      \* the objects recorded
    callbacks    \* the calls of consumers made so far, as <<consumer, message>>

vars == <<log, stored, callbacks>>

Init ==
    /\ log = <<>>
    /\ stored = {}
    /\ callbacks = <<>>

Store ==
    /\ \E o \in Objects \ stored : stored' = stored \cup {o}
    /\ UNCHANGED <<log, callbacks>>

Record(e) ==
    /\ Valid(log, e)
    /\ Needs(e) \subseteq stored
    /\ log' = Append(log, e)
    /\ UNCHANGED stored

Call(c, m) ==
    /\ Record(DeliveryClaimed(c, m))
    /\ callbacks' = Append(callbacks, <<c, m>>)

Next ==
    \/ Store
    \/ \E e \in Proposals(log) : Record(e) /\ UNCHANGED callbacks
    \/ \E c \in Consumers, m \in Message : Call(c, m)

Spec == Init /\ [][Next]_vars
===============================================================================
