----------------------------- MODULE ArtifactStore -----------------------------
(***************************************************************************)
(* ecora/store.py: objects and a journal on disk, store objects that open  *)
(* them one at a time under a lock file, and the processes and disks that  *)
(* fail under them.                                                        *)
(*                                                                         *)
(* A writer is a place for a store object: one process, or one in the      *)
(* callback of another's deliver.  The hash of a journal line, which       *)
(* covers its predecessor's, is the sequence of events down to that line:  *)
(* `previous' is the sequence the writer had in memory, and stands for the *)
(* fields sequence and previous_hash.  A line cut short is never followed  *)
(* by another, so it is a flag.  The record cache is left out: it answers  *)
(* only for objects this process has put or read whole.                    *)
(*                                                                         *)
(* A write can end in three ways besides success, each with nothing, a     *)
(* part or all of it on disk: with an OSError (ENOSPC, a failed fsync),    *)
(* which poisons the store object, or with the death of the process, which *)
(* leaves the lock file.                                                   *)
(***************************************************************************)
EXTENDS StoreLog

CONSTANTS
    Writers,      \* store objects that may be open
    MaxFailures   \* bound on the IntegrityFailure events of a journal

NoWriter == "nobody"

ASSUME WritersAssumption == NoWriter \notin Writers

VARIABLES
    lock,        \* who created writer.lock, if it exists
    status,      \* _closed and _poisoned of each store object
    events,      \* _events of each store object
    running,     \* its deliver calls in progress, the innermost last
    objects,     \* the files of objects/
    journal,     \* the complete lines of journal.jsonl
    torn,        \* whether an incomplete line follows them
    callbacks    \* history: the calls of consumers, <<consumer, message>>

disk == <<objects, journal, torn>>
vars == <<lock, status, events, running, objects, journal, torn, callbacks>>

Init ==
    /\ lock = NoWriter
    /\ status = [w \in Writers |-> "closed"]
    /\ events = [w \in Writers |-> <<>>]
    /\ running = [w \in Writers |-> <<>>]
    /\ objects = [o \in Objects |-> "absent"]
    /\ journal = <<>>
    /\ torn = FALSE
    /\ callbacks = <<>>

(* The events of the first n lines, and of all of them. *)
Prefix(n) == [k \in 1..n |-> journal[k].event]
Log == Prefix(Len(journal))

(* get finds an object that is complete and hashes to its name. *)
Whole == {o \in Objects : objects[o] = "whole"}
Resolved(e) == Needs(e) \subseteq Whole

-------------------------------------------------------------------------------
(* Opening and closing. *)

Replayable ==
    \A n \in 1..Len(journal) :
        /\ journal[n].previous = Prefix(n - 1)
        /\ Valid(Prefix(n - 1), journal[n].event)
        /\ Resolved(journal[n].event)

(* A store opened without the exclusive creation of the lock file. *)
OpenUnlocked(w) ==
    /\ status[w] = "closed"
    /\ running[w] = <<>>
    /\ ~torn
    /\ Replayable
    /\ ~Unfinished(Log)
    /\ lock' = w
    /\ status' = [status EXCEPT ![w] = "open"]
    /\ events' = [events EXCEPT ![w] = Log]
    /\ UNCHANGED <<running, disk, callbacks>>

(* When the journal is refused, the lock is given back and nothing changes. *)
Open(w) ==
    /\ status[w] = "closed"
    /\ running[w] = <<>>
    /\ lock = NoWriter
    /\ ~torn
    /\ Replayable
    /\ ~Unfinished(Log)
    /\ lock' = w
    /\ status' = [status EXCEPT ![w] = "open"]
    /\ events' = [events EXCEPT ![w] = Log]
    /\ UNCHANGED <<running, disk, callbacks>>

(* The process dies while it replays the journal. *)
DieOpening(w) ==
    /\ status[w] = "closed"
    /\ running[w] = <<>>
    /\ lock = NoWriter
    /\ lock' = w
    /\ UNCHANGED <<status, events, running, disk, callbacks>>

Close(w) ==
    /\ status[w] \in {"open", "poisoned"}
    /\ lock' = NoWriter
    /\ status' = [status EXCEPT ![w] = "closed"]
    /\ events' = [events EXCEPT ![w] = <<>>]
    /\ UNCHANGED <<running, disk, callbacks>>

(* What the death of w's process leaves behind; the lock file stays. *)
Gone(w) ==
    /\ status' = [status EXCEPT ![w] = "closed"]
    /\ events' = [events EXCEPT ![w] = <<>>]
    /\ running' = [running EXCEPT ![w] = <<>>]
    /\ UNCHANGED lock

Die(w) ==
    /\ status[w] # "closed" \/ running[w] # <<>>
    /\ Gone(w)
    /\ UNCHANGED <<disk, callbacks>>

(* The operator, who has made sure that no process holds the lock. *)
RemoveLock ==
    /\ lock # NoWriter
    /\ status[lock] = "closed"
    /\ lock' = NoWriter
    /\ UNCHANGED <<status, events, running, disk, callbacks>>

-------------------------------------------------------------------------------
(* put.  An object that exists is only compared, and one that exists in part *)
(* is refused; neither changes anything.                                     *)

Put(w, o) ==
    /\ status[w] = "open"
    /\ objects[o] = "absent"
    /\ objects' = [objects EXCEPT ![o] = "whole"]
    /\ UNCHANGED <<lock, status, events, running, journal, torn, callbacks>>

PutFails(w, o) ==
    /\ status[w] = "open"
    /\ objects[o] = "absent"
    /\ \E left \in {"absent", "torn", "whole"} : objects' = [objects EXCEPT ![o] = left]
    /\ status' = [status EXCEPT ![w] = "poisoned"]
    /\ UNCHANGED <<lock, events, running, journal, torn, callbacks>>

PutDies(w, o) ==
    /\ status[w] = "open"
    /\ objects[o] = "absent"
    /\ \E left \in {"torn", "whole"} : objects' = [objects EXCEPT ![o] = left]
    /\ Gone(w)
    /\ UNCHANGED <<journal, torn, callbacks>>

-------------------------------------------------------------------------------
(* append: validated in memory, then written. *)

Accepts(w, e) ==
    /\ status[w] = "open"
    /\ Valid(events[w], e)
    /\ Resolved(e)

Line(w, e) == [previous |-> events[w], event |-> e]

Appended(w, e) ==
    /\ journal' = Append(journal, Line(w, e))
    /\ events' = [events EXCEPT ![w] = Append(@, e)]
    /\ UNCHANGED <<lock, status, torn>>

(* What a write that did not succeed leaves in the journal. *)
Remains(w, e) ==
    \/ UNCHANGED <<journal, torn>>
    \/ torn' = TRUE /\ UNCHANGED journal
    \/ journal' = Append(journal, Line(w, e)) /\ UNCHANGED torn

(* A failed write that leaves the store object in use. *)
Forgiven(w, e) ==
    /\ Remains(w, e)
    /\ UNCHANGED <<lock, status, events>>

Failed(w, e) ==
    /\ Remains(w, e)
    /\ status' = [status EXCEPT ![w] = "poisoned"]
    /\ UNCHANGED <<lock, events>>

Died(w, e) ==
    /\ Remains(w, e)
    /\ Gone(w)

(* An append outside deliver. *)
Write(w, e) ==
    /\ Accepts(w, e)
    /\ \/ Appended(w, e) /\ UNCHANGED running
       \/ Failed(w, e) /\ UNCHANGED running
       \/ Died(w, e)
    /\ UNCHANGED <<objects, callbacks>>

(* A run already admitted with the same data is left as it is. *)
RegisterRun(w, r, t) == Write(w, RunAdmitted(r, t))
RecordInput(w, i) == Write(w, InputRecorded(i))
Start(w, i) == Write(w, Started(i))
RecordOutput(w, i, refs) == Write(w, OutputRecorded(i, Numbering(events[w], i), refs))
Dispatch(w, i) == Commands[i] # {} /\ Write(w, DispatchIntent(i))
RecordFailure(w) ==
    /\ Cardinality({n \in DOMAIN journal : journal[n].event = IntegrityFailure}) < MaxFailures
    /\ Write(w, IntegrityFailure)

-------------------------------------------------------------------------------
(* deliver: claim, call the consumer, acknowledge.  While the consumer runs  *)
(* it may use the store itself.                                              *)

Permitted(w, c, m) == OutputOf(events[w], m[1]).refs = {} \/ c \in Cleared

Deliver(w, c, m) ==
    LET e == DeliveryClaimed(c, m)
    IN  /\ Accepts(w, e)
        /\ Permitted(w, c, m)
        /\ \/ /\ Appended(w, e)
              /\ running' = [running EXCEPT ![w] = Append(@, <<c, m>>)]
              /\ callbacks' = Append(callbacks, <<c, m>>)
           \/ Failed(w, e) /\ UNCHANGED <<running, callbacks>>
           \/ Died(w, e) /\ UNCHANGED callbacks
        /\ UNCHANGED objects

Popped(w) == running' = [running EXCEPT ![w] = Front(@)]

(* The consumer returns, and the delivery is acknowledged. *)
Acknowledge(w) ==
    /\ running[w] # <<>>
    /\ LET e == Delivered(Last(running[w])[1], Last(running[w])[2])
       IN  /\ Accepts(w, e)
           /\ \/ Appended(w, e) /\ Popped(w)
              \/ Failed(w, e) /\ Popped(w)
              \/ Died(w, e)
    /\ UNCHANGED <<objects, callbacks>>

(* The consumer raises, or the store was closed or poisoned under it. *)
Abandon(w) ==
    /\ running[w] # <<>>
    /\ Popped(w)
    /\ UNCHANGED <<lock, status, events, disk, callbacks>>

Next ==
    \/ RemoveLock
    \/ \E w \in Writers :
          \/ Open(w)
          \/ DieOpening(w)
          \/ Close(w)
          \/ Die(w)
          \/ \E o \in Objects : Put(w, o) \/ PutFails(w, o) \/ PutDies(w, o)
          \/ \E r \in Runs, t \in Treatments : RegisterRun(w, r, t)
          \/ \E i \in Invocations : RecordInput(w, i) \/ Start(w, i) \/ Dispatch(w, i)
          \/ \E i \in Invocations, refs \in SUBSET Refs : RecordOutput(w, i, refs)
          \/ RecordFailure(w)
          \/ \E c \in Consumers, m \in Message : Deliver(w, c, m)
          \/ Acknowledge(w)
          \/ Abandon(w)

Spec == Init /\ [][Next]_vars

-------------------------------------------------------------------------------
(* Properties. *)

(* Only the holder of the lock file has the store open, and what it has in   *)
(* memory is what a replay of the disk would give, short of a line its last, *)
(* failed write may have left.                                               *)
OneWriter ==
    \A w \in Writers :
        /\ status[w] # "closed" => lock = w
        /\ status[w] = "open" => ~torn /\ events[w] = Log
        /\ status[w] = "poisoned" =>
              events[w] = Log \/ (Log # <<>> /\ events[w] = Front(Log))

(* Whatever failed or crashed, every complete line of the journal is valid   *)
(* after the lines before it and finds its objects: opening refuses a        *)
(* journal only for an incomplete line or an unfinished invocation.          *)
Recoverable == Replayable

(* No consumer is called twice with a message, by any process: deliver's     *)
(* "at most one callback attempt per durable claim".                         *)
AtMostOnce ==
    \A k, n \in DOMAIN callbacks : callbacks[k] = callbacks[n] => k = n

(* The inductive invariant behind the three: no consumer is called before    *)
(* the claim for the call is in the journal.                                 *)
CallsClaimed ==
    \A n \in DOMAIN callbacks :
        Has(Log, DeliveryClaimed(callbacks[n][1], callbacks[n][2]))

StoreInv == OneWriter /\ Recoverable /\ CallsClaimed /\ AtMostOnce

(* A consumer gets the messages of a stream in order and without a gap, and  *)
(* none before it has acknowledged those before it, across restarts.         *)
InOrder ==
    \A n \in DOMAIN callbacks :
        LET c == callbacks[n][1]
            m == callbacks[n][2]
            Before == {k \in 1..(n - 1) :
                         callbacks[k][1] = c /\ StreamOf(callbacks[k][2]) = StreamOf(m)}
        IN  /\ Number(Log, m) = Cardinality(Before)
            /\ \A k \in Before : Has(Log, Delivered(c, callbacks[k][2]))

(* The journal never holds two dispatch intents of a run that share an       *)
(* idempotency key, whichever invocations and processes wrote them.          *)
KeysClaimedOnce ==
    \A k, n \in 1..Len(journal) :
        LET d == journal[k].event
            e == journal[n].event
        IN  /\ k # n
            /\ d.type = "DispatchIntent"
            /\ e.type = "DispatchIntent"
            /\ RunOf[d.invocation] = RunOf[e.invocation]
            => Commands[d.invocation] \cap Commands[e.invocation] = {}

(* The datasets a message was made from, at any distance. *)
Lineage(i) ==
    {j \in Invocations :
        \A S \in SUBSET Invocations :
            (i \in S /\ \A x \in S : Sources[x] \subseteq S) => j \in S}

(* A consumer without the permission is never called with a message that     *)
(* anything privileged went into, however far back.                          *)
NoLeak ==
    \A n \in DOMAIN callbacks :
        callbacks[n][1] \notin Cleared =>
            \A i \in Lineage(callbacks[n][2][1]) : OutputOf(Log, i).refs = {}

(* README: "An incomplete journal line, corrupt object, broken lineage or    *)
(* unfinished invocation causes reopening to fail."                          *)
CorruptObjectStopsOpening ==
    [][\A w \in Writers :
          status[w] = "closed" /\ status'[w] = "open"
             => \A o \in Objects : objects[o] # "torn"]_vars

(* The disk, whatever happens around it, is a serial store. *)
Serial == INSTANCE SerialStore WITH
    log <- Log,
    stored <- Whole

IsSerialStore == Serial!Spec
===============================================================================
