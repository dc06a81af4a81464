-------------------------- MODULE ArtifactStoreProofs --------------------------
(***************************************************************************)
(* What the artifact store keeps through every failure, for any sets of    *)
(* writers, runs, invocations and consumers, that its disk is a serial     *)
(* store, and what its consumers are called with: nothing that privileged  *)
(* data went into unless they are cleared, and each stream in its order.   *)
(*                                                                         *)
(* The last two are facts about the log.  Every event was checked against  *)
(* the ones before it, so the facts about a log hold by induction on its   *)
(* events (LogInv), and whatever happens to the writers the log only grows *)
(* by a valid event (LogStep).                                             *)
(***************************************************************************)
EXTENDS ArtifactStore, SequenceTheorems, FiniteSetTheorems, TLAPS

IsSeq(s) == s \in Seq(ToSet(s))

Shape ==
    /\ lock \in Writers \cup {NoWriter}
    /\ status \in [Writers -> {"closed", "open", "poisoned"}]
    /\ DOMAIN events = Writers
    /\ objects \in [Objects -> {"absent", "torn", "whole"}]
    /\ IsSeq(journal)
    /\ IsSeq(callbacks)

Inv == Shape /\ StoreInv

-------------------------------------------------------------------------------
(* Sequences and events. *)

(* Appending to a sequence adds one element at its end. *)
LEMMA AppendToSeq ==
    ASSUME NEW s, IsSeq(s), NEW x
    PROVE  /\ IsSeq(Append(s, x))
           /\ Len(s) \in Nat
           /\ Len(Append(s, x)) = Len(s) + 1
           /\ DOMAIN Append(s, x) = 1..(Len(s) + 1)
           /\ DOMAIN s = 1..Len(s)
           /\ \A i \in 1..Len(s) : Append(s, x)[i] = s[i]
           /\ Append(s, x)[Len(s) + 1] = x
  <1> DEFINE S == ToSet(s) \cup {x}
  <1>1. s \in Seq(S)
    BY DEF IsSeq
  <1>2. x \in S
    OBVIOUS
  <1> HIDE DEF S
  <1>3. /\ Append(s, x) \in Seq(S)
        /\ Len(s) \in Nat
        /\ Len(Append(s, x)) = Len(s) + 1
        /\ DOMAIN Append(s, x) = 1..(Len(s) + 1)
        /\ DOMAIN s = 1..Len(s)
        /\ \A i \in 1..Len(s) : Append(s, x)[i] = s[i]
        /\ Append(s, x)[Len(s) + 1] = x
    BY <1>1, <1>2
  <1>4. IsSeq(Append(s, x))
    <2> DEFINE t == Append(s, x)
    <2> SUFFICES t \in Seq(ToSet(t))
      BY DEF IsSeq
    <2>1. t \in Seq(S)
      BY <1>3
    <2> HIDE DEF t
    <2>2. DOMAIN t = 1..Len(t) /\ Len(t) \in Nat
      BY <2>1
    <2>3. t \in [1..Len(t) -> ToSet(t)]
      BY <2>1, <2>2 DEF ToSet
    <2> QED BY <2>2, <2>3
  <1> QED BY <1>3, <1>4

(* A claim is only valid when nobody made it before. *)
LEMMA ValidClaim ==
    ASSUME NEW log, NEW c, NEW m, Valid(log, DeliveryClaimed(c, m))
    PROVE  ~Has(log, DeliveryClaimed(c, m))
  BY DEF Valid, RunAdmitted, InputRecorded, Started, OutputRecorded, DispatchIntent,
         DeliveryClaimed, Delivered, IntegrityFailure, CanClaim

(* A dispatch intent is only valid when its keys are unclaimed in the run. *)
LEMMA ValidDispatch ==
    ASSUME NEW log, NEW e, e.type = "DispatchIntent", Valid(log, e)
    PROVE  CanDispatch(log, e.invocation)
  BY DEF Valid, RunAdmitted, InputRecorded, Started, OutputRecorded, DispatchIntent,
         DeliveryClaimed, Delivered, IntegrityFailure

-------------------------------------------------------------------------------
(* The journal grows. *)

LEMMA LogShape ==
    ASSUME IsSeq(journal)
    PROVE  /\ DOMAIN Log = 1..Len(journal)
           /\ \A k \in 1..Len(journal) : Log[k] = journal[k].event
           /\ \A x : Has(Log, x) <=> \E k \in 1..Len(journal) : journal[k].event = x
           /\ Len(Log) = Len(journal)
           /\ IsSeq(Log)
  <1>1. Len(journal) \in Nat
    BY DEF IsSeq
  <1>2. DOMAIN Log = 1..Len(journal) /\ \A k \in 1..Len(journal) : Log[k] = journal[k].event
    BY DEF Log, Prefix
  <1>3. \A x : Has(Log, x) <=> \E k \in 1..Len(journal) : journal[k].event = x
    BY <1>2 DEF Has, ToSet
  <1>4. Log \in [1..Len(journal) -> ToSet(Log)]
    <2>1. Log = [k \in 1..Len(journal) |-> journal[k].event]
      BY DEF Log, Prefix
    <2>2. \A k \in 1..Len(journal) : journal[k].event \in ToSet(Log)
      BY <1>2 DEF ToSet
    <2> QED BY <2>1, <2>2
  <1>5. Log \in Seq(ToSet(Log))
    BY <1>1, <1>4
  <1>6. Len(Log) = Len(journal)
    BY <1>1, <1>2, <1>5
  <1> QED BY <1>2, <1>3, <1>5, <1>6 DEF IsSeq

(* A new line leaves the earlier prefixes as they are. *)
LEMMA LogGrows ==
    ASSUME IsSeq(journal), NEW w, NEW e, journal' = Append(journal, Line(w, e))
    PROVE  /\ IsSeq(journal')
           /\ Len(journal) \in Nat
           /\ Len(journal') = Len(journal) + 1
           /\ \A n \in 1..Len(journal) : journal'[n] = journal[n]
           /\ journal'[Len(journal) + 1] = Line(w, e)
           /\ \A n \in 0..Len(journal) : Prefix(n)' = Prefix(n)
           /\ Log' = Append(Log, e)
           /\ Log' # <<>>
           /\ Front(Log') = Log
  <1>1. /\ IsSeq(journal')
        /\ Len(journal) \in Nat
        /\ Len(journal') = Len(journal) + 1
        /\ \A n \in 1..Len(journal) : journal'[n] = journal[n]
        /\ journal'[Len(journal) + 1] = Line(w, e)
    BY AppendToSeq
  <1>2. \A n \in 0..Len(journal) : Prefix(n)' = Prefix(n)
    <2> TAKE n \in 0..Len(journal)
    <2>1. \A k \in 1..n : journal'[k].event = journal[k].event
      BY <1>1
    <2> QED BY <2>1 DEF Prefix
  <1>3. /\ IsSeq(Log) /\ Len(Log) = Len(journal)
        /\ DOMAIN Log = 1..Len(journal)
        /\ \A k \in 1..Len(journal) : Log[k] = journal[k].event
    BY LogShape
  <1>4. /\ IsSeq(Log)' /\ Len(Log') = Len(journal')
        /\ DOMAIN Log' = 1..Len(journal')
        /\ \A k \in 1..Len(journal') : Log'[k] = journal'[k].event
    BY LogShape, <1>1 DEF Log, Prefix, IsSeq, ToSet
  <1>5. Line(w, e).event = e
    BY DEF Line
  <1>6. Log' = Append(Log, e)
    <2>1. /\ IsSeq(Append(Log, e))
          /\ DOMAIN Append(Log, e) = 1..(Len(Log) + 1)
          /\ \A k \in 1..Len(Log) : Append(Log, e)[k] = Log[k]
          /\ Append(Log, e)[Len(Log) + 1] = e
      BY AppendToSeq, <1>3
    <2>2. \A k \in 1..(Len(journal) + 1) : Log'[k] = Append(Log, e)[k]
      BY <1>1, <1>3, <1>4, <1>5, <2>1
    <2>3. Log' = [k \in 1..(Len(journal) + 1) |-> Log'[k]]
      BY <1>1 DEF Log, Prefix
    <2>4. Append(Log, e) = [k \in 1..(Len(journal) + 1) |-> Append(Log, e)[k]]
      <3> DEFINE t == Append(Log, e)
      <3>1. t \in Seq(ToSet(t)) /\ DOMAIN t = 1..(Len(journal) + 1)
        BY <1>3, <2>1 DEF IsSeq
      <3> HIDE DEF t
      <3>2. t = [k \in DOMAIN t |-> t[k]]
        BY <3>1
      <3> QED BY <3>1, <3>2 DEF t
    <2> QED BY <2>2, <2>3, <2>4
  <1>7. Log' # <<>>
    BY <1>1, <1>4
  <1>8. Front(Log') = Log
    <2>1. Front(Log') = [k \in 1..Len(journal) |-> Log'[k]]
      BY <1>1, <1>4 DEF Front, IsSeq
    <2>2. Log = [k \in 1..Len(journal) |-> Log[k]]
      BY DEF Log, Prefix
    <2>3. \A k \in 1..Len(journal) : Log'[k] = Log[k]
      BY <1>1, <1>3, <1>4
    <2> QED BY <2>1, <2>2, <2>3
  <1> QED BY <1>1, <1>2, <1>6, <1>7, <1>8

(* What an append leaves of the journal, whether it succeeds or fails. *)
Kept ==
    /\ IsSeq(journal)'
    /\ Recoverable'
    /\ \A x : Has(Log, x) => Has(Log, x)'

LEMMA AppendKeeps ==
    ASSUME IsSeq(journal), Recoverable, NEW w, NEW e,
           events[w] = Log, Valid(Log, e), Resolved(e),
           journal' = Append(journal, Line(w, e)), UNCHANGED objects
    PROVE  /\ Kept
           /\ Has(Log, e)'
           /\ Log' = Append(Log, e)
           /\ Log' # <<>> /\ Front(Log') = Log
  <1>1. /\ IsSeq(journal')
        /\ Len(journal) \in Nat
        /\ Len(journal') = Len(journal) + 1
        /\ \A n \in 1..Len(journal) : journal'[n] = journal[n]
        /\ journal'[Len(journal) + 1] = Line(w, e)
        /\ \A n \in 0..Len(journal) : Prefix(n)' = Prefix(n)
        /\ Log' = Append(Log, e)
        /\ Log' # <<>> /\ Front(Log') = Log
    BY LogGrows
  <1>2. \A x : Resolved(x) => Resolved(x)'
    BY DEF Resolved, Whole
  <1>3. Recoverable'
    <2> SUFFICES ASSUME NEW n \in 1..Len(journal')
                 PROVE  /\ journal'[n].previous = Prefix(n - 1)'
                        /\ Valid(Prefix(n - 1)', journal'[n].event)
                        /\ Resolved(journal[n].event)'
      BY DEF Recoverable, Replayable
    <2>1. n - 1 \in 0..Len(journal) /\ Prefix(n - 1)' = Prefix(n - 1)
      BY <1>1
    <2>2. CASE n \in 1..Len(journal)
      BY <1>1, <1>2, <2>1, <2>2 DEF Recoverable, Replayable
    <2>3. CASE n = Len(journal) + 1
      <3>1. Prefix(n - 1) = Log
        BY <1>1, <2>3 DEF Log
      <3>2. journal'[n].previous = Log /\ journal'[n].event = e
        BY <1>1, <2>3 DEF Line
      <3> QED BY <1>2, <2>1, <3>1, <3>2
    <2> QED BY <1>1, <2>2, <2>3
  <1>4. \A x : Has(Log, x)' <=> \E k \in 1..Len(journal') : journal'[k].event = x
    BY <1>1, LogShape DEF Log, Prefix, IsSeq, ToSet, Has
  <1>5. \A x : Has(Log, x) <=> \E k \in 1..Len(journal) : journal[k].event = x
    BY LogShape
  <1>6. \A x : Has(Log, x) => Has(Log, x)'
    BY <1>1, <1>4, <1>5
  <1>7. Has(Log, e)'
    BY <1>1, <1>4 DEF Line
  <1> QED BY <1>1, <1>3, <1>6, <1>7 DEF Kept, IsSeq

LEMMA RemainsKeeps ==
    ASSUME IsSeq(journal), Recoverable, NEW w, NEW e,
           events[w] = Log, Valid(Log, e), Resolved(e),
           Remains(w, e), UNCHANGED objects
    PROVE  /\ Kept
           /\ Log' = Log \/ (Log' # <<>> /\ Front(Log') = Log)
  <1>1. CASE UNCHANGED journal
    BY <1>1 DEF Kept, Recoverable, Replayable, Resolved, Whole, Log, Prefix, IsSeq, ToSet, Has
  <1>2. CASE journal' = Append(journal, Line(w, e))
    BY <1>2, AppendKeeps
  <1> QED BY <1>1, <1>2 DEF Remains

(* A step that leaves the journal and the whole objects keeps what is on     *)
(* disk recoverable.                                                         *)
LEMMA ObjectsGrow ==
    ASSUME IsSeq(journal), Recoverable, UNCHANGED journal,
           Whole \subseteq Whole'
    PROVE  Kept /\ Log' = Log
  <1>1. \A x : Resolved(x) => Resolved(x)'
    BY DEF Resolved
  <1> HIDE DEF Resolved
  <1>2. Recoverable'
    BY <1>1 DEF Recoverable, Replayable, Prefix
  <1> QED BY <1>2 DEF Kept, Log, Prefix, IsSeq, ToSet, Has

(* The writer that holds the store open writes alone, on what it knows.      *)
LEMMA OpenWriter ==
    ASSUME OneWriter, NEW w \in Writers, status[w] = "open"
    PROVE  /\ lock = w /\ ~torn /\ events[w] = Log
           /\ \A v \in Writers : v # w => status[v] = "closed"
  BY DEF OneWriter

-------------------------------------------------------------------------------
(* The halves of a step: what becomes of the writers, given what becomes of  *)
(* the disk. *)

LEMMA AppendedWriter ==
    ASSUME Shape, OneWriter, NEW w \in Writers, NEW e, status[w] = "open",
           Appended(w, e), Log' = Append(Log, e)
    PROVE  OneWriter' /\ DOMAIN events' = Writers
  <1>1. lock = w /\ ~torn /\ events[w] = Log /\ \A v \in Writers : v # w => status[v] = "closed"
    BY OpenWriter
  <1>2. events'[w] = Append(Log, e) /\ DOMAIN events' = Writers
    BY <1>1 DEF Appended, Shape
  <1>3. lock' = lock /\ status' = status /\ torn' = torn
    BY DEF Appended
  <1> QED BY <1>1, <1>2, <1>3 DEF OneWriter

LEMMA FailedWriter ==
    ASSUME Shape, OneWriter, NEW w \in Writers, NEW e, status[w] = "open",
           Failed(w, e), Log' = Log \/ (Log' # <<>> /\ Front(Log') = Log)
    PROVE  OneWriter'
  <1>1. lock = w /\ ~torn /\ events[w] = Log /\ \A v \in Writers : v # w => status[v] = "closed"
    BY OpenWriter
  <1>2. /\ status'[w] = "poisoned"
        /\ \A v \in Writers : v # w => status'[v] = "closed"
        /\ events' = events /\ lock' = lock
    BY <1>1 DEF Failed, Shape
  <1> QED BY <1>1, <1>2 DEF OneWriter

LEMMA GoneWriter ==
    ASSUME Shape, OneWriter, NEW w \in Writers, Gone(w),
           \/ status[w] = "open"
           \/ Log' = Log /\ torn' = torn
    PROVE  OneWriter' /\ DOMAIN events' = Writers /\ lock' = lock
           /\ status' \in [Writers -> {"closed", "open", "poisoned"}]
  <1>1. /\ status'[w] = "closed" /\ lock' = lock
        /\ \A v \in Writers : v # w => status'[v] = status[v] /\ events'[v] = events[v]
        /\ DOMAIN events' = Writers
        /\ status' \in [Writers -> {"closed", "open", "poisoned"}]
    BY DEF Gone, Shape
  <1>2. CASE status[w] = "open"
    <2>1. \A v \in Writers : status'[v] = "closed"
      BY <1>1, <1>2, OpenWriter
    <2> QED BY <1>1, <2>1 DEF OneWriter
  <1>3. CASE Log' = Log /\ torn' = torn
    BY <1>1, <1>3 DEF OneWriter
  <1> QED BY <1>1, <1>2, <1>3

-------------------------------------------------------------------------------
(* The steps. *)

(* A step that makes no call and keeps the log keeps what the calls say.     *)
LEMMA CallsKept ==
    ASSUME StoreInv, Kept, OneWriter', UNCHANGED callbacks
    PROVE  StoreInv'
  BY DEF StoreInv, Kept, CallsClaimed, AtMostOnce, Has, ToSet

(* Steps that leave the disk alone. *)
LEMMA DiskAlone ==
    ASSUME Inv, UNCHANGED <<disk, callbacks>>, OneWriter',
           lock' \in Writers \cup {NoWriter}, DOMAIN events' = Writers,
           status' \in [Writers -> {"closed", "open", "poisoned"}]
    PROVE  Inv'
  <1>1. Kept
    <2>1. Whole \subseteq Whole' /\ UNCHANGED journal
      BY DEF disk, Whole
    <2> QED BY <2>1, ObjectsGrow DEF Inv, Shape, StoreInv
  <1>2. StoreInv'
    BY <1>1, CallsKept DEF Inv, disk
  <1>3. Shape'
    BY DEF Inv, Shape, disk, IsSeq, ToSet
  <1> QED BY <1>2, <1>3 DEF Inv

LEMMA LogUnchanged ==
    ASSUME UNCHANGED <<disk>>
    PROVE  Log' = Log /\ torn' = torn /\ objects' = objects
  BY DEF disk, Log, Prefix

LEMMA OpenKeeps == ASSUME Inv, NEW w \in Writers, Open(w) PROVE Inv'
  <1>1. Log' = Log /\ torn' = torn
    BY LogUnchanged DEF Open
  <1>2. \A v \in Writers : status[v] = "closed"
    BY WritersAssumption DEF Inv, Shape, StoreInv, OneWriter, Open
  <1>3. OneWriter'
    BY <1>1, <1>2 DEF Open, OneWriter, Inv, Shape
  <1> QED BY <1>3, DiskAlone DEF Open, Inv, Shape

LEMMA DieOpeningKeeps == ASSUME Inv, NEW w \in Writers, DieOpening(w) PROVE Inv'
  <1>1. Log' = Log /\ torn' = torn
    BY LogUnchanged DEF DieOpening
  <1>2. \A v \in Writers : status[v] = "closed"
    BY WritersAssumption DEF Inv, Shape, StoreInv, OneWriter, DieOpening
  <1>3. OneWriter'
    BY <1>1, <1>2 DEF DieOpening, OneWriter
  <1> QED BY <1>3, DiskAlone DEF DieOpening, Inv, Shape

LEMMA CloseKeeps == ASSUME Inv, NEW w \in Writers, Close(w) PROVE Inv'
  <1>1. \A v \in Writers : v # w => status[v] = "closed"
    BY DEF Inv, StoreInv, OneWriter, Close
  <1>2. \A v \in Writers : status'[v] = "closed"
    BY <1>1 DEF Close, Inv, Shape
  <1>3. OneWriter'
    BY <1>2 DEF OneWriter
  <1> QED BY <1>3, DiskAlone DEF Close, Inv, Shape

LEMMA DieKeeps == ASSUME Inv, NEW w \in Writers, Die(w) PROVE Inv'
  <1>1. Log' = Log /\ torn' = torn
    BY LogUnchanged DEF Die
  <1>2. /\ OneWriter' /\ DOMAIN events' = Writers /\ lock' = lock
        /\ status' \in [Writers -> {"closed", "open", "poisoned"}]
    BY <1>1, GoneWriter DEF Die, Inv, StoreInv
  <1> QED BY <1>2, DiskAlone DEF Die, Inv, Shape

LEMMA RemoveLockKeeps == ASSUME Inv, RemoveLock PROVE Inv'
  <1>1. Log' = Log /\ torn' = torn
    BY LogUnchanged DEF RemoveLock
  <1>2. \A v \in Writers : status[v] = "closed"
    BY DEF Inv, StoreInv, OneWriter, RemoveLock
  <1>3. OneWriter'
    BY <1>1, <1>2 DEF RemoveLock, OneWriter
  <1> QED BY <1>3, DiskAlone DEF RemoveLock, Inv, Shape

LEMMA AbandonKeeps == ASSUME Inv, NEW w \in Writers, Abandon(w) PROVE Inv'
  <1>1. Log' = Log /\ torn' = torn
    BY LogUnchanged DEF Abandon
  <1>3. OneWriter'
    BY <1>1 DEF Abandon, OneWriter, Inv, StoreInv
  <1> QED BY <1>3, DiskAlone DEF Abandon, Inv, Shape

(* A put writes an object that was absent. *)
LEMMA PutsKeep ==
    ASSUME Inv, NEW w \in Writers, NEW o \in Objects,
           Put(w, o) \/ PutFails(w, o) \/ PutDies(w, o)
    PROVE  Inv'
  <1>1. /\ status[w] = "open" /\ UNCHANGED <<journal, torn, callbacks>>
        /\ \E left \in {"absent", "torn", "whole"} : objects' = [objects EXCEPT ![o] = left]
        /\ objects[o] = "absent"
    BY DEF Put, PutFails, PutDies
  <1>2. Whole \subseteq Whole'
    BY <1>1 DEF Whole, Inv, Shape
  <1>3. Kept /\ Log' = Log
    BY <1>1, <1>2, ObjectsGrow DEF Inv, Shape, StoreInv
  <1>4. /\ objects' \in [Objects -> {"absent", "torn", "whole"}]
        /\ IsSeq(callbacks)' /\ IsSeq(journal)'
    BY <1>1 DEF Inv, Shape, IsSeq, ToSet
  <1>5. /\ OneWriter' /\ DOMAIN events' = Writers /\ lock' = lock
        /\ status' \in [Writers -> {"closed", "open", "poisoned"}]
    <2>1. CASE Put(w, o)
      BY <1>1, <1>3, <2>1 DEF Put, OneWriter, Inv, Shape, StoreInv
    <2>2. CASE PutFails(w, o)
      <3>1. /\ status' = [status EXCEPT ![w] = "poisoned"]
            /\ lock' = lock /\ events' = events
        BY <2>2 DEF PutFails
      <3>2. /\ lock = w /\ events[w] = Log
            /\ \A v \in Writers : v # w => status[v] = "closed"
        BY <1>1, OpenWriter DEF Inv, StoreInv
      <3>3. OneWriter'
        BY <1>3, <3>1, <3>2 DEF OneWriter, Inv, Shape
      <3> QED BY <3>1, <3>3 DEF Inv, Shape
    <2>3. CASE PutDies(w, o)
      BY <1>1, <1>3, <2>3, GoneWriter DEF PutDies, Inv, StoreInv
    <2> QED BY <2>1, <2>2, <2>3
  <1>6. StoreInv'
    BY <1>1, <1>3, <1>5, CallsKept DEF Inv
  <1> QED BY <1>4, <1>5, <1>6 DEF Inv, Shape

(* An append that makes no call. *)
AppendStep(w, e) ==
    /\ Accepts(w, e)
    /\ Appended(w, e) \/ Failed(w, e) \/ Died(w, e)
    /\ UNCHANGED objects

LEMMA AppendStepKeeps ==
    ASSUME Inv, NEW w \in Writers, NEW e, AppendStep(w, e)
    PROVE  /\ Kept /\ OneWriter'
           /\ lock' \in Writers \cup {NoWriter} /\ DOMAIN events' = Writers
           /\ status' \in [Writers -> {"closed", "open", "poisoned"}]
           /\ objects' \in [Objects -> {"absent", "torn", "whole"}]
  <1>1. events[w] = Log /\ status[w] = "open"
    BY OpenWriter DEF AppendStep, Accepts, Inv, StoreInv
  <1>2. Valid(Log, e) /\ Resolved(e) /\ UNCHANGED objects
    BY <1>1 DEF AppendStep, Accepts
  <1>3. IsSeq(journal) /\ Recoverable /\ OneWriter /\ Shape
    BY DEF Inv, Shape, StoreInv
  <1>4. CASE Appended(w, e)
    <2>1. Kept /\ Log' = Append(Log, e)
      BY <1>1, <1>2, <1>3, <1>4, AppendKeeps DEF Appended
    <2>2. OneWriter' /\ DOMAIN events' = Writers
      BY <1>1, <1>3, <1>4, <2>1, AppendedWriter
    <2> QED BY <1>2, <1>3, <1>4, <2>1, <2>2 DEF Appended, Shape
  <1>5. CASE Failed(w, e)
    <2>1. Kept /\ (Log' = Log \/ (Log' # <<>> /\ Front(Log') = Log))
      BY <1>1, <1>2, <1>3, <1>5, RemainsKeeps DEF Failed
    <2>2. OneWriter'
      BY <1>1, <1>3, <1>5, <2>1, FailedWriter
    <2> QED BY <1>2, <1>3, <1>5, <2>1, <2>2 DEF Failed, Shape
  <1>6. CASE Died(w, e)
    <2>1. Kept
      BY <1>1, <1>2, <1>3, <1>6, RemainsKeeps DEF Died
    <2>2. /\ OneWriter' /\ DOMAIN events' = Writers /\ lock' = lock
          /\ status' \in [Writers -> {"closed", "open", "poisoned"}]
      BY <1>1, <1>3, <1>6, GoneWriter DEF Died
    <2> QED BY <1>2, <1>3, <2>1, <2>2 DEF Shape
  <1> QED BY <1>4, <1>5, <1>6 DEF AppendStep

LEMMA QuietAppendKeeps ==
    ASSUME Inv, NEW w \in Writers, NEW e, AppendStep(w, e), UNCHANGED callbacks
    PROVE  Inv'
  <1>1. /\ Kept /\ OneWriter'
        /\ lock' \in Writers \cup {NoWriter} /\ DOMAIN events' = Writers
        /\ status' \in [Writers -> {"closed", "open", "poisoned"}]
        /\ objects' \in [Objects -> {"absent", "torn", "whole"}]
    BY AppendStepKeeps
  <1>2. StoreInv'
    BY <1>1, CallsKept DEF Inv
  <1>3. IsSeq(callbacks)' /\ IsSeq(journal)'
    BY <1>1 DEF Inv, Shape, IsSeq, ToSet, Kept
  <1> QED BY <1>1, <1>2, <1>3 DEF Inv, Shape

LEMMA WriteKeeps == ASSUME Inv, NEW w \in Writers, NEW e, Write(w, e) PROVE Inv'
  <1>1. AppendStep(w, e) /\ UNCHANGED callbacks
    BY DEF Write, AppendStep
  <1> QED BY <1>1, QuietAppendKeeps

LEMMA AcknowledgeKeeps == ASSUME Inv, NEW w \in Writers, Acknowledge(w) PROVE Inv'
  <1> DEFINE e == Delivered(Last(running[w])[1], Last(running[w])[2])
  <1>1. AppendStep(w, e) /\ UNCHANGED callbacks
    BY DEF Acknowledge, AppendStep
  <1> HIDE DEF e
  <1> QED BY <1>1, QuietAppendKeeps

(* A consumer is called when its claim has just become durable, and that     *)
(* claim was not there before.                                               *)
LEMMA DeliverKeeps ==
    ASSUME Inv, NEW w \in Writers, NEW c \in Consumers, NEW m \in Message, Deliver(w, c, m)
    PROVE  Inv'
  <1> DEFINE e == DeliveryClaimed(c, m)
  <1>1. AppendStep(w, e)
    BY DEF Deliver, AppendStep
  <1>2. CASE UNCHANGED callbacks
    BY <1>1, <1>2, QuietAppendKeeps
  <1>3. CASE Appended(w, e) /\ callbacks' = Append(callbacks, <<c, m>>)
    <2>1. /\ Kept /\ OneWriter'
          /\ lock' \in Writers \cup {NoWriter} /\ DOMAIN events' = Writers
          /\ status' \in [Writers -> {"closed", "open", "poisoned"}]
          /\ objects' \in [Objects -> {"absent", "torn", "whole"}]
      BY <1>1, AppendStepKeeps
    <2>2. events[w] = Log /\ Valid(Log, e) /\ Resolved(e) /\ UNCHANGED objects
      BY <1>1, OpenWriter DEF AppendStep, Accepts, Inv, StoreInv
    <2>3. Has(Log, e)'
      BY <1>3, <2>2, AppendKeeps DEF Appended, Inv, Shape, StoreInv
    <2>4. ~Has(Log, e)
      BY <2>2, ValidClaim
    <2>5. /\ IsSeq(callbacks')
          /\ Len(callbacks) \in Nat
          /\ DOMAIN callbacks' = 1..(Len(callbacks) + 1)
          /\ DOMAIN callbacks = 1..Len(callbacks)
          /\ \A n \in 1..Len(callbacks) : callbacks'[n] = callbacks[n]
          /\ callbacks'[Len(callbacks) + 1] = <<c, m>>
      BY <1>3, AppendToSeq DEF Inv, Shape
    <2>6. CallsClaimed'
      <3> SUFFICES ASSUME NEW n \in DOMAIN callbacks'
                   PROVE  Has(Log', DeliveryClaimed(callbacks'[n][1], callbacks'[n][2]))
        BY DEF CallsClaimed, Has, DeliveryClaimed
      <3>1. CASE n \in 1..Len(callbacks)
        <4>1. Has(Log, DeliveryClaimed(callbacks[n][1], callbacks[n][2]))
          BY <2>5, <3>1 DEF Inv, StoreInv, CallsClaimed
        <4> QED BY <2>1, <2>5, <3>1, <4>1 DEF Kept, Has
      <3>2. CASE n = Len(callbacks) + 1
        <4>1. callbacks'[n][1] = c /\ callbacks'[n][2] = m
          BY <2>5, <3>2
        <4> QED BY <2>3, <4>1 DEF Has
      <3> QED BY <2>5, <3>1, <3>2
    <2>7. \A n \in 1..Len(callbacks) : callbacks[n] # <<c, m>>
      BY <2>4, <2>5 DEF Inv, StoreInv, CallsClaimed
    <2>8. AtMostOnce'
      <3>1. \A k, n \in 1..Len(callbacks) : callbacks[k] = callbacks[n] => k = n
        BY <2>5 DEF Inv, StoreInv, AtMostOnce
      <3> QED BY <2>5, <2>7, <3>1 DEF AtMostOnce
    <2>9. IsSeq(callbacks)' /\ IsSeq(journal)' /\ Recoverable'
      BY <2>1, <2>5 DEF Kept, IsSeq, ToSet
    <2> QED BY <2>1, <2>6, <2>8, <2>9 DEF Inv, Shape, StoreInv
  <1> QED BY <1>2, <1>3 DEF Deliver

LEMMA InitHolds == Init => Inv
  <1> SUFFICES ASSUME Init PROVE Inv
    OBVIOUS
  <1>1. Len(journal) = 0 /\ journal = <<>> /\ DOMAIN callbacks = {} /\ Log = <<>>
    BY DEF Init, Log, Prefix
  <1>2. Shape
    BY DEF Init, Shape, IsSeq, ToSet
  <1>3. OneWriter /\ Recoverable /\ CallsClaimed /\ AtMostOnce
    BY <1>1 DEF Init, OneWriter, Recoverable, Replayable, CallsClaimed, AtMostOnce
  <1> QED BY <1>2, <1>3 DEF Inv, StoreInv

LEMMA NextKeeps == Inv /\ [Next]_vars => Inv'
  <1> SUFFICES ASSUME Inv, [Next]_vars PROVE Inv'
    OBVIOUS
  <1>1. CASE RemoveLock
    BY <1>1, RemoveLockKeeps
  <1>2. CASE UNCHANGED vars
    BY <1>2 DEF vars, Inv, Shape, StoreInv, OneWriter, Recoverable, Replayable, Resolved,
                Whole, CallsClaimed, AtMostOnce, Log, Prefix, IsSeq, ToSet, Has
  <1>3. ASSUME NEW w \in Writers,
               Open(w) \/ DieOpening(w) \/ Close(w) \/ Die(w) \/ Acknowledge(w) \/ Abandon(w)
        PROVE  Inv'
    BY <1>3, OpenKeeps, DieOpeningKeeps, CloseKeeps, DieKeeps, AcknowledgeKeeps, AbandonKeeps
  <1>4. ASSUME NEW w \in Writers, NEW o \in Objects,
               Put(w, o) \/ PutFails(w, o) \/ PutDies(w, o)
        PROVE  Inv'
    BY <1>4, PutsKeep
  <1>5. ASSUME NEW w \in Writers, NEW e, Write(w, e)
        PROVE  Inv'
    BY <1>5, WriteKeeps
  <1>6. ASSUME NEW w \in Writers, NEW c \in Consumers, NEW m \in Message, Deliver(w, c, m)
        PROVE  Inv'
    BY <1>6, DeliverKeeps
  <1> QED BY <1>1, <1>2, <1>3, <1>4, <1>5, <1>6
          DEF Next, RegisterRun, RecordInput, Start, RecordOutput, Dispatch, RecordFailure

LEMMA InvHolds == Spec => []Inv
  BY InitHolds, NextKeeps, PTL DEF Spec

(* One writer, whose memory is the disk, a journal that can be replayed, and *)
(* calls that were claimed first: together they survive every failure.       *)
THEOREM StoreIsSafe == Spec => []StoreInv
  <1>1. Inv => StoreInv
    BY DEF Inv
  <1> QED BY <1>1, InvHolds, PTL

(* The complete lines of the journal always pass the checks of __init__.     *)
THEOREM AlwaysRecoverable == Spec => []Recoverable
  <1>1. Inv => Recoverable
    BY DEF Inv, StoreInv
  <1> QED BY <1>1, InvHolds, PTL

(* deliver never calls a consumer a second time with a message.              *)
THEOREM CalledAtMostOnce == Spec => []AtMostOnce
  <1>1. Inv => AtMostOnce
    BY DEF Inv, StoreInv
  <1> QED BY <1>1, InvHolds, PTL

(* An idempotency key is claimed by one dispatch intent of a run only.       *)
THEOREM KeysStayClaimed == Spec => []KeysClaimedOnce
  <1>1. Inv => KeysClaimedOnce
    <2> SUFFICES ASSUME Inv PROVE KeysClaimedOnce
      OBVIOUS
    <2>1. Len(journal) \in Nat
      BY DEF Inv, Shape, IsSeq
    <2>2. ASSUME NEW k \in 1..Len(journal), NEW n \in 1..Len(journal), k < n,
                 journal[k].event.type = "DispatchIntent",
                 journal[n].event.type = "DispatchIntent",
                 RunOf[journal[k].event.invocation] = RunOf[journal[n].event.invocation]
          PROVE  Commands[journal[k].event.invocation]
                   \cap Commands[journal[n].event.invocation] = {}
      <3>1. Valid(Prefix(n - 1), journal[n].event)
        BY DEF Inv, StoreInv, Recoverable, Replayable
      <3>2. CanDispatch(Prefix(n - 1), journal[n].event.invocation)
        BY <2>2, <3>1, ValidDispatch
      <3>3. journal[k].event \in OfType(Prefix(n - 1), "DispatchIntent")
        <4>1. k \in DOMAIN Prefix(n - 1) /\ Prefix(n - 1)[k] = journal[k].event
          BY <2>1, <2>2 DEF Prefix
        <4> QED BY <2>2, <4>1 DEF OfType, ToSet
      <3> QED BY <2>2, <3>2, <3>3 DEF CanDispatch
    <2>3. SUFFICES ASSUME NEW k \in 1..Len(journal), NEW n \in 1..Len(journal), k # n,
                          journal[k].event.type = "DispatchIntent",
                          journal[n].event.type = "DispatchIntent",
                          RunOf[journal[k].event.invocation] = RunOf[journal[n].event.invocation]
                   PROVE  Commands[journal[k].event.invocation]
                            \cap Commands[journal[n].event.invocation] = {}
      BY DEF KeysClaimedOnce
    <2>4. CASE k < n
      BY <2>2, <2>3, <2>4
    <2>5. CASE n < k
      <3>1. Commands[journal[n].event.invocation]
              \cap Commands[journal[k].event.invocation] = {}
        BY <2>2, <2>3, <2>5
      <3> QED BY <3>1
    <2> QED BY <2>1, <2>3, <2>4, <2>5
  <1> QED BY <1>1, InvHolds, PTL

-------------------------------------------------------------------------------
(* Refinement. *)

LEMMA ValidProposal ==
    ASSUME NEW log, NEW e, Valid(log, e), e.type = "DispatchIntent" => Commands[e.invocation] # {}
    PROVE  e \in Proposals(log)
  BY DEF Valid, Proposals, RunAdmitted, InputRecorded, Started, OutputRecorded, DispatchIntent,
         DeliveryClaimed, Delivered, IntegrityFailure

(* The operators of StoreLog mean the same in SerialStore.                   *)
LEMMA SameEvents ==
    /\ \A r, t : Serial!RunAdmitted(r, t) = RunAdmitted(r, t)
    /\ \A i : Serial!InputRecorded(i) = InputRecorded(i)
    /\ \A i : Serial!Started(i) = Started(i)
    /\ \A i, numbers, refs : Serial!OutputRecorded(i, numbers, refs) = OutputRecorded(i, numbers, refs)
    /\ \A i : Serial!DispatchIntent(i) = DispatchIntent(i)
    /\ \A c, m : Serial!DeliveryClaimed(c, m) = DeliveryClaimed(c, m)
    /\ \A c, m : Serial!Delivered(c, m) = Delivered(c, m)
    /\ Serial!IntegrityFailure = IntegrityFailure
  BY DEF Serial!RunAdmitted, Serial!InputRecorded, Serial!Started, Serial!OutputRecorded,
         Serial!DispatchIntent, Serial!DeliveryClaimed, Serial!Delivered,
         Serial!IntegrityFailure, RunAdmitted, InputRecorded, Started, OutputRecorded,
         DispatchIntent, DeliveryClaimed, Delivered, IntegrityFailure

LEMMA SameObjects ==
    /\ Serial!Objects = Objects
    /\ \A e : Serial!Needs(e) = Needs(e)
    /\ Serial!Message = Message
  BY DEF Serial!Objects, Serial!Admission, Serial!Input, Serial!Command, Serial!Output,
         Serial!Needs, Serial!Message, Objects, Admission, Input, Command, Output, Needs, Message

LEMMA SameLookups ==
    ASSUME NEW log
    PROVE  /\ \A e : Serial!Has(log, e) <=> Has(log, e)
           /\ \A type : Serial!OfType(log, type) = OfType(log, type)
           /\ \A r : Serial!Admitted(log, r) <=> Admitted(log, r)
           /\ \A i : Serial!Recorded(log, i) <=> Recorded(log, i)
           /\ \A i : Serial!OutputOf(log, i) = OutputOf(log, i)
           /\ \A i : Serial!State(log, i) = State(log, i)
           /\ \A m : Serial!Number(log, m) = Number(log, m)
  <1>1. \A e : Serial!Has(log, e) <=> Has(log, e)
    BY DEF Serial!Has, Has, Serial!ToSet, ToSet
  <1>2. \A type : Serial!OfType(log, type) = OfType(log, type)
    BY DEF Serial!OfType, OfType, Serial!ToSet, ToSet
  <1>3. /\ \A r : Serial!Admitted(log, r) <=> Admitted(log, r)
        /\ \A i : Serial!Recorded(log, i) <=> Recorded(log, i)
    BY <1>2 DEF Serial!Admitted, Admitted, Serial!Recorded, Recorded
  <1>4. \A i : Serial!OutputOf(log, i) = OutputOf(log, i)
    BY <1>2 DEF Serial!OutputOf, OutputOf
  <1>5. \A i : Serial!State(log, i) = State(log, i)
    BY <1>1, <1>3, SameEvents DEF Serial!State, State
  <1>6. \A m : Serial!Number(log, m) = Number(log, m)
    BY <1>4 DEF Serial!Number, Number
  <1> QED BY <1>1, <1>2, <1>3, <1>4, <1>5, <1>6

LEMMA SameNumbering ==
    ASSUME NEW log
    PROVE  /\ \A c, s : Serial!NextDelivery(log, c, s) = NextDelivery(log, c, s)
           /\ \A i : Serial!Numbering(log, i) = Numbering(log, i)
           /\ \A m : Serial!StreamOf(m) = StreamOf(m)
  <1>1. \A numbers : Serial!After(numbers) = After(numbers)
    BY DEF Serial!After, After, Serial!Max, Max
  <1>2. \A m : Serial!StreamOf(m) = StreamOf(m)
    BY DEF Serial!StreamOf, StreamOf
  <1>3. \A c, s : Serial!NextDelivery(log, c, s) = NextDelivery(log, c, s)
    <2> TAKE c, s
    <2>1. {x \in Serial!Message : Serial!Has(log, Serial!Delivered(c, x)) /\ Serial!StreamOf(x) = s}
            = {x \in Message : Has(log, Delivered(c, x)) /\ StreamOf(x) = s}
      BY <1>2, SameLookups, SameEvents, SameObjects
    <2>2. {Serial!Number(log, m) :
             m \in {x \in Serial!Message :
                      Serial!Has(log, Serial!Delivered(c, x)) /\ Serial!StreamOf(x) = s}}
            = {Number(log, m) :
                 m \in {x \in Message : Has(log, Delivered(c, x)) /\ StreamOf(x) = s}}
      BY <2>1, SameLookups
    <2> QED BY <1>1, <2>2 DEF Serial!NextDelivery, NextDelivery
  <1>4. \A s : Serial!NextSequence(log, s) = NextSequence(log, s)
    <2> TAKE s
    <2>1. {x \in Serial!Message : Serial!Recorded(log, x[1]) /\ Serial!StreamOf(x) = s}
            = {x \in Message : Recorded(log, x[1]) /\ StreamOf(x) = s}
      BY <1>2, SameLookups, SameObjects
    <2>2. {Serial!Number(log, m) :
             m \in {x \in Serial!Message : Serial!Recorded(log, x[1]) /\ Serial!StreamOf(x) = s}}
            = {Number(log, m) : m \in {x \in Message : Recorded(log, x[1]) /\ StreamOf(x) = s}}
      BY <2>1, SameLookups
    <2> QED BY <1>1, <2>2 DEF Serial!NextSequence, NextSequence
  <1>5. \A i : Serial!Numbering(log, i) = Numbering(log, i)
    BY <1>4 DEF Serial!Numbering, Numbering, Serial!Cardinality, Cardinality
  <1> QED BY <1>2, <1>3, <1>5

LEMMA SameChecks ==
    ASSUME NEW log
    PROVE  /\ \A e : Serial!Valid(log, e) <=> Valid(log, e)
           /\ Serial!Proposals(log) = Proposals(log)
  <1>1. /\ \A r : Serial!CanAdmit(log, r) <=> CanAdmit(log, r)
        /\ \A i : Serial!CanRecordInput(log, i) <=> CanRecordInput(log, i)
        /\ \A i : Serial!CanStart(log, i) <=> CanStart(log, i)
    BY SameLookups DEF Serial!CanAdmit, CanAdmit, Serial!CanRecordInput, CanRecordInput,
                       Serial!CanStart, CanStart
  <1>2. \A i, refs : Serial!CanRecordOutput(log, i, refs) <=> CanRecordOutput(log, i, refs)
    BY SameLookups DEF Serial!CanRecordOutput, CanRecordOutput
  <1>3. \A i : Serial!CanDispatch(log, i) <=> CanDispatch(log, i)
    BY SameLookups DEF Serial!CanDispatch, CanDispatch
  <1>4. \A c, m : Serial!CanClaim(log, c, m) <=> CanClaim(log, c, m)
    BY SameLookups, SameEvents, SameNumbering DEF Serial!CanClaim, CanClaim
  <1>5. \A c, m : Serial!CanAcknowledge(log, c, m) <=> CanAcknowledge(log, c, m)
    BY SameLookups, SameEvents DEF Serial!CanAcknowledge, CanAcknowledge
  <1>6. \A e : Serial!Valid(log, e) <=> Valid(log, e)
    BY <1>1, <1>2, <1>3, <1>4, <1>5, SameEvents, SameNumbering, SameObjects
       DEF Serial!Valid, Valid
  <1>7. Serial!Proposals(log) = Proposals(log)
    BY SameEvents, SameNumbering, SameObjects DEF Serial!Proposals, Proposals
  <1> QED BY <1>6, <1>7

(* An append without a call records the event, or nothing at all.            *)
LEMMA AppendRefines ==
    ASSUME Inv, NEW w \in Writers, NEW e, AppendStep(w, e), UNCHANGED callbacks,
           e.type = "DispatchIntent" => Commands[e.invocation] # {}
    PROVE  [Serial!Next]_(Serial!vars)
  <1>1. events[w] = Log /\ Valid(Log, e) /\ Resolved(e)
    BY OpenWriter DEF AppendStep, Accepts, Inv, StoreInv
  <1>2. e \in Proposals(Log)
    BY <1>1, ValidProposal
  <1>3. Whole' = Whole
    BY DEF AppendStep, Whole
  <1>4. CASE journal' = Append(journal, Line(w, e))
    <2>1. Log' = Append(Log, e)
      BY <1>4, LogGrows DEF Inv, Shape
    <2>2. Serial!Record(e) /\ UNCHANGED callbacks
      BY <1>1, <1>3, <2>1, SameChecks, SameObjects DEF Serial!Record, Resolved
    <2> QED BY <1>2, <2>2, SameChecks DEF Serial!Next
  <1>5. CASE UNCHANGED journal
    <2>1. Log' = Log
      BY <1>5 DEF Log, Prefix
    <2> QED BY <1>3, <2>1 DEF Serial!vars
  <1> QED BY <1>4, <1>5 DEF AppendStep, Appended, Failed, Died, Remains

LEMMA DeliverRefines ==
    ASSUME Inv, NEW w \in Writers, NEW c \in Consumers, NEW m \in Message, Deliver(w, c, m)
    PROVE  [Serial!Next]_(Serial!vars)
  <1> DEFINE e == DeliveryClaimed(c, m)
  <1>1. AppendStep(w, e) /\ e.type # "DispatchIntent"
    BY DEF Deliver, AppendStep, DeliveryClaimed
  <1>2. CASE UNCHANGED callbacks
    BY <1>1, <1>2, AppendRefines
  <1>3. CASE Appended(w, e) /\ callbacks' = Append(callbacks, <<c, m>>)
    <2>1. events[w] = Log /\ Valid(Log, e) /\ Resolved(e)
      BY <1>1, OpenWriter DEF AppendStep, Accepts, Inv, StoreInv
    <2>2. Log' = Append(Log, e)
      BY <1>3, LogGrows DEF Appended, Inv, Shape
    <2>3. Whole' = Whole
      BY <1>1 DEF AppendStep, Whole
    <2>4. Serial!Call(c, m)
      BY <1>3, <2>1, <2>2, <2>3, SameChecks, SameObjects, SameEvents
         DEF Serial!Call, Serial!Record, Resolved
    <2> QED BY <2>4, SameObjects DEF Serial!Next
  <1> QED BY <1>2, <1>3 DEF Deliver

LEMMA PutRefines ==
    ASSUME Inv, NEW w \in Writers, NEW o \in Objects,
           Put(w, o) \/ PutFails(w, o) \/ PutDies(w, o)
    PROVE  [Serial!Next]_(Serial!vars)
  <1>1. PICK left \in {"absent", "torn", "whole"} :
           /\ objects' = [objects EXCEPT ![o] = left]
           /\ objects[o] = "absent" /\ UNCHANGED <<journal, callbacks>>
    BY DEF Put, PutFails, PutDies
  <1>2. Log' = Log
    BY <1>1 DEF Log, Prefix
  <1>3. CASE left = "whole"
    <2>1. o \in Objects \ Whole /\ Whole' = Whole \cup {o}
      BY <1>1, <1>3 DEF Whole, Inv, Shape
    <2>2. Serial!Store
      BY <1>1, <1>2, <2>1, SameObjects DEF Serial!Store
    <2> QED BY <2>2 DEF Serial!Next
  <1>4. CASE left # "whole"
    <2>1. Whole' = Whole
      BY <1>1, <1>4 DEF Whole, Inv, Shape
    <2> QED BY <1>1, <1>2, <2>1 DEF Serial!vars
  <1> QED BY <1>3, <1>4

LEMMA DiskAloneRefines ==
    ASSUME UNCHANGED <<disk, callbacks>>
    PROVE  [Serial!Next]_(Serial!vars)
  BY LogUnchanged DEF disk, Serial!vars, Whole

LEMMA StepRefines == Inv /\ [Next]_vars => [Serial!Next]_(Serial!vars)
  <1> SUFFICES ASSUME Inv, [Next]_vars PROVE [Serial!Next]_(Serial!vars)
    OBVIOUS
  <1>1. CASE RemoveLock \/ UNCHANGED vars
    <2>1. UNCHANGED <<disk, callbacks>>
      BY <1>1 DEF RemoveLock, vars, disk
    <2> QED BY <2>1, DiskAloneRefines
  <1>2. ASSUME NEW w \in Writers,
               Open(w) \/ DieOpening(w) \/ Close(w) \/ Die(w) \/ Abandon(w)
        PROVE  [Serial!Next]_(Serial!vars)
    <2>1. UNCHANGED <<disk, callbacks>>
      BY <1>2 DEF Open, DieOpening, Close, Die, Abandon
    <2> QED BY <2>1, DiskAloneRefines
  <1>3. ASSUME NEW w \in Writers, NEW o \in Objects,
               Put(w, o) \/ PutFails(w, o) \/ PutDies(w, o)
        PROVE  [Serial!Next]_(Serial!vars)
    BY <1>3, PutRefines
  <1>4. ASSUME NEW w \in Writers, NEW e, Write(w, e),
               e.type = "DispatchIntent" => Commands[e.invocation] # {}
        PROVE  [Serial!Next]_(Serial!vars)
    BY <1>4, AppendRefines DEF Write, AppendStep
  <1>5. ASSUME NEW w \in Writers, NEW c \in Consumers, NEW m \in Message, Deliver(w, c, m)
        PROVE  [Serial!Next]_(Serial!vars)
    BY <1>5, DeliverRefines
  <1>6. ASSUME NEW w \in Writers, Acknowledge(w)
        PROVE  [Serial!Next]_(Serial!vars)
    <2> DEFINE e == Delivered(Last(running[w])[1], Last(running[w])[2])
    <2>1. AppendStep(w, e) /\ UNCHANGED callbacks /\ e.type # "DispatchIntent"
      BY <1>6 DEF Acknowledge, AppendStep, Delivered
    <2> HIDE DEF e
    <2> QED BY <2>1, AppendRefines
  <1>7. ASSUME NEW w \in Writers,
               \/ \E r \in Runs, t \in Treatments : RegisterRun(w, r, t)
               \/ \E i \in Invocations : RecordInput(w, i) \/ Start(w, i) \/ Dispatch(w, i)
               \/ \E i \in Invocations, refs \in SUBSET Refs : RecordOutput(w, i, refs)
               \/ RecordFailure(w)
        PROVE  [Serial!Next]_(Serial!vars)
    <2>1. CASE \E r \in Runs, t \in Treatments : RegisterRun(w, r, t)
      BY <1>4, <2>1 DEF RegisterRun, RunAdmitted
    <2>2. CASE \E i \in Invocations : RecordInput(w, i) \/ Start(w, i) \/ Dispatch(w, i)
      BY <1>4, <2>2 DEF RecordInput, Start, Dispatch, InputRecorded, Started, DispatchIntent
    <2>3. CASE \E i \in Invocations, refs \in SUBSET Refs : RecordOutput(w, i, refs)
      BY <1>4, <2>3 DEF RecordOutput, OutputRecorded
    <2>4. CASE RecordFailure(w)
      BY <1>4, <2>4 DEF RecordFailure, IntegrityFailure
    <2> QED BY <1>7, <2>1, <2>2, <2>3, <2>4
  <1> QED BY <1>1, <1>2, <1>3, <1>5, <1>6, <1>7 DEF Next

(* The disk under any number of failing processes is one serial log that     *)
(* calls consumers only in the moment their claim is recorded.               *)
THEOREM ImplementsSerialStore == Spec => IsSerialStore
  <1>1. Init => Serial!Init
    <2> SUFFICES ASSUME Init PROVE Serial!Init
      OBVIOUS
    <2>1. Log = <<>>
      BY DEF Init, Log, Prefix
    <2>2. Whole = {}
      BY DEF Init, Whole
    <2> QED BY <2>1, <2>2 DEF Init, Serial!Init
  <1> QED BY <1>1, InvHolds, StepRefines, PTL DEF Spec, IsSerialStore, Serial!Spec

-----------------------------------------------------------------------------
(* What the consumers are called with.                                       *)


(* An invocation has one output, whose numbers and privilege never change. *)
OneOutput(log) ==
    \A d, e \in OfType(log, "OutputRecorded") : d.invocation = e.invocation => d = e

(* What an invocation takes is recorded before it begins, and what was       *)
(* privileged in it is privileged in its output.                             *)
Sourced(log) ==
    \A i \in Invocations :
        Has(log, InputRecorded(i)) \/ Has(log, Started(i)) \/ Recorded(log, i)
           => \A j \in Sources[i] : Recorded(log, j)

Inherits(log) ==
    \A i \in Invocations :
        Recorded(log, i) => \A j \in Sources[i] : OutputOf(log, j).refs \subseteq OutputOf(log, i).refs

(* The messages of a stream have numbers of their own. *)
Numbers(log, s) == {Number(log, m) : m \in {x \in Message : Recorded(log, x[1]) /\ StreamOf(x) = s}}

Numbered(log) ==
    \A m \in Message :
        /\ Recorded(log, m[1]) => Number(log, m) \in Nat
        /\ IsFiniteSet(Numbers(log, StreamOf(m)))

Distinct(log) ==
    \A m, n \in Message :
        /\ Recorded(log, m[1]) /\ Recorded(log, n[1])
        /\ StreamOf(m) = StreamOf(n)
        /\ Number(log, m) = Number(log, n)
        => m = n

(* A message is recorded, then claimed, then delivered. *)
Lifecycle(log) ==
    \A c \in Consumers, m \in Message :
        /\ Has(log, DeliveryClaimed(c, m)) => Recorded(log, m[1])
        /\ Has(log, Delivered(c, m)) => Has(log, DeliveryClaimed(c, m))

(* What a consumer has acknowledged of a stream has the numbers from zero,   *)
(* and what it has claimed and not acknowledged has the next one.            *)
Acknowledged(log, c, s) ==
    {Number(log, m) : m \in {x \in Message : Has(log, Delivered(c, x)) /\ StreamOf(x) = s}}

InTurn(log) ==
    \A c \in Consumers, m \in Message :
        /\ NextDelivery(log, c, StreamOf(m)) \in Nat
        /\ Acknowledged(log, c, StreamOf(m)) = 0..(NextDelivery(log, c, StreamOf(m)) - 1)
        /\ Has(log, DeliveryClaimed(c, m)) /\ ~Has(log, Delivered(c, m))
             => Number(log, m) = NextDelivery(log, c, StreamOf(m))

LogInv(log) ==
    /\ OneOutput(log)
    /\ Sourced(log) /\ Inherits(log)
    /\ Numbered(log) /\ Distinct(log)
    /\ Lifecycle(log) /\ InTurn(log)

(* What the calls made so far have to do with the log. *)
Call == Consumers \X Message

Called(calls, c, m) == \E n \in DOMAIN calls : calls[n] = <<c, m>>

CallShape ==
    /\ callbacks \in Seq(Call)
    /\ running \in [Writers -> Seq(Call)]

(* The earlier calls of the consumer with messages of the stream. *)
Before(n) ==
    {k \in 1..(n - 1) : /\ callbacks[k][1] = callbacks[n][1]
                        /\ StreamOf(callbacks[k][2]) = StreamOf(callbacks[n][2])}

(* A deliver in progress has called its consumer, and so has every one that  *)
(* was acknowledged.                                                         *)
CallsMade ==
    /\ \A w \in Writers : \A k \in DOMAIN running[w] : Called(callbacks, running[w][k][1], running[w][k][2])
    /\ \A c \in Consumers, m \in Message : Has(Log, Delivered(c, m)) => Called(callbacks, c, m)

CallsPermitted ==
    \A n \in DOMAIN callbacks :
        callbacks[n][1] \notin Cleared =>
            /\ Recorded(Log, callbacks[n][2][1])
            /\ OutputOf(Log, callbacks[n][2][1]).refs = {}

DeliveryInv ==
    /\ Inv
    /\ LogInv(Log)
    /\ CallShape
    /\ CallsMade
    /\ CallsPermitted
    /\ InOrder

-------------------------------------------------------------------------------
(* One more event. *)

LEMMA AddsEvent ==
    ASSUME NEW log, IsSeq(log), NEW e
    PROVE  /\ ToSet(Append(log, e)) = ToSet(log) \cup {e}
           /\ \A x : Has(Append(log, e), x) <=> Has(log, x) \/ x = e
           /\ \A type : OfType(Append(log, e), type) =
                           OfType(log, type) \cup {x \in {e} : x.type = type}
  <1> DEFINE more == Append(log, e)
  <1>1. /\ Len(log) \in Nat
        /\ DOMAIN more = 1..(Len(log) + 1)
        /\ DOMAIN log = 1..Len(log)
        /\ \A i \in 1..Len(log) : more[i] = log[i]
        /\ more[Len(log) + 1] = e
    BY AppendToSeq
  <1> HIDE DEF more
  <1>2. ToSet(more) = ToSet(log) \cup {e}
    <2>1. ASSUME NEW x \in ToSet(more) PROVE x \in ToSet(log) \cup {e}
      <3>1. PICK k \in 1..(Len(log) + 1) : x = more[k]
        BY <1>1, <2>1 DEF ToSet
      <3>2. k \in 1..Len(log) \/ k = Len(log) + 1
        BY <1>1
      <3> QED BY <1>1, <3>1, <3>2 DEF ToSet
    <2>2. ASSUME NEW x \in ToSet(log) PROVE x \in ToSet(more)
      <3>1. PICK k \in 1..Len(log) : x = log[k]
        BY <1>1, <2>2 DEF ToSet
      <3>2. k \in DOMAIN more /\ more[k] = x
        BY <1>1, <3>1
      <3> QED BY <3>2 DEF ToSet
    <2>3. e \in ToSet(more)
      <3>1. Len(log) + 1 \in DOMAIN more
        BY <1>1
      <3> QED BY <1>1, <3>1 DEF ToSet
    <2> QED BY <2>1, <2>2, <2>3
  <1>3. \A type : OfType(more, type) = OfType(log, type) \cup {x \in {e} : x.type = type}
    BY <1>2 DEF OfType
  <1> QED BY <1>2, <1>3 DEF more, Has

(* The checks an event of a type has passed. *)
LEMMA ValidOutput ==
    ASSUME NEW log, NEW e, Valid(log, e), e.type = "OutputRecorded"
    PROVE  \E i \in Invocations, refs \in SUBSET Refs :
              /\ e = OutputRecorded(i, Numbering(log, i), refs)
              /\ CanRecordOutput(log, i, refs)
  BY DEF Valid, RunAdmitted, InputRecorded, Started, OutputRecorded, DispatchIntent,
         DeliveryClaimed, Delivered, IntegrityFailure

LEMMA ValidInput ==
    ASSUME NEW log, NEW i, Valid(log, InputRecorded(i))
    PROVE  CanRecordInput(log, i)
  BY DEF Valid, RunAdmitted, InputRecorded, Started, OutputRecorded, DispatchIntent,
         DeliveryClaimed, Delivered, IntegrityFailure

LEMMA ValidStart ==
    ASSUME NEW log, NEW i, Valid(log, Started(i))
    PROVE  CanStart(log, i)
  BY DEF Valid, RunAdmitted, InputRecorded, Started, OutputRecorded, DispatchIntent,
         DeliveryClaimed, Delivered, IntegrityFailure

LEMMA ValidDelivery ==
    ASSUME NEW log, NEW c, NEW m
    PROVE  /\ Valid(log, DeliveryClaimed(c, m)) =>
                c \in Consumers /\ m \in Message /\ CanClaim(log, c, m)
           /\ Valid(log, Delivered(c, m)) =>
                c \in Consumers /\ m \in Message /\ CanAcknowledge(log, c, m)
  BY DEF Valid, RunAdmitted, InputRecorded, Started, OutputRecorded, DispatchIntent,
         DeliveryClaimed, Delivered, IntegrityFailure

(* Events of two types differ, and so do those of one type about other       *)
(* things. *)
LEMMA EventsDiffer ==
    /\ \A i, numbers, refs : OutputRecorded(i, numbers, refs).type = "OutputRecorded"
    /\ \A i : InputRecorded(i).type = "InputRecorded"
    /\ \A i : Started(i).type = "Started"
    /\ \A c, m : DeliveryClaimed(c, m).type = "DeliveryClaimed"
    /\ \A c, m : Delivered(c, m).type = "Delivered"
    /\ \A i, j : InputRecorded(i) = InputRecorded(j) => i = j
    /\ \A i, j : Started(i) = Started(j) => i = j
    /\ \A c, m, d, n : DeliveryClaimed(c, m) = DeliveryClaimed(d, n) => c = d /\ m = n
    /\ \A c, m, d, n : Delivered(c, m) = Delivered(d, n) => c = d /\ m = n
  <1>1. /\ \A i, numbers, refs : OutputRecorded(i, numbers, refs).type = "OutputRecorded"
        /\ \A i : InputRecorded(i).type = "InputRecorded"
        /\ \A i : Started(i).type = "Started"
        /\ \A c, m : DeliveryClaimed(c, m).type = "DeliveryClaimed"
        /\ \A c, m : Delivered(c, m).type = "Delivered"
    BY DEF OutputRecorded, InputRecorded, Started, DeliveryClaimed, Delivered
  <1>2. /\ \A i : InputRecorded(i).invocation = i
        /\ \A i : Started(i).invocation = i
        /\ \A c, m : DeliveryClaimed(c, m).consumer = c /\ DeliveryClaimed(c, m).message = m
        /\ \A c, m : Delivered(c, m).consumer = c /\ Delivered(c, m).message = m
    BY DEF InputRecorded, Started, DeliveryClaimed, Delivered
  <1>3. /\ \A i, j : InputRecorded(i) = InputRecorded(j) => i = j
        /\ \A i, j : Started(i) = Started(j) => i = j
    <2>1. ASSUME NEW i, NEW j, InputRecorded(i) = InputRecorded(j) PROVE i = j
      BY <1>2, <2>1
    <2>2. ASSUME NEW i, NEW j, Started(i) = Started(j) PROVE i = j
      BY <1>2, <2>2
    <2> QED BY <2>1, <2>2
  <1>4. /\ \A c, m, d, n : DeliveryClaimed(c, m) = DeliveryClaimed(d, n) => c = d /\ m = n
        /\ \A c, m, d, n : Delivered(c, m) = Delivered(d, n) => c = d /\ m = n
    <2>1. ASSUME NEW c, NEW m, NEW d, NEW n, DeliveryClaimed(c, m) = DeliveryClaimed(d, n)
          PROVE  c = d /\ m = n
      BY <1>2, <2>1
    <2>2. ASSUME NEW c, NEW m, NEW d, NEW n, Delivered(c, m) = Delivered(d, n)
          PROVE  c = d /\ m = n
      BY <1>2, <2>2
    <2> QED BY <2>1, <2>2
  <1> QED BY <1>1, <1>3, <1>4

(* An output is new, and those recorded before stay as they are. *)
LEMMA OutputsStay ==
    ASSUME NEW log, IsSeq(log), OneOutput(log), NEW e, Valid(log, e)
    PROVE  /\ OneOutput(Append(log, e))
           /\ \A i : Recorded(log, i) =>
                 /\ Recorded(Append(log, e), i)
                 /\ OutputOf(Append(log, e), i) = OutputOf(log, i)
           /\ \A i : Recorded(Append(log, e), i) /\ ~Recorded(log, i) =>
                 /\ e.type = "OutputRecorded" /\ e.invocation = i
                 /\ OutputOf(Append(log, e), i) = e
  <1> DEFINE more == Append(log, e)
             Outputs(s) == OfType(s, "OutputRecorded")
  <1>1. Outputs(more) = Outputs(log) \cup {x \in {e} : x.type = "OutputRecorded"}
    BY AddsEvent
  <1>2. e.type = "OutputRecorded" => ~Recorded(log, e.invocation)
    <2> SUFFICES ASSUME e.type = "OutputRecorded" PROVE ~Recorded(log, e.invocation)
      OBVIOUS
    <2>1. PICK i \in Invocations, refs \in SUBSET Refs :
             e = OutputRecorded(i, Numbering(log, i), refs) /\ CanRecordOutput(log, i, refs)
      BY ValidOutput
    <2>2. e.invocation = i
      BY <2>1 DEF OutputRecorded
    <2> QED BY <2>1, <2>2 DEF CanRecordOutput, State
  <1>3. OneOutput(more)
    <2> SUFFICES ASSUME NEW d \in Outputs(more), NEW f \in Outputs(more),
                        d.invocation = f.invocation
                 PROVE  d = f
      BY DEF OneOutput
    <2>1. CASE d \in Outputs(log) /\ f \in Outputs(log)
      BY <2>1 DEF OneOutput
    <2>2. CASE d = e /\ f = e
      BY <2>2
    <2>3. CASE d = e /\ f \in Outputs(log)
      BY <1>1, <1>2, <2>3 DEF Recorded, OfType
    <2>4. CASE f = e /\ d \in Outputs(log)
      BY <1>1, <1>2, <2>4 DEF Recorded, OfType
    <2> QED BY <1>1, <2>1, <2>2, <2>3, <2>4
  <1>4. \A i : \A x \in Outputs(log) : x.invocation = i => x = OutputOf(log, i)
    <2> TAKE i
    <2>1. ASSUME NEW x \in Outputs(log), x.invocation = i PROVE x = OutputOf(log, i)
      <3>1. OutputOf(log, i) \in Outputs(log) /\ OutputOf(log, i).invocation = i
        BY <2>1 DEF OutputOf
      <3> QED BY <2>1, <3>1 DEF OneOutput
    <2> QED BY <2>1
  <1>5. \A i : \A x \in Outputs(more) : x.invocation = i => x = OutputOf(more, i)
    <2> TAKE i
    <2>1. ASSUME NEW x \in Outputs(more), x.invocation = i PROVE x = OutputOf(more, i)
      <3>1. OutputOf(more, i) \in Outputs(more) /\ OutputOf(more, i).invocation = i
        BY <2>1 DEF OutputOf
      <3> QED BY <1>3, <2>1, <3>1 DEF OneOutput
    <2> QED BY <2>1
  <1>6. \A i : Recorded(log, i) => \E x \in Outputs(log) : x.invocation = i
    BY DEF Recorded
  <1>7. \A i : Recorded(more, i) <=> \E x \in Outputs(more) : x.invocation = i
    BY DEF Recorded
  <1> HIDE DEF more, Outputs
  <1>8. \A i : Recorded(log, i) => Recorded(more, i) /\ OutputOf(more, i) = OutputOf(log, i)
    BY <1>1, <1>4, <1>5, <1>6, <1>7
  <1>9. \A i : Recorded(more, i) /\ ~Recorded(log, i) =>
           /\ e.type = "OutputRecorded" /\ e.invocation = i
           /\ OutputOf(more, i) = e
    <2>1. ASSUME NEW i, Recorded(more, i), ~Recorded(log, i)
          PROVE  /\ e.type = "OutputRecorded" /\ e.invocation = i
                 /\ OutputOf(more, i) = e
      <3>1. PICK x \in Outputs(more) : x.invocation = i
        BY <1>7, <2>1
      <3>2. x \notin Outputs(log)
        BY <2>1, <3>1 DEF Recorded, Outputs
      <3>3. x = e /\ e.type = "OutputRecorded"
        BY <1>1, <3>1, <3>2
      <3> QED BY <1>5, <3>1, <3>3
    <2> QED BY <2>1
  <1> QED BY <1>3, <1>8, <1>9 DEF more

-------------------------------------------------------------------------------
(* Numbers. *)

(* A finite set of numbers that is not empty has a greatest element: a       *)
(* smallest set without one could lose an element and still have none.       *)
LEMMA GreatestNumber ==
    ASSUME NEW N, N \subseteq Nat, IsFiniteSet(N), N # {}
    PROVE  \E x \in N : \A y \in N : x >= y
  <1> DEFINE Without == {T \in FiniteSubsetsOf(Nat) :
                           T # {} /\ ~\E x \in T : \A y \in T : x >= y}
  <1>1. SUFFICES ASSUME Without # {} PROVE FALSE
    BY DEF FiniteSubsetsOf
  <1>2. PICK T \in Without : \A U \in Without : ~(<<U, T>> \in StrictSubsetOrdering(Nat))
    BY <1>1, WFMin, FS_StrictSubsetOrderingWellFounded
  <1>3. T \subseteq Nat /\ IsFiniteSet(T) /\ T # {} /\ ~\E x \in T : \A y \in T : x >= y
    BY DEF FiniteSubsetsOf
  <1>4. PICK z \in T : TRUE
    BY <1>3
  <1> DEFINE U == T \ {z}
  <1>5. U \subseteq T /\ U # T /\ IsFiniteSet(U)
    BY <1>3, <1>4, FS_RemoveElement
  <1>6. CASE U = {}
    <2>1. \A y \in T : z >= y
      BY <1>3, <1>6
    <2> QED BY <1>3, <1>4, <2>1
  <1>7. CASE U # {}
    <2>1. <<U, T>> \in StrictSubsetOrdering(Nat)
      BY <1>3, <1>5 DEF StrictSubsetOrdering
    <2>2. U \notin Without
      BY <1>2, <2>1
    <2>3. PICK x \in U : \A y \in U : x >= y
      BY <1>3, <1>5, <1>7, <2>2 DEF FiniteSubsetsOf
    <2>4. x \in Nat /\ z \in Nat
      BY <1>3, <1>4, <2>3
    <2>5. CASE x >= z
      BY <1>3, <2>3, <2>4, <2>5
    <2>6. CASE z >= x
      <3>1. \A y \in T : z >= y
        BY <1>3, <2>3, <2>4, <2>6
      <3> QED BY <1>3, <1>4, <3>1
    <2> QED BY <2>4, <2>5, <2>6
  <1> QED BY <1>6, <1>7

LEMMA AfterBounds ==
    ASSUME NEW N, N \subseteq Nat, IsFiniteSet(N)
    PROVE  After(N) \in Nat /\ \A x \in N : x < After(N)
  <1>1. CASE N = {}
    BY <1>1 DEF After
  <1>2. CASE N # {}
    <2>1. Max(N) \in N /\ \A y \in N : Max(N) >= y
      BY <1>2, GreatestNumber DEF Max
    <2>2. After(N) = Max(N) + 1
      BY <1>2 DEF After
    <2> DEFINE g == Max(N)
    <2>3. g \in Nat /\ \A x \in N : x \in Nat /\ g >= x
      BY <2>1
    <2> HIDE DEF g
    <2>4. g + 1 \in Nat /\ \A x \in N : x < g + 1
      BY <2>3
    <2> QED BY <2>2, <2>4 DEF g
  <1> QED BY <1>1, <1>2

LEMMA AfterInterval ==
    ASSUME NEW d \in Nat
    PROVE  After(0..(d - 1)) = d
  <1>1. CASE d = 0
    BY <1>1 DEF After
  <1>2. CASE d # 0
    <2> DEFINE N == 0..(d - 1)
    <2>1. N # {} /\ d - 1 \in N /\ \A y \in N : y \in Int /\ d - 1 >= y
      BY <1>2
    <2>2. Max(N) \in N /\ \A y \in N : Max(N) >= y
      BY <2>1 DEF Max
    <2>3. Max(N) = d - 1
      BY <2>1, <2>2
    <2> QED BY <2>1, <2>3 DEF After
  <1> QED BY <1>1, <1>2

(* The numbers the messages of a new output get: beyond those of their       *)
(* streams, and different for two messages of one stream.                    *)
LEMMA NumberingFresh ==
    ASSUME NEW log, Numbered(log), NEW i \in Invocations
    PROVE  \A k \in 1..Len(Streams[i]) :
              /\ Numbering(log, i)[k] \in Nat
              /\ \A x \in Numbers(log, Streams[i][k]) : x < Numbering(log, i)[k]
              /\ \A j \in 1..Len(Streams[i]) :
                    j < k /\ Streams[i][j] = Streams[i][k]
                       => Numbering(log, i)[j] < Numbering(log, i)[k]
  <1> DEFINE Earlier(k) == {j \in 1..(k - 1) : Streams[i][j] = Streams[i][k]}
  <1>1. \A s : NextSequence(log, s) = After(Numbers(log, s))
    BY DEF NextSequence, Numbers
  <1>2. \A k \in 1..Len(Streams[i]) :
           Numbering(log, i)[k] = After(Numbers(log, Streams[i][k])) + Cardinality(Earlier(k))
    BY <1>1 DEF Numbering
  <1>3. Len(Streams[i]) \in Nat
    BY StoreAssumption
  <1>4. \A k \in 1..Len(Streams[i]) :
           /\ After(Numbers(log, Streams[i][k])) \in Nat
           /\ \A x \in Numbers(log, Streams[i][k]) : x < After(Numbers(log, Streams[i][k]))
           /\ \A x \in Numbers(log, Streams[i][k]) : x \in Nat
    <2> TAKE k \in 1..Len(Streams[i])
    <2>1. <<i, k>> \in Message /\ StreamOf(<<i, k>>) = Streams[i][k]
      BY DEF Message, StreamOf
    <2>2. IsFiniteSet(Numbers(log, Streams[i][k]))
      BY <2>1 DEF Numbered
    <2>3. Numbers(log, Streams[i][k]) \subseteq Nat
      BY DEF Numbers, Numbered
    <2> QED BY <2>2, <2>3, AfterBounds
  <1>5. \A k \in 1..Len(Streams[i]) : IsFiniteSet(Earlier(k)) /\ Cardinality(Earlier(k)) \in Nat
    <2> TAKE k \in 1..Len(Streams[i])
    <2>1. IsFiniteSet(1..(k - 1))
      BY <1>3, FS_Interval
    <2>2. IsFiniteSet(Earlier(k))
      BY <2>1, FS_Subset
    <2> QED BY <2>2, FS_CardinalityType
  <1>6. ASSUME NEW k \in 1..Len(Streams[i]), NEW j \in 1..Len(Streams[i]),
               j < k, Streams[i][j] = Streams[i][k]
        PROVE  Cardinality(Earlier(j)) < Cardinality(Earlier(k))
    <2>1. j \notin Earlier(j)
      BY <1>3
    <2>2. /\ IsFiniteSet(Earlier(j) \cup {j})
          /\ Cardinality(Earlier(j) \cup {j}) = Cardinality(Earlier(j)) + 1
      BY <1>5, <2>1, FS_AddElement
    <2>3. Earlier(j) \cup {j} \subseteq Earlier(k)
      BY <1>3, <1>6
    <2>4. Cardinality(Earlier(j) \cup {j}) <= Cardinality(Earlier(k))
      BY <1>5, <2>3, FS_Subset
    <2> HIDE DEF Earlier
    <2> QED BY <1>5, <2>2, <2>4
  <1> HIDE DEF Earlier
  <1>7. ASSUME NEW k \in 1..Len(Streams[i])
        PROVE  /\ Numbering(log, i)[k] \in Nat
               /\ \A x \in Numbers(log, Streams[i][k]) : x < Numbering(log, i)[k]
    <2> DEFINE first == After(Numbers(log, Streams[i][k]))
               more == Cardinality(Earlier(k))
    <2>1. first \in Nat /\ more \in Nat /\ Numbering(log, i)[k] = first + more
      BY <1>2, <1>4, <1>5
    <2>2. \A x \in Numbers(log, Streams[i][k]) : x \in Nat /\ x < first
      BY <1>4
    <2> HIDE DEF first, more
    <2> QED BY <2>1, <2>2
  <1>8. ASSUME NEW k \in 1..Len(Streams[i]), NEW j \in 1..Len(Streams[i]),
               j < k, Streams[i][j] = Streams[i][k]
        PROVE  Numbering(log, i)[j] < Numbering(log, i)[k]
    <2>1. Numbering(log, i)[j] = After(Numbers(log, Streams[i][k])) + Cardinality(Earlier(j))
      BY <1>2, <1>8
    <2> QED BY <1>2, <1>4, <1>5, <1>6, <1>8, <2>1
  <1> QED BY <1>7, <1>8

-------------------------------------------------------------------------------
(* What every log keeps when a valid event is added. *)

LEMMA MessageShape ==
    ASSUME NEW m \in Message
    PROVE  /\ m[1] \in Invocations
           /\ m[2] \in 1..Len(Streams[m[1]])
           /\ m = <<m[1], m[2]>>
           /\ StreamOf(m) = Streams[m[1]][m[2]]
  <1>1. PICK i \in Invocations : m \in {i} \X (1..Len(Streams[i]))
    BY DEF Message
  <1>2. m[1] = i /\ m[2] \in 1..Len(Streams[i]) /\ m = <<m[1], m[2]>>
    BY <1>1
  <1> QED BY <1>2 DEF StreamOf

(* Recorded numbers stay, and new ones are those of Numbering. *)
LEMMA NumbersStay ==
    ASSUME NEW log, IsSeq(log), OneOutput(log), NEW e, Valid(log, e), NEW m \in Message
    PROVE  /\ Recorded(log, m[1]) =>
                 Recorded(Append(log, e), m[1]) /\ Number(Append(log, e), m) = Number(log, m)
           /\ Recorded(Append(log, e), m[1]) /\ ~Recorded(log, m[1]) =>
                 /\ e.type = "OutputRecorded" /\ e.invocation = m[1]
                 /\ Number(Append(log, e), m) = Numbering(log, m[1])[m[2]]
  <1>1. CASE Recorded(log, m[1])
    BY <1>1, OutputsStay DEF Number
  <1>2. CASE Recorded(Append(log, e), m[1]) /\ ~Recorded(log, m[1])
    <2>1. /\ e.type = "OutputRecorded" /\ e.invocation = m[1]
          /\ OutputOf(Append(log, e), m[1]) = e
      BY <1>2, OutputsStay
    <2>2. PICK i \in Invocations, refs \in SUBSET Refs : e = OutputRecorded(i, Numbering(log, i), refs)
      BY <2>1, ValidOutput
    <2>3. e.invocation = i /\ e.numbers = Numbering(log, i)
      BY <2>2 DEF OutputRecorded
    <2> QED BY <1>2, <2>1, <2>3 DEF Number
  <1> QED BY <1>1, <1>2

LEMMA SourcedKeeps ==
    ASSUME NEW log, IsSeq(log), OneOutput(log), Sourced(log), NEW e, Valid(log, e)
    PROVE  Sourced(Append(log, e))
  <1> DEFINE more == Append(log, e)
             Begun(s, i) == Has(s, InputRecorded(i)) \/ Has(s, Started(i)) \/ Recorded(s, i)
  <1>1. /\ \A x : Has(more, x) <=> Has(log, x) \/ x = e
        /\ \A i : Recorded(log, i) => Recorded(more, i)
        /\ \A i : Recorded(more, i) /\ ~Recorded(log, i) =>
              e.type = "OutputRecorded" /\ e.invocation = i
    BY AddsEvent, OutputsStay
  <1> SUFFICES ASSUME NEW i \in Invocations, Begun(more, i), NEW j \in Sources[i]
               PROVE  Recorded(more, j)
    BY DEF Sourced
  <1>2. CASE Begun(log, i)
    BY <1>1, <1>2 DEF Sourced
  <1>3. CASE e = InputRecorded(i)
    BY <1>1, <1>3, ValidInput DEF CanRecordInput
  <1>4. CASE e = Started(i)
    <2>1. Has(log, InputRecorded(i))
      BY <1>4, ValidStart DEF CanStart, State
    <2> QED BY <1>2, <2>1
  <1>5. CASE Recorded(more, i) /\ ~Recorded(log, i)
    <2>1. PICK n \in Invocations, refs \in SUBSET Refs :
             e = OutputRecorded(n, Numbering(log, n), refs) /\ CanRecordOutput(log, n, refs)
      BY <1>1, <1>5, ValidOutput
    <2>2. e.invocation = n
      BY <2>1 DEF OutputRecorded
    <2>3. Has(log, Started(i))
      BY <1>1, <1>5, <2>1, <2>2 DEF CanRecordOutput, State
    <2> QED BY <1>2, <2>3
  <1> QED BY <1>1, <1>2, <1>3, <1>4, <1>5

LEMMA InheritsKeeps ==
    ASSUME NEW log, IsSeq(log), OneOutput(log), Sourced(log), Inherits(log), NEW e, Valid(log, e)
    PROVE  Inherits(Append(log, e))
  <1> DEFINE more == Append(log, e)
  <1>1. /\ \A i : Recorded(log, i) => OutputOf(more, i) = OutputOf(log, i)
        /\ \A i : Recorded(more, i) /\ ~Recorded(log, i) =>
              /\ e.type = "OutputRecorded" /\ e.invocation = i
              /\ OutputOf(more, i) = e
    BY OutputsStay
  <1> SUFFICES ASSUME NEW i \in Invocations, Recorded(more, i), NEW j \in Sources[i]
               PROVE  OutputOf(more, j).refs \subseteq OutputOf(more, i).refs
    BY DEF Inherits
  <1>2. CASE Recorded(log, i)
    <2>1. Recorded(log, j)
      BY <1>2 DEF Sourced
    <2> QED BY <1>1, <1>2, <2>1 DEF Inherits
  <1>3. CASE ~Recorded(log, i)
    <2>1. PICK n \in Invocations, refs \in SUBSET Refs :
             e = OutputRecorded(n, Numbering(log, n), refs) /\ CanRecordOutput(log, n, refs)
      BY <1>1, <1>3, ValidOutput
    <2>2. n = i /\ OutputOf(more, i).refs = refs
      BY <1>1, <1>3, <2>1 DEF OutputRecorded
    <2>3. Recorded(log, j)
      BY <2>1, <2>2 DEF CanRecordOutput, State, Sourced
    <2>4. OutputOf(log, j).refs \subseteq refs
      BY <2>1, <2>2 DEF CanRecordOutput
    <2> QED BY <1>1, <2>2, <2>3, <2>4
  <1> QED BY <1>2, <1>3

LEMMA NumberedKeeps ==
    ASSUME NEW log, IsSeq(log), OneOutput(log), Numbered(log), NEW e, Valid(log, e)
    PROVE  Numbered(Append(log, e))
  <1> DEFINE more == Append(log, e)
  <1>1. ASSUME NEW m \in Message, Recorded(more, m[1])
        PROVE  Number(more, m) \in Nat
    <2>1. m[1] \in Invocations /\ m[2] \in 1..Len(Streams[m[1]])
      BY MessageShape
    <2>2. CASE Recorded(log, m[1])
      BY <2>2, NumbersStay DEF Numbered
    <2>3. CASE ~Recorded(log, m[1])
      BY <1>1, <2>1, <2>3, NumbersStay, NumberingFresh
    <2> QED BY <2>2, <2>3
  <1>2. ASSUME NEW m \in Message
        PROVE  IsFiniteSet(Numbers(more, StreamOf(m)))
    <2> DEFINE s == StreamOf(m)
               i == e.invocation
               Fresh == {Numbering(log, i)[k] : k \in 1..Len(Streams[i])}
    <2>1. IsFiniteSet(Numbers(log, s))
      BY DEF Numbered
    <2>2. ASSUME NEW x \in Message, Recorded(more, x[1]), StreamOf(x) = s, Number(more, x) \notin Numbers(log, s)
          PROVE  e.type = "OutputRecorded" /\ Number(more, x) \in Fresh
      <3>1. ~Recorded(log, x[1])
        BY <2>2, NumbersStay DEF Numbers
      <3>2. x[2] \in 1..Len(Streams[x[1]])
        BY MessageShape
      <3> QED BY <2>2, <3>1, <3>2, NumbersStay
    <2>3. CASE e.type # "OutputRecorded"
      <3>1. Numbers(more, s) \subseteq Numbers(log, s)
        BY <2>2, <2>3 DEF Numbers
      <3> QED BY <2>1, <3>1, FS_Subset
    <2>4. CASE e.type = "OutputRecorded"
      <3>1. i \in Invocations
        <4>1. PICK n \in Invocations, refs \in SUBSET Refs : e = OutputRecorded(n, Numbering(log, n), refs)
          BY <2>4, ValidOutput
        <4> QED BY <4>1 DEF OutputRecorded
      <3>2. Len(Streams[i]) \in Nat
        BY <3>1, StoreAssumption
      <3>3. IsFiniteSet(1..Len(Streams[i]))
        BY <3>2, FS_Interval
      <3>4. [k \in 1..Len(Streams[i]) |-> Numbering(log, i)[k]] \in Surjection(1..Len(Streams[i]), Fresh)
        BY DEF Surjection
      <3>5. IsFiniteSet(Fresh)
        BY <3>3, <3>4, FS_Surjection
      <3>6. IsFiniteSet(Numbers(log, s) \cup Fresh)
        BY <2>1, <3>5, FS_Union
      <3>7. Numbers(more, s) \subseteq Numbers(log, s) \cup Fresh
        BY <2>2 DEF Numbers
      <3> QED BY <3>6, <3>7, FS_Subset
    <2> QED BY <2>3, <2>4
  <1> QED BY <1>1, <1>2 DEF Numbered

LEMMA DistinctKeeps ==
    ASSUME NEW log, IsSeq(log), OneOutput(log), Numbered(log), Distinct(log), NEW e, Valid(log, e)
    PROVE  Distinct(Append(log, e))
  <1> DEFINE more == Append(log, e)
  <1> SUFFICES ASSUME NEW m \in Message, NEW n \in Message,
                      Recorded(more, m[1]), Recorded(more, n[1]),
                      StreamOf(m) = StreamOf(n), Number(more, m) = Number(more, n)
               PROVE  m = n
    BY DEF Distinct
  <1>1. CASE Recorded(log, m[1]) /\ Recorded(log, n[1])
    BY <1>1, NumbersStay DEF Distinct
  <1>2. ASSUME NEW x \in Message, NEW y \in Message, Recorded(more, y[1]),
               Recorded(log, x[1]), ~Recorded(log, y[1]), StreamOf(x) = StreamOf(y)
        PROVE  Number(more, x) # Number(more, y)
    <2>1. Number(more, x) = Number(log, x) /\ Number(log, x) \in Nat
      BY <1>2, NumbersStay DEF Numbered
    <2>2. Number(log, x) \in Numbers(log, StreamOf(y))
      BY <1>2 DEF Numbers
    <2>3. Number(more, y) = Numbering(log, y[1])[y[2]]
      BY <1>2, NumbersStay
    <2>4. /\ y[1] \in Invocations /\ y[2] \in 1..Len(Streams[y[1]])
          /\ StreamOf(y) = Streams[y[1]][y[2]]
      BY MessageShape
    <2>5. /\ Numbering(log, y[1])[y[2]] \in Nat
          /\ Number(log, x) < Numbering(log, y[1])[y[2]]
      BY <2>2, <2>4, NumberingFresh
    <2> QED BY <2>1, <2>3, <2>5
  <1>3. CASE ~Recorded(log, m[1]) /\ ~Recorded(log, n[1])
    <2>1. m[1] = n[1]
      BY <1>3, NumbersStay
    <2>2. /\ Number(more, m) = Numbering(log, m[1])[m[2]]
          /\ Number(more, n) = Numbering(log, m[1])[n[2]]
      BY <1>3, <2>1, NumbersStay
    <2>3. /\ m[1] \in Invocations
          /\ m[2] \in 1..Len(Streams[m[1]]) /\ n[2] \in 1..Len(Streams[m[1]])
          /\ Streams[m[1]][m[2]] = Streams[m[1]][n[2]]
          /\ m = <<m[1], m[2]>> /\ n = <<m[1], n[2]>>
      BY <2>1, MessageShape
    <2>4. /\ Numbering(log, m[1])[m[2]] \in Nat /\ Numbering(log, m[1])[n[2]] \in Nat
          /\ m[2] < n[2] => Numbering(log, m[1])[m[2]] < Numbering(log, m[1])[n[2]]
          /\ n[2] < m[2] => Numbering(log, m[1])[n[2]] < Numbering(log, m[1])[m[2]]
      BY <2>3, NumberingFresh
    <2>5. m[2] \in Int /\ n[2] \in Int
      BY <2>3
    <2>6. m[2] = n[2]
      <3>1. Numbering(log, m[1])[m[2]] = Numbering(log, m[1])[n[2]]
        BY <2>2
      <3>2. ~(m[2] < n[2]) /\ ~(n[2] < m[2])
        BY <2>4, <3>1
      <3> QED BY <2>5, <3>2
    <2> QED BY <2>3, <2>6
  <1> QED BY <1>1, <1>2, <1>3

LEMMA LifecycleKeeps ==
    ASSUME NEW log, IsSeq(log), OneOutput(log), Lifecycle(log), NEW e, Valid(log, e)
    PROVE  Lifecycle(Append(log, e))
  <1> DEFINE more == Append(log, e)
  <1>1. \A x : Has(more, x) <=> Has(log, x) \/ x = e
    BY AddsEvent
  <1>2. \A i : Recorded(log, i) => Recorded(more, i)
    BY OutputsStay
  <1> HIDE DEF more
  <1>3. ASSUME NEW c \in Consumers, NEW m \in Message, Has(more, DeliveryClaimed(c, m))
        PROVE  Recorded(more, m[1])
    <2>1. CASE Has(log, DeliveryClaimed(c, m))
      BY <1>2, <2>1 DEF Lifecycle
    <2>2. CASE e = DeliveryClaimed(c, m)
      BY <1>2, <2>2, ValidDelivery DEF CanClaim
    <2> QED BY <1>1, <1>3, <2>1, <2>2
  <1>4. ASSUME NEW c \in Consumers, NEW m \in Message, Has(more, Delivered(c, m))
        PROVE  Has(more, DeliveryClaimed(c, m))
    <2>1. CASE Has(log, Delivered(c, m))
      BY <1>1, <2>1 DEF Lifecycle
    <2>2. CASE e = Delivered(c, m)
      BY <1>1, <2>2, ValidDelivery DEF CanAcknowledge
    <2> QED BY <1>1, <1>4, <2>1, <2>2
  <1> QED BY <1>3, <1>4 DEF more, Lifecycle

LEMMA InTurnKeeps ==
    ASSUME NEW log, IsSeq(log), OneOutput(log), Distinct(log), Lifecycle(log), InTurn(log),
           NEW e, Valid(log, e)
    PROVE  InTurn(Append(log, e))
  <1> DEFINE more == Append(log, e)
  <1>1. \A x : Has(more, x) <=> Has(log, x) \/ x = e
    BY AddsEvent
  <1> SUFFICES ASSUME NEW c \in Consumers, NEW m \in Message
               PROVE  /\ NextDelivery(more, c, StreamOf(m)) \in Nat
                      /\ Acknowledged(more, c, StreamOf(m))
                           = 0..(NextDelivery(more, c, StreamOf(m)) - 1)
                      /\ Has(more, DeliveryClaimed(c, m)) /\ ~Has(more, Delivered(c, m))
                           => Number(more, m) = NextDelivery(more, c, StreamOf(m))
    BY DEF InTurn
  <1> DEFINE s == StreamOf(m)
             d == NextDelivery(log, c, s)
  <1>2. /\ d \in Nat /\ Acknowledged(log, c, s) = 0..(d - 1)
        /\ \A x \in Message :
              StreamOf(x) = s /\ Has(log, DeliveryClaimed(c, x)) /\ ~Has(log, Delivered(c, x))
                 => Number(log, x) = d
    BY DEF InTurn
  <1>3. /\ NextDelivery(log, c, s) = After(Acknowledged(log, c, s))
        /\ NextDelivery(more, c, s) = After(Acknowledged(more, c, s))
    BY DEF NextDelivery, Acknowledged
  <1>4. \A x \in Message : Has(log, Delivered(c, x)) \/ Has(log, DeliveryClaimed(c, x)) =>
           Recorded(log, x[1]) /\ Number(more, x) = Number(log, x)
    BY NumbersStay DEF Lifecycle
  <1> HIDE DEF more
  <1>5. CASE \E x \in Message : StreamOf(x) = s /\ e = Delivered(c, x)
    <2>1. PICK x \in Message : StreamOf(x) = s /\ e = Delivered(c, x)
      BY <1>5
    <2>2. Has(log, DeliveryClaimed(c, x)) /\ ~Has(log, Delivered(c, x))
      BY <2>1, ValidDelivery DEF CanAcknowledge
    <2>3. Number(log, x) = d /\ Number(more, x) = d
      BY <1>2, <1>4, <2>1, <2>2
    <2>4. Acknowledged(more, c, s) = Acknowledged(log, c, s) \cup {d}
      <3>1. \A y \in Message : Has(more, Delivered(c, y)) <=> Has(log, Delivered(c, y)) \/ y = x
        BY <1>1, <2>1, EventsDiffer
      <3>2. ASSUME NEW k \in Acknowledged(more, c, s)
            PROVE  k \in Acknowledged(log, c, s) \cup {d}
        <4>1. PICK y \in Message : Has(more, Delivered(c, y)) /\ StreamOf(y) = s /\ k = Number(more, y)
          BY <3>2 DEF Acknowledged
        <4> QED BY <1>4, <2>3, <3>1, <4>1 DEF Acknowledged
      <3>3. ASSUME NEW k \in Acknowledged(log, c, s)
            PROVE  k \in Acknowledged(more, c, s)
        <4>1. PICK y \in Message : Has(log, Delivered(c, y)) /\ StreamOf(y) = s /\ k = Number(log, y)
          BY <3>3 DEF Acknowledged
        <4> QED BY <1>4, <3>1, <4>1 DEF Acknowledged
      <3>4. d \in Acknowledged(more, c, s)
        BY <2>1, <2>3, <3>1 DEF Acknowledged
      <3> QED BY <3>2, <3>3, <3>4
    <2> HIDE DEF d
    <2>5. Acknowledged(more, c, s) = 0..((d + 1) - 1)
      BY <1>2, <2>4
    <2>6. NextDelivery(more, c, s) = d + 1
      BY <1>2, <1>3, <2>5, AfterInterval
    <2>7. ~(Has(more, DeliveryClaimed(c, m)) /\ ~Has(more, Delivered(c, m)))
      <3> SUFFICES ASSUME Has(more, DeliveryClaimed(c, m)), ~Has(more, Delivered(c, m))
                   PROVE  FALSE
        OBVIOUS
      <3>1. DeliveryClaimed(c, m) # e
        BY <2>1, EventsDiffer
      <3>2. Has(log, DeliveryClaimed(c, m)) /\ ~Has(log, Delivered(c, m))
        BY <1>1, <3>1
      <3>3. Number(log, m) = d
        BY <1>2, <3>2
      <3>4. m = x
        BY <1>4, <2>1, <2>2, <2>3, <3>2, <3>3 DEF Distinct
      <3> QED BY <1>1, <2>1, <3>4
    <2> QED BY <1>2, <2>5, <2>6, <2>7
  <1>6. CASE ~\E x \in Message : StreamOf(x) = s /\ e = Delivered(c, x)
    <2>1. \A y \in Message : StreamOf(y) = s =>
             (Has(more, Delivered(c, y)) <=> Has(log, Delivered(c, y)))
      BY <1>1, <1>6
    <2>2. Acknowledged(more, c, s) = Acknowledged(log, c, s)
      <3>1. {x \in Message : Has(more, Delivered(c, x)) /\ StreamOf(x) = s}
              = {x \in Message : Has(log, Delivered(c, x)) /\ StreamOf(x) = s}
        BY <2>1
      <3>2. \A x \in {x \in Message : Has(log, Delivered(c, x)) /\ StreamOf(x) = s} :
               Number(more, x) = Number(log, x)
        BY <1>4
      <3> QED BY <3>1, <3>2 DEF Acknowledged
    <2>3. NextDelivery(more, c, s) = d
      BY <1>3, <2>2
    <2>4. ASSUME Has(more, DeliveryClaimed(c, m)), ~Has(more, Delivered(c, m))
          PROVE  Number(more, m) = d
      <3>1. ~Has(log, Delivered(c, m))
        BY <1>1, <2>4
      <3>2. CASE Has(log, DeliveryClaimed(c, m))
        BY <1>2, <1>4, <3>1, <3>2
      <3>3. CASE e = DeliveryClaimed(c, m)
        <4>1. Recorded(log, m[1]) /\ Number(log, m) = d
          BY <3>3, ValidDelivery DEF CanClaim
        <4> QED BY <4>1, NumbersStay DEF more
      <3> QED BY <1>1, <2>4, <3>2, <3>3
    <2> QED BY <1>2, <2>2, <2>3, <2>4
  <1> QED BY <1>5, <1>6

(* Every valid event keeps what is said of the log. *)
LEMMA LogInvKeeps ==
    ASSUME NEW log, IsSeq(log), LogInv(log), NEW e, Valid(log, e)
    PROVE  LogInv(Append(log, e))
  BY OutputsStay, SourcedKeeps, InheritsKeeps, NumberedKeeps, DistinctKeeps, LifecycleKeeps,
     InTurnKeeps DEF LogInv

LEMMA LogInvStarts == LogInv(<<>>)
  <1>1. \A x : ~Has(<<>>, x)
    BY DEF Has, ToSet
  <1>2. \A type : OfType(<<>>, type) = {}
    BY DEF OfType, ToSet
  <1>3. \A i : ~Recorded(<<>>, i)
    BY <1>2 DEF Recorded
  <1>4. \A s : Numbers(<<>>, s) = {}
    BY <1>3 DEF Numbers
  <1>5. \A c, s : Acknowledged(<<>>, c, s) = {}
    BY <1>1 DEF Acknowledged
  <1>6. \A c, s : NextDelivery(<<>>, c, s) = 0
    <2> TAKE c, s
    <2>1. NextDelivery(<<>>, c, s) = After(Acknowledged(<<>>, c, s))
      BY DEF NextDelivery, Acknowledged
    <2> QED BY <1>5, <2>1 DEF After
  <1>7. InTurn(<<>>)
    <2>1. 0..(0 - 1) = {}
      OBVIOUS
    <2>2. ASSUME NEW c \in Consumers, NEW m \in Message
          PROVE  /\ NextDelivery(<<>>, c, StreamOf(m)) \in Nat
                 /\ Acknowledged(<<>>, c, StreamOf(m))
                      = 0..(NextDelivery(<<>>, c, StreamOf(m)) - 1)
                 /\ ~Has(<<>>, DeliveryClaimed(c, m))
      BY <1>1, <1>5, <1>6, <2>1
    <2> QED BY <2>2 DEF InTurn
  <1>8. Numbered(<<>>)
    BY <1>3, <1>4, FS_EmptySet DEF Numbered
  <1> QED BY <1>1, <1>2, <1>3, <1>7, <1>8
          DEF LogInv, OneOutput, Sourced, Inherits, Distinct, Lifecycle

-------------------------------------------------------------------------------
(* The steps of the store, as far as its consumers are concerned. *)

(* The log stays, grows by a valid event that calls nobody, or grows by a    *)
(* permitted claim and its consumer is called.  Only a deliver in progress   *)
(* acknowledges.                                                             *)
LogStands == Log' = Log /\ callbacks' = callbacks

LogAdds(e) ==
    /\ Valid(Log, e)
    /\ Log' = Append(Log, e)
    /\ callbacks' = callbacks
    /\ e.type = "Delivered" =>
          \E w \in Writers : /\ running[w] # <<>>
                             /\ e = Delivered(Last(running[w])[1], Last(running[w])[2])

LogCalls(c, m) ==
    /\ Valid(Log, DeliveryClaimed(c, m))
    /\ Log' = Append(Log, DeliveryClaimed(c, m))
    /\ callbacks' = Append(callbacks, <<c, m>>)
    /\ OutputOf(Log, m[1]).refs = {} \/ c \in Cleared

LogStep ==
    \/ LogStands
    \/ \E e : LogAdds(e)
    \/ \E c \in Consumers, m \in Message : LogCalls(c, m)

LEMMA AppendIsLogStep ==
    ASSUME Inv, NEW w \in Writers, NEW e, AppendStep(w, e), UNCHANGED callbacks,
           e.type = "Delivered" =>
              running[w] # <<>> /\ e = Delivered(Last(running[w])[1], Last(running[w])[2])
    PROVE  LogStep
  <1>1. Valid(Log, e)
    BY OpenWriter DEF AppendStep, Accepts, Inv, StoreInv
  <1>2. CASE journal' = Append(journal, Line(w, e))
    <2>1. Log' = Append(Log, e)
      BY <1>2, LogGrows DEF Inv, Shape
    <2>2. LogAdds(e)
      BY <1>1, <2>1 DEF LogAdds
    <2> QED BY <2>2 DEF LogStep
  <1>3. CASE UNCHANGED journal
    BY <1>3 DEF LogStep, LogStands, Log, Prefix
  <1> QED BY <1>2, <1>3 DEF AppendStep, Appended, Failed, Died, Remains

LEMMA DeliverIsLogStep ==
    ASSUME Inv, NEW w \in Writers, NEW c \in Consumers, NEW m \in Message, Deliver(w, c, m)
    PROVE  LogStep
  <1> DEFINE e == DeliveryClaimed(c, m)
  <1>1. AppendStep(w, e) /\ e.type # "Delivered"
    BY DEF Deliver, AppendStep, DeliveryClaimed
  <1>2. CASE UNCHANGED callbacks
    BY <1>1, <1>2, AppendIsLogStep
  <1>3. CASE Appended(w, e) /\ callbacks' = Append(callbacks, <<c, m>>)
    <2>1. events[w] = Log /\ Valid(Log, e)
      BY <1>1, OpenWriter DEF AppendStep, Accepts, Inv, StoreInv
    <2>2. Log' = Append(Log, e)
      BY <1>3, LogGrows DEF Appended, Inv, Shape
    <2>3. OutputOf(Log, m[1]).refs = {} \/ c \in Cleared
      BY <2>1 DEF Deliver, Permitted
    <2>4. LogCalls(c, m)
      BY <1>3, <2>1, <2>2, <2>3 DEF LogCalls
    <2> QED BY <2>4 DEF LogStep
  <1> QED BY <1>2, <1>3 DEF Deliver

LEMMA NextIsLogStep == Inv /\ [Next]_vars => LogStep
  <1> SUFFICES ASSUME Inv, [Next]_vars PROVE LogStep
    OBVIOUS
  <1>1. UNCHANGED <<journal, callbacks>> => LogStep
    BY DEF LogStep, LogStands, Log, Prefix
  <1>2. CASE RemoveLock \/ UNCHANGED vars
    BY <1>1, <1>2 DEF RemoveLock, vars, disk
  <1>3. ASSUME NEW w \in Writers,
               \/ Open(w) \/ DieOpening(w) \/ Close(w) \/ Die(w) \/ Abandon(w)
               \/ \E o \in Objects : Put(w, o) \/ PutFails(w, o) \/ PutDies(w, o)
        PROVE  LogStep
    BY <1>1, <1>3 DEF Open, DieOpening, Close, Die, Abandon, Put, PutFails, PutDies, disk
  <1>4. ASSUME NEW w \in Writers, NEW e, Write(w, e), e.type # "Delivered"
        PROVE  LogStep
    BY <1>4, AppendIsLogStep DEF Write, AppendStep
  <1>5. ASSUME NEW w \in Writers, NEW c \in Consumers, NEW m \in Message, Deliver(w, c, m)
        PROVE  LogStep
    BY <1>5, DeliverIsLogStep
  <1>6. ASSUME NEW w \in Writers, Acknowledge(w)
        PROVE  LogStep
    <2> DEFINE e == Delivered(Last(running[w])[1], Last(running[w])[2])
    <2>1. AppendStep(w, e) /\ UNCHANGED callbacks /\ running[w] # <<>>
      BY <1>6 DEF Acknowledge, AppendStep
    <2> QED BY <2>1, AppendIsLogStep
  <1>7. ASSUME NEW w \in Writers,
               \/ \E r \in Runs, t \in Treatments : RegisterRun(w, r, t)
               \/ \E i \in Invocations : RecordInput(w, i) \/ Start(w, i) \/ Dispatch(w, i)
               \/ \E i \in Invocations, refs \in SUBSET Refs : RecordOutput(w, i, refs)
               \/ RecordFailure(w)
        PROVE  LogStep
    <2>1. CASE \E r \in Runs, t \in Treatments : RegisterRun(w, r, t)
      BY <1>4, <2>1 DEF RegisterRun, RunAdmitted
    <2>2. CASE \E i \in Invocations : RecordInput(w, i) \/ Start(w, i) \/ Dispatch(w, i)
      BY <1>4, <2>2 DEF RecordInput, Start, Dispatch, InputRecorded, Started, DispatchIntent
    <2>3. CASE \E i \in Invocations, refs \in SUBSET Refs : RecordOutput(w, i, refs)
      BY <1>4, <2>3 DEF RecordOutput, OutputRecorded
    <2>4. CASE RecordFailure(w)
      BY <1>4, <2>4 DEF RecordFailure, IntegrityFailure
    <2> QED BY <1>7, <2>1, <2>2, <2>3, <2>4
  <1> QED BY <1>2, <1>3, <1>5, <1>6, <1>7 DEF Next

(* The delivers in progress after a step: those before it, and one that has  *)
(* just called its consumer.                                                 *)
RunningStep ==
    /\ running' \in [Writers -> Seq(Call)]
    /\ \A v \in Writers : \A k \in DOMAIN running'[v] :
          \/ k \in DOMAIN running[v] /\ running'[v][k] = running[v][k]
          \/ callbacks' = Append(callbacks, running'[v][k])

LEMMA SubSequence ==
    ASSUME NEW w \in Writers, running \in [Writers -> Seq(Call)],
           \E left \in Seq(Call) :
              /\ running' = [running EXCEPT ![w] = left]
              /\ \A k \in DOMAIN left : k \in DOMAIN running[w] /\ left[k] = running[w][k]
    PROVE  RunningStep
  BY DEF RunningStep

LEMMA NextIsRunningStep ==
    ASSUME running \in [Writers -> Seq(Call)], Next
    PROVE  RunningStep
  <1>1. UNCHANGED running => RunningStep
    BY DEF RunningStep
  <1>2. ASSUME NEW w \in Writers, Gone(w)
        PROVE  RunningStep
    <2>1. <<>> \in Seq(Call) /\ DOMAIN <<>> = {}
      OBVIOUS
    <2>2. running' = [running EXCEPT ![w] = <<>>]
      BY <1>2 DEF Gone
    <2> QED BY <2>1, <2>2, SubSequence
  <1>3. ASSUME NEW w \in Writers, running[w] # <<>>, Popped(w)
        PROVE  RunningStep
    <2> DEFINE now == running[w]
               fewer == Front(now)
    <2>1. now \in Seq(Call) /\ now # <<>>
      BY <1>3
    <2>2. fewer \in Seq(Call) /\ DOMAIN fewer = 1..(Len(now) - 1)
          /\ Len(now) \in Nat /\ DOMAIN now = 1..Len(now)
          /\ \A k \in 1..(Len(now) - 1) : fewer[k] = now[k]
      <3> HIDE DEF now
      <3>1. Len(now) \in Nat /\ Len(now) # 0 /\ DOMAIN now = 1..Len(now)
            /\ \A k \in 1..Len(now) : now[k] \in Call
        BY <2>1
      <3>2. fewer = [k \in 1..(Len(now) - 1) |-> now[k]]
        BY <2>1, <3>1 DEF Front
      <3> QED BY <3>1, <3>2
    <2>3. running' = [running EXCEPT ![w] = fewer]
      BY <1>3 DEF Popped
    <2>4. \A k \in DOMAIN fewer : k \in DOMAIN running[w] /\ fewer[k] = running[w][k]
      BY <2>2
    <2>5. fewer \in Seq(Call)
      BY <2>2
    <2> HIDE DEF fewer
    <2>6. \E s \in Seq(Call) :
             /\ running' = [running EXCEPT ![w] = s]
             /\ \A k \in DOMAIN s : k \in DOMAIN running[w] /\ s[k] = running[w][k]
      BY <2>3, <2>4, <2>5
    <2> QED BY <2>6, SubSequence
  <1>4. ASSUME NEW w \in Writers, NEW c \in Consumers, NEW m \in Message, Deliver(w, c, m)
        PROVE  RunningStep
    <2>1. CASE /\ running' = [running EXCEPT ![w] = Append(@, <<c, m>>)]
               /\ callbacks' = Append(callbacks, <<c, m>>)
      <3> DEFINE now == running[w]
                 more == Append(now, <<c, m>>)
      <3>1. <<c, m>> \in Call /\ now \in Seq(Call)
        BY DEF Call
      <3> HIDE DEF Call, now
      <3>2. /\ more \in Seq(Call) /\ Len(now) \in Nat
            /\ DOMAIN more = 1..(Len(now) + 1) /\ DOMAIN now = 1..Len(now)
            /\ \A k \in 1..Len(now) : more[k] = now[k]
            /\ more[Len(now) + 1] = <<c, m>>
        BY <3>1
      <3>3. running'[w] = more /\ \A v \in Writers : v # w => running'[v] = running[v]
        BY <2>1 DEF now
      <3>4. running' \in [Writers -> Seq(Call)]
        BY <2>1, <3>2 DEF now
      <3> HIDE DEF more
      <3>5. ASSUME NEW k \in DOMAIN running'[w]
            PROVE  \/ k \in DOMAIN running[w] /\ running'[w][k] = running[w][k]
                   \/ callbacks' = Append(callbacks, running'[w][k])
        <4>1. CASE k \in 1..Len(now)
          BY <3>2, <3>3, <4>1 DEF now
        <4>2. CASE k = Len(now) + 1
          BY <2>1, <3>2, <3>3, <4>2
        <4> QED BY <3>2, <3>3, <3>5, <4>1, <4>2
      <3> QED BY <3>3, <3>4, <3>5 DEF RunningStep
    <2> QED BY <1>1, <1>2, <1>4, <2>1 DEF Deliver, Died
  <1>5. ASSUME NEW w \in Writers, Acknowledge(w)
        PROVE  RunningStep
    BY <1>2, <1>3, <1>5 DEF Acknowledge, Died
  <1>6. ASSUME NEW w \in Writers, NEW e, Write(w, e)
        PROVE  RunningStep
    BY <1>1, <1>2, <1>6 DEF Write, Died
  <1>7. ASSUME NEW w \in Writers,
               \/ Open(w) \/ DieOpening(w) \/ Close(w) \/ Die(w) \/ Abandon(w)
               \/ \E o \in Objects : Put(w, o) \/ PutFails(w, o) \/ PutDies(w, o)
        PROVE  RunningStep
    BY <1>1, <1>2, <1>3, <1>7
       DEF Open, DieOpening, Close, Die, Abandon, Put, PutFails, PutDies
  <1>8. CASE RemoveLock
    BY <1>1, <1>8 DEF RemoveLock
  <1> QED BY <1>4, <1>5, <1>6, <1>7, <1>8
          DEF Next, RegisterRun, RecordInput, Start, RecordOutput, Dispatch, RecordFailure

-------------------------------------------------------------------------------
(* What the steps keep. *)

LEMMA CallSequence ==
    ASSUME callbacks \in Seq(Call)
    PROVE  /\ IsSeq(callbacks) /\ Len(callbacks) \in Nat /\ DOMAIN callbacks = 1..Len(callbacks)
           /\ \A n \in DOMAIN callbacks :
                 /\ callbacks[n] = <<callbacks[n][1], callbacks[n][2]>>
                 /\ callbacks[n][1] \in Consumers /\ callbacks[n][2] \in Message
  <1>1. Len(callbacks) \in Nat /\ DOMAIN callbacks = 1..Len(callbacks)
        /\ \A n \in DOMAIN callbacks : callbacks[n] \in Call
    OBVIOUS
  <1>2. IsSeq(callbacks)
    <2>1. callbacks \in [1..Len(callbacks) -> ToSet(callbacks)]
      BY <1>1 DEF ToSet
    <2> QED BY <1>1, <2>1 DEF IsSeq
  <1> QED BY <1>1, <1>2 DEF Call

(* After a call, the calls are those before it and the new one. *)
LEMMA OneMoreCall ==
    ASSUME callbacks \in Seq(Call), NEW c \in Consumers, NEW m \in Message,
           callbacks' = Append(callbacks, <<c, m>>)
    PROVE  /\ callbacks' \in Seq(Call)
           /\ Len(callbacks) \in Nat
           /\ DOMAIN callbacks = 1..Len(callbacks)
           /\ DOMAIN callbacks' = 1..(Len(callbacks) + 1)
           /\ \A n \in 1..Len(callbacks) : callbacks'[n] = callbacks[n]
           /\ callbacks'[Len(callbacks) + 1] = <<c, m>>
  <1>1. <<c, m>> \in Call
    BY DEF Call
  <1> HIDE DEF Call
  <1> QED BY <1>1

(* What a step of the log keeps of the lookups. *)
LEMMA LookupsKept ==
    ASSUME IsSeq(Log), LogInv(Log), LogStep
    PROVE  /\ \A x : Has(Log, x) => Has(Log', x)
           /\ \A i : Recorded(Log, i) =>
                 Recorded(Log', i) /\ OutputOf(Log', i) = OutputOf(Log, i)
           /\ \A m \in Message : Recorded(Log, m[1]) => Number(Log', m) = Number(Log, m)
           /\ LogInv(Log')
  <1>1. CASE LogStands
    BY <1>1 DEF LogStands
  <1>2. ASSUME NEW e, Valid(Log, e), Log' = Append(Log, e)
        PROVE  /\ \A x : Has(Log, x) => Has(Log', x)
               /\ \A i : Recorded(Log, i) =>
                     Recorded(Log', i) /\ OutputOf(Log', i) = OutputOf(Log, i)
               /\ \A m \in Message : Recorded(Log, m[1]) => Number(Log', m) = Number(Log, m)
               /\ LogInv(Log')
    <2>1. OneOutput(Log)
      BY DEF LogInv
    <2>2. \A x : Has(Append(Log, e), x) <=> Has(Log, x) \/ x = e
      BY AddsEvent
    <2>3. \A i : Recorded(Log, i) =>
             Recorded(Append(Log, e), i) /\ OutputOf(Append(Log, e), i) = OutputOf(Log, i)
      BY <1>2, <2>1, OutputsStay
    <2>4. \A m \in Message : Recorded(Log, m[1]) => Number(Append(Log, e), m) = Number(Log, m)
      BY <1>2, <2>1, NumbersStay
    <2>5. LogInv(Append(Log, e))
      BY <1>2, LogInvKeeps
    <2> QED BY <1>2, <2>2, <2>3, <2>4, <2>5
  <1> QED BY <1>1, <1>2 DEF LogStep, LogAdds, LogCalls

LEMMA CallsRecorded ==
    ASSUME DeliveryInv, NEW n \in DOMAIN callbacks
    PROVE  /\ Has(Log, DeliveryClaimed(callbacks[n][1], callbacks[n][2]))
           /\ Recorded(Log, callbacks[n][2][1])
  <1>1. callbacks[n][1] \in Consumers /\ callbacks[n][2] \in Message
    BY CallSequence DEF DeliveryInv, CallShape
  <1>2. Has(Log, DeliveryClaimed(callbacks[n][1], callbacks[n][2]))
    BY DEF DeliveryInv, Inv, StoreInv, CallsClaimed
  <1> QED BY <1>1, <1>2 DEF DeliveryInv, LogInv, Lifecycle

LEMMA PermittedKeeps == ASSUME DeliveryInv, LogStep PROVE CallsPermitted'
  <1>1. IsSeq(Log)
    BY LogShape DEF DeliveryInv, Inv, Shape
  <1>2. \A i : Recorded(Log, i) => Recorded(Log', i) /\ OutputOf(Log', i) = OutputOf(Log, i)
    BY <1>1, LookupsKept DEF DeliveryInv
  <1>3. ASSUME NEW n \in DOMAIN callbacks, callbacks[n][1] \notin Cleared
        PROVE  /\ Recorded(Log', callbacks[n][2][1])
               /\ OutputOf(Log', callbacks[n][2][1]).refs = {}
    BY <1>2, <1>3 DEF DeliveryInv, CallsPermitted
  <1>4. CASE callbacks' = callbacks
    BY <1>3, <1>4 DEF CallsPermitted, Recorded, OutputOf, OfType
  <1>5. ASSUME NEW c \in Consumers, NEW m \in Message, LogCalls(c, m)
        PROVE  CallsPermitted'
    <2>1. /\ Len(callbacks) \in Nat /\ DOMAIN callbacks = 1..Len(callbacks)
          /\ DOMAIN callbacks' = 1..(Len(callbacks) + 1)
          /\ \A n \in 1..Len(callbacks) : callbacks'[n] = callbacks[n]
          /\ callbacks'[Len(callbacks) + 1] = <<c, m>>
      BY <1>5, OneMoreCall DEF LogCalls, DeliveryInv, CallShape
    <2>2. Recorded(Log, m[1])
      BY <1>5, ValidDelivery DEF LogCalls, CanClaim
    <2>3. c \notin Cleared => OutputOf(Log', m[1]).refs = {} /\ Recorded(Log', m[1])
      BY <1>2, <1>5, <2>2 DEF LogCalls
    <2>4. ASSUME NEW n \in DOMAIN callbacks', callbacks'[n][1] \notin Cleared
          PROVE  /\ Recorded(Log', callbacks'[n][2][1])
                 /\ OutputOf(Log', callbacks'[n][2][1]).refs = {}
      <3>1. CASE n \in 1..Len(callbacks)
        BY <1>3, <2>1, <2>4, <3>1
      <3>2. CASE n = Len(callbacks) + 1
        BY <2>1, <2>3, <2>4, <3>2
      <3> QED BY <2>1, <2>4, <3>1, <3>2
    <2> QED BY <2>4 DEF CallsPermitted, Recorded, OutputOf, OfType
  <1> QED BY <1>4, <1>5 DEF LogStep, LogStands, LogAdds

LEMMA MadeKeeps == ASSUME DeliveryInv, LogStep, RunningStep PROVE CallShape' /\ CallsMade'
  <1>1. IsSeq(Log) /\ callbacks \in Seq(Call) /\ running \in [Writers -> Seq(Call)]
    BY LogShape DEF DeliveryInv, Inv, Shape, CallShape
  <1>2. /\ callbacks' \in Seq(Call)
        /\ \A c, m : Called(callbacks, c, m) => Called(callbacks', c, m)
    <2>1. CASE callbacks' = callbacks
      BY <1>1, <2>1 DEF Called
    <2>2. ASSUME NEW c \in Consumers, NEW m \in Message, LogCalls(c, m)
          PROVE  callbacks' \in Seq(Call) /\ \A d, n : Called(callbacks, d, n) => Called(callbacks', d, n)
      <3>1. /\ callbacks' \in Seq(Call)
            /\ Len(callbacks) \in Nat /\ DOMAIN callbacks = 1..Len(callbacks)
            /\ DOMAIN callbacks' = 1..(Len(callbacks) + 1)
            /\ \A k \in 1..Len(callbacks) : callbacks'[k] = callbacks[k]
        BY <1>1, <2>2, OneMoreCall DEF LogCalls
      <3>2. \A k \in DOMAIN callbacks : k \in DOMAIN callbacks' /\ callbacks'[k] = callbacks[k]
        BY <3>1
      <3> QED BY <3>1, <3>2 DEF Called
    <2> QED BY <2>1, <2>2 DEF LogStep, LogStands, LogAdds
  <1>3. ASSUME NEW w \in Writers, NEW k \in DOMAIN running'[w]
        PROVE  Called(callbacks', running'[w][k][1], running'[w][k][2])
    <2>1. CASE k \in DOMAIN running[w] /\ running'[w][k] = running[w][k]
      <3>1. Called(callbacks, running[w][k][1], running[w][k][2])
        BY <2>1 DEF DeliveryInv, CallsMade
      <3>2. PICK n \in DOMAIN callbacks :
               callbacks[n] = <<running'[w][k][1], running'[w][k][2]>>
        BY <2>1, <3>1 DEF Called
      <3>3. \E n2 \in DOMAIN callbacks' :
               callbacks'[n2] = <<running'[w][k][1], running'[w][k][2]>>
        BY <1>2, <3>2 DEF Called
      <3> QED BY <3>3 DEF Called
    <2>2. CASE callbacks' = Append(callbacks, running'[w][k])
      <3>1. running'[w][k] \in Call
        BY DEF RunningStep
      <3>2. running'[w][k] = <<running'[w][k][1], running'[w][k][2]>>
        BY <3>1 DEF Call
      <3>3. Len(callbacks) + 1 \in DOMAIN callbacks' /\ callbacks'[Len(callbacks) + 1] = running'[w][k]
        BY <1>1, <2>2, <3>1
      <3> QED BY <3>2, <3>3 DEF Called
    <2> QED BY <2>1, <2>2 DEF RunningStep
  <1>4. ASSUME NEW c \in Consumers, NEW m \in Message, Has(Log', Delivered(c, m))
        PROVE  Called(callbacks', c, m)
    <2>1. CASE Has(Log, Delivered(c, m))
      BY <1>2, <2>1 DEF DeliveryInv, CallsMade
    <2>2. CASE ~Has(Log, Delivered(c, m))
      <3>1. PICK e : /\ Log' = Append(Log, e)
                     /\ LogAdds(e) \/ e.type = "DeliveryClaimed"
        <4>1. CASE LogStands
          BY <1>4, <2>2, <4>1 DEF LogStands
        <4>2. ASSUME NEW e, LogAdds(e)
              PROVE  Log' = Append(Log, e)
          BY <4>2 DEF LogAdds
        <4>3. ASSUME NEW d \in Consumers, NEW n \in Message, LogCalls(d, n)
              PROVE  /\ Log' = Append(Log, DeliveryClaimed(d, n))
                     /\ DeliveryClaimed(d, n).type = "DeliveryClaimed"
          BY <4>3 DEF LogCalls, DeliveryClaimed
        <4> QED BY <4>1, <4>2, <4>3 DEF LogStep
      <3>2. e = Delivered(c, m)
        BY <1>1, <1>4, <2>2, <3>1, AddsEvent
      <3>3. e.type = "Delivered"
        BY <3>2 DEF Delivered
      <3>4. PICK w \in Writers : /\ running[w] # <<>>
                                 /\ e = Delivered(Last(running[w])[1], Last(running[w])[2])
        BY <3>1, <3>3 DEF LogAdds
      <3>5. c = Last(running[w])[1] /\ m = Last(running[w])[2]
        <4>1. e.consumer = c /\ e.message = m
          BY <3>2 DEF Delivered
        <4>2. e.consumer = Last(running[w])[1] /\ e.message = Last(running[w])[2]
          BY <3>4 DEF Delivered
        <4> QED BY <4>1, <4>2
      <3>6. running[w] \in Seq(Call)
        BY <1>1
      <3>7. Len(running[w]) \in DOMAIN running[w] /\ Last(running[w]) = running[w][Len(running[w])]
        BY <3>4, <3>6 DEF Last
      <3>8. Called(callbacks, c, m)
        BY <3>5, <3>7 DEF DeliveryInv, CallsMade
      <3> QED BY <1>2, <3>8
    <2> QED BY <2>1, <2>2
  <1>5. CallsMade'
    BY <1>3, <1>4 DEF CallsMade, Has
  <1> QED BY <1>2, <1>5 DEF CallShape, RunningStep

(* What a consumer was called with before of the stream of its next message  *)
(* is exactly what it has acknowledged of it: as many messages as the number *)
(* of the next. *)
LEMMA CallInOrder ==
    ASSUME DeliveryInv, NEW c \in Consumers, NEW m \in Message, LogCalls(c, m),
           NEW B, B = {k \in DOMAIN callbacks : /\ callbacks[k][1] = c
                                                /\ StreamOf(callbacks[k][2]) = StreamOf(m)}
    PROVE  /\ Recorded(Log, m[1])
           /\ Number(Log, m) = Cardinality(B)
           /\ \A k \in B : Has(Log, Delivered(c, callbacks[k][2]))
  <1> DEFINE s == StreamOf(m)
             d == NextDelivery(Log, c, s)
  <1>1. /\ Recorded(Log, m[1]) /\ ~Has(Log, DeliveryClaimed(c, m))
        /\ Number(Log, m) = d
    BY ValidDelivery DEF LogCalls, CanClaim
  <1>2. /\ d \in Nat /\ Acknowledged(Log, c, s) = 0..(d - 1)
        /\ \A x \in Message :
              StreamOf(x) = s /\ Has(Log, DeliveryClaimed(c, x)) /\ ~Has(Log, Delivered(c, x))
                 => Number(Log, x) = d
    BY DEF DeliveryInv, LogInv, InTurn
  <1>3. \A k \in B : /\ callbacks[k] = <<c, callbacks[k][2]>> /\ callbacks[k][2] \in Message
                     /\ StreamOf(callbacks[k][2]) = s
                     /\ Has(Log, DeliveryClaimed(c, callbacks[k][2]))
                     /\ Recorded(Log, callbacks[k][2][1])
    BY CallSequence, CallsRecorded DEF DeliveryInv, CallShape
  <1> HIDE DEF d
  <1>4. ASSUME NEW k \in B PROVE Has(Log, Delivered(c, callbacks[k][2]))
    <2> SUFFICES ASSUME ~Has(Log, Delivered(c, callbacks[k][2])) PROVE FALSE
      OBVIOUS
    <2>1. Number(Log, callbacks[k][2]) = Number(Log, m)
      BY <1>1, <1>2, <1>3
    <2>2. callbacks[k][2] = m
      BY <1>1, <1>3, <2>1 DEF DeliveryInv, LogInv, Distinct
    <2> QED BY <1>1, <1>3, <2>2
  <1> DEFINE f == [k \in B |-> Number(Log, callbacks[k][2])]
  <1>5. f \in [B -> 0..(d - 1)]
    <2>1. \A k \in B : Number(Log, callbacks[k][2]) \in Acknowledged(Log, c, s)
      BY <1>3, <1>4 DEF Acknowledged
    <2> QED BY <1>2, <2>1
  <1>6. ASSUME NEW k \in B, NEW n \in B, f[k] = f[n] PROVE k = n
    <2>1. callbacks[k][2] = callbacks[n][2]
      BY <1>3, <1>6 DEF DeliveryInv, LogInv, Distinct
    <2>2. callbacks[k] = callbacks[n]
      BY <1>3, <2>1
    <2> QED BY <2>2 DEF DeliveryInv, Inv, StoreInv, AtMostOnce
  <1>7. ASSUME NEW j \in 0..(d - 1) PROVE \E k \in B : f[k] = j
    <2>1. PICK x \in Message :
             Has(Log, Delivered(c, x)) /\ StreamOf(x) = s /\ j = Number(Log, x)
      BY <1>2, <1>7 DEF Acknowledged
    <2>2. PICK k \in DOMAIN callbacks : callbacks[k] = <<c, x>>
      BY <2>1 DEF DeliveryInv, CallsMade, Called
    <2>3. callbacks[k][1] = c /\ callbacks[k][2] = x
      BY <2>2
    <2>4. k \in B
      BY <2>1, <2>3
    <2> QED BY <2>1, <2>3, <2>4
  <1>8. f \in Bijection(B, 0..(d - 1))
    BY <1>5, <1>6, <1>7 DEF Bijection, Injection, Surjection, IsInjective
  <1>9. Cardinality(B) = d
    <2>1. IsFiniteSet(0..(d - 1)) /\ Cardinality(0..(d - 1)) = d
      BY <1>2, FS_Interval
    <2>2. f \in Injection(B, 0..(d - 1)) /\ f \in Surjection(B, 0..(d - 1))
      BY <1>8 DEF Bijection
    <2> HIDE DEF f
    <2>3. IsFiniteSet(B) /\ Cardinality(B) = Cardinality(0..(d - 1))
      BY <2>1, <2>2, FS_Injection
    <2> QED BY <2>1, <2>3
  <1> QED BY <1>1, <1>4, <1>9

LEMMA OrderKeeps == ASSUME DeliveryInv, LogStep PROVE InOrder'
  <1>1. IsSeq(Log) /\ callbacks \in Seq(Call)
    BY LogShape DEF DeliveryInv, Inv, Shape, CallShape
  <1>2. /\ \A x : Has(Log, x) => Has(Log', x)
        /\ \A m \in Message : Recorded(Log, m[1]) => Number(Log', m) = Number(Log, m)
    BY <1>1, LookupsKept DEF DeliveryInv
  <1>3. ASSUME NEW n \in DOMAIN callbacks
        PROVE  /\ Number(Log', callbacks[n][2]) = Cardinality(Before(n))
               /\ \A k \in Before(n) : Has(Log', Delivered(callbacks[n][1], callbacks[k][2]))
    <2>1. /\ Number(Log, callbacks[n][2]) = Cardinality(Before(n))
          /\ \A k \in Before(n) : Has(Log, Delivered(callbacks[n][1], callbacks[k][2]))
      BY DEF DeliveryInv, InOrder, Before
    <2>2. callbacks[n][2] \in Message
      BY <1>1, CallSequence
    <2> QED BY <1>2, <2>1, <2>2, CallsRecorded
  <1>4. ASSUME \A n \in DOMAIN callbacks' :
                  /\ Number(Log', callbacks'[n][2]) = Cardinality(Before(n)')
                  /\ \A k \in Before(n)' : Has(Log', Delivered(callbacks'[n][1], callbacks'[k][2]))
        PROVE  InOrder'
    BY <1>4 DEF InOrder, Before, Number, OutputOf, OfType, Has
  <1>5. CASE callbacks' = callbacks
    BY <1>3, <1>4, <1>5 DEF Before
  <1>6. ASSUME NEW c \in Consumers, NEW m \in Message, LogCalls(c, m)
        PROVE  InOrder'
    <2>1. /\ Len(callbacks) \in Nat /\ DOMAIN callbacks = 1..Len(callbacks)
          /\ DOMAIN callbacks' = 1..(Len(callbacks) + 1)
          /\ \A n \in 1..Len(callbacks) : callbacks'[n] = callbacks[n]
          /\ callbacks'[Len(callbacks) + 1] = <<c, m>>
      BY <1>1, <1>6, OneMoreCall DEF LogCalls
    <2> DEFINE B == {k \in DOMAIN callbacks : /\ callbacks[k][1] = c
                                              /\ StreamOf(callbacks[k][2]) = StreamOf(m)}
    <2>2. /\ Recorded(Log, m[1])
          /\ Number(Log, m) = Cardinality(B)
          /\ \A k \in B : Has(Log, Delivered(c, callbacks[k][2]))
      BY <1>6, CallInOrder
    <2>3. ASSUME NEW n \in 1..Len(callbacks)
          PROVE  Before(n)' = Before(n) /\ \A k \in Before(n) : callbacks'[k] = callbacks[k]
      <3>1. \A k \in 1..(n - 1) : k \in 1..Len(callbacks)
        BY <2>1
      <3> QED BY <2>1, <3>1 DEF Before
    <2>4. ASSUME NEW n, n = Len(callbacks) + 1
          PROVE  Before(n)' = B
      <3>1. 1..(n - 1) = DOMAIN callbacks /\ callbacks'[n] = <<c, m>>
        BY <2>1, <2>4
      <3>2. \A k \in 1..(n - 1) : callbacks'[k] = callbacks[k]
        BY <2>1, <3>1
      <3>3. Before(n)' = {k \in 1..(n - 1) : /\ callbacks'[k][1] = callbacks'[n][1]
                                             /\ StreamOf(callbacks'[k][2]) = StreamOf(callbacks'[n][2])}
        BY DEF Before
      <3>4. callbacks'[n][1] = c /\ callbacks'[n][2] = m
        BY <3>1
      <3>5. ASSUME NEW k
            PROVE  k \in Before(n)' <=> k \in B
        BY <3>1, <3>2, <3>3, <3>4
      <3> QED BY <3>3, <3>5
    <2>5. ASSUME NEW n \in DOMAIN callbacks'
          PROVE  /\ Number(Log', callbacks'[n][2]) = Cardinality(Before(n)')
                 /\ \A k \in Before(n)' : Has(Log', Delivered(callbacks'[n][1], callbacks'[k][2]))
      <3>1. CASE n \in 1..Len(callbacks)
        BY <1>3, <2>1, <2>3, <3>1
      <3>2. CASE n = Len(callbacks) + 1
        <4>1. callbacks'[n][1] = c /\ callbacks'[n][2] = m /\ Before(n)' = B
          BY <2>1, <2>4, <3>2
        <4>2. \A k \in B : callbacks'[k] = callbacks[k]
          BY <2>1
        <4> HIDE DEF B
        <4> QED BY <1>2, <2>2, <4>1, <4>2
      <3> QED BY <2>1, <3>1, <3>2
    <2> QED BY <1>4, <2>5
  <1> QED BY <1>5, <1>6 DEF LogStep, LogStands, LogAdds

-------------------------------------------------------------------------------
(* The theorems. *)

LEMMA DeliveryStarts == Init => DeliveryInv
  <1> SUFFICES ASSUME Init PROVE DeliveryInv
    OBVIOUS
  <1>1. Log = <<>> /\ callbacks = <<>> /\ DOMAIN callbacks = {}
    BY DEF Init, Log, Prefix
  <1>2. LogInv(Log)
    BY <1>1, LogInvStarts
  <1>3. CallShape
    BY DEF Init, CallShape
  <1>4. \A x : ~Has(Log, x)
    BY <1>1 DEF Has, ToSet
  <1>5. \A w \in Writers : DOMAIN running[w] = {}
    BY DEF Init
  <1>6. CallsMade
    BY <1>4, <1>5 DEF CallsMade
  <1>7. CallsPermitted /\ InOrder
    BY <1>1 DEF CallsPermitted, InOrder
  <1> QED BY <1>2, <1>3, <1>6, <1>7, InitHolds DEF DeliveryInv

LEMMA DeliveryKeeps == DeliveryInv /\ [Next]_vars => DeliveryInv'
  <1> SUFFICES ASSUME DeliveryInv, [Next]_vars PROVE DeliveryInv'
    OBVIOUS
  <1>1. Inv' /\ LogStep
    BY NextKeeps, NextIsLogStep DEF DeliveryInv
  <1>2. RunningStep
    <2>1. running \in [Writers -> Seq(Call)]
      BY DEF DeliveryInv, CallShape
    <2>2. CASE Next
      BY <2>1, <2>2, NextIsRunningStep
    <2>3. CASE UNCHANGED vars
      BY <2>1, <2>3 DEF vars, RunningStep
    <2> QED BY <2>2, <2>3
  <1>3. LogInv(Log')
    BY <1>1, LogShape, LookupsKept DEF DeliveryInv, Inv, Shape
  <1>4. CallShape' /\ CallsMade'
    BY <1>1, <1>2, MadeKeeps
  <1>5. CallsPermitted' /\ InOrder'
    BY <1>1, PermittedKeeps, OrderKeeps
  <1> QED BY <1>1, <1>3, <1>4, <1>5
          DEF DeliveryInv, LogInv, OneOutput, Sourced, Inherits, Numbered, Distinct, Lifecycle,
              InTurn, Numbers, Acknowledged, NextDelivery, Number, OutputOf, OfType, Recorded, Has

LEMMA DeliveryHolds == Spec => []DeliveryInv
  BY DeliveryStarts, DeliveryKeeps, PTL DEF Spec

(* A consumer gets the messages of a stream in their order and without a     *)
(* gap, each when it has acknowledged the ones before it, by whatever        *)
(* processes and after whatever failures.                                    *)
THEOREM CalledInOrder == Spec => []InOrder
  <1>1. DeliveryInv => InOrder
    BY DEF DeliveryInv
  <1> QED BY <1>1, DeliveryHolds, PTL

(* The whole lineage of an output without privilege is without privilege:    *)
(* the invocations of which that can be said are closed under Sources.       *)
LEMMA CleanLineage ==
    ASSUME NEW log, Sourced(log), Inherits(log), NEW i \in Invocations,
           Recorded(log, i), OutputOf(log, i).refs = {}
    PROVE  \A j \in Lineage(i) : OutputOf(log, j).refs = {}
  <1> DEFINE Clean == {x \in Invocations : Recorded(log, x) /\ OutputOf(log, x).refs = {}}
  <1>1. i \in Clean /\ Clean \in SUBSET Invocations
    OBVIOUS
  <1>2. ASSUME NEW x \in Clean, NEW y \in Sources[x] PROVE y \in Clean
    <2>1. y \in Invocations
      BY StoreAssumption
    <2>2. Recorded(log, y) /\ OutputOf(log, y).refs \subseteq OutputOf(log, x).refs
      BY DEF Sourced, Inherits
    <2> QED BY <2>1, <2>2
  <1>3. \A x \in Clean : Sources[x] \subseteq Clean
    BY <1>2
  <1>4. \A j \in Lineage(i) : j \in Clean
    BY <1>1, <1>3 DEF Lineage
  <1> QED BY <1>4

(* No privileged reference went, at any distance, into a message that a      *)
(* consumer without the permission was called with.                          *)
THEOREM NothingLeaks == Spec => []NoLeak
  <1>1. DeliveryInv => NoLeak
    <2> SUFFICES ASSUME DeliveryInv, NEW n \in DOMAIN callbacks, callbacks[n][1] \notin Cleared
                 PROVE  \A i \in Lineage(callbacks[n][2][1]) : OutputOf(Log, i).refs = {}
      BY DEF NoLeak
    <2>1. callbacks[n][2][1] \in Invocations
      BY CallSequence, MessageShape DEF DeliveryInv, CallShape
    <2>2. /\ Recorded(Log, callbacks[n][2][1])
          /\ OutputOf(Log, callbacks[n][2][1]).refs = {}
      BY DEF DeliveryInv, CallsPermitted
    <2> QED BY <2>1, <2>2, CleanLineage DEF DeliveryInv, LogInv
  <1> QED BY <1>1, DeliveryHolds, PTL
===============================================================================
