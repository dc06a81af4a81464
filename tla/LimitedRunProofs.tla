--------------------------- MODULE LimitedRunProofs ---------------------------
(***************************************************************************)
(* What supervise and the two ledgers keep, wherever an OSError, a limit   *)
(* or the death of the supervisor falls: nothing outlives the attempt, and *)
(* nothing is reported but what this attempt's worker answered.            *)
(***************************************************************************)
EXTENDS LimitedRun, TLAPS

Statuses == {"execution_error", "exited", "time_exceeded"}
Codes == {0, GateExit, MemoryExit, ErrorExit, NativeExit, KilledExit}
Gone == {"none", "ended"}

Typed ==
    /\ caller \in {"limited", "pilot"}
    /\ arm \in {"dpop", "independent"}
    /\ step \in {"job", "popen", "attach", "gate", "wait", "kill", "reap", "peak", "finally",
                 "classify", "done", "dead"}
    /\ status \in Statuses
    /\ job \subseteq {"launcher", "worker"}
    /\ launcher \in {"none", "suspended", "running", "ended"}
    /\ worker \in Gone \cup {"gated", "solving", "writing", "sealing"}
    /\ code \in Codes

(* What runs is in the job, and the launcher outlives its child.             *)
Contained ==
    /\ launcher = "running" => "launcher" \in job
    /\ worker # "none" <=> "worker" \in job
    /\ worker # "none" => launcher \in {"running", "ended"}
    /\ launcher = "ended" => worker \in Gone

(* Where supervise stands, what it has started so far, and that only a limit *)
(* on time makes it kill.                                                    *)
Staged ==
    /\ step \in {"job", "popen"} => launcher = "none"
    /\ step = "attach" => launcher = "suspended"
    /\ step \in {"job", "popen", "attach", "gate", "wait"} =>
          /\ status = "execution_error"
          /\ launcher = "ended" => worker = "ended"
    /\ step \in {"kill", "reap"} \/ status = "time_exceeded" => late
    /\ status = "exited" =>
          /\ step \in {"peak", "finally", "classify", "done", "dead"}
          /\ launcher = "ended" /\ worker = "ended"

(* What this attempt's worker has answered, and which files tell of it.      *)
Answered ==
    /\ result = {} \/ \E r \in Answers(arm, "this") : result = {r}
    /\ worker \in {"writing", "sealing"} => result # {}
    /\ worker = "sealing" => output = result
    /\ worker = "ended" /\ code = 0 => result # {} /\ output = result /\ checksum = result

Measured ==
    /\ peak => high
    /\ code = MemoryExit => high

LimitInv == Typed /\ Contained /\ Staged /\ Answered /\ Measured /\ NoOrphan /\ LedgerHonest

-------------------------------------------------------------------------------
(* A step of the supervisor, with an OSError or without.  What it ends it    *)
(* ends with all of its job, and only a launcher that ended by itself gives  *)
(* an exit.                                                                  *)
LEMMA SupervisorKeeps ==
    ASSUME LimitInv,
           CreateJob \/ Popen \/ AttachAndResume \/ Communicate \/ Exited \/ TimedOut \/ Kill
             \/ Reap \/ PeakBytes \/ Finally \/ Die
    PROVE  LimitInv'
  <1> USE DEF LimitInv, Typed, Contained, Staged, Answered, Measured, NoOrphan, LedgerHonest,
              Earned, Told, Silent, Statuses, Codes, Gone, At, Raised, supervisor, children, files, GateExit,
              MemoryExit, ErrorExit, NativeExit, KilledExit
  <1>1. CASE CreateJob
    BY <1>1 DEF CreateJob
  <1>2. CASE Popen
    BY <1>2 DEF Popen
  <1>3. CASE AttachAndResume
    BY <1>3 DEF AttachAndResume
  <1>4. CASE Communicate
    BY <1>4 DEF Communicate
  <1>5. CASE Exited
    BY <1>5 DEF Exited
  <1>6. CASE TimedOut
    BY <1>6 DEF TimedOut
  <1>7. CASE Kill
    BY <1>7 DEF Kill, Terminated
  <1>8. CASE Reap
    BY <1>8 DEF Reap
  <1>9. CASE PeakBytes
    BY <1>9 DEF PeakBytes
  <1>10. CASE Finally
    BY <1>10 DEF Finally, Terminated
  <1>11. CASE Die
    BY <1>11 DEF Die, Terminated
  <1> QED BY <1>1, <1>2, <1>3, <1>4, <1>5, <1>6, <1>7, <1>8, <1>9, <1>10, <1>11

(* A step of the launcher or of the worker, whose zero exit comes after its  *)
(* record and the checksum.                                                  *)
LEMMA WorkKeeps == ASSUME LimitInv, Work PROVE LimitInv'
  <1> USE DEF LimitInv, Typed, Contained, Staged, Answered, Measured, NoOrphan, LedgerHonest,
              Earned, Told, Silent, Statuses, Codes, Gone, Busy, supervisor, children, files, GateExit, MemoryExit,
              ErrorExit, NativeExit, KilledExit
  <1>1. CASE StartInterpreter
    BY <1>1 DEF StartInterpreter
  <1>2. CASE PassGate
    BY <1>2 DEF PassGate
  <1>3. CASE Solve
    BY <1>3 DEF Solve
  <1>4. CASE Write
    BY <1>4 DEF Write
  <1>5. CASE Seal
    BY <1>5 DEF Seal
  <1>6. CASE Fail
    BY <1>6 DEF Fail
  <1>7. CASE OutOfMemory
    BY <1>7 DEF OutOfMemory
  <1>8. CASE EndLauncher
    BY <1>8 DEF EndLauncher
  <1> QED BY <1>1, <1>2, <1>3, <1>4, <1>5, <1>6, <1>7, <1>8 DEF Work

-------------------------------------------------------------------------------
(* The ledger.                                                               *)

(* What an arm answers passes the checks of its caller, and has an objective *)
(* only when it completed.                                                   *)
LEMMA AnswersLoad ==
    ASSUME arm \in {"dpop", "independent"}, NEW r \in Answers(arm, "this")
    PROVE  /\ r.whole
           /\ arm = "dpop" => r.verdict = IF r.status = "optimal_cost" THEN "feasible" ELSE "incomplete"
           /\ arm = "independent" => r.status = "completed"
           /\ r.status \in {"optimal_cost", "infeasible", "completed", "budget_exceeded"}
           /\ r.verdict # "incomplete" => r.status \in {"optimal_cost", "completed"}
  BY DEF Answers, DpopAnswers, IndependentAnswers, Record

(* An exit without an error has sealed an answer, which is what a caller     *)
(* finds, whatever was in the directory before.                              *)
LEMMA FoundIsAnswered ==
    ASSUME LimitInv, status = "exited", code = 0
    PROVE  \E r \in Answers(arm, "this") :
              result = {r} /\ output = {r} /\ Verified = {r}
  <1>1. result # {} /\ output = result /\ checksum = result
    BY DEF LimitInv, Staged, Answered
  <1>2. PICK r \in Answers(arm, "this") : result = {r}
    BY <1>1 DEF LimitInv, Answered
  <1>3. Verified = {r}
    BY <1>1, <1>2, AnswersLoad DEF LimitInv, Typed, Verified, Loaded
  <1> QED BY <1>1, <1>2, <1>3

(* An entry of an attempt that was stopped reports nothing. *)
LEMMA StopsAreHonest ==
    ASSUME NEW outcome \in {"time_exceeded", "memory_exceeded", "execution_error"},
           entry' = Stopped(outcome), status # "exited" \/ code # 0,
           outcome = "time_exceeded" => late, outcome = "memory_exceeded" => high,
           UNCHANGED <<caller, status, code, late, high, result>>
    PROVE  LedgerHonest'
  <1>1. entry' = [outcome |-> outcome, measured |-> {}, evaluated |-> {}]
    BY DEF Stopped, Entry
  <1>2. Earned' /\ Silent'
    BY <1>1 DEF Earned, Silent
  <1>3. Told'
    BY <1>1 DEF Told
  <1> QED BY <1>2, <1>3 DEF LedgerHonest

(* An entry of an answer reports it, and of a budget stop no objective.      *)
LEMMA AnswersAreHonest ==
    ASSUME LimitInv, status = "exited", code = 0, NEW r \in Answers(arm, "this"), result = {r},
           entry' = IF caller = "pilot" THEN PilotEntry(r) ELSE Entry(r.status, {r}),
           UNCHANGED <<caller, status, code, late, high, result>>
    PROVE  LedgerHonest'
  <1>1. /\ r.status \in {"optimal_cost", "infeasible", "completed", "budget_exceeded"}
        /\ r.verdict # "incomplete" => r.status \in {"optimal_cost", "completed"}
    BY AnswersLoad DEF LimitInv, Typed
  <1>2. /\ entry'.measured = {r}
        /\ entry'.evaluated = IF caller # "pilot" /\ r.status = "budget_exceeded" THEN {} ELSE {r}
        /\ entry'.outcome = IF caller = "pilot" /\ r.status = "budget_exceeded"
                            THEN "table_budget_exceeded" ELSE r.status
    BY <1>1 DEF Entry, PilotEntry, Interrupted
  <1>3. Earned'
    BY <1>2 DEF Earned
  <1>4. Told'
    BY <1>1, <1>2 DEF Told
  <1>5. Silent'
    BY <1>1, <1>2 DEF Silent
  <1> QED BY <1>3, <1>4, <1>5 DEF LedgerHonest

(* The entry either caller makes of an attempt that has come to its end.     *)
LEMMA ClassifyKeeps == ASSUME LimitInv, Classify PROVE LimitInv'
  <1>1. /\ step = "classify" /\ step' = "done"
        /\ entry' = IF caller = "pilot" THEN PilotLedger ELSE Ledger
        /\ UNCHANGED <<caller, arm, status, peak, job, launcher, worker, gate, high, code, late,
                       result, output, checksum>>
    BY DEF Classify, At, children, files
  <1>2. Typed' /\ Contained' /\ Staged' /\ Answered' /\ Measured' /\ NoOrphan'
    BY <1>1 DEF LimitInv, Typed, Contained, Staged, Answered, Measured, NoOrphan
  <1>3. CASE status # "exited"
    <2>1. /\ entry' = Stopped(status) /\ status \in {"execution_error", "time_exceeded"}
          /\ status = "time_exceeded" => late
      BY <1>1, <1>3 DEF PilotLedger, Ledger, LimitInv, Typed, Staged, Statuses
    <2>2. LedgerHonest'
      BY <1>1, <1>3, <2>1, StopsAreHonest
    <2> QED BY <1>2, <2>2 DEF LimitInv
  <1>4. CASE status = "exited" /\ code # 0
    <2>1. PICK outcome \in {"execution_error", "memory_exceeded"} :
             entry' = Stopped(outcome) /\ (outcome = "memory_exceeded" => high)
      BY <1>1, <1>4 DEF PilotLedger, Ledger, MemoryStop, LimitInv, Measured
    <2>2. LedgerHonest'
      BY <1>1, <1>4, <2>1, StopsAreHonest
    <2> QED BY <1>2, <2>2 DEF LimitInv
  <1>5. CASE status = "exited" /\ code = 0
    <2>1. PICK r \in Answers(arm, "this") : result = {r} /\ output = {r} /\ Verified = {r}
      BY <1>5, FoundIsAnswered
    <2>2. entry' = IF caller = "pilot" THEN PilotEntry(r) ELSE Entry(r.status, {r})
      BY <1>1, <1>5, <2>1 DEF PilotLedger, Ledger, MemoryStop, MemoryExit
    <2>3. LedgerHonest'
      BY <1>1, <1>5, <2>1, <2>2, AnswersAreHonest
    <2> QED BY <1>2, <2>3 DEF LimitInv
  <1> QED BY <1>3, <1>4, <1>5

-------------------------------------------------------------------------------
(* LimitInv holds throughout an attempt: what runs is in the job, what ended  *)
(* by itself is told from what was ended, and a zero exit has left its record. *)
THEOREM LimitInvariant == Spec => []LimitInv
  <1> USE DEF LimitInv, Typed, Contained, Staged, Answered, Measured, NoOrphan, LedgerHonest,
              Earned, Told, Silent
  <1>1. Init => LimitInv
    BY DEF Init, Statuses, Codes, Gone, MemoryExit
  <1>2. ASSUME LimitInv, [Next]_vars PROVE LimitInv'
    <2>1. CASE TimePasses
      BY <1>2, <2>1 DEF TimePasses, supervisor, children, files
    <2>2. CASE UNCHANGED vars
      BY <1>2, <2>2 DEF vars, supervisor, children, files
    <2> HIDE DEF LimitInv
    <2> QED BY <1>2, <2>1, <2>2, SupervisorKeeps, WorkKeeps, ClassifyKeeps DEF Next, Supervise
  <1> HIDE DEF LimitInv
  <1> QED BY <1>1, <1>2, PTL DEF Spec

(* However supervise ends, with an error between any two of its calls or with *)
(* its own death, nothing it started goes on running (resources.py:82).       *)
THEOREM NothingOutlives == Spec => []NoOrphan
  BY LimitInvariant, PTL DEF LimitInv

(* Neither limited.py nor the pilot reports anything but the answer of this    *)
(* attempt's worker or loses one whose zero exit was seen; the outcome tells   *)
(* an answer from each kind of stop; and a stop carries no objective in        *)
(* either ledger and no verdict in that of limited.py (LedgerHonest).          *)
THEOREM ScoresAreAnswers == Spec => []LedgerHonest
  BY LimitInvariant, PTL DEF LimitInv
=============================================================================
