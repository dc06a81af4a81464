------------------------------ MODULE LimitedRun ------------------------------
(***************************************************************************)
(* One arm on one map under limits: supervise of                           *)
(* dcop_comparison/resources.py, the worker it gates, and the two callers  *)
(* that turn its exit and its files into a ledger entry, limited_run and   *)
(* the pilot's execute.                                                    *)
(*                                                                         *)
(* Three processes run at once: the supervisor, the launcher it starts     *)
(* suspended, and the interpreter the launcher starts (the python.exe of a *)
(* virtual environment), which is the worker.  The kernel kills what is in *)
(* the job, and what a process of the job starts is in it too.             *)
(***************************************************************************)
EXTENDS Naturals, FiniteSets

(* Exit codes: the gate's, MEMORY_EXIT, any other exception, and those of a  *)
(* native allocator and of a process that was killed.                        *)
GateExit == 4
MemoryExit == 73
ErrorExit == 74
NativeExit == 3
KilledExit == 1

Interrupted == {"time_exceeded", "memory_exceeded", "budget_exceeded", "execution_error"}

(* A record of one attempt.  What the assignment is worth, or that there is     *)
(* none, is all evaluate says: only "feasible" has an objective.                *)
Record(attempt, status, verdict) ==
    [attempt |-> attempt, status |-> status, verdict |-> verdict, whole |-> TRUE]

(* run: an exact solver, whose assignment evaluate confirms or run raises.      *)
DpopAnswers(attempt) ==
    {Record(attempt, "optimal_cost", "feasible"), Record(attempt, "infeasible", "incomplete"),
     Record(attempt, "budget_exceeded", "incomplete")}

(* independent_choice: every agent takes its cheapest value, and may conflict.   *)
IndependentAnswers(attempt) ==
    {Record(attempt, "completed", verdict) : verdict \in {"feasible", "conflicting"}}

Answers(arm, attempt) ==
    IF arm = "dpop" THEN DpopAnswers(attempt) ELSE IndependentAnswers(attempt)

VARIABLES
    caller,      \* "limited" or "pilot"
    arm,
    step,        \* where the supervisor stands
    status,      \* outcome of supervise
    job,         \* the processes in the job
    launcher,    \* "none", "suspended", "running", "ended"
    worker,      \* "none", "gated", "solving", "writing", "sealing", "ended"
    gate,        \* whether go was written
    late,        \* the wall time is over
    high,        \* a process came near the memory limit
    peak,        \* whether the supervisor learned that
    code,        \* the worker's exit code, or that of its killing
    result,      \* the record the worker computed
    output,      \* record.json, if any
    checksum,    \* what its .sha256 describes
    entry        \* the ledger's entry, once there is one

supervisor == <<step, status, peak, entry>>
children == <<job, launcher, worker, gate, high, code>>
files == <<result, output, checksum>>
vars == <<caller, arm, supervisor, children, late, files>>

(* An entry reports the metrics of one record and the evaluation of another,   *)
(* if of any.                                                                  *)
Unfinished == [outcome |-> "none", measured |-> {}, evaluated |-> {}]

(* The directory may hold what an earlier attempt left, whole or cut short.    *)
Init ==
    /\ caller \in {"limited", "pilot"}
    /\ arm \in {"dpop", "independent"}
    /\ step = "job" /\ status = "execution_error" /\ peak = FALSE /\ entry = Unfinished
    /\ job = {} /\ launcher = "none" /\ worker = "none"
    /\ gate = FALSE /\ high = FALSE /\ code = 0 /\ late = FALSE
    /\ result = {}
    /\ \E earlier \in {{}} \cup {{r} : r \in Answers(arm, "earlier")} :
          \/ output = earlier /\ checksum = earlier
          \/ output = {[r EXCEPT !.whole = FALSE] : r \in earlier} /\ checksum = {}

-------------------------------------------------------------------------------
(* supervise, step by step; an OSError at any of them leads to its finally.    *)
At(here, next) == step = here /\ step' = next
Raised(here) == At(here, "finally") /\ UNCHANGED <<status, peak>>

CreateJob ==
    /\ At("job", "popen") \/ Raised("job")
    /\ UNCHANGED <<caller, arm, status, peak, entry, children, late, files>>

PopenRunning ==
    /\ \/ At("popen", "attach") /\ launcher' = "running"
       \/ Raised("popen") /\ UNCHANGED launcher
    /\ UNCHANGED <<caller, arm, status, peak, entry, job, worker, gate, high, code, late, files>>

(* The child is created suspended.                                             *)
Popen ==
    /\ \/ At("popen", "attach") /\ launcher' = "suspended"
       \/ Raised("popen") /\ UNCHANGED launcher
    /\ UNCHANGED <<caller, arm, status, peak, entry, job, worker, gate, high, code, late, files>>

ResumeOnly ==
    /\ \/ At("attach", "gate") /\ launcher' = "running"
       \/ Raised("attach") /\ UNCHANGED launcher
    /\ UNCHANGED <<caller, arm, status, peak, entry, job, worker, gate, high, code, late, files>>

(* attach_and_resume: into the job first; either call may fail.                 *)
AttachAndResume ==
    /\ \/ At("attach", "gate") /\ job' = {"launcher"} /\ launcher' = "running"
       \/ Raised("attach") /\ job' \in {{}, {"launcher"}} /\ UNCHANGED launcher
    /\ UNCHANGED <<caller, arm, status, peak, entry, worker, gate, high, code, late, files>>

(* communicate writes go, unless no time remains, and may itself fail.          *)
Communicate ==
    /\ \/ late /\ At("gate", "kill") /\ UNCHANGED gate
       \/ Raised("gate") /\ gate' \in BOOLEAN
       \/ ~late /\ At("gate", "wait") /\ gate' = TRUE
    /\ UNCHANGED <<caller, arm, status, peak, entry, job, launcher, worker, high, code, late, files>>

(* Both may be possible at once: the child ends as the time runs out.           *)
Exited ==
    /\ launcher = "ended"
    /\ At("wait", "peak")
    /\ status' = "exited"
    /\ UNCHANGED <<caller, arm, peak, entry, children, late, files>>

TimedOut ==
    /\ late
    /\ At("wait", "kill")
    /\ UNCHANGED <<caller, arm, status, peak, entry, children, late, files>>

(* terminate ends every process of the job; child.kill the launcher alone.      *)
Terminated(killed) ==
    /\ launcher' = IF "launcher" \in killed THEN "ended" ELSE launcher
    /\ worker' = IF "worker" \in killed THEN "ended" ELSE worker
    /\ code' = IF killed # {} /\ launcher # "ended" THEN KilledExit ELSE code

Kill ==
    /\ At("kill", "reap")
    /\ Terminated(job)
    /\ UNCHANGED <<caller, arm, status, peak, entry, job, gate, high, late, files>>

Reap ==
    /\ launcher = "ended"
    /\ At("reap", "peak")
    /\ status' = "time_exceeded"
    /\ UNCHANGED <<caller, arm, peak, entry, children, late, files>>

PeakBytes ==
    /\ \/ At("peak", "finally") /\ peak' = high
       \/ Raised("peak")
    /\ UNCHANGED <<caller, arm, status, entry, children, late, files>>

Finally ==
    /\ At("finally", "classify")
    /\ Terminated(job \cup IF launcher = "none" THEN {} ELSE {"launcher"})
    /\ UNCHANGED <<caller, arm, status, peak, entry, job, gate, high, late, files>>

(* The supervisor itself is killed: the kernel closes its job, which kills it.  *)
Die ==
    /\ step \notin {"classify", "done", "dead"}
    /\ step' = "dead"
    /\ Terminated(job)
    /\ UNCHANGED <<caller, arm, status, peak, entry, job, gate, high, late, files>>

TimePasses ==
    /\ ~late
    /\ late' = TRUE
    /\ UNCHANGED <<caller, arm, supervisor, children, files>>

-------------------------------------------------------------------------------
(* The launcher and the worker.                                                *)
StartInterpreter ==
    /\ launcher = "running" /\ worker = "none"
    /\ worker' = "gated"
    /\ job' = job \cup IF "launcher" \in job THEN {"worker"} ELSE {}
    /\ UNCHANGED <<caller, arm, supervisor, launcher, gate, high, code, late, files>>

(* readline at the gate: go, or the end of a pipe that was closed without it.   *)
PassGate ==
    /\ worker = "gated"
    /\ \/ gate /\ worker' = "solving" /\ UNCHANGED code
       \/ ~gate /\ step \in {"reap", "finally", "classify", "done", "dead"}
          /\ worker' = "ended" /\ code' = GateExit
    /\ UNCHANGED <<caller, arm, supervisor, job, launcher, gate, high, late, files>>

Busy == worker \in {"solving", "writing", "sealing"}

(* The arm answers; save_run opens the file, which empties it.                  *)
Solve ==
    /\ worker = "solving"
    /\ \E r \in Answers(arm, "this") :
          /\ result' = {r}
          /\ output' = {[r EXCEPT !.whole = FALSE]}
    /\ worker' = "writing"
    /\ UNCHANGED <<caller, arm, supervisor, job, launcher, gate, high, code, late, checksum>>

Write ==
    /\ worker = "writing"
    /\ output' = result
    /\ worker' = "sealing"
    /\ UNCHANGED <<caller, arm, supervisor, job, launcher, gate, high, code, late, result, checksum>>

Seal ==
    /\ worker = "sealing"
    /\ checksum' = output
    /\ worker' = "ended" /\ code' = 0
    /\ UNCHANGED <<caller, arm, supervisor, job, launcher, gate, high, late, result, output>>

(* An exception anywhere in the worker's try.                                   *)
Fail ==
    /\ Busy
    /\ worker' = "ended" /\ code' = ErrorExit
    /\ UNCHANGED <<caller, arm, supervisor, job, launcher, gate, high, late, files>>

(* The job refuses memory: Python raises MemoryError or an allocator exits.      *)
OutOfMemory ==
    /\ Busy /\ "worker" \in job
    /\ high' = TRUE
    /\ \/ UNCHANGED <<worker, code>>
       \/ worker' = "ended" /\ code' \in {MemoryExit, NativeExit}
    /\ UNCHANGED <<caller, arm, supervisor, job, launcher, gate, late, files>>

(* The launcher waits for its child and returns its code.                       *)
EndLauncher ==
    /\ launcher = "running" /\ worker = "ended"
    /\ launcher' = "ended"
    /\ UNCHANGED <<caller, arm, supervisor, job, worker, gate, high, code, late, files>>

-------------------------------------------------------------------------------
(* load_run: the checksum first, then what a record of its status may carry.    *)
Loaded(r) ==
    /\ r.whole /\ checksum = {r}
    /\ r.verdict = IF r.status = "optimal_cost" THEN "feasible" ELSE "incomplete"

(* _verified: the record to be trusted, if there is one.                         *)
Verified ==
    {r \in output : IF arm = "dpop" THEN Loaded(r)
                    ELSE r.whole /\ checksum = {r} /\ r.status = "completed"}

(* ledger_entry: of an interrupted run it keeps the metrics alone.               *)
Entry(outcome, record) ==
    [outcome |-> outcome, measured |-> record,
     evaluated |-> IF outcome \in Interrupted THEN {} ELSE record]

Stopped(outcome) == Entry(outcome, {})

MemoryStop == code = MemoryExit \/ (code # 0 /\ peak)

LedgerByFile ==
    CASE status = "time_exceeded"    -> Stopped("time_exceeded")
      [] status = "execution_error"  -> Stopped("execution_error")
      [] OTHER -> IF Verified = {} THEN Stopped("execution_error")
                  ELSE Entry((CHOOSE r \in Verified : TRUE).status, Verified)

(* classify, and the entry of what it returns.                                  *)
Ledger ==
    IF status # "exited" THEN Stopped(status)
    ELSE IF MemoryStop THEN Stopped("memory_exceeded")
    ELSE IF code # 0 \/ Verified = {} THEN Stopped("execution_error")
    ELSE Entry((CHOOSE r \in Verified : TRUE).status, Verified)

(* The pilot files the evaluation of whatever record it reads, that of a budget *)
(* stop as well, which it tells from others by its name alone.                  *)
PilotEntry(r) ==
    [outcome |-> IF r.status = "budget_exceeded" THEN "table_budget_exceeded" ELSE r.status,
     measured |-> {r}, evaluated |-> {r}]

(* It reads the record unchecked, and takes code 73 alone for memory.           *)
PilotLedger ==
    IF status # "exited" THEN Stopped(status)
    ELSE IF code = MemoryExit THEN Stopped("memory_exceeded")
    ELSE IF code # 0 \/ output = {} THEN Stopped("execution_error")
    ELSE PilotEntry(CHOOSE r \in output : TRUE)

Classify ==
    /\ At("classify", "done")
    /\ entry' = IF caller = "pilot" THEN PilotLedger ELSE Ledger
    /\ UNCHANGED <<caller, arm, status, peak, children, late, files>>

Supervise ==
    \/ CreateJob \/ Popen \/ AttachAndResume \/ Communicate
    \/ Exited \/ TimedOut \/ Kill \/ Reap \/ PeakBytes \/ Finally \/ Classify

Work ==
    \/ StartInterpreter \/ PassGate \/ Solve \/ Write \/ Seal
    \/ Fail \/ OutOfMemory \/ EndLauncher

Next == Supervise \/ Work \/ TimePasses \/ Die

Spec == Init /\ [][Next]_vars

(* The supervisor goes on while it can and time passes; the worker may hang.     *)
FairSpec == Spec /\ WF_vars(Supervise) /\ WF_vars(TimePasses)

-------------------------------------------------------------------------------
(* Properties.                                                                 *)

(* Whatever either ledger reports comes from the worker of this attempt, which  *)
(* ended by itself with that answer: a record of an earlier attempt, one cut    *)
(* short, or one whose worker was stopped is never reported.                    *)
Earned ==
    /\ entry.measured # {} => entry.measured = result /\ status = "exited" /\ code = 0
    /\ entry.evaluated \subseteq entry.measured

(* The outcome alone tells an answer from a stop: none that came in time is     *)
(* lost once the supervisor has seen the exit, a budget is never taken for an    *)
(* infeasibility, and time and memory are blamed only when they ran short.       *)
Told ==
    /\ status = "exited" /\ code = 0 => entry.measured # {}
    /\ \A r \in entry.measured :
          IF r.status = "budget_exceeded"
          THEN entry.outcome \in {"budget_exceeded", "table_budget_exceeded"}
          ELSE entry.outcome = r.status
    /\ entry.measured = {} =>
          entry.outcome \in {"time_exceeded", "memory_exceeded", "execution_error"}
    /\ entry.outcome = "time_exceeded" => late
    /\ entry.outcome = "memory_exceeded" => high

(* What a stop carries.  limited.py:3: "Only a verified completed record         *)
(* carries an assignment or a feasibility verdict".  pilot.py:56: "no objective  *)
(* assigned to failures"; a budget stop of the pilot carries the verdict that    *)
(* its missing assignment is not feasible, as an infeasibility does.             *)
Silent ==
    /\ caller = "limited" /\ entry.evaluated # {} =>
          entry.outcome \in {"infeasible", "optimal_cost", "completed"}
    /\ (\E r \in entry.evaluated : r.verdict # "incomplete") =>
          entry.outcome \in {"optimal_cost", "completed"}

LedgerHonest == step = "done" => Earned /\ Told /\ Silent

(* However supervise ends, with an error between any two of its calls or with   *)
(* the supervisor's own death, nothing it started goes on running: the limits    *)
(* hold for every process of every attempt (resources.py:82).                    *)
NoOrphan ==
    /\ step \in {"classify", "done"} => launcher \in {"none", "ended"} /\ worker \in {"none", "ended"}
    /\ step = "dead" => launcher # "running" /\ worker \in {"none", "ended"}

(* Every supervised run comes to its entry, however the worker hangs, unless the *)
(* supervisor itself is killed.                                                  *)
Ends == <>(step \in {"done", "dead"})
=============================================================================
