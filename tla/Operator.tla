------------------------------ MODULE Operator ------------------------------
(***************************************************************************)
(* The operator (src/operator/{dispatcher, lifecycle, evaluator,           *)
(* promotion, run-ledger, action-lane}.ts): a task is dispatched to an     *)
(* adapter, its result evaluated, retried once, promoted, written to the   *)
(* operator's state file and entered in the run ledger.                    *)
(*                                                                         *)
(* Jobs are what the command line and the chat begin: `dispatch',          *)
(* `evaluate' and `promote' one task, persisting each; a `lifecycle' does  *)
(* the three and persists the whole; an `intake' is a lifecycle on a task  *)
(* of its own that goes to the ledger.  A job's process may die at every   *)
(* step.  Result files are written in one step; the state file is read,    *)
(* truncated and written.                                                  *)
(***************************************************************************)
EXTENDS ControlPlane

CONSTANT Fresh  \* the tasks that intakes compile, each for itself

\* CompiledIntent: a page, by either adapter, or a file.
ASSUME FreshAssumption ==
    /\ Fresh \subseteq Task
    /\ \A t \in Fresh : Route[t] \in {"http", "openmanus", "file"}

VARIABLE ledger \* the run ledger: verdicts, with what was judged

vars == <<op, results, proc, starts, ledger>>

Kind == {"dispatch", "evaluate", "promote", "lifecycle", "intake"}
Stage == {"source", "evaluation", "retry", "promotion"}
Whole == {"lifecycle", "intake"}

EvalSlot(job) == IF job.kind \in Whole THEN "eval" ELSE "smoke-eval"
PromSlot(job) == IF job.kind \in Whole THEN "prom" ELSE "smoke-prom"
SlotOf(job) ==
    CASE job.stage = "source" -> "result"
      [] job.stage = "retry" -> "retry"
      [] job.stage = "evaluation" -> EvalSlot(job)
      [] job.stage = "promotion" -> PromSlot(job)

\* `evaluation' is the one a lifecycle holds in memory.
Job(kind, t, stage) ==
    [pc |-> "check", kind |-> kind, task |-> t, stage |-> stage, evaluation |-> NoEvaluation]

Entry == [task : Task, verdict : {"passed", "blocked"}, judged : FoundSet \cup {NoResult}]

TypeOK ==
    /\ op \in State \cup {Unreadable}
    /\ \A t \in Task, s \in Slot : results[t][s] \in Result \cup {NoResult}
    /\ \A p \in Proc :
         LET job == proc[p] IN
         /\ job.pc \in {"idle", "command", "check", "run", "compose", "finish",
                        "state", "truncate", "truncated", "append"}
         /\ job.pc \notin {"idle", "command"} =>
              /\ job.kind \in Kind /\ job.task \in Task /\ job.stage \in Stage
              /\ job.evaluation \in Evaluation \cup {NoEvaluation}
         /\ job.pc \in {"compose", "finish", "state", "append"} => job.res \in Result
         /\ job.pc \in {"command", "truncate", "truncated"} => job.state \in State
    /\ ledger \subseteq Entry
    /\ starts \in 0 .. MaxStarts

Init == ControlInit /\ ledger = {}

Become(p, job) == proc' = [proc EXCEPT ![p] = job]

At(job, pc) == [job EXCEPT !.pc = pc]
Holding(job, pc, res) ==
    [pc |-> pc, kind |-> job.kind, task |-> job.task, stage |-> job.stage,
     evaluation |-> job.evaluation, res |-> res]

\* The next dispatch of a lifecycle.
Enter(job, stage) ==
    [pc |-> "check", kind |-> job.kind, task |-> job.task, stage |-> stage,
     evaluation |-> job.evaluation]

\* Where a job goes with the result of a stage.
After(job, res) ==
    CASE job.kind \notin Whole -> Holding(job, "state", res)
      [] job.kind \in Whole /\ job.stage = "source" ->
           IF res.found.status = "success" THEN Enter(job, "evaluation")
           ELSE Holding(job, "finish", res)
      [] job.kind \in Whole /\ job.stage \in {"evaluation", "retry"} ->
           Enter([job EXCEPT !.evaluation = res.evaluation], "promotion")
      [] job.kind \in Whole /\ job.stage = "promotion" -> Holding(job, "finish", res)

WriteResult(t, slot, res) == results' = [results EXCEPT ![t][slot] = res]

-----------------------------------------------------------------------------
(* dispatchOperatorTask *)

Handles(q, t) == proc[q].pc \notin {"idle", "command"} /\ proc[q].task = t

\* The command line names a task of the task files; an intake compiles its own.
Begin(p) ==
    \E kind \in Kind, t \in Task :
        /\ (kind = "intake") = (t \in Fresh)
        /\ kind = "intake" => Exists(t) = {} /\ \A q \in Proc : ~Handles(q, t)
        /\ Start(p, Job(kind, t, CASE kind = "evaluate" -> "evaluation"
                                    [] kind = "promote" -> "promotion"
                                    [] OTHER -> "source"))
        /\ UNCHANGED <<op, results, ledger>>

\* Every dispatch looks at the control first; a refusal is its result.
Refused == Plain(Blocked({"manual_note"}))

Refuse(p) ==
    LET job == proc[p] IN
    /\ job.pc = "check"
    /\ ~ControlAllows
    /\ IF job.stage = "retry"
       THEN /\ WriteResult(job.task, "retry", Refused)
            /\ Become(p, Holding(job, "compose", Refused))
       ELSE /\ WriteResult(job.task, SlotOf(job), Refused)
            /\ Become(p, After(job, Refused))
    /\ UNCHANGED <<op, starts, ledger>>

\* The adapter is started, and runs for minutes perhaps.
Launch(p) ==
    /\ proc[p].pc = "check" /\ proc[p].stage \in {"source", "retry"}
    /\ ControlAllows
    /\ Become(p, At(proc[p], "run"))
    /\ UNCHANGED <<op, results, starts, ledger>>

\* The adapter is done: its result file is written.
Run(p) ==
    LET job == proc[p] IN
    /\ job.pc = "run"
    /\ \E found \in Outcomes(job.task) :
         /\ WriteResult(job.task, SlotOf(job), Plain(found))
         /\ Become(p, IF job.stage = "retry" THEN Holding(job, "compose", Plain(found))
                      ELSE After(job, Plain(found)))
    /\ UNCHANGED <<op, starts, ledger>>

\* dispatchManualEvaluationTask: the result file is judged; a task that did
\* not pass is dispatched once more if it may be.
Evaluate(p) ==
    LET job == proc[p]
        source == results[job.task]["result"]
        Written(res) == /\ WriteResult(job.task, EvalSlot(job), res)
                        /\ Become(p, After(job, res))
    IN
    /\ job.pc = "check" /\ job.stage = "evaluation"
    /\ ControlAllows
    /\ IF source = NoResult THEN Written(Plain(Blocked({"file_read"})))
       ELSE IF ~Passes(job.task, source.found) /\ Retryable(job.task)
            THEN Become(p, Enter(job, "retry")) /\ UNCHANGED results
            ELSE Written(EvaluationResult(Evaluated(job.task, source.found, FALSE)))
    /\ UNCHANGED <<op, starts, ledger>>

\* The retry came back: the evaluation is composed and written.
Compose(p) ==
    LET job == proc[p]
        res == EvaluationResult(Evaluated(job.task, job.res.found, TRUE))
    IN
    /\ job.pc = "compose"
    /\ WriteResult(job.task, EvalSlot(job), res)
    /\ Become(p, After(job, res))
    /\ UNCHANGED <<op, starts, ledger>>

\* dispatchManualPromotionTask: the evaluation's file is read.
Promote(p) ==
    LET job == proc[p]
        source == results[job.task][EvalSlot(job)]
        res == IF source = NoResult THEN Plain(Blocked({}))
               ELSE PromotionResult(source, Exists(job.task))
    IN
    /\ job.pc = "check" /\ job.stage = "promotion"
    /\ ControlAllows
    /\ WriteResult(job.task, PromSlot(job), res)
    /\ Become(p, After(job, res))
    /\ UNCHANGED <<op, starts, ledger>>

\* runOperatorLifecycle ends: a success if the promotion was one.  Without
\* the promotion's evaluation, the one in memory is kept.
LifecycleResult(job) ==
    LET promoted == job.res.promotion = "promoted" /\ job.res.found.status = "success"
    IN  [found |-> [Found(VerdictStatus(promoted), {"log_trace", "manual_note"}, FALSE)
                       EXCEPT !.ev = @ \ {"file_exists"}],
         evaluation |-> IF job.res.evaluation # NoEvaluation THEN job.res.evaluation
                        ELSE job.evaluation,
         promotion |-> job.res.promotion]

Finish(p) ==
    LET job == proc[p] IN
    /\ job.pc = "finish"
    /\ WriteResult(job.task, "life", LifecycleResult(job))
    /\ Become(p, Holding(job, "state", LifecycleResult(job)))
    /\ UNCHANGED <<op, starts, ledger>>

-----------------------------------------------------------------------------
(* writeOperatorTrace's second half: the state file *)

\* What is told of a run; without a promotion of its own, one is decided.
LastRunOf(job) ==
    [task |-> job.task,
     slot |-> IF job.kind \in Whole THEN "life" ELSE SlotOf(job),
     status |-> job.res.found.status,
     evaluation |-> job.res.evaluation,
     promotion |-> IF job.res.promotion # "none" THEN job.res.promotion
                   ELSE IF Promotable(job.res.evaluation, Exists(job.task)) THEN "promoted"
                   ELSE "blocked"]

ReadState(p) ==
    LET job == proc[p] IN
    /\ job.pc = "state"
    /\ Become(p, [pc |-> "truncate", kind |-> job.kind, task |-> job.task, stage |-> job.stage,
                  evaluation |-> job.evaluation, res |-> job.res, orphan |-> FALSE,
                  state |-> [ReadOperatorState EXCEPT !.last = LastRunOf(job)]])
    /\ UNCHANGED <<op, results, starts, ledger>>

TruncateState(p) ==
    /\ proc[p].pc = "truncate"
    /\ op' = Unreadable
    /\ Become(p, At(proc[p], "truncated"))
    /\ UNCHANGED <<results, starts, ledger>>

\* Two writers of one file may leave a mixture.
WriteState(p) ==
    LET job == proc[p] IN
    /\ job.pc = "truncated"
    /\ op' \in (IF job.orphan THEN {op}
                ELSE {job.state} \cup (IF op # Unreadable THEN {Unreadable} ELSE {}))
    /\ Become(p, IF job.kind = "intake" THEN Holding(job, "append", job.res) ELSE Idle)
    /\ UNCHANGED <<results, starts, ledger>>

-----------------------------------------------------------------------------
(* The ledger *)

\* expectedEvidenceMet, for the result of a lifecycle.
EvidenceMet(res) == res.found.status = "success" /\ res.promotion = "promoted"

AppendLedger(p) ==
    LET job == proc[p] IN
    /\ job.pc = "append"
    /\ ledger' = ledger \cup
         {[task |-> job.task,
           verdict |-> IF EvidenceMet(job.res) THEN "passed" ELSE "blocked",
           judged |-> IF job.res.evaluation = NoEvaluation THEN NoResult
                      ELSE job.res.evaluation.judged]}
    /\ Become(p, Idle)
    /\ UNCHANGED <<op, results, starts>>

-----------------------------------------------------------------------------

Die(p) ==
    /\ proc[p] # Idle
    /\ Become(p, Idle)
    /\ UNCHANGED <<op, results, starts, ledger>>

JobStep(p) ==
    \/ Begin(p) \/ Refuse(p) \/ Launch(p) \/ Run(p)
    \/ Evaluate(p) \/ Compose(p) \/ Promote(p) \/ Finish(p)
    \/ ReadState(p) \/ TruncateState(p) \/ WriteState(p)
    \/ AppendLedger(p)
    \/ Die(p)

Next ==
    \/ ControlNext /\ UNCHANGED ledger
    \/ \E p \in Proc : JobStep(p)

Spec == Init /\ [][Next]_vars

-----------------------------------------------------------------------------
(* Properties *)

\* The ledger passes a task only if what was judged is a success with all
\* the evidence the task asks for, and, where the program itself looks for
\* the text, the text was there: whatever was paused, retried, overwritten
\* by another process or cut short on the way.
PassedProven ==
    \A e \in ledger :
        e.verdict = "passed" =>
            /\ e.judged # NoResult
            /\ e.judged.status = "success"
            /\ Expected(e.task) \subseteq e.judged.ev
            /\ e.task \in TextTask /\ Route[e.task] # "openmanus" => e.judged.seen

\* The run the state file tells of has its files, a promotion its winner, a
\* lifecycle its children: at any moment, with two writers and their deaths.
LastRunTraced == RunIssueFree(ReadOperatorState.last)

\* A pause or a stop lasts until a resume: no other command, and no dispatch,
\* replaces a state that is paused by one that is not.
PausedUntilResumed ==
    [][op # Unreadable /\ op.mode # "active" /\ op' # Unreadable =>
         \/ op'.mode # "active"
         \/ \E p \in Proc :
              /\ proc[p].pc = "command" /\ proc[p].command = "resume"
              /\ proc'[p] = Idle]_vars
=============================================================================
