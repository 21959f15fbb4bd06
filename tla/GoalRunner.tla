----------------------------- MODULE GoalRunner -----------------------------
(***************************************************************************)
(* Goals (src/goal-runner/{runner,budgets}.ts): a run makes a task for its *)
(* objective, has a hand do it, and reports what the verifier says; its    *)
(* budget and the lease of the active goal are files, so that a goal can   *)
(* be resumed after its process died.                                      *)
(*                                                                         *)
(* A goal is named after the run that created it.  Every caller gives a    *)
(* goal one plan.  All tasks of the runner have one idempotency key        *)
(* ('exec-graph:goal-runner'), so that createTask may return the task of   *)
(* another goal.  A call into the execution graph is one step (ExecGraph   *)
(* and Hands have what goes on inside).                                    *)
(***************************************************************************)
EXTENDS TaskLifecycle, Naturals, FiniteSets

CONSTANTS
    Run,        \* calls of runGoal, and the goals they create
    Proc,
    Plan,       \* kinds of plan: a subset of "browser", "red-line", "external", "other"
    Limits,     \* limits a caller may give: records [perTask, total, tasks]
    ResumeLive  \* may a goal be resumed, or another started, at the very time of a start or a run?

ASSUME GoalAssumption ==
    /\ Plan \subseteq {"browser", "red-line", "external", "other"}
    /\ Limits \subseteq [perTask : Nat \ {0}, total : Nat \ {0}, tasks : Nat \ {0}]
    /\ ResumeLive \in BOOLEAN

VARIABLES
    tasks,    \* per goal: the status of the task created for it
    budgets,  \* per goal: its budget file
    lease,    \* active-lease.json
    alive,    \* the processes that live
    run,      \* per run: where it is and what it knows
    executed  \* history: how often the actions of a goal's task were executed

goalVars == <<tasks, budgets, lease, alive, run, executed>>

NoTask == "none"
NoBudget == [none |-> TRUE]
NoLease == [free |-> TRUE]
Budget == [tried : SUBSET Run, created : Nat, limits : Limits]
NoRun == [pc |-> "off"]

\* What is left of a run that is over.
Over(state, pc, status) ==
    [pc |-> pc, proc |-> state.proc, goal |-> state.goal, plan |-> state.plan, status |-> status]

RunPc == {"lease", "claim", "budget", "plan", "create", "accept", "planned", "halt",
          "check", "stop", "assign", "execute", "submit", "verify", "abort",
          "report", "threw"}

RunState ==
    [pc : RunPc, proc : Proc, goal : Run, plan : Plan, resumed : BOOLEAN,
     budget : Budget, task : Run, branch : {"run", "paused", "red-line"},
     final : {"none", "verified", "rejected", "escalated", "blocked", "failed",
              "budget-exceeded"}]
    \cup [pc : {"done", "dead"}, proc : Proc, goal : Run, plan : Plan,
          status : {"none", "completed", "escalated", "failed", "threw"}]

GoalTypeOK ==
    /\ tasks \in [Run -> Status \cup {NoTask}]
    /\ budgets \in [Run -> Budget \cup {NoBudget}]
    /\ lease \in [goal : Run, proc : Proc] \cup {NoLease}
    /\ alive \subseteq Proc
    /\ run \in [Run -> RunState \cup {NoRun}]
    /\ executed \in [Run -> Nat]

GoalInit ==
    /\ tasks = [g \in Run |-> NoTask]
    /\ budgets = [g \in Run |-> NoBudget]
    /\ lease = NoLease
    /\ alive = Proc
    /\ run = [r \in Run |-> NoRun]
    /\ executed = [g \in Run |-> 0]

Ended == {"off", "done", "dead"}
Live(r) == run[r].pc \notin Ended

Update(r, state) == run' = [run EXCEPT ![r] = state]
Goto(r, pc) == run' = [run EXCEPT ![r].pc = pc]

\* The report of the run's task; runGoal then sums up.
Report(r, final) == run' = [run EXCEPT ![r].pc = "report", ![r].final = final]

-----------------------------------------------------------------------------
(* runGoal: the goal, its lease and its budget *)

MayBegin == ResumeLive \/ \A q \in Run : run[q].pc \notin {"lease", "claim"}

NewRun(r, p, g, plan, resumed, budget) ==
    [pc |-> "lease", proc |-> p, goal |-> g, plan |-> plan, resumed |-> resumed,
     budget |-> budget, task |-> g, branch |-> "run", final |-> "none"]

\* A fresh goal: one decomposition round, one planned task.
Start(r, p, plan, limits) ==
    /\ run[r] = NoRun
    /\ p \in alive
    /\ MayBegin
    /\ Update(r, NewRun(r, p, r, plan, FALSE, [tried |-> {}, created |-> 1, limits |-> limits]))
    /\ UNCHANGED <<tasks, budgets, lease, alive, executed>>

\* A goal is resumed from its budget file, with the limits of the new call
\* over the stored ones; without that file the answer is a failed report.
Resume(r, p, g, limits) ==
    /\ run[r] = NoRun
    /\ run[g] # NoRun /\ run[g].goal = g
    /\ p \in alive
    /\ MayBegin
    /\ ResumeLive \/ \A q \in Run : Live(q) => run[q].goal # g
    /\ Update(r, IF budgets[g] = NoBudget
                 THEN [pc |-> "done", proc |-> p, goal |-> g, plan |-> run[g].plan, status |-> "failed"]
                 ELSE NewRun(r, p, g, run[g].plan, TRUE, [budgets[g] EXCEPT !.limits = limits]))
    /\ UNCHANGED <<tasks, budgets, lease, alive, executed>>

\* Mutant: the lease of another goal is taken over, whoever holds it.
ReadLeaseRude(r) ==
    /\ run[r].pc = "lease"
    /\ Goto(r, "claim")
    /\ UNCHANGED <<tasks, budgets, lease, alive, executed>>

\* acquireLease: another goal's lease counts as long as its process lives.
ReadLease(r) ==
    /\ run[r].pc = "lease"
    /\ IF lease # NoLease /\ lease.goal # run[r].goal /\ lease.proc \in alive
       THEN Update(r, Over(run[r], "done", "failed"))
       ELSE Goto(r, "claim")
    /\ UNCHANGED <<tasks, budgets, lease, alive, executed>>

ClaimLease(r) ==
    /\ run[r].pc = "claim"
    /\ lease' = [goal |-> run[r].goal, proc |-> run[r].proc]
    /\ Goto(r, IF run[r].resumed THEN "plan" ELSE "budget")
    /\ UNCHANGED <<tasks, budgets, alive, executed>>

SaveBudget(r, budget) == budgets' = [budgets EXCEPT ![run[r].goal] = budget]

CreateBudget(r) ==
    /\ run[r].pc = "budget"
    /\ SaveBudget(r, run[r].budget)
    /\ Goto(r, "plan")
    /\ UNCHANGED <<tasks, lease, alive, executed>>

-----------------------------------------------------------------------------
(* runGoal: the plan *)

Terminal == {"verified", "rejected", "escalated", "closed", "blocked"}

\* taskStatusToFinalStatus
FinalOf(status) == IF status = "closed" THEN "verified" ELSE status

\* What becomes of the plan: a resumed goal's task that is over is reported
\* as it is; a paused or red-line plan gets a task only to escalate it; a
\* resumed goal goes on with its task; else there is a new one.
TakePlan(r) ==
    LET g == run[r].goal
        own == IF run[r].resumed THEN tasks[g] ELSE NoTask
    IN
    /\ run[r].pc = "plan"
    /\ IF own \in Terminal
       THEN Report(r, FinalOf(own))
       ELSE \E paused \in BOOLEAN :
              IF paused
              THEN run' = [run EXCEPT ![r].pc = "create", ![r].branch = "paused"]
              ELSE IF run[r].plan \in {"red-line", "external"}
              THEN run' = [run EXCEPT ![r].pc = "create", ![r].branch = "red-line"]
              ELSE Goto(r, IF own # NoTask THEN "check" ELSE "create")
    /\ UNCHANGED <<tasks, budgets, lease, alive, executed>>

\* createTask: the task with the runner's key, whichever goal's it is.
TaskOf(g) ==
    IF \E h \in Run : tasks[h] # NoTask THEN CHOOSE h \in Run : tasks[h] # NoTask ELSE g

\* ... and a task to be run is counted.
CreateTask(r) ==
    LET t == TaskOf(run[r].goal)
        counted == [run[r].budget EXCEPT !.created = @ + 1]
    IN
    /\ run[r].pc = "create"
    /\ tasks' = [tasks EXCEPT ![t] = IF @ = NoTask THEN "proposed" ELSE @]
    /\ IF run[r].branch = "run"
       THEN /\ SaveBudget(r, counted)
            /\ run' = [run EXCEPT ![r].pc = "accept", ![r].task = t, ![r].budget = counted]
       ELSE /\ UNCHANGED budgets
            /\ run' = [run EXCEPT ![r].pc = "accept", ![r].task = t]
    /\ UNCHANGED <<lease, alive, executed>>

\* A move of the run's task: an illegal one throws, which ends the run.
MoveOrThrow(r, to, next) ==
    /\ IF LegalEdge(tasks[run[r].task], to, "goal-runner")
       THEN tasks' = [tasks EXCEPT ![run[r].task] = to] /\ run' = [run EXCEPT ![r] = next]
       ELSE UNCHANGED tasks /\ Goto(r, "threw")
    /\ UNCHANGED <<budgets, lease, alive, executed>>

Accept(r) ==
    /\ run[r].pc = "accept"
    /\ MoveOrThrow(r, "accepted", [run[r] EXCEPT !.pc = IF @ = "accept" /\ run[r].branch = "run"
                                                        THEN "planned" ELSE "halt"])

Planned(r) ==
    /\ run[r].pc = "planned"
    /\ MoveOrThrow(r, "planned", [run[r] EXCEPT !.pc = "check"])

\* The halt of a paused goal is reported 'blocked', that of a red line
\* 'escalated', the latter after the CEO was notified.
Halt(r) ==
    /\ run[r].pc = "halt"
    /\ MoveOrThrow(r, "escalated",
         [run[r] EXCEPT !.pc = "report",
                        !.final = IF run[r].branch = "paused" THEN "blocked" ELSE "escalated"])

-----------------------------------------------------------------------------
(* runGoal: the budget and the attempt *)

\* checkBudget: `late' says whether the goal's wall time is over.
Exceeded(b, t, late) ==
    \/ late
    \/ Cardinality(b.tried) >= b.limits.total
    \/ b.created > b.limits.tasks
    \/ t \in b.tried /\ b.limits.perTask <= 1

\* Mutant: the attempt is counted in memory only.
CheckAndCountInMemory(r) ==
    LET b == run[r].budget
        t == run[r].task
    IN
    /\ run[r].pc = "check"
    /\ \E late \in BOOLEAN :
         IF Exceeded(b, t, late) \/ t \in b.tried
         THEN run' = [run EXCEPT ![r].pc = "stop", ![r].final = "budget-exceeded"]
         ELSE run' = [run EXCEPT ![r].pc = "assign", ![r].budget.tried = @ \cup {t}]
    /\ UNCHANGED <<tasks, budgets, lease, alive, executed>>

\* checkBudget, the circuit breaker (the fingerprint of a task's first
\* attempt never changes) and recordAttempt.
CheckAndCount(r) ==
    LET b == run[r].budget
        t == run[r].task
        counted == [b EXCEPT !.tried = @ \cup {t}]
    IN
    /\ run[r].pc = "check"
    /\ \E late \in BOOLEAN :
         CASE Exceeded(b, t, late) ->
                run' = [run EXCEPT ![r].pc = "stop", ![r].final = "budget-exceeded"]
                /\ UNCHANGED budgets
           [] ~Exceeded(b, t, late) /\ t \in b.tried ->
                run' = [run EXCEPT ![r].pc = "stop", ![r].final = "blocked"]
                /\ UNCHANGED budgets
           [] OTHER ->
                run' = [run EXCEPT ![r].pc = "assign", ![r].budget = counted]
                /\ SaveBudget(r, counted)
    /\ UNCHANGED <<tasks, lease, alive, executed>>

Stop(r) ==
    /\ run[r].pc = "stop"
    /\ MoveOrThrow(r, "escalated", [run[r] EXCEPT !.pc = "report"])

\* From here on a call that throws is caught and reported as 'failed'.
MoveOrFail(r, to, next) ==
    /\ IF LegalEdge(tasks[run[r].task], to, "goal-runner")
       THEN tasks' = [tasks EXCEPT ![run[r].task] = to] /\ run' = [run EXCEPT ![r] = next]
       ELSE UNCHANGED tasks /\ Report(r, "failed")
    /\ UNCHANGED <<budgets, lease, alive, executed>>

\* Mutant: a task that is already delegated is assigned once more.
AssignAgain(r) ==
    /\ run[r].pc = "assign"
    /\ tasks' = [tasks EXCEPT ![run[r].task] = "delegated"]
    /\ Goto(r, IF run[r].plan = "browser" THEN "execute" ELSE "abort")
    /\ UNCHANGED <<budgets, lease, alive, executed>>

\* assignHand; only the browser hand can execute anything.
AssignHand(r) ==
    /\ run[r].pc = "assign"
    /\ MoveOrFail(r, "delegated",
                  [run[r] EXCEPT !.pc = IF run[r].plan = "browser" THEN "execute" ELSE "abort"])

Execute(r) ==
    /\ run[r].pc = "execute"
    /\ executed' = [executed EXCEPT ![run[r].task] = @ + 1]
    /\ Goto(r, "submit") \/ Report(r, "failed")
    /\ UNCHANGED <<tasks, budgets, lease, alive>>

\* submitReceipt: a delegated task is in progress first.
SubmitReceipt(r) ==
    /\ run[r].pc = "submit"
    /\ IF tasks[run[r].task] = "delegated"
       THEN MoveOrFail(r, "in-progress", run[r])
       ELSE MoveOrFail(r, "evidence-submitted", [run[r] EXCEPT !.pc = "verify"])

VerifyAndTransition(r) ==
    /\ run[r].pc = "verify"
    /\ \E verdict \in FinalStatus :
         IF tasks[run[r].task] = "evidence-submitted"
         THEN MoveOrFail(r, verdict, [run[r] EXCEPT !.pc = "report", !.final = verdict])
         ELSE Report(r, "failed") /\ UNCHANGED <<tasks, budgets, lease, alive, executed>>

AbortHandTask(r) ==
    /\ run[r].pc = "abort"
    /\ MoveOrFail(r, "blocked", [run[r] EXCEPT !.pc = "report", !.final = "blocked"])

-----------------------------------------------------------------------------
(* runGoal: the report, and releaseLease *)

StatusOf(final) ==
    CASE final = "escalated" -> "escalated"
      [] final = "verified" -> "completed"
      [] OTHER -> "failed"

\* The terminal claim in the evidence ledger fails open and leaves no trace here.
EndRun(r) ==
    /\ run[r].pc \in {"report", "threw"}
    /\ lease' = IF lease # NoLease /\ lease.goal = run[r].goal THEN NoLease ELSE lease
    /\ Update(r, Over(run[r], "done", IF run[r].pc = "threw" THEN "threw" ELSE StatusOf(run[r].final)))
    /\ UNCHANGED <<tasks, budgets, alive, executed>>

-----------------------------------------------------------------------------
(* Others *)

\* A process dies, and its runs with it.
KillProcess(p) ==
    /\ p \in alive
    /\ alive' = alive \ {p}
    /\ run' = [r \in Run |-> IF Live(r) /\ run[r].proc = p THEN Over(run[r], "dead", "none")
                             ELSE run[r]]
    /\ UNCHANGED <<tasks, budgets, lease, executed>>

\* The CEO closes a verified task, or lets an escalated one go on.
CeoMove(g, to) ==
    /\ tasks[g] \in {"verified", "escalated"}
    /\ to \notin FinalStatus
    /\ LegalEdge(tasks[g], to, "ceo")
    /\ tasks' = [tasks EXCEPT ![g] = to]
    /\ UNCHANGED <<budgets, lease, alive, run, executed>>

RunStep(r) ==
    \/ ReadLease(r) \/ ClaimLease(r) \/ CreateBudget(r)
    \/ TakePlan(r) \/ CreateTask(r) \/ Accept(r) \/ Planned(r) \/ Halt(r)
    \/ CheckAndCount(r) \/ Stop(r) \/ AssignHand(r) \/ Execute(r)
    \/ SubmitReceipt(r) \/ VerifyAndTransition(r) \/ AbortHandTask(r) \/ EndRun(r)

-----------------------------------------------------------------------------
(* Properties *)

\* However often its process dies and it is resumed, and whichever goals get
\* hold of it, the actions of a task are executed at most once.
ExecutedOnce == \A t \in Run : executed[t] <= 1

\* What a goal has attempted stays in its budget file: neither a resume nor
\* another goal's run makes it forget, and what was executed had been counted.
AttemptsKept ==
    [][\A g \in Run :
         /\ budgets[g] # NoBudget =>
              budgets'[g] # NoBudget /\ budgets[g].tried \subseteq budgets'[g].tried
         /\ executed'[g] # executed[g] =>
              \E h \in Run : budgets[h] # NoBudget /\ g \in budgets[h].tried]_goalVars

\* At any time the tasks of one goal only are worked on.
OneActiveGoal ==
    \A r, q \in Run :
        Live(r) /\ Live(q) /\ run[r].pc \notin {"lease", "claim"}
                /\ run[q].pc \notin {"lease", "claim"}
            => run[r].goal = run[q].goal
=============================================================================
