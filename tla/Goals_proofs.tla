---------------------------- MODULE Goals_proofs ----------------------------
(***************************************************************************)
(* Goals and the requests for them, and the assists under supervision, for *)
(* any number of runs, processes, requests, sessions and approvals.        *)
(*                                                                         *)
(* The goals: a task is executed once, a goal's attempts are not forgotten *)
(* and one goal is active, as long as no goal is begun or resumed at the   *)
(* very time of another start or of its own run; a request is run again    *)
(* only after a death, whatever the goals do.  The assists: what is filled *)
(* in was approved for it; and it is no credential, when the page stays    *)
(* what it is between the look at a field and its fill.                    *)
(***************************************************************************)
EXTENDS GoalRequests, SupervisedAssist, TLAPS

-----------------------------------------------------------------------------
(* Goals: the records of the runs *)

LiveRun ==
    [pc : RunPc, proc : Proc, goal : Run, plan : Plan, resumed : BOOLEAN,
     budget : Budget, task : Run, branch : {"run", "paused", "red-line"},
     final : {"none", "verified", "rejected", "escalated", "blocked", "failed",
              "budget-exceeded"}]

OverRun ==
    [pc : {"done", "dead"}, proc : Proc, goal : Run, plan : Plan,
     status : {"none", "completed", "escalated", "failed", "threw"}]

\* d is a later state of the live run r.
Becomes(r, d) ==
    /\ d \in LiveRun
    /\ run' = [run EXCEPT ![r] = d]
    /\ d.proc = run[r].proc /\ d.goal = run[r].goal /\ d.resumed = run[r].resumed

\* The run r is over.
Ends(r) ==
    \E d \in OverRun :
        /\ run' = [run EXCEPT ![r] = d]
        /\ d.proc = run[r].proc /\ d.goal = run[r].goal

LEMMA RunKinds ==
    ASSUME GoalTypeOK, NEW r \in Run
    PROVE  /\ run[r] # NoRun => run[r] \in LiveRun \cup OverRun
           /\ Live(r) => run[r] \in LiveRun /\ run[r] # NoRun
           /\ ~Live(r) /\ run[r] # NoRun => run[r] \in OverRun
<1>1. RunState = LiveRun \cup OverRun
  BY DEF RunState, LiveRun, OverRun
<1>2. \A d \in LiveRun : d.pc \in RunPc
  BY DEF LiveRun
<1>3. \A d \in OverRun : d.pc \in {"done", "dead"}
  BY DEF OverRun
<1>4. NoRun.pc = "off"
  BY DEF NoRun
<1>5. run[r] \in LiveRun \/ run[r] \in OverRun \/ run[r] = NoRun
  BY <1>1 DEF GoalTypeOK
<1> QED BY <1>2, <1>3, <1>4, <1>5 DEF Live, Ended, RunPc

LEMMA LiveFields ==
    ASSUME NEW d \in LiveRun
    PROVE  /\ d.pc \in RunPc /\ d.proc \in Proc /\ d.goal \in Run /\ d.plan \in Plan
           /\ d.resumed \in BOOLEAN /\ d.budget \in Budget /\ d.task \in Run
           /\ d.branch \in {"run", "paused", "red-line"}
           /\ d.final \in {"none", "verified", "rejected", "escalated", "blocked", "failed",
                           "budget-exceeded"}
BY DEF LiveRun

LEMMA GotoMeans ==
    ASSUME GoalTypeOK, NEW r \in Run, Live(r), NEW pc \in RunPc, Goto(r, pc)
    PROVE  \E d : /\ Becomes(r, d) /\ d.pc = pc
                  /\ d.budget = run[r].budget /\ d.task = run[r].task
<1> DEFINE d == [run[r] EXCEPT !.pc = pc]
<1>1. run[r] \in LiveRun
  BY RunKinds
<1>2. /\ d \in LiveRun /\ d.pc = pc /\ d.budget = run[r].budget /\ d.task = run[r].task
      /\ d.proc = run[r].proc /\ d.goal = run[r].goal /\ d.resumed = run[r].resumed
  BY <1>1 DEF LiveRun
<1>3. run' = [run EXCEPT ![r] = d]
  BY DEF Goto
<1> HIDE DEF d
<1> QED BY <1>2, <1>3 DEF Becomes

LEMMA ReportMeans ==
    ASSUME GoalTypeOK, NEW r \in Run, Live(r),
           NEW final \in {"none", "verified", "rejected", "escalated", "blocked", "failed",
                          "budget-exceeded"},
           NEW pc \in {"report", "stop"},
           run' = [run EXCEPT ![r].pc = pc, ![r].final = final]
    PROVE  \E d : /\ Becomes(r, d) /\ d.pc = pc
                  /\ d.budget = run[r].budget /\ d.task = run[r].task
<1> DEFINE d == [run[r] EXCEPT !.pc = pc, !.final = final]
<1>1. run[r] \in LiveRun
  BY RunKinds
<1>2. /\ d \in LiveRun /\ d.pc = pc /\ d.budget = run[r].budget /\ d.task = run[r].task
      /\ d.proc = run[r].proc /\ d.goal = run[r].goal /\ d.resumed = run[r].resumed
  BY <1>1 DEF LiveRun, RunPc
<1>3. run' = [run EXCEPT ![r] = d]
  <2> HIDE DEF d
  <2>1. run' = [run EXCEPT ![r] = [[run[r] EXCEPT !.pc = pc] EXCEPT !.final = final]]
    BY <1>1 DEF GoalTypeOK
  <2> QED BY <2>1 DEF d
<1> HIDE DEF d
<1> QED BY <1>2, <1>3 DEF Becomes

LEMMA BecomesType ==
    ASSUME GoalTypeOK, NEW r \in Run, NEW d, Becomes(r, d)
    PROVE  /\ run' \in [Run -> RunState \cup {NoRun}]
           /\ \A q \in Run : run'[q] = IF q = r THEN d ELSE run[q]
<1>1. d \in RunState
  BY DEF Becomes, LiveRun, RunState
<1> QED BY <1>1 DEF GoalTypeOK, Becomes

LEMMA EndsType ==
    ASSUME GoalTypeOK, NEW r \in Run, Ends(r)
    PROVE  /\ run' \in [Run -> RunState \cup {NoRun}]
           /\ run'[r].pc \in {"done", "dead"} /\ run'[r] # NoRun
           /\ run'[r].proc = run[r].proc /\ run'[r].goal = run[r].goal
           /\ \A q \in Run : q # r => run'[q] = run[q]
<1>1. PICK d \in OverRun : /\ run' = [run EXCEPT ![r] = d]
                           /\ d.proc = run[r].proc /\ d.goal = run[r].goal
  BY DEF Ends
<1>2. d \in RunState
  BY DEF OverRun, RunState
<1>3. d.pc \in {"done", "dead"} /\ d # NoRun
  BY DEF OverRun, NoRun
<1> QED BY <1>1, <1>2, <1>3 DEF GoalTypeOK

LEMMA OverMeans ==
    ASSUME GoalTypeOK, NEW r \in Run, Live(r), NEW pc \in {"done", "dead"},
           NEW status \in {"none", "completed", "escalated", "failed", "threw"}
    PROVE  /\ Over(run[r], pc, status) \in OverRun
           /\ Over(run[r], pc, status).proc = run[r].proc
           /\ Over(run[r], pc, status).goal = run[r].goal
<1>1. run[r] \in LiveRun
  BY RunKinds
<1> QED BY <1>1, LiveFields DEF Over, OverRun

-----------------------------------------------------------------------------
(* Goals: what the steps of a run do *)

Same(r, d) == d.budget = run[r].budget /\ d.task = run[r].task

\* The steps of a run r to d that do not touch the task: before ...
LeaseRead(r, d) ==
    /\ run[r].pc = "lease" /\ d.pc = "claim" /\ Same(r, d)
    /\ lease = NoLease \/ lease.goal = run[r].goal \/ lease.proc \notin alive
    /\ UNCHANGED <<tasks, budgets, lease, executed>>

LeaseClaimed(r, d) ==
    /\ run[r].pc = "claim" /\ d.pc = (IF run[r].resumed THEN "plan" ELSE "budget") /\ Same(r, d)
    /\ lease' = [goal |-> run[r].goal, proc |-> run[r].proc]
    /\ UNCHANGED <<tasks, budgets, executed>>

BudgetMade(r, d) ==
    /\ run[r].pc = "budget" /\ d.pc = "plan" /\ Same(r, d)
    /\ budgets' = [budgets EXCEPT ![run[r].goal] = d.budget]
    /\ UNCHANGED <<tasks, lease, executed>>

PlanTaken(r, d) ==
    /\ run[r].pc = "plan" /\ Same(r, d)
    /\ d.pc \in {"report", "create", "check"}
    /\ d.pc = "check" => tasks[run[r].goal] # NoTask
    /\ UNCHANGED <<tasks, budgets, lease, executed>>

\* ... at ...
TaskMade(r, d) ==
    /\ run[r].pc = "create" /\ d.pc = "accept"
    /\ d.budget.tried = run[r].budget.tried
    /\ tasks' = [tasks EXCEPT ![d.task] = IF @ = NoTask THEN "proposed" ELSE @]
    /\ UNCHANGED budgets \/ budgets' = [budgets EXCEPT ![run[r].goal] = d.budget]
    /\ UNCHANGED <<lease, executed>>

AttemptCounted(r, d) ==
    /\ run[r].pc = "check" /\ d.task = run[r].task
    /\ UNCHANGED <<tasks, lease, executed>>
    /\ \/ d.pc = "stop" /\ d.budget = run[r].budget /\ UNCHANGED budgets
       \/ /\ d.pc = "assign"
          /\ d.budget.tried = run[r].budget.tried \cup {d.task}
          /\ budgets' = [budgets EXCEPT ![run[r].goal] = d.budget]

\* ... and after its attempt.
Executed(r, d) ==
    /\ run[r].pc = "execute" /\ d.pc \in {"submit", "report"} /\ Same(r, d)
    /\ executed' = [executed EXCEPT ![run[r].task] = @ + 1]
    /\ UNCHANGED <<tasks, budgets, lease>>

\* A move of the task, or one that is refused.
TaskMoved(r, d) ==
    /\ run[r].pc \in {"accept", "planned", "halt", "stop", "assign", "submit", "verify", "abort"}
    /\ Same(r, d)
    /\ UNCHANGED <<budgets, lease, executed>>
    /\ \/ UNCHANGED tasks /\ d.pc \in {"threw", "report"}
       \/ \E to \in Status \ {"proposed"} :
            /\ tasks' = [tasks EXCEPT ![run[r].task] = to]
            /\ LegalEdge(tasks[run[r].task], to, "goal-runner")
            /\ to = "accepted" <=> run[r].pc = "accept"
            /\ to = "planned" <=> run[r].pc = "planned"
            /\ to = "delegated" <=> run[r].pc = "assign"
            /\ d.pc = "planned" => run[r].pc = "accept"
            /\ d.pc = "execute" => run[r].pc = "assign"
            /\ d.pc \in {"planned", "halt", "check", "execute", "abort", "submit", "verify",
                         "report"}

RunEnded(r) ==
    /\ Ends(r)
    /\ \/ run[r].pc = "lease" /\ UNCHANGED lease
       \/ run[r].pc \in {"report", "threw"} /\ lease' \in {lease, NoLease}
    /\ UNCHANGED <<tasks, budgets, executed>>

RunGoesOn(r, d) ==
    /\ Becomes(r, d)
    /\ \/ LeaseRead(r, d) \/ LeaseClaimed(r, d) \/ BudgetMade(r, d) \/ PlanTaken(r, d)
       \/ TaskMade(r, d) \/ AttemptCounted(r, d) \/ Executed(r, d) \/ TaskMoved(r, d)

LEMMA EarlySteps ==
    ASSUME GoalTypeOK, NEW r \in Run,
           ReadLease(r) \/ ClaimLease(r) \/ CreateBudget(r) \/ TakePlan(r)
    PROVE  Live(r) /\ alive' = alive /\ (RunEnded(r) \/ \E d : RunGoesOn(r, d))
<1>0. Live(r) /\ alive' = alive
  BY DEF ReadLease, ClaimLease, CreateBudget, TakePlan, Live, Ended
<1>1. CASE ReadLease(r)
  <2>1. CASE lease # NoLease /\ lease.goal # run[r].goal /\ lease.proc \in alive
    <3>1. run' = [run EXCEPT ![r] = Over(run[r], "done", "failed")]
      BY <1>1, <2>1 DEF ReadLease, Update
    <3>2. Ends(r)
      BY <1>0, <3>1, OverMeans DEF Ends
    <3> QED BY <1>0, <1>1, <3>2 DEF ReadLease, RunEnded
  <2>2. CASE ~(lease # NoLease /\ lease.goal # run[r].goal /\ lease.proc \in alive)
    <3>1. Goto(r, "claim") /\ UNCHANGED <<tasks, budgets, lease, executed>> /\ run[r].pc = "lease"
      BY <1>1, <2>2 DEF ReadLease
    <3>2. PICK d : Becomes(r, d) /\ d.pc = "claim" /\ Same(r, d)
      BY <1>0, <3>1, GotoMeans DEF RunPc, Same
    <3> QED BY <1>0, <2>2, <3>1, <3>2 DEF RunGoesOn, LeaseRead
  <2> QED BY <2>1, <2>2
<1>2. CASE ClaimLease(r)
  <2>1. Goto(r, IF run[r].resumed THEN "plan" ELSE "budget")
    BY <1>2 DEF ClaimLease
  <2>2. PICK d : /\ Becomes(r, d) /\ d.pc = (IF run[r].resumed THEN "plan" ELSE "budget")
                 /\ Same(r, d)
    BY <1>0, <2>1, GotoMeans DEF RunPc, Same
  <2> QED BY <1>0, <1>2, <2>2 DEF RunGoesOn, LeaseClaimed, ClaimLease
<1>3. CASE CreateBudget(r)
  <2>1. PICK d : Becomes(r, d) /\ d.pc = "plan" /\ Same(r, d)
    BY <1>0, <1>3, GotoMeans DEF CreateBudget, RunPc, Same
  <2> QED BY <1>0, <1>3, <2>1 DEF RunGoesOn, BudgetMade, CreateBudget, SaveBudget, Same
<1>4. CASE TakePlan(r)
  <2> DEFINE own == IF run[r].resumed THEN tasks[run[r].goal] ELSE NoTask
  <2>1. run[r].pc = "plan" /\ UNCHANGED <<tasks, budgets, lease, executed>>
    BY <1>4 DEF TakePlan
  <2>2. ASSUME NEW d, Becomes(r, d), Same(r, d), d.pc \in {"report", "create"}
        PROVE  \E e : RunGoesOn(r, e)
    BY <2>1, <2>2 DEF RunGoesOn, PlanTaken
  <2>3. CASE own \in Terminal
    <3>1. FinalOf(own) \in {"verified", "rejected", "escalated", "blocked"}
      BY <2>3 DEF FinalOf, Terminal
    <3>2. run' = [run EXCEPT ![r].pc = "report", ![r].final = FinalOf(own)]
      BY <1>4, <2>3 DEF TakePlan, Report
    <3> QED BY <1>0, <2>2, <3>1, <3>2, ReportMeans DEF Same
  <2>4. CASE /\ own \notin Terminal
             /\ \E branch \in {"paused", "red-line"} :
                  run' = [run EXCEPT ![r].pc = "create", ![r].branch = branch]
    <3>1. PICK branch \in {"paused", "red-line"} :
            run' = [run EXCEPT ![r].pc = "create", ![r].branch = branch]
      BY <2>4
    <3> DEFINE d == [run[r] EXCEPT !.pc = "create", !.branch = branch]
    <3>2. run[r] \in LiveRun
      BY <1>0, RunKinds
    <3>3. /\ d \in LiveRun /\ d.pc = "create" /\ d.budget = run[r].budget /\ d.task = run[r].task
          /\ d.proc = run[r].proc /\ d.goal = run[r].goal /\ d.resumed = run[r].resumed
      BY <3>2 DEF LiveRun, RunPc
    <3>4. run' = [run EXCEPT ![r] = d]
      <4> HIDE DEF d
      <4>1. run' = [run EXCEPT ![r] = [[run[r] EXCEPT !.pc = "create"] EXCEPT !.branch = branch]]
        BY <3>1, <3>2 DEF GoalTypeOK
      <4> QED BY <4>1 DEF d
    <3> HIDE DEF d
    <3> QED BY <1>0, <2>2, <3>3, <3>4 DEF Becomes, Same
  <2>5. CASE own \notin Terminal /\ Goto(r, IF own # NoTask THEN "check" ELSE "create")
    <3>1. PICK d : /\ Becomes(r, d) /\ d.pc = (IF own # NoTask THEN "check" ELSE "create")
                   /\ Same(r, d)
      BY <1>0, <2>5, GotoMeans DEF RunPc, Same
    <3>2. d.pc = "check" => tasks[run[r].goal] # NoTask
      BY <3>1
    <3> QED BY <1>0, <2>1, <3>1, <3>2 DEF RunGoesOn, PlanTaken
  <2>6. own \in Terminal \/ <2>4!1 \/ <2>5!1
    <3>1. own \in Terminal \/ \E paused \in BOOLEAN :
            IF paused
            THEN run' = [run EXCEPT ![r].pc = "create", ![r].branch = "paused"]
            ELSE IF run[r].plan \in {"red-line", "external"}
            THEN run' = [run EXCEPT ![r].pc = "create", ![r].branch = "red-line"]
            ELSE Goto(r, IF own # NoTask THEN "check" ELSE "create")
      BY <1>4 DEF TakePlan
    <3> QED BY <3>1
  <2> QED BY <1>0, <2>3, <2>4, <2>5, <2>6
<1> QED BY <1>1, <1>2, <1>3, <1>4

LEMMA TaskSteps ==
    ASSUME GoalTypeOK, NEW r \in Run, CreateTask(r) \/ CheckAndCount(r) \/ Execute(r) \/ EndRun(r)
    PROVE  Live(r) /\ alive' = alive /\ (RunEnded(r) \/ \E d : RunGoesOn(r, d))
<1>0. Live(r) /\ alive' = alive
  BY DEF CreateTask, CheckAndCount, Execute, EndRun, Live, Ended
<1>1. run[r] \in LiveRun
  BY <1>0, RunKinds
<1>2. run[r].budget \in Budget /\ run[r].task \in Run /\ run[r].goal \in Run
  BY <1>1, LiveFields
<1>3. CASE CreateTask(r)
  <2> DEFINE t == TaskOf(run[r].goal)
             counted == [run[r].budget EXCEPT !.created = @ + 1]
  <2>1. t \in Run
    BY <1>2 DEF TaskOf
  <2>2. counted \in Budget /\ counted.tried = run[r].budget.tried
    BY <1>2 DEF Budget
  <2>3. /\ run[r].pc = "create" /\ UNCHANGED <<lease, executed>>
        /\ tasks' = [tasks EXCEPT ![t] = IF @ = NoTask THEN "proposed" ELSE @]
    BY <1>3 DEF CreateTask
  <2>4. CASE run[r].branch = "run"
    <3> DEFINE d == [run[r] EXCEPT !.pc = "accept", !.task = t, !.budget = counted]
    <3>1. /\ budgets' = [budgets EXCEPT ![run[r].goal] = counted]
          /\ run' = [run EXCEPT ![r].pc = "accept", ![r].task = t, ![r].budget = counted]
      BY <1>3, <2>4 DEF CreateTask, SaveBudget
    <3> HIDE DEF t, counted
    <3>2. /\ d \in LiveRun /\ d.pc = "accept" /\ d.budget = counted /\ d.task = t
          /\ d.proc = run[r].proc /\ d.goal = run[r].goal /\ d.resumed = run[r].resumed
      BY <1>1, <2>1, <2>2 DEF LiveRun, RunPc
    <3>3. run' = [run EXCEPT ![r] = d]
      <4>1. run' = [run EXCEPT ![r] = [[[run[r] EXCEPT !.pc = "accept"] EXCEPT !.task = t]
                                          EXCEPT !.budget = counted]]
        BY <1>1, <3>1 DEF GoalTypeOK
      <4> QED BY <4>1
    <3> HIDE DEF d
    <3>4. Becomes(r, d)
      BY <3>2, <3>3 DEF Becomes
    <3>5. TaskMade(r, d)
      BY <2>2, <2>3, <3>1, <3>2 DEF TaskMade
    <3> QED BY <1>0, <3>4, <3>5 DEF RunGoesOn
  <2>5. CASE run[r].branch # "run"
    <3> DEFINE d == [run[r] EXCEPT !.pc = "accept", !.task = t]
    <3>1. /\ UNCHANGED budgets
          /\ run' = [run EXCEPT ![r].pc = "accept", ![r].task = t]
      BY <1>3, <2>5 DEF CreateTask
    <3> HIDE DEF t, counted
    <3>2. /\ d \in LiveRun /\ d.pc = "accept" /\ d.budget = run[r].budget /\ d.task = t
          /\ d.proc = run[r].proc /\ d.goal = run[r].goal /\ d.resumed = run[r].resumed
      BY <1>1, <2>1 DEF LiveRun, RunPc
    <3>3. run' = [run EXCEPT ![r] = d]
      <4>1. run' = [run EXCEPT ![r] = [[run[r] EXCEPT !.pc = "accept"] EXCEPT !.task = t]]
        BY <1>1, <3>1 DEF GoalTypeOK
      <4> QED BY <4>1
    <3> HIDE DEF d
    <3>4. Becomes(r, d)
      BY <3>2, <3>3 DEF Becomes
    <3>5. TaskMade(r, d)
      BY <2>3, <3>1, <3>2 DEF TaskMade
    <3> QED BY <1>0, <3>4, <3>5 DEF RunGoesOn
  <2> QED BY <2>4, <2>5
<1>4. CASE CheckAndCount(r)
  <2> DEFINE counted == [run[r].budget EXCEPT !.tried = @ \cup {run[r].task}]
  <2>1. run[r].pc = "check" /\ UNCHANGED <<tasks, lease, executed>>
    BY <1>4 DEF CheckAndCount
  <2>2. CASE /\ UNCHANGED budgets
             /\ \E final \in {"budget-exceeded", "blocked"} :
                  run' = [run EXCEPT ![r].pc = "stop", ![r].final = final]
    <3>1. PICK d : Becomes(r, d) /\ d.pc = "stop" /\ Same(r, d)
      BY <1>0, <2>2, ReportMeans DEF Same
    <3> QED BY <1>0, <2>1, <2>2, <3>1 DEF RunGoesOn, AttemptCounted, Same
  <2>3. CASE /\ run' = [run EXCEPT ![r].pc = "assign", ![r].budget = counted]
             /\ budgets' = [budgets EXCEPT ![run[r].goal] = counted]
    <3> DEFINE d == [run[r] EXCEPT !.pc = "assign", !.budget = counted]
    <3>1. counted \in Budget /\ counted.tried = run[r].budget.tried \cup {run[r].task}
      BY <1>2 DEF Budget
    <3> HIDE DEF counted
    <3>2. /\ d \in LiveRun /\ d.pc = "assign" /\ d.budget = counted /\ d.task = run[r].task
          /\ d.proc = run[r].proc /\ d.goal = run[r].goal /\ d.resumed = run[r].resumed
      BY <1>1, <3>1 DEF LiveRun, RunPc
    <3>3. run' = [run EXCEPT ![r] = d]
      <4>1. run' = [run EXCEPT ![r] = [[run[r] EXCEPT !.pc = "assign"] EXCEPT !.budget = counted]]
        BY <1>1, <2>3 DEF GoalTypeOK
      <4> QED BY <4>1
    <3> HIDE DEF d
    <3>4. Becomes(r, d)
      BY <3>2, <3>3 DEF Becomes
    <3>5. AttemptCounted(r, d)
      BY <2>1, <2>3, <3>1, <3>2 DEF AttemptCounted
    <3> QED BY <1>0, <3>4, <3>5 DEF RunGoesOn
  <2>4. <2>2!1 \/ <2>3!1
    <3> DEFINE b == run[r].budget
               t == run[r].task
    <3>1. PICK late \in BOOLEAN :
         CASE Exceeded(b, t, late) ->
                run' = [run EXCEPT ![r].pc = "stop", ![r].final = "budget-exceeded"]
                /\ UNCHANGED budgets
           [] ~Exceeded(b, t, late) /\ t \in b.tried ->
                run' = [run EXCEPT ![r].pc = "stop", ![r].final = "blocked"]
                /\ UNCHANGED budgets
           [] OTHER ->
                run' = [run EXCEPT ![r].pc = "assign", ![r].budget = counted]
                /\ SaveBudget(r, counted)
      BY <1>4 DEF CheckAndCount
    <3> HIDE DEF counted, b, t
    <3> QED BY <3>1 DEF SaveBudget
  <2> QED BY <2>2, <2>3, <2>4
<1>5. CASE Execute(r)
  <2>1. PICK d : Becomes(r, d) /\ d.pc \in {"submit", "report"} /\ Same(r, d)
    <3>1. Goto(r, "submit") \/ Report(r, "failed")
      BY <1>5 DEF Execute
    <3>2. CASE Goto(r, "submit")
      BY <1>0, <3>2, GotoMeans DEF RunPc, Same
    <3>3. CASE Report(r, "failed")
      BY <1>0, <3>3, ReportMeans DEF Report, Same
    <3> QED BY <3>1, <3>2, <3>3
  <2> QED BY <1>0, <1>5, <2>1 DEF RunGoesOn, Executed, Execute
<1>6. CASE EndRun(r)
  <2>1. PICK status \in {"completed", "escalated", "failed", "threw"} :
          run' = [run EXCEPT ![r] = Over(run[r], "done", status)]
    BY <1>6 DEF EndRun, Update, StatusOf
  <2>2. Ends(r)
    BY <1>0, <2>1, OverMeans DEF Ends
  <2> QED BY <1>0, <1>6, <2>2 DEF EndRun, RunEnded
<1> QED BY <1>3, <1>4, <1>5, <1>6

\* A step that moves the task r has.
LEMMA MoveSteps ==
    ASSUME GoalTypeOK, NEW r \in Run, tasks[run[r].task] \in Status,
           \/ Accept(r) \/ Planned(r) \/ Halt(r) \/ Stop(r)
           \/ AssignHand(r) \/ SubmitReceipt(r) \/ VerifyAndTransition(r) \/ AbortHandTask(r)
    PROVE  Live(r) /\ alive' = alive /\ \E d : RunGoesOn(r, d)
<1>0. /\ Live(r) /\ alive' = alive /\ UNCHANGED <<budgets, lease, executed>>
      /\ run[r].pc \in {"accept", "planned", "halt", "stop", "assign", "submit", "verify", "abort"}
  BY DEF Accept, Planned, Halt, Stop, AssignHand, SubmitReceipt, VerifyAndTransition,
         AbortHandTask, Live, Ended, MoveOrThrow, MoveOrFail, Report
<1>1. run[r] \in LiveRun
  BY <1>0, RunKinds
<1>2. ASSUME NEW to \in Status \ {"proposed"}, NEW next,
             LegalEdge(tasks[run[r].task], to, "goal-runner"),
             tasks' = [tasks EXCEPT ![run[r].task] = to],
             run' = [run EXCEPT ![r] = next],
             next \in LiveRun, Same(r, next),
             next.proc = run[r].proc, next.goal = run[r].goal, next.resumed = run[r].resumed,
             to = "accepted" <=> run[r].pc = "accept",
             to = "planned" <=> run[r].pc = "planned",
             to = "delegated" <=> run[r].pc = "assign",
             next.pc = "planned" => run[r].pc = "accept",
             next.pc = "execute" => run[r].pc = "assign",
             next.pc \in {"planned", "halt", "check", "execute", "abort", "submit", "verify", "report"}
      PROVE  \E d : RunGoesOn(r, d)
  <2>1. Becomes(r, next)
    BY <1>2 DEF Becomes
  <2>2. TaskMoved(r, next)
    BY <1>0, <1>2 DEF TaskMoved
  <2> QED BY <2>1, <2>2 DEF RunGoesOn
<1>3. ASSUME UNCHANGED tasks, Goto(r, "threw") \/ Report(r, "failed")
      PROVE  \E d : RunGoesOn(r, d)
  <2>1. PICK d : Becomes(r, d) /\ d.pc \in {"threw", "report"} /\ Same(r, d)
    <3>1. CASE Goto(r, "threw")
      BY <1>0, <3>1, GotoMeans DEF RunPc, Same
    <3>2. CASE Report(r, "failed")
      BY <1>0, <3>2, ReportMeans DEF Report, Same
    <3> QED BY <1>3, <3>1, <3>2
  <2> QED BY <1>0, <1>3, <2>1 DEF RunGoesOn, TaskMoved
\* What a record of a live run becomes with another place, and another verdict.
<1>4. ASSUME NEW pc \in RunPc,
             NEW final \in {"none", "verified", "rejected", "escalated", "blocked", "failed",
                            "budget-exceeded"}
      PROVE  LET d == [run[r] EXCEPT !.pc = pc]
                 e == [run[r] EXCEPT !.pc = pc, !.final = final]
             IN  /\ d \in LiveRun /\ Same(r, d) /\ d.pc = pc
                 /\ d.proc = run[r].proc /\ d.goal = run[r].goal /\ d.resumed = run[r].resumed
                 /\ e \in LiveRun /\ Same(r, e) /\ e.pc = pc
                 /\ e.proc = run[r].proc /\ e.goal = run[r].goal /\ e.resumed = run[r].resumed
  BY <1>1 DEF LiveRun, Same
<1>5. CASE Accept(r)
  <2> DEFINE pc == IF run[r].branch = "run" THEN "planned" ELSE "halt"
             d == [run[r] EXCEPT !.pc = pc]
  <2>1. /\ run[r].pc = "accept"
        /\ MoveOrThrow(r, "accepted", [run[r] EXCEPT !.pc = IF @ = "accept" /\ run[r].branch = "run"
                                                            THEN "planned" ELSE "halt"])
    BY <1>5 DEF Accept
  <2>2. MoveOrThrow(r, "accepted", d)
    BY <2>1
  <2>3. /\ d \in LiveRun /\ Same(r, d) /\ d.pc = pc
        /\ d.proc = run[r].proc /\ d.goal = run[r].goal /\ d.resumed = run[r].resumed
    BY <1>4 DEF RunPc
  <2> HIDE DEF d
  <2> QED BY <1>0, <1>2, <1>3, <2>1, <2>2, <2>3 DEF MoveOrThrow, Status
<1>6. CASE Planned(r)
  <2> DEFINE d == [run[r] EXCEPT !.pc = "check"]
  <2>1. run[r].pc = "planned" /\ MoveOrThrow(r, "planned", d)
    BY <1>6 DEF Planned
  <2>2. /\ d \in LiveRun /\ Same(r, d) /\ d.pc = "check"
        /\ d.proc = run[r].proc /\ d.goal = run[r].goal /\ d.resumed = run[r].resumed
    BY <1>4 DEF RunPc
  <2> HIDE DEF d
  <2> QED BY <1>0, <1>2, <1>3, <2>1, <2>2 DEF MoveOrThrow, Status
<1>7. CASE Halt(r)
  <2> DEFINE final == IF run[r].branch = "paused" THEN "blocked" ELSE "escalated"
             d == [run[r] EXCEPT !.pc = "report", !.final = final]
  <2>1. run[r].pc = "halt" /\ MoveOrThrow(r, "escalated", d)
    BY <1>7 DEF Halt
  <2>2. /\ d \in LiveRun /\ Same(r, d) /\ d.pc = "report"
        /\ d.proc = run[r].proc /\ d.goal = run[r].goal /\ d.resumed = run[r].resumed
    <3>1. /\ final \in {"none", "verified", "rejected", "escalated", "blocked", "failed",
                        "budget-exceeded"}
          /\ "report" \in RunPc
      BY DEF RunPc
    <3> HIDE DEF final
    <3> QED BY <1>4, <3>1, Zenon
  <2> HIDE DEF d
  <2> QED BY <1>0, <1>2, <1>3, <2>1, <2>2 DEF MoveOrThrow, Status
<1>8. CASE Stop(r)
  <2> DEFINE d == [run[r] EXCEPT !.pc = "report"]
  <2>1. run[r].pc = "stop" /\ MoveOrThrow(r, "escalated", d)
    BY <1>8 DEF Stop
  <2>2. /\ d \in LiveRun /\ Same(r, d) /\ d.pc = "report"
        /\ d.proc = run[r].proc /\ d.goal = run[r].goal /\ d.resumed = run[r].resumed
    BY <1>4 DEF RunPc
  <2> HIDE DEF d
  <2> QED BY <1>0, <1>2, <1>3, <2>1, <2>2 DEF MoveOrThrow, Status
<1>9. CASE AssignHand(r)
  <2> DEFINE pc == IF run[r].plan = "browser" THEN "execute" ELSE "abort"
             d == [run[r] EXCEPT !.pc = pc]
  <2>1. run[r].pc = "assign" /\ MoveOrFail(r, "delegated", d)
    BY <1>9 DEF AssignHand
  <2>2. /\ d \in LiveRun /\ Same(r, d) /\ d.pc = pc
        /\ d.proc = run[r].proc /\ d.goal = run[r].goal /\ d.resumed = run[r].resumed
    BY <1>4 DEF RunPc
  <2> HIDE DEF d
  <2> QED BY <1>0, <1>2, <1>3, <2>1, <2>2 DEF MoveOrFail, Status
<1>10. CASE SubmitReceipt(r)
  <2> DEFINE d == [run[r] EXCEPT !.pc = "verify"]
  <2>1. run[r].pc = "submit"
        /\ (MoveOrFail(r, "in-progress", run[r]) \/ MoveOrFail(r, "evidence-submitted", d))
    BY <1>10 DEF SubmitReceipt
  <2>2. /\ d \in LiveRun /\ Same(r, d) /\ d.pc = "verify"
        /\ d.proc = run[r].proc /\ d.goal = run[r].goal /\ d.resumed = run[r].resumed
    BY <1>4 DEF RunPc
  <2> HIDE DEF d
  <2>3. Same(r, run[r])
    BY DEF Same
  <2> QED BY <1>0, <1>1, <1>2, <1>3, <2>1, <2>2, <2>3 DEF MoveOrFail, Status
<1>11. CASE VerifyAndTransition(r)
  <2>1. PICK verdict \in FinalStatus :
         IF tasks[run[r].task] = "evidence-submitted"
         THEN MoveOrFail(r, verdict, [run[r] EXCEPT !.pc = "report", !.final = verdict])
         ELSE Report(r, "failed") /\ UNCHANGED <<tasks, budgets, lease, alive, executed>>
    BY <1>11 DEF VerifyAndTransition
  <2> DEFINE d == [run[r] EXCEPT !.pc = "report", !.final = verdict]
  <2>2. run[r].pc = "verify" /\ verdict \in {"verified", "rejected"}
    BY <1>11 DEF VerifyAndTransition, FinalStatus
  <2>3. /\ d \in LiveRun /\ Same(r, d) /\ d.pc = "report"
        /\ d.proc = run[r].proc /\ d.goal = run[r].goal /\ d.resumed = run[r].resumed
    <3>1. /\ verdict \in {"none", "verified", "rejected", "escalated", "blocked", "failed",
                          "budget-exceeded"}
          /\ "report" \in RunPc
      BY <2>2 DEF RunPc
    <3> QED BY <1>4, <3>1, Zenon
  <2>4. MoveOrFail(r, verdict, d) \/ (Report(r, "failed") /\ UNCHANGED tasks)
    BY <2>1
  <2> HIDE DEF d
  <2> QED BY <1>0, <1>2, <1>3, <2>2, <2>3, <2>4 DEF MoveOrFail, Status
<1>12. CASE AbortHandTask(r)
  <2> DEFINE d == [run[r] EXCEPT !.pc = "report", !.final = "blocked"]
  <2>1. run[r].pc = "abort" /\ MoveOrFail(r, "blocked", d)
    BY <1>12 DEF AbortHandTask
  <2>2. /\ d \in LiveRun /\ Same(r, d) /\ d.pc = "report"
        /\ d.proc = run[r].proc /\ d.goal = run[r].goal /\ d.resumed = run[r].resumed
    BY <1>4 DEF RunPc
  <2> HIDE DEF d
  <2> QED BY <1>0, <1>2, <1>3, <2>1, <2>2 DEF MoveOrFail, Status
<1> QED BY <1>0, <1>5, <1>6, <1>7, <1>8, <1>9, <1>10, <1>11, <1>12

-----------------------------------------------------------------------------
(* Goals: all steps *)

\* A run that begins, fresh ...
Begins(r, d) ==
    /\ run[r] = NoRun /\ MayBegin
    /\ d \in LiveRun /\ d.pc = "lease" /\ d.task = d.goal /\ d.proc \in alive
    /\ run' = [run EXCEPT ![r] = d]
    /\ UNCHANGED <<tasks, budgets, lease, alive, executed>>

Fresh(r, d) == d.goal = r /\ ~d.resumed

\* ... or resumed, or not resumed for want of a budget.
Resumed(r, d) ==
    /\ run[d.goal] # NoRun /\ run[d.goal].goal = d.goal
    /\ d.resumed
    /\ ResumeLive \/ \A q \in Run : Live(q) => run[q].goal # d.goal
    /\ budgets[d.goal] # NoBudget /\ d.budget.tried = budgets[d.goal].tried

Refused(r) ==
    /\ run[r] = NoRun
    /\ \E d \in OverRun : /\ run' = [run EXCEPT ![r] = d]
                          /\ run[d.goal] # NoRun /\ run[d.goal].goal = d.goal
    /\ UNCHANGED <<tasks, budgets, lease, alive, executed>>

GoalStep ==
    \/ \E r \in Run : \E d : Begins(r, d) /\ (Fresh(r, d) \/ Resumed(r, d))
    \/ \E r \in Run : Refused(r)
    \/ \E r \in Run : Live(r) /\ alive' = alive /\ (RunEnded(r) \/ \E d : RunGoesOn(r, d))
    \/ \E p \in Proc : KillProcess(p)
    \/ \E g \in Run, to \in Status : CeoMove(g, to)
    \/ UNCHANGED goalVars

\* The places at which a run has its task, and before it has.
AtTask == {"accept", "planned", "halt", "check", "stop", "assign", "execute", "submit",
           "verify", "abort"}
BeforeTask == {"lease", "claim", "budget", "plan", "create"}

\* What holds whatever is started and resumed when.
BaseInv ==
    /\ GoalTypeOK
    /\ \A r \in Run : run[r].pc \in AtTask => tasks[run[r].task] # NoTask
    /\ \A r \in Run : run[r].pc \in BeforeTask => run[r].task = run[r].goal
    /\ \A r \in Run : run[r] # NoRun =>
         run[run[r].goal] # NoRun /\ run[run[r].goal].goal = run[r].goal

LEMMA GoalStepIs ==
    ASSUME BaseInv,
           \/ \E r \in Run, p \in Proc, plan \in Plan, limits \in Limits : Start(r, p, plan, limits)
           \/ \E r \in Run, p \in Proc, g \in Run, limits \in Limits : Resume(r, p, g, limits)
           \/ \E r \in Run : RunStep(r)
           \/ \E p \in Proc : KillProcess(p)
           \/ \E g \in Run, to \in Status : CeoMove(g, to)
           \/ UNCHANGED goalVars
    PROVE  GoalStep
<1>0. GoalTypeOK
  BY DEF BaseInv
<1>1. ASSUME NEW r \in Run, NEW p \in Proc, NEW plan \in Plan, NEW limits \in Limits,
             Start(r, p, plan, limits)
      PROVE  GoalStep
  <2> DEFINE b == [tried |-> {}, created |-> 1, limits |-> limits]
             d == NewRun(r, p, r, plan, FALSE, b)
  <2>1. b \in Budget
    BY DEF Budget
  <2>2. /\ run[r] = NoRun /\ MayBegin /\ p \in alive
        /\ run' = [run EXCEPT ![r] = d]
        /\ UNCHANGED <<tasks, budgets, lease, alive, executed>>
    BY <1>1 DEF Start, Update
  <2> HIDE DEF b
  <2>3. /\ d \in LiveRun /\ d.pc = "lease" /\ d.goal = r /\ d.task = r /\ d.proc = p
        /\ ~d.resumed
    <3>1. d = [pc |-> "lease", proc |-> p, goal |-> r, plan |-> plan, resumed |-> FALSE,
               budget |-> b, task |-> r, branch |-> "run", final |-> "none"]
      BY DEF NewRun
    <3>2. FALSE \in BOOLEAN
      OBVIOUS
    <3> HIDE DEF d
    <3>3. d \in LiveRun
      BY <2>1, <3>1, <3>2 DEF LiveRun, RunPc
    <3>4. ~d.resumed
      BY <3>1
    <3> QED BY <3>1, <3>3, <3>4
  <2> HIDE DEF d
  <2> QED BY <2>2, <2>3 DEF GoalStep, Begins, Fresh
<1>2. ASSUME NEW r \in Run, NEW p \in Proc, NEW g \in Run, NEW limits \in Limits,
             Resume(r, p, g, limits)
      PROVE  GoalStep
  <2>1. /\ run[r] = NoRun /\ MayBegin /\ p \in alive /\ run[g] # NoRun /\ run[g].goal = g
        /\ ResumeLive \/ \A q \in Run : Live(q) => run[q].goal # g
        /\ UNCHANGED <<tasks, budgets, lease, alive, executed>>
    BY <1>2 DEF Resume
  <2>2. run[g].plan \in Plan
    BY <1>0, <2>1, RunKinds DEF LiveRun, OverRun
  <2>3. CASE budgets[g] = NoBudget
    <3> DEFINE d == [pc |-> "done", proc |-> p, goal |-> g, plan |-> run[g].plan,
                     status |-> "failed"]
    <3>1. run' = [run EXCEPT ![r] = d]
      BY <1>2, <2>3 DEF Resume, Update
    <3>2. d \in OverRun /\ d.goal = g
      BY <2>2 DEF OverRun
    <3> HIDE DEF d
    <3> QED BY <2>1, <3>1, <3>2 DEF GoalStep, Refused
  <2>4. CASE budgets[g] # NoBudget
    <3> DEFINE b == [budgets[g] EXCEPT !.limits = limits]
               d == NewRun(r, p, g, run[g].plan, TRUE, b)
    <3>1. b \in Budget /\ b.tried = budgets[g].tried
      BY <1>0, <2>4 DEF Budget, GoalTypeOK
    <3>2. run' = [run EXCEPT ![r] = d]
      BY <1>2, <2>4 DEF Resume, Update
    <3> HIDE DEF b
    <3>3. /\ d \in LiveRun /\ d.pc = "lease" /\ d.goal = g /\ d.task = g /\ d.proc = p
          /\ d.resumed /\ d.budget = b
      <4>1. d = [pc |-> "lease", proc |-> p, goal |-> g, plan |-> run[g].plan, resumed |-> TRUE,
                 budget |-> b, task |-> g, branch |-> "run", final |-> "none"]
        BY DEF NewRun
      <4>2. TRUE \in BOOLEAN
        OBVIOUS
      <4> HIDE DEF d
      <4>3. d \in LiveRun
        BY <2>2, <3>1, <4>1, <4>2 DEF LiveRun, RunPc
      <4>4. d.resumed
        BY <4>1
      <4> QED BY <4>1, <4>3, <4>4
    <3> HIDE DEF d
    <3> QED BY <2>1, <2>4, <3>1, <3>2, <3>3 DEF GoalStep, Begins, Resumed
  <2> QED BY <2>3, <2>4
<1>3. ASSUME NEW r \in Run, RunStep(r) PROVE GoalStep
  <2>1. CASE ReadLease(r) \/ ClaimLease(r) \/ CreateBudget(r) \/ TakePlan(r)
    BY <1>0, <2>1, EarlySteps DEF GoalStep
  <2>2. CASE CreateTask(r) \/ CheckAndCount(r) \/ Execute(r) \/ EndRun(r)
    BY <1>0, <2>2, TaskSteps DEF GoalStep
  <2>3. CASE \/ Accept(r) \/ Planned(r) \/ Halt(r) \/ Stop(r)
             \/ AssignHand(r) \/ SubmitReceipt(r) \/ VerifyAndTransition(r) \/ AbortHandTask(r)
    <3>1. run[r].pc \in AtTask
      BY <2>3 DEF Accept, Planned, Halt, Stop, AssignHand, SubmitReceipt, VerifyAndTransition,
                  AbortHandTask, AtTask
    <3>2. run[r].task \in Run
      BY <1>0, <3>1, RunKinds, LiveFields DEF AtTask, Live, Ended
    <3>3. tasks[run[r].task] \in Status
      BY <1>0, <3>1, <3>2 DEF BaseInv, GoalTypeOK
    <3> QED BY <1>0, <2>3, <3>3, MoveSteps DEF GoalStep
  <2> QED BY <1>3, <2>1, <2>2, <2>3 DEF RunStep
<1> QED BY <1>1, <1>2, <1>3 DEF GoalStep

\* A run that began keeps its process and its goal.
RunsKept ==
    \A q \in Run : run[q] # NoRun =>
        run'[q] # NoRun /\ run'[q].proc = run[q].proc /\ run'[q].goal = run[q].goal

LEMMA KillMeans ==
    ASSUME GoalTypeOK, NEW p \in Proc, KillProcess(p)
    PROVE  /\ run' \in [Run -> RunState \cup {NoRun}]
           /\ RunsKept
           /\ \A q \in Run : \/ run'[q] = run[q] /\ (Live(q) => run[q].proc # p)
                             \/ Live(q) /\ run'[q].pc = "dead" /\ run[q].proc = p
<1> DEFINE over(q) == Over(run[q], "dead", "none")
<1>1. \A q \in Run : run'[q] = IF Live(q) /\ run[q].proc = p THEN over(q) ELSE run[q]
  BY DEF KillProcess
<1>2. ASSUME NEW q \in Run, Live(q)
      PROVE  /\ over(q) \in RunState /\ over(q).pc = "dead"
             /\ over(q).proc = run[q].proc /\ over(q).goal = run[q].goal
  <2>1. over(q) \in OverRun
    BY <1>2, OverMeans
  <2>2. over(q) \in RunState
    BY <2>1 DEF OverRun, RunState
  <2>3. over(q).pc = "dead"
    BY DEF Over
  <2> QED BY <1>2, <2>2, <2>3, OverMeans
<1>3. \A q \in Run : ~Live(q) \/ run[q].proc # p => run'[q] = run[q]
  BY <1>1
<1>4. \A q \in Run : Live(q) /\ run[q].proc = p => run'[q] = over(q)
  BY <1>1
<1> HIDE DEF over
<1>5. run' \in [Run -> RunState \cup {NoRun}]
  <2>1. \A q \in Run : run'[q] \in RunState \cup {NoRun}
    BY <1>2, <1>3, <1>4 DEF GoalTypeOK
  <2>2. run' = [q \in Run |-> run'[q]]
    BY DEF KillProcess
  <2> QED BY <2>1, <2>2
<1>6. RunsKept
  <2>1. NoRun.pc = "off"
    BY DEF NoRun
  <2> QED BY <1>2, <1>3, <1>4, <2>1 DEF RunsKept
<1> QED BY <1>2, <1>3, <1>4, <1>5, <1>6

LEMMA NoBudgetIsNone == \A b \in Budget : b # NoBudget
<1>1. \A b \in Budget : DOMAIN b = {"tried", "created", "limits"}
  BY DEF Budget
<1>2. DOMAIN NoBudget = {"none"}
  BY DEF NoBudget
<1> QED BY <1>1, <1>2

LEMMA GoalTypeNext ==
    ASSUME GoalTypeOK, GoalStep
    PROVE  GoalTypeOK' /\ RunsKept
<1>1. ASSUME UNCHANGED <<tasks, budgets, lease, alive, executed>>, NEW r \in Run, run[r] = NoRun,
             NEW d \in RunState, run' = [run EXCEPT ![r] = d]
      PROVE  GoalTypeOK' /\ RunsKept
  BY <1>1 DEF GoalTypeOK, RunsKept
<1>2. ASSUME NEW r \in Run, NEW d, Begins(r, d) PROVE GoalTypeOK' /\ RunsKept
  BY <1>1, <1>2 DEF Begins, LiveRun, RunState
<1>3. ASSUME NEW r \in Run, Refused(r) PROVE GoalTypeOK' /\ RunsKept
  BY <1>1, <1>3 DEF Refused, OverRun, RunState
<1>4. ASSUME NEW r \in Run, Live(r), alive' = alive, RunEnded(r) PROVE GoalTypeOK' /\ RunsKept
  <2>1. UNCHANGED <<tasks, budgets, executed>> /\ lease' \in {lease, NoLease} /\ Ends(r)
    BY <1>4 DEF RunEnded
  <2> QED BY <1>4, <2>1, EndsType DEF GoalTypeOK, RunsKept
<1>5. ASSUME NEW r \in Run, Live(r), alive' = alive, NEW d, RunGoesOn(r, d)
      PROVE  GoalTypeOK' /\ RunsKept
  <2>1. Becomes(r, d) /\ run[r] \in LiveRun
    BY <1>5, RunKinds DEF RunGoesOn
  <2>2. RunsKept /\ run' \in [Run -> RunState \cup {NoRun}]
    <3>1. d # NoRun
      BY <2>1 DEF Becomes, LiveRun, NoRun, RunPc
    <3> QED BY <2>1, <3>1, BecomesType DEF RunsKept, Becomes
  <2>3. d.budget \in Budget /\ run[r].goal \in Run /\ run[r].task \in Run /\ run[r].proc \in Proc
        /\ d.task \in Run
    BY <2>1, LiveFields DEF Becomes
  <2>4. tasks' \in [Run -> Status \cup {NoTask}]
    BY <1>5, <2>3 DEF RunGoesOn, GoalTypeOK, LeaseRead, LeaseClaimed, BudgetMade, PlanTaken,
                      TaskMade, AttemptCounted, Executed, TaskMoved, Status
  <2>5. budgets' \in [Run -> Budget \cup {NoBudget}]
    BY <1>5, <2>3 DEF RunGoesOn, GoalTypeOK, LeaseRead, LeaseClaimed, BudgetMade, PlanTaken,
                      TaskMade, AttemptCounted, Executed, TaskMoved
  <2>6. lease' \in [goal : Run, proc : Proc] \cup {NoLease}
    BY <1>5, <2>3 DEF RunGoesOn, GoalTypeOK, LeaseRead, LeaseClaimed, BudgetMade, PlanTaken,
                      TaskMade, AttemptCounted, Executed, TaskMoved
  <2>7. executed' \in [Run -> Nat]
    BY <1>5, <2>3 DEF RunGoesOn, GoalTypeOK, LeaseRead, LeaseClaimed, BudgetMade, PlanTaken,
                      TaskMade, AttemptCounted, Executed, TaskMoved
  <2> QED BY <1>5, <2>2, <2>4, <2>5, <2>6, <2>7 DEF GoalTypeOK
<1>6. ASSUME NEW p \in Proc, KillProcess(p) PROVE GoalTypeOK' /\ RunsKept
  BY <1>6, KillMeans DEF KillProcess, GoalTypeOK
<1>7. ASSUME NEW g \in Run, NEW to \in Status, CeoMove(g, to) PROVE GoalTypeOK' /\ RunsKept
  BY <1>7 DEF CeoMove, GoalTypeOK, RunsKept
<1>8. CASE UNCHANGED goalVars
  BY <1>8 DEF goalVars, GoalTypeOK, RunsKept
<1> QED BY <1>2, <1>3, <1>4, <1>5, <1>6, <1>7, <1>8 DEF GoalStep

LEMMA BaseInvInit == GoalInit => BaseInv
<1> SUFFICES ASSUME GoalInit PROVE BaseInv
  OBVIOUS
<1>1. \A r \in Run : run[r] = NoRun /\ run[r].pc = "off"
  BY DEF GoalInit, NoRun
<1>2. GoalTypeOK
  BY DEF GoalInit, GoalTypeOK
<1> QED BY <1>1, <1>2 DEF BaseInv, AtTask, BeforeTask

\* A task once made is never unmade.
LEMMA TasksStay ==
    ASSUME GoalTypeOK, GoalStep, NEW t \in Run, tasks[t] # NoTask
    PROVE  tasks'[t] # NoTask
<1>1. ASSUME NEW r \in Run, NEW d, RunGoesOn(r, d) PROVE tasks'[t] # NoTask
  BY <1>1 DEF RunGoesOn, GoalTypeOK, LeaseRead, LeaseClaimed, BudgetMade, PlanTaken,
              TaskMade, AttemptCounted, Executed, TaskMoved, Status, NoTask
<1>2. ASSUME NEW g \in Run, NEW to \in Status, CeoMove(g, to) PROVE tasks'[t] # NoTask
  BY <1>2 DEF CeoMove, GoalTypeOK, Status, NoTask
<1> QED BY <1>1, <1>2 DEF GoalStep, Begins, Refused, RunEnded, KillProcess, goalVars

LEMMA BaseInvNext ==
    ASSUME BaseInv, GoalStep
    PROVE  BaseInv'
<1>0. GoalTypeOK /\ GoalTypeOK' /\ RunsKept
  BY GoalTypeNext DEF BaseInv
<1>1. \A r \in Run : Live(r) => run[r].task \in Run /\ run[r] # NoRun
  BY <1>0, RunKinds, LiveFields
<1>2. \A r \in Run : run[r].pc \in AtTask \cup BeforeTask => Live(r)
  BY DEF AtTask, BeforeTask, Live, Ended
\* A run that stands still keeps what it has.
<1>3. ASSUME NEW r \in Run, run'[r] = run[r]
      PROVE  /\ run'[r].pc \in AtTask => tasks'[run'[r].task] # NoTask
             /\ run'[r].pc \in BeforeTask => run'[r].task = run'[r].goal
  BY <1>0, <1>1, <1>2, <1>3, TasksStay DEF BaseInv
<1>4. ASSUME NEW r \in Run, run'[r].pc \in Ended
      PROVE  run'[r].pc \notin AtTask \cup BeforeTask
  BY <1>4 DEF AtTask, BeforeTask, Ended
<1>5. \A r \in Run : run'[r] # NoRun =>
        run'[run'[r].goal] # NoRun /\ run'[run'[r].goal].goal = run'[r].goal
  <2>1. ASSUME NEW r \in Run, run[r] # NoRun
        PROVE  run'[run'[r].goal] # NoRun /\ run'[run'[r].goal].goal = run'[r].goal
    <3>1. run[run[r].goal] # NoRun /\ run[run[r].goal].goal = run[r].goal
      BY <2>1 DEF BaseInv
    <3>2. run[r].goal \in Run
      BY <1>0, <2>1, RunKinds DEF LiveRun, OverRun
    <3> QED BY <1>0, <2>1, <3>1, <3>2 DEF RunsKept
  <2>2. ASSUME NEW r \in Run, run[r] = NoRun, run'[r] # NoRun
        PROVE  run'[run'[r].goal] # NoRun /\ run'[run'[r].goal].goal = run'[r].goal
    <3>1. ASSUME NEW d, run' = [run EXCEPT ![r] = d], d.goal \in Run,
                 d.goal = r \/ (run[d.goal] # NoRun /\ run[d.goal].goal = d.goal)
          PROVE  run'[run'[r].goal] # NoRun /\ run'[run'[r].goal].goal = run'[r].goal
      <4>1. run'[r] = d
        BY <1>0, <3>1 DEF GoalTypeOK
      <4> QED BY <1>0, <2>2, <3>1, <4>1 DEF RunsKept
    <3>2. ASSUME NEW q \in Run, NEW d, run' = [run EXCEPT ![q] = d] PROVE q = r /\ run'[r] = d
      BY <1>0, <2>2, <3>2 DEF GoalTypeOK
    <3>3. ASSUME NEW q \in Run, NEW d, Begins(q, d), Fresh(q, d) \/ Resumed(q, d)
          PROVE  run'[run'[r].goal] # NoRun /\ run'[run'[r].goal].goal = run'[r].goal
      BY <3>1, <3>2, <3>3, LiveFields DEF Begins, Fresh, Resumed
    <3>4. ASSUME NEW q \in Run, Refused(q)
          PROVE  run'[run'[r].goal] # NoRun /\ run'[run'[r].goal].goal = run'[r].goal
      BY <3>1, <3>2, <3>4 DEF Refused, OverRun
    <3>5. ASSUME NEW q \in Run, Live(q) PROVE q # r
      BY <1>1, <2>2, <3>5
    <3>6. ASSUME NEW q \in Run, Live(q), RunEnded(q) \/ \E d : RunGoesOn(q, d)
          PROVE  run'[r] = run[r]
      BY <1>0, <3>5, <3>6, EndsType, BecomesType DEF RunEnded, RunGoesOn
    <3>7. ASSUME NEW p \in Proc, KillProcess(p) PROVE run'[r] = run[r]
      BY <1>0, <3>5, <3>7, KillMeans
    <3>8. (\E g \in Run, to \in Status : CeoMove(g, to)) \/ UNCHANGED goalVars => run'[r] = run[r]
      BY DEF CeoMove, goalVars
    <3> QED BY <2>2, <3>3, <3>4, <3>6, <3>7, <3>8 DEF GoalStep
  <2> QED BY <2>1, <2>2
<1>6. ASSUME NEW r \in Run
      PROVE  /\ run'[r].pc \in AtTask => tasks'[run'[r].task] # NoTask
             /\ run'[r].pc \in BeforeTask => run'[r].task = run'[r].goal
  <2>1. ASSUME NEW q \in Run, NEW d, Begins(q, d)
        PROVE  (q = r /\ run'[r] = d /\ d.pc = "lease" /\ d.task = d.goal) \/ run'[r] = run[r]
    BY <1>0, <2>1 DEF Begins, GoalTypeOK
  <2>2. ASSUME NEW q \in Run, Refused(q) PROVE run'[r].pc \in Ended \/ run'[r] = run[r]
    BY <1>0, <2>2 DEF Refused, OverRun, GoalTypeOK, Ended
  <2>3. ASSUME NEW q \in Run, RunEnded(q) PROVE run'[r].pc \in Ended \/ run'[r] = run[r]
    BY <1>0, <2>3, EndsType DEF RunEnded, Ended
  <2>4. ASSUME NEW p \in Proc, KillProcess(p) PROVE run'[r].pc \in Ended \/ run'[r] = run[r]
    BY <1>0, <2>4, KillMeans DEF Ended
  <2>5. ASSUME NEW q \in Run, Live(q), NEW d, RunGoesOn(q, d), q = r
        PROVE  /\ run'[r].pc \in AtTask => tasks'[run'[r].task] # NoTask
               /\ run'[r].pc \in BeforeTask => run'[r].task = run'[r].goal
    <3>1. run'[r] = d /\ d.goal = run[r].goal /\ d \in LiveRun /\ d.task \in Run
      BY <1>0, <2>5, BecomesType, LiveFields DEF RunGoesOn, Becomes
    <3>2. CASE LeaseRead(r, d) \/ LeaseClaimed(r, d) \/ BudgetMade(r, d)
      BY <2>5, <3>1, <3>2 DEF LeaseRead, LeaseClaimed, BudgetMade, Same, BaseInv, BeforeTask, AtTask
    <3>3. CASE PlanTaken(r, d)
      <4>1. d.task = run[r].goal
        BY <3>3 DEF PlanTaken, Same, BaseInv, BeforeTask
      <4> QED BY <2>5, <3>1, <3>3, <4>1 DEF PlanTaken, AtTask, BeforeTask
    <3>4. CASE TaskMade(r, d)
      <4>1. tasks'[d.task] # NoTask
        BY <1>0, <2>5, <3>1, <3>4 DEF TaskMade, GoalTypeOK, NoTask
      <4> QED BY <3>1, <3>4, <4>1 DEF TaskMade, BeforeTask
    <3>5. CASE AttemptCounted(r, d) \/ Executed(r, d) \/ TaskMoved(r, d)
      <4>1. d.pc \notin BeforeTask /\ d.task = run[r].task /\ run[r].pc \in AtTask
        BY <3>5 DEF AttemptCounted, Executed, TaskMoved, Same, BeforeTask, AtTask
      <4>2. tasks[run[r].task] # NoTask
        BY <4>1 DEF BaseInv
      <4>3. GoalStep /\ run[r].task \in Run
        BY <1>1, <2>5
      <4>4. tasks'[d.task] # NoTask
        BY <1>0, <4>1, <4>2, <4>3, TasksStay
      <4> QED BY <3>1, <4>1, <4>4
    <3> QED BY <2>5, <3>2, <3>3, <3>4, <3>5 DEF RunGoesOn
  <2>6. ASSUME NEW q \in Run, NEW d, RunGoesOn(q, d), q # r PROVE run'[r] = run[r]
    BY <1>0, <2>6, BecomesType DEF RunGoesOn
  <2>7. (\E g \in Run, to \in Status : CeoMove(g, to)) \/ UNCHANGED goalVars => run'[r] = run[r]
    BY DEF CeoMove, goalVars
  <2>8. "lease" \notin AtTask
    BY DEF AtTask
  <2> QED BY <1>3, <1>4, <2>1, <2>2, <2>3, <2>4, <2>5, <2>6, <2>7, <2>8 DEF GoalStep
<1> QED BY <1>0, <1>5, <1>6 DEF BaseInv

-----------------------------------------------------------------------------
(* Goals: one at a time *)

Past(r) == Live(r) /\ run[r].pc \notin {"lease", "claim"}

\* Why one goal is active: whoever got past the lease holds it and is alive;
\* the live runs have goals of their own, and one at a time is at the lease.
Solo ==
    /\ \A r \in Run : Live(r) => run[r].proc \in alive
    /\ \A r, q \in Run : Live(r) /\ Live(q) /\ run[r].goal = run[q].goal => r = q
    /\ \A r, q \in Run : run[r].pc \in {"lease", "claim"} /\ run[q].pc \in {"lease", "claim"} => r = q
    /\ \A r \in Run : Past(r) => lease = [goal |-> run[r].goal, proc |-> run[r].proc]
    /\ \A r, q \in Run : run[r].pc = "claim" => ~Past(q)

LEMMA OnePast ==
    ASSUME Solo, NEW r \in Run, NEW q \in Run, Past(r), Past(q)
    PROVE  r = q
<1>1. [goal |-> run[r].goal, proc |-> run[r].proc] = [goal |-> run[q].goal, proc |-> run[q].proc]
  BY DEF Solo
<1>2. run[r].goal = run[q].goal
  BY <1>1
<1> QED BY <1>2 DEF Solo, Past

LEMMA SoloInit == GoalInit => Solo
<1> SUFFICES ASSUME GoalInit PROVE Solo
  OBVIOUS
<1>1. \A r \in Run : run[r].pc = "off"
  BY DEF GoalInit, NoRun
<1> QED BY <1>1 DEF Solo, Past, Live, Ended

LEMMA SoloNext ==
    ASSUME ~ResumeLive, BaseInv, Solo, GoalStep
    PROVE  Solo'
<1>0. GoalTypeOK
  BY DEF BaseInv
<1>1. ASSUME \A q \in Run : run'[q] = run[q] \/ ~(Live(q))',
             UNCHANGED lease, \A q \in Run : (Live(q))' => run[q].proc \in alive'
      PROVE  Solo'
  BY <1>1 DEF Solo, Past, Live, Ended
<1>2. ASSUME NEW r \in Run, NEW d, Begins(r, d), Fresh(r, d) \/ Resumed(r, d) PROVE Solo'
  <2>1. \A q \in Run : run'[q] = IF q = r THEN d ELSE run[q]
    BY <1>0, <1>2 DEF Begins, GoalTypeOK
  <2>2. \A q \in Run : run[q].pc \notin {"lease", "claim"}
    BY <1>2 DEF Begins, MayBegin
  <2>3. \A q \in Run : Live(q) => run[q].goal # d.goal
    <3>1. CASE Fresh(r, d)
      BY <1>0, <1>2, <3>1, RunKinds DEF Begins, Fresh, BaseInv
    <3>2. CASE Resumed(r, d)
      BY <3>2 DEF Resumed
    <3> QED BY <1>2, <3>1, <3>2
  <2>4. UNCHANGED <<lease, alive>> /\ d.proc \in alive /\ d.pc = "lease" /\ ~Live(r)
    BY <1>2 DEF Begins, Live, Ended, NoRun
  <2> QED BY <2>1, <2>2, <2>3, <2>4 DEF Solo, Past, Live, Ended
<1>3. ASSUME NEW r \in Run, Refused(r) PROVE Solo'
  <2>1. \A q \in Run : run'[q] = run[q] \/ run'[q].pc \in {"done", "dead"}
    BY <1>0, <1>3 DEF Refused, OverRun, GoalTypeOK
  <2>2. UNCHANGED <<lease, alive>>
    BY <1>3 DEF Refused
  <2> QED BY <1>1, <2>1, <2>2 DEF Solo, Live, Ended
<1>4. ASSUME NEW r \in Run, Live(r), alive' = alive, RunEnded(r) PROVE Solo'
  <2>1. (\A q \in Run : q # r => run'[q] = run[q]) /\ ~(Live(r))'
    BY <1>0, <1>4, EndsType DEF RunEnded, Live, Ended
  <2>2. CASE UNCHANGED lease
    BY <1>1, <1>4, <2>1, <2>2 DEF Solo, Live
  <2>3. CASE run[r].pc \in {"report", "threw"}
    <3>1. Past(r)
      BY <1>4, <2>3 DEF Past
    <3>2. \A q \in Run : q # r => ~Past(q)
      BY <3>1, OnePast
    <3>3. \A q \in Run : ~(Past(q))'
      BY <2>1, <3>2 DEF Past, Live
    <3>4. \A q \in Run : (Live(q))' => q # r /\ Live(q) /\ run'[q] = run[q]
      BY <2>1 DEF Live
    <3>5. \A q \in Run : run'[q].pc \in {"lease", "claim"} => (Live(q))'
      BY DEF Live, Ended
    <3> QED BY <1>4, <3>3, <3>4, <3>5 DEF Solo
  <2> QED BY <1>4, <2>2, <2>3 DEF RunEnded
<1>5. ASSUME NEW r \in Run, Live(r), alive' = alive, NEW d, RunGoesOn(r, d) PROVE Solo'
  <2>1. /\ \A q \in Run : run'[q] = IF q = r THEN d ELSE run[q]
        /\ d.proc = run[r].proc /\ d.goal = run[r].goal
    BY <1>0, <1>5, BecomesType DEF RunGoesOn, Becomes
  <2>2. \A q \in Run : (Live(q))' => Live(q)
    BY <1>5, <2>1 DEF Live
  <2>3. /\ \A q \in Run : (Live(q))' => run'[q].proc \in alive'
        /\ \A p, q \in Run : (Live(p))' /\ (Live(q))' /\ run'[p].goal = run'[q].goal => p = q
    BY <1>5, <2>1, <2>2 DEF Solo
  <2>4. CASE LeaseRead(r, d)
    <3>1. \A q \in Run : ~Past(q)
      <4> SUFFICES ASSUME NEW q \in Run, Past(q) PROVE FALSE
        OBVIOUS
      <4>1. lease = [goal |-> run[q].goal, proc |-> run[q].proc] /\ run[q].proc \in alive /\ q # r
        BY <2>4 DEF Solo, Past, LeaseRead
      <4>2. lease # NoLease
        BY <4>1 DEF NoLease
      <4>3. lease.goal = run[q].goal /\ lease.proc = run[q].proc
        BY <4>1
      <4>4. run[q].goal = run[r].goal
        BY <2>4, <4>1, <4>2, <4>3 DEF LeaseRead
      <4> QED BY <1>5, <4>1, <4>4 DEF Solo, Past
    <3> QED BY <2>1, <2>3, <2>4, <3>1 DEF LeaseRead, Solo, Past, Live
  <2>5. CASE LeaseClaimed(r, d)
    <3>1. \A q \in Run : q # r => run[q].pc \notin {"lease", "claim"} /\ ~Past(q)
      BY <2>5 DEF LeaseClaimed, Solo
    <3>2. d.pc \notin {"lease", "claim"}
      BY <2>5 DEF LeaseClaimed
    <3> QED BY <2>1, <2>3, <2>5, <3>1, <3>2 DEF LeaseClaimed, Solo, Past, Live
  <2>6. CASE UNCHANGED lease /\ run[r].pc \notin {"lease", "claim"} /\ d.pc \notin {"lease", "claim"}
    <3>1. Past(r)
      BY <1>5, <2>6 DEF Past
    <3> QED BY <2>1, <2>3, <2>6, <3>1 DEF Solo, Past, Live
  <2>7. \/ LeaseRead(r, d) \/ LeaseClaimed(r, d)
        \/ UNCHANGED lease /\ run[r].pc \notin {"lease", "claim"} /\ d.pc \notin {"lease", "claim"}
    BY <1>5 DEF RunGoesOn, BudgetMade, PlanTaken, TaskMade, AttemptCounted, Executed, TaskMoved
  <2> QED BY <2>4, <2>5, <2>6, <2>7
<1>6. ASSUME NEW p \in Proc, KillProcess(p) PROVE Solo'
  <2>1. UNCHANGED lease /\ alive' = alive \ {p}
    BY <1>6 DEF KillProcess
  <2>2. \A q \in Run : \/ run'[q] = run[q] /\ (Live(q) => run[q].proc # p)
                       \/ run'[q].pc = "dead"
    BY <1>0, <1>6, KillMeans
  <2> QED BY <1>1, <2>1, <2>2 DEF Solo, Live, Ended
<1>7. CASE (\E g \in Run, to \in Status : CeoMove(g, to)) \/ UNCHANGED goalVars
  <2>1. UNCHANGED <<run, lease, alive>>
    BY <1>7 DEF CeoMove, goalVars
  <2>2. \A q \in Run : (Live(q))' => run[q].proc \in alive'
    BY <2>1 DEF Solo, Live
  <2> QED BY <1>1, <2>1, <2>2
<1> QED BY <1>2, <1>3, <1>4, <1>5, <1>6, <1>7 DEF GoalStep

-----------------------------------------------------------------------------
(* Goals: the executions *)

\* Why a task is executed once: its hand is assigned out of 'planned', where a
\* task comes only on the way from 'proposed', and it comes back to neither.
Once ==
    /\ \A t \in Run : executed[t] <= 1
    /\ \A t \in Run : executed[t] # 0 => tasks[t] \notin {NoTask, "proposed", "planned"}
    /\ \A r \in Run : run[r].pc = "planned" =>
         tasks[run[r].task] = "accepted" /\ executed[run[r].task] = 0
    /\ \A r \in Run : run[r].pc = "execute" =>
         executed[run[r].task] = 0 /\ tasks[run[r].task] \notin {NoTask, "proposed", "planned"}

LEMMA EdgesIn ==
    ASSUME NEW from \in Status, NEW to, NEW actor, LegalEdge(from, to, actor)
    PROVE  /\ to = "planned" => from = "accepted"
           /\ to = "delegated" => from = "planned"
           /\ to = "accepted" => from = "proposed" \/ (from = "escalated" /\ actor \in EscalationExitActors)
           /\ to = "proposed" => from = "rejected"
BY DEF LegalEdge, LegalTransitions, Status

LEMMA OnceInit == GoalInit => Once
BY DEF GoalInit, NoRun, Once

LEMMA OnceNext ==
    ASSUME BaseInv, BaseInv', Solo, Once, GoalStep
    PROVE  Once'
<1>0. GoalTypeOK /\ GoalTypeOK'
  BY DEF BaseInv
<1>1. \A t \in Run : executed[t] \in Nat /\ executed'[t] \in Nat
  BY <1>0 DEF GoalTypeOK
<1>2. \A r \in Run : run[r].pc \in {"planned", "execute"} => Past(r) /\ run[r].task \in Run
  BY <1>0, RunKinds, LiveFields DEF Past, Live, Ended
<1>3. ASSUME \A q \in Run : run'[q].pc \in {"planned", "execute"} => run'[q] = run[q],
             UNCHANGED <<tasks, executed>>
      PROVE  Once'
  BY <1>3 DEF Once
<1>4. ASSUME NEW r \in Run, Live(r), alive' = alive, NEW d, RunGoesOn(r, d) PROVE Once'
  <2>1. /\ \A q \in Run : run'[q] = IF q = r THEN d ELSE run[q]
        /\ d \in LiveRun /\ d.task \in Run
    BY <1>0, <1>4, BecomesType, LiveFields DEF RunGoesOn, Becomes
  <2>2. run[r].task \in Run
    BY <1>0, <1>4, RunKinds, LiveFields
  <2>3. CASE \/ LeaseRead(r, d) \/ LeaseClaimed(r, d) \/ BudgetMade(r, d) \/ PlanTaken(r, d)
             \/ AttemptCounted(r, d)
    BY <1>3, <2>1, <2>3 DEF LeaseRead, LeaseClaimed, BudgetMade, PlanTaken, AttemptCounted
\* The other runs are not past the lease.
  <2>4. Past(r) => \A q \in Run : q # r => run[q].pc \notin {"planned", "execute"}
    BY <1>2, OnePast
  <2>5. CASE TaskMade(r, d)
    <3>1. Past(r) /\ d.pc = "accept" /\ UNCHANGED executed
      BY <1>4, <2>5 DEF TaskMade, Past
    <3>2. \A q \in Run : run'[q].pc \notin {"planned", "execute"}
      BY <2>1, <2>4, <3>1
    <3>3. \A t \in Run : tasks'[t] = tasks[t] \/ tasks[t] = NoTask
      BY <1>0, <2>1, <2>5 DEF TaskMade, GoalTypeOK
    <3> QED BY <3>1, <3>2, <3>3 DEF Once
  <2>6. CASE Executed(r, d)
    <3>1. Past(r) /\ d.pc \notin {"planned", "execute"} /\ UNCHANGED tasks
      BY <1>4, <2>6 DEF Executed, Past
    <3>2. \A q \in Run : run'[q].pc \notin {"planned", "execute"}
      BY <2>1, <2>4, <3>1
    <3>3. executed[run[r].task] = 0
      BY <2>6 DEF Once, Executed
    <3>4. \A t \in Run : executed'[t] = IF t = run[r].task THEN 1 ELSE executed[t]
      BY <1>0, <2>2, <2>6, <3>3 DEF Executed, GoalTypeOK
    <3>5. tasks[run[r].task] \notin {NoTask, "proposed", "planned"}
      BY <2>6 DEF Executed, Once
    <3> QED BY <3>1, <3>2, <3>4, <3>5 DEF Once
  <2>7. CASE TaskMoved(r, d)
    <3>1. Past(r) /\ UNCHANGED executed /\ d.task = run[r].task
      BY <1>4, <2>7 DEF TaskMoved, Past, Same
    <3>2. CASE UNCHANGED tasks /\ d.pc \in {"threw", "report"}
      BY <1>3, <2>1, <2>4, <3>1, <3>2
    <3>3. CASE \E to \in Status \ {"proposed"} :
            /\ tasks' = [tasks EXCEPT ![run[r].task] = to]
            /\ LegalEdge(tasks[run[r].task], to, "goal-runner")
            /\ to = "accepted" <=> run[r].pc = "accept"
            /\ to = "planned" <=> run[r].pc = "planned"
            /\ to = "delegated" <=> run[r].pc = "assign"
            /\ d.pc = "planned" => run[r].pc = "accept"
            /\ d.pc = "execute" => run[r].pc = "assign"
      <4>1. PICK to \in Status \ {"proposed"} :
            /\ tasks' = [tasks EXCEPT ![run[r].task] = to]
            /\ LegalEdge(tasks[run[r].task], to, "goal-runner")
            /\ to = "accepted" <=> run[r].pc = "accept"
            /\ to = "planned" <=> run[r].pc = "planned"
            /\ to = "delegated" <=> run[r].pc = "assign"
            /\ d.pc = "planned" => run[r].pc = "accept"
            /\ d.pc = "execute" => run[r].pc = "assign"
        BY <3>3
      <4>2. tasks[run[r].task] \in Status
        <5>1. run[r].pc \in AtTask
          BY <2>7 DEF TaskMoved, AtTask
        <5> QED BY <1>0, <2>2, <5>1 DEF BaseInv, GoalTypeOK
      <4>3. \A t \in Run : tasks'[t] = IF t = run[r].task THEN to ELSE tasks[t]
        BY <1>0, <2>2, <4>1 DEF GoalTypeOK
      <4>4. /\ to = "accepted" => tasks[run[r].task] = "proposed"
            /\ to = "delegated" => tasks[run[r].task] = "planned"
        BY <4>1, <4>2, EdgesIn DEF EscalationExitActors
      <4>5. to = "planned" => executed[run[r].task] = 0
        BY <4>1 DEF Once
      <4>6. to \notin {NoTask, "proposed"}
        BY <4>1 DEF Status, NoTask
      <4>7. to \in {"accepted", "delegated"} => executed[run[r].task] = 0
        BY <2>2, <4>4 DEF Once
      <4>8. \A q \in Run : run'[q].pc \in {"planned", "execute"} => q = r /\ to \in {"accepted", "delegated"}
        BY <2>1, <2>4, <3>1, <4>1
      <4>9. run'[r].pc = "planned" => to = "accepted"
        BY <2>1, <4>1
      <4>10. \A t \in Run : executed[t] # 0 => tasks'[t] \notin {NoTask, "proposed", "planned"}
        BY <4>3, <4>5, <4>6 DEF Once
      <4>11. \A q \in Run : run'[q].pc = "planned" =>
               tasks'[run'[q].task] = "accepted" /\ executed[run'[q].task] = 0
        BY <2>1, <2>2, <3>1, <4>3, <4>7, <4>8, <4>9
      <4>12. \A q \in Run : run'[q].pc = "execute" =>
               executed[run'[q].task] = 0 /\ tasks'[run'[q].task] = "delegated"
        <5>1. run'[r].pc = "execute" => to = "delegated"
          BY <2>1, <4>1
        <5> QED BY <2>1, <2>2, <3>1, <4>3, <4>7, <4>8, <5>1
      <4>13. "delegated" \notin {NoTask, "proposed", "planned"}
        BY DEF NoTask
      <4> QED BY <3>1, <4>10, <4>11, <4>12, <4>13 DEF Once
    <3> QED BY <2>7, <3>2, <3>3 DEF TaskMoved
  <2> QED BY <1>4, <2>3, <2>5, <2>6, <2>7 DEF RunGoesOn
<1>5. ASSUME NEW r \in Run, NEW d, Begins(r, d) PROVE Once'
  <2>1. \A q \in Run : run'[q] = run[q] \/ run'[q].pc = "lease"
    BY <1>0, <1>5 DEF Begins, GoalTypeOK
  <2> QED BY <1>3, <1>5, <2>1 DEF Begins
<1>6. ASSUME NEW r \in Run, Refused(r) PROVE Once'
  <2>1. \A q \in Run : run'[q] = run[q] \/ run'[q].pc \in {"done", "dead"}
    BY <1>0, <1>6 DEF Refused, OverRun, GoalTypeOK
  <2> QED BY <1>3, <1>6, <2>1 DEF Refused
<1>7. ASSUME NEW r \in Run, RunEnded(r) PROVE Once'
  <2>1. \A q \in Run : run'[q] = run[q] \/ run'[q].pc \in {"done", "dead"}
    BY <1>0, <1>7, EndsType DEF RunEnded
  <2> QED BY <1>3, <1>7, <2>1 DEF RunEnded
<1>8. ASSUME NEW p \in Proc, KillProcess(p) PROVE Once'
  <2>1. \A q \in Run : run'[q] = run[q] \/ run'[q].pc = "dead"
    BY <1>0, <1>8, KillMeans
  <2> QED BY <1>3, <1>8, <2>1 DEF KillProcess
<1>9. ASSUME NEW g \in Run, NEW to \in Status, CeoMove(g, to) PROVE Once'
  <2>1. /\ tasks[g] \in {"verified", "escalated"} /\ to \notin FinalStatus
        /\ LegalEdge(tasks[g], to, "ceo") /\ UNCHANGED <<run, executed>>
        /\ \A t \in Run : tasks'[t] = IF t = g THEN to ELSE tasks[t]
    BY <1>0, <1>9 DEF CeoMove, GoalTypeOK
  <2>2. to \notin {NoTask, "proposed", "planned"}
    BY <2>1, EdgesIn DEF Status, NoTask
  <2>3. \A r \in Run : run[r].pc = "planned" => run[r].task # g
    BY <2>1 DEF Once
  <2> QED BY <1>2, <2>1, <2>2, <2>3 DEF Once
<1>10. CASE UNCHANGED goalVars
  BY <1>3, <1>10 DEF goalVars
<1> QED BY <1>4, <1>5, <1>6, <1>7, <1>8, <1>9, <1>10 DEF GoalStep

-----------------------------------------------------------------------------
(* Goals: the attempts *)

\* A fresh run that has not made its budget file yet.
Early(e) == ~e.resumed /\ e.pc \in {"lease", "claim", "budget"}

\* Why attempts are kept: every live run of a goal knows the attempts in the
\* goal's file, and counts its own before it has the task assigned.
BudgetInv ==
    /\ \A g \in Run : run[g] = NoRun => budgets[g] = NoBudget
    /\ \A r \in Run : Live(r) =>
         IF Early(run[r])
         THEN budgets[run[r].goal] = NoBudget
         ELSE /\ budgets[run[r].goal] # NoBudget
              /\ budgets[run[r].goal].tried = run[r].budget.tried
    /\ \A r \in Run : run[r].pc \in {"assign", "execute"} => run[r].task \in run[r].budget.tried

\* What a step of a run may do with the budget.
BudgetLeft(r, d) ==
    /\ UNCHANGED budgets
    /\ d.budget.tried = run[r].budget.tried
    /\ Early(d) <=> Early(run[r])

BudgetSaved(r, d) ==
    /\ budgets' = [budgets EXCEPT ![run[r].goal] = d.budget]
    /\ run[r].budget.tried \subseteq d.budget.tried
    /\ ~Early(d)

LEMMA BudgetSteps ==
    ASSUME NEW r \in Run, NEW d, RunGoesOn(r, d)
    PROVE  BudgetLeft(r, d) \/ BudgetSaved(r, d)
<1>0. d.resumed = run[r].resumed
  BY DEF RunGoesOn, Becomes
<1>1. CASE LeaseRead(r, d) \/ PlanTaken(r, d) \/ Executed(r, d) \/ TaskMoved(r, d)
  BY <1>0, <1>1 DEF LeaseRead, PlanTaken, Executed, TaskMoved, Same, BudgetLeft, Early
<1>2. CASE LeaseClaimed(r, d)
  BY <1>0, <1>2 DEF LeaseClaimed, Same, BudgetLeft, Early
<1>3. CASE BudgetMade(r, d)
  BY <1>3 DEF BudgetMade, Same, BudgetSaved, Early
<1>4. CASE TaskMade(r, d)
  BY <1>4 DEF TaskMade, BudgetLeft, BudgetSaved, Early
<1>5. CASE AttemptCounted(r, d)
  BY <1>5 DEF AttemptCounted, BudgetLeft, BudgetSaved, Early
<1> QED BY <1>1, <1>2, <1>3, <1>4, <1>5 DEF RunGoesOn

LEMMA BudgetInvInit == GoalInit => BudgetInv
<1> SUFFICES ASSUME GoalInit PROVE BudgetInv
  OBVIOUS
<1>1. \A r \in Run : run[r].pc = "off" /\ budgets[r] = NoBudget
  BY DEF GoalInit, NoRun
<1> QED BY <1>1 DEF BudgetInv, Live, Ended

LEMMA BudgetInvNext ==
    ASSUME ~ResumeLive, BaseInv, BaseInv', Solo, BudgetInv, GoalStep
    PROVE  BudgetInv'
<1>0. GoalTypeOK /\ GoalTypeOK' /\ RunsKept
  BY GoalTypeNext DEF BaseInv
<1>1. \A g \in Run : run'[g] = NoRun => run[g] = NoRun
  BY <1>0 DEF RunsKept
<1>2. ASSUME \A q \in Run : run'[q] = run[q] \/ ~(Live(q))', UNCHANGED budgets
      PROVE  BudgetInv'
  BY <1>1, <1>2 DEF BudgetInv, Live, Ended, Early
<1>3. ASSUME NEW r \in Run, NEW d, Begins(r, d), Fresh(r, d) \/ Resumed(r, d) PROVE BudgetInv'
  <2>1. /\ \A q \in Run : run'[q] = IF q = r THEN d ELSE run[q]
        /\ UNCHANGED budgets /\ run[r] = NoRun /\ d.pc = "lease"
    BY <1>0, <1>3 DEF Begins, GoalTypeOK
  <2>2. IF Early(d)
        THEN budgets[d.goal] = NoBudget
        ELSE budgets[d.goal] # NoBudget /\ budgets[d.goal].tried = d.budget.tried
    BY <1>3, <2>1 DEF Fresh, Resumed, Early, BudgetInv
  <2> QED BY <1>1, <2>1, <2>2 DEF BudgetInv, Live
<1>4. ASSUME NEW r \in Run, Live(r), NEW d, RunGoesOn(r, d) PROVE BudgetInv'
  <2> DEFINE g == run[r].goal
  <2>1. /\ \A q \in Run : run'[q] = IF q = r THEN d ELSE run[q]
        /\ d.goal = g /\ d.resumed = run[r].resumed /\ d \in LiveRun
    BY <1>0, <1>4, BecomesType DEF RunGoesOn, Becomes
  <2>2. d.budget \in Budget /\ g \in Run /\ run[g] # NoRun
    BY <1>0, <1>4, <2>1, RunKinds, LiveFields DEF BaseInv
  <2>3. d.budget # NoBudget
    BY <2>2, NoBudgetIsNone
  <2>4. \A q \in Run : Live(q) /\ q # r => run[q].goal # g
    BY <1>4 DEF Solo
  <2>5. \A h \in Run : h # g => budgets'[h] = budgets[h]
    BY <1>0, <1>4, BudgetSteps DEF BudgetLeft, BudgetSaved, GoalTypeOK
  <2>6. d.pc \in {"assign", "execute"} => d.task \in d.budget.tried
    BY <1>4 DEF RunGoesOn, LeaseRead, LeaseClaimed, BudgetMade, PlanTaken, TaskMade,
                AttemptCounted, Executed, TaskMoved, Same, BudgetInv
  <2>7. IF Early(d)
        THEN budgets'[g] = NoBudget
        ELSE budgets'[g] # NoBudget /\ budgets'[g].tried = d.budget.tried
    <3>1. CASE BudgetLeft(r, d)
      BY <1>4, <3>1 DEF BudgetLeft, BudgetInv
    <3>2. CASE BudgetSaved(r, d)
      <4>1. budgets'[g] = d.budget /\ ~Early(d)
        BY <1>0, <2>2, <3>2 DEF BudgetSaved, GoalTypeOK
      <4> QED BY <2>3, <4>1
    <3> QED BY <1>4, <3>1, <3>2, BudgetSteps
  <2>8. \A h \in Run : run'[h] = NoRun => budgets'[h] = NoBudget
    BY <1>1, <2>2, <2>5 DEF BudgetInv
  <2>9. ASSUME NEW q \in Run, (Live(q))'
        PROVE  IF Early(run'[q])
               THEN budgets'[run'[q].goal] = NoBudget
               ELSE /\ budgets'[run'[q].goal] # NoBudget
                    /\ budgets'[run'[q].goal].tried = run'[q].budget.tried
    <3>1. CASE q = r
      BY <2>1, <2>7, <3>1
    <3>2. CASE q # r
      <4>1. run'[q] = run[q] /\ Live(q) /\ run[q].goal # g
        BY <2>1, <2>4, <2>9, <3>2 DEF Live
      <4>2. run[q].goal \in Run
        BY <1>0, <4>1, RunKinds, LiveFields
      <4> QED BY <2>5, <4>1, <4>2 DEF BudgetInv
    <3> QED BY <3>1, <3>2
  <2> HIDE DEF g
  <2>10. \A q \in Run : run'[q].pc \in {"assign", "execute"} => run'[q].task \in run'[q].budget.tried
    BY <2>1, <2>6 DEF BudgetInv
  <2> QED BY <2>8, <2>9, <2>10 DEF BudgetInv, Early
<1>5. ASSUME NEW r \in Run, Refused(r) PROVE BudgetInv'
  <2>1. \A q \in Run : run'[q] = run[q] \/ run'[q].pc \in {"done", "dead"}
    BY <1>0, <1>5 DEF Refused, OverRun, GoalTypeOK
  <2> QED BY <1>2, <1>5, <2>1 DEF Refused, Live, Ended
<1>6. ASSUME NEW r \in Run, RunEnded(r) PROVE BudgetInv'
  <2>1. \A q \in Run : run'[q] = run[q] \/ run'[q].pc \in {"done", "dead"}
    BY <1>0, <1>6, EndsType DEF RunEnded
  <2> QED BY <1>2, <1>6, <2>1 DEF RunEnded, Live, Ended
<1>7. ASSUME NEW p \in Proc, KillProcess(p) PROVE BudgetInv'
  <2>1. \A q \in Run : run'[q] = run[q] \/ run'[q].pc = "dead"
    BY <1>0, <1>7, KillMeans
  <2> QED BY <1>2, <1>7, <2>1 DEF KillProcess, Live, Ended
<1>8. CASE (\E g \in Run, to \in Status : CeoMove(g, to)) \/ UNCHANGED goalVars
  <2>1. UNCHANGED <<run, budgets>>
    BY <1>8 DEF CeoMove, goalVars
  <2> QED BY <1>2, <2>1
<1> QED BY <1>3, <1>4, <1>5, <1>6, <1>7, <1>8 DEF GoalStep

\* What a step that forgets nothing, and executes what was counted, does.
KeepsAttempts ==
    \A g \in Run :
        /\ budgets[g] # NoBudget =>
             budgets'[g] # NoBudget /\ budgets[g].tried \subseteq budgets'[g].tried
        /\ executed'[g] # executed[g] =>
             \E h \in Run : budgets[h] # NoBudget /\ g \in budgets[h].tried

LEMMA AttemptsStay ==
    ASSUME BaseInv, BudgetInv, GoalStep
    PROVE  KeepsAttempts
<1>0. GoalTypeOK
  BY DEF BaseInv
<1>1. ASSUME UNCHANGED <<budgets, executed>> PROVE KeepsAttempts
  BY <1>1 DEF KeepsAttempts
<1>2. ASSUME NEW r \in Run, Live(r), NEW d, RunGoesOn(r, d) PROVE KeepsAttempts
  <2>1. /\ run[r].goal \in Run /\ run[r].task \in Run /\ d.budget \in Budget
    BY <1>0, <1>2, RunKinds, LiveFields DEF RunGoesOn, Becomes
  <2>2. d.budget # NoBudget
    BY <2>1, NoBudgetIsNone
  <2>3. ASSUME NEW g \in Run, budgets[g] # NoBudget
        PROVE  budgets'[g] # NoBudget /\ budgets[g].tried \subseteq budgets'[g].tried
    <3>1. CASE budgets'[g] = budgets[g]
      BY <2>3, <3>1
    <3>2. CASE budgets'[g] # budgets[g]
      <4>1. BudgetSaved(r, d)
        BY <1>2, <3>2, BudgetSteps DEF BudgetLeft
      <4>2. g = run[r].goal /\ budgets'[g] = d.budget
        BY <1>0, <2>1, <3>2, <4>1 DEF BudgetSaved, GoalTypeOK
      <4>3. budgets[g].tried = run[r].budget.tried
        BY <1>2, <2>3, <4>2 DEF BudgetInv
      <4> QED BY <2>2, <4>1, <4>2, <4>3 DEF BudgetSaved
    <3> QED BY <3>1, <3>2
  <2>4. ASSUME NEW g \in Run, executed'[g] # executed[g]
        PROVE  \E h \in Run : budgets[h] # NoBudget /\ g \in budgets[h].tried
    <3>1. Executed(r, d)
      BY <1>2, <2>4 DEF RunGoesOn, LeaseRead, LeaseClaimed, BudgetMade, PlanTaken, TaskMade,
                        AttemptCounted, TaskMoved
    <3>2. g = run[r].task
      BY <1>0, <2>1, <2>4, <3>1 DEF Executed, GoalTypeOK
    <3>3. ~Early(run[r]) /\ run[r].task \in run[r].budget.tried
      BY <3>1 DEF Executed, Early, BudgetInv
    <3>4. budgets[run[r].goal] # NoBudget /\ g \in budgets[run[r].goal].tried
      BY <1>2, <3>2, <3>3 DEF BudgetInv
    <3> QED BY <2>1, <3>4
  <2> QED BY <2>3, <2>4 DEF KeepsAttempts
<1> QED
  BY <1>1, <1>2 DEF GoalStep, Begins, Refused, RunEnded, KillProcess, CeoMove, goalVars

-----------------------------------------------------------------------------
(* Goals: the requests *)

\* Why a request is not run twice at a time: one process that may write drains,
\* and a request without an answer has no run but that drain's own, or its
\* process died.
RequestInv ==
    /\ TypeOK /\ BaseInv
    /\ \A p \in Readonly : drain[p].pc # "await"
    /\ \A p, o \in Proc \ Readonly : drain[p] # NoDrain /\ drain[o] # NoDrain => p = o
    /\ \A q \in Request : \A r \in served[q] :
         /\ run[r] # NoRun
         /\ receipt[q] = NoReceipt =>
              \/ run[r].proc \notin alive
              \/ drain[run[r].proc].pc = "await" /\ drain[run[r].proc].request = q
    /\ RequestRunOnce

LEMMA NextIsGoalStep ==
    ASSUME BaseInv, [Next]_vars
    PROVE  GoalStep
<1>1. CASE \E p \in Proc : BeginDrain(p)
  BY <1>1 DEF BeginDrain, GoalStep
<1>2. CASE \E p \in Proc : Crash(p)
  BY <1>2, GoalStepIs DEF Crash
<1>3. CASE \E p \in Proc : DrainStep(p)
  <2>1. PICK p \in Proc : DrainStep(p)
    BY <1>3
  <2>2. CASE AnswerRun(p) \/ AnswerTimeout(p) \/ \E q \in Request : ProcessAtOnce(p, q)
    BY <2>2 DEF AnswerRun, AnswerTimeout, ProcessAtOnce, GoalStep
  <2>3. CASE \E q \in Request, r \in Run, plan \in Plan, limits \in Limits :
               ProcessRequest(p, q, r, plan, limits)
    BY <2>3, GoalStepIs DEF ProcessRequest
  <2> QED BY <2>1, <2>2, <2>3 DEF DrainStep
<1>4. CASE \E r \in Run, p \in Proc : CommandLine(r, p)
  BY <1>4, GoalStepIs DEF CommandLine
<1>5. CASE \E r \in Run : RunStep(r)
  BY <1>5, GoalStepIs
<1>6. CASE \E g \in Run, to \in Status : CeoMove(g, to)
  BY <1>6, GoalStepIs
<1>7. CASE UNCHANGED vars
  BY <1>7 DEF vars, GoalStep
<1> QED BY <1>1, <1>2, <1>3, <1>4, <1>5, <1>6, <1>7 DEF Next

LEMMA NobodyRises ==
    ASSUME GoalStep
    PROVE  alive' \subseteq alive
BY DEF GoalStep, Begins, Refused, RunEnded, KillProcess, CeoMove, goalVars

DrainNext == [pc : {"next"}, left : SUBSET Request]
DrainAwait == [pc : {"await"}, left : SUBSET Request, request : Request, run : Run]

LEMMA DrainKinds ==
    ASSUME TypeOK, NEW p \in Proc
    PROVE  /\ drain[p].pc = "next" => drain[p] \in DrainNext /\ drain[p] # NoDrain
           /\ drain[p].pc = "await" => drain[p] \in DrainAwait /\ drain[p] # NoDrain
           /\ drain[p].pc \in {"next", "await"} => drain[p].left \in SUBSET Request
<1>1. NoDrain.pc = "idle"
  BY DEF NoDrain
<1>2. (\A d \in DrainNext : d.pc = "next") /\ \A d \in DrainAwait : d.pc = "await"
  BY DEF DrainNext, DrainAwait
<1>3. drain[p] = NoDrain \/ drain[p] \in DrainNext \/ drain[p] \in DrainAwait
  BY DEF TypeOK, DrainNext, DrainAwait
<1>4. drain[p].pc = "next" => drain[p] \in DrainNext /\ drain[p] # NoDrain
  BY <1>1, <1>2, <1>3
<1>5. drain[p].pc = "await" => drain[p] \in DrainAwait /\ drain[p] # NoDrain
  BY <1>1, <1>2, <1>3
<1>6. (\A d \in DrainNext : d.left \in SUBSET Request) /\ \A d \in DrainAwait : d.left \in SUBSET Request
  BY DEF DrainNext, DrainAwait
<1> QED BY <1>4, <1>5, <1>6

\* Where a drain is after it answered a request.
LEMMA GoOnMeans ==
    ASSUME TypeOK, NEW p \in Proc, NEW left \in SUBSET Request, GoOn(p, left)
    PROVE  \E d \in {NoDrain} \cup DrainNext :
             d.pc # "await" /\ drain' = [drain EXCEPT ![p] = d]
<1> DEFINE d == IF left = {} THEN NoDrain ELSE [pc |-> "next", left |-> left]
<1>1. drain' = [drain EXCEPT ![p] = d]
  BY DEF GoOn
<1>2. d \in {NoDrain} \cup DrainNext
  BY DEF DrainNext
<1>3. d.pc # "await"
  BY DEF NoDrain
<1> HIDE DEF d
<1> QED BY <1>1, <1>2, <1>3

LEMMA RequestInvInit == Init => RequestInv
<1> SUFFICES ASSUME Init PROVE RequestInv
  OBVIOUS
<1>1. BaseInv
  BY BaseInvInit DEF Init
<1>2. \A p \in Proc : drain[p] = NoDrain /\ drain[p].pc # "await"
  BY DEF Init, NoDrain
<1>3. \A q \in Request : served[q] = {}
  BY DEF Init
<1>4. TypeOK
  BY <1>1 DEF Init, TypeOK, BaseInv, NoReceipt
<1> QED BY <1>1, <1>2, <1>3, <1>4, RequestAssumption DEF RequestInv, RequestRunOnce

Receipts == {"completed", "failed", "cancelled", "rejected", "readonly", "duplicate", "timeout"}

\* A drain that answers one request, and has no run of an unanswered request
\* but that one's.
LEMMA AnswerKeeps ==
    ASSUME RequestInv, BaseInv', RunsKept, UNCHANGED <<goalVars, served>>,
           NEW p \in Proc, drain[p] # NoDrain,
           NEW q \in Request, drain[p].pc = "await" => drain[p].request = q,
           NEW status \in Receipts, Answer(q, status),
           NEW left \in SUBSET Request, GoOn(p, left)
    PROVE  RequestInv'
<1>0. TypeOK
  BY DEF RequestInv
<1>1. PICK d \in {NoDrain} \cup DrainNext : d.pc # "await" /\ drain' = [drain EXCEPT ![p] = d]
  BY <1>0, GoOnMeans
<1>2. \A o \in Proc : drain'[o] = IF o = p THEN d ELSE drain[o]
  BY <1>0, <1>1 DEF TypeOK
<1>3. /\ \A x \in Request : receipt'[x] = IF x = q THEN status ELSE receipt[x]
      /\ status # NoReceipt
  BY <1>0 DEF Answer, TypeOK, Receipts, NoReceipt
<1>4. TypeOK'
  <2>1. receipt' \in [Request -> {NoReceipt, "completed", "failed", "cancelled", "rejected",
                                  "readonly", "duplicate", "timeout"}]
    BY <1>0 DEF Answer, TypeOK, Receipts
  <2>2. drain' \in [Proc -> {NoDrain} \cup DrainNext \cup DrainAwait]
    BY <1>0, <1>1 DEF TypeOK, DrainNext, DrainAwait
  <2> QED BY <1>0, <2>1, <2>2 DEF TypeOK, BaseInv, DrainNext, DrainAwait
<1>5. \A o \in Readonly : drain'[o].pc # "await"
  BY <1>1, <1>2, RequestAssumption DEF RequestInv
<1>6. \A o, x \in Proc \ Readonly : drain'[o] # NoDrain /\ drain'[x] # NoDrain => o = x
  BY <1>2 DEF RequestInv
<1>7. ASSUME NEW x \in Request, NEW r \in served[x], receipt'[x] = NoReceipt
      PROVE  \/ run[r].proc \notin alive
             \/ drain'[run[r].proc].pc = "await" /\ drain'[run[r].proc].request = x
  <2>1. x # q /\ receipt[x] = NoReceipt
    BY <1>3, <1>7
  <2>2. run[r].proc \in Proc
    <3>1. run[r] # NoRun /\ r \in Run
      BY <1>0, <1>7 DEF RequestInv, TypeOK
    <3> QED BY <3>1, RunKinds DEF RequestInv, BaseInv, LiveRun, OverRun
  <2>3. \/ run[r].proc \notin alive
        \/ drain[run[r].proc].pc = "await" /\ drain[run[r].proc].request = x
    BY <2>1 DEF RequestInv
  <2> QED BY <1>2, <2>1, <2>2, <2>3
<1> QED
  BY <1>4, <1>5, <1>6, <1>7 DEF RequestInv, RequestRunOnce, goalVars

LEMMA RequestInvNext ==
    ASSUME RequestInv, [Next]_vars
    PROVE  RequestInv'
<1>0. TypeOK /\ BaseInv /\ GoalTypeOK /\ GoalStep
  BY NextIsGoalStep DEF RequestInv, BaseInv
<1>1. BaseInv' /\ RunsKept /\ alive' \subseteq alive /\ GoalTypeOK'
  BY <1>0, BaseInvNext, GoalTypeNext, NobodyRises DEF BaseInv
<1>2. \A q \in Request : \A r \in served[q] :
        /\ r \in Run /\ run[r] # NoRun /\ run[r].proc \in Proc
        /\ run'[r] # NoRun /\ run'[r].proc = run[r].proc
  <2>1. \A q \in Request : \A r \in served[q] : r \in Run /\ run[r] # NoRun
    BY <1>0 DEF RequestInv, TypeOK
  <2>2. \A r \in Run : run[r] # NoRun => run[r].proc \in Proc
    BY <1>0, RunKinds DEF LiveRun, OverRun
  <2> QED BY <1>1, <2>1, <2>2 DEF RunsKept
<1>3. served' = served => RequestRunOnce'
  BY <1>1, <1>2 DEF RequestInv, RequestRunOnce
\* The drains and the receipts stay, or a drain begins or is cut off.
<1>4. ASSUME UNCHANGED <<receipt, served>>, TypeOK',
             \A o \in Proc : \/ drain'[o] = drain[o]
                             \/ drain'[o].pc # "await" /\ (drain[o].pc # "await" \/ o \notin alive'),
             \A o, x \in Proc \ Readonly : drain'[o] # NoDrain /\ drain'[x] # NoDrain => o = x
      PROVE  RequestInv'
  <2>1. \A o \in Readonly : drain'[o].pc # "await"
    BY <1>4, RequestAssumption DEF RequestInv
  <2>2. ASSUME NEW q \in Request, NEW r \in served'[q]
        PROVE  /\ run'[r] # NoRun
               /\ receipt'[q] = NoReceipt =>
                    \/ run'[r].proc \notin alive'
                    \/ drain'[run'[r].proc].pc = "await" /\ drain'[run'[r].proc].request = q
    <3>1. r \in served[q] /\ receipt'[q] = receipt[q]
      BY <1>4, <2>2
    <3>2. receipt[q] = NoReceipt =>
            \/ run[r].proc \notin alive
            \/ drain[run[r].proc].pc = "await" /\ drain[run[r].proc].request = q
      BY <3>1 DEF RequestInv
    <3> QED BY <1>1, <1>2, <1>4, <3>1, <3>2
  <2> QED BY <1>1, <1>3, <1>4, <2>1, <2>2 DEF RequestInv
<1>5. ASSUME UNCHANGED requestVars PROVE RequestInv'
  <2>1. TypeOK'
    BY <1>0, <1>1, <1>5 DEF TypeOK, requestVars
  <2>2. \A o, x \in Proc \ Readonly : drain'[o] # NoDrain /\ drain'[x] # NoDrain => o = x
    BY <1>5 DEF RequestInv, requestVars
  <2> QED BY <1>4, <1>5, <2>1, <2>2 DEF requestVars
<1>6. ASSUME NEW p \in Proc, BeginDrain(p) PROVE RequestInv'
  <2> DEFINE d == [pc |-> "next", left |-> Request]
  <2>1. d \in DrainNext /\ d.pc # "await"
    BY DEF DrainNext
  <2>2. /\ drain[p] = NoDrain /\ drain' = [drain EXCEPT ![p] = d]
        /\ p \in Readonly \/ \A o \in Proc \ Readonly : drain[o] = NoDrain
        /\ UNCHANGED <<receipt, served>>
    BY <1>6 DEF BeginDrain
  <2> HIDE DEF d
  <2>3. \A o \in Proc : drain'[o] = IF o = p THEN d ELSE drain[o]
    BY <1>0, <2>2 DEF TypeOK
  <2>4. TypeOK'
    <3>1. drain' \in [Proc -> {NoDrain} \cup DrainNext \cup DrainAwait]
      BY <1>0, <2>1, <2>2 DEF TypeOK, DrainNext, DrainAwait
    <3> QED BY <1>0, <1>1, <2>2, <3>1 DEF TypeOK, DrainNext, DrainAwait
  <2>5. drain[p].pc # "await"
    BY <2>2 DEF NoDrain
  <2>6. \A o, x \in Proc \ Readonly : drain'[o] # NoDrain /\ drain'[x] # NoDrain => o = x
    BY <2>2, <2>3 DEF RequestInv
  <2> QED BY <1>4, <2>1, <2>2, <2>3, <2>4, <2>5, <2>6
<1>7. ASSUME NEW p \in Proc, Crash(p) PROVE RequestInv'
  <2>1. /\ drain' = [drain EXCEPT ![p] = NoDrain] /\ UNCHANGED <<receipt, served>>
        /\ p \notin alive'
    BY <1>7 DEF Crash, KillProcess
  <2>2. \A o \in Proc : drain'[o] = IF o = p THEN NoDrain ELSE drain[o]
    BY <1>0, <2>1 DEF TypeOK
  <2>3. TypeOK'
    BY <1>0, <1>1, <2>1 DEF TypeOK
  <2>4. NoDrain.pc # "await"
    BY DEF NoDrain
  <2>5. \A o, x \in Proc \ Readonly : drain'[o] # NoDrain /\ drain'[x] # NoDrain => o = x
    BY <2>2 DEF RequestInv
  <2> QED BY <1>4, <2>1, <2>2, <2>3, <2>4, <2>5
<1>8. ASSUME NEW p \in Proc, NEW q \in Request, ProcessAtOnce(p, q) PROVE RequestInv'
  <2>1. drain[p].pc = "next" /\ drain[p] # NoDrain /\ drain[p].left \ {q} \in SUBSET Request
    BY <1>0, <1>8, DrainKinds DEF ProcessAtOnce
  <2>2. PICK status \in Receipts : Answer(q, status)
    BY <1>8 DEF ProcessAtOnce, Receipts
  <2> QED BY <1>1, <1>8, <2>1, <2>2, AnswerKeeps DEF ProcessAtOnce
<1>9. ASSUME NEW p \in Proc, AnswerRun(p) \/ AnswerTimeout(p) PROVE RequestInv'
  <2>1. /\ drain[p].pc = "await" /\ drain[p] # NoDrain /\ drain[p].left \in SUBSET Request
        /\ drain[p].request \in Request
    BY <1>0, <1>9, DrainKinds DEF AnswerRun, AnswerTimeout, DrainAwait
  <2>2. PICK status \in Receipts : Answer(drain[p].request, status)
    BY <1>9 DEF AnswerRun, AnswerTimeout, Receipts
  <2> QED BY <1>1, <1>9, <2>1, <2>2, AnswerKeeps DEF AnswerRun, AnswerTimeout
<1>10. ASSUME NEW p \in Proc, NEW q \in Request, NEW r \in Run, NEW plan \in Plan,
              NEW limits \in Limits, ProcessRequest(p, q, r, plan, limits)
       PROVE  RequestInv'
  <2> DEFINE d == [pc |-> "await", left |-> drain[p].left \ {q}, request |-> q, run |-> r]
  <2>1. /\ drain[p].pc = "next" /\ p \notin Readonly /\ receipt[q] = NoReceipt
        /\ drain' = [drain EXCEPT ![p] = d]
        /\ served' = [served EXCEPT ![q] = @ \cup {r}]
        /\ UNCHANGED receipt /\ Start(r, p, plan, limits)
    BY <1>0, <1>10 DEF ProcessRequest, TypeOK
  <2>2. drain[p] # NoDrain /\ drain[p].left \in SUBSET Request
    BY <1>0, <2>1, DrainKinds
  <2>3. d \in DrainAwait /\ d.pc = "await" /\ d.request = q
    BY <2>2 DEF DrainAwait
  <2> HIDE DEF d
  <2>4. /\ \A o \in Proc : drain'[o] = IF o = p THEN d ELSE drain[o]
        /\ \A x \in Request : served'[x] = IF x = q THEN served[x] \cup {r} ELSE served[x]
    BY <1>0, <2>1 DEF TypeOK
  <2>5. TypeOK'
    <3>1. drain' \in [Proc -> {NoDrain} \cup DrainNext \cup DrainAwait]
      BY <1>0, <2>1, <2>3 DEF TypeOK, DrainNext, DrainAwait
    <3>2. served' \in [Request -> SUBSET Run]
      BY <1>0, <2>1 DEF TypeOK
    <3> QED BY <1>0, <1>1, <2>1, <3>1, <3>2 DEF TypeOK, DrainNext, DrainAwait
  <2>6. run'[r] # NoRun /\ run'[r].proc = p
    <3>1. run'[r] = NewRun(r, p, r, plan, FALSE, [tried |-> {}, created |-> 1, limits |-> limits])
      BY <1>0, <2>1 DEF Start, Update, GoalTypeOK
    <3>2. run'[r].pc = "lease" /\ run'[r].proc = p
      BY <3>1 DEF NewRun
    <3> QED BY <3>2 DEF NoRun
\* The runs of a request without an answer are over with their process.
  <2>7. ASSUME NEW x \in Request, NEW s \in served[x], receipt[x] = NoReceipt
        PROVE  \/ run[s].proc \notin alive
               \/ /\ run[s].proc # p
                  /\ drain[run[s].proc].pc = "await" /\ drain[run[s].proc].request = x
    BY <2>1, <2>7 DEF RequestInv
  <2>8. \A s \in served[q] : run[s].proc \notin alive
    <3> SUFFICES ASSUME NEW s \in served[q], run[s].proc \in alive PROVE FALSE
      OBVIOUS
    <3>1. run[s].proc # p /\ drain[run[s].proc].pc = "await" /\ run[s].proc \in Proc
      BY <1>2, <2>1, <2>7
    <3>2. run[s].proc \notin Readonly
      BY <3>1 DEF RequestInv
    <3>3. drain[run[s].proc] # NoDrain
      BY <1>0, <3>1, DrainKinds
    <3> QED BY <2>1, <2>2, <3>1, <3>2, <3>3 DEF RequestInv
  <2>9. \A o \in Readonly : drain'[o].pc # "await"
    BY <2>1, <2>4, RequestAssumption DEF RequestInv
  <2>10. \A o, x \in Proc \ Readonly : drain'[o] # NoDrain /\ drain'[x] # NoDrain => o = x
    BY <2>2, <2>4 DEF RequestInv
  <2>11. ASSUME NEW x \in Request, NEW s \in served'[x]
         PROVE  /\ run'[s] # NoRun
                /\ receipt'[x] = NoReceipt =>
                     \/ run'[s].proc \notin alive'
                     \/ drain'[run'[s].proc].pc = "await" /\ drain'[run'[s].proc].request = x
    <3>1. CASE s \in served[x]
      BY <1>1, <1>2, <2>1, <2>4, <2>7, <3>1
    <3>2. CASE s = r /\ x = q
      BY <2>3, <2>4, <2>6, <3>2
    <3> QED BY <2>4, <2>11, <3>1, <3>2
  <2>12. ASSUME NEW x \in Request, NEW s \in served'[x], NEW t \in served'[x], s # t
         PROVE  {run'[s].proc, run'[t].proc} \ alive' # {}
    <3>1. CASE s \in served[x] /\ t \in served[x]
      BY <1>1, <1>2, <2>12, <3>1 DEF RequestInv, RequestRunOnce
    <3>2. CASE x = q /\ (s \in served[q] \/ t \in served[q])
      BY <1>1, <1>2, <2>8, <3>2
    <3>3. /\ s \in served[x] \/ (s = r /\ x = q)
          /\ t \in served[x] \/ (t = r /\ x = q)
      BY <2>4, <2>12
    <3> QED BY <2>12, <3>1, <3>2, <3>3
  <2> QED BY <1>1, <2>5, <2>9, <2>10, <2>11, <2>12 DEF RequestInv, RequestRunOnce
<1>11. CASE UNCHANGED vars
  BY <1>5, <1>11 DEF vars, requestVars
<1> QED BY <1>5, <1>6, <1>7, <1>8, <1>9, <1>10, <1>11 DEF Next, DrainStep, CommandLine

\* A request that has a run is run again only after a process that ran it died:
\* `processGoalRequest' looks for the receipt, and the drain that ran it is
\* the only one that may write (opsboard/goal-request-port.ts).
THEOREM RequestsRunOnce == Spec => []RequestRunOnce
<1>1. RequestInv => RequestRunOnce
  BY DEF RequestInv
<1>2. RequestInv /\ [Next]_vars => RequestInv'
  BY RequestInvNext
<1> QED BY RequestInvInit, <1>1, <1>2, PTL DEF Spec

-----------------------------------------------------------------------------
(* Goals: the theorems for starts and resumes that take turns *)

GoalInv == BaseInv /\ Solo /\ Once /\ BudgetInv

LEMMA GoalInvNext ==
    ASSUME ~ResumeLive, GoalInv, [Next]_vars
    PROVE  GoalInv' /\ KeepsAttempts
<1>1. GoalStep
  BY NextIsGoalStep DEF GoalInv
<1>2. BaseInv'
  BY <1>1, BaseInvNext DEF GoalInv
<1> QED
  BY <1>1, <1>2, SoloNext, OnceNext, BudgetInvNext, AttemptsStay DEF GoalInv

\* The invariant holds of every run of the goals and the requests for them, when
\* no goal is begun at the time of another's start and none resumed while it runs.
THEOREM GoalInvariant ==
    ASSUME ~ResumeLive
    PROVE  Spec => []GoalInv
<1>1. Init => GoalInv
  BY BaseInvInit, SoloInit, OnceInit, BudgetInvInit DEF Init, GoalInv
<1>2. GoalInv /\ [Next]_vars => GoalInv'
  BY GoalInvNext
<1> QED BY <1>1, <1>2, PTL DEF Spec

\* The tasks of one goal only are worked on, however many processes run goals
\* and whenever they die: the live holder of the lease is respected
\* (acquireLease, goal-runner/runner.ts).
THEOREM GoalsTakeTurns ==
    ASSUME ~ResumeLive
    PROVE  Spec => []OneActiveGoal
<1>1. GoalInv => OneActiveGoal
  <2> SUFFICES ASSUME GoalInv, NEW r \in Run, NEW q \in Run, Past(r), Past(q)
               PROVE  run[r].goal = run[q].goal
    BY DEF OneActiveGoal, Past
  <2> QED BY OnePast DEF GoalInv
<1> QED BY <1>1, GoalInvariant, PTL

\* A task is executed at most once, though all goals share a key and get hold
\* of each other's tasks, and die and are resumed (runGoal, assignHand).
THEOREM TasksExecutedOnce ==
    ASSUME ~ResumeLive
    PROVE  Spec => []ExecutedOnce
<1>1. GoalInv => ExecutedOnce
  BY DEF GoalInv, Once, ExecutedOnce
<1> QED BY <1>1, GoalInvariant, PTL

\* Nothing makes a goal forget what it attempted, and nothing is executed that
\* no goal's file has counted (recordAttempt before assignHand).
THEOREM AttemptsAreKept ==
    ASSUME ~ResumeLive
    PROVE  Spec => AttemptsKept
<1>1. GoalInv /\ [Next]_vars => [KeepsAttempts]_goalVars
  BY GoalInvNext
<1>2. Spec => [][KeepsAttempts]_goalVars
  BY <1>1, GoalInvariant, PTL DEF Spec
<1>3. [][KeepsAttempts]_goalVars => AttemptsKept
  BY PTL DEF AttemptsKept, KeepsAttempts
<1> QED BY <1>2, <1>3

-----------------------------------------------------------------------------
(* Supervised assists *)

Begun(s) == session[s] # NoSession
AtField(s) == session[s].pc \in {"look", "fill"}

\* A session at a field is at one of its pack's.
InPack ==
    \A s \in Session : AtField(s) => session[s].at \in 1 .. Len(session[s].pack.fields)

\* Only a session that passed the gates gets to the fields.
Gated ==
    \A s \in Session :
        /\ AtField(s) => session[s].valid
        /\ filled[s] # {} => Begun(s) /\ session[s].valid

\* The sessions that passed the gates used up a capability each.
OneEach ==
    \A s, t \in Session :
        /\ Begun(s) /\ session[s].valid => session[s].capability \in consumed
        /\ Begun(s) /\ session[s].valid /\ Begun(t) /\ session[t].valid
             /\ session[s].capability = session[t].capability => s = t

\* The field to be filled has been looked at.
LookedAt == \A s \in Session : session[s].pc = "fill" => page[FieldOf(s)] # "sensitive"

AssistInv ==
    /\ AssistTypeOK /\ InPack /\ Gated /\ OneEach
    /\ ~Volatile => LookedAt /\ SensitiveNeverFilled

LEMMA PackHasFields ==
    ASSUME NEW pack \in Pack
    PROVE  /\ pack.fields \in Seq(Field)
           /\ Len(pack.fields) \in Nat
           /\ 1 \in 1 .. Len(pack.fields)
           /\ \A i \in 1 .. Len(pack.fields) : pack.fields[i] \in Field
BY AssistAssumption

LEMMA SessionRecord ==
    ASSUME AssistTypeOK, NEW s \in Session
    PROVE  /\ session[s] = NoSession => session[s].pc = "off"
           /\ session[s] # NoSession =>
                /\ session[s] \in [pc : {"look", "fill", "done"}, pack : Pack,
                                   capability : Capability, at : Nat, valid : BOOLEAN]
                /\ session[s].pc # "off"
BY DEF AssistTypeOK, SessionState, NoSession

LEMMA AssistInvInit == AssistInit => AssistInv
BY DEF AssistInit, AssistInv, AssistTypeOK, SessionState, NoSession, InPack, Gated, OneEach,
       LookedAt, SensitiveNeverFilled, Begun, AtField

LEMMA ApprovalInv ==
    ASSUME AssistInv, NEW c \in Capability, NEW pack \in Pack, RequestApproval(c, pack)
    PROVE  AssistInv'
BY DEF AssistInv, AssistTypeOK, InPack, Gated, OneEach, LookedAt, SensitiveNeverFilled, Begun,
       AtField, FieldOf, RequestApproval

LEMMA ExpiryInv ==
    ASSUME AssistInv, NEW pack \in Pack, PackExpires(pack)
    PROVE  AssistInv'
BY DEF AssistInv, AssistTypeOK, InPack, Gated, OneEach, LookedAt, SensitiveNeverFilled, Begun,
       AtField, FieldOf, PackExpires

LEMMA PageInv ==
    ASSUME AssistInv, NEW f \in Field,
           NEW kind \in {"plain", "sensitive", "absent"}, PageChanges(f, kind)
    PROVE  AssistInv'
BY DEF AssistInv, AssistTypeOK, InPack, Gated, OneEach, LookedAt, SensitiveNeverFilled, Begun,
       AtField, FieldOf, PageChanges

LEMMA GatesInv ==
    ASSUME AssistInv, NEW s \in Session, NEW c \in Capability, RunSupervisedAssist(s, c)
    PROVE  AssistInv'
<1> DEFINE pack == approved[c]
           gated == c \notin consumed /\ Valid(pack)
           new == [pc |-> IF gated THEN "look" ELSE "done", pack |-> pack, capability |-> c,
                   at |-> 1, valid |-> gated]
<1>1. pack \in Pack /\ gated \in BOOLEAN
  BY DEF RunSupervisedAssist, AssistInv, AssistTypeOK
<1>2. session' = [session EXCEPT ![s] = new]
  BY DEF RunSupervisedAssist, Valid
<1>3. /\ consumed' = IF c \in consumed THEN consumed ELSE consumed \cup {c}
      /\ session[s] = NoSession
      /\ UNCHANGED <<page, expired, approved, filled>>
  BY DEF RunSupervisedAssist, ConsumeCapability
<1>4. session'[s] = new /\ \A t \in Session : t # s => session'[t] = session[t]
  BY <1>2 DEF AssistInv, AssistTypeOK
<1>5. /\ new.pc \in {"look", "done"} /\ new.pack = pack /\ new.capability = c
      /\ new.at = 1 /\ new.valid = gated /\ (new.pc = "look" => gated)
  OBVIOUS
<1>6. new \in SessionState /\ new # NoSession
  BY <1>1 DEF SessionState, NoSession
<1> HIDE DEF new
<1>7. AssistTypeOK'
  BY <1>1, <1>2, <1>3, <1>6 DEF AssistInv, AssistTypeOK
<1>8. InPack'
  BY <1>1, <1>4, <1>5, PackHasFields DEF AssistInv, InPack, AtField
<1>9. Gated'
  <2>1. filled[s] = {}
    BY <1>3 DEF AssistInv, Gated, Begun
  <2> QED BY <1>3, <1>4, <1>5, <1>6, <2>1 DEF AssistInv, Gated, Begun, AtField
<1>10. OneEach'
  <2>1. gated => c \notin consumed
    OBVIOUS
  <2> HIDE DEF gated, pack
  <2>2. gated = new.valid /\ c \in consumed' /\ consumed \subseteq consumed'
    BY <1>3, <1>5
  <2>3. ASSUME NEW t \in Session, Begun(t)', session'[t].valid
        PROVE  session'[t].capability \in consumed'
    BY <1>4, <1>5, <2>2, <2>3 DEF AssistInv, OneEach, Begun
  <2>4. ASSUME NEW t \in Session, t # s, Begun(t)', session'[t].valid, session'[s].valid
        PROVE  session'[t].capability # session'[s].capability
    BY <1>4, <1>5, <2>1, <2>2, <2>4 DEF AssistInv, OneEach, Begun
  <2>5. ASSUME NEW t \in Session, NEW u \in Session, t # u,
               Begun(t)', session'[t].valid, Begun(u)', session'[u].valid
        PROVE  session'[t].capability # session'[u].capability
    BY <1>4, <2>4, <2>5 DEF AssistInv, OneEach, Begun
  <2> QED BY <2>3, <2>5 DEF OneEach, Begun
<1>11. ~Volatile => LookedAt' /\ SensitiveNeverFilled'
  BY <1>3, <1>4, <1>5 DEF AssistInv, LookedAt, SensitiveNeverFilled, FieldOf
<1> QED BY <1>7, <1>8, <1>9, <1>10, <1>11 DEF AssistInv

LEMMA LookInv ==
    ASSUME AssistInv, NEW s \in Session, LookAtField(s)
    PROVE  AssistInv'
<1>1. PICK fails \in {FALSE, Volatile} :
        /\ session[s].pc = "look"
        /\ session' = [session EXCEPT ![s].pc =
                         IF ~fails /\ Denied(FieldOf(s)) THEN "done" ELSE "fill"]
        /\ UNCHANGED <<page, expired, approved, consumed, filled>>
  BY DEF LookAtField
<1>2. session[s] # NoSession
  BY <1>1 DEF NoSession
<1>3. session[s] \in [pc : {"look", "fill", "done"}, pack : Pack, capability : Capability,
                      at : Nat, valid : BOOLEAN]
  BY <1>2, SessionRecord DEF AssistInv
<1>4. /\ session'[s] = [session[s] EXCEPT !.pc = IF ~fails /\ Denied(FieldOf(s)) THEN "done" ELSE "fill"]
      /\ \A t \in Session : t # s => session'[t] = session[t]
  BY <1>1 DEF AssistInv, AssistTypeOK
<1>5. /\ session'[s] \in SessionState /\ session'[s] # NoSession
      /\ session'[s].pc \in {"fill", "done"}
      /\ session'[s].pc = "fill" /\ ~fails => ~Denied(FieldOf(s))
      /\ session'[s].pack = session[s].pack /\ session'[s].at = session[s].at
      /\ session'[s].valid = session[s].valid
      /\ session'[s].capability = session[s].capability
  BY <1>3, <1>4 DEF SessionState, NoSession
<1>6. AssistTypeOK'
  BY <1>1, <1>4, <1>5 DEF AssistInv, AssistTypeOK
<1>7. InPack' /\ Gated'
  BY <1>1, <1>2, <1>4, <1>5 DEF AssistInv, InPack, Gated, AtField, Begun
<1>8. OneEach'
  BY <1>1, <1>2, <1>4, <1>5 DEF AssistInv, OneEach, Begun
<1>9. ~Volatile => LookedAt' /\ SensitiveNeverFilled'
  <2> SUFFICES ASSUME ~Volatile PROVE LookedAt' /\ SensitiveNeverFilled'
    OBVIOUS
  <2>1. Volatile = FALSE
    BY AssistAssumption
  <2>2. ~fails
    BY <1>1, <2>1
  <2> QED BY <1>1, <1>4, <1>5, <2>2 DEF AssistInv, LookedAt, SensitiveNeverFilled, FieldOf, Denied
<1> QED BY <1>6, <1>7, <1>8, <1>9 DEF AssistInv

LEMMA FillInv ==
    ASSUME AssistInv, NEW s \in Session, FillField(s)
    PROVE  AssistInv'
<1>1. /\ session[s].pc = "fill" /\ session[s] # NoSession
      /\ UNCHANGED <<page, expired, approved, consumed>>
  BY DEF FillField, NoSession
<1>2. session[s] \in [pc : {"look", "fill", "done"}, pack : Pack, capability : Capability,
                      at : Nat, valid : BOOLEAN]
  BY <1>1, SessionRecord DEF AssistInv
<1>3. session[s].valid /\ session[s].at \in 1 .. Len(session[s].pack.fields)
  BY <1>1 DEF AssistInv, Gated, InPack, AtField
<1>4. FieldOf(s) \in Field /\ Len(session[s].pack.fields) \in Nat
  BY <1>2, <1>3, PackHasFields DEF FieldOf
<1>5. /\ page[FieldOf(s)] \in {"plain", "sensitive", "absent"}
      /\ ~Volatile => page[FieldOf(s)] # "sensitive"
  BY <1>1, <1>4 DEF AssistInv, AssistTypeOK, LookedAt
<1>6. /\ \A t \in Session : t # s => session'[t] = session[t]
      /\ session'[s] \in SessionState /\ session'[s] # NoSession
      /\ session'[s].pc \in {"look", "done"}
      /\ session'[s].pc = "look" => session'[s].at \in 1 .. Len(session[s].pack.fields)
      /\ session'[s].pack = session[s].pack /\ session'[s].valid = session[s].valid
      /\ session'[s].capability = session[s].capability
      /\ session' \in [Session -> SessionState]
  <2>1. CASE /\ page[FieldOf(s)] # "absent"
             /\ session' = [session EXCEPT
                  ![s].at = @ + 1,
                  ![s].pc = IF session[s].at = Len(session[s].pack.fields) THEN "done" ELSE "look"]
    <3> DEFINE next == [session[s] EXCEPT !.at = @ + 1]
               onto == IF session[s].at = Len(session[s].pack.fields) THEN "done" ELSE "look"
    <3>1. session'[s] = [next EXCEPT !.pc = onto]
      BY <2>1 DEF AssistInv, AssistTypeOK
    <3>2. /\ next \in [pc : {"look", "fill", "done"}, pack : Pack, capability : Capability,
                      at : Nat, valid : BOOLEAN]
          /\ next.at = session[s].at + 1 /\ next.pack = session[s].pack
          /\ next.valid = session[s].valid /\ next.capability = session[s].capability
      BY <1>2
    <3>3. /\ onto \in {"look", "done"}
          /\ onto = "look" => session[s].at # Len(session[s].pack.fields)
      OBVIOUS
    <3> HIDE DEF next, onto
    <3>4. /\ session'[s] \in [pc : {"look", "fill", "done"}, pack : Pack,
                               capability : Capability, at : Nat, valid : BOOLEAN]
          /\ session'[s].pc = onto
          /\ session'[s].at = session[s].at + 1
          /\ session'[s].pack = session[s].pack
          /\ session'[s].valid = session[s].valid
          /\ session'[s].capability = session[s].capability
      BY <3>1, <3>2, <3>3
    <3>5. session'[s] \in SessionState /\ session'[s] # NoSession
      BY <3>4 DEF SessionState, NoSession
    <3>6. session'[s].pc = "look" => session'[s].at \in 1 .. Len(session[s].pack.fields)
      BY <1>3, <1>4, <3>4, <3>3
    <3>7. session' \in [Session -> SessionState] /\ \A t \in Session : t # s => session'[t] = session[t]
      BY <2>1, <3>5 DEF AssistInv, AssistTypeOK
    <3> QED BY <3>4, <3>7, <3>5, <3>6, <3>3
  <2>2. CASE session' = [session EXCEPT ![s].pc = "done"]
    <3>1. session'[s] = [session[s] EXCEPT !.pc = "done"]
      BY <2>2 DEF AssistInv, AssistTypeOK
    <3>2. session'[s] \in SessionState /\ session'[s] # NoSession
      BY <1>2, <3>1 DEF SessionState, NoSession
    <3>3. session' \in [Session -> SessionState] /\ \A t \in Session : t # s => session'[t] = session[t]
      BY <2>2, <3>2 DEF AssistInv, AssistTypeOK
    <3> QED BY <1>2, <3>1, <3>2, <3>3
  <2> QED BY <2>1, <2>2 DEF FillField
<1>7. /\ filled' \in [Session -> SUBSET (Field \X {"plain", "sensitive"})]
      /\ \A t \in Session : t # s => filled'[t] = filled[t]
      /\ ~Volatile => \A f \in Field : <<f, "sensitive">> \notin filled'[s]
  <2>1. CASE /\ page[FieldOf(s)] # "absent"
             /\ filled' = [filled EXCEPT ![s] = @ \cup {<<FieldOf(s), page[FieldOf(s)]>>}]
    <3>1. /\ page[FieldOf(s)] \in {"plain", "sensitive"}
          /\ ~Volatile => page[FieldOf(s)] = "plain"
      BY <1>5, <2>1
    <3> QED BY <1>4, <2>1, <3>1 DEF AssistInv, AssistTypeOK, SensitiveNeverFilled
  <2>2. CASE UNCHANGED filled
    BY <2>2 DEF AssistInv, AssistTypeOK, SensitiveNeverFilled
  <2> QED BY <2>1, <2>2 DEF FillField
<1>8. AssistTypeOK'
  BY <1>1, <1>6, <1>7 DEF AssistInv, AssistTypeOK
<1>9. InPack' /\ Gated'
  BY <1>1, <1>3, <1>6, <1>7 DEF AssistInv, InPack, Gated, AtField, Begun
<1>10. OneEach'
  BY <1>1, <1>6 DEF AssistInv, OneEach, Begun
<1>11. ~Volatile => LookedAt' /\ SensitiveNeverFilled'
  BY <1>1, <1>6, <1>7 DEF AssistInv, LookedAt, SensitiveNeverFilled, FieldOf
<1> QED BY <1>8, <1>9, <1>10, <1>11 DEF AssistInv

LEMMA AssistInvNext ==
    ASSUME AssistInv, [AssistNext]_assistVars
    PROVE  AssistInv'
<1>1. CASE UNCHANGED assistVars
  BY <1>1 DEF assistVars, AssistInv, AssistTypeOK, InPack, Gated, OneEach, LookedAt,
              SensitiveNeverFilled, Begun, AtField, FieldOf
<1> QED
  BY <1>1, ApprovalInv, ExpiryInv, PageInv, GatesInv, LookInv, FillInv DEF AssistNext

\* The invariant holds of every run of the sessions (hands/supervised-assist.ts).
THEOREM AssistInvariant == AssistSpec => []AssistInv
<1>1. AssistInv /\ [AssistNext]_assistVars => AssistInv'
  BY AssistInvNext
<1> QED BY AssistInvInit, <1>1, PTL DEF AssistSpec

\* A session fills a page only after an approval of its own, given for a pack
\* that was whole and in time at the gate, whatever the page does meanwhile
\* (the capability is used up before the pack is validated).
THEOREM ApprovedOnceForOne == AssistSpec => [](ApprovalUsedOnce /\ FilledWasValid)
<1>1. AssistInv => ApprovalUsedOnce /\ FilledWasValid
  BY DEF AssistInv, ApprovalUsedOnce, FilledWasValid, Gated, OneEach
<1> QED BY AssistInvariant, <1>1, PTL

\* And no credential is filled in either, as long as the page does not change
\* between a look and its fill, and the look does not fail.
THEOREM OnlyApprovedFills ==
    ASSUME ~Volatile
    PROVE  AssistSpec => []FillsAreApproved
<1>1. AssistInv => FillsAreApproved
  BY DEF AssistInv, FillsAreApproved, ApprovalUsedOnce, FilledWasValid, Gated, OneEach
<1> QED BY AssistInvariant, <1>1, PTL
=============================================================================
