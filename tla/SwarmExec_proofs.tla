-------------------------- MODULE SwarmExec_proofs ---------------------------
(***************************************************************************)
(* Proofs about SwarmExec and the ResearchSwarm it runs, for any number of *)
(* runs, drafts, workers, providers and artifacts: a status that speaks of *)
(* agreement rests on the judge and on a clean answer, a bundle that has   *)
(* its bundle.json is whole, and a verified task has the receipt of a run  *)
(* that came out 'done'.                                                   *)
(***************************************************************************)
EXTENDS SwarmExec, FiniteSetTheorems, TLAPS

-----------------------------------------------------------------------------
(* The invariants *)

AfterSwarm == {"bundle", "submit", "evidence", "submitted", "verify", "done"}

\* A run's bundle has its bundle.json once it is whole, after what the swarm
\* brought was taken over; nothing of either changes any more.
RunSound(e) ==
    /\ bundle[e].proof # "none" =>
         /\ bundle[e].artifacts = Artifacts
         /\ swarm[e].pc = "taken"
         /\ exec[e].pc \in AfterSwarm \ {"bundle"}
    /\ bundle[e].proof = "verified" => Completed(swarm[e])
    /\ exec[e].pc = "bundle" => swarm[e].pc = "taken"
    /\ swarm[e].pc = "taken" => exec[e].pc \in AfterSwarm

\* A task waits for a verdict with a receipt to look at, and is verified with
\* that of a bundle that was.
TaskSound(d) ==
    task[d] # NoTask =>
        /\ task[d].status = "evidence-submitted" => task[d].receipts # <<>>
        /\ task[d].status = "verified" =>
             \E e \in ToSet(task[d].receipts) : bundle[e].proof = "verified"

\* A run works on a task, and hands its receipt in before it says so.
RunOfTask(e) ==
    exec[e].pc # "off" =>
        /\ task[exec[e].draft] # NoTask
        /\ exec[e].pc = "submitted" => task[exec[e].draft].receipts # <<>>

SwarmExecInv ==
    /\ TypeOK /\ HonestStatus
    /\ \A e \in Exec : RunSound(e) /\ RunOfTask(e)
    /\ \A d \in Draft : TaskSound(d)

-----------------------------------------------------------------------------
(* The swarm *)

WorkerStates ==
    [Worker -> [status : {"waiting", "routed"} \cup Settled,
                provider : DOMAIN FamilyOf \cup {"none"}]]
Asking == [pc : {"workers", "judge"}, late : BOOLEAN, workers : WorkerStates]
SwarmState == {NoSwarm} \cup Outcome \cup Asking

\* HonestStatus, of one run.
Honest(s) ==
    s.pc = "ended" /\ s.status \in {"SUCCESS", "LIMITED_DIVERSITY"} =>
        s.judge = "ok" /\ s.clean >= 1

\* What the swarm does of itself: one run changes, and is not taken yet.
SwarmMoves(e) ==
    \E s \in SwarmState : Honest(s) /\ swarm' = [swarm EXCEPT ![e] = s]

LEMMA SwarmTyped ==
    ASSUME TypeOK, NEW e \in Exec
    PROVE  /\ swarm \in [Exec -> SwarmState \cup Result]
           /\ swarm[e].pc \in {"off", "workers", "judge", "ended", "taken"}
           /\ swarm[e].pc \in {"workers", "judge"} => swarm[e] \in Asking
           /\ swarm[e].pc = "ended" => swarm[e] \in Outcome
           /\ swarm[e].pc = "taken" => swarm[e] \in Result
<1>1. swarm \in [Exec -> SwarmState \cup Result]
  BY DEF TypeOK, SwarmTypeOK, SwarmState, Asking, WorkerStates, Exec
<1> QED BY <1>1 DEF SwarmState, Asking, Outcome, Result, NoSwarm

\* The clean answers are counted.
LEMMA CleanCounted ==
    ASSUME NEW e \in Exec
    PROVE  /\ Cardinality(Workers(e, {"clean"})) \in Nat
           /\ Workers(e, {"clean"}) # {} => Cardinality(Workers(e, {"clean"})) >= 1
           /\ Cardinality(Worker) \in Nat
<1>1. IsFiniteSet(Worker) /\ Workers(e, {"clean"}) \subseteq Worker
  BY SwarmAssumption DEF Workers
<1>2. IsFiniteSet(Workers(e, {"clean"}))
  BY <1>1, FS_Subset
<1> QED BY <1>1, <1>2, FS_CardinalityType, FS_EmptySet

LEMMA ConcludeMoves ==
    ASSUME NEW e \in Exec, NEW judge \in {"none", "ok", "timeout", "error"}, Conclude(e, judge),
           swarm[e].pc = "judge" \/ (swarm[e].pc = "workers" /\ (swarm[e].late \/ Workers(e, {"clean"}) = {}))
    PROVE  SwarmMoves(e)
<1>1. PICK secret \in BOOLEAN, claims \in BOOLEAN :
        swarm' = [swarm EXCEPT ![e] =
               [pc |-> "ended", judge |-> judge,
                status |-> IF secret THEN "PROVIDER_FAILURE" ELSE FinalStatusOf(e, judge),
                clean |-> Cardinality(Workers(e, {"clean"})),
                total |-> Cardinality(Worker),
                jidoka |-> claims]]
  BY DEF Conclude
<1> DEFINE status == IF secret THEN "PROVIDER_FAILURE" ELSE FinalStatusOf(e, judge)
           s == [pc |-> "ended", judge |-> judge, status |-> status,
                 clean |-> Cardinality(Workers(e, {"clean"})),
                 total |-> Cardinality(Worker), jidoka |-> claims]
<1>2. Diversity(e) \in {"SUCCESS", "LIMITED_DIVERSITY", "MULTIMODEL_UNAVAILABLE"}
  BY DEF Diversity
<1>3. /\ FinalStatusOf(e, judge) \in
           {"SUCCESS", "LIMITED_DIVERSITY", "MULTIMODEL_UNAVAILABLE", "TIMEOUT",
            "PROVIDER_FAILURE", "JUDGE_FAILURE"}
      /\ FinalStatusOf(e, judge) \in {"SUCCESS", "LIMITED_DIVERSITY"} =>
           judge = "ok" /\ Workers(e, {"clean"}) # {}
  <2>1. CASE swarm[e].pc = "workers" /\ swarm[e].late
    BY <2>1 DEF FinalStatusOf
  <2>2. CASE ~(swarm[e].pc = "workers" /\ swarm[e].late) /\ Workers(e, {"clean"}) = {}
    BY <2>2 DEF FinalStatusOf
  <2>3. CASE /\ ~(swarm[e].pc = "workers" /\ swarm[e].late)
             /\ Workers(e, {"clean"}) # {} /\ judge # "ok"
    BY <2>3 DEF FinalStatusOf
  <2>4. CASE /\ ~(swarm[e].pc = "workers" /\ swarm[e].late)
             /\ Workers(e, {"clean"}) # {} /\ judge = "ok"
    BY <1>2, <2>4 DEF FinalStatusOf
  <2> QED BY <2>1, <2>2, <2>3, <2>4
<1>4. s \in Outcome /\ Honest(s)
  <2>1. status \in {"SUCCESS", "LIMITED_DIVERSITY", "MULTIMODEL_UNAVAILABLE", "TIMEOUT",
                    "PROVIDER_FAILURE", "JUDGE_FAILURE"}
        /\ (status \in {"SUCCESS", "LIMITED_DIVERSITY"} => judge = "ok" /\ Workers(e, {"clean"}) # {})
    BY <1>3
  <2> HIDE DEF status
  <2> QED BY <2>1, CleanCounted DEF Outcome, Honest
<1> QED BY <1>1, <1>4 DEF SwarmMoves, SwarmState

LEMMA WorkerMoves ==
    ASSUME TypeOK, NEW e \in Exec, swarm[e].pc = "workers", NEW w \in Worker,
           NEW status \in {"waiting", "routed"} \cup Settled,
           NEW provider \in DOMAIN FamilyOf \cup {"none"}, SetWorker(e, w, status, provider)
    PROVE  SwarmMoves(e)
<1> DEFINE s == [pc |-> "workers", late |-> swarm[e].late,
                 workers |-> [swarm[e].workers EXCEPT ![w] = [status |-> status, provider |-> provider]]]
<1>1. swarm[e].late \in BOOLEAN /\ swarm[e].workers \in WorkerStates
  BY SwarmTyped DEF Asking
<1>2. s.workers \in WorkerStates
  BY <1>1 DEF WorkerStates
<1>3. s \in Asking /\ Honest(s)
  BY <1>1, <1>2 DEF Asking, Honest
<1>4. swarm' = [swarm EXCEPT ![e] = s]
  BY DEF SetWorker
<1> QED BY <1>3, <1>4 DEF SwarmMoves, SwarmState

LEMMA AskingFields ==
    ASSUME NEW s \in Asking
    PROVE  s = [pc |-> s.pc, late |-> s.late, workers |-> s.workers]
BY DEF Asking

LEMMA SwarmStepMoves ==
    ASSUME TypeOK, NEW e \in Exec, SwarmStep(e)
    PROVE  SwarmMoves(e) /\ swarm[e].pc \in {"workers", "judge"}
<1>1. ASSUME NEW w \in Worker, NotRouted(e, w) \/ Route(e, w) \/ Answer(e, w) \/ WorkerTimeout(e, w)
      PROVE  SwarmMoves(e) /\ swarm[e].pc = "workers"
  <2>1. swarm[e].pc = "workers"
    BY <1>1 DEF NotRouted, Route, Answer, WorkerTimeout, Is
  <2>2. swarm[e].workers[w].provider \in DOMAIN FamilyOf \cup {"none"}
    BY <2>1, SwarmTyped DEF Asking, WorkerStates
  <2>3. ASSUME NEW status \in Settled, Settle(e, w, status) PROVE SwarmMoves(e)
    BY <2>1, <2>2, <2>3, WorkerMoves DEF Settle
  <2>4. CASE Route(e, w)
    <3>1. PICK p \in Routes[w] : SetWorker(e, w, "routed", p)
      BY <2>4 DEF Route
    <3>2. p \in DOMAIN FamilyOf
      BY SwarmAssumption
    <3> QED BY <2>1, <3>1, <3>2, WorkerMoves
  <2> QED BY <1>1, <2>1, <2>3, <2>4 DEF NotRouted, Answer, WorkerTimeout, Settled
<1>2. CASE DeadlinePasses(e)
  <2> DEFINE s == [pc |-> "workers", late |-> TRUE, workers |-> swarm[e].workers]
  <2>1. swarm[e] \in Asking /\ swarm[e].pc = "workers"
    BY <1>2, SwarmTyped DEF DeadlinePasses
  <2>2. s \in SwarmState /\ Honest(s)
    BY <2>1 DEF SwarmState, Asking, Honest
  <2>3. swarm' = [swarm EXCEPT ![e] = s]
    BY <1>2 DEF DeadlinePasses
  <2> HIDE DEF s
  <2> QED BY <2>1, <2>2, <2>3 DEF SwarmMoves
<1>3. CASE WorkersThrough(e)
  <2>1. swarm[e] \in Asking /\ swarm[e].pc = "workers"
    BY <1>3, SwarmTyped DEF WorkersThrough
  <2>2. CASE swarm[e].late \/ Workers(e, {"clean"}) = {}
    BY <1>3, <2>1, <2>2, ConcludeMoves DEF WorkersThrough
  <2>3. CASE ~(swarm[e].late \/ Workers(e, {"clean"}) = {})
    <3> DEFINE s == [pc |-> "judge", late |-> swarm[e].late, workers |-> swarm[e].workers]
    <3>1. s \in SwarmState /\ Honest(s)
      BY <2>1 DEF SwarmState, Asking, Honest
    <3>2. [swarm[e] EXCEPT !.pc = "judge"] = s
      BY <2>1, AskingFields
    <3>3. swarm' = [swarm EXCEPT ![e] = s]
      BY <1>3, <2>3, <3>2 DEF WorkersThrough
    <3> HIDE DEF s
    <3> QED BY <2>1, <3>1, <3>3 DEF SwarmMoves
  <2> QED BY <2>1, <2>2, <2>3
<1>4. CASE JudgeAnswers(e) \/ JudgeTimeout(e)
  BY <1>4, ConcludeMoves DEF JudgeAnswers, JudgeTimeout
<1> QED BY <1>1, <1>2, <1>3, <1>4 DEF SwarmStep

LEMMA StartMoves ==
    ASSUME NEW e \in Exec, StartSwarm(e) \/ NoProviders(e)
    PROVE  SwarmMoves(e) /\ swarm[e] = NoSwarm
<1>1. CASE StartSwarm(e)
  <2> DEFINE s == [pc |-> "workers", late |-> FALSE,
                   workers |-> [w \in Worker |-> [status |-> "waiting", provider |-> "none"]]]
  <2>1. s \in SwarmState /\ Honest(s)
    BY DEF SwarmState, Asking, WorkerStates, Honest
  <2> QED BY <1>1, <2>1 DEF StartSwarm, SwarmMoves
<1>2. CASE NoProviders(e)
  <2> DEFINE s == [pc |-> "ended", status |-> "MULTIMODEL_UNAVAILABLE", judge |-> "none",
                   clean |-> 0, total |-> 0, jidoka |-> FALSE]
  <2>1. s \in SwarmState /\ Honest(s)
    BY DEF SwarmState, Outcome, Honest
  <2> QED BY <1>2, <2>1 DEF NoProviders, SwarmMoves
<1> QED BY <1>1, <1>2

-----------------------------------------------------------------------------
(* What a step does *)

TaskState == [status : Status, owner : {"atlas", "swarm-local"}, receipts : Seq(Exec)]
BundleState == [artifacts : 0 .. Artifacts, proof : {"none", "verified", "rejected"}]
ExecState ==
    {NoExec} \cup [pc : Pc, draft : Draft]
    \cup [pc : {"done"}, draft : Draft,
          status : {"verified", "rejected", "blocked", "threw", "died"}]

LEMMA ExecTyped ==
    ASSUME TypeOK, NEW e \in Exec
    PROVE  /\ exec \in [Exec -> ExecState] /\ bundle \in [Exec -> BundleState]
           /\ task \in [Draft -> TaskState \cup {NoTask}]
           /\ exec[e].pc \in Pc \cup {"off", "done"}
           /\ exec[e].pc # "off" => exec[e].draft \in Draft
           /\ exec[e].pc \in Pc => exec[e] = [pc |-> exec[e].pc, draft |-> exec[e].draft]
           /\ exec[e].pc = "off" => exec[e] = NoExec
<1>1. /\ exec \in [Exec -> ExecState] /\ bundle \in [Exec -> BundleState]
      /\ task \in [Draft -> TaskState \cup {NoTask}]
  BY DEF TypeOK, ExecTypeOK, ExecState, BundleState, TaskState
<1> QED BY <1>1 DEF ExecState, Pc, NoExec

\* The run goes on, or it ends.
Goes(e, pc) ==
    exec' = [exec EXCEPT ![e] = [pc |-> pc, draft |-> exec[e].draft]]
Ends(e) ==
    \E status \in {"verified", "rejected", "blocked", "threw", "died"} :
        exec' = [exec EXCEPT ![e] = [pc |-> "done", draft |-> exec[e].draft, status |-> status]]

LEMMA Going ==
    ASSUME TypeOK, NEW e \in Exec, exec[e].pc \in Pc, NEW pc \in Pc, Goto(e, pc)
    PROVE  Goes(e, pc)
<1>1. [exec[e] EXCEPT !.pc = pc] = [pc |-> pc, draft |-> exec[e].draft]
  <2>1. exec[e] = [pc |-> exec[e].pc, draft |-> exec[e].draft]
    BY ExecTyped
  <2> QED BY <2>1
<1>2. exec' = [exec EXCEPT ![e] = [exec[e] EXCEPT !.pc = pc]]
  BY DEF Goto
<1> QED BY <1>1, <1>2 DEF Goes

\* What becomes of a task: it is new, its status or its owner is another, or it
\* has one receipt more.
Restatus(d, to) ==
    /\ task[d] # NoTask
    /\ task' = [task EXCEPT ![d] =
           [status |-> to, owner |-> task[d].owner, receipts |-> task[d].receipts]]

LEMMA Restated ==
    ASSUME TypeOK, NEW d \in Draft, task[d] # NoTask, NEW to,
           task' = [task EXCEPT ![d].status = to]
    PROVE  Restatus(d, to)
<1>1. task[d] \in TaskState
  BY DEF TypeOK, ExecTypeOK, TaskState
<1>2. [task[d] EXCEPT !.status = to] = [status |-> to, owner |-> task[d].owner, receipts |-> task[d].receipts]
  BY <1>1 DEF TaskState
<1>3. task' = [task EXCEPT ![d] = [task[d] EXCEPT !.status = to]]
  OBVIOUS
<1> QED BY <1>2, <1>3 DEF Restatus

\* A task that is as TaskSound says, and keeps its receipts.
Fine(t) ==
    /\ t.status = "evidence-submitted" => t.receipts # <<>>
    /\ t.status = "verified" => \E e \in ToSet(t.receipts) : bundle[e].proof = "verified"

TaskMoves(d) ==
    \E t \in TaskState :
        /\ task' = [task EXCEPT ![d] = t]
        /\ Fine(t)
        /\ task[d] # NoTask /\ task[d].receipts # <<>> => t.receipts # <<>>

\* What bundle.json says is not written again.
BundlesKept == \A e \in Exec : bundle[e].proof # "none" => bundle'[e] = bundle[e]

LEMMA TasksKept ==
    ASSUME SwarmExecInv, NEW d \in Draft, TaskMoves(d) \/ UNCHANGED task, BundlesKept
    PROVE  /\ task' \in [Draft -> TaskState \cup {NoTask}]
           /\ \A x \in Draft : TaskSound(x)'
           /\ \A x \in Draft : task[x] # NoTask =>
                /\ task'[x] # NoTask
                /\ task[x].receipts # <<>> => task'[x].receipts # <<>>
<1>1. task \in [Draft -> TaskState \cup {NoTask}] /\ \A x \in Draft : TaskSound(x)
  BY DEF SwarmExecInv, TypeOK, ExecTypeOK, TaskState
<1>2. \A t \in TaskState : t # NoTask /\ \A e \in ToSet(t.receipts) : e \in Exec
  BY DEF TaskState, NoTask, ToSet
<1>3. \A t \in TaskState : Fine(t) =>
        /\ t.status = "evidence-submitted" => t.receipts # <<>>
        /\ t.status = "verified" =>
             \E e \in ToSet(t.receipts) : bundle'[e].proof = "verified"
  BY <1>2 DEF Fine, BundlesKept
<1>4. \A x \in Draft : task[x] # NoTask => task[x] \in TaskState /\ Fine(task[x])
  BY <1>1 DEF TaskSound, Fine
<1>5. CASE UNCHANGED task
  BY <1>1, <1>3, <1>4, <1>5 DEF TaskSound
<1>6. CASE TaskMoves(d)
  <2>1. PICK t \in TaskState : /\ task' = [task EXCEPT ![d] = t] /\ Fine(t)
                               /\ task[d] # NoTask /\ task[d].receipts # <<>> => t.receipts # <<>>
    BY <1>6 DEF TaskMoves
  <2>2. task'[d] = t /\ \A x \in Draft : x # d => task'[x] = task[x]
    BY <1>1, <2>1
  <2>3. \A x \in Draft : task'[x] # NoTask => task'[x] \in TaskState /\ Fine(task'[x])
    BY <1>4, <2>1, <2>2
  <2>4. task' \in [Draft -> TaskState \cup {NoTask}]
    BY <1>1, <2>1
  <2>5. \A x \in Draft : TaskSound(x)'
    <3> SUFFICES ASSUME NEW x \in Draft, task'[x] # NoTask
                 PROVE  /\ task'[x].status = "evidence-submitted" => task'[x].receipts # <<>>
                        /\ task'[x].status = "verified" =>
                             \E e \in ToSet(task'[x].receipts) : bundle'[e].proof = "verified"
      BY DEF TaskSound
    <3>1. PICK u \in TaskState : u = task'[x] /\ Fine(u)
      BY <2>3
    <3> QED BY <1>3, <3>1
  <2>6. t # NoTask
    BY <1>2
  <2> QED BY <2>1, <2>2, <2>4, <2>5, <2>6
<1> QED BY <1>5, <1>6

LEMMA RunsKept ==
    ASSUME SwarmExecInv, NEW e \in Exec, RunSound(e)', RunOfTask(e)',
           \A c \in Exec : c # e => /\ exec'[c] = exec[c] /\ bundle'[c] = bundle[c]
                                    /\ swarm'[c] = swarm[c],
           NEW d \in Draft, TaskMoves(d) \/ UNCHANGED task, BundlesKept
    PROVE  \A c \in Exec : RunSound(c)' /\ RunOfTask(c)'
<1> SUFFICES ASSUME NEW c \in Exec, c # e PROVE RunSound(c)' /\ RunOfTask(c)'
  OBVIOUS
<1>1. RunSound(c) /\ RunOfTask(c)
  BY DEF SwarmExecInv
<1>2. RunSound(c)'
  BY <1>1 DEF RunSound, Completed
<1>3. exec[c].pc # "off" => exec[c].draft \in Draft
  BY ExecTyped DEF SwarmExecInv
<1>4. RunOfTask(c)'
  BY <1>1, <1>3, TasksKept DEF RunOfTask
<1> QED BY <1>2, <1>4

\* A step of a run that leaves its bundle and its swarm alone.
LEMMA QuietStep ==
    ASSUME SwarmExecInv, NEW e \in Exec, NEW x \in ExecState, exec' = [exec EXCEPT ![e] = x],
           UNCHANGED <<drafts, bundle, swarm>>,
           x.pc \notin {"bundle", "off"}, exec[e].pc \in AfterSwarm => x.pc \in AfterSwarm,
           x.draft \in Draft, task[x.draft] # NoTask,
           TaskMoves(x.draft) \/ UNCHANGED task,
           x.pc = "submitted" => task'[x.draft].receipts # <<>>
    PROVE  SwarmExecInv'
<1>1. TypeOK /\ exec \in [Exec -> ExecState] /\ RunSound(e)
  BY ExecTyped DEF SwarmExecInv
<1>2. BundlesKept
  BY DEF BundlesKept
<1>3. exec'[e] = x /\ \A c \in Exec : c # e => exec'[c] = exec[c]
  BY <1>1
<1>4. RunSound(e)'
  BY <1>1, <1>3 DEF RunSound, Completed, AfterSwarm
<1>5. RunOfTask(e)'
  BY <1>2, <1>3, TasksKept DEF RunOfTask
<1>6. TypeOK'
  BY <1>1, <1>2, TasksKept DEF TypeOK, ExecTypeOK, SwarmTypeOK, ExecState, TaskState
<1>7. HonestStatus'
  BY DEF SwarmExecInv, HonestStatus
<1> QED BY <1>2, <1>3, <1>4, <1>5, <1>6, <1>7, RunsKept, TasksKept DEF SwarmExecInv

\* ... that goes to another place, or ends.
LEMMA QuietGoes ==
    ASSUME SwarmExecInv, NEW e \in Exec, exec[e].pc \in Pc, UNCHANGED <<drafts, bundle, swarm>>,
           TaskMoves(exec[e].draft) \/ UNCHANGED task,
           \/ Ends(e)
           \/ \E pc \in Pc \ {"bundle"} :
                /\ Goes(e, pc)
                /\ exec[e].pc \in AfterSwarm => pc \in AfterSwarm
                /\ pc = "submitted" => task'[exec[e].draft].receipts # <<>>
    PROVE  SwarmExecInv'
<1>1. exec[e].draft \in Draft /\ task[exec[e].draft] # NoTask
  BY ExecTyped DEF SwarmExecInv, RunOfTask, Pc
<1>2. CASE Ends(e)
  <2>1. PICK status \in {"verified", "rejected", "blocked", "threw", "died"} :
          exec' = [exec EXCEPT ![e] = [pc |-> "done", draft |-> exec[e].draft, status |-> status]]
    BY <1>2 DEF Ends
  <2> DEFINE x == [pc |-> "done", draft |-> exec[e].draft, status |-> status]
  <2>2. x \in ExecState /\ x.pc = "done" /\ x.draft = exec[e].draft /\ exec' = [exec EXCEPT ![e] = x]
    BY <1>1, <2>1 DEF ExecState
  <2> HIDE DEF x
  <2> QED BY <1>1, <2>2, QuietStep DEF AfterSwarm
<1>3. ASSUME NEW pc \in Pc \ {"bundle"}, Goes(e, pc), exec[e].pc \in AfterSwarm => pc \in AfterSwarm,
             pc = "submitted" => task'[exec[e].draft].receipts # <<>>
      PROVE  SwarmExecInv'
  <2> DEFINE x == [pc |-> pc, draft |-> exec[e].draft]
  <2>1. x \in ExecState /\ x.pc = pc /\ x.draft = exec[e].draft /\ exec' = [exec EXCEPT ![e] = x]
    BY <1>1, <1>3 DEF ExecState, Goes
  <2> HIDE DEF x
  <2> QED BY <1>1, <1>3, <2>1, QuietStep DEF Pc
<1> QED BY <1>2, <1>3

-----------------------------------------------------------------------------
(* The actions *)

LEMMA RestatusMoves ==
    ASSUME SwarmExecInv, NEW d \in Draft, task[d] # NoTask, NEW to \in Status,
           task' = [task EXCEPT ![d].status = to],
           to = "evidence-submitted" => task[d].receipts # <<>>,
           to = "verified" => \E e \in ToSet(task[d].receipts) : bundle[e].proof = "verified"
    PROVE  TaskMoves(d)
<1> DEFINE t == [status |-> to, owner |-> task[d].owner, receipts |-> task[d].receipts]
<1>1. task' = [task EXCEPT ![d] = t]
  BY Restated DEF Restatus, SwarmExecInv
<1>2. t \in TaskState
  BY DEF SwarmExecInv, TypeOK, ExecTypeOK, TaskState
<1>3. Fine(t)
  BY DEF Fine
<1> HIDE DEF t
<1>4. t.receipts = task[d].receipts
  BY DEF t
<1> QED BY <1>1, <1>2, <1>3, <1>4 DEF TaskMoves

LEMMA MoveKeeps ==
    ASSUME SwarmExecInv, NEW e \in Exec, exec[e].pc \in Pc,
           NEW to \in {"accepted", "planned", "delegated", "in-progress", "evidence-submitted"},
           NEW pc \in Pc \ {"bundle", "submitted"}, Move(e, to, pc),
           exec[e].pc \in AfterSwarm => pc \in AfterSwarm,
           to = "evidence-submitted" => task[exec[e].draft].receipts # <<>>
    PROVE  SwarmExecInv'
<1>1. exec[e].draft \in Draft /\ task[exec[e].draft] # NoTask /\ TypeOK
  BY ExecTyped DEF SwarmExecInv, RunOfTask, Pc
<1>2. CASE Throw(e)
  BY <1>2, QuietGoes DEF Throw, End, Ends
<1>3. CASE /\ task' = [task EXCEPT ![exec[e].draft].status = to]
           /\ Goto(e, pc) /\ UNCHANGED <<drafts, bundle, swarm>>
  <2>1. TaskMoves(exec[e].draft)
    BY <1>1, <1>3, RestatusMoves DEF Status
  <2>2. Goes(e, pc)
    BY <1>1, <1>3, Going
  <2> QED BY <1>3, <2>1, <2>2, QuietGoes
<1> QED BY <1>2, <1>3 DEF Move

LEMMA WalkKeeps ==
    ASSUME SwarmExecInv, NEW e \in Exec,
           Accept(e) \/ Plan(e) \/ AssignHand(e) \/ OwnAndCheck(e) \/ AbortHandTask(e)
    PROVE  SwarmExecInv'
<1>1. exec[e].pc \in Pc \ AfterSwarm /\ TypeOK
  BY DEF Accept, Plan, AssignHand, OwnAndCheck, AbortHandTask, Pc, AfterSwarm, SwarmExecInv
<1>2. exec[e].draft \in Draft /\ task[exec[e].draft] # NoTask
  BY <1>1, ExecTyped DEF SwarmExecInv, RunOfTask, Pc
<1>3. CASE Throw(e)
  BY <1>1, <1>3, QuietGoes DEF Throw, End, Ends
<1>4. CASE Accept(e) \/ Plan(e) \/ AssignHand(e)
  <2>1. CASE Move(e, "accepted", "plan") \/ Move(e, "planned", "assign") \/ Move(e, "delegated", "own")
    BY <1>1, <2>1, MoveKeeps DEF Pc
  <2> QED BY <1>3, <1>4, <2>1 DEF Accept, Plan, AssignHand
<1>5. CASE OwnAndCheck(e)
  <2> DEFINE t == [status |-> task[exec[e].draft].status, owner |-> "swarm-local",
                   receipts |-> task[exec[e].draft].receipts]
  <2>1. CASE task' = [task EXCEPT ![exec[e].draft].owner = "swarm-local"]
             /\ Goto(e, "gate") /\ UNCHANGED <<drafts, bundle, swarm>>
    <3>1. task[exec[e].draft] \in TaskState /\ TaskSound(exec[e].draft)
      BY <1>2, ExecTyped DEF SwarmExecInv
    <3>2. [task[exec[e].draft] EXCEPT !.owner = "swarm-local"] = t
      BY <3>1 DEF TaskState
    <3>3. task' = [task EXCEPT ![exec[e].draft] = t]
      BY <2>1, <3>2
    <3>4. t \in TaskState /\ Fine(t) /\ t.receipts = task[exec[e].draft].receipts
      BY <1>2, <3>1 DEF TaskState, TaskSound, Fine
    <3>5. TaskMoves(exec[e].draft)
      <4> HIDE DEF t
      <4> QED BY <3>3, <3>4 DEF TaskMoves
    <3>6. Goes(e, "gate")
      BY <1>1, <2>1, Going DEF Pc
    <3> QED BY <1>1, <2>1, <3>5, <3>6, QuietGoes DEF Pc
  <2> QED BY <1>3, <1>5, <2>1 DEF OwnAndCheck
<1>6. CASE AbortHandTask(e)
  <2>1. CASE task' = [task EXCEPT ![exec[e].draft].status = "blocked"]
             /\ End(e, "blocked") /\ UNCHANGED <<drafts, bundle, swarm>>
    <3>1. TaskMoves(exec[e].draft)
      BY <1>2, <2>1, RestatusMoves DEF Status
    <3> QED BY <1>1, <2>1, <3>1, QuietGoes DEF End, Ends
  <2> QED BY <1>3, <1>6, <2>1 DEF AbortHandTask
<1> QED BY <1>4, <1>5, <1>6

LEMMA RunCommandKeeps ==
    ASSUME SwarmExecInv, NEW e \in Exec, NEW d \in Draft, RunCommand(e, d)
    PROVE  SwarmExecInv'
<1>1. exec[e].pc = "off" /\ task[d] # NoTask /\ UNCHANGED <<drafts, task, bundle, swarm>>
  BY DEF RunCommand, NoExec
<1>2. \/ \E pc \in {"own", "accept", "plan", "assign"} : exec' = [exec EXCEPT ![e] = [pc |-> pc, draft |-> d]]
      \/ exec' = [exec EXCEPT ![e] = [pc |-> "done", draft |-> d, status |-> "threw"]]
  <2>1. CASE Assigned(task[d])
    BY <2>1 DEF RunCommand
  <2>2. CASE ~Assigned(task[d]) /\ task[d].owner = "atlas"
             /\ task[d].status \in {"proposed", "accepted", "planned"}
    BY <2>2 DEF RunCommand
  <2>3. CASE ~Assigned(task[d]) /\ ~(task[d].owner = "atlas"
             /\ task[d].status \in {"proposed", "accepted", "planned"})
    BY <2>3 DEF RunCommand
  <2> QED BY <2>1, <2>2, <2>3
<1>3. ASSUME NEW pc \in {"own", "accept", "plan", "assign"},
             exec' = [exec EXCEPT ![e] = [pc |-> pc, draft |-> d]]
      PROVE  SwarmExecInv'
  <2> DEFINE x == [pc |-> pc, draft |-> d]
  <2>1. x \in ExecState /\ x.pc = pc /\ x.draft = d /\ exec' = [exec EXCEPT ![e] = x]
    BY <1>3 DEF ExecState, Pc
  <2> HIDE DEF x
  <2> QED BY <1>1, <2>1, QuietStep DEF AfterSwarm
<1>4. CASE exec' = [exec EXCEPT ![e] = [pc |-> "done", draft |-> d, status |-> "threw"]]
  <2> DEFINE x == [pc |-> "done", draft |-> d, status |-> "threw"]
  <2>1. x \in ExecState /\ x.pc = "done" /\ x.draft = d /\ exec' = [exec EXCEPT ![e] = x]
    BY <1>4 DEF ExecState
  <2> HIDE DEF x
  <2> QED BY <1>1, <2>1, QuietStep DEF AfterSwarm
<1> QED BY <1>2, <1>3, <1>4

\* The swarm of a run that has not taken anything over from it yet.
LEMMA SwarmKeeps ==
    ASSUME SwarmExecInv, NEW e \in Exec, SwarmMoves(e), swarm[e].pc # "taken", exec[e].pc # "off",
           NEW x \in ExecState, exec' = [exec EXCEPT ![e] = x],
           x.draft = exec[e].draft, x.pc \notin {"off", "bundle", "submitted"},
           UNCHANGED <<drafts, task, bundle>>
    PROVE  SwarmExecInv'
<1>1. TypeOK /\ exec \in [Exec -> ExecState] /\ swarm \in [Exec -> SwarmState \cup Result]
      /\ RunSound(e) /\ RunOfTask(e) /\ exec[e].draft \in Draft
  BY ExecTyped, SwarmTyped DEF SwarmExecInv
<1>2. PICK s \in SwarmState : Honest(s) /\ swarm' = [swarm EXCEPT ![e] = s]
  BY DEF SwarmMoves
<1>3. s.pc # "taken"
  BY DEF SwarmState, NoSwarm, Outcome, Asking
<1>4. /\ exec'[e] = x /\ swarm'[e] = s
      /\ \A c \in Exec : c # e => exec'[c] = exec[c] /\ swarm'[c] = swarm[c]
  BY <1>1, <1>2
<1>5. RunSound(e)' /\ RunOfTask(e)'
  BY <1>1, <1>3, <1>4 DEF RunSound, RunOfTask
<1>6. swarm' \in [Exec -> SwarmState \cup Result]
  BY <1>1, <1>2
<1>7. TypeOK'
  BY <1>1, <1>6 DEF TypeOK, ExecTypeOK, SwarmTypeOK, ExecState, SwarmState, Asking, WorkerStates, Exec
<1>8. HonestStatus'
  <2>1. \A c \in Exec : Honest(swarm[c])
    BY DEF SwarmExecInv, HonestStatus, Honest, Exec
  <2>2. \A c \in Exec : Honest(swarm'[c])
    BY <1>2, <1>4, <2>1
  <2> QED BY <2>2 DEF HonestStatus, Honest, Exec
<1>9. BundlesKept /\ UNCHANGED task
  BY DEF BundlesKept
<1> QED BY <1>1, <1>4, <1>5, <1>7, <1>8, <1>9, RunsKept, TasksKept DEF SwarmExecInv

LEMMA ResetMoves ==
    ASSUME NEW e \in Exec, swarm' = [swarm EXCEPT ![e] = NoSwarm]
    PROVE  SwarmMoves(e)
BY DEF SwarmMoves, SwarmState, Honest, NoSwarm

LEMMA GateKeeps ==
    ASSUME SwarmExecInv, NEW e \in Exec, Gate(e) \/ SwarmAtWork(e) \/ SwarmThrows(e)
    PROVE  SwarmExecInv'
<1>1. /\ TypeOK /\ exec[e].pc \in {"gate", "swarm"} /\ exec[e].pc \in Pc \ AfterSwarm
      /\ exec[e].draft \in Draft
  BY ExecTyped DEF Gate, SwarmAtWork, SwarmThrows, Pc, AfterSwarm, SwarmExecInv
<1>2. swarm[e].pc # "taken"
  BY <1>1 DEF SwarmExecInv, RunSound
<1>3. ASSUME NEW pc \in {"swarm", "abort"}, Goto(e, pc), SwarmMoves(e), UNCHANGED <<drafts, task, bundle>>
      PROVE  SwarmExecInv'
  <2> DEFINE x == [pc |-> pc, draft |-> exec[e].draft]
  <2>1. exec' = [exec EXCEPT ![e] = x]
    BY <1>1, <1>3, Going DEF Goes, Pc
  <2>2. x \in ExecState /\ x.pc = pc /\ x.draft = exec[e].draft
    BY <1>1 DEF ExecState, Pc
  <2> HIDE DEF x
  <2> QED BY <1>1, <1>2, <1>3, <2>1, <2>2, SwarmKeeps
<1>4. CASE Gate(e)
  <2>1. CASE Goto(e, "swarm") /\ (StartSwarm(e) \/ NoProviders(e))
    BY <1>3, <1>4, <2>1, StartMoves DEF Gate
  <2>2. CASE Goto(e, "abort") /\ UNCHANGED swarm
    <3>1. Goes(e, "abort") /\ UNCHANGED <<drafts, task, bundle, swarm>>
      BY <1>1, <1>4, <2>2, Going DEF Gate, Pc
    <3> QED BY <1>1, <3>1, QuietGoes DEF Pc
  <2> QED BY <1>4, <2>1, <2>2 DEF Gate
<1>5. CASE SwarmAtWork(e)
  <2>1. SwarmMoves(e) /\ UNCHANGED <<drafts, task, bundle, exec>>
    BY <1>1, <1>5, SwarmStepMoves DEF SwarmAtWork, execVars
  <2>2. exec[e] \in ExecState /\ exec' = [exec EXCEPT ![e] = exec[e]]
    BY <1>1, <2>1, ExecTyped
  <2> QED BY <1>1, <1>2, <2>1, <2>2, SwarmKeeps
<1>6. CASE SwarmThrows(e)
  BY <1>3, <1>6, ResetMoves DEF SwarmThrows
<1> QED BY <1>4, <1>5, <1>6

LEMMA DieKeeps ==
    ASSUME SwarmExecInv, NEW e \in Exec, Die(e)
    PROVE  SwarmExecInv'
<1>1. /\ TypeOK /\ exec[e].pc \in Pc /\ exec[e].draft \in Draft
      /\ Ends(e) /\ UNCHANGED <<drafts, task, bundle>>
  BY ExecTyped DEF Die, Running, SwarmExecInv, End, Ends
<1>2. CASE swarm[e].pc = "taken"
  <2>1. UNCHANGED swarm
    BY <1>1, <1>2, SwarmTyped DEF Die
  <2> QED BY <1>1, <2>1, QuietGoes
<1>3. CASE swarm[e].pc # "taken"
  <2> DEFINE x == [pc |-> "done", draft |-> exec[e].draft, status |-> "died"]
  <2>1. x \in ExecState /\ x.pc = "done" /\ x.draft = exec[e].draft /\ exec' = [exec EXCEPT ![e] = x]
    BY <1>1 DEF ExecState, Die, End
  <2>2. SwarmMoves(e)
    BY <1>3, ResetMoves DEF Die
  <2> HIDE DEF x
  <2> QED BY <1>1, <1>3, <2>1, <2>2, SwarmKeeps DEF Pc
<1> QED BY <1>2, <1>3

\* The end of a swarm, and the bundle: what is not written yet is written.
LEMMA BundleStep ==
    ASSUME SwarmExecInv, NEW e \in Exec, RunSound(e)', bundle[e].proof = "none",
           NEW x \in ExecState, exec' = [exec EXCEPT ![e] = x],
           x.draft = exec[e].draft, exec[e].pc # "off", x.pc # "submitted",
           NEW b \in BundleState, bundle' = [bundle EXCEPT ![e] = b],
           NEW s \in SwarmState \cup Result, swarm' = [swarm EXCEPT ![e] = s], Honest(s),
           UNCHANGED <<drafts, task>>
    PROVE  SwarmExecInv'
<1>1. /\ TypeOK /\ exec \in [Exec -> ExecState] /\ swarm \in [Exec -> SwarmState \cup Result]
      /\ bundle \in [Exec -> BundleState] /\ RunOfTask(e) /\ exec[e].draft \in Draft
  BY ExecTyped, SwarmTyped DEF SwarmExecInv
<1>2. /\ exec'[e] = x /\ swarm'[e] = s
      /\ \A c \in Exec : c # e => exec'[c] = exec[c] /\ swarm'[c] = swarm[c] /\ bundle'[c] = bundle[c]
  BY <1>1
<1>3. RunOfTask(e)'
  BY <1>1, <1>2 DEF RunOfTask
<1>4. swarm' \in [Exec -> SwarmState \cup Result] /\ bundle' \in [Exec -> BundleState]
      /\ exec' \in [Exec -> ExecState]
  BY <1>1
<1>5. TypeOK'
  BY <1>1, <1>4 DEF TypeOK, ExecTypeOK, SwarmTypeOK, ExecState, BundleState, SwarmState, Asking,
                    WorkerStates, Exec
<1>6. HonestStatus'
  <2>1. \A c \in Exec : Honest(swarm[c])
    BY DEF SwarmExecInv, HonestStatus, Honest, Exec
  <2>2. \A c \in Exec : Honest(swarm'[c])
    BY <1>2, <2>1
  <2> QED BY <2>2 DEF HonestStatus, Honest, Exec
<1>7. BundlesKept /\ UNCHANGED task
  BY <1>2 DEF BundlesKept
<1> QED BY <1>1, <1>2, <1>3, <1>5, <1>6, <1>7, RunsKept, TasksKept DEF SwarmExecInv

LEMMA SwarmEndsKeeps ==
    ASSUME SwarmExecInv, NEW e \in Exec, SwarmEnds(e)
    PROVE  SwarmExecInv'
<1> DEFINE x == [pc |-> "bundle", draft |-> exec[e].draft]
           s == [pc |-> "taken", clean |-> swarm[e].clean, total |-> swarm[e].total,
                 jidoka |-> swarm[e].jidoka]
<1>1. /\ TypeOK /\ exec[e].pc = "swarm" /\ swarm[e] \in Outcome /\ exec[e].draft \in Draft
      /\ UNCHANGED <<drafts, task, bundle>>
  BY ExecTyped, SwarmTyped DEF SwarmEnds, SwarmExecInv
<1>2. bundle[e].proof = "none" /\ bundle[e] \in BundleState /\ bundle' = [bundle EXCEPT ![e] = bundle[e]]
  BY <1>1, ExecTyped DEF SwarmExecInv, RunSound, AfterSwarm, BundleState
<1>3. x \in ExecState /\ x.draft = exec[e].draft /\ x.pc = "bundle" /\ exec' = [exec EXCEPT ![e] = x]
  BY <1>1, Going DEF ExecState, Pc, Goes, SwarmEnds
<1>4. s \in Result /\ s.pc = "taken" /\ Honest(s) /\ swarm' = [swarm EXCEPT ![e] = s]
  BY <1>1 DEF SwarmEnds, Result, Outcome, Honest
<1> HIDE DEF x, s
<1>5. exec'[e] = x /\ swarm'[e] = s /\ bundle'[e] = bundle[e]
  BY <1>1, <1>3, <1>4, ExecTyped, SwarmTyped
<1>6. RunSound(e)'
  BY <1>2, <1>3, <1>4, <1>5 DEF RunSound, AfterSwarm
<1> QED BY <1>1, <1>2, <1>3, <1>4, <1>6, BundleStep

LEMMA WriteKeeps ==
    ASSUME SwarmExecInv, NEW e \in Exec, WriteRunBundle(e)
    PROVE  SwarmExecInv'
<1>1. /\ TypeOK /\ exec[e].pc = "bundle" /\ exec[e].draft \in Draft /\ swarm[e].pc = "taken"
      /\ UNCHANGED <<drafts, task, swarm>>
  BY ExecTyped DEF WriteRunBundle, SwarmExecInv, RunSound
<1>2. bundle[e].proof = "none" /\ bundle[e] \in BundleState /\ bundle[e].artifacts \in 0 .. Artifacts
  BY <1>1, ExecTyped DEF SwarmExecInv, RunSound, BundleState
<1>3. /\ swarm[e] \in SwarmState \cup Result /\ Honest(swarm[e])
      /\ swarm' = [swarm EXCEPT ![e] = swarm[e]]
  BY <1>1, SwarmTyped DEF SwarmExecInv, HonestStatus, Honest, Exec
<1>4. CASE bundle[e].artifacts < Artifacts
  <2> DEFINE b == [artifacts |-> bundle[e].artifacts + 1, proof |-> "none"]
  <2>1. [bundle[e] EXCEPT !.artifacts = bundle[e].artifacts + 1] = b
    BY <1>2 DEF BundleState
  <2>2. bundle' = [bundle EXCEPT ![e] = [bundle[e] EXCEPT !.artifacts = bundle[e].artifacts + 1]]
    BY <1>4 DEF WriteRunBundle
  <2>3. b \in BundleState /\ b.proof = "none" /\ bundle' = [bundle EXCEPT ![e] = b]
    <3>1. bundle[e].artifacts + 1 \in 0 .. Artifacts
      BY <1>2, <1>4, ExecAssumption
    <3> QED BY <2>1, <2>2, <3>1 DEF BundleState
  <2> HIDE DEF b
  <2>4. /\ exec[e] \in ExecState /\ exec' = [exec EXCEPT ![e] = exec[e]] /\ exec'[e] = exec[e]
        /\ bundle'[e] = b
    BY <1>1, <1>4, <2>3, ExecTyped DEF WriteRunBundle
  <2>5. RunSound(e)'
    BY <1>1, <2>3, <2>4 DEF RunSound, AfterSwarm
  <2> QED BY <1>1, <1>2, <1>3, <2>3, <2>4, <2>5, BundleStep
<1>5. CASE ~(bundle[e].artifacts < Artifacts)
  <2> DEFINE b == [artifacts |-> bundle[e].artifacts, proof |-> Proof(e)]
             x == [pc |-> "submit", draft |-> exec[e].draft]
  <2>1. [bundle[e] EXCEPT !.proof = Proof(e)] = b
    BY <1>2 DEF BundleState
  <2>2. bundle' = [bundle EXCEPT ![e] = [bundle[e] EXCEPT !.proof = Proof(e)]] /\ Goto(e, "submit")
    BY <1>5 DEF WriteRunBundle
  <2>3. Proof(e) \in {"verified", "rejected"} /\ (Proof(e) = "verified" => Completed(swarm[e]))
    BY DEF Proof
  <2>4. /\ b \in BundleState /\ b.artifacts = Artifacts /\ bundle' = [bundle EXCEPT ![e] = b]
        /\ b.proof = "verified" => Completed(swarm[e])
    <3>1. bundle[e].artifacts = Artifacts
      BY <1>2, <1>5, ExecAssumption
    <3>2. b \in BundleState
      BY <1>2, <2>3 DEF BundleState
    <3>3. bundle' = [bundle EXCEPT ![e] = b]
      BY <2>1, <2>2
    <3> QED BY <2>3, <3>1, <3>2, <3>3
  <2>5. x \in ExecState /\ x.pc = "submit" /\ x.draft = exec[e].draft /\ exec' = [exec EXCEPT ![e] = x]
    BY <1>1, <2>2, Going DEF ExecState, Pc, Goes
  <2> HIDE DEF b, x
  <2>6. exec'[e] = x /\ bundle'[e] = b /\ swarm'[e] = swarm[e]
    BY <1>1, <2>4, <2>5, ExecTyped
  <2>7. RunSound(e)'
    BY <1>1, <2>4, <2>5, <2>6 DEF RunSound, AfterSwarm, Completed
  <2> QED BY <1>1, <1>2, <1>3, <2>4, <2>5, <2>7, BundleStep
<1> QED BY <1>4, <1>5

LEMMA ReceiptAppended ==
    ASSUME NEW rs \in Seq(Exec), NEW e \in Exec
    PROVE  /\ Append(rs, e) \in Seq(Exec) /\ Append(rs, e) # <<>>
           /\ ToSet(rs) \subseteq ToSet(Append(rs, e))
<1>1. Append(rs, e) \in Seq(Exec) /\ Len(Append(rs, e)) = Len(rs) + 1 /\ Len(rs) \in Nat
  OBVIOUS
<1>2. \A i \in 1 .. Len(rs) : Append(rs, e)[i] = rs[i] /\ i \in 1 .. Len(rs) + 1
  OBVIOUS
<1>3. DOMAIN rs = 1 .. Len(rs) /\ DOMAIN Append(rs, e) = 1 .. Len(rs) + 1
  BY <1>1
<1>4. \A x \in ToSet(rs) : x \in ToSet(Append(rs, e))
  BY <1>2, <1>3 DEF ToSet
<1> QED BY <1>1, <1>4

LEMMA SubmitKeeps ==
    ASSUME SwarmExecInv, NEW e \in Exec, Submit(e) \/ AddEvidence(e) \/ MoveSubmitted(e)
    PROVE  SwarmExecInv'
<1>1. TypeOK /\ exec[e].pc \in Pc /\ exec[e].pc \in AfterSwarm \ {"bundle"}
  BY DEF Submit, AddEvidence, MoveSubmitted, Pc, AfterSwarm, SwarmExecInv
<1>2. /\ exec[e].draft \in Draft /\ task[exec[e].draft] # NoTask
      /\ task[exec[e].draft] \in TaskState /\ TaskSound(exec[e].draft)
  BY <1>1, ExecTyped DEF SwarmExecInv, RunOfTask, Pc
<1>3. CASE Submit(e)
  <2>1. CASE Move(e, "in-progress", "evidence")
    BY <1>1, <2>1, MoveKeeps DEF Pc, AfterSwarm
  <2>2. CASE Goto(e, "evidence") /\ UNCHANGED <<drafts, task, bundle, swarm>>
    <3>1. Goes(e, "evidence")
      BY <1>1, <2>2, Going DEF Pc
    <3> QED BY <1>1, <2>2, <3>1, QuietGoes DEF Pc, AfterSwarm
  <2> QED BY <1>3, <2>1, <2>2 DEF Submit
<1>4. CASE AddEvidence(e)
  <2> DEFINE d == exec[e].draft
             t == [status |-> task[d].status, owner |-> task[d].owner,
                   receipts |-> Append(task[d].receipts, e)]
  <2>1. [task[d] EXCEPT !.receipts = Append(task[d].receipts, e)] = t
    <3>1. task[d] = [status |-> task[d].status, owner |-> task[d].owner,
                     receipts |-> task[d].receipts]
      BY <1>2 DEF TaskState
    <3> QED BY <3>1
  <2>2. task' = [task EXCEPT ![d] = [task[d] EXCEPT !.receipts = Append(task[d].receipts, e)]]
    BY <1>4 DEF AddEvidence
  <2>3. task[d].receipts \in Seq(Exec)
    BY <1>2 DEF TaskState
  <2>4. /\ Append(task[d].receipts, e) \in Seq(Exec) /\ Append(task[d].receipts, e) # <<>>
        /\ ToSet(task[d].receipts) \subseteq ToSet(Append(task[d].receipts, e))
    BY <2>3, ReceiptAppended
  <2>5. t \in TaskState /\ Fine(t) /\ t.receipts # <<>>
    BY <1>2, <2>4 DEF TaskState, Fine, TaskSound
  <2>6. task' = [task EXCEPT ![d] = t]
    BY <2>1, <2>2
  <2>7. Goes(e, "submitted") /\ UNCHANGED <<drafts, bundle, swarm>>
    BY <1>1, <1>4, Going DEF AddEvidence, Pc
  <2> HIDE DEF t
  <2>8. TaskMoves(d) /\ task'[d] = t
    BY <1>1, <1>2, <2>5, <2>6, ExecTyped DEF TaskMoves
  <2> QED BY <1>1, <2>5, <2>7, <2>8, QuietGoes DEF Pc, AfterSwarm
<1>5. CASE MoveSubmitted(e)
  <2>1. task[exec[e].draft].receipts # <<>>
    BY <1>5 DEF MoveSubmitted, SwarmExecInv, RunOfTask
  <2> QED BY <1>1, <1>5, <2>1, MoveKeeps DEF MoveSubmitted, Pc, AfterSwarm
<1> QED BY <1>3, <1>4, <1>5

\* What a verdict is taken from: the last receipt, which is there.
LEMMA VerdictBacked ==
    ASSUME SwarmExecInv, NEW d \in Draft, task[d] # NoTask, task[d].status = "evidence-submitted",
           NEW verdict \in Verdict(task[d])
    PROVE  /\ verdict \in FinalStatus
           /\ verdict = "verified" =>
                \E e \in ToSet(task[d].receipts) : bundle[e].proof = "verified"
<1>1. task[d].receipts \in Seq(Exec) /\ task[d].receipts # <<>>
  BY DEF SwarmExecInv, TypeOK, ExecTypeOK, TaskSound
<1>2. Last(task[d].receipts) \in ToSet(task[d].receipts)
  <2>1. Len(task[d].receipts) \in 1 .. Len(task[d].receipts)
        /\ DOMAIN task[d].receipts = 1 .. Len(task[d].receipts)
    BY <1>1
  <2> QED BY <2>1 DEF Last, ToSet
<1> QED BY <1>2 DEF Verdict, FinalStatus

LEMMA VerifyKeeps ==
    ASSUME SwarmExecInv, NEW e \in Exec, VerifyAndTransition(e)
    PROVE  SwarmExecInv'
<1>1. exec[e].pc = "verify" /\ exec[e].pc \in Pc
  BY DEF VerifyAndTransition, Pc
<1>2. exec[e].draft \in Draft /\ task[exec[e].draft] # NoTask
  BY <1>1, ExecTyped DEF SwarmExecInv, RunOfTask
<1>3. CASE Throw(e)
  BY <1>1, <1>3, QuietGoes DEF Throw, End, Ends
<1>4. ASSUME task[exec[e].draft].status = "evidence-submitted",
             NEW verdict \in Verdict(task[exec[e].draft]),
             task' = [task EXCEPT ![exec[e].draft].status = verdict],
             End(e, verdict), UNCHANGED <<drafts, bundle, swarm>>
      PROVE  SwarmExecInv'
  <2>1. /\ verdict \in FinalStatus /\ verdict \in Status
        /\ verdict = "verified" =>
             \E c \in ToSet(task[exec[e].draft].receipts) : bundle[c].proof = "verified"
    BY <1>2, <1>4, VerdictBacked DEF FinalStatus, Status
  <2>2. TaskMoves(exec[e].draft)
    BY <1>2, <1>4, <2>1, RestatusMoves DEF FinalStatus
  <2>3. Ends(e)
    BY <1>4, <2>1 DEF End, Ends, FinalStatus
  <2> QED BY <1>1, <1>4, <2>2, <2>3, QuietGoes
<1> QED BY <1>3, <1>4 DEF VerifyAndTransition

\* What happens to the drafts and the tasks when no run takes a step.
LEMMA TaskStep ==
    ASSUME SwarmExecInv, UNCHANGED <<bundle, exec, swarm>>, drafts' \subseteq Draft,
           UNCHANGED task \/ \E d \in Draft : TaskMoves(d)
    PROVE  SwarmExecInv'
<1>1. BundlesKept /\ TypeOK
  BY DEF BundlesKept, SwarmExecInv
<1>2. CASE UNCHANGED task
  <2>1. TypeOK'
    BY <1>1, <1>2 DEF TypeOK, ExecTypeOK, SwarmTypeOK
  <2> QED BY <1>2, <2>1 DEF SwarmExecInv, HonestStatus, RunSound, RunOfTask, TaskSound, Completed
<1>3. ASSUME NEW d \in Draft, TaskMoves(d) PROVE SwarmExecInv'
  <2>1. /\ task' \in [Draft -> TaskState \cup {NoTask}]
        /\ \A x \in Draft : TaskSound(x)'
        /\ \A x \in Draft : task[x] # NoTask =>
             /\ task'[x] # NoTask
             /\ task[x].receipts # <<>> => task'[x].receipts # <<>>
    BY <1>1, <1>3, TasksKept
  <2>2. TypeOK'
    BY <1>1, <2>1 DEF TypeOK, ExecTypeOK, SwarmTypeOK, TaskState
  <2>3. \A e \in Exec : RunSound(e)' /\ RunOfTask(e)'
    <3> SUFFICES ASSUME NEW e \in Exec PROVE RunSound(e)' /\ RunOfTask(e)'
      OBVIOUS
    <3>1. RunSound(e) /\ RunOfTask(e) /\ (exec[e].pc # "off" => exec[e].draft \in Draft)
      BY <1>1, ExecTyped DEF SwarmExecInv
    <3> QED BY <2>1, <3>1 DEF RunSound, RunOfTask, Completed
  <2>4. HonestStatus'
    BY DEF SwarmExecInv, HonestStatus
  <2> QED BY <2>1, <2>2, <2>3, <2>4 DEF SwarmExecInv
<1> QED BY <1>2, <1>3

LEMMA OthersKeep ==
    ASSUME SwarmExecInv, NEW d \in Draft,
           Intake(d) \/ Commit(d) \/ VerifyByCommand(d) \/ \E to \in Status : CeoMove(d, to)
    PROVE  SwarmExecInv'
<1>1. UNCHANGED <<bundle, exec, swarm>> /\ drafts' \subseteq Draft
  BY DEF Intake, Commit, VerifyByCommand, CeoMove, SwarmExecInv, TypeOK, ExecTypeOK
<1>2. task \in [Draft -> TaskState \cup {NoTask}]
  BY DEF SwarmExecInv, TypeOK, ExecTypeOK, TaskState
<1>3. CASE Intake(d)
  BY <1>1, <1>3, TaskStep DEF Intake
<1>4. CASE Commit(d)
  <2>1. CASE task[d] = NoTask
    <3> DEFINE t == [status |-> "proposed", owner |-> "atlas", receipts |-> <<>>]
    <3>1. t \in TaskState /\ Fine(t)
      BY DEF TaskState, Status, Fine
    <3>2. task' = [task EXCEPT ![d] = t]
      BY <1>4, <2>1 DEF Commit
    <3> HIDE DEF t
    <3>3. TaskMoves(d)
      BY <2>1, <3>1, <3>2 DEF TaskMoves
    <3> QED BY <1>1, <3>3, TaskStep
  <2>2. CASE task[d] # NoTask
    <3>1. UNCHANGED task
      BY <1>2, <1>4, <2>2 DEF Commit
    <3> QED BY <1>1, <3>1, TaskStep
  <2> QED BY <2>1, <2>2
<1>5. CASE VerifyByCommand(d)
  <2>1. PICK verdict \in Verdict(task[d]) : task' = [task EXCEPT ![d].status = verdict]
    BY <1>5 DEF VerifyByCommand
  <2>2. task[d] # NoTask /\ task[d].status = "evidence-submitted"
    BY <1>5 DEF VerifyByCommand
  <2>3. /\ verdict \in FinalStatus /\ verdict \in Status
        /\ verdict = "verified" =>
             \E c \in ToSet(task[d].receipts) : bundle[c].proof = "verified"
    BY <2>2, VerdictBacked DEF FinalStatus, Status
  <2>4. TaskMoves(d)
    BY <2>1, <2>2, <2>3, RestatusMoves DEF FinalStatus
  <2> QED BY <1>1, <2>4, TaskStep
<1>6. ASSUME NEW to \in Status, CeoMove(d, to) PROVE SwarmExecInv'
  <2>1. /\ task[d] # NoTask /\ task[d].status \in {"blocked", "rejected", "verified"}
        /\ to \notin FinalStatus \cup {"escalated"} /\ to \in LegalTransitions[task[d].status]
        /\ task' = [task EXCEPT ![d].status = to]
    BY <1>6 DEF CeoMove, LegalEdge
  <2>2. to \notin {"verified", "evidence-submitted"}
    <3>1. CASE task[d].status = "blocked"
      BY <2>1, <3>1 DEF LegalTransitions, Status, FinalStatus
    <3>2. CASE task[d].status = "rejected"
      BY <2>1, <3>2 DEF LegalTransitions, Status, FinalStatus
    <3>3. CASE task[d].status = "verified"
      BY <2>1, <3>3 DEF LegalTransitions, Status, FinalStatus
    <3> QED BY <2>1, <3>1, <3>2, <3>3
  <2>3. TaskMoves(d)
    BY <2>1, <2>2, RestatusMoves
  <2> QED BY <1>1, <2>3, TaskStep
<1> QED BY <1>3, <1>4, <1>5, <1>6

-----------------------------------------------------------------------------
(* The theorems *)

LEMMA SwarmExecInit ==
    ASSUME Init
    PROVE  SwarmExecInv
<1>1. TypeOK
  BY ExecAssumption DEF Init, SwarmInit, TypeOK, ExecTypeOK, SwarmTypeOK, NoBundle, Exec
<1>2. \A e \in Exec : exec[e].pc = "off" /\ bundle[e].proof = "none" /\ swarm[e].pc = "off"
  BY DEF Init, SwarmInit, NoExec, NoBundle, NoSwarm, Exec
<1>3. \A d \in Draft : task[d] = NoTask
  BY DEF Init
<1> QED BY <1>1, <1>2, <1>3 DEF SwarmExecInv, HonestStatus, RunSound, RunOfTask, TaskSound, Exec

\* SwarmExecInv is an invariant: what each run knows of its swarm, its bundle
\* and its task, and what each task rests on.
THEOREM SwarmExecInvariant == Spec => []SwarmExecInv
<1>1. SwarmExecInv /\ [Next]_vars => SwarmExecInv'
  <2> SUFFICES ASSUME SwarmExecInv, [Next]_vars PROVE SwarmExecInv'
    OBVIOUS
  <2>1. CASE UNCHANGED vars
    <3>1. UNCHANGED <<bundle, exec, swarm, task>> /\ drafts' \subseteq Draft
      BY <2>1 DEF vars, execVars, SwarmExecInv, TypeOK, ExecTypeOK
    <3> QED BY <3>1, TaskStep
  <2>2. ASSUME NEW e \in Exec, Step(e) PROVE SwarmExecInv'
    BY <2>2, WalkKeeps, GateKeeps, SwarmEndsKeeps, WriteKeeps, SubmitKeeps, VerifyKeeps DEF Step
  <2> QED BY <2>1, <2>2, RunCommandKeeps, GateKeeps, DieKeeps, OthersKeep DEF Next
<1> QED BY <1>1, SwarmExecInit, PTL DEF Spec

\* A run whose status speaks of agreement has a judge who answered and a clean
\* answer, whoever failed or came late.
THEOREM StatusIsHonest == Spec => []HonestStatus
<1>1. SwarmExecInv => HonestStatus
  BY DEF SwarmExecInv
<1> QED BY <1>1, SwarmExecInvariant, PTL

\* A bundle with its bundle.json has all its files.
THEOREM BundlesAreWhole == Spec => []BundleWhole
<1>1. SwarmExecInv => BundleWhole
  BY DEF SwarmExecInv, RunSound, BundleWhole
<1> QED BY <1>1, SwarmExecInvariant, PTL

\* At least half of the workers of a run that came out 'done' are clean.
LEMMA CompletedCounts ==
    ASSUME NEW s, s.clean \in Nat, s.total \in Nat, Completed(s)
    PROVE  2 * s.clean >= s.total /\ s.clean > 0 /\ ~s.jidoka
<1>1. s.clean >= Required(s.total) /\ s.clean > 0 /\ ~s.jidoka
  BY DEF Completed
<1>2. 2 * Required(s.total) >= s.total /\ Required(s.total) \in Nat
  BY DEF Required
<1> QED BY <1>1, <1>2

\* A verified task has the receipt of a run that came out 'done', at least half
\* of whose workers came back clean.
THEOREM VerifiedRests == Spec => []VerifiedByDoneRun
<1>1. SwarmExecInv => VerifiedByDoneRun
  <2> SUFFICES ASSUME SwarmExecInv, NEW d \in Draft, task[d] # NoTask, task[d].status = "verified"
               PROVE  \E e \in ToSet(task[d].receipts) :
                          /\ bundle[e].proof = "verified"
                          /\ 2 * swarm[e].clean >= swarm[e].total
                          /\ swarm[e].clean > 0 /\ ~swarm[e].jidoka
    BY DEF VerifiedByDoneRun
  <2>1. PICK e \in ToSet(task[d].receipts) : bundle[e].proof = "verified"
    BY DEF SwarmExecInv, TaskSound
  <2>2. e \in Exec
    <3>1. task[d].receipts \in Seq(Exec)
      BY DEF SwarmExecInv, TypeOK, ExecTypeOK
    <3> QED BY <2>1, <3>1 DEF ToSet
  <2>3. swarm[e].pc = "taken" /\ Completed(swarm[e])
    BY <2>1, <2>2 DEF SwarmExecInv, RunSound
  <2>4. swarm[e].clean \in Nat /\ swarm[e].total \in Nat
    BY <2>2, <2>3, SwarmTyped DEF Result, SwarmExecInv
  <2> QED BY <2>1, <2>3, <2>4, CompletedCounts
<1> QED BY <1>1, SwarmExecInvariant, PTL
=============================================================================
