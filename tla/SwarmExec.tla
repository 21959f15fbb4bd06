----------------------------- MODULE SwarmExec ------------------------------
(***************************************************************************)
(* Swarm runs for tasks (src/swarm-exec/): an intent is drafted, the draft *)
(* committed as a task of the execution graph, and the task given to the   *)
(* hand 'swarm-local', whose run is a research swarm.  The run writes a    *)
(* bundle, hands in a receipt for it, and the verifier decides.            *)
(*                                                                         *)
(* Every call of `swarm-exec run' is a process; its calls into the graph   *)
(* are one step each (ExecGraph and Hands have what goes on inside).  A    *)
(* run's id is the task's and the time; two runs have two.                 *)
(***************************************************************************)
EXTENDS TaskLifecycle, ResearchSwarm, Sequences, SequencesExt

CONSTANTS
    Draft,      \* drafts of intents, named after the hash of their objective
    Artifacts   \* the files of a bundle before bundle.json: five in the code

ASSUME ExecAssumption == Artifacts \in Nat

VARIABLES
    drafts,   \* the drafts in state/intake-drafts
    task,     \* per draft: the task committed for it
    bundle,   \* per run: the files of its bundle
    exec      \* per run: where it is

execVars == <<drafts, task, bundle, exec>>
vars == <<swarm, execVars>>

Exec == SwarmRun
NoTask == [none |-> TRUE]
NoExec == [pc |-> "off"]
NoBundle == [artifacts |-> 0, proof |-> "none"]

Pc == {"accept", "plan", "assign", "own", "gate", "swarm", "abort", "bundle",
       "submit", "evidence", "submitted", "verify"}

ExecTypeOK ==
    /\ drafts \subseteq Draft
    /\ task \in [Draft -> [status : Status, owner : {"atlas", "swarm-local"},
                           receipts : Seq(Exec)] \cup {NoTask}]
    /\ bundle \in [Exec -> [artifacts : 0..Artifacts, proof : {"none", "verified", "rejected"}]]
    /\ exec \in [Exec -> {NoExec} \cup [pc : Pc, draft : Draft]
                   \cup [pc : {"done"}, draft : Draft,
                         status : {"verified", "rejected", "blocked", "threw", "died"}]]

\* What the run takes from its swarm: the workers' results and the synthesis.
Result == [pc : {"taken"}, clean : Nat, total : Nat, jidoka : BOOLEAN]

TypeOK == ExecTypeOK /\ SwarmTypeOK(Result)

Init ==
    /\ SwarmInit
    /\ drafts = {}
    /\ task = [d \in Draft |-> NoTask]
    /\ bundle = [e \in Exec |-> NoBundle]
    /\ exec = [e \in Exec |-> NoExec]

Goto(e, pc) == exec' = [exec EXCEPT ![e].pc = pc]
End(e, status) ==
    exec' = [exec EXCEPT ![e] = [pc |-> "done", draft |-> exec[e].draft, status |-> status]]
Throw(e) == End(e, "threw") /\ UNCHANGED <<drafts, task, bundle, swarm>>
Running(e) == exec[e].pc \notin {"off", "done"}

-----------------------------------------------------------------------------
(* intakeCommand and commitCommand *)

Intake(d) ==
    /\ drafts' = drafts \cup {d}
    /\ UNCHANGED <<task, bundle, exec, swarm>>

\* The task's key is the draft's id: a draft is committed once.
Commit(d) ==
    /\ d \in drafts
    /\ task' = [task EXCEPT ![d] =
           IF @ = NoTask THEN [status |-> "proposed", owner |-> "atlas", receipts |-> <<>>] ELSE @]
    /\ UNCHANGED <<drafts, bundle, exec, swarm>>

-----------------------------------------------------------------------------
(* runCommand: the task is walked to 'planned' and assigned *)

Assigned(t) == t.owner = "swarm-local" /\ t.status \in {"delegated", "in-progress"}

RunCommand(e, d) ==
    /\ exec[e] = NoExec
    /\ task[d] # NoTask
    /\ exec' = [exec EXCEPT ![e] =
           CASE Assigned(task[d]) -> [pc |-> "own", draft |-> d]
             [] ~Assigned(task[d]) /\ task[d].owner = "atlas"
                    /\ task[d].status \in {"proposed", "accepted", "planned"} ->
                  [pc |-> CASE task[d].status = "proposed" -> "accept"
                            [] task[d].status = "accepted" -> "plan"
                            [] task[d].status = "planned" -> "assign", draft |-> d]
             [] OTHER -> [pc |-> "done", draft |-> d, status |-> "threw"]]
    /\ UNCHANGED <<drafts, task, bundle, swarm>>

\* A move of the run's task; an illegal one throws and ends the run.
Move(e, to, pc) ==
    LET d == exec[e].draft IN
    IF LegalEdge(task[d].status, to, "atlas")
    THEN /\ task' = [task EXCEPT ![d].status = to]
         /\ Goto(e, pc)
         /\ UNCHANGED <<drafts, bundle, swarm>>
    ELSE Throw(e)

Accept(e) == exec[e].pc = "accept" /\ Move(e, "accepted", "plan")
Plan(e) == exec[e].pc = "plan" /\ Move(e, "planned", "assign")

\* assignHand moves the task, then makes the hand its owner.
AssignHand(e) ==
    /\ exec[e].pc = "assign"
    /\ IF Assigned(task[exec[e].draft]) THEN Throw(e) ELSE Move(e, "delegated", "own")

\* ... which a run that finds the task assigned has nothing left to do of.
OwnAndCheck(e) ==
    LET d == exec[e].draft IN
    /\ exec[e].pc = "own"
    /\ IF task[d].status \in {"delegated", "in-progress"}
       THEN /\ task' = [task EXCEPT ![d].owner = "swarm-local"]
            /\ Goto(e, "gate")
            /\ UNCHANGED <<drafts, bundle, swarm>>
       ELSE Throw(e)

-----------------------------------------------------------------------------
(* runSwarmForTask *)

\* The control gate: `allowed' is what the control file says now.
Gate(e) ==
    /\ exec[e].pc = "gate"
    /\ \E allowed \in BOOLEAN :
         IF allowed
         THEN Goto(e, "swarm") /\ (StartSwarm(e) \/ NoProviders(e))
         ELSE Goto(e, "abort") /\ UNCHANGED swarm
    /\ UNCHANGED <<drafts, task, bundle>>

SwarmAtWork(e) ==
    /\ exec[e].pc = "swarm"
    /\ SwarmStep(e)
    /\ UNCHANGED execVars

\* ATLAS_PAUSE, an error of the run: the swarm throws.
SwarmThrows(e) ==
    /\ exec[e].pc = "swarm"
    /\ swarm' = [swarm EXCEPT ![e] = NoSwarm]
    /\ Goto(e, "abort")
    /\ UNCHANGED <<drafts, task, bundle>>

AbortHandTask(e) ==
    LET d == exec[e].draft IN
    /\ exec[e].pc = "abort"
    /\ IF task[d].status \in {"delegated", "in-progress"}
       THEN /\ task' = [task EXCEPT ![d].status = "blocked"]
            /\ End(e, "blocked")
            /\ UNCHANGED <<drafts, bundle, swarm>>
       ELSE Throw(e)

\* defaultSwarmPolicy: how many workers have to come back for 'done'; the
\* failure budget is the rest of them.
Required(total) == IF total <= 1 THEN 1 ELSE (total + 1) \div 2

\* evaluateCompletion: the run is 'done', not 'partial' or 'failed'.
Completed(s) ==
    /\ s.clean > 0
    /\ s.total - s.clean <= s.total - Required(s.total)
    /\ ~s.jidoka
    /\ s.clean >= Required(s.total)

SwarmEnds(e) ==
    /\ exec[e].pc = "swarm"
    /\ swarm[e].pc = "ended"
    /\ swarm' = [swarm EXCEPT ![e] =
           [pc |-> "taken", clean |-> @.clean, total |-> @.total, jidoka |-> @.jidoka]]
    /\ Goto(e, "bundle")
    /\ UNCHANGED <<drafts, task, bundle>>

Proof(e) == IF Completed(swarm[e]) THEN "verified" ELSE "rejected"

\* Mutant: bundle.json is written before the last artifact.
WriteRunBundleEarly(e) ==
    /\ exec[e].pc = "bundle"
    /\ IF bundle[e].artifacts < Artifacts - 1 \/ bundle[e].proof # "none"
       THEN /\ bundle' = [bundle EXCEPT ![e].artifacts = @ + 1]
            /\ Goto(e, IF bundle[e].proof # "none" THEN "submit" ELSE "bundle")
       ELSE bundle' = [bundle EXCEPT ![e].proof = Proof(e)] /\ UNCHANGED exec
    /\ UNCHANGED <<drafts, task, swarm>>

\* writeRunBundle: file after file, each by a rename, bundle.json last.
WriteRunBundle(e) ==
    /\ exec[e].pc = "bundle"
    /\ IF bundle[e].artifacts < Artifacts
       THEN bundle' = [bundle EXCEPT ![e].artifacts = @ + 1] /\ UNCHANGED exec
       ELSE bundle' = [bundle EXCEPT ![e].proof = Proof(e)] /\ Goto(e, "submit")
    /\ UNCHANGED <<drafts, task, swarm>>

\* submitReceipt: in progress, the receipt as evidence, handed in.
Submit(e) ==
    /\ exec[e].pc = "submit"
    /\ IF task[exec[e].draft].status = "delegated"
       THEN Move(e, "in-progress", "evidence")
       ELSE Goto(e, "evidence") /\ UNCHANGED <<drafts, task, bundle, swarm>>

AddEvidence(e) ==
    /\ exec[e].pc = "evidence"
    /\ task' = [task EXCEPT ![exec[e].draft].receipts = Append(@, e)]
    /\ Goto(e, "submitted")
    /\ UNCHANGED <<drafts, bundle, swarm>>

MoveSubmitted(e) == exec[e].pc = "submitted" /\ Move(e, "evidence-submitted", "verify")

\* Mutant: that the file is there is enough.
VerdictByExistence(t) == {"verified"}

\* What verify finds in the bundle of the latest receipt; the refuter may
\* turn a verified one down.
Verdict(t) ==
    IF bundle[Last(t.receipts)].proof = "verified" THEN FinalStatus ELSE {"rejected"}

\* verifyAndTransition, by the run or by the hands command.
VerifyAndTransition(e) ==
    LET d == exec[e].draft IN
    /\ exec[e].pc = "verify"
    /\ IF task[d].status = "evidence-submitted"
       THEN \E verdict \in Verdict(task[d]) :
              /\ task' = [task EXCEPT ![d].status = verdict]
              /\ End(e, verdict)
              /\ UNCHANGED <<drafts, bundle, swarm>>
       ELSE Throw(e)

VerifyByCommand(d) ==
    /\ task[d] # NoTask /\ task[d].status = "evidence-submitted"
    /\ \E verdict \in Verdict(task[d]) : task' = [task EXCEPT ![d].status = verdict]
    /\ UNCHANGED <<drafts, bundle, exec, swarm>>

-----------------------------------------------------------------------------
(* Others *)

\* The CEO moves a task by hand (`task move' sets no final status): a blocked
\* one goes on, a rejected one is proposed anew, either or a verified one closed.
CeoMove(d, to) ==
    /\ task[d] # NoTask
    /\ task[d].status \in {"blocked", "rejected", "verified"}
    /\ to \notin FinalStatus \cup {"escalated"}
    /\ LegalEdge(task[d].status, to, "ceo")
    /\ task' = [task EXCEPT ![d].status = to]
    /\ UNCHANGED <<drafts, bundle, exec, swarm>>

\* The process of a run dies.
Die(e) ==
    /\ Running(e)
    /\ End(e, "died")
    /\ swarm' = [swarm EXCEPT ![e] = IF @.pc = "taken" THEN @ ELSE NoSwarm]
    /\ UNCHANGED <<drafts, task, bundle>>

Step(e) ==
    \/ Accept(e) \/ Plan(e) \/ AssignHand(e) \/ OwnAndCheck(e) \/ Gate(e)
    \/ SwarmAtWork(e) \/ SwarmEnds(e) \/ AbortHandTask(e) \/ WriteRunBundle(e)
    \/ Submit(e) \/ AddEvidence(e) \/ MoveSubmitted(e) \/ VerifyAndTransition(e)

Next ==
    \/ \E d \in Draft :
         \/ Intake(d) \/ Commit(d) \/ VerifyByCommand(d)
         \/ \E to \in Status : CeoMove(d, to)
         \/ \E e \in Exec : RunCommand(e, d)
    \/ \E e \in Exec : Step(e) \/ SwarmThrows(e) \/ Die(e)

\* A process takes its own steps and its timers run out; no model has to answer.
Fairness ==
    \A e \in Exec :
        WF_vars(\/ exec[e].pc # "swarm" /\ Step(e)
                \/ SwarmEnds(e)
                \/ exec[e].pc = "swarm" /\ SwarmGoesOn(e) /\ UNCHANGED execVars)

Spec == Init /\ [][Next]_vars /\ Fairness

-----------------------------------------------------------------------------
(* Properties *)

\* A verified task has the receipt of a run that came out 'done', whichever
\* of the runs of the task wrote, handed in or asked for the verdict, and
\* whichever died meanwhile.
VerifiedByDoneRun ==
    \A d \in Draft :
        task[d] # NoTask /\ task[d].status = "verified" =>
            \E e \in ToSet(task[d].receipts) :
                /\ bundle[e].proof = "verified"
                /\ 2 * swarm[e].clean >= swarm[e].total
                /\ swarm[e].clean > 0 /\ ~swarm[e].jidoka

\* A bundle with its bundle.json is whole, wherever a run died.
BundleWhole == \A e \in Exec : bundle[e].proof # "none" => bundle[e].artifacts = Artifacts

\* A run comes to an end though no provider ever answers.
RunsEnd == \A e \in Exec : Running(e) ~> ~Running(e)
=============================================================================
