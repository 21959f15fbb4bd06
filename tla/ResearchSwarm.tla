--------------------------- MODULE ResearchSwarm ----------------------------
(***************************************************************************)
(* The research swarm (src/research-swarm/): the perspectives' workers are *)
(* asked at the same time, a judge makes one text of what came back, and   *)
(* the run's status says how much to think of it.  Every call of a model   *)
(* has a timer; the deadline of the run is looked at when the workers are  *)
(* through.                                                                *)
(*                                                                         *)
(* A worker's answer is `clean', or `flagged' when it claims completion    *)
(* without evidence.  Workers of one swarm share nothing but the deadline, *)
(* so swarms at work at once are bounded, not what happens within one.     *)
(***************************************************************************)
EXTENDS Naturals, FiniteSets

CONSTANTS
    SwarmRun,    \* runs of the swarm
    Worker,      \* the perspectives
    Routes,      \* per worker: the providers it may be routed to
    FamilyOf,    \* per provider: the family of its models
    SwarmsAtOnce \* bound: swarms whose workers are at work at once

ASSUME SwarmAssumption ==
    /\ IsFiniteSet(Worker) /\ Worker # {}
    /\ DOMAIN Routes = Worker
    /\ UNION {Routes[w] : w \in Worker} \subseteq DOMAIN FamilyOf
    /\ SwarmsAtOnce \in Nat \ {0}

VARIABLE swarm

NoSwarm == [pc |-> "off"]
Answered == {"clean", "flagged"}
Settled == Answered \cup {"timeout", "error"}

\* What is left of a run: its status, how the judge did, the number of clean
\* answers, the number of workers, and whether the synthesis claims
\* completion without evidence.
Outcome ==
    [pc : {"ended"}, judge : {"none", "ok", "timeout", "error"},
     status : {"SUCCESS", "LIMITED_DIVERSITY", "MULTIMODEL_UNAVAILABLE", "TIMEOUT",
               "PROVIDER_FAILURE", "JUDGE_FAILURE"},
     clean : Nat, total : Nat, jidoka : BOOLEAN]

\* `Taken' is what a caller keeps of a run.
SwarmTypeOK(Taken) ==
    swarm \in [SwarmRun ->
        {NoSwarm} \cup Outcome \cup Taken
        \cup [pc : {"workers", "judge"}, late : BOOLEAN,
              workers : [Worker -> [status : {"waiting", "routed"} \cup Settled,
                                    provider : DOMAIN FamilyOf \cup {"none"}]]]]

SwarmInit == swarm = [r \in SwarmRun |-> NoSwarm]

-----------------------------------------------------------------------------
(* runWorkerBounded *)

AtWork == {r \in SwarmRun : swarm[r].pc \in {"workers", "judge"}}

\* runResearchSwarm: nobody is asked when no provider is there for a worker.
StartSwarm(r) ==
    /\ swarm[r] = NoSwarm
    /\ Cardinality(AtWork) < SwarmsAtOnce
    /\ swarm' = [swarm EXCEPT ![r] =
           [pc |-> "workers", late |-> FALSE,
            workers |-> [w \in Worker |-> [status |-> "waiting", provider |-> "none"]]]]

NoProviders(r) ==
    /\ swarm[r] = NoSwarm
    /\ swarm' = [swarm EXCEPT ![r] =
           [pc |-> "ended", status |-> "MULTIMODEL_UNAVAILABLE", judge |-> "none",
            clean |-> 0, total |-> 0, jidoka |-> FALSE]]

SetWorker(r, w, status, provider) ==
    swarm' = [swarm EXCEPT ![r] =
        [pc |-> "workers", late |-> @.late,
         workers |-> [@.workers EXCEPT ![w] = [status |-> status, provider |-> provider]]]]

\* Of a worker without an answer no provider is kept: only answers count.
Settle(r, w, status) ==
    SetWorker(r, w, status, IF status \in Answered THEN swarm[r].workers[w].provider ELSE "none")
Is(r, w, status) == swarm[r].pc = "workers" /\ swarm[r].workers[w].status = status

\* The declared provider is unknown, unavailable, unpaid or dead, or routing
\* takes too long: the worker is never asked.
NotRouted(r, w) == Is(r, w, "waiting") /\ Settle(r, w, "error")

Route(r, w) ==
    /\ Is(r, w, "waiting")
    /\ \E p \in Routes[w] : SetWorker(r, w, "routed", p)

Answer(r, w) ==
    /\ Is(r, w, "routed")
    /\ \E status \in Answered \cup {"error"} : Settle(r, w, status)

\* Mutant: nothing but an answer ends the call of a worker.
NeverTimesOut(r, w) == FALSE /\ Is(r, w, "routed") /\ Settle(r, w, "timeout")

\* withTimeoutOutcome: what the provider answers from here on is dropped.
WorkerTimeout(r, w) == Is(r, w, "routed") /\ Settle(r, w, "timeout")

DeadlinePasses(r) ==
    /\ swarm[r].pc = "workers" /\ ~swarm[r].late
    /\ swarm' = [swarm EXCEPT ![r] = [pc |-> "workers", late |-> TRUE, workers |-> @.workers]]

-----------------------------------------------------------------------------
(* The judge, and the status of the run *)

Workers(r, statuses) == {w \in Worker : swarm[r].workers[w].status \in statuses}
Providers(r, statuses) == {swarm[r].workers[w].provider : w \in Workers(r, statuses)}
Families(r, statuses) == {FamilyOf[p] : p \in Providers(r, statuses)}

\* evaluateDiversity and deriveStatusFromDiversity: flagged answers count.
Diversity(r) ==
    IF Cardinality(Families(r, Answered)) >= 3 THEN "SUCCESS"
    ELSE IF Cardinality(Providers(r, Answered)) >= 2 THEN "LIMITED_DIVERSITY"
    ELSE "MULTIMODEL_UNAVAILABLE"

\* Mutant: the status does not ask how the judge did.
StatusWithoutJudge(r, judge) ==
    CASE swarm[r].pc = "workers" /\ swarm[r].late -> "TIMEOUT"
      [] Workers(r, {"clean"}) = {} ->
           IF Workers(r, {"timeout"}) = Worker THEN "TIMEOUT" ELSE "PROVIDER_FAILURE"
      [] OTHER -> Diversity(r)

\* resolveFinalStatus; `late' is what was seen when the workers were through.
FinalStatusOf(r, judge) ==
    CASE swarm[r].pc = "workers" /\ swarm[r].late -> "TIMEOUT"
      [] Workers(r, {"clean"}) = {} ->
           IF Workers(r, {"timeout"}) = Worker THEN "TIMEOUT" ELSE "PROVIDER_FAILURE"
      [] Workers(r, {"clean"}) # {} /\ judge # "ok" -> "JUDGE_FAILURE"
      [] OTHER -> Diversity(r)

\* The artifact; one with a secret in it is reported a failure.
Conclude(r, judge) ==
    \E secret, claims \in BOOLEAN :
        /\ claims => judge = "ok" /\ ~secret
        /\ swarm' = [swarm EXCEPT ![r] =
               [pc |-> "ended", judge |-> judge,
                status |-> IF secret THEN "PROVIDER_FAILURE" ELSE FinalStatusOf(r, judge),
                clean |-> Cardinality(Workers(r, {"clean"})),
                total |-> Cardinality(Worker),
                jidoka |-> claims]]

\* Past the deadline, or without a clean answer, the judge is not asked.
WorkersThrough(r) ==
    /\ swarm[r].pc = "workers"
    /\ Workers(r, Settled) = Worker
    /\ IF swarm[r].late \/ Workers(r, {"clean"}) = {}
       THEN Conclude(r, "none")
       ELSE swarm' = [swarm EXCEPT ![r].pc = "judge"]

JudgeAnswers(r) ==
    /\ swarm[r].pc = "judge"
    /\ \E judge \in {"ok", "error"} : Conclude(r, judge)

JudgeTimeout(r) == swarm[r].pc = "judge" /\ Conclude(r, "timeout")

SwarmStep(r) ==
    \/ \E w \in Worker : NotRouted(r, w) \/ Route(r, w) \/ Answer(r, w) \/ WorkerTimeout(r, w)
    \/ DeadlinePasses(r) \/ WorkersThrough(r) \/ JudgeAnswers(r) \/ JudgeTimeout(r)

\* What happens without an answer of a provider: routing, which is the
\* process's own work, the timers, the end of the run.
SwarmGoesOn(r) ==
    \/ \E w \in Worker : NotRouted(r, w) \/ Route(r, w) \/ WorkerTimeout(r, w)
    \/ WorkersThrough(r) \/ JudgeTimeout(r)

-----------------------------------------------------------------------------
(* Properties *)

\* A status that speaks of agreement rests on a judge who answered and on a
\* clean answer: no failure or late answer of anyone leads to it.
HonestStatus ==
    \A r \in SwarmRun :
        swarm[r].pc = "ended" /\ swarm[r].status \in {"SUCCESS", "LIMITED_DIVERSITY"} =>
            swarm[r].judge = "ok" /\ swarm[r].clean >= 1
=============================================================================
