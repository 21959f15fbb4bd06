--------------------------- MODULE Operator_proofs ---------------------------
(***************************************************************************)
(* Proofs about Operator, for any number of tasks, processes and jobs, of  *)
(* processes that die at any step and two of which may write one file: the *)
(* run ledger passes only what was proven, and the run that the state file *)
(* tells of has its files.                                                 *)
(*                                                                         *)
(* Neither says anything of a job on its way.  The invariant follows a     *)
(* verdict from the result file that was judged, through the memory of the *)
(* job and its files, to the ledger; and says which files are there at     *)
(* every place of a job, where it matters that no step removes a file.     *)
(***************************************************************************)
EXTENDS Operator, TLAPS

-----------------------------------------------------------------------------
(* What the jobs are *)

Eval == Evaluation \cup {NoEvaluation}

EarlyJob ==
    [pc : {"check", "run"}, kind : Kind, task : Task, stage : Stage, evaluation : Eval]

HeldJob ==
    [pc : {"compose", "finish", "state", "append"}, kind : Kind, task : Task, stage : Stage,
     evaluation : Eval, res : Result]

WriteJob ==
    [pc : {"truncate", "truncated"}, kind : Kind, task : Task, stage : Stage,
     evaluation : Eval, res : Result, orphan : BOOLEAN, state : State]

CommandJob == [pc : {"command"}, command : Command, state : State]

JobSet == {Idle} \cup EarlyJob \cup HeldJob \cup WriteJob \cup CommandJob

Types ==
    /\ op \in State \cup {Unreadable}
    /\ results \in [Task -> [Slot -> Result \cup {NoResult}]]
    /\ proc \in [Proc -> JobSet]

LEMMA NothingIsNone ==
    /\ \A r \in Result : r # NoResult
    /\ \A e \in Evaluation : e # NoEvaluation
    /\ \A s \in State : s # Unreadable
    /\ \A l \in LastRun : l # NoRun
<1>1. DOMAIN [none |-> TRUE] = {"none"}
  OBVIOUS
<1>2. \A r \in Result : DOMAIN r = {"found", "evaluation", "promotion"}
  BY DEF Result
<1>3. \A e \in Evaluation : DOMAIN e = {"passed", "retried", "winning", "judged"}
  BY DEF Evaluation
<1>4. \A s \in State : DOMAIN s = {"mode", "lane", "next", "last", "validation"}
  BY DEF State
<1>5. \A l \in LastRun : DOMAIN l = {"task", "slot", "status", "evaluation", "promotion"}
  BY DEF LastRun
<1>6. \A S : "none" \notin S => S # {"none"}
  OBVIOUS
<1>7. \A r \in Result : r # [none |-> TRUE]
  BY <1>1, <1>2, <1>6
<1>8. \A e \in Evaluation : e # [none |-> TRUE]
  BY <1>1, <1>3, <1>6
<1>9. \A s \in State : s # [none |-> TRUE]
  BY <1>1, <1>4, <1>6
<1>10. \A l \in LastRun : l # [none |-> TRUE]
  BY <1>1, <1>5, <1>6
<1> QED BY <1>7, <1>8, <1>9, <1>10 DEF NoResult, NoEvaluation, Unreadable, NoRun

LEMMA JobKinds ==
    ASSUME NEW job \in JobSet
    PROVE  /\ job.pc = "idle" => job = Idle
           /\ job.pc \in {"check", "run"} => job \in EarlyJob
           /\ job.pc \in {"compose", "finish", "state", "append"} => job \in HeldJob
           /\ job.pc \in {"truncate", "truncated"} => job \in WriteJob
           /\ job.pc = "command" => job \in CommandJob
           /\ job.pc \in {"idle", "command", "check", "run", "compose", "finish", "state",
                          "truncate", "truncated", "append"}
<1>1. /\ Idle.pc = "idle"
      /\ \A j \in EarlyJob : j.pc \in {"check", "run"}
      /\ \A j \in HeldJob : j.pc \in {"compose", "finish", "state", "append"}
      /\ \A j \in WriteJob : j.pc \in {"truncate", "truncated"}
      /\ \A j \in CommandJob : j.pc = "command"
  BY DEF Idle, EarlyJob, HeldJob, WriteJob, CommandJob
<1> QED BY <1>1 DEF JobSet

-----------------------------------------------------------------------------
(* The invariant *)

\* The files of a task.
Has(files, t) == {s \in Slot : files[t][s] # NoResult}

\* A result that may be judged: where the program looks for the text itself,
\* a success has seen it.
Looks(t) == t \in TextTask /\ Route[t] \in {"http", "file"}
Honest(t, found) == found \in FoundSet /\ (found.status = "success" /\ Looks(t) => found.seen)

\* A verdict in the task's favour is about a success with all its evidence.
Proven(t, found) ==
    /\ found.status = "success"
    /\ Expected(t) \subseteq found.ev
    /\ Looks(t) => found.seen

Sound(t, evaluation) ==
    evaluation # NoEvaluation /\ evaluation.passed =>
        Proven(t, evaluation.judged) /\ evaluation.winning # "none"

\* A result with the verdicts it carries; what it promotes is there.
Carries(t, res, files) ==
    /\ Sound(t, res.evaluation)
    /\ res.promotion = "promoted" =>
         /\ res.evaluation # NoEvaluation /\ res.evaluation.passed
         /\ res.evaluation.winning \in Has(files, t)

FilesFit(files) ==
    \A t \in Task, s \in Slot : files[t][s] # NoResult =>
        /\ Carries(t, files[t][s], files)
        /\ s \in {"result", "retry"} => Honest(t, files[t][s].found)

\* RunIssueFree, of the files that are there.
Traced(last, files) ==
    last # NoRun =>
        /\ last.slot \in Has(files, last.task)
        /\ last.evaluation # NoEvaluation /\ last.evaluation.passed =>
             last.evaluation.winning # "none"
        /\ last.promotion = "promoted" =>
             last.evaluation.passed /\ last.evaluation.winning \in Has(files, last.task)
        /\ last.slot = "life" =>
             /\ "result" \in Has(files, last.task)
             /\ last.status = "success" =>
                  last.promotion = "promoted" /\ {"eval", "prom"} \subseteq Has(files, last.task)

\* What a job carries, and which files it has, where it is.
OnTheWay(job, files) ==
    /\ job.kind = "intake" => job.task \in Fresh
    /\ Sound(job.task, job.evaluation)
    /\ job.kind \in Whole /\ job.stage # "source" => "result" \in Has(files, job.task)
    /\ job.kind \in Whole /\ job.stage = "promotion" => "eval" \in Has(files, job.task)

Complete(job, files) ==
    IF job.kind \in Whole
    THEN /\ {"result", "life"} \subseteq Has(files, job.task)
         /\ job.res.found.status = "success" =>
              job.res.promotion = "promoted" /\ {"eval", "prom"} \subseteq Has(files, job.task)
    ELSE SlotOf(job) \in Has(files, job.task)

Fits(job, files) ==
    /\ job.pc \notin {"idle", "command"} => OnTheWay(job, files)
    /\ job.pc \in {"compose", "finish", "state", "truncate", "truncated", "append"} =>
         Carries(job.task, job.res, files)
    /\ job.pc = "compose" =>
         /\ Honest(job.task, job.res.found) /\ job.stage = "retry"
         /\ "retry" \in Has(files, job.task)
    /\ job.pc = "finish" =>
         /\ job.kind \in Whole /\ "result" \in Has(files, job.task)
         /\ job.res.promotion = "promoted" => {"eval", "prom"} \subseteq Has(files, job.task)
    /\ job.pc = "state" => Complete(job, files)
    /\ job.pc = "append" => job.kind = "intake"
    /\ job.pc \in {"command", "truncate", "truncated"} => Traced(job.state.last, files)

OpInv ==
    /\ Types
    /\ FilesFit(results)
    /\ \A p \in Proc : Fits(proc[p], results)
    /\ op # Unreadable => Traced(op.last, results)
    /\ PassedProven

-----------------------------------------------------------------------------
(* Files are added only *)

Keeps(files, more) == \A t \in Task : Has(files, t) \subseteq Has(more, t)

LEMMA TracedStays ==
    ASSUME NEW last \in LastRun \cup {NoRun}, NEW files, NEW more, Keeps(files, more),
           Traced(last, files)
    PROVE  Traced(last, more)
<1>1. last # NoRun => last.task \in Task
  BY DEF LastRun
<1>2. last # NoRun => Has(files, last.task) \subseteq Has(more, last.task)
  BY <1>1 DEF Keeps
<1> QED BY <1>2 DEF Traced

LEMMA FitsStays ==
    ASSUME NEW job \in JobSet, NEW files, NEW more, Keeps(files, more), Fits(job, files)
    PROVE  Fits(job, more)
<1>1. job.pc \notin {"idle", "command"} => job.task \in Task
  BY JobKinds DEF EarlyJob, HeldJob, WriteJob
<1>2. job.pc \notin {"idle", "command"} => Has(files, job.task) \subseteq Has(more, job.task)
  BY <1>1 DEF Keeps
<1>3. job.pc \in {"command", "truncate", "truncated"} => job.state.last \in LastRun \cup {NoRun}
  BY JobKinds DEF WriteJob, CommandJob, State
<1>4. job.pc \in {"command", "truncate", "truncated"} => Traced(job.state.last, more)
  BY <1>3, TracedStays DEF Fits
<1>5. job.pc \notin {"idle", "command"} => OnTheWay(job, more)
  BY <1>2 DEF Fits, OnTheWay
<1>6. job.pc \in {"compose", "finish", "state", "truncate", "truncated", "append"} =>
         Carries(job.task, job.res, more)
  BY <1>2 DEF Fits, Carries
<1>7. job.pc = "state" => Complete(job, more)
  BY <1>2 DEF Fits, Complete
<1> QED BY <1>2, <1>4, <1>5, <1>6, <1>7 DEF Fits

LEMMA WriteMeans ==
    ASSUME Types, NEW t \in Task, NEW slot \in Slot, NEW res \in Result, WriteResult(t, slot, res)
    PROVE  /\ results' \in [Task -> [Slot -> Result \cup {NoResult}]]
           /\ \A u \in Task, s \in Slot :
                results'[u][s] = IF u = t /\ s = slot THEN res ELSE results[u][s]
           /\ Keeps(results, results')
           /\ slot \in Has(results', t)
<1>1. /\ results' \in [Task -> [Slot -> Result \cup {NoResult}]]
      /\ \A u \in Task, s \in Slot :
           results'[u][s] = IF u = t /\ s = slot THEN res ELSE results[u][s]
  BY DEF Types, WriteResult
<1>2. res # NoResult
  BY NothingIsNone
<1>3. slot \in Has(results', t)
  BY <1>1, <1>2 DEF Has
<1>4. Keeps(results, results')
  BY <1>1, <1>2 DEF Keeps, Has
<1> QED BY <1>1, <1>3, <1>4

LEMMA FilesStayFit ==
    ASSUME OpInv, NEW t \in Task, NEW slot \in Slot, NEW res \in Result, WriteResult(t, slot, res),
           Carries(t, res, results'), slot \in {"result", "retry"} => Honest(t, res.found)
    PROVE  FilesFit(results')
<1>1. Types
  BY DEF OpInv
<1>2. SUFFICES ASSUME NEW u \in Task, NEW s \in Slot, results'[u][s] # NoResult
               PROVE  /\ Carries(u, results'[u][s], results')
                      /\ s \in {"result", "retry"} => Honest(u, results'[u][s].found)
  BY DEF FilesFit
<1>3. CASE u = t /\ s = slot
  BY <1>1, <1>3, WriteMeans
<1>4. CASE ~(u = t /\ s = slot)
  <2>1. results'[u][s] = results[u][s] /\ Has(results, u) \subseteq Has(results', u)
    BY <1>1, <1>4, WriteMeans DEF Keeps
  <2> QED BY <1>2, <2>1 DEF OpInv, FilesFit, Carries
<1> QED BY <1>3, <1>4

-----------------------------------------------------------------------------
(* What the adapters bring *)

LEMMA FoundMeans ==
    ASSUME NEW status \in {"success", "failure", "blocked"}, NEW ev \in SUBSET EvidenceType,
           NEW seen \in BOOLEAN
    PROVE  /\ Found(status, ev, seen) \in FoundSet
           /\ Found(status, ev, seen).status = status
           /\ Found(status, ev, seen).seen = seen
<1>1. ev \cup {"file_exists"} \in SUBSET EvidenceType
  BY DEF EvidenceType
<1> QED BY <1>1 DEF Found, FoundSet

LEMMA BlockedIsHonest ==
    ASSUME NEW t \in Task, NEW ev \in SUBSET EvidenceType
    PROVE  Honest(t, Blocked(ev))
<1>1. Blocked(ev) \in FoundSet /\ Blocked(ev).status = "blocked"
  BY FoundMeans DEF Blocked
<1> QED BY <1>1 DEF Honest

LEMMA GateIsHonest ==
    ASSUME NEW t \in Task, NEW found, Honest(t, found)
    PROVE  Honest(t, Gated(t, found))
<1>1. CASE ValidEvidence(t, found)
  BY <1>1 DEF Gated
<1>2. CASE ~ValidEvidence(t, found)
  <2>1. Gated(t, found) = [found EXCEPT !.status = "blocked"] /\ found \in FoundSet
    BY <1>2 DEF Gated, Honest
  <2>2. Gated(t, found) \in FoundSet /\ Gated(t, found).status = "blocked"
    BY <2>1 DEF FoundSet
  <2> QED BY <2>2 DEF Honest
<1> QED BY <1>1, <1>2

LEMMA HttpIsHonest ==
    ASSUME NEW t \in Task, NEW found \in HttpOutcomes(t)
    PROVE  Honest(t, found)
<1>1. PICK fine \in BOOLEAN, matched \in BOOLEAN :
        found = Found(Status(fine /\ matched),
                      {"command_exit", "log_trace"} \cup Observation(matched), matched)
  BY DEF HttpOutcomes
<1>2. /\ Status(fine /\ matched) \in {"success", "failure", "blocked"}
      /\ Status(fine /\ matched) = "success" => matched
  BY DEF Status
<1>3. {"command_exit", "log_trace"} \cup Observation(matched) \in SUBSET EvidenceType
  BY DEF Observation, EvidenceType
<1>4. found \in FoundSet /\ found.status = Status(fine /\ matched) /\ found.seen = matched
  BY <1>1, <1>2, <1>3, FoundMeans
<1> QED BY <1>1, <1>2, <1>4 DEF Honest

LEMMA FileIsHonest ==
    ASSUME NEW t \in Task, NEW found \in FileOutcomes(t)
    PROVE  Honest(t, found)
<1>1. /\ {"manual_note"} \in SUBSET EvidenceType /\ {} \in SUBSET EvidenceType
      /\ {"file_read", "log_trace"} \in SUBSET EvidenceType
  BY DEF EvidenceType
<1>2. CASE found = Blocked({"manual_note"}) \/ found = Blocked({})
  BY <1>1, <1>2, BlockedIsHonest
<1>3. CASE \E matched \in BOOLEAN :
             found = Found(Status(matched), {"file_read", "log_trace"}, matched)
  <2>1. PICK matched \in BOOLEAN :
          found = Found(Status(matched), {"file_read", "log_trace"}, matched)
    BY <1>3
  <2>2. /\ Status(matched) \in {"success", "failure", "blocked"}
        /\ Status(matched) = "success" => matched
    BY DEF Status
  <2>3. found \in FoundSet /\ found.status = Status(matched) /\ found.seen = matched
    BY <1>1, <2>1, <2>2, FoundMeans
  <2> QED BY <2>2, <2>3 DEF Honest
<1> QED BY <1>2, <1>3 DEF FileOutcomes

\* The other adapters do not look for the text, or look in their own output.
LEMMA OthersAreFound ==
    ASSUME NEW t \in Task,
           NEW found \in OpenManusOutcomes(t) \cup OctogentOutcomes(t) \cup LiveOutcomes(t)
                           \cup VellumOutcomes(t) \cup LocalOutcomes(t)
    PROVE  found \in FoundSet
<1>1. \A ok \in BOOLEAN : Status(ok) \in {"success", "failure", "blocked"}
  BY DEF Status
<1>2. /\ {"manual_note"} \in SUBSET EvidenceType /\ {} \in SUBSET EvidenceType
      /\ {"file_read", "log_trace"} \in SUBSET EvidenceType
      /\ {"log_trace"} \in SUBSET EvidenceType /\ {"file_read"} \in SUBSET EvidenceType
      /\ {"command_exit"} \in SUBSET EvidenceType
      /\ {"command_exit", "log_trace"} \in SUBSET EvidenceType
      /\ \A b : Observation(b) \in SUBSET EvidenceType
  BY DEF EvidenceType, Observation
<1>3. \A ev \in SUBSET EvidenceType : Blocked(ev) \in FoundSet
  BY FoundMeans DEF Blocked
<1> DEFINE Logs == {{}, {"log_trace"}}
           Reads == {{"file_read"}, {}}
           Notes == {{}, {"manual_note"}}
<1>4. CASE found \in OpenManusOutcomes(t)
  <2> DEFINE Output(exit, printed, log) ==
               Found(Status(exit), {"command_exit"} \cup log
                       \cup Observation(t \in TextTask /\ printed /\ log # {}), printed)
  <2>1. OpenManusOutcomes(t) =
          {Blocked({"manual_note"})} \cup
          {Output(exit, printed, log) : exit \in BOOLEAN, printed \in BOOLEAN, log \in Logs}
    BY DEF OpenManusOutcomes
  <2>2. \A exit \in BOOLEAN, printed \in BOOLEAN, log \in Logs :
          Output(exit, printed, log) \in FoundSet
    <3> SUFFICES ASSUME NEW exit \in BOOLEAN, NEW printed \in BOOLEAN, NEW log \in Logs
                 PROVE  Output(exit, printed, log) \in FoundSet
      OBVIOUS
    <3>1. {"command_exit"} \cup log \cup Observation(t \in TextTask /\ printed /\ log # {})
            \in SUBSET EvidenceType
      BY <1>2
    <3> QED BY <1>1, <3>1, FoundMeans
  <2> HIDE DEF Logs, Output
  <2>3. CASE found = Blocked({"manual_note"})
    BY <1>2, <1>3, <2>3
  <2>4. CASE \E exit \in BOOLEAN, printed \in BOOLEAN, log \in Logs :
               found = Output(exit, printed, log)
    BY <2>2, <2>4
  <2> QED BY <1>4, <2>1, <2>3, <2>4
<1>5. CASE found \in OctogentOutcomes(t)
  <2> DEFINE Bundle(whole, read) ==
               Found(Status(whole /\ read # {}), read \cup {"log_trace"}, FALSE)
  <2>1. OctogentOutcomes(t) = {Bundle(whole, read) : whole \in BOOLEAN, read \in Reads}
    BY DEF OctogentOutcomes
  <2>2. \A whole \in BOOLEAN, read \in Reads : Bundle(whole, read) \in FoundSet
    <3> SUFFICES ASSUME NEW whole \in BOOLEAN, NEW read \in Reads
                 PROVE  Bundle(whole, read) \in FoundSet
      OBVIOUS
    <3>1. read \cup {"log_trace"} \in SUBSET EvidenceType
      BY <1>2
    <3>2. (whole /\ read # {}) \in BOOLEAN
      OBVIOUS
    <3> QED BY <1>1, <3>1, <3>2, FoundMeans
  <2> HIDE DEF Reads, Bundle
  <2> QED BY <1>5, <2>1, <2>2
<1>6. CASE found \in LiveOutcomes(t)
  <2> DEFINE Answer(exit, parsed, note) ==
               Found(Status(exit /\ parsed), {"command_exit", "log_trace"} \cup note, FALSE)
  <2>1. LiveOutcomes(t) =
          {Answer(exit, parsed, note) : exit \in BOOLEAN, parsed \in BOOLEAN, note \in Notes}
    BY DEF LiveOutcomes
  <2>2. \A exit \in BOOLEAN, parsed \in BOOLEAN, note \in Notes :
          Answer(exit, parsed, note) \in FoundSet
    <3> SUFFICES ASSUME NEW exit \in BOOLEAN, NEW parsed \in BOOLEAN, NEW note \in Notes
                 PROVE  Answer(exit, parsed, note) \in FoundSet
      OBVIOUS
    <3>1. {"command_exit", "log_trace"} \cup note \in SUBSET EvidenceType
      BY <1>2
    <3>2. (exit /\ parsed) \in BOOLEAN
      OBVIOUS
    <3> QED BY <1>1, <3>1, <3>2, FoundMeans
  <2> HIDE DEF Notes, Answer
  <2> QED BY <1>6, <2>1, <2>2
<1>7. CASE found \in VellumOutcomes(t)
  BY <1>2, <1>3, <1>7, FoundMeans DEF VellumOutcomes
<1>8. CASE found \in LocalOutcomes(t)
  BY <1>2, <1>8, FoundMeans DEF LocalOutcomes
<1> QED BY <1>4, <1>5, <1>6, <1>7, <1>8

\* Whatever the route, a result that the program looked into says the truth
\* about the text.
LEMMA OutcomesAreHonest ==
    ASSUME NEW t \in Task, NEW found \in Outcomes(t)
    PROVE  Honest(t, found)
<1>1. Route[t] \in Routes
  BY TaskAssumption
<1>2. PICK raw : found = Gated(t, raw) /\
        \/ raw = [Blocked({}) EXCEPT !.ev = {}]
        \/ Route[t] = "http" /\ raw \in HttpOutcomes(t)
        \/ Route[t] = "file" /\ raw \in FileOutcomes(t)
        \/ Route[t] \notin {"http", "file"}
             /\ raw \in OpenManusOutcomes(t) \cup OctogentOutcomes(t) \cup LiveOutcomes(t)
                           \cup VellumOutcomes(t) \cup LocalOutcomes(t)
  BY <1>1, ZenonT(30) DEF Outcomes, Routes
<1>3. CASE raw = [Blocked({}) EXCEPT !.ev = {}]
  <2>1. Blocked({}) \in FoundSet /\ Blocked({}).status = "blocked"
    BY FoundMeans DEF Blocked, EvidenceType
  <2>2. raw \in FoundSet /\ raw.status = "blocked"
    BY <1>3, <2>1 DEF FoundSet
  <2>3. Honest(t, raw)
    BY <2>2 DEF Honest
  <2> QED BY <1>2, <2>3, GateIsHonest
<1>4. CASE Route[t] = "http" /\ raw \in HttpOutcomes(t)
  BY <1>2, <1>4, HttpIsHonest, GateIsHonest
<1>5. CASE Route[t] = "file" /\ raw \in FileOutcomes(t)
  BY <1>2, <1>5, FileIsHonest, GateIsHonest
<1>6. CASE Route[t] \notin {"http", "file"}
             /\ raw \in OpenManusOutcomes(t) \cup OctogentOutcomes(t) \cup LiveOutcomes(t)
                           \cup VellumOutcomes(t) \cup LocalOutcomes(t)
  <2>1. Honest(t, raw)
    BY <1>6, OthersAreFound DEF Honest, Looks
  <2> QED BY <1>2, <2>1, GateIsHonest
<1> QED BY <1>2, <1>3, <1>4, <1>5, <1>6

-----------------------------------------------------------------------------
(* The verdicts *)

LEMMA PlainCarries ==
    ASSUME NEW t \in Task, NEW found \in FoundSet, NEW files
    PROVE  Plain(found) \in Result /\ Carries(t, Plain(found), files)
             /\ Plain(found).found = found /\ Plain(found).promotion = "none"
<1>1. /\ Plain(found) = [found |-> found, evaluation |-> NoEvaluation, promotion |-> "none"]
      /\ Plain(found) \in Result
  BY DEF Plain, Result, Promotion
<1> QED BY <1>1 DEF Carries, Sound

LEMMA VerdictFound ==
    ASSUME NEW ok \in BOOLEAN
    PROVE  Found(VerdictStatus(ok), ManualEvidence, FALSE) \in FoundSet
<1>1. VerdictStatus(ok) \in {"success", "failure", "blocked"}
  BY DEF VerdictStatus
<1>2. ManualEvidence \in SUBSET EvidenceType
  BY DEF ManualEvidence, EvidenceType
<1> QED BY <1>1, <1>2, FoundMeans

\* What is judged honestly is judged soundly.
LEMMA EvaluatedIsSound ==
    ASSUME NEW t \in Task, NEW found, Honest(t, found), NEW retried \in BOOLEAN
    PROVE  /\ Evaluated(t, found, retried) \in Evaluation
           /\ Sound(t, Evaluated(t, found, retried))
<1> DEFINE winning == IF ~Passes(t, found) THEN "none" ELSE IF retried THEN "retry" ELSE "result"
           e == Evaluated(t, found, retried)
<1>1. Passes(t, found) \in BOOLEAN
  BY DEF Passes, ValidEvidence
<1>2. winning \in {"none", "result", "retry"} /\ (Passes(t, found) => winning # "none")
  OBVIOUS
<1>3. e = [passed |-> Passes(t, found), retried |-> retried, judged |-> found,
           winning |-> winning]
  BY DEF Evaluated
<1>4. found \in FoundSet
  BY DEF Honest
<1>5. Passes(t, found) => Proven(t, found)
  BY DEF Passes, ValidEvidence, Proven, Honest
<1> HIDE DEF winning, e
<1>6. e \in Evaluation /\ e.passed = Passes(t, found) /\ e.judged = found /\ e.winning = winning
  BY <1>1, <1>2, <1>3, <1>4 DEF Evaluation
<1>7. Sound(t, e)
  BY <1>2, <1>5, <1>6 DEF Sound
<1> QED BY <1>6, <1>7 DEF e

LEMMA EvaluationCarries ==
    ASSUME NEW t \in Task, NEW evaluation \in Evaluation, Sound(t, evaluation), NEW files
    PROVE  /\ EvaluationResult(evaluation) \in Result
           /\ Carries(t, EvaluationResult(evaluation), files)
           /\ EvaluationResult(evaluation).promotion = "none"
<1> DEFINE found == Found(VerdictStatus(evaluation.passed), ManualEvidence, FALSE)
<1>1. evaluation.passed \in BOOLEAN
  BY DEF Evaluation
<1>2. found \in FoundSet
  BY <1>1, VerdictFound
<1>3. EvaluationResult(evaluation) =
        [found |-> found, evaluation |-> evaluation, promotion |-> "none"]
  BY DEF EvaluationResult
<1> HIDE DEF found
<1>4. /\ EvaluationResult(evaluation) \in Result
      /\ EvaluationResult(evaluation).evaluation = evaluation
      /\ EvaluationResult(evaluation).promotion = "none"
  BY <1>2, <1>3 DEF Result, Promotion
<1> QED BY <1>4 DEF Carries

\* A promotion of what was judged soundly has its winner.
LEMMA PromotionCarries ==
    ASSUME NEW t \in Task, NEW source \in Result, NEW files, Sound(t, source.evaluation)
    PROVE  /\ PromotionResult(source, Has(files, t)) \in Result
           /\ Carries(t, PromotionResult(source, Has(files, t)), files)
<1> DEFINE ok == Promotable(source.evaluation, Has(files, t))
           found == Found(VerdictStatus(ok), ManualEvidence, FALSE)
           verdict == IF ok THEN "promoted" ELSE "blocked"
           res == PromotionResult(source, Has(files, t))
<1>1. ok \in BOOLEAN
  BY DEF Promotable
<1>2. found \in FoundSet
  BY <1>1, VerdictFound
<1>3. res = [found |-> found, evaluation |-> source.evaluation, promotion |-> verdict]
  BY DEF PromotionResult
<1>4. verdict \in Promotion /\ (verdict = "promoted" => ok)
  BY DEF Promotion
<1>5. ok => /\ source.evaluation # NoEvaluation /\ source.evaluation.passed
            /\ source.evaluation.winning \in Has(files, t)
  BY DEF Promotable
<1> HIDE DEF ok, found, verdict, res
<1>6. /\ res \in Result
      /\ res.evaluation = source.evaluation
      /\ res.promotion = verdict
  BY <1>2, <1>3, <1>4 DEF Result
<1>7. Carries(t, res, files)
  BY <1>4, <1>5, <1>6 DEF Carries
<1> QED BY <1>6, <1>7 DEF res

LEMMA LifecycleCarries ==
    ASSUME NEW job \in HeldJob, NEW files, Carries(job.task, job.res, files),
           Sound(job.task, job.evaluation)
    PROVE  /\ LifecycleResult(job) \in Result
           /\ Carries(job.task, LifecycleResult(job), files)
           /\ LifecycleResult(job).promotion = job.res.promotion
           /\ LifecycleResult(job).found.status = "success" => job.res.promotion = "promoted"
<1> DEFINE promoted == job.res.promotion = "promoted" /\ job.res.found.status = "success"
           raw == Found(VerdictStatus(promoted), {"log_trace", "manual_note"}, FALSE)
           found == [raw EXCEPT !.ev = @ \ {"file_exists"}]
           evaluation == IF job.res.evaluation # NoEvaluation THEN job.res.evaluation
                         ELSE job.evaluation
           life == LifecycleResult(job)
<1>1. /\ job.res \in Result /\ job.evaluation \in Eval
      /\ job.res.evaluation \in Eval /\ job.res.promotion \in Promotion
  BY DEF HeldJob, Result, Eval
<1>2. /\ VerdictStatus(promoted) \in {"success", "failure", "blocked"}
      /\ VerdictStatus(promoted) = "success" => job.res.promotion = "promoted"
  BY DEF VerdictStatus
<1>3. {"log_trace", "manual_note"} \in SUBSET EvidenceType
  BY DEF EvidenceType
<1>4. raw \in FoundSet /\ raw.status = VerdictStatus(promoted)
  BY <1>2, <1>3, FoundMeans
<1>5. evaluation \in Eval /\ Sound(job.task, evaluation)
  BY <1>1 DEF Carries
<1>6. job.res.promotion = "promoted" =>
        evaluation = job.res.evaluation /\ job.res.evaluation # NoEvaluation
  BY DEF Carries
<1>7. life = [found |-> found, evaluation |-> evaluation, promotion |-> job.res.promotion]
  BY DEF LifecycleResult
<1> HIDE DEF promoted, raw, evaluation, life
<1>8. found \in FoundSet /\ found.status = VerdictStatus(promoted)
  BY <1>4 DEF FoundSet
<1> HIDE DEF found
<1>9. /\ life \in Result
      /\ life.found = found /\ life.evaluation = evaluation
      /\ life.promotion = job.res.promotion
  BY <1>1, <1>5, <1>7, <1>8 DEF Result, Eval
<1>10. Carries(job.task, life, files)
  BY <1>5, <1>6, <1>9 DEF Carries
<1> QED BY <1>2, <1>8, <1>9, <1>10 DEF life

LEMMA LastRunIsTold ==
    ASSUME NEW job \in HeldJob, Carries(job.task, job.res, results), Complete(job, results)
    PROVE  /\ LastRunOf(job) \in LastRun
           /\ Traced(LastRunOf(job), results)
<1> DEFINE slot == IF job.kind \in Whole THEN "life" ELSE SlotOf(job)
           promotion == IF job.res.promotion # "none" THEN job.res.promotion
                        ELSE IF Promotable(job.res.evaluation, Exists(job.task)) THEN "promoted"
                        ELSE "blocked"
           last == LastRunOf(job)
<1>1. /\ job.res \in Result /\ job.task \in Task /\ job.stage \in Stage
      /\ job.res.evaluation \in Eval /\ job.res.promotion \in Promotion
      /\ job.res.found.status \in {"success", "failure", "blocked"}
  BY DEF HeldJob, Result, Eval, FoundSet
<1>2. /\ job.kind \notin Whole =>
           SlotOf(job) \in {"result", "retry", "smoke-eval", "smoke-prom"}
      /\ slot \in Slot /\ (slot = "life" => job.kind \in Whole)
  BY <1>1 DEF SlotOf, EvalSlot, PromSlot, Slot, Stage
<1>3. Exists(job.task) = Has(results, job.task)
  BY DEF Exists, Has
<1>4. /\ promotion \in {"blocked", "promoted"}
      /\ promotion = "promoted" => job.res.evaluation # NoEvaluation /\ job.res.evaluation.passed
           /\ job.res.evaluation.winning \in Has(results, job.task)
      /\ job.res.promotion = "promoted" => promotion = "promoted"
  BY <1>1, <1>3 DEF Promotion, Promotable, Carries
<1>5. last = [task |-> job.task, slot |-> slot, status |-> job.res.found.status,
              evaluation |-> job.res.evaluation, promotion |-> promotion]
  BY DEF LastRunOf
<1>6. slot \in Has(results, job.task)
  BY <1>2 DEF Complete
<1>7. job.res.evaluation # NoEvaluation /\ job.res.evaluation.passed =>
        job.res.evaluation.winning # "none"
  BY DEF Carries, Sound
<1>8. slot = "life" =>
        /\ "result" \in Has(results, job.task)
        /\ job.res.found.status = "success" =>
             promotion = "promoted" /\ {"eval", "prom"} \subseteq Has(results, job.task)
  BY <1>2, <1>4 DEF Complete
<1> HIDE DEF slot, promotion, last
<1>9. /\ last \in LastRun
      /\ last.task = job.task /\ last.slot = slot /\ last.status = job.res.found.status
      /\ last.evaluation = job.res.evaluation /\ last.promotion = promotion
  BY <1>1, <1>2, <1>4, <1>5 DEF LastRun, Eval
<1>10. Traced(last, results)
  BY <1>4, <1>6, <1>7, <1>8, <1>9 DEF Traced
<1> QED BY <1>9, <1>10 DEF last

-----------------------------------------------------------------------------
(* Where a job goes *)

LEMMA JobFields ==
    ASSUME NEW job \in EarlyJob \cup HeldJob
    PROVE  job.kind \in Kind /\ job.task \in Task /\ job.stage \in Stage /\ job.evaluation \in Eval
  BY DEF EarlyJob, HeldJob

LEMMA HoldingMeans ==
    ASSUME NEW job \in EarlyJob \cup HeldJob, NEW res \in Result,
           NEW pc \in {"compose", "finish", "state", "append"}
    PROVE  LET held == Holding(job, pc, res)
           IN  /\ held \in HeldJob
               /\ held.pc = pc /\ held.kind = job.kind /\ held.task = job.task
               /\ held.stage = job.stage /\ held.evaluation = job.evaluation /\ held.res = res
  BY JobFields DEF Holding, HeldJob

LEMMA EnterMeans ==
    ASSUME NEW job \in EarlyJob \cup HeldJob, NEW stage \in Stage, NEW evaluation \in Eval
    PROVE  LET next == Enter([job EXCEPT !.evaluation = evaluation], stage)
           IN  /\ next \in EarlyJob
               /\ next.pc = "check" /\ next.kind = job.kind /\ next.task = job.task
               /\ next.stage = stage /\ next.evaluation = evaluation
<1> DEFINE held == [job EXCEPT !.evaluation = evaluation]
<1>1. /\ held.kind = job.kind /\ held.task = job.task /\ held.evaluation = evaluation
  BY DEF EarlyJob, HeldJob
<1> HIDE DEF held
<1>2. Enter(held, stage) = [pc |-> "check", kind |-> job.kind, task |-> job.task,
                            stage |-> stage, evaluation |-> evaluation]
  BY <1>1 DEF Enter
<1>3. /\ Enter(held, stage) \in EarlyJob
      /\ Enter(held, stage).pc = "check" /\ Enter(held, stage).kind = job.kind
      /\ Enter(held, stage).task = job.task /\ Enter(held, stage).stage = stage
      /\ Enter(held, stage).evaluation = evaluation
  BY <1>2, JobFields DEF EarlyJob
<1> QED BY <1>3 DEF held

LEMMA EnterSame ==
    ASSUME NEW job \in EarlyJob \cup HeldJob, NEW stage \in Stage
    PROVE  LET next == Enter(job, stage)
           IN  /\ next \in EarlyJob
               /\ next.pc = "check" /\ next.kind = job.kind /\ next.task = job.task
               /\ next.stage = stage /\ next.evaluation = job.evaluation
  BY JobFields DEF Enter, EarlyJob

\* With its result on file, a job goes on as it may.
LEMMA AfterFits ==
    ASSUME NEW job \in EarlyJob \cup HeldJob, NEW res \in Result, NEW files,
           Carries(job.task, res, files), OnTheWay(job, files),
           job.kind \notin Whole => SlotOf(job) \in Has(files, job.task),
           job.kind \in Whole => "result" \in Has(files, job.task),
           job.kind \in Whole /\ job.stage \in {"evaluation", "retry", "promotion"} =>
             "eval" \in Has(files, job.task),
           job.kind \in Whole /\ job.stage = "promotion" => "prom" \in Has(files, job.task),
           job.stage = "source" => res.promotion = "none"
    PROVE  After(job, res) \in JobSet /\ Fits(After(job, res), files)
<1> USE JobFields
<1>1. CASE job.kind \notin Whole
  <2> DEFINE held == Holding(job, "state", res)
  <2>1. After(job, res) = held
    BY <1>1 DEF After
  <2>2. /\ held \in HeldJob
        /\ held.pc = "state" /\ held.kind = job.kind /\ held.task = job.task
        /\ held.stage = job.stage /\ held.evaluation = job.evaluation /\ held.res = res
    BY HoldingMeans
  <2> HIDE DEF held
  <2>3. SlotOf(held) = SlotOf(job)
    BY <2>2 DEF SlotOf, EvalSlot, PromSlot
  <2>4. Complete(held, files) /\ OnTheWay(held, files) /\ Carries(held.task, held.res, files)
    BY <1>1, <2>2, <2>3 DEF Complete, OnTheWay
  <2>5. Fits(held, files)
    BY <2>2, <2>4 DEF Fits
  <2> QED BY <2>1, <2>2, <2>5 DEF JobSet
<1>2. CASE job.kind \in Whole /\ job.stage \in {"evaluation", "retry"}
  <2> DEFINE next == Enter([job EXCEPT !.evaluation = res.evaluation], "promotion")
  <2>1. After(job, res) = next
    BY <1>2 DEF After
  <2>2. res.evaluation \in Eval
    BY DEF Result, Eval
  <2>3. /\ next \in EarlyJob
        /\ next.pc = "check" /\ next.kind = job.kind /\ next.task = job.task
        /\ next.stage = "promotion" /\ next.evaluation = res.evaluation
    BY <2>2, EnterMeans DEF Stage
  <2> HIDE DEF next
  <2>4. OnTheWay(next, files)
    BY <1>2, <2>3 DEF OnTheWay, Carries
  <2>5. Fits(next, files)
    BY <2>3, <2>4 DEF Fits
  <2> QED BY <2>1, <2>3, <2>5 DEF JobSet
<1>3. CASE job.kind \in Whole /\ job.stage = "source" /\ res.found.status = "success"
  <2> DEFINE next == Enter(job, "evaluation")
  <2>1. After(job, res) = next
    BY <1>3 DEF After
  <2>2. /\ next \in EarlyJob
        /\ next.pc = "check" /\ next.kind = job.kind /\ next.task = job.task
        /\ next.stage = "evaluation" /\ next.evaluation = job.evaluation
    BY EnterSame DEF Stage
  <2> HIDE DEF next
  <2>3. OnTheWay(next, files)
    BY <1>3, <2>2 DEF OnTheWay
  <2>4. Fits(next, files)
    BY <2>2, <2>3 DEF Fits
  <2> QED BY <2>1, <2>2, <2>4 DEF JobSet
<1>4. CASE job.kind \in Whole /\ (\/ job.stage = "source" /\ res.found.status # "success"
                                 \/ job.stage = "promotion")
  <2> DEFINE held == Holding(job, "finish", res)
  <2>1. After(job, res) = held
    BY <1>4 DEF After
  <2>2. /\ held \in HeldJob
        /\ held.pc = "finish" /\ held.kind = job.kind /\ held.task = job.task
        /\ held.stage = job.stage /\ held.evaluation = job.evaluation /\ held.res = res
    BY HoldingMeans
  <2> HIDE DEF held
  <2>3. OnTheWay(held, files) /\ Carries(held.task, held.res, files)
    BY <2>2 DEF OnTheWay
  <2>4. held.res.promotion = "promoted" => {"eval", "prom"} \subseteq Has(files, held.task)
    BY <1>4, <2>2
  <2>5. Fits(held, files)
    BY <1>4, <2>2, <2>3, <2>4 DEF Fits
  <2> QED BY <2>1, <2>2, <2>5 DEF JobSet
<1> QED BY <1>1, <1>2, <1>3, <1>4 DEF Stage

LEMMA IdleFits ==
    ASSUME NEW files
    PROVE  Idle \in JobSet /\ Fits(Idle, files)
  BY DEF Idle, JobSet, Fits

-----------------------------------------------------------------------------
(* The steps of one job *)

LEMMA StepKeeps ==
    ASSUME OpInv, NEW p \in Proc, NEW job \in JobSet, Become(p, job), Fits(job, results'),
           results' \in [Task -> [Slot -> Result \cup {NoResult}]], FilesFit(results'),
           Keeps(results, results'), op' \in State \cup {Unreadable},
           op' # Unreadable => Traced(op'.last, results'), PassedProven'
    PROVE  OpInv'
<1>1. proc \in [Proc -> JobSet] /\ proc' = [proc EXCEPT ![p] = job]
  BY DEF OpInv, Types, Become
<1>2. Types'
  BY <1>1 DEF Types
<1>3. ASSUME NEW q \in Proc
      PROVE  Fits(proc'[q], results')
  <2>1. CASE q = p
    BY <1>1, <2>1
  <2>2. CASE q # p
    <3>1. proc'[q] = proc[q] /\ proc[q] \in JobSet
      BY <1>1, <2>2
    <3>2. Fits(proc[q], results)
      BY DEF OpInv
    <3>3. Fits(proc[q], results')
      BY <3>1, <3>2, FitsStays
    <3> QED BY <3>1, <3>3
  <2> QED BY <2>1, <2>2
<1> QED BY <1>2, <1>3 DEF OpInv

\* A step that leaves the state file and the ledger alone.
LEMMA QuietStep ==
    ASSUME OpInv, NEW p \in Proc, NEW job \in JobSet, Become(p, job), Fits(job, results'),
           results' \in [Task -> [Slot -> Result \cup {NoResult}]], FilesFit(results'),
           Keeps(results, results'), UNCHANGED <<op, ledger>>
    PROVE  OpInv'
<1>1. op' \in State \cup {Unreadable} /\ PassedProven'
  BY DEF OpInv, Types, PassedProven
<1>2. op' # Unreadable => Traced(op'.last, results')
  <2>1. op # Unreadable => op.last \in LastRun \cup {NoRun}
    BY DEF OpInv, Types, State
  <2>2. op # Unreadable => Traced(op.last, results)
    BY DEF OpInv
  <2> QED BY <2>1, <2>2, TracedStays
<1> QED BY <1>1, <1>2, StepKeeps

LEMMA NothingWritten ==
    ASSUME OpInv, UNCHANGED results
    PROVE  /\ results' \in [Task -> [Slot -> Result \cup {NoResult}]]
           /\ FilesFit(results')
           /\ Keeps(results, results')
  BY DEF OpInv, Types, Keeps

\* A step that writes a result file.
LEMMA WritingStep ==
    ASSUME OpInv, NEW p \in Proc, NEW job \in JobSet, Become(p, job), UNCHANGED <<op, ledger>>,
           NEW t \in Task, NEW slot \in Slot, NEW res \in Result, WriteResult(t, slot, res),
           Carries(t, res, results'), slot \in {"result", "retry"} => Honest(t, res.found),
           Fits(job, results')
    PROVE  OpInv'
<1>1. Types
  BY DEF OpInv
<1>2. /\ results' \in [Task -> [Slot -> Result \cup {NoResult}]]
      /\ Keeps(results, results')
  BY <1>1, WriteMeans
<1>3. FilesFit(results')
  BY FilesStayFit
<1> QED BY <1>2, <1>3, QuietStep

-----------------------------------------------------------------------------
(* The stages *)

\* What a job at a stage has, before and after its step.
LEMMA JobNow ==
    ASSUME OpInv, NEW p \in Proc, proc[p].pc \notin {"idle", "command"}
    PROVE  /\ proc[p] \in JobSet /\ proc[p].task \in Task
           /\ Fits(proc[p], results) /\ OnTheWay(proc[p], results)
           /\ proc[p].pc \in {"check", "run"} => proc[p] \in EarlyJob
           /\ proc[p].pc \in {"compose", "finish", "state", "append"} =>
                /\ proc[p] \in HeldJob
                /\ Carries(proc[p].task, proc[p].res, results)
           /\ proc[p].pc \in {"truncate", "truncated"} => proc[p] \in WriteJob
<1>1. proc[p] \in JobSet /\ Fits(proc[p], results)
  BY DEF OpInv, Types
<1>2. proc[p].task \in Task
  BY <1>1, JobKinds DEF EarlyJob, HeldJob, WriteJob
<1> QED BY <1>1, <1>2, JobKinds DEF Fits

LEMMA Kept ==
    ASSUME OpInv, NEW t \in Task, NEW slot \in Slot, NEW res \in Result, WriteResult(t, slot, res)
    PROVE  /\ Keeps(results, results') /\ slot \in Has(results', t)
           /\ \A u \in Task : Has(results, u) \subseteq Has(results', u)
  BY WriteMeans DEF OpInv, Keeps

LEMMA RefusedIsPlain ==
    ASSUME NEW t \in Task, NEW files
    PROVE  /\ Refused \in Result /\ Carries(t, Refused, files) /\ Honest(t, Refused.found)
           /\ Refused.promotion = "none"
<1>1. {"manual_note"} \in SUBSET EvidenceType
  BY DEF EvidenceType
<1>2. Honest(t, Blocked({"manual_note"}))
  BY <1>1, BlockedIsHonest
<1>3. Blocked({"manual_note"}) \in FoundSet
  BY <1>2 DEF Honest
<1> QED BY <1>2, <1>3, PlainCarries DEF Refused

\* The stage of a job decides the file of its result.
LEMMA StageSlot ==
    ASSUME NEW job \in EarlyJob \cup HeldJob
    PROVE  /\ SlotOf(job) \in Slot /\ EvalSlot(job) \in Slot /\ PromSlot(job) \in Slot
           /\ EvalSlot(job) \notin {"result", "retry"} /\ PromSlot(job) \notin {"result", "retry"}
           /\ job.kind \in Whole => EvalSlot(job) = "eval" /\ PromSlot(job) = "prom"
           /\ job.stage = "source" => SlotOf(job) = "result"
           /\ job.stage = "retry" => SlotOf(job) = "retry"
           /\ job.stage = "evaluation" => SlotOf(job) = EvalSlot(job)
           /\ job.stage = "promotion" => SlotOf(job) = PromSlot(job)
  BY JobFields DEF SlotOf, EvalSlot, PromSlot, Slot, Stage

\* A stage that ends with the file of its own.
LEMMA StageEnds ==
    ASSUME OpInv, NEW p \in Proc, NEW slot \in Slot, NEW res \in Result,
           proc[p] \in EarlyJob \cup HeldJob, OnTheWay(proc[p], results),
           WriteResult(proc[p].task, slot, res), Carries(proc[p].task, res, results'),
           slot \in {"result", "retry"} => Honest(proc[p].task, res.found),
           \/ proc[p].stage \in {"source", "evaluation", "promotion"} /\ slot = SlotOf(proc[p])
           \/ /\ proc[p].stage = "retry" /\ slot = EvalSlot(proc[p])
              /\ "retry" \in Has(results, proc[p].task),
           proc[p].stage = "source" => res.promotion = "none",
           Become(p, After(proc[p], res)), UNCHANGED <<op, ledger>>
    PROVE  OpInv'
<1> DEFINE job == proc[p]
<1>1. job \in EarlyJob \cup HeldJob /\ job.task \in Task /\ job.stage \in Stage
  BY JobFields
<1>2. slot \in Has(results', job.task) /\ Has(results, job.task) \subseteq Has(results', job.task)
  BY <1>1, Kept
<1>3. OnTheWay(job, results')
  BY <1>2 DEF OnTheWay
<1>4. job.kind \notin Whole => SlotOf(job) \in Has(results', job.task)
  BY <1>1, <1>2, StageSlot
<1>5. job.kind \in Whole => "result" \in Has(results', job.task)
  BY <1>1, <1>2, <1>3, StageSlot DEF OnTheWay
<1>6. job.kind \in Whole /\ job.stage \in {"evaluation", "retry", "promotion"} =>
        "eval" \in Has(results', job.task)
  BY <1>1, <1>2, <1>3, StageSlot DEF OnTheWay
<1>7. job.kind \in Whole /\ job.stage = "promotion" => "prom" \in Has(results', job.task)
  BY <1>1, <1>2, StageSlot
<1>8. After(job, res) \in JobSet /\ Fits(After(job, res), results')
  <2> HIDE DEF job
  <2> QED BY <1>1, <1>3, <1>4, <1>5, <1>6, <1>7, AfterFits DEF job
<1> QED BY <1>1, <1>8, WritingStep

\* A retry that ends: its evaluation is still to be composed.
LEMMA RetryEnds ==
    ASSUME OpInv, NEW p \in Proc, NEW res \in Result, proc[p] \in EarlyJob,
           proc[p].stage = "retry", OnTheWay(proc[p], results),
           WriteResult(proc[p].task, "retry", res), Carries(proc[p].task, res, results'),
           Honest(proc[p].task, res.found), Become(p, Holding(proc[p], "compose", res)),
           UNCHANGED <<op, ledger>>
    PROVE  OpInv'
<1> DEFINE job == proc[p]
           held == Holding(proc[p], "compose", res)
<1>1. job.task \in Task /\ "retry" \in Slot
  BY JobFields DEF Slot
<1>2. "retry" \in Has(results', job.task) /\ Has(results, job.task) \subseteq Has(results', job.task)
  BY <1>1, Kept
<1>3. /\ held \in HeldJob
      /\ held.pc = "compose" /\ held.kind = job.kind /\ held.task = job.task
      /\ held.stage = job.stage /\ held.evaluation = job.evaluation /\ held.res = res
  BY HoldingMeans
<1> HIDE DEF held
<1>4. OnTheWay(held, results')
  BY <1>2, <1>3 DEF OnTheWay
<1>5. Fits(held, results')
  BY <1>2, <1>3, <1>4 DEF Fits
<1>6. held \in JobSet
  BY <1>3 DEF JobSet
<1> QED BY <1>1, <1>5, <1>6, WritingStep DEF held

LEMMA BeginKeeps ==
    ASSUME OpInv, NEW p \in Proc, Begin(p)
    PROVE  OpInv'
<1>1. PICK kind \in Kind, t \in Task, stage \in {"source", "evaluation", "promotion"} :
        /\ kind = "intake" => t \in Fresh
        /\ kind \in Whole => stage = "source"
        /\ Start(p, Job(kind, t, stage))
        /\ UNCHANGED <<op, results, ledger>>
  <2>1. PICK kind \in Kind, t \in Task :
          /\ (kind = "intake") = (t \in Fresh)
          /\ Start(p, Job(kind, t, CASE kind = "evaluate" -> "evaluation"
                                      [] kind = "promote" -> "promotion"
                                      [] OTHER -> "source"))
          /\ UNCHANGED <<op, results, ledger>>
    BY DEF Begin
  <2>2. (CASE kind = "evaluate" -> "evaluation" [] kind = "promote" -> "promotion"
           [] OTHER -> "source") \in {"source", "evaluation", "promotion"}
    OBVIOUS
  <2>3. kind \in Whole => (CASE kind = "evaluate" -> "evaluation" [] kind = "promote" -> "promotion"
                             [] OTHER -> "source") = "source"
    BY DEF Whole
  <2> QED BY <2>1, <2>2, <2>3
<1> DEFINE job == Job(kind, t, stage)
<1>2. /\ job \in EarlyJob /\ job.pc = "check" /\ job.kind = kind /\ job.task = t
      /\ job.stage = stage /\ job.evaluation = NoEvaluation
  BY DEF Job, EarlyJob, Stage, Eval
<1> HIDE DEF job
<1>3. Become(p, job)
  BY <1>1 DEF Start, Become, job
<1>4. OnTheWay(job, results')
  BY <1>1, <1>2 DEF OnTheWay, Sound, Whole
<1>5. Fits(job, results') /\ job \in JobSet
  BY <1>2, <1>4 DEF Fits, JobSet
<1> QED BY <1>1, <1>3, <1>5, NothingWritten, QuietStep

LEMMA RefuseKeeps ==
    ASSUME OpInv, NEW p \in Proc, Refuse(p)
    PROVE  OpInv'
<1>1. proc[p].pc = "check"
  BY DEF Refuse
<1>2. /\ proc[p] \in EarlyJob /\ proc[p].task \in Task /\ proc[p].stage \in Stage
      /\ OnTheWay(proc[p], results)
  BY <1>1, JobNow, JobFields
<1>3. /\ Refused \in Result /\ Carries(proc[p].task, Refused, results')
      /\ Honest(proc[p].task, Refused.found) /\ Refused.promotion = "none"
  BY <1>2, RefusedIsPlain
<1>4. CASE proc[p].stage = "retry"
  BY <1>2, <1>3, <1>4, RetryEnds DEF Refuse
<1>5. CASE proc[p].stage # "retry"
  <2>1. /\ WriteResult(proc[p].task, SlotOf(proc[p]), Refused)
        /\ Become(p, After(proc[p], Refused))
        /\ UNCHANGED <<op, ledger>>
    BY <1>5 DEF Refuse
  <2>2. proc[p].stage \in {"source", "evaluation", "promotion"} /\ SlotOf(proc[p]) \in Slot
    BY <1>2, <1>5, StageSlot DEF Stage
  <2> QED BY <1>2, <1>3, <2>1, <2>2, StageEnds
<1> QED BY <1>4, <1>5

LEMMA LaunchKeeps ==
    ASSUME OpInv, NEW p \in Proc, Launch(p)
    PROVE  OpInv'
<1> DEFINE job == proc[p]
           next == [job EXCEPT !.pc = "run"]
<1>1. job \in EarlyJob /\ OnTheWay(job, results)
  BY JobNow DEF Launch
<1> HIDE DEF job
<1>2. /\ next \in EarlyJob /\ next.pc = "run" /\ next.kind = job.kind /\ next.task = job.task
      /\ next.stage = job.stage /\ next.evaluation = job.evaluation
  BY <1>1 DEF EarlyJob
<1>3. Become(p, next) /\ UNCHANGED <<op, results, ledger>>
  BY DEF Launch, At, job
<1> HIDE DEF next
<1>4. OnTheWay(next, results')
  BY <1>1, <1>2, <1>3 DEF OnTheWay
<1>5. Fits(next, results') /\ next \in JobSet
  BY <1>2, <1>4 DEF Fits, JobSet
<1> QED BY <1>3, <1>5, NothingWritten, QuietStep

LEMMA RunKeeps ==
    ASSUME OpInv, NEW p \in Proc, Run(p)
    PROVE  OpInv'
<1>1. proc[p].pc = "run"
  BY DEF Run
<1>2. /\ proc[p] \in EarlyJob /\ proc[p].task \in Task /\ proc[p].stage \in Stage
      /\ OnTheWay(proc[p], results)
  BY <1>1, JobNow, JobFields
<1>3. PICK found \in Outcomes(proc[p].task) :
        /\ WriteResult(proc[p].task, SlotOf(proc[p]), Plain(found))
        /\ Become(p, IF proc[p].stage = "retry" THEN Holding(proc[p], "compose", Plain(found))
                     ELSE After(proc[p], Plain(found)))
        /\ UNCHANGED <<op, ledger>>
  BY DEF Run
<1>4. Honest(proc[p].task, found)
  BY <1>2, OutcomesAreHonest
<1>5. /\ Plain(found) \in Result /\ Carries(proc[p].task, Plain(found), results')
      /\ Honest(proc[p].task, Plain(found).found) /\ Plain(found).promotion = "none"
  BY <1>2, <1>4, PlainCarries DEF Honest
<1>6. CASE proc[p].stage = "retry"
  <2>1. SlotOf(proc[p]) = "retry"
    BY <1>2, <1>6, StageSlot
  <2> QED BY <1>2, <1>3, <1>5, <1>6, <2>1, RetryEnds
<1>7. CASE proc[p].stage # "retry"
  <2>1. proc[p].stage \in {"source", "evaluation", "promotion"} /\ SlotOf(proc[p]) \in Slot
    BY <1>2, <1>7, StageSlot DEF Stage
  <2> QED BY <1>2, <1>3, <1>5, <1>7, <2>1, StageEnds
<1> QED BY <1>6, <1>7

\* A judgment written down.
LEMMA JudgedKeeps ==
    ASSUME OpInv, NEW p \in Proc, proc[p] \in EarlyJob \cup HeldJob, OnTheWay(proc[p], results),
           NEW found, Honest(proc[p].task, found), NEW retried \in BOOLEAN,
           \/ proc[p].stage = "evaluation"
           \/ proc[p].stage = "retry" /\ "retry" \in Has(results, proc[p].task),
           LET res == EvaluationResult(Evaluated(proc[p].task, found, retried))
           IN  /\ WriteResult(proc[p].task, EvalSlot(proc[p]), res)
               /\ Become(p, After(proc[p], res)),
           UNCHANGED <<op, ledger>>
    PROVE  OpInv'
<1> DEFINE evaluation == Evaluated(proc[p].task, found, retried)
           res == EvaluationResult(evaluation)
<1>1. proc[p].task \in Task
  BY JobFields
<1>2. evaluation \in Evaluation /\ Sound(proc[p].task, evaluation)
  BY <1>1, EvaluatedIsSound
<1>3. WriteResult(proc[p].task, EvalSlot(proc[p]), res) /\ Become(p, After(proc[p], res))
  OBVIOUS
<1> HIDE DEF evaluation
<1>4. res \in Result /\ Carries(proc[p].task, res, results')
  BY <1>1, <1>2, EvaluationCarries
<1> HIDE DEF res
<1>5. /\ EvalSlot(proc[p]) \in Slot /\ EvalSlot(proc[p]) \notin {"result", "retry"}
      /\ proc[p].stage = "evaluation" => SlotOf(proc[p]) = EvalSlot(proc[p])
  BY StageSlot
<1> QED BY <1>1, <1>3, <1>4, <1>5, StageEnds

LEMMA EvaluateKeeps ==
    ASSUME OpInv, NEW p \in Proc, Evaluate(p)
    PROVE  OpInv'
<1> DEFINE t == proc[p].task
           source == results[t]["result"]
<1>1. proc[p].pc = "check" /\ proc[p].stage = "evaluation" /\ UNCHANGED <<op, ledger>>
  BY DEF Evaluate
<1>2. /\ proc[p] \in EarlyJob /\ t \in Task /\ proc[p].kind \in Kind
      /\ OnTheWay(proc[p], results)
  BY <1>1, JobNow, JobFields
<1>3. /\ EvalSlot(proc[p]) \in Slot /\ EvalSlot(proc[p]) \notin {"result", "retry"}
      /\ SlotOf(proc[p]) = EvalSlot(proc[p])
  BY <1>1, <1>2, StageSlot
<1>4. CASE source = NoResult
  <2> DEFINE res == Plain(Blocked({"file_read"}))
  <2>1. WriteResult(t, EvalSlot(proc[p]), res) /\ Become(p, After(proc[p], res))
    BY <1>4 DEF Evaluate
  <2>2. {"file_read"} \in SUBSET EvidenceType
    BY DEF EvidenceType
  <2>3. Blocked({"file_read"}) \in FoundSet
    BY <1>2, <2>2, BlockedIsHonest DEF Honest
  <2>4. res \in Result /\ Carries(t, res, results')
    BY <1>2, <2>3, PlainCarries
  <2> HIDE DEF res
  <2> QED BY <1>1, <1>2, <1>3, <2>1, <2>4, StageEnds
<1>5. CASE source # NoResult /\ ~Passes(t, source.found) /\ Retryable(t)
  <2> DEFINE next == Enter(proc[p], "retry")
  <2>1. Become(p, next) /\ UNCHANGED results
    BY <1>5 DEF Evaluate
  <2>2. /\ next \in EarlyJob /\ next.pc = "check" /\ next.kind = proc[p].kind /\ next.task = t
        /\ next.stage = "retry" /\ next.evaluation = proc[p].evaluation
    BY <1>2, EnterSame DEF Stage
  <2> HIDE DEF next
  <2>3. OnTheWay(next, results')
    BY <1>1, <1>2, <2>1, <2>2 DEF OnTheWay
  <2>4. Fits(next, results') /\ next \in JobSet
    BY <2>2, <2>3 DEF Fits, JobSet
  <2> QED BY <1>1, <2>1, <2>4, NothingWritten, QuietStep
<1>6. CASE source # NoResult /\ ~(~Passes(t, source.found) /\ Retryable(t))
  <2>1. Honest(t, source.found)
    BY <1>2, <1>6 DEF OpInv, FilesFit, Slot
  <2>2. LET res == EvaluationResult(Evaluated(t, source.found, FALSE))
        IN  WriteResult(t, EvalSlot(proc[p]), res) /\ Become(p, After(proc[p], res))
    BY <1>6 DEF Evaluate
  <2> HIDE DEF source
  <2> QED BY <1>1, <1>2, <2>1, <2>2, JudgedKeeps
<1> QED BY <1>4, <1>5, <1>6

LEMMA ComposeKeeps ==
    ASSUME OpInv, NEW p \in Proc, Compose(p)
    PROVE  OpInv'
<1>1. proc[p].pc = "compose" /\ UNCHANGED <<op, ledger>>
  BY DEF Compose
<1>2. proc[p] \in HeldJob /\ OnTheWay(proc[p], results) /\ Fits(proc[p], results)
  BY <1>1, JobNow
<1>3. /\ Honest(proc[p].task, proc[p].res.found) /\ proc[p].stage = "retry"
      /\ "retry" \in Has(results, proc[p].task)
  BY <1>1, <1>2 DEF Fits
<1>4. LET res == EvaluationResult(Evaluated(proc[p].task, proc[p].res.found, TRUE))
      IN  WriteResult(proc[p].task, EvalSlot(proc[p]), res) /\ Become(p, After(proc[p], res))
  BY DEF Compose
<1> QED BY <1>1, <1>2, <1>3, <1>4, JudgedKeeps

LEMMA PromoteKeeps ==
    ASSUME OpInv, NEW p \in Proc, Promote(p)
    PROVE  OpInv'
<1> DEFINE t == proc[p].task
           source == results[t][EvalSlot(proc[p])]
           res == IF source = NoResult THEN Plain(Blocked({}))
                  ELSE PromotionResult(source, Exists(t))
<1>1. /\ proc[p].pc = "check" /\ proc[p].stage = "promotion" /\ UNCHANGED <<op, ledger>>
      /\ WriteResult(t, PromSlot(proc[p]), res) /\ Become(p, After(proc[p], res))
  BY DEF Promote
<1>2. /\ proc[p] \in EarlyJob /\ t \in Task /\ OnTheWay(proc[p], results)
  BY <1>1, JobNow
<1>3. /\ EvalSlot(proc[p]) \in Slot /\ PromSlot(proc[p]) \in Slot
      /\ PromSlot(proc[p]) \notin {"result", "retry"} /\ SlotOf(proc[p]) = PromSlot(proc[p])
  BY <1>1, <1>2, StageSlot
<1>4. res \in Result /\ Carries(t, res, results)
  <2>1. CASE source = NoResult
    <3>1. Blocked({}) \in FoundSet
      BY FoundMeans DEF Blocked
    <3> QED BY <1>2, <2>1, <3>1, PlainCarries
  <2>2. CASE source # NoResult
    <3>1. source \in Result
      BY <1>2, <1>3, <2>2 DEF OpInv, Types
    <3>2. Sound(t, source.evaluation)
      BY <1>2, <1>3, <2>2 DEF OpInv, FilesFit, Carries
    <3>3. res = PromotionResult(source, Has(results, t))
      BY <2>2 DEF Exists, Has
    <3> HIDE DEF source, res
    <3> QED BY <1>2, <3>1, <3>2, <3>3, PromotionCarries
  <2> QED BY <2>1, <2>2
<1> HIDE DEF res
<1>5. Has(results, t) \subseteq Has(results', t)
  BY <1>1, <1>2, <1>3, <1>4, Kept
<1>6. Carries(t, res, results')
  BY <1>4, <1>5 DEF Carries
<1> QED BY <1>1, <1>2, <1>3, <1>4, <1>6, StageEnds

LEMMA FinishKeeps ==
    ASSUME OpInv, NEW p \in Proc, Finish(p)
    PROVE  OpInv'
<1> DEFINE job == proc[p]
           life == LifecycleResult(job)
           held == Holding(job, "state", life)
<1>1. /\ job.pc = "finish" /\ UNCHANGED <<op, ledger>>
      /\ WriteResult(job.task, "life", life) /\ Become(p, held)
  BY DEF Finish
<1>2. /\ job \in HeldJob /\ job.task \in Task /\ OnTheWay(job, results)
      /\ Carries(job.task, job.res, results) /\ Fits(job, results)
  BY <1>1, JobNow
<1>3. /\ life \in Result
      /\ Carries(job.task, life, results)
      /\ life.promotion = job.res.promotion
      /\ life.found.status = "success" => job.res.promotion = "promoted"
  BY <1>2, LifecycleCarries DEF OnTheWay
<1>4. job \in EarlyJob \cup HeldJob
  BY <1>2
<1>5. /\ job.kind \in Whole /\ "result" \in Has(results, job.task)
      /\ job.res.promotion = "promoted" => {"eval", "prom"} \subseteq Has(results, job.task)
  BY <1>1, <1>2 DEF Fits
<1> HIDE DEF job, life
<1>6. /\ held \in HeldJob
      /\ held.pc = "state" /\ held.kind = job.kind /\ held.task = job.task
      /\ held.stage = job.stage /\ held.evaluation = job.evaluation /\ held.res = life
  BY <1>3, <1>4, HoldingMeans
<1> HIDE DEF held
<1>7. "life" \in Slot
  BY DEF Slot
<1>8. /\ "life" \in Has(results', job.task)
      /\ Has(results, job.task) \subseteq Has(results', job.task)
  BY <1>1, <1>2, <1>3, <1>7, Kept
<1>9. Carries(job.task, life, results')
  BY <1>3, <1>8 DEF Carries
<1>10. OnTheWay(held, results')
  BY <1>2, <1>6, <1>8 DEF OnTheWay
<1>11. Complete(held, results')
  BY <1>3, <1>5, <1>6, <1>8 DEF Complete
<1>12. Fits(held, results') /\ held \in JobSet
  BY <1>6, <1>9, <1>10, <1>11 DEF Fits, JobSet
<1> QED BY <1>1, <1>2, <1>3, <1>7, <1>9, <1>12, WritingStep

-----------------------------------------------------------------------------
(* The state file and the ledger *)

LEMMA StateRead ==
    ASSUME OpInv
    PROVE  ReadOperatorState \in State /\ Traced(ReadOperatorState.last, results)
<1>1. Fallback \in State /\ Fallback.last = NoRun
  BY DEF Fallback, State, Mode
<1>2. Traced(Fallback.last, results)
  BY <1>1 DEF Traced
<1> QED BY <1>1, <1>2 DEF ReadOperatorState, OpInv, Types

LEMMA ReadStateKeeps ==
    ASSUME OpInv, NEW p \in Proc, ReadState(p)
    PROVE  OpInv'
<1> DEFINE job == proc[p]
           last == LastRunOf(job)
           state == [ReadOperatorState EXCEPT !.last = last]
           next == [pc |-> "truncate", kind |-> job.kind, task |-> job.task, stage |-> job.stage,
                    evaluation |-> job.evaluation, res |-> job.res, orphan |-> FALSE,
                    state |-> state]
<1>1. job.pc = "state" /\ Become(p, next) /\ UNCHANGED <<op, results, ledger>>
  BY DEF ReadState
<1>2. /\ job \in HeldJob /\ OnTheWay(job, results) /\ Carries(job.task, job.res, results)
      /\ Fits(job, results)
  BY <1>1, JobNow
<1>3. Complete(job, results)
  BY <1>1, <1>2 DEF Fits
<1>4. last \in LastRun /\ Traced(last, results)
  BY <1>2, <1>3, LastRunIsTold
<1> HIDE DEF last
<1>5. state \in State /\ state.last = last
  BY <1>4, StateRead DEF State
<1> HIDE DEF job, state
<1>6. /\ job.kind \in Kind /\ job.task \in Task /\ job.stage \in Stage
      /\ job.evaluation \in Eval /\ job.res \in Result
  BY <1>2 DEF HeldJob
<1>7. /\ next \in WriteJob
      /\ next.pc = "truncate" /\ next.kind = job.kind /\ next.task = job.task
      /\ next.stage = job.stage /\ next.evaluation = job.evaluation /\ next.res = job.res
      /\ next.state = state
  BY <1>5, <1>6 DEF WriteJob
<1> HIDE DEF next
<1>8. OnTheWay(next, results) /\ Carries(next.task, next.res, results)
  BY <1>2, <1>7 DEF OnTheWay
<1>9. Traced(next.state.last, results)
  BY <1>4, <1>5, <1>7
<1>10. Fits(next, results') /\ next \in JobSet
  BY <1>1, <1>7, <1>8, <1>9 DEF Fits, JobSet
<1> QED BY <1>1, <1>10, NothingWritten, QuietStep

LEMMA TruncateStateKeeps ==
    ASSUME OpInv, NEW p \in Proc, TruncateState(p)
    PROVE  OpInv'
<1> DEFINE job == proc[p]
           next == [job EXCEPT !.pc = "truncated"]
<1>1. job.pc = "truncate" /\ op' = Unreadable /\ Become(p, next) /\ UNCHANGED <<results, ledger>>
  BY DEF TruncateState, At
<1>2. job \in WriteJob /\ Fits(job, results)
  BY <1>1, JobNow
<1> HIDE DEF job
<1>3. /\ next \in WriteJob
      /\ next.pc = "truncated" /\ next.kind = job.kind /\ next.task = job.task
      /\ next.stage = job.stage /\ next.evaluation = job.evaluation /\ next.res = job.res
      /\ next.state = job.state
  BY <1>2 DEF WriteJob
<1> HIDE DEF next
<1>4. Fits(next, results') /\ next \in JobSet
  BY <1>1, <1>2, <1>3 DEF Fits, OnTheWay, JobSet
<1>5. PassedProven'
  BY <1>1 DEF OpInv, PassedProven
<1> QED BY <1>1, <1>4, <1>5, NothingWritten, StepKeeps

LEMMA WriteStateKeeps ==
    ASSUME OpInv, NEW p \in Proc, WriteState(p)
    PROVE  OpInv'
<1> DEFINE job == proc[p]
           next == IF job.kind = "intake" THEN Holding(job, "append", job.res) ELSE Idle
<1>1. /\ job.pc = "truncated" /\ Become(p, next) /\ UNCHANGED <<results, ledger>>
      /\ op' \in {op, job.state, Unreadable}
  BY DEF WriteState
<1>2. job \in WriteJob /\ Fits(job, results) /\ OnTheWay(job, results)
  BY <1>1, JobNow
<1>3. /\ job.state \in State /\ Traced(job.state.last, results)
      /\ Carries(job.task, job.res, results)
  BY <1>1, <1>2 DEF WriteJob, Fits
<1>4. op' \in State \cup {Unreadable} /\ (op' # Unreadable => Traced(op'.last, results'))
  BY <1>1, <1>3 DEF OpInv, Types
<1>5. Fits(next, results') /\ next \in JobSet
  <2>1. CASE job.kind = "intake"
    <3> DEFINE held == Holding(job, "append", job.res)
    <3>1. /\ held \in HeldJob
          /\ held.pc = "append" /\ held.kind = job.kind /\ held.task = job.task
          /\ held.stage = job.stage /\ held.evaluation = job.evaluation /\ held.res = job.res
      BY <1>2 DEF Holding, WriteJob, HeldJob
    <3> HIDE DEF held
    <3>2. OnTheWay(held, results') /\ Carries(held.task, held.res, results')
      BY <1>1, <1>2, <1>3, <3>1 DEF OnTheWay
    <3>3. Fits(held, results') /\ held \in JobSet
      BY <2>1, <3>1, <3>2 DEF Fits, JobSet
    <3> QED BY <2>1, <3>3 DEF held
  <2>2. CASE job.kind # "intake"
    BY <2>2, IdleFits
  <2> QED BY <2>1, <2>2
<1>6. PassedProven'
  BY <1>1 DEF OpInv, PassedProven
<1> QED BY <1>1, <1>4, <1>5, <1>6, NothingWritten, StepKeeps

\* The verdict that goes to the ledger is the promotion's, and what it passes
\* was judged soundly.
LEMMA AppendLedgerKeeps ==
    ASSUME OpInv, NEW p \in Proc, AppendLedger(p)
    PROVE  OpInv'
<1> DEFINE job == proc[p]
           verdict == IF EvidenceMet(job.res) THEN "passed" ELSE "blocked"
           judged == IF job.res.evaluation = NoEvaluation THEN NoResult
                     ELSE job.res.evaluation.judged
           entry == [task |-> job.task, verdict |-> verdict, judged |-> judged]
<1>1. /\ job.pc = "append" /\ Become(p, Idle) /\ UNCHANGED <<op, results>>
      /\ ledger' = ledger \cup {entry}
  BY DEF AppendLedger
<1>2. /\ job \in HeldJob /\ job.task \in Task /\ OnTheWay(job, results)
      /\ Carries(job.task, job.res, results) /\ Fits(job, results)
  BY <1>1, JobNow
<1>3. Route[job.task] \in {"http", "openmanus", "file"}
  BY <1>1, <1>2, FreshAssumption DEF Fits, OnTheWay
<1>4. verdict = "passed" =>
        /\ job.res.evaluation \in Evaluation
        /\ Proven(job.task, job.res.evaluation.judged)
        /\ judged = job.res.evaluation.judged
  <2>1. job.res.evaluation \in Eval
    BY <1>2 DEF HeldJob, Result, Eval
  <2> QED BY <1>2, <2>1 DEF EvidenceMet, Carries, Sound, Eval
<1>5. verdict = "passed" => judged # NoResult
  <2>1. \A f \in FoundSet : f # NoResult
    <3>1. \A f \in FoundSet : DOMAIN f = {"status", "ev", "seen"}
      BY DEF FoundSet
    <3>2. DOMAIN NoResult = {"none"}
      BY DEF NoResult
    <3> QED BY <3>1, <3>2
  <2> QED BY <1>4, <2>1 DEF Evaluation
<1> HIDE DEF job, verdict, judged
<1>6. entry.task = job.task /\ entry.verdict = verdict /\ entry.judged = judged
  OBVIOUS
<1> HIDE DEF entry
<1>7. PassedProven'
  <2>1. SUFFICES ASSUME NEW e \in ledger', e.verdict = "passed"
                 PROVE  /\ e.judged # NoResult /\ e.judged.status = "success"
                        /\ Expected(e.task) \subseteq e.judged.ev
                        /\ e.task \in TextTask /\ Route[e.task] # "openmanus" => e.judged.seen
    BY DEF PassedProven
  <2>2. CASE e \in ledger
    BY <2>1, <2>2 DEF OpInv, PassedProven
  <2>3. CASE e = entry
    BY <1>3, <1>4, <1>5, <1>6, <2>1, <2>3 DEF Proven, Looks
  <2> QED BY <1>1, <2>1, <2>2, <2>3
<1>8. Idle \in JobSet /\ Fits(Idle, results')
  BY IdleFits
<1>9. op' \in State \cup {Unreadable} /\ (op' # Unreadable => Traced(op'.last, results'))
  BY <1>1 DEF OpInv, Types
<1> QED BY <1>1, <1>7, <1>8, <1>9, NothingWritten, StepKeeps

LEMMA DieKeeps ==
    ASSUME OpInv, NEW p \in Proc, Die(p)
    PROVE  OpInv'
<1>1. Become(p, Idle) /\ UNCHANGED <<op, results, ledger>>
  BY DEF Die
<1>2. Idle \in JobSet /\ Fits(Idle, results')
  BY IdleFits
<1> QED BY <1>1, <1>2, NothingWritten, QuietStep

-----------------------------------------------------------------------------
(* The control commands *)

LEMMA CommandMeans ==
    ASSUME NEW state \in State, NEW command \in Command
    PROVE  /\ NextControlState(state, command) \in State
           /\ NextControlState(state, command).last = state.last
<1>1. Lane \subseteq Lane \cup {NoLane}
  OBVIOUS
<1>2. CASE command = "pause"
  <2>1. NextControlState(state, command) = [state EXCEPT !.mode = "paused"]
    BY <1>2 DEF NextControlState
  <2> QED BY <2>1 DEF State, Mode
<1>3. CASE command = "stop"
  <2>1. NextControlState(state, command) = [state EXCEPT !.mode = "stopped"]
    BY <1>3 DEF NextControlState
  <2> QED BY <2>1 DEF State, Mode
<1>4. CASE command = "resume"
  <2>1. NextControlState(state, command) = [state EXCEPT !.mode = "active"]
    BY <1>4 DEF NextControlState
  <2> QED BY <2>1 DEF State, Mode
<1>5. CASE command = "validate"
  <2> DEFINE verdict == IF Valid(state) THEN "passed" ELSE "blocked"
  <2>1. NextControlState(state, command) = [state EXCEPT !.validation = verdict]
    BY <1>5 DEF NextControlState
  <2>2. verdict \in {"none", "passed", "blocked"}
    OBVIOUS
  <2> HIDE DEF verdict
  <2> QED BY <2>1, <2>2 DEF State
<1>6. CASE command \notin {"pause", "stop", "resume", "validate"}
  <2>1. command \in Lane
    BY <1>6 DEF Command
  <2>2. NextControlState(state, command) = [state EXCEPT !.lane = command, !.next = command]
    BY <1>6, <2>1 DEF NextControlState
  <2> QED BY <2>1, <2>2 DEF State
<1> QED BY <1>2, <1>3, <1>4, <1>5, <1>6

LEMMA ReadForCommandKeeps ==
    ASSUME OpInv, NEW p \in Proc, NEW command \in Command, ReadForCommand(p, command),
           UNCHANGED ledger
    PROVE  OpInv'
<1> DEFINE state == NextControlState(ReadOperatorState, command)
           job == [pc |-> "command", command |-> command, state |-> state]
<1>1. Become(p, job) /\ UNCHANGED <<op, results, ledger>>
  BY DEF ReadForCommand, Start, Become
<1>2. state \in State /\ state.last = ReadOperatorState.last
  BY StateRead, CommandMeans
<1>3. Traced(state.last, results)
  BY <1>2, StateRead
<1> HIDE DEF state
<1>4. job \in CommandJob /\ job.pc = "command" /\ job.state = state
  BY <1>2 DEF CommandJob
<1> HIDE DEF job
<1>5. Fits(job, results') /\ job \in JobSet
  BY <1>1, <1>3, <1>4 DEF Fits, JobSet
<1> QED BY <1>1, <1>5, NothingWritten, QuietStep

\* An orphan is the job it was, but for what it will write.
LEMMA OrphanMeans ==
    ASSUME NEW job \in JobSet, NEW files, Fits(job, files)
    PROVE  Orphaned(job) \in JobSet /\ Fits(Orphaned(job), files)
<1>1. CASE job.pc # "truncated"
  BY <1>1 DEF Orphaned
<1>2. CASE job.pc = "truncated"
  <2> DEFINE next == [job EXCEPT !.orphan = TRUE]
  <2>1. Orphaned(job) = next /\ job \in WriteJob
    BY <1>2, JobKinds DEF Orphaned
  <2>2. /\ next \in WriteJob
        /\ next.pc = "truncated" /\ next.kind = job.kind /\ next.task = job.task
        /\ next.stage = job.stage /\ next.evaluation = job.evaluation /\ next.res = job.res
        /\ next.state = job.state
    BY <1>2, <2>1 DEF WriteJob
  <2> HIDE DEF next
  <2>3. Fits(next, files)
    BY <1>2, <2>2 DEF Fits, OnTheWay
  <2> QED BY <2>1, <2>2, <2>3 DEF JobSet
<1> QED BY <1>1, <1>2

LEMMA WriteOperatorStateKeeps ==
    ASSUME OpInv, NEW p \in Proc, WriteOperatorState(p), UNCHANGED ledger
    PROVE  OpInv'
<1>1. /\ proc[p].pc = "command" /\ op' = proc[p].state /\ results' = results
      /\ proc' = [q \in Proc |-> IF q = p THEN Idle ELSE Orphaned(proc[q])]
  BY DEF WriteOperatorState
<1>2. proc[p] \in CommandJob /\ Fits(proc[p], results)
  BY <1>1, JobKinds DEF OpInv, Types
<1>3. op' \in State /\ Traced(op'.last, results')
  BY <1>1, <1>2 DEF CommandJob, Fits
<1>4. ASSUME NEW q \in Proc
      PROVE  proc'[q] \in JobSet /\ Fits(proc'[q], results')
  <2>1. proc[q] \in JobSet /\ Fits(proc[q], results)
    BY DEF OpInv, Types
  <2>2. Orphaned(proc[q]) \in JobSet /\ Fits(Orphaned(proc[q]), results)
    BY <2>1, OrphanMeans
  <2>3. CASE q = p
    BY <1>1, <2>3, IdleFits
  <2>4. CASE q # p
    BY <1>1, <2>2, <2>4
  <2> QED BY <2>3, <2>4
<1>5. Types'
  <2>1. proc' \in [Proc -> JobSet]
    BY <1>1, <1>4
  <2> QED BY <1>1, <1>3, <2>1, NothingWritten DEF Types
<1>6. PassedProven'
  BY DEF OpInv, PassedProven
<1> QED BY <1>1, <1>3, <1>4, <1>5, <1>6, NothingWritten DEF OpInv

-----------------------------------------------------------------------------
(* The theorems *)

LEMMA OpInvInit ==
    ASSUME Init
    PROVE  OpInv
<1>1. /\ op = Unreadable /\ ledger = {}
      /\ results = [t \in Task |-> [s \in Slot |-> NoResult]]
      /\ proc = [p \in Proc |-> Idle]
  BY DEF Init, ControlInit
<1>2. Types
  BY <1>1, IdleFits DEF Types
<1>3. FilesFit(results)
  BY <1>1 DEF FilesFit
<1>4. \A p \in Proc : Fits(proc[p], results)
  BY <1>1, IdleFits
<1>5. PassedProven
  BY <1>1 DEF PassedProven
<1> QED BY <1>1, <1>2, <1>3, <1>4, <1>5 DEF OpInv

LEMMA OpInvNext ==
    ASSUME OpInv, [Next]_vars
    PROVE  OpInv'
<1>1. CASE ControlNext /\ UNCHANGED ledger
  BY <1>1, ReadForCommandKeeps, WriteOperatorStateKeeps DEF ControlNext
<1>2. ASSUME NEW p \in Proc, JobStep(p)
      PROVE  OpInv'
  BY <1>2, BeginKeeps, RefuseKeeps, LaunchKeeps, RunKeeps, EvaluateKeeps, ComposeKeeps,
     PromoteKeeps, FinishKeeps, ReadStateKeeps, TruncateStateKeeps, WriteStateKeeps,
     AppendLedgerKeeps, DieKeeps DEF JobStep
<1>3. CASE UNCHANGED vars
  BY <1>3 DEF vars, OpInv, Types, PassedProven
<1> QED BY <1>1, <1>2, <1>3 DEF Next

\* The invariant of the operator's files, jobs and ledger.
THEOREM OperatorInvariant == Spec => []OpInv
<1>1. Init => OpInv
  BY OpInvInit
<1>2. OpInv /\ [Next]_vars => OpInv'
  BY OpInvNext
<1> QED BY <1>1, <1>2, PTL DEF Spec

\* The run ledger passes a task only if what was judged is a success with all
\* the evidence that the task asks for and, where the program looks for the
\* text itself, with the text: whatever is paused, retried, overwritten by
\* another process or cut short on the way (run-ledger.ts, dispatcher.ts).
THEOREM PassedAreProven == Spec => []PassedProven
<1>1. OpInv => PassedProven
  BY DEF OpInv
<1> QED BY <1>1, OperatorInvariant, PTL

\* The last run that the state file tells of has its files, its promotion a
\* winner, a lifecycle its children: with any number of writers, and their
\* deaths (lifecycle.ts, dispatcher.ts, control-plane.ts).
THEOREM LastRunIsTraced == Spec => []LastRunTraced
<1>1. OpInv => LastRunTraced
  BY StateRead DEF LastRunTraced, RunIssueFree, Traced, Exists, Has
<1> QED BY <1>1, OperatorInvariant, PTL
=============================================================================
