-------------------------- MODULE OperatorContracts --------------------------
(***************************************************************************)
(* What the operator's tasks, results and verdicts are, and the pure       *)
(* decisions about them (src/operator/{contracts, evaluator, promotion,    *)
(* dispatcher, browser-trace}.ts).                                         *)
(*                                                                         *)
(* A task is a model value with a route.  Of a result the model keeps the  *)
(* status, the types of its evidence, whether the expected text was really *)
(* seen, and the verdicts it carries; every result has proof tokens.       *)
(***************************************************************************)
EXTENDS Naturals, FiniteSets

CONSTANTS
    Task,
    Route,      \* per task: which adapter dispatches it
    TextTask    \* the tasks that name a text to be found

Routes == {"http", "file", "openmanus", "octogent", "live", "vellum", "local"}

ASSUME TaskAssumption ==
    /\ Route \in [Task -> Routes]
    /\ TextTask \subseteq Task

EvidenceType ==
    {"file_exists", "file_read", "log_trace", "command_exit", "manual_note",
     "browser_observation", "browser_session_trace"}

\* The evidence a task asks for, as the action lane compiles it and the task
\* files have it.
Expected(t) ==
    CASE Route[t] \in {"http", "openmanus"} ->
           {"command_exit", "browser_observation", "browser_session_trace", "log_trace"}
      [] Route[t] = "file" -> {"file_exists", "file_read", "log_trace"}
      [] Route[t] \in {"octogent", "vellum"} -> {"file_read", "log_trace"}
      [] Route[t] = "live" -> {"command_exit", "log_trace"}
      [] Route[t] = "local" -> {"file_exists"}

\* What an adapter brings back.  `seen': the text was in the page or file.
Found(status, ev, seen) == [status |-> status, ev |-> ev \cup {"file_exists"}, seen |-> seen]
Blocked(ev) == Found("blocked", ev, FALSE)
Status(ok) == IF ok THEN "success" ELSE "failure"

\* withBrowserSessionTrace: an observation brings its trace.
Observation(matched) ==
    IF matched THEN {"browser_observation", "browser_session_trace"} ELSE {}

\* Mutant: the script's exit and its observation do not look for the text.
HttpOutcomesUnmatched(t) ==
    {Found(Status(exit), {"command_exit", "log_trace"} \cup Observation(exit), matched) :
        exit \in BOOLEAN, matched \in BOOLEAN}

\* The script exits with 0 only if the page is fine and has the text; a task
\* without a text matches any page.
HttpOutcomes(t) ==
    {Found(Status(fine /\ matched), {"command_exit", "log_trace"} \cup Observation(matched),
           matched) :
        fine \in BOOLEAN, matched \in BOOLEAN}

\* Outside the allowed paths, sensitive, missing or unreadable; or read.
FileOutcomes(t) ==
    {Blocked({"manual_note"}), Blocked({})}
    \cup {Found(Status(matched), {"file_read", "log_trace"}, matched) : matched \in BOOLEAN}

\* No key; or run.  The text is looked for in the output, where the prompt
\* that names it may be echoed; without a text nothing is observed.
OpenManusOutcomes(t) ==
    {Blocked({"manual_note"})}
    \cup {Found(Status(exit),
                {"command_exit"} \cup log \cup Observation(t \in TextTask /\ printed /\ log # {}),
                printed) :
            exit \in BOOLEAN, printed \in BOOLEAN, log \in {{}, {"log_trace"}}}

OctogentOutcomes(t) ==
    {Found(Status(whole /\ read # {}), read \cup {"log_trace"}, FALSE) :
        whole \in BOOLEAN, read \in {{"file_read"}, {}}}

\* The exit and the output's being JSON decide; what it says was delivered
\* does not.
LiveOutcomes(t) ==
    {Found(Status(exit /\ parsed),
           {"command_exit", "log_trace"} \cup note, FALSE) :
        exit \in BOOLEAN, parsed \in BOOLEAN, note \in {{}, {"manual_note"}}}

VellumOutcomes(t) == {Blocked({}), Found("success", {"file_read", "log_trace"}, FALSE)}

LocalOutcomes(t) == {Found("success", {}, FALSE)}

\* validateResultEvidence: a success must have what the task expects.
ValidEvidence(t, found) == found.status = "success" => Expected(t) \subseteq found.ev

\* A success without its evidence is written as blocked.
Gated(t, found) ==
    IF ValidEvidence(t, found) THEN found ELSE [found EXCEPT !.status = "blocked"]

\* An allowed path may be missing, whatever the route.
Outcomes(t) ==
    {Gated(t, found) : found \in
        {[Blocked({}) EXCEPT !.ev = {}]} \cup
        CASE Route[t] = "http" -> HttpOutcomes(t)
          [] Route[t] = "file" -> FileOutcomes(t)
          [] Route[t] = "openmanus" -> OpenManusOutcomes(t)
          [] Route[t] = "octogent" -> OctogentOutcomes(t)
          [] Route[t] = "live" -> LiveOutcomes(t)
          [] Route[t] = "vellum" -> VellumOutcomes(t)
          [] Route[t] = "local" -> LocalOutcomes(t)}

-----------------------------------------------------------------------------
(* Results and verdicts *)

FoundSet ==
    [status : {"success", "failure", "blocked"}, ev : SUBSET EvidenceType, seen : BOOLEAN]

\* An evaluation names the file it found good, and what it judged.
NoEvaluation == [none |-> TRUE]
Evaluation ==
    [passed : BOOLEAN, retried : BOOLEAN, winning : {"none", "result", "retry"}, judged : FoundSet]

Promotion == {"none", "blocked", "promoted"}

NoResult == [none |-> TRUE]
Result ==
    [found : FoundSet, evaluation : Evaluation \cup {NoEvaluation}, promotion : Promotion]

Plain(found) == [found |-> found, evaluation |-> NoEvaluation, promotion |-> "none"]

\* evaluateOperatorResult
Passes(t, found) ==
    /\ found.status = "success"
    /\ ValidEvidence(t, found)
    /\ "browser_observation" \in found.ev => "browser_session_trace" \in found.ev

\* isRetryableTask; every task here is read-only.
Retryable(t) == Route[t] # "vellum"

\* composeOperatorEvaluation: the last attempt decides.
Evaluated(t, found, retried) ==
    LET passed == Passes(t, found)
    IN  [passed |-> passed, retried |-> retried, judged |-> found,
         winning |-> IF ~passed THEN "none" ELSE IF retried THEN "retry" ELSE "result"]

\* Mutant: that there is an evaluation is enough.
PromotableUnread(evaluation, exists) == evaluation # NoEvaluation

\* decidePromotion, given which files exist.
Promotable(evaluation, exists) ==
    /\ evaluation # NoEvaluation
    /\ evaluation.passed
    /\ evaluation.winning \in exists
    /\ evaluation.retried => "retry" \in exists

\* What the result of a manual evaluation and of a promotion look like.
ManualEvidence == {"file_read", "manual_note", "log_trace"}
VerdictStatus(ok) == IF ok THEN "success" ELSE "blocked"

EvaluationResult(evaluation) ==
    [found |-> Found(VerdictStatus(evaluation.passed), ManualEvidence, FALSE),
     evaluation |-> evaluation, promotion |-> "none"]

PromotionResult(source, exists) ==
    LET ok == Promotable(source.evaluation, exists)
    IN  [found |-> Found(VerdictStatus(ok), ManualEvidence, FALSE),
         evaluation |-> source.evaluation,
         promotion |-> IF ok THEN "promoted" ELSE "blocked"]
=============================================================================
