---------------------------- MODULE GoalRequests ----------------------------
(***************************************************************************)
(* OPSBOARD goal requests (src/opsboard/goal-request-port.ts, drained by   *)
(* src/cli.ts): request files name goals to run; every request is answered *)
(* with a receipt file.  The requests stay where they are, so that every   *)
(* drain meets all of them again.                                          *)
(*                                                                         *)
(* A drain awaits the run it started, or a timeout; then the run goes on   *)
(* behind its back.  `seen', the memory of one drain, never knows more     *)
(* than the receipt files and is left out.                                 *)
(***************************************************************************)
EXTENDS GoalRunner

CONSTANTS
    Request,
    Cancel,     \* the requests whose action is 'cancel'
    Readonly    \* processes that do not hold the instance lease

ASSUME RequestAssumption ==
    /\ Cancel \subseteq Request
    /\ Readonly \subseteq Proc

VARIABLES
    receipt,    \* per request: the status in its receipt file
    drain,      \* per process: the requests left, and the run awaited
    served      \* history: per request, the runs started for it

requestVars == <<receipt, drain, served>>
vars == <<goalVars, requestVars>>

NoReceipt == "none"
NoDrain == [pc |-> "idle"]

TypeOK ==
    /\ GoalTypeOK
    /\ receipt \in [Request -> {NoReceipt, "completed", "failed", "cancelled", "rejected",
                                "readonly", "duplicate", "timeout"}]
    /\ drain \in [Proc -> {NoDrain} \cup [pc : {"next"}, left : SUBSET Request]
                          \cup [pc : {"await"}, left : SUBSET Request, request : Request, run : Run]]
    /\ served \in [Request -> SUBSET Run]

Init ==
    /\ GoalInit
    /\ receipt = [q \in Request |-> NoReceipt]
    /\ drain = [p \in Proc |-> NoDrain]
    /\ served = [q \in Request |-> {}]

\* The drain goes on with the requests left, and ends when there are none.
GoOn(p, left) ==
    drain' = [drain EXCEPT ![p] = IF left = {} THEN NoDrain ELSE [pc |-> "next", left |-> left]]

Answer(q, status) == receipt' = [receipt EXCEPT ![q] = status]

\* `atlas opsboard drain', one at a time by processes that may write.
BeginDrain(p) ==
    /\ p \in alive
    /\ drain[p] = NoDrain
    /\ p \in Readonly \/ \A o \in Proc \ Readonly : drain[o] = NoDrain
    /\ drain' = [drain EXCEPT ![p] = [pc |-> "next", left |-> Request]]
    /\ UNCHANGED <<goalVars, receipt, served>>

\* processGoalRequest up to the run: a request that cannot be run is answered
\* at once, over whatever answer it has.
ProcessAtOnce(p, q) ==
    /\ drain[p].pc = "next"
    /\ q \in drain[p].left
    /\ p \in Readonly \/ receipt[q] # NoReceipt \/ q \in Cancel
    /\ Answer(q, IF p \in Readonly THEN "readonly"
                 ELSE IF receipt[q] # NoReceipt THEN "duplicate" ELSE "cancelled")
    /\ GoOn(p, drain[p].left \ {q})
    /\ UNCHANGED <<goalVars, served>>

\* Mutant: a request is run although it was answered.
ProcessAnyRequest(p, q, r, plan, limits) ==
    /\ drain[p].pc = "next"
    /\ q \in drain[p].left \ Cancel
    /\ p \notin Readonly
    /\ Start(r, p, plan, limits)
    /\ drain' = [drain EXCEPT ![p] = [pc |-> "await", left |-> @.left \ {q}, request |-> q, run |-> r]]
    /\ served' = [served EXCEPT ![q] = @ \cup {r}]
    /\ UNCHANGED receipt

ProcessRequest(p, q, r, plan, limits) ==
    /\ drain[p].pc = "next"
    /\ q \in drain[p].left \ Cancel
    /\ p \notin Readonly
    /\ receipt[q] = NoReceipt
    /\ Start(r, p, plan, limits)
    /\ drain' = [drain EXCEPT ![p] = [pc |-> "await", left |-> @.left \ {q}, request |-> q, run |-> r]]
    /\ served' = [served EXCEPT ![q] = @ \cup {r}]
    /\ UNCHANGED receipt

AnswerRun(p) ==
    /\ drain[p].pc = "await"
    /\ run[drain[p].run].pc = "done"
    /\ Answer(drain[p].request,
              IF run[drain[p].run].status = "completed" THEN "completed" ELSE "failed")
    /\ GoOn(p, drain[p].left)
    /\ UNCHANGED <<goalVars, served>>

AnswerTimeout(p) ==
    /\ drain[p].pc = "await"
    /\ run[drain[p].run].pc # "done"
    /\ Answer(drain[p].request, "timeout")
    /\ GoOn(p, drain[p].left)
    /\ UNCHANGED <<goalVars, served>>

\* A process dies in the middle of a drain or a run.
Crash(p) ==
    /\ KillProcess(p)
    /\ drain' = [drain EXCEPT ![p] = NoDrain]
    /\ UNCHANGED <<receipt, served>>

\* `atlas goal run', fresh or with --resume.
CommandLine(r, p) ==
    /\ p \notin Readonly
    /\ \/ \E plan \in Plan, limits \in Limits : Start(r, p, plan, limits)
       \/ \E g \in Run \ {r}, limits \in Limits : Resume(r, p, g, limits)
    /\ UNCHANGED requestVars

DrainStep(p) ==
    \/ AnswerRun(p) \/ AnswerTimeout(p)
    \/ \E q \in Request : ProcessAtOnce(p, q)
    \/ \E q \in Request, r \in Run, plan \in Plan, limits \in Limits :
         ProcessRequest(p, q, r, plan, limits)

Next ==
    \/ \E p \in Proc : BeginDrain(p) \/ DrainStep(p) \/ Crash(p)
    \/ \E r \in Run, p \in Proc : CommandLine(r, p)
    \/ \E r \in Run : RunStep(r) /\ UNCHANGED requestVars
    \/ \E g \in Run, to \in Status : CeoMove(g, to) /\ UNCHANGED requestVars

Spec == Init /\ [][Next]_vars

-----------------------------------------------------------------------------

\* A request is run a second time only if a process that ran it has died: a
\* run that goes on after its timeout is not joined by another.
RequestRunOnce ==
    \A q \in Request : \A r, s \in served[q] :
        r # s => {run[r].proc, run[s].proc} \ alive # {}
=============================================================================
