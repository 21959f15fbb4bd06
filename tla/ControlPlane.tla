---------------------------- MODULE ControlPlane ----------------------------
(***************************************************************************)
(* The control plane (src/atlas/control-plane.ts): the operator's state    *)
(* file, with the mode that lets the program act or not, the lane to take  *)
(* next, and the last run of the operator.                                 *)
(*                                                                         *)
(* Any process may give a control command: it reads the file, decides, and *)
(* renames a new file over the old one.  The operator's dispatcher writes  *)
(* the same file in place (Operator).  What cannot be read is taken for an *)
(* active control without anything else.                                   *)
(***************************************************************************)
EXTENDS OperatorContracts

CONSTANTS
    Proc,
    Lane,
    MaxStarts   \* bound on the commands and jobs begun

VARIABLES
    op,        \* the state file
    results,   \* the result files, by task and name
    proc,      \* per process: what it is doing
    starts     \* how many commands and jobs have begun

Mode == {"active", "paused", "stopped"}
NoLane == "pick next lane"
NoRun == [none |-> TRUE]
Slot == {"result", "retry", "eval", "prom", "life", "smoke-eval", "smoke-prom"}

LastRun ==
    [task : Task, slot : Slot, status : {"success", "failure", "blocked"},
     evaluation : Evaluation \cup {NoEvaluation}, promotion : {"blocked", "promoted"}]

State ==
    [mode : Mode, lane : Lane \cup {NoLane}, next : Lane \cup {NoLane},
     last : LastRun \cup {NoRun}, validation : {"none", "passed", "blocked"}]

\* A file that is missing or torn.
Unreadable == [none |-> TRUE]
Fallback ==
    [mode |-> "active", lane |-> NoLane, next |-> NoLane, last |-> NoRun, validation |-> "none"]

Idle == [pc |-> "idle"]

Exists(t) == {s \in Slot : results[t][s] # NoResult}

\* readOperatorState, loadOperatorState
ReadOperatorState == IF op = Unreadable THEN Fallback ELSE op

\* getControlState, controlAllowsModelCalls
ControlAllows == ReadOperatorState.mode = "active"

\* summarizeValidation: the lanes agree, and the last run has its files.
RunIssueFree(last) ==
    last # NoRun =>
        /\ last.slot \in Exists(last.task)
        /\ last.evaluation # NoEvaluation /\ last.evaluation.passed =>
             last.evaluation.winning # "none"
        /\ last.promotion = "promoted" =>
             last.evaluation.passed /\ last.evaluation.winning \in Exists(last.task)
        /\ last.slot = "life" =>
             /\ "result" \in Exists(last.task)
             /\ last.status = "success" =>
                  last.promotion = "promoted" /\ {"eval", "prom"} \subseteq Exists(last.task)

Valid(state) ==
    /\ state.next # NoLane
    /\ state.next = state.lane
    /\ RunIssueFree(state.last)

\* nextControlState; a reroute names its lane.
NextControlState(state, command) ==
    CASE command = "pause" -> [state EXCEPT !.mode = "paused"]
      [] command = "stop" -> [state EXCEPT !.mode = "stopped"]
      [] command = "resume" -> [state EXCEPT !.mode = "active"]
      [] command = "validate" ->
           [state EXCEPT !.validation = IF Valid(state) THEN "passed" ELSE "blocked"]
      [] OTHER -> [state EXCEPT !.lane = command, !.next = command]

Command == {"pause", "stop", "resume", "validate"} \cup Lane

-----------------------------------------------------------------------------

ControlInit ==
    /\ op = Unreadable
    /\ results = [t \in Task |-> [s \in Slot |-> NoResult]]
    /\ proc = [p \in Proc |-> Idle]
    /\ starts = 0

Start(p, job) ==
    /\ proc[p] = Idle
    /\ starts < MaxStarts
    /\ starts' = starts + 1
    /\ proc' = [proc EXCEPT ![p] = job]

\* applyControlCommand reads ...
ReadForCommand(p, command) ==
    /\ Start(p, [pc |-> "command", command |-> command,
                 state |-> NextControlState(ReadOperatorState, command)])
    /\ UNCHANGED <<op, results>>

\* A file that was truncated in place and then replaced is written no more:
\* its writer holds the old one.
Orphaned(job) ==
    IF job.pc = "truncated" THEN [job EXCEPT !.orphan = TRUE] ELSE job

\* ... and writes: the file is replaced.
WriteOperatorState(p) ==
    /\ proc[p].pc = "command"
    /\ op' = proc[p].state
    /\ proc' = [q \in Proc |-> IF q = p THEN Idle ELSE Orphaned(proc[q])]
    /\ UNCHANGED <<results, starts>>

ControlNext ==
    \E p \in Proc :
        \/ \E command \in Command : ReadForCommand(p, command)
        \/ WriteOperatorState(p)
=============================================================================
