------------------------- MODULE ExecGraphContracts -------------------------
(***************************************************************************)
(* The data contracts of src/exec-graph: the task lifecycle, the events of *)
(* ledger.jsonl, the snapshot they fold into, and the pure functions every *)
(* writer goes through (applyTransition, applyEventToSnapshot, the schema  *)
(* a snapshot file has to satisfy).  No state: ExecGraph has the files and *)
(* the processes.                                                          *)
(*                                                                         *)
(* Data kept: a task's status, owner, idempotency key and evidence refs.   *)
(* Titles, timestamps, notes, risk classes and sources are left out, and a *)
(* task's evidence array is the set of its refs, because the code only     *)
(* asks whether it is empty or holds a ref.                                *)
(***************************************************************************)

EXTENDS TaskLifecycle

CONSTANTS
    Goal,        \* goal ids
    Task,        \* task ids (random UUIDs in the code, so never reused)
    Key,         \* idempotency keys, `${source.kind}:${source.ref}`
    Actor,       \* who calls: "atlas", "ceo", "external-cto", "hand:..."
    Owner,       \* every owner string a task may carry
    HandOwner,   \* the owners with the 'hand:' prefix
    Ref,         \* evidence refs
    NoRef        \* a move that cites no evidence

ASSUME ContractsAssumption ==
    /\ HandOwner \subseteq Owner
    /\ NoRef \notin Ref

-----------------------------------------------------------------------------
(* Tasks and snapshots *)

TaskRecord ==
    [status : Status, owner : Owner, key : Key, evidence : SUBSET Ref]

\* The entry of an id that no task has.
AbsentTask == [status |-> "absent"]

NewTask(key, owner) ==
    [status |-> "proposed", owner |-> owner, key |-> key, evidence |-> {}]

Snapshot == [goals : SUBSET Goal, tasks : [Task -> TaskRecord \cup {AbsentTask}]]

EmptyGraph == [goals |-> {}, tasks |-> [t \in Task |-> AbsentTask]]

Exists(s, t) == s.tasks[t].status # "absent"

\* A snapshot file that breaks this is refused by the schema and read as
\* if it were not there.
ValidSnapshot(s) ==
    \A t \in Task : s.tasks[t].status \in EvidenceStatus => s.tasks[t].evidence # {}

-----------------------------------------------------------------------------
(* Transitions and events *)

\* applyTransition on a task, citing `ref' or nothing.
CanTransition(task, to, actor, ref) ==
    MayMove(task.status, to, actor, ref # NoRef, task.evidence # {})

GoalCreated(g) == [kind |-> "goal-created", goal |-> g]

TaskCreated(t, k, o) == [kind |-> "task-created", task |-> t, key |-> k, owner |-> o]

Moved(t, to, a) == [kind |-> "transition", task |-> t, to |-> to, actor |-> a]

EvidenceAdded(t, r) == [kind |-> "evidence-added", task |-> t, ref |-> r]

OwnerReassigned(t, o) == [kind |-> "owner-reassigned", task |-> t, owner |-> o]

NoEvent == [kind |-> "none"]

GoalEvent == {GoalCreated(g) : g \in Goal}
CreateEvent == {TaskCreated(t, k, o) : t \in Task, k \in Key, o \in Owner}
MoveEvent == {Moved(t, to, a) : t \in Task, to \in Status, a \in Actor}
EvidenceEvent == {EvidenceAdded(t, r) : t \in Task, r \in Ref}
OwnerEvent == {OwnerReassigned(t, o) : t \in Task, o \in Owner}

Event == GoalEvent \cup CreateEvent \cup MoveEvent \cup EvidenceEvent \cup OwnerEvent

\* The one place an event is folded into a snapshot.  Events about a task
\* the snapshot does not have are skipped; a transition sets the status
\* without looking at the one it replaces.
ApplyEvent(s, e) ==
    CASE e.kind = "goal-created" ->
           [s EXCEPT !.goals = @ \cup {e.goal}]
      [] e.kind = "task-created" ->
           [s EXCEPT !.tasks[e.task] = NewTask(e.key, e.owner)]
      [] e.kind = "transition" /\ Exists(s, e.task) ->
           [s EXCEPT !.tasks[e.task].status = e.to]
      [] e.kind = "evidence-added" /\ Exists(s, e.task) ->
           [s EXCEPT !.tasks[e.task].evidence = @ \cup {e.ref}]
      [] e.kind = "owner-reassigned" /\ Exists(s, e.task) ->
           [s EXCEPT !.tasks[e.task].owner = e.owner]
      [] OTHER -> s

\* Mutant: the dedupe looks at goals only.
DedupesGoalsOnly(s, e) == e.kind = "goal-created" /\ e.goal \in s.goals

\* appendEvent's answer when the graph it read already has what the event
\* would create.
Dedupes(s, e) ==
    \/ e.kind = "goal-created" /\ e.goal \in s.goals
    \/ /\ e.kind = "task-created"
       /\ \E t \in Task : Exists(s, t) /\ s.tasks[t].key = e.key
=============================================================================
