----------------------------- MODULE ExecGraph ------------------------------
(***************************************************************************)
(* The execution graph: ledger.jsonl, graph.json and the OS processes that *)
(* share them without a lock (src/exec-graph/{ledger,api,verifier-port}).  *)
(*                                                                         *)
(* A call of the API is synchronous, so nothing of its own process runs in *)
(* between; other processes do.  The steps of a call are therefore its     *)
(* file operations: read the graph, append a line, truncate the snapshot,  *)
(* write it.  moveTask makes several: each ref it cites is first recorded  *)
(* as evidence, by an event of its own, and the transition is appended     *)
(* only then.  One ref per move is modelled.                               *)
(*                                                                         *)
(* The ledger is kept as what it folds to: `replay' is foldEvents of the   *)
(* lines that parse, and LedgerFile checks that appending one line is one  *)
(* ApplyEvent.  `torn' says that the last line has no newline, so that the *)
(* next line appended runs into it and neither parses.                     *)
(***************************************************************************)
EXTENDS ExecGraphContracts, Naturals

CONSTANTS
    Proc,         \* the processes
    WritableProc, \* those not started with ATLAS_READONLY
    Fault,        \* which faults the environment may inject
    StartGraphs,  \* the coherent graphs a run may start from
    MaxCalls      \* bound: API calls begun in a behaviour

\* "append": the append throws and nothing reaches the file;
\* "torn":   the append is cut short and leaves half a line;
\* "open":   the snapshot cannot be opened, the old file stays;
\* "cut":    the snapshot write fails after the file was truncated;
\* "crash":  a process dies between two of its file operations.
FaultKind == {"append", "torn", "open", "cut", "crash"}

ASSUME ExecGraphAssumption ==
    /\ WritableProc \subseteq Proc
    /\ Fault \subseteq FaultKind
    /\ MaxCalls \in Nat
    /\ \A s \in StartGraphs : s \in Snapshot /\ ValidSnapshot(s)
    /\ \A s \in StartGraphs : \A t, u \in Task :
         Exists(s, t) /\ Exists(s, u) /\ s.tasks[t].key = s.tasks[u].key => t = u

VARIABLES
    replay,  \* the snapshot ledger.jsonl folds to
    torn,    \* TRUE when the ledger ends in half a line
    disk,    \* graph.json: can it be parsed, and what it says
    proc,    \* per process: where its call is and what it holds in memory
    calls    \* number of calls begun

vars == <<replay, torn, disk, proc, calls>>

-----------------------------------------------------------------------------
(* What a process holds *)

\* The transition a move appends once its evidence is recorded.
Move == [to : Status, actor : Actor, ref : Ref \cup {NoRef}]
NoMove == [to |-> "none"]

\* "read": appendEvent is about to read the graph; "append", "truncate",
\* "write": its three file operations; "evidence": addEvidence is about to
\* read the graph on behalf of a move.  `base' is the graph appendEvent
\* read, `seen' the task record addEvidence handed back to the move.
Idle ==
    [pc |-> "idle", event |-> NoEvent, base |-> EmptyGraph,
     seen |-> AbsentTask, next |-> NoMove]

ProcState ==
    [pc : {"idle", "evidence", "read", "append", "truncate", "write"},
     event : Event \cup {NoEvent},
     base : Snapshot,
     seen : TaskRecord \cup {AbsentTask},
     next : Move \cup {NoMove}]

Unreadable == [readable |-> FALSE, graph |-> EmptyGraph]

\* readGraph: the snapshot file when it parses and passes the schema, else
\* the fold of the ledger.
ReadGraph ==
    IF disk.readable /\ ValidSnapshot(disk.graph) THEN disk.graph ELSE replay

TypeOK ==
    /\ replay \in Snapshot
    /\ torn \in BOOLEAN
    /\ disk \in [readable : BOOLEAN, graph : Snapshot]
    /\ proc \in [Proc -> ProcState]
    /\ calls \in Nat

Init ==
    /\ replay \in StartGraphs
    /\ torn = FALSE
    /\ disk \in {[readable |-> TRUE, graph |-> replay], Unreadable}
    /\ proc = [p \in Proc |-> Idle]
    /\ calls = 0

-----------------------------------------------------------------------------
(* The API: how a call begins *)

Free(p) == proc[p].pc = "idle" /\ calls < MaxCalls

\* p enters appendEvent with e.
Submit(p, e) ==
    /\ proc' = [proc EXCEPT ![p] = [Idle EXCEPT !.pc = "read", !.event = e]]
    /\ calls' = calls + 1
    /\ UNCHANGED <<replay, torn, disk>>

\* No file and no process knows the id yet.
Fresh(t) ==
    /\ ~Exists(replay, t)
    /\ ~Exists(disk.graph, t)
    /\ \A q \in Proc : /\ ~Exists(proc[q].base, t)
                       /\ proc[q].event \notin {TaskCreated(t, k, o) : k \in Key, o \in Owner}

CreateGoal(p, g) ==
    /\ Free(p)
    /\ p \in WritableProc
    /\ g \notin ReadGraph.goals
    /\ Submit(p, GoalCreated(g))

\* createTask and importTask: the graph is read, and the key looked up, by
\* appendEvent only.
CreateTask(p, t, k, o) ==
    /\ Free(p)
    /\ p \in WritableProc
    /\ o \notin HandOwner
    /\ Fresh(t)
    /\ Submit(p, TaskCreated(t, k, o))

\* Mutant: a move records its ref without asking whether it cites one.
BeginMoveAlwaysCiting(p, t, to, a, r) ==
    /\ Free(p)
    /\ Exists(ReadGraph, t)
    /\ proc' = [proc EXCEPT ![p] =
                  [Idle EXCEPT !.pc = "evidence",
                               !.event = EvidenceAdded(t, r),
                               !.next = [to |-> to, actor |-> a, ref |-> r]]]
    /\ calls' = calls + 1
    /\ UNCHANGED <<replay, torn, disk>>

\* What moveTask and moveTaskAsVerifier share.  A move that cites a ref
\* first records it as evidence; the edge is checked afterwards.
BeginMove(p, t, to, a, r) ==
    LET task == ReadGraph.tasks[t] IN
    /\ Free(p)
    /\ Exists(ReadGraph, t)
    /\ IF r = NoRef
       THEN /\ CanTransition(task, to, a, NoRef)
            /\ Submit(p, Moved(t, to, a))
       ELSE /\ proc' = [proc EXCEPT ![p] =
                          [Idle EXCEPT !.pc = "evidence",
                                       !.event = EvidenceAdded(t, r),
                                       !.next = [to |-> to, actor |-> a, ref |-> r]]]
            /\ calls' = calls + 1
            /\ UNCHANGED <<replay, torn, disk>>

MoveTask(p, t, to, a, r) ==
    /\ p \in WritableProc
    /\ to \notin FinalStatus
    /\ BeginMove(p, t, to, a, r)

\* The port takes any target status; its one caller, verifyAndTransition,
\* passes these two, and for the others it does what MoveTask does.
MoveTaskAsVerifier(p, t, to, a, r) ==
    /\ to \in FinalStatus
    /\ BeginMove(p, t, to, a, r)

AddEvidence(p, t, r) ==
    /\ Free(p)
    /\ Exists(ReadGraph, t)
    /\ Submit(p, EvidenceAdded(t, r))

BeginReassign(p, t, o) ==
    /\ Free(p)
    /\ Exists(ReadGraph, t)
    /\ Submit(p, OwnerReassigned(t, o))

ReassignOwner(p, t, o) ==
    /\ o \notin HandOwner
    /\ BeginReassign(p, t, o)

ReassignOwnerAsVerifier(p, t, o) ==
    /\ o \in HandOwner
    /\ BeginReassign(p, t, o)

-----------------------------------------------------------------------------
(* The rest of a call *)

\* Where p is once its event has been persisted, or failed to be: persistEvent
\* never throws, so a move goes on either way, with the record addEvidence
\* returned.  An edge that is not legal throws.
AfterPersist(p) ==
    LET c == proc[p] IN
    IF c.next # NoMove /\ CanTransition(c.seen, c.next.to, c.next.actor, c.next.ref)
    THEN [Idle EXCEPT !.pc = "read",
                      !.event = Moved(c.event.task, c.next.to, c.next.actor)]
    ELSE Idle

\* addEvidence inside a move: reads the graph again and throws when the
\* task is gone.
RecordMoveEvidence(p) ==
    LET e == proc[p].event
        task == ReadGraph.tasks[e.task] IN
    /\ proc[p].pc = "evidence"
    /\ proc' = [proc EXCEPT ![p] =
                  IF Exists(ReadGraph, e.task)
                  THEN [@ EXCEPT !.pc = "read",
                                 !.seen = [task EXCEPT !.evidence = @ \cup {e.ref}]]
                  ELSE Idle]
    /\ UNCHANGED <<replay, torn, disk, calls>>

\* appendEvent reads the graph it will extend, and answers a duplicate
\* without writing.
ReadBase(p) ==
    /\ proc[p].pc = "read"
    /\ proc' = [proc EXCEPT ![p] =
                  IF Dedupes(ReadGraph, proc[p].event)
                  THEN Idle
                  ELSE [@ EXCEPT !.pc = "append", !.base = ReadGraph]]
    /\ UNCHANGED <<replay, torn, disk, calls>>

\* Mutant: the line is left in a buffer that nobody flushes.
AppendBuffered(p) ==
    /\ proc[p].pc = "append"
    /\ proc' = [proc EXCEPT ![p].pc = "truncate"]
    /\ UNCHANGED <<replay, torn, disk, calls>>

\* appendFileSync.  A whole line after half a line is one line that does
\* not parse.
AppendLine(p) ==
    /\ proc[p].pc = "append"
    /\ replay' = IF torn THEN replay ELSE ApplyEvent(replay, proc[p].event)
    /\ torn' = FALSE
    /\ proc' = [proc EXCEPT ![p].pc = "truncate"]
    /\ UNCHANGED <<disk, calls>>

\* The append fails: the snapshot is not touched.
AppendFails(p) ==
    /\ proc[p].pc = "append"
    /\ \/ "append" \in Fault /\ torn' = torn
       \/ "torn" \in Fault /\ torn' = TRUE
    /\ proc' = [proc EXCEPT ![p] = AfterPersist(p)]
    /\ UNCHANGED <<replay, disk, calls>>

\* writeFileSync opens graph.json, which empties it ...
TruncateSnapshot(p) ==
    /\ proc[p].pc = "truncate"
    /\ disk' = Unreadable
    /\ proc' = [proc EXCEPT ![p].pc = "write"]
    /\ UNCHANGED <<replay, torn, calls>>

\* Mutant: the graph p read is written back, without the event.
WriteOldSnapshot(p) ==
    /\ proc[p].pc = "write"
    /\ disk' = [readable |-> TRUE, graph |-> proc[p].base]
    /\ proc' = [proc EXCEPT ![p] = AfterPersist(p)]
    /\ UNCHANGED <<replay, torn, calls>>

\* ... and then writes the graph p computed from what it read.
WriteSnapshot(p) ==
    /\ proc[p].pc = "write"
    /\ disk' = [readable |-> TRUE, graph |-> ApplyEvent(proc[p].base, proc[p].event)]
    /\ proc' = [proc EXCEPT ![p] = AfterPersist(p)]
    /\ UNCHANGED <<replay, torn, calls>>

\* The snapshot write throws, before or after the file was emptied.
WriteFails(p) ==
    /\ \/ "open" \in Fault /\ proc[p].pc = "truncate"
       \/ "cut" \in Fault /\ proc[p].pc = "write"
    /\ proc' = [proc EXCEPT ![p] = AfterPersist(p)]
    /\ UNCHANGED <<replay, torn, disk, calls>>

Crash(p) ==
    /\ "crash" \in Fault
    /\ proc[p].pc # "idle"
    /\ proc' = [proc EXCEPT ![p] = Idle]
    /\ UNCHANGED <<replay, torn, disk, calls>>

Begin(p) ==
    \/ \E g \in Goal : CreateGoal(p, g)
    \/ \E t \in Task, k \in Key, o \in Owner : CreateTask(p, t, k, o)
    \/ \E t \in Task, to \in Status, a \in Actor, r \in Ref \cup {NoRef} :
         MoveTask(p, t, to, a, r) \/ MoveTaskAsVerifier(p, t, to, a, r)
    \/ \E t \in Task, r \in Ref : AddEvidence(p, t, r)
    \/ \E t \in Task, o \in Owner : ReassignOwner(p, t, o) \/ ReassignOwnerAsVerifier(p, t, o)

Continue(p) ==
    \/ RecordMoveEvidence(p) \/ ReadBase(p)
    \/ AppendLine(p) \/ AppendFails(p)
    \/ TruncateSnapshot(p) \/ WriteSnapshot(p) \/ WriteFails(p)
    \/ Crash(p)

Next == \E p \in Proc : Begin(p) \/ Continue(p)

Spec == Init /\ [][Next]_vars

-----------------------------------------------------------------------------
(* Properties *)

\* Every goal, task and evidence entry of s is in the ledger's fold too.
Within(s, g) ==
    /\ s.goals \subseteq g.goals
    /\ \A t \in Task : Exists(s, t) =>
         /\ Exists(g, t)
         /\ s.tasks[t].key = g.tasks[t].key
         /\ s.tasks[t].evidence \subseteq g.tasks[t].evidence

\* graph.json never claims a goal, a task or a piece of evidence the ledger
\* does not have (persistEvent appends before it writes the snapshot).
NeverAhead == Within(disk.graph, replay)

\* In the ledger, a task rests in 'verified' or 'closed' only with evidence,
\* although the check is made on a graph read before the append.
EvidenceBacked == ValidSnapshot(replay)

\* No two tasks of the ledger carry the same idempotency key: importing a
\* legacy ref twice never makes a second task (appendEvent's dedupe).
UniqueKeys ==
    \A t, u \in Task :
        Exists(replay, t) /\ Exists(replay, u) /\ replay.tasks[t].key = replay.tasks[u].key
        => t = u

\* Outside the gap between append and snapshot write, what readers are
\* served is the fold of the ledger.
Coherent ==
    (\A p \in Proc : proc[p].pc \notin {"truncate", "write"}) => ReadGraph = replay

\* The history in the ledger is a legal one: each transition starts from the
\* status the ledger had, 'closed' is terminal, and only 'ceo' or
\* 'external-cto' take a task out of 'escalated' (applyTransition, checked
\* on a graph read earlier than the append).
LegalHistory ==
    [][\A t \in Task :
         LET old == replay.tasks[t].status
             new == replay'.tasks[t].status IN
         old # new /\ old # "absent" =>
           \E p \in Proc : /\ AppendLine(p)
                           /\ proc[p].event.kind = "transition"
                           /\ LegalEdge(old, new, proc[p].event.actor)]_vars

-----------------------------------------------------------------------------
(* The ledger and its snapshot as one graph *)

\* The events that calls are about to append.
Asked == {proc[p].event : p \in {q \in Proc : proc[q].pc \in {"read", "append"}}}

Whole == INSTANCE TaskGraph WITH
    graph <- replay, served <- ReadGraph, asked <- Asked,
    Lossy <- Fault \cap {"append", "torn"} # {}

\* Two files and several file operations per call are together one graph
\* that changes in one step per event: what was checked on a graph read
\* earlier (the edge, the key, the id, the evidence) still holds when the line
\* is appended, and readers are at most that one event behind.
ActsAtOnce == Whole!GraphSpec
=============================================================================
