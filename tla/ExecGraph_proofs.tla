-------------------------- MODULE ExecGraph_proofs --------------------------
(***************************************************************************)
(* Proofs about ExecGraph, for any number of processes, tasks and calls:   *)
(* type correctness; graph.json never gets ahead of the ledger unless an   *)
(* append can leave half a line; a task rests in 'verified' or 'closed'    *)
(* only with evidence unless an append can fail.  While calls do not       *)
(* overlap: readers are served the ledger, its history is legal, its tasks *)
(* have keys of their own, and ExecGraph implements TaskGraph.  And about  *)
(* LedgerFile: reading the text of the ledger gives what ExecGraph keeps,  *)
(* and forgets nothing.                                                    *)
(***************************************************************************)
EXTENDS LedgerFile, WellFoundedInduction, TLAPS

-----------------------------------------------------------------------------
(* The invariants *)

\* What a call has in hand where it stands: an event, and, while a move is
\* recording its evidence, an event of that kind.
CallFits(c) ==
    /\ c.pc # "idle" => c.event \in Event
    /\ (c.pc = "evidence" \/ c.next # NoMove) => c.event \in EvidenceEvent

CallOK == \A p \in Proc : CallFits(proc[p])

TypeInv == TypeOK /\ CallOK

\* What was read, and what will be written once it is in the ledger, the
\* ledger has too.
BaseWithin == \A p \in Proc : Within(proc[p].base, replay)

InFlightWithin ==
    \A p \in Proc : proc[p].pc \in {"truncate", "write"} =>
        Within(ApplyEvent(proc[p].base, proc[p].event), replay)

\* The id of a task that is about to be created is used by nobody else.
PendingFresh ==
    \A p \in Proc :
        proc[p].pc \in {"read", "append"} /\ proc[p].event.kind = "task-created" =>
            /\ ~Exists(replay, proc[p].event.task)
            /\ \A q \in Proc \ {p} : proc[q].event.kind = "task-created" =>
                   proc[q].event.task # proc[p].event.task

AheadInv ==
    /\ TypeInv
    /\ ~torn
    /\ NeverAhead
    /\ BaseWithin
    /\ InFlightWithin
    /\ PendingFresh

\* A transition that needs evidence, on its way to the ledger g, has it there.
MoveBacked(c, g) ==
    /\ c.pc \in {"read", "append"}
    /\ c.event.kind = "transition"
    /\ c.event.to \in EvidenceStatus
    => Exists(g, c.event.task) /\ g.tasks[c.event.task].evidence # {}

PendingBacked == \A p \in Proc : MoveBacked(proc[p], replay)

\* The evidence a move believes its task to have is in the ledger, but for
\* the entry it is itself recording.
SeenFits(c, g) ==
    c.next # NoMove /\ c.pc # "evidence" =>
        /\ Exists(g, c.event.task)
        /\ c.seen.evidence \subseteq g.tasks[c.event.task].evidence
             \cup (IF c.pc \in {"read", "append"} THEN {c.event.ref} ELSE {})

SeenBacked == \A p \in Proc : SeenFits(proc[p], replay)

BackedInv == AheadInv /\ EvidenceBacked /\ PendingBacked /\ SeenBacked

-----------------------------------------------------------------------------
(* Events and snapshots *)

\* Each event carries the fields of its kind.
LEMMA EventShape ==
    ASSUME NEW e \in Event
    PROVE  /\ e.kind \in {"goal-created", "task-created", "transition",
                          "evidence-added", "owner-reassigned"}
           /\ e.kind = "goal-created" => e.goal \in Goal
           /\ e.kind = "task-created" => e.task \in Task /\ e.key \in Key /\ e.owner \in Owner
           /\ e.kind = "transition" => e.task \in Task /\ e.to \in Status /\ e.actor \in Actor
           /\ e.kind = "evidence-added" => e.task \in Task /\ e.ref \in Ref
           /\ e.kind = "owner-reassigned" => e.task \in Task /\ e.owner \in Owner
<1>1. CASE e \in GoalEvent
  BY <1>1 DEF GoalEvent, GoalCreated
<1>2. CASE e \in CreateEvent
  BY <1>2 DEF CreateEvent, TaskCreated
<1>3. CASE e \in MoveEvent
  BY <1>3 DEF MoveEvent, Moved
<1>4. CASE e \in EvidenceEvent
  BY <1>4 DEF EvidenceEvent, EvidenceAdded
<1>5. CASE e \in OwnerEvent
  BY <1>5 DEF OwnerEvent, OwnerReassigned
<1> QED  BY <1>1, <1>2, <1>3, <1>4, <1>5 DEF Event

LEMMA EvidenceShape ==
    ASSUME NEW e \in EvidenceEvent
    PROVE  e \in Event /\ e.kind = "evidence-added" /\ e.task \in Task /\ e.ref \in Ref
BY DEF Event, EvidenceEvent, EvidenceAdded

LEMMA EmptyGraphType == EmptyGraph \in Snapshot
BY DEF EmptyGraph, Snapshot

LEMMA TaskOfSnapshot ==
    ASSUME NEW s \in Snapshot, NEW t \in Task, Exists(s, t)
    PROVE  s.tasks[t] \in TaskRecord
BY DEF Snapshot, Exists, AbsentTask

\* Folding an event into a snapshot gives a snapshot.
LEMMA ApplyEventType ==
    ASSUME NEW s \in Snapshot, NEW e \in Event
    PROVE  ApplyEvent(s, e) \in Snapshot
<1>1. CASE e.kind = "goal-created"
  BY <1>1, EventShape DEF ApplyEvent, Snapshot
<1>2. CASE e.kind = "task-created"
  <2>1. NewTask(e.key, e.owner) \in TaskRecord
    BY <1>2, EventShape DEF NewTask, TaskRecord, Status
  <2> QED  BY <1>2, <2>1, EventShape DEF ApplyEvent, Snapshot
<1>3. CASE e.kind = "transition" /\ Exists(s, e.task)
  <2>1. s.tasks[e.task] \in TaskRecord
    BY <1>3, EventShape, TaskOfSnapshot
  <2>2. [s.tasks[e.task] EXCEPT !.status = e.to] \in TaskRecord
    BY <1>3, <2>1, EventShape DEF TaskRecord
  <2>3. ApplyEvent(s, e) = [s EXCEPT !.tasks[e.task].status = e.to]
    BY <1>3 DEF ApplyEvent
  <2> QED  BY <1>3, <2>2, <2>3, EventShape DEF Snapshot
<1>4. CASE e.kind = "evidence-added" /\ Exists(s, e.task)
  <2>1. s.tasks[e.task] \in TaskRecord
    BY <1>4, EventShape, TaskOfSnapshot
  <2> DEFINE task == [s.tasks[e.task] EXCEPT !.evidence = @ \cup {e.ref}]
  <2>2. task \in TaskRecord
    BY <1>4, <2>1, EventShape DEF TaskRecord
  <2>3. ApplyEvent(s, e) = [s EXCEPT !.tasks[e.task] = task]
    BY <1>4 DEF ApplyEvent
  <2> HIDE DEF task
  <2> QED  BY <1>4, <2>2, <2>3, EventShape DEF Snapshot
<1>5. CASE e.kind = "owner-reassigned" /\ Exists(s, e.task)
  <2>1. s.tasks[e.task] \in TaskRecord
    BY <1>5, EventShape, TaskOfSnapshot
  <2>2. [s.tasks[e.task] EXCEPT !.owner = e.owner] \in TaskRecord
    BY <1>5, <2>1, EventShape DEF TaskRecord
  <2>3. ApplyEvent(s, e) = [s EXCEPT !.tasks[e.task].owner = e.owner]
    BY <1>5 DEF ApplyEvent
  <2> QED  BY <1>5, <2>2, <2>3, EventShape DEF Snapshot
<1>6. CASE /\ e.kind \in {"transition", "evidence-added", "owner-reassigned"}
           /\ ~Exists(s, e.task)
  <2>1. ApplyEvent(s, e) = s
    BY <1>6 DEF ApplyEvent
  <2> QED  BY <2>1
<1> QED  BY <1>1, <1>2, <1>3, <1>4, <1>5, <1>6, EventShape

\* What the graph readers are served is a snapshot.
LEMMA ReadGraphType == TypeOK => ReadGraph \in Snapshot
BY DEF TypeOK, ReadGraph

-----------------------------------------------------------------------------
(* What a snapshot has only grows *)

\* The fold never forgets a task, a key, a piece of evidence or a goal, when
\* an id is created only once.
LEMMA ApplyEventGrows ==
    ASSUME NEW s \in Snapshot, NEW e \in Event,
           e.kind = "task-created" => ~Exists(s, e.task)
    PROVE  Within(s, ApplyEvent(s, e))
<1>1. CASE e.kind = "goal-created"
  BY <1>1, EventShape DEF ApplyEvent, Snapshot, Within, Exists
<1>2. CASE e.kind = "task-created"
  BY <1>2, EventShape DEF ApplyEvent, Snapshot, Within, Exists
<1>3. CASE e.kind = "transition" /\ Exists(s, e.task)
  <2>1. e.task \in Task /\ e.to # "absent"
    BY <1>3, EventShape DEF Status
  <2>2. s.tasks[e.task] \in TaskRecord
    BY <1>3, <2>1, TaskOfSnapshot
  <2> QED  BY <1>3, <2>1, <2>2 DEF ApplyEvent, Snapshot, Within, Exists, TaskRecord
<1>4. CASE e.kind = "evidence-added" /\ Exists(s, e.task)
  <2>1. s.tasks[e.task] \in TaskRecord
    BY <1>4, EventShape, TaskOfSnapshot
  <2> QED  BY <1>4, <2>1, EventShape DEF ApplyEvent, Snapshot, Within, Exists, TaskRecord
<1>5. CASE e.kind = "owner-reassigned" /\ Exists(s, e.task)
  <2>1. s.tasks[e.task] \in TaskRecord
    BY <1>5, EventShape, TaskOfSnapshot
  <2> QED  BY <1>5, <2>1, EventShape DEF ApplyEvent, Snapshot, Within, Exists, TaskRecord
<1>6. CASE /\ e.kind \in {"transition", "evidence-added", "owner-reassigned"}
           /\ ~Exists(s, e.task)
  BY <1>6 DEF ApplyEvent, Within
<1> QED  BY <1>1, <1>2, <1>3, <1>4, <1>5, <1>6, EventShape

LEMMA WithinTransitive ==
    ASSUME NEW a, NEW b, NEW c, Within(a, b), Within(b, c)
    PROVE  Within(a, c)
BY DEF Within

LEMMA EmptyWithin == \A g : Within(EmptyGraph, g)
BY DEF Within, EmptyGraph, Exists, AbsentTask

\* Folding the same event into a smaller and a larger snapshot keeps the one
\* within the other.
LEMMA ApplyEventMonotone ==
    ASSUME NEW s \in Snapshot, NEW g \in Snapshot, NEW e \in Event, Within(s, g)
    PROVE  Within(ApplyEvent(s, e), ApplyEvent(g, e))
<1>1. CASE e.kind = "goal-created"
  BY <1>1, EventShape DEF ApplyEvent, Snapshot, Within, Exists
<1>2. CASE e.kind = "task-created"
  BY <1>2, EventShape DEF ApplyEvent, Snapshot, Within, Exists, NewTask
<1>3. CASE /\ e.kind \in {"transition", "evidence-added", "owner-reassigned"}
           /\ ~Exists(s, e.task)
  <2>1. Within(g, ApplyEvent(g, e))
    BY <1>3, ApplyEventGrows
  <2>2. ApplyEvent(s, e) = s
    BY <1>3 DEF ApplyEvent
  <2> QED  BY <2>1, <2>2, WithinTransitive
<1>4. CASE /\ e.kind \in {"transition", "evidence-added", "owner-reassigned"}
           /\ Exists(s, e.task)
  <2>1. e.task \in Task /\ (e.kind = "transition" => e.to # "absent")
    BY <1>4, EventShape DEF Status
  <2>2. Exists(g, e.task) /\ s.tasks[e.task] \in TaskRecord /\ g.tasks[e.task] \in TaskRecord
    BY <1>4, <2>1, TaskOfSnapshot DEF Within
  <2>3. CASE e.kind = "transition"
    BY <1>4, <2>1, <2>2, <2>3 DEF ApplyEvent, Snapshot, Within, Exists, TaskRecord
  <2>4. CASE e.kind = "evidence-added"
    BY <1>4, <2>1, <2>2, <2>4 DEF ApplyEvent, Snapshot, Within, Exists, TaskRecord
  <2>5. CASE e.kind = "owner-reassigned"
    BY <1>4, <2>1, <2>2, <2>5 DEF ApplyEvent, Snapshot, Within, Exists, TaskRecord
  <2> QED  BY <1>4, <2>3, <2>4, <2>5
<1> QED  BY <1>1, <1>2, <1>3, <1>4, EventShape

-----------------------------------------------------------------------------
(* Types *)

LEMMA IdleType == Idle \in ProcState /\ CallFits(Idle)
BY EmptyGraphType DEF Idle, ProcState, CallFits, NoEvent, NoMove

\* A call that has just entered appendEvent.
LEMMA SubmittedType ==
    ASSUME NEW e \in Event
    PROVE  /\ [Idle EXCEPT !.pc = "read", !.event = e] \in ProcState
           /\ CallFits([Idle EXCEPT !.pc = "read", !.event = e])
BY EmptyGraphType DEF Idle, ProcState, CallFits, NoMove

LEMMA MovedType ==
    ASSUME NEW t \in Task, NEW to \in Status, NEW a \in Actor
    PROVE  Moved(t, to, a) \in Event
BY DEF Moved, Event, MoveEvent

LEMMA AfterPersistType ==
    ASSUME TypeInv, NEW p \in Proc
    PROVE  AfterPersist(p) \in ProcState /\ CallFits(AfterPersist(p))
<1> DEFINE c == proc[p]
<1>1. CASE c.next # NoMove /\ CanTransition(c.seen, c.next.to, c.next.actor, c.next.ref)
  <2>1. c \in ProcState /\ c.event \in EvidenceEvent
    BY <1>1 DEF TypeInv, TypeOK, CallOK, CallFits
  <2>2. c.event.task \in Task /\ c.next \in Move
    BY <1>1, <2>1, EvidenceShape DEF ProcState
  <2>3. Moved(c.event.task, c.next.to, c.next.actor) \in Event
    BY <2>2, MovedType DEF Move
  <2> QED  BY <1>1, <2>3, SubmittedType DEF AfterPersist
<1>2. CASE ~(c.next # NoMove /\ CanTransition(c.seen, c.next.to, c.next.actor, c.next.ref))
  BY <1>2, IdleType DEF AfterPersist
<1> QED  BY <1>1, <1>2

\* One process moves on, the others stay.
LEMMA ProcStep ==
    ASSUME TypeInv, NEW p \in Proc, NEW c \in ProcState, CallFits(c),
           proc' = [proc EXCEPT ![p] = c]
    PROVE  proc' \in [Proc -> ProcState] /\ CallOK'
BY DEF TypeInv, TypeOK, CallOK

LEMMA SubmitType ==
    ASSUME TypeInv, NEW p \in Proc, NEW e \in Event, Submit(p, e)
    PROVE  TypeInv'
<1> DEFINE c == [Idle EXCEPT !.pc = "read", !.event = e]
<1>1. c \in ProcState /\ CallFits(c) /\ proc' = [proc EXCEPT ![p] = c]
  BY SubmittedType DEF Submit
<1> HIDE DEF c
<1>2. proc' \in [Proc -> ProcState] /\ CallOK'
  BY <1>1, ProcStep
<1> QED  BY <1>2 DEF TypeInv, TypeOK, Submit

LEMMA BeginMoveType ==
    ASSUME TypeInv, NEW p \in Proc, NEW t \in Task, NEW to \in Status,
           NEW a \in Actor, NEW r \in Ref \cup {NoRef}, BeginMove(p, t, to, a, r)
    PROVE  TypeInv'
<1>1. CASE r = NoRef
  BY <1>1, MovedType, SubmitType DEF BeginMove
<1>2. CASE r # NoRef
  <2> DEFINE c == [Idle EXCEPT !.pc = "evidence",
                               !.event = EvidenceAdded(t, r),
                               !.next = [to |-> to, actor |-> a, ref |-> r]]
  <2>1. EvidenceAdded(t, r) \in EvidenceEvent
    BY <1>2 DEF EvidenceEvent
  <2>2. [to |-> to, actor |-> a, ref |-> r] \in Move
    BY DEF Move
  <2>3. c \in ProcState /\ CallFits(c)
    BY <2>1, <2>2, EmptyGraphType DEF Idle, ProcState, CallFits, Event
  <2>4. proc' = [proc EXCEPT ![p] = c] /\ calls' = calls + 1 /\ UNCHANGED <<replay, torn, disk>>
    BY <1>2 DEF BeginMove
  <2> HIDE DEF c
  <2>5. proc' \in [Proc -> ProcState] /\ CallOK'
    BY <2>3, <2>4, ProcStep
  <2> QED  BY <2>4, <2>5 DEF TypeInv, TypeOK
<1> QED  BY <1>1, <1>2

LEMMA BeginType ==
    ASSUME TypeInv, NEW p \in Proc, Begin(p)
    PROVE  TypeInv'
<1>1. ASSUME NEW g \in Goal, CreateGoal(p, g)
      PROVE  TypeInv'
  <2>1. GoalCreated(g) \in Event
    BY DEF Event, GoalEvent
  <2> QED  BY <1>1, <2>1, SubmitType DEF CreateGoal
<1>2. ASSUME NEW t \in Task, NEW k \in Key, NEW o \in Owner, CreateTask(p, t, k, o)
      PROVE  TypeInv'
  <2>1. TaskCreated(t, k, o) \in Event
    BY DEF Event, CreateEvent
  <2> QED  BY <1>2, <2>1, SubmitType DEF CreateTask
<1>3. ASSUME NEW t \in Task, NEW to \in Status, NEW a \in Actor, NEW r \in Ref \cup {NoRef},
             MoveTask(p, t, to, a, r) \/ MoveTaskAsVerifier(p, t, to, a, r)
      PROVE  TypeInv'
  BY <1>3, BeginMoveType DEF MoveTask, MoveTaskAsVerifier
<1>4. ASSUME NEW t \in Task, NEW r \in Ref, AddEvidence(p, t, r)
      PROVE  TypeInv'
  <2>1. EvidenceAdded(t, r) \in Event
    BY DEF Event, EvidenceEvent
  <2> QED  BY <1>4, <2>1, SubmitType DEF AddEvidence
<1>5. ASSUME NEW t \in Task, NEW o \in Owner,
             ReassignOwner(p, t, o) \/ ReassignOwnerAsVerifier(p, t, o)
      PROVE  TypeInv'
  <2>1. OwnerReassigned(t, o) \in Event
    BY DEF Event, OwnerEvent
  <2> QED  BY <1>5, <2>1, SubmitType
             DEF ReassignOwner, ReassignOwnerAsVerifier, BeginReassign
<1> QED  BY <1>1, <1>2, <1>3, <1>4, <1>5 DEF Begin

LEMMA ContinueType ==
    ASSUME TypeInv, NEW p \in Proc, Continue(p)
    PROVE  TypeInv'
<1> DEFINE c == proc[p]
<1>0. c \in ProcState /\ CallFits(c) /\ ReadGraph \in Snapshot
  BY ReadGraphType DEF TypeInv, TypeOK, CallOK
<1>1. CASE RecordMoveEvidence(p)
  <2> DEFINE task == ReadGraph.tasks[c.event.task]
             d == [c EXCEPT !.pc = "read",
                            !.seen = [task EXCEPT !.evidence = @ \cup {c.event.ref}]]
  <2>1. c.event \in EvidenceEvent
    BY <1>0, <1>1 DEF RecordMoveEvidence, CallFits
  <2>2. ASSUME Exists(ReadGraph, c.event.task)
        PROVE  d \in ProcState /\ CallFits(d)
    <3>1. task \in TaskRecord
      BY <1>0, <2>1, <2>2, EvidenceShape, TaskOfSnapshot
    <3>2. [task EXCEPT !.evidence = @ \cup {c.event.ref}] \in TaskRecord
      BY <2>1, <3>1, EvidenceShape DEF TaskRecord
    <3> HIDE DEF task
    <3> QED  BY <1>0, <2>1, <3>2, EvidenceShape DEF ProcState, CallFits
  <2>3. proc' = [proc EXCEPT ![p] = IF Exists(ReadGraph, c.event.task) THEN d ELSE Idle]
    BY <1>1 DEF RecordMoveEvidence
  <2> HIDE DEF c, d
  <2>4. proc' \in [Proc -> ProcState] /\ CallOK'
    BY <2>2, <2>3, IdleType, ProcStep
  <2> QED  BY <1>1, <2>4 DEF RecordMoveEvidence, TypeInv, TypeOK
<1>2. CASE ReadBase(p)
  <2> DEFINE d == [c EXCEPT !.pc = "append", !.base = ReadGraph]
  <2>1. d \in ProcState /\ CallFits(d)
    BY <1>0, <1>2 DEF ReadBase, ProcState, CallFits
  <2>2. proc' = [proc EXCEPT ![p] = IF Dedupes(ReadGraph, c.event) THEN Idle ELSE d]
    BY <1>2 DEF ReadBase
  <2> HIDE DEF c, d
  <2>3. proc' \in [Proc -> ProcState] /\ CallOK'
    BY <2>1, <2>2, IdleType, ProcStep
  <2> QED  BY <1>2, <2>3 DEF ReadBase, TypeInv, TypeOK
<1>3. CASE AppendLine(p)
  <2> DEFINE d == [c EXCEPT !.pc = "truncate"]
  <2>1. d \in ProcState /\ CallFits(d) /\ c.event \in Event
    BY <1>0, <1>3 DEF AppendLine, ProcState, CallFits
  <2>2. proc' = [proc EXCEPT ![p] = d]
    BY <1>3 DEF AppendLine
  <2>3. replay' \in Snapshot
    BY <1>3, <2>1, ApplyEventType DEF AppendLine, TypeInv, TypeOK
  <2> HIDE DEF c, d
  <2>4. proc' \in [Proc -> ProcState] /\ CallOK'
    BY <2>1, <2>2, ProcStep
  <2> QED  BY <1>3, <2>3, <2>4 DEF AppendLine, TypeInv, TypeOK
<1>4. CASE AppendFails(p)
  <2>1. proc' \in [Proc -> ProcState] /\ CallOK'
    BY <1>4, AfterPersistType, ProcStep DEF AppendFails
  <2> QED  BY <1>4, <2>1 DEF AppendFails, TypeInv, TypeOK
<1>5. CASE TruncateSnapshot(p)
  <2> DEFINE d == [c EXCEPT !.pc = "write"]
  <2>1. d \in ProcState /\ CallFits(d)
    BY <1>0, <1>5 DEF TruncateSnapshot, ProcState, CallFits
  <2>2. proc' = [proc EXCEPT ![p] = d]
    BY <1>5 DEF TruncateSnapshot
  <2> HIDE DEF c, d
  <2>3. proc' \in [Proc -> ProcState] /\ CallOK'
    BY <2>1, <2>2, ProcStep
  <2> QED  BY <1>5, <2>3, EmptyGraphType DEF TruncateSnapshot, Unreadable, TypeInv, TypeOK
<1>6. CASE WriteSnapshot(p)
  <2>1. ApplyEvent(c.base, c.event) \in Snapshot
    BY <1>0, <1>6, ApplyEventType DEF WriteSnapshot, ProcState, CallFits
  <2>2. proc' \in [Proc -> ProcState] /\ CallOK'
    BY <1>6, AfterPersistType, ProcStep DEF WriteSnapshot
  <2> QED  BY <1>6, <2>1, <2>2 DEF WriteSnapshot, TypeInv, TypeOK
<1>7. CASE WriteFails(p)
  <2>1. proc' \in [Proc -> ProcState] /\ CallOK'
    BY <1>7, AfterPersistType, ProcStep DEF WriteFails
  <2> QED  BY <1>7, <2>1 DEF WriteFails, TypeInv, TypeOK
<1>8. CASE Crash(p)
  <2>1. proc' \in [Proc -> ProcState] /\ CallOK'
    BY <1>8, IdleType, ProcStep DEF Crash
  <2> QED  BY <1>8, <2>1 DEF Crash, TypeInv, TypeOK
<1> QED  BY <1>1, <1>2, <1>3, <1>4, <1>5, <1>6, <1>7, <1>8 DEF Continue

LEMMA TypeInit == Init => TypeInv
<1> SUFFICES ASSUME Init PROVE TypeInv
  OBVIOUS
<1>1. replay \in Snapshot
  BY ExecGraphAssumption DEF Init
<1>2. disk \in [readable : BOOLEAN, graph : Snapshot]
  <2>1. CASE disk = [readable |-> TRUE, graph |-> replay]
    BY <1>1, <2>1
  <2>2. CASE disk = Unreadable
    BY <2>2, EmptyGraphType DEF Unreadable
  <2> QED  BY <2>1, <2>2 DEF Init
<1> QED  BY <1>1, <1>2, IdleType DEF Init, TypeInv, TypeOK, CallOK

LEMMA TypeNext == TypeInv /\ [Next]_vars => TypeInv'
<1> SUFFICES ASSUME TypeInv, [Next]_vars PROVE TypeInv'
  OBVIOUS
<1>1. CASE UNCHANGED vars
  BY <1>1 DEF vars, TypeInv, TypeOK, CallOK
<1>2. ASSUME NEW p \in Proc, Begin(p) \/ Continue(p)
      PROVE  TypeInv'
  BY <1>2, BeginType, ContinueType
<1> QED  BY <1>1, <1>2 DEF Next

\* The files always hold well-formed snapshots, and a call that is under way
\* always has an event of the ledger's schema in hand, whatever fails.
THEOREM TypeCorrect == Spec => []TypeOK
<1>1. TypeInv => TypeOK
  BY DEF TypeInv
<1> QED  BY <1>1, TypeInit, TypeNext, PTL DEF Spec

-----------------------------------------------------------------------------
(* The snapshot never gets ahead of the ledger *)

\* What readers are served is within the ledger.
LEMMA ReadGraphWithin ==
    ASSUME NeverAhead
    PROVE  Within(ReadGraph, replay)
BY DEF NeverAhead, ReadGraph, Within

\* A step that begins a call, or moves one on without touching the ledger,
\* with d in the hands of p afterwards.
LEMMA AheadStep ==
    ASSUME AheadInv, TypeInv', NEW p \in Proc, NEW d \in ProcState,
           proc' = [proc EXCEPT ![p] = d],
           UNCHANGED <<replay, torn>>,
           NeverAhead',
           Within(d.base, replay),
           d.pc \in {"truncate", "write"} => Within(ApplyEvent(d.base, d.event), replay),
           \/ d.event.kind # "task-created"
           \/ /\ d.event = proc[p].event
              /\ d.pc \in {"read", "append"} => proc[p].pc \in {"read", "append"}
           \/ /\ ~Exists(replay, d.event.task)
              /\ \A q \in Proc \ {p} : proc[q].event.kind = "task-created" =>
                                         proc[q].event.task # d.event.task
    PROVE  AheadInv'
<1>1. proc \in [Proc -> ProcState]
  BY DEF AheadInv, TypeInv, TypeOK
<1>2. \A q \in Proc : proc'[q] = IF q = p THEN d ELSE proc[q]
  BY <1>1
<1>3. ~torn'
  BY DEF AheadInv
<1>4. BaseWithin'
  BY <1>2 DEF AheadInv, BaseWithin
<1>5. InFlightWithin'
  BY <1>2 DEF AheadInv, InFlightWithin
<1>6. PendingFresh'
  BY <1>2 DEF AheadInv, PendingFresh
<1> QED  BY <1>3, <1>4, <1>5, <1>6 DEF AheadInv

\* Calls hand over with nothing read yet.
LEMMA BlankBase ==
    /\ Idle.base = EmptyGraph /\ Idle.pc = "idle" /\ Idle.event = NoEvent
    /\ \A e : LET c == [Idle EXCEPT !.pc = "read", !.event = e] IN
              c.base = EmptyGraph /\ c.pc = "read" /\ c.event = e
BY DEF Idle

LEMMA AfterPersistShape ==
    ASSUME NEW p \in Proc
    PROVE  LET d == AfterPersist(p) IN
           /\ d.base = EmptyGraph
           /\ d.pc \in {"idle", "read"}
           /\ d.event.kind # "task-created"
<1>1. NoEvent.kind # "task-created"
  BY DEF NoEvent
<1>2. \A t, to, a : Moved(t, to, a).kind # "task-created"
  BY DEF Moved
<1> QED  BY <1>1, <1>2, BlankBase DEF AfterPersist

LEMMA AheadSubmit ==
    ASSUME AheadInv, TypeInv', NEW p \in Proc, NEW e \in Event, Submit(p, e),
           e.kind = "task-created" =>
             /\ ~Exists(replay, e.task)
             /\ \A q \in Proc : proc[q].event.kind = "task-created" =>
                                  proc[q].event.task # e.task
    PROVE  AheadInv'
<1> DEFINE d == [Idle EXCEPT !.pc = "read", !.event = e]
<1>1. d \in ProcState /\ d.base = EmptyGraph /\ d.pc = "read" /\ d.event = e
  BY SubmittedType, BlankBase
<1>2. proc' = [proc EXCEPT ![p] = d] /\ UNCHANGED <<replay, torn, disk>>
  BY DEF Submit
<1>3. NeverAhead'
  BY <1>2 DEF AheadInv, NeverAhead
<1> HIDE DEF d
<1> QED  BY <1>1, <1>2, <1>3, EmptyWithin, AheadStep

LEMMA AheadBeginMove ==
    ASSUME AheadInv, TypeInv', NEW p \in Proc, NEW t \in Task, NEW to \in Status,
           NEW a \in Actor, NEW r \in Ref \cup {NoRef}, BeginMove(p, t, to, a, r)
    PROVE  AheadInv'
<1>1. CASE r = NoRef
  <2>1. Moved(t, to, a).kind # "task-created"
    BY DEF Moved
  <2> QED  BY <1>1, <2>1, MovedType, AheadSubmit DEF BeginMove
<1>2. CASE r # NoRef
  <2> DEFINE d == [Idle EXCEPT !.pc = "evidence",
                               !.event = EvidenceAdded(t, r),
                               !.next = [to |-> to, actor |-> a, ref |-> r]]
  <2>1. proc' = [proc EXCEPT ![p] = d] /\ UNCHANGED <<replay, torn, disk>>
    BY <1>2 DEF BeginMove
  <2>2. d.base = EmptyGraph /\ d.pc = "evidence" /\ d.event.kind # "task-created"
    BY DEF Idle, EvidenceAdded
  <2>3. d \in ProcState
    BY <2>1 DEF TypeInv, TypeOK, AheadInv
  <2>4. NeverAhead'
    BY <2>1 DEF AheadInv, NeverAhead
  <2> HIDE DEF d
  <2> QED  BY <2>1, <2>2, <2>3, <2>4, EmptyWithin, AheadStep
<1> QED  BY <1>1, <1>2

LEMMA AheadBegin ==
    ASSUME AheadInv, TypeInv', NEW p \in Proc, Begin(p)
    PROVE  AheadInv'
<1>1. ASSUME NEW g \in Goal, CreateGoal(p, g)
      PROVE  AheadInv'
  <2>1. GoalCreated(g) \in Event /\ GoalCreated(g).kind # "task-created"
    BY DEF Event, GoalEvent, GoalCreated
  <2> QED  BY <1>1, <2>1, AheadSubmit DEF CreateGoal
<1>2. ASSUME NEW t \in Task, NEW k \in Key, NEW o \in Owner, CreateTask(p, t, k, o)
      PROVE  AheadInv'
  <2> DEFINE e == TaskCreated(t, k, o)
  <2>1. e \in Event /\ e.task = t
    BY DEF Event, CreateEvent, TaskCreated
  <2>2. ASSUME NEW q \in Proc, proc[q].event.kind = "task-created"
        PROVE  proc[q].event.task # t
    <3>1. proc[q].event \in Event
      BY <2>2 DEF AheadInv, TypeInv, TypeOK, ProcState, NoEvent
    <3>2. proc[q].event \in CreateEvent
      BY <2>2, <3>1 DEF Event, GoalEvent, GoalCreated, MoveEvent, Moved,
                        EvidenceEvent, EvidenceAdded, OwnerEvent, OwnerReassigned
    <3>3. PICK u \in Task, l \in Key, w \in Owner : proc[q].event = TaskCreated(u, l, w)
      BY <3>2 DEF CreateEvent
    <3>4. u # t
      BY <1>2, <3>3 DEF CreateTask, Fresh
    <3> QED  BY <3>3, <3>4 DEF TaskCreated
  <2>3. ~Exists(replay, t) /\ Submit(p, e)
    BY <1>2 DEF CreateTask, Fresh
  <2> HIDE DEF e
  <2> QED  BY <2>1, <2>2, <2>3, AheadSubmit
<1>3. ASSUME NEW t \in Task, NEW to \in Status, NEW a \in Actor, NEW r \in Ref \cup {NoRef},
             MoveTask(p, t, to, a, r) \/ MoveTaskAsVerifier(p, t, to, a, r)
      PROVE  AheadInv'
  BY <1>3, AheadBeginMove DEF MoveTask, MoveTaskAsVerifier
<1>4. ASSUME NEW t \in Task, NEW r \in Ref, AddEvidence(p, t, r)
      PROVE  AheadInv'
  <2>1. EvidenceAdded(t, r) \in Event /\ EvidenceAdded(t, r).kind # "task-created"
    BY DEF Event, EvidenceEvent, EvidenceAdded
  <2> QED  BY <1>4, <2>1, AheadSubmit DEF AddEvidence
<1>5. ASSUME NEW t \in Task, NEW o \in Owner,
             ReassignOwner(p, t, o) \/ ReassignOwnerAsVerifier(p, t, o)
      PROVE  AheadInv'
  <2>1. OwnerReassigned(t, o) \in Event /\ OwnerReassigned(t, o).kind # "task-created"
    BY DEF Event, OwnerEvent, OwnerReassigned
  <2> QED  BY <1>5, <2>1, AheadSubmit
             DEF ReassignOwner, ReassignOwnerAsVerifier, BeginReassign
<1> QED  BY <1>1, <1>2, <1>3, <1>4, <1>5 DEF Begin

\* The ledger grows by the event of p; what the others hold stays within it.
LEMMA AheadAppendLine ==
    ASSUME AheadInv, TypeInv', NEW p \in Proc, AppendLine(p)
    PROVE  AheadInv' /\ Within(replay, replay')
<1> DEFINE e == proc[p].event
<1>1. /\ replay \in Snapshot
      /\ proc \in [Proc -> ProcState]
      /\ e \in Event
      /\ replay' = ApplyEvent(replay, e)
      /\ proc[p].pc = "append"
      /\ proc' = [proc EXCEPT ![p].pc = "truncate"]
  BY DEF AheadInv, TypeInv, TypeOK, CallOK, CallFits, AppendLine
<1>2. \A q \in Proc : /\ proc'[q].base = proc[q].base /\ proc'[q].event = proc[q].event
                      /\ proc'[q].pc = IF q = p THEN "truncate" ELSE proc[q].pc
  BY <1>1 DEF ProcState
<1>3. Within(replay, replay')
  BY <1>1, ApplyEventGrows DEF AheadInv, PendingFresh
<1>4. NeverAhead'
  BY <1>3, WithinTransitive DEF AheadInv, NeverAhead, AppendLine
<1>5. BaseWithin'
  BY <1>2, <1>3, WithinTransitive DEF AheadInv, BaseWithin
<1>6. InFlightWithin'
  <2> SUFFICES ASSUME NEW q \in Proc, proc'[q].pc \in {"truncate", "write"}
               PROVE  Within(ApplyEvent(proc[q].base, proc[q].event), replay')
    BY <1>2 DEF InFlightWithin
  <2>1. CASE q = p
    <3>1. proc[p].base \in Snapshot /\ Within(proc[p].base, replay)
      BY <1>1 DEF AheadInv, BaseWithin, ProcState
    <3> QED  BY <1>1, <2>1, <3>1, ApplyEventMonotone
  <2>2. CASE q # p
    <3>1. Within(ApplyEvent(proc[q].base, proc[q].event), replay)
      BY <1>2, <2>2 DEF AheadInv, InFlightWithin
    <3> QED  BY <1>3, <3>1, WithinTransitive
  <2> QED  BY <2>1, <2>2
<1>7. PendingFresh'
  <2> SUFFICES ASSUME NEW q \in Proc, q # p, proc[q].pc \in {"read", "append"},
                      proc[q].event.kind = "task-created"
               PROVE  ~Exists(replay', proc[q].event.task)
    BY <1>1, <1>2 DEF PendingFresh, AheadInv
  <2>1. /\ ~Exists(replay, proc[q].event.task)
        /\ e.kind = "task-created" => e.task # proc[q].event.task
    BY DEF AheadInv, PendingFresh
  <2>2. proc[q].event.task \in Task
    BY EventShape DEF AheadInv, TypeInv, CallOK, CallFits
  <2>3. replay'.tasks[proc[q].event.task] = replay.tasks[proc[q].event.task]
    <3>1. CASE e.kind = "goal-created"
      BY <1>1, <3>1 DEF ApplyEvent, Snapshot
    <3>2. CASE e.kind = "task-created"
      BY <1>1, <2>1, <2>2, <3>2, EventShape DEF ApplyEvent, Snapshot
    <3>3. CASE e.kind \in {"transition", "evidence-added", "owner-reassigned"}
      BY <1>1, <2>1, <2>2, <3>3, EventShape DEF ApplyEvent, Snapshot
    <3> QED  BY <1>1, <3>1, <3>2, <3>3, EventShape
  <2> QED  BY <2>1, <2>3 DEF Exists
<1> QED  BY <1>3, <1>4, <1>5, <1>6, <1>7 DEF AheadInv, AppendLine

\* A step that ends the call of p, or takes a move on to its transition.
LEMMA AheadAfterPersist ==
    ASSUME AheadInv, TypeInv', NEW p \in Proc, NEW d,
           d = Idle \/ d = AfterPersist(p),
           proc' = [proc EXCEPT ![p] = d], UNCHANGED <<replay, torn>>, NeverAhead'
    PROVE  AheadInv'
<1>1. d \in ProcState
  BY IdleType, AfterPersistType DEF AheadInv
<1>2. d.base = EmptyGraph /\ d.pc \in {"idle", "read"} /\ d.event.kind # "task-created"
  BY AfterPersistShape, BlankBase DEF NoEvent
<1> QED  BY <1>1, <1>2, EmptyWithin, AheadStep

LEMMA AheadContinue ==
    ASSUME AheadInv, TypeInv', "torn" \notin Fault, NEW p \in Proc, Continue(p)
    PROVE  AheadInv' /\ Within(replay, replay')
<1> DEFINE c == proc[p]
<1>0. /\ c \in ProcState /\ CallFits(c)
      /\ ReadGraph \in Snapshot /\ Within(ReadGraph, replay) /\ Within(c.base, replay)
  BY ReadGraphType, ReadGraphWithin
  DEF AheadInv, TypeInv, TypeOK, CallOK, BaseWithin
<1>1. Within(replay, replay)
  BY DEF Within
<1>2. CASE RecordMoveEvidence(p)
  <2> DEFINE task == ReadGraph.tasks[c.event.task]
             d == [c EXCEPT !.pc = "read",
                            !.seen = [task EXCEPT !.evidence = @ \cup {c.event.ref}]]
  <2>1. /\ proc' = [proc EXCEPT ![p] = IF Exists(ReadGraph, c.event.task) THEN d ELSE Idle]
        /\ UNCHANGED <<replay, torn, disk>>
    BY <1>2 DEF RecordMoveEvidence
  <2>2. NeverAhead'
    BY <2>1 DEF AheadInv, NeverAhead
  <2>3. CASE Exists(ReadGraph, c.event.task)
    <3>1. d.base = c.base /\ d.pc = "read" /\ d.event = c.event
      BY <1>0 DEF ProcState
    <3>2. d \in ProcState
      BY <2>1, <2>3 DEF AheadInv, TypeInv, TypeOK
    <3>3. d.event.kind # "task-created"
      BY <1>0, <1>2, <3>1, EvidenceShape DEF RecordMoveEvidence, CallFits
    <3> HIDE DEF d, c
    <3> QED  BY <1>0, <1>1, <2>1, <2>2, <2>3, <3>1, <3>2, <3>3, AheadStep
  <2>4. CASE ~Exists(ReadGraph, c.event.task)
    BY <1>1, <2>1, <2>2, <2>4, AheadAfterPersist
  <2> QED  BY <2>3, <2>4
<1>3. CASE ReadBase(p)
  <2> DEFINE d == [c EXCEPT !.pc = "append", !.base = ReadGraph]
  <2>1. /\ proc' = [proc EXCEPT ![p] = IF Dedupes(ReadGraph, c.event) THEN Idle ELSE d]
        /\ c.pc = "read"
        /\ UNCHANGED <<replay, torn, disk>>
    BY <1>3 DEF ReadBase
  <2>2. NeverAhead'
    BY <2>1 DEF AheadInv, NeverAhead
  <2>3. CASE ~Dedupes(ReadGraph, c.event)
    <3>1. d.base = ReadGraph /\ d.pc = "append" /\ d.event = c.event /\ d \in ProcState
      BY <1>0 DEF ProcState
    <3>2. d.event = proc[p].event /\ proc[p].pc = "read" /\ Within(d.base, replay)
      BY <1>0, <2>1, <3>1
    <3>3. proc' = [proc EXCEPT ![p] = d] /\ UNCHANGED <<replay, torn>>
      BY <2>1, <2>3
    <3> HIDE DEF d, c
    <3> QED  BY <1>1, <2>2, <3>1, <3>2, <3>3, AheadStep
  <2>4. CASE Dedupes(ReadGraph, c.event)
    BY <1>1, <2>1, <2>2, <2>4, AheadAfterPersist
  <2> QED  BY <2>3, <2>4
<1>4. CASE AppendLine(p)
  BY <1>4, AheadAppendLine
<1>5. CASE AppendFails(p)
  <2>1. proc' = [proc EXCEPT ![p] = AfterPersist(p)] /\ UNCHANGED <<replay, torn, disk>>
    BY <1>5 DEF AppendFails
  <2>2. NeverAhead'
    BY <2>1 DEF AheadInv, NeverAhead
  <2> QED  BY <1>1, <2>1, <2>2, AheadAfterPersist
<1>6. CASE TruncateSnapshot(p)
  <2> DEFINE d == [c EXCEPT !.pc = "write"]
  <2>1. /\ proc' = [proc EXCEPT ![p] = d] /\ c.pc = "truncate"
        /\ UNCHANGED <<replay, torn>> /\ disk' = Unreadable
    BY <1>0, <1>6 DEF TruncateSnapshot
  <2>2. NeverAhead'
    BY <2>1, EmptyWithin DEF NeverAhead, Unreadable
  <2>3. d.base = c.base /\ d.pc = "write" /\ d.event = c.event /\ d \in ProcState
    BY <1>0 DEF ProcState
  <2>4. Within(ApplyEvent(d.base, d.event), replay) /\ Within(d.base, replay)
    BY <1>0, <2>1, <2>3 DEF AheadInv, InFlightWithin
  <2> HIDE DEF d
  <2> QED  BY <1>1, <2>1, <2>2, <2>3, <2>4, AheadStep
<1>7. CASE WriteSnapshot(p)
  <2>1. /\ proc' = [proc EXCEPT ![p] = AfterPersist(p)] /\ UNCHANGED <<replay, torn>>
        /\ disk'.graph = ApplyEvent(c.base, c.event) /\ c.pc = "write"
    BY <1>7 DEF WriteSnapshot
  <2>2. NeverAhead'
    BY <2>1 DEF AheadInv, InFlightWithin, NeverAhead
  <2> QED  BY <1>1, <2>1, <2>2, AheadAfterPersist
<1>8. CASE WriteFails(p)
  <2>1. proc' = [proc EXCEPT ![p] = AfterPersist(p)] /\ UNCHANGED <<replay, torn, disk>>
    BY <1>8 DEF WriteFails
  <2>2. NeverAhead'
    BY <2>1 DEF AheadInv, NeverAhead
  <2> QED  BY <1>1, <2>1, <2>2, AheadAfterPersist
<1>9. CASE Crash(p)
  <2>1. proc' = [proc EXCEPT ![p] = Idle] /\ UNCHANGED <<replay, torn, disk>>
    BY <1>9 DEF Crash
  <2>2. NeverAhead'
    BY <2>1 DEF AheadInv, NeverAhead
  <2> QED  BY <1>1, <2>1, <2>2, AheadAfterPersist
<1> QED  BY <1>2, <1>3, <1>4, <1>5, <1>6, <1>7, <1>8, <1>9 DEF Continue

LEMMA AheadInit == Init => AheadInv
<1> SUFFICES ASSUME Init PROVE AheadInv
  OBVIOUS
<1>1. TypeInv
  BY TypeInit
<1>2. NeverAhead
  <2>1. CASE disk = [readable |-> TRUE, graph |-> replay]
    BY <2>1 DEF NeverAhead, Within
  <2>2. CASE disk = Unreadable
    BY <2>2, EmptyWithin DEF NeverAhead, Unreadable
  <2> QED  BY <2>1, <2>2 DEF Init
<1>3. \A p \in Proc : proc[p] = Idle
  BY DEF Init
<1> QED  BY <1>1, <1>2, <1>3, EmptyWithin, BlankBase
         DEF Init, AheadInv, BaseWithin, InFlightWithin, PendingFresh

LEMMA AheadNext ==
    ASSUME "torn" \notin Fault
    PROVE  AheadInv /\ [Next]_vars => AheadInv'
<1> SUFFICES ASSUME AheadInv, [Next]_vars PROVE AheadInv'
  OBVIOUS
<1>0. TypeInv'
  BY TypeNext DEF AheadInv
<1>1. CASE UNCHANGED vars
  BY <1>0, <1>1 DEF vars, AheadInv, NeverAhead, BaseWithin, InFlightWithin, PendingFresh
<1>2. ASSUME NEW p \in Proc, Begin(p) \/ Continue(p)
      PROVE  AheadInv'
  BY <1>0, <1>2, AheadBegin, AheadContinue
<1> QED  BY <1>1, <1>2 DEF Next

\* However many processes share the files, and whether appends or snapshot
\* writes fail or processes die between two of them, graph.json never claims
\* a goal, a task or a piece of evidence the ledger does not have, as long as
\* an append that fails leaves nothing behind.
THEOREM SnapshotNeverAhead ==
    ASSUME "torn" \notin Fault
    PROVE  Spec => []NeverAhead
<1>1. AheadInv => NeverAhead
  BY DEF AheadInv
<1>2. AheadInv /\ [Next]_vars => AheadInv'
  BY AheadNext
<1> QED  BY <1>1, <1>2, AheadInit, PTL DEF Spec

-----------------------------------------------------------------------------
(* Evidence behind 'verified' and 'closed' *)

LEMMA MoveBackedGrows ==
    ASSUME NEW c, NEW g, NEW h, CallFits(c), MoveBacked(c, g), Within(g, h)
    PROVE  MoveBacked(c, h)
<1> SUFFICES ASSUME c.pc \in {"read", "append"}, c.event.kind = "transition",
                    c.event.to \in EvidenceStatus
             PROVE  Exists(h, c.event.task) /\ h.tasks[c.event.task].evidence # {}
  BY DEF MoveBacked
<1>1. c.event.task \in Task
  BY EventShape DEF CallFits
<1>2. Exists(g, c.event.task) /\ g.tasks[c.event.task].evidence # {}
  BY DEF MoveBacked
<1> QED  BY <1>1, <1>2 DEF Within

LEMMA SeenFitsGrows ==
    ASSUME NEW c, NEW g, NEW h, CallFits(c), SeenFits(c, g), Within(g, h)
    PROVE  SeenFits(c, h)
<1> SUFFICES ASSUME c.next # NoMove, c.pc # "evidence"
             PROVE  SeenFits(c, h)
  BY DEF SeenFits
<1>1. c.event.task \in Task
  BY EvidenceShape DEF CallFits
<1> QED  BY <1>1 DEF SeenFits, Within

\* One process moves on to d, the ledger grows or stays.
LEMMA BackedStep ==
    ASSUME BackedInv, AheadInv', NEW p \in Proc, NEW d,
           proc' = [proc EXCEPT ![p] = d],
           Within(replay, replay'), EvidenceBacked',
           MoveBacked(d, replay'), SeenFits(d, replay')
    PROVE  BackedInv'
<1>1. proc \in [Proc -> ProcState]
  BY DEF BackedInv, AheadInv, TypeInv, TypeOK
<1>2. \A q \in Proc : proc'[q] = IF q = p THEN d ELSE proc[q]
  BY <1>1
<1>3. PendingBacked'
  BY <1>2, MoveBackedGrows DEF BackedInv, AheadInv, TypeInv, CallOK, PendingBacked
<1>4. SeenBacked'
  BY <1>2, SeenFitsGrows DEF BackedInv, AheadInv, TypeInv, CallOK, SeenBacked
<1> QED  BY <1>3, <1>4 DEF BackedInv

LEMMA IdleBacked == \A g : MoveBacked(Idle, g) /\ SeenFits(Idle, g)
BY DEF Idle, MoveBacked, SeenFits

\* A call enters appendEvent with a transition that is backed, or with some
\* other event.
LEMMA EntersBacked ==
    ASSUME NEW e, NEW g,
           e.kind = "transition" /\ e.to \in EvidenceStatus =>
             Exists(g, e.task) /\ g.tasks[e.task].evidence # {}
    PROVE  LET d == [Idle EXCEPT !.pc = "read", !.event = e] IN
           MoveBacked(d, g) /\ SeenFits(d, g)
BY DEF Idle, MoveBacked, SeenFits

LEMMA BackedSubmit ==
    ASSUME BackedInv, AheadInv', NEW p \in Proc, NEW e, Submit(p, e),
           e.kind = "transition" /\ e.to \in EvidenceStatus =>
             Exists(replay, e.task) /\ replay.tasks[e.task].evidence # {}
    PROVE  BackedInv'
<1> DEFINE d == [Idle EXCEPT !.pc = "read", !.event = e]
<1>1. proc' = [proc EXCEPT ![p] = d] /\ replay' = replay
  BY DEF Submit
<1>2. Within(replay, replay') /\ EvidenceBacked'
  BY <1>1 DEF Within, BackedInv, EvidenceBacked
<1>3. MoveBacked(d, replay') /\ SeenFits(d, replay')
  BY <1>1, EntersBacked
<1> HIDE DEF d
<1> QED  BY <1>1, <1>2, <1>3, BackedStep

LEMMA BackedBeginMove ==
    ASSUME BackedInv, AheadInv', NEW p \in Proc, NEW t \in Task, NEW to \in Status,
           NEW a \in Actor, NEW r \in Ref \cup {NoRef}, BeginMove(p, t, to, a, r)
    PROVE  BackedInv'
<1>1. CASE r = NoRef
  <2>1. Submit(p, Moved(t, to, a))
    BY <1>1 DEF BeginMove
  <2>2. ASSUME to \in EvidenceStatus
        PROVE  Exists(replay, t) /\ replay.tasks[t].evidence # {}
    <3>1. Exists(ReadGraph, t) /\ ReadGraph.tasks[t].evidence # {}
      BY <1>1, <2>2 DEF BeginMove, CanTransition, MayMove
    <3>2. Within(ReadGraph, replay)
      BY ReadGraphWithin DEF BackedInv, AheadInv
    <3> QED  BY <3>1, <3>2 DEF Within
  <2>3. Moved(t, to, a).task = t /\ Moved(t, to, a).to = to
    BY DEF Moved
  <2> QED  BY <2>1, <2>2, <2>3, BackedSubmit
<1>2. CASE r # NoRef
  <2> DEFINE d == [Idle EXCEPT !.pc = "evidence",
                               !.event = EvidenceAdded(t, r),
                               !.next = [to |-> to, actor |-> a, ref |-> r]]
  <2>1. proc' = [proc EXCEPT ![p] = d] /\ replay' = replay
    BY <1>2 DEF BeginMove
  <2>2. Within(replay, replay') /\ EvidenceBacked'
    BY <2>1 DEF Within, BackedInv, EvidenceBacked
  <2>3. MoveBacked(d, replay') /\ SeenFits(d, replay')
    BY DEF Idle, MoveBacked, SeenFits
  <2> HIDE DEF d
  <2> QED  BY <2>1, <2>2, <2>3, BackedStep
<1> QED  BY <1>1, <1>2

LEMMA BackedBegin ==
    ASSUME BackedInv, AheadInv', NEW p \in Proc, Begin(p)
    PROVE  BackedInv'
<1>1. ASSUME NEW g \in Goal, CreateGoal(p, g)
      PROVE  BackedInv'
  <2>1. GoalCreated(g).kind # "transition"
    BY DEF GoalCreated
  <2> QED  BY <1>1, <2>1, BackedSubmit DEF CreateGoal
<1>2. ASSUME NEW t \in Task, NEW k \in Key, NEW o \in Owner, CreateTask(p, t, k, o)
      PROVE  BackedInv'
  <2>1. TaskCreated(t, k, o).kind # "transition"
    BY DEF TaskCreated
  <2> QED  BY <1>2, <2>1, BackedSubmit DEF CreateTask
<1>3. ASSUME NEW t \in Task, NEW to \in Status, NEW a \in Actor, NEW r \in Ref \cup {NoRef},
             MoveTask(p, t, to, a, r) \/ MoveTaskAsVerifier(p, t, to, a, r)
      PROVE  BackedInv'
  BY <1>3, BackedBeginMove DEF MoveTask, MoveTaskAsVerifier
<1>4. ASSUME NEW t \in Task, NEW r \in Ref, AddEvidence(p, t, r)
      PROVE  BackedInv'
  <2>1. EvidenceAdded(t, r).kind # "transition"
    BY DEF EvidenceAdded
  <2> QED  BY <1>4, <2>1, BackedSubmit DEF AddEvidence
<1>5. ASSUME NEW t \in Task, NEW o \in Owner,
             ReassignOwner(p, t, o) \/ ReassignOwnerAsVerifier(p, t, o)
      PROVE  BackedInv'
  <2>1. OwnerReassigned(t, o).kind # "transition"
    BY DEF OwnerReassigned
  <2> QED  BY <1>5, <2>1, BackedSubmit
             DEF ReassignOwner, ReassignOwnerAsVerifier, BeginReassign
<1> QED  BY <1>1, <1>2, <1>3, <1>4, <1>5 DEF Begin

\* Once its evidence is in the ledger, what a move goes on to is backed.
LEMMA BackedAfterPersist ==
    ASSUME BackedInv, NEW p \in Proc, proc[p].pc \in {"truncate", "write"}
    PROVE  MoveBacked(AfterPersist(p), replay) /\ SeenFits(AfterPersist(p), replay)
<1> DEFINE c == proc[p]
<1>1. CASE c.next # NoMove /\ CanTransition(c.seen, c.next.to, c.next.actor, c.next.ref)
  <2> DEFINE e == Moved(c.event.task, c.next.to, c.next.actor)
  <2>1. e.task = c.event.task /\ e.to = c.next.to
    BY DEF Moved
  <2>2. /\ Exists(replay, c.event.task)
        /\ c.seen.evidence \subseteq replay.tasks[c.event.task].evidence
    BY <1>1 DEF BackedInv, SeenBacked, SeenFits
  <2>3. c.next.to \in EvidenceStatus => c.seen.evidence # {}
    BY <1>1 DEF CanTransition, MayMove
  <2>4. AfterPersist(p) = [Idle EXCEPT !.pc = "read", !.event = e]
    BY <1>1 DEF AfterPersist
  <2>5. e.to \in EvidenceStatus =>
          Exists(replay, e.task) /\ replay.tasks[e.task].evidence # {}
    BY <2>1, <2>2, <2>3
  <2> HIDE DEF e, c
  <2>6. LET d == [Idle EXCEPT !.pc = "read", !.event = e] IN
        MoveBacked(d, replay) /\ SeenFits(d, replay)
    BY <2>5, EntersBacked
  <2> QED  BY <2>4, <2>6
<1>2. CASE ~(c.next # NoMove /\ CanTransition(c.seen, c.next.to, c.next.actor, c.next.ref))
  BY <1>2, IdleBacked DEF AfterPersist
<1> QED  BY <1>1, <1>2

\* Folding a backed event into a ledger whose tasks are backed leaves them so.
LEMMA ApplyEventBacked ==
    ASSUME NEW s \in Snapshot, NEW e \in Event, ValidSnapshot(s),
           e.kind = "transition" /\ e.to \in EvidenceStatus =>
             Exists(s, e.task) /\ s.tasks[e.task].evidence # {}
    PROVE  ValidSnapshot(ApplyEvent(s, e))
<1>1. CASE e.kind = "goal-created"
  BY <1>1, EventShape DEF ApplyEvent, Snapshot, ValidSnapshot
<1>2. CASE e.kind = "task-created"
  BY <1>2, EventShape DEF ApplyEvent, Snapshot, ValidSnapshot, NewTask, EvidenceStatus
<1>3. CASE /\ e.kind \in {"transition", "evidence-added", "owner-reassigned"}
           /\ ~Exists(s, e.task)
  BY <1>3 DEF ApplyEvent
<1>4. CASE /\ e.kind \in {"transition", "evidence-added", "owner-reassigned"}
           /\ Exists(s, e.task)
  <2>1. e.task \in Task /\ s.tasks[e.task] \in TaskRecord
    BY <1>4, EventShape, TaskOfSnapshot
  <2>2. CASE e.kind = "transition"
    BY <1>4, <2>1, <2>2 DEF ApplyEvent, Snapshot, ValidSnapshot, TaskRecord
  <2>3. CASE e.kind = "evidence-added"
    BY <1>4, <2>1, <2>3 DEF ApplyEvent, Snapshot, ValidSnapshot, TaskRecord
  <2>4. CASE e.kind = "owner-reassigned"
    BY <1>4, <2>1, <2>4 DEF ApplyEvent, Snapshot, ValidSnapshot, TaskRecord
  <2> QED  BY <1>4, <2>2, <2>3, <2>4
<1> QED  BY <1>1, <1>2, <1>3, <1>4, EventShape

LEMMA BackedContinue ==
    ASSUME BackedInv, AheadInv', Fault \cap {"append", "torn"} = {},
           NEW p \in Proc, Continue(p)
    PROVE  BackedInv'
<1> DEFINE c == proc[p]
<1>0. /\ c \in ProcState /\ CallFits(c)
      /\ ReadGraph \in Snapshot /\ Within(ReadGraph, replay)
      /\ MoveBacked(c, replay) /\ SeenFits(c, replay)
  BY ReadGraphType, ReadGraphWithin
  DEF BackedInv, AheadInv, TypeInv, TypeOK, CallOK, PendingBacked, SeenBacked
<1>1. Within(replay, replay')
  <2>1. "torn" \notin Fault /\ AheadInv /\ TypeInv'
    BY DEF BackedInv, AheadInv
  <2> QED  BY <2>1, AheadContinue
<1>2. ASSUME NEW d, proc' = [proc EXCEPT ![p] = d], replay' = replay,
             MoveBacked(d, replay), SeenFits(d, replay)
      PROVE  BackedInv'
  <2>1. EvidenceBacked'
    BY <1>2 DEF BackedInv, EvidenceBacked
  <2> QED  BY <1>1, <1>2, <2>1, BackedStep
<1>3. CASE RecordMoveEvidence(p)
  <2> DEFINE task == ReadGraph.tasks[c.event.task]
             d == [c EXCEPT !.pc = "read",
                            !.seen = [task EXCEPT !.evidence = @ \cup {c.event.ref}]]
  <2>1. /\ proc' = [proc EXCEPT ![p] = IF Exists(ReadGraph, c.event.task) THEN d ELSE Idle]
        /\ replay' = replay /\ c.pc = "evidence"
    BY <1>3 DEF RecordMoveEvidence
  <2>2. CASE Exists(ReadGraph, c.event.task)
    <3>1. c.event \in EvidenceEvent
      BY <1>0, <2>1 DEF CallFits
    <3>2. task \in TaskRecord
      BY <1>0, <2>2, <3>1, EvidenceShape, TaskOfSnapshot
    <3>3. d.event = c.event /\ d.pc = "read" /\ d.seen.evidence = task.evidence \cup {c.event.ref}
      BY <1>0, <3>2 DEF ProcState, TaskRecord
    <3>4. Exists(replay, c.event.task) /\ task.evidence \subseteq replay.tasks[c.event.task].evidence
      BY <1>0, <2>2, <3>1, EvidenceShape DEF Within
    <3>5. MoveBacked(d, replay) /\ SeenFits(d, replay)
      <4> HIDE DEF d, task
      <4> QED  BY <3>1, <3>3, <3>4, EvidenceShape DEF MoveBacked, SeenFits
    <3> QED  BY <1>2, <2>1, <2>2, <3>5
  <2>3. CASE ~Exists(ReadGraph, c.event.task)
    BY <1>2, <2>1, <2>3, IdleBacked
  <2> QED  BY <2>2, <2>3
<1>4. CASE ReadBase(p)
  <2> DEFINE d == [c EXCEPT !.pc = "append", !.base = ReadGraph]
  <2>1. /\ proc' = [proc EXCEPT ![p] = IF Dedupes(ReadGraph, c.event) THEN Idle ELSE d]
        /\ replay' = replay /\ c.pc = "read"
    BY <1>4 DEF ReadBase
  <2>2. d.event = c.event /\ d.pc = "append" /\ d.seen = c.seen /\ d.next = c.next
    BY <1>0 DEF ProcState
  <2>3. MoveBacked(d, replay) /\ SeenFits(d, replay)
    BY <1>0, <2>1, <2>2 DEF MoveBacked, SeenFits
  <2> QED  BY <1>2, <2>1, <2>3, IdleBacked
<1>5. CASE AppendLine(p)
  <2> DEFINE d == [c EXCEPT !.pc = "truncate"]
  <2>1. /\ c.pc = "append" /\ proc' = [proc EXCEPT ![p] = d]
        /\ c.event \in Event /\ replay \in Snapshot
        /\ replay' = ApplyEvent(replay, c.event)
    BY <1>0, <1>5 DEF AppendLine, CallFits, BackedInv, AheadInv, TypeInv, TypeOK
  <2>2. EvidenceBacked'
    BY <1>0, <2>1, ApplyEventBacked DEF BackedInv, EvidenceBacked, MoveBacked
  <2>3. d.event = c.event /\ d.pc = "truncate" /\ d.seen = c.seen /\ d.next = c.next
    BY <1>0 DEF ProcState
  <2>4. MoveBacked(d, replay')
    BY <2>3 DEF MoveBacked
  <2>5. SeenFits(d, replay')
    <3> SUFFICES ASSUME c.next # NoMove
                 PROVE  /\ Exists(replay', c.event.task)
                        /\ c.seen.evidence \subseteq replay'.tasks[c.event.task].evidence
      BY <2>3 DEF SeenFits
    <3>1. c.event \in EvidenceEvent
      BY <1>0 DEF CallFits
    <3>2. /\ Exists(replay, c.event.task)
          /\ c.seen.evidence \subseteq replay.tasks[c.event.task].evidence \cup {c.event.ref}
      BY <1>0, <2>1 DEF SeenFits
    <3>3. replay'.tasks[c.event.task].evidence =
            replay.tasks[c.event.task].evidence \cup {c.event.ref}
      <4>1. replay.tasks[c.event.task] \in TaskRecord
        BY <2>1, <3>1, <3>2, EvidenceShape, TaskOfSnapshot
      <4> QED  BY <2>1, <3>1, <3>2, <4>1, EvidenceShape DEF ApplyEvent, Snapshot, TaskRecord
    <3>4. Exists(replay', c.event.task)
      BY <1>1, <3>1, <3>2, EvidenceShape DEF Within
    <3> QED  BY <3>2, <3>3, <3>4
  <2> HIDE DEF d
  <2> QED  BY <1>1, <2>1, <2>2, <2>4, <2>5, BackedStep
<1>6. CASE AppendFails(p)
  BY <1>6 DEF AppendFails
<1>7. CASE TruncateSnapshot(p)
  <2> DEFINE d == [c EXCEPT !.pc = "write"]
  <2>1. c.pc = "truncate" /\ proc' = [proc EXCEPT ![p] = d] /\ replay' = replay
    BY <1>0, <1>7 DEF TruncateSnapshot
  <2>2. d.event = c.event /\ d.pc = "write" /\ d.seen = c.seen /\ d.next = c.next
    BY <1>0 DEF ProcState
  <2>3. MoveBacked(d, replay) /\ SeenFits(d, replay)
    BY <1>0, <2>1, <2>2 DEF MoveBacked, SeenFits
  <2> QED  BY <1>2, <2>1, <2>3
<1>8. CASE WriteSnapshot(p)
  BY <1>2, <1>8, BackedAfterPersist DEF WriteSnapshot
<1>9. CASE WriteFails(p)
  BY <1>2, <1>9, BackedAfterPersist DEF WriteFails
<1>10. CASE Crash(p)
  BY <1>2, <1>10, IdleBacked DEF Crash
<1> QED  BY <1>3, <1>4, <1>5, <1>6, <1>7, <1>8, <1>9, <1>10 DEF Continue

LEMMA BackedInit == Init => BackedInv
<1> SUFFICES ASSUME Init PROVE BackedInv
  OBVIOUS
<1>1. AheadInv
  BY AheadInit
<1>2. EvidenceBacked
  BY ExecGraphAssumption DEF Init, EvidenceBacked
<1>3. PendingBacked /\ SeenBacked
  BY IdleBacked DEF Init, PendingBacked, SeenBacked
<1> QED  BY <1>1, <1>2, <1>3 DEF BackedInv

LEMMA BackedNext ==
    ASSUME Fault \cap {"append", "torn"} = {}
    PROVE  BackedInv /\ [Next]_vars => BackedInv'
<1> SUFFICES ASSUME BackedInv, [Next]_vars PROVE BackedInv'
  OBVIOUS
<1>0. AheadInv'
  BY AheadNext DEF BackedInv
<1>1. CASE UNCHANGED vars
  BY <1>0, <1>1 DEF vars, BackedInv, EvidenceBacked, PendingBacked, SeenBacked
<1>2. ASSUME NEW p \in Proc, Begin(p) \/ Continue(p)
      PROVE  BackedInv'
  BY <1>0, <1>2, BackedBegin, BackedContinue
<1> QED  BY <1>1, <1>2 DEF Next

\* However many processes move tasks at once, and although each checks for
\* evidence on a graph it read before it appends, the ledger never puts a
\* task without evidence in 'verified' or 'closed', as long as appends do
\* not fail.
THEOREM EvidenceAlwaysBacked ==
    ASSUME Fault \cap {"append", "torn"} = {}
    PROVE  Spec => []EvidenceBacked
<1>1. BackedInv => EvidenceBacked
  BY DEF BackedInv
<1>2. BackedInv /\ [Next]_vars => BackedInv'
  BY BackedNext
<1> QED  BY <1>1, <1>2, BackedInit, PTL DEF Spec
-----------------------------------------------------------------------------
(* Calls one at a time: the readers' graph and the history *)

\* No two calls overlap, whoever makes them.
Serial == \A p, q \in Proc : proc[p].pc # "idle" /\ proc[q].pc # "idle" => p = q

OthersIdle(p) == \A q \in Proc : q # p => proc[q].pc = "idle"

\* A call is cut off between its append and the truncation of the snapshot:
\* the one point at which an older graph stays behind that readers accept.
LeavesOldSnapshot == \E p \in Proc : proc[p].pc = "truncate" /\ (Crash(p) \/ WriteFails(p))

\* Whoever makes a step of a call is the only one in a call.
LEMMA OnlyOneAtWork ==
    ASSUME TypeOK, Serial, Serial', NEW p \in Proc, Begin(p) \/ Continue(p)
    PROVE  OthersIdle(p)
<1>1. CASE Continue(p)
  <2>1. proc[p].pc # "idle"
    BY <1>1 DEF Continue, RecordMoveEvidence, ReadBase, AppendLine, AppendFails,
                TruncateSnapshot, WriteSnapshot, WriteFails, Crash
  <2> QED BY <2>1 DEF Serial, OthersIdle
<1>2. CASE Begin(p)
  <2>1. \E d : proc' = [proc EXCEPT ![p] = d] /\ d.pc # "idle"
    <3>1. ASSUME NEW e, Submit(p, e)
          PROVE  \E d : proc' = [proc EXCEPT ![p] = d] /\ d.pc # "idle"
      <4> DEFINE d == [Idle EXCEPT !.pc = "read", !.event = e]
      <4>1. d.pc = "read"
        BY DEF Idle
      <4>2. proc' = [proc EXCEPT ![p] = d]
        BY <3>1 DEF Submit
      <4> HIDE DEF d
      <4> QED BY <4>1, <4>2
    <3>2. ASSUME NEW u, NEW to, NEW a, NEW r, BeginMove(p, u, to, a, r)
          PROVE  \E d : proc' = [proc EXCEPT ![p] = d] /\ d.pc # "idle"
      <4> DEFINE d == [Idle EXCEPT !.pc = "evidence", !.event = EvidenceAdded(u, r),
                                   !.next = [to |-> to, actor |-> a, ref |-> r]]
      <4>1. d.pc = "evidence"
        BY DEF Idle
      <4>2. CASE r # NoRef
        <5>1. proc' = [proc EXCEPT ![p] = d]
          BY <3>2, <4>2 DEF BeginMove
        <5> HIDE DEF d
        <5> QED BY <4>1, <5>1
      <4>3. CASE r = NoRef
        <5>1. Submit(p, Moved(u, to, a))
          BY <3>2, <4>3 DEF BeginMove
        <5> QED BY <3>1, <5>1
      <4> QED BY <4>2, <4>3
    <3>3. CASE \E g \in Goal : CreateGoal(p, g)
      BY <3>1, <3>3 DEF CreateGoal
    <3>4. CASE \E u \in Task, k \in Key, o \in Owner : CreateTask(p, u, k, o)
      BY <3>1, <3>4 DEF CreateTask
    <3>5. CASE \E u \in Task, to \in Status, a \in Actor, r \in Ref \cup {NoRef} :
                 MoveTask(p, u, to, a, r) \/ MoveTaskAsVerifier(p, u, to, a, r)
      BY <3>2, <3>5 DEF MoveTask, MoveTaskAsVerifier
    <3>6. CASE \E u \in Task, r \in Ref : AddEvidence(p, u, r)
      BY <3>1, <3>6 DEF AddEvidence
    <3>7. CASE \E u \in Task, o \in Owner :
                 ReassignOwner(p, u, o) \/ ReassignOwnerAsVerifier(p, u, o)
      BY <3>1, <3>7 DEF ReassignOwner, ReassignOwnerAsVerifier, BeginReassign
    <3> QED BY <1>2, <3>3, <3>4, <3>5, <3>6, <3>7 DEF Begin
  <2>2. proc'[p].pc # "idle" /\ \A q \in Proc : q # p => proc'[q] = proc[q]
    BY <2>1 DEF TypeOK
  <2> QED BY <2>2 DEF Serial, OthersIdle
<1> QED BY <1>1, <1>2

\* Where the ledger g, the graph s that readers are served and the call c
\* stand to each other: they differ from a call's append until it empties the
\* snapshot, and then by its event.
InStep(c, g, s) ==
    /\ c.pc # "truncate" => s = g
    /\ c.pc = "append" => c.base = g
    /\ c.pc \in {"truncate", "write"} => g = ApplyEvent(c.base, c.event)

\* A transition on its way to the ledger g is an edge of the lifecycle there,
\* and a task on its way is new.
PendingLegal(c, g) ==
    c.pc \in {"read", "append"} =>
        /\ c.event.kind = "task-created" => ~Exists(g, c.event.task)
        /\ c.event.kind = "transition" =>
             /\ Exists(g, c.event.task)
             /\ LegalEdge(g.tasks[c.event.task].status, c.event.to, c.event.actor)

\* The status a move believes its task to have is the one it has.
SeenStatus(c, g) ==
    c.next # NoMove /\ c.pc # "evidence" =>
        Exists(g, c.event.task) /\ c.seen.status = g.tasks[c.event.task].status

Fits(c, g, s) == InStep(c, g, s) /\ PendingLegal(c, g) /\ SeenStatus(c, g)

SerialInv ==
    /\ TypeInv
    /\ ~torn
    /\ Coherent
    /\ \A p \in Proc : proc[p].pc # "idle" => Fits(proc[p], replay, ReadGraph)

LEMMA SerialStep ==
    ASSUME SerialInv, TypeInv', ~torn', NEW p \in Proc, OthersIdle(p), NEW d,
           proc' = [proc EXCEPT ![p] = d], Fits(d, replay', ReadGraph')
    PROVE  SerialInv'
<1>1. proc'[p] = d /\ \A q \in Proc : q # p => proc'[q].pc = "idle"
  BY DEF OthersIdle, SerialInv, TypeInv, TypeOK
<1>2. Coherent'
  BY <1>1 DEF Coherent, Fits, InStep
<1> QED  BY <1>1, <1>2 DEF SerialInv

LEMMA SubmitSerial ==
    ASSUME SerialInv, TypeInv', NEW p \in Proc, OthersIdle(p), NEW e, Free(p), Submit(p, e),
           e.kind = "task-created" => ~Exists(replay, e.task),
           e.kind = "transition" =>
             Exists(replay, e.task) /\ LegalEdge(replay.tasks[e.task].status, e.to, e.actor)
    PROVE  SerialInv'
<1> DEFINE d == [Idle EXCEPT !.pc = "read", !.event = e]
<1>1. d.pc = "read" /\ d.event = e /\ d.next = NoMove
  BY DEF Idle
<1>2. proc' = [proc EXCEPT ![p] = d] /\ replay' = replay /\ ReadGraph' = ReadGraph /\ torn' = torn
  BY DEF Submit, ReadGraph
<1>3. ReadGraph = replay
  BY DEF OthersIdle, Free, SerialInv, Coherent
<1>4. Fits(d, replay', ReadGraph')
  BY <1>1, <1>2, <1>3 DEF Fits, InStep, PendingLegal, SeenStatus
<1>5. ~torn'
  BY <1>2 DEF SerialInv
<1> HIDE DEF d
<1> QED  BY <1>2, <1>4, <1>5, SerialStep

LEMMA BeginMoveSerial ==
    ASSUME SerialInv, TypeInv', NEW p \in Proc, OthersIdle(p), NEW t \in Task, NEW to \in Status,
           NEW a \in Actor, NEW r \in Ref \cup {NoRef}, BeginMove(p, t, to, a, r)
    PROVE  SerialInv'
<1>0. ReadGraph = replay
  BY DEF OthersIdle, BeginMove, Free, SerialInv, Coherent
<1>1. CASE r = NoRef
  <2>1. /\ Moved(t, to, a).kind = "transition" /\ Moved(t, to, a).task = t
        /\ Moved(t, to, a).to = to /\ Moved(t, to, a).actor = a
    BY DEF Moved
  <2>2. Exists(replay, t) /\ LegalEdge(replay.tasks[t].status, to, a)
    BY <1>0, <1>1 DEF BeginMove, CanTransition, MayMove
  <2>3. Free(p) /\ Submit(p, Moved(t, to, a))
    BY <1>1 DEF BeginMove
  <2> QED  BY <2>1, <2>2, <2>3, SubmitSerial
<1>2. CASE r # NoRef
  <2> DEFINE d == [Idle EXCEPT !.pc = "evidence",
                               !.event = EvidenceAdded(t, r),
                               !.next = [to |-> to, actor |-> a, ref |-> r]]
  <2>1. proc' = [proc EXCEPT ![p] = d] /\ replay' = replay /\ ReadGraph' = ReadGraph /\ torn' = torn
    BY <1>2 DEF BeginMove, ReadGraph
  <2>2. d.pc = "evidence"
    BY DEF Idle
  <2>3. Fits(d, replay', ReadGraph')
    BY <1>0, <2>1, <2>2 DEF Fits, InStep, PendingLegal, SeenStatus
  <2>4. ~torn'
    BY <2>1 DEF SerialInv
  <2> HIDE DEF d
  <2> QED  BY <2>1, <2>3, <2>4, SerialStep
<1> QED  BY <1>1, <1>2

LEMMA BeginSerial ==
    ASSUME SerialInv, TypeInv', NEW p \in Proc, OthersIdle(p), Begin(p)
    PROVE  SerialInv'
<1>1. ASSUME NEW g \in Goal, CreateGoal(p, g)
      PROVE  SerialInv'
  <2>1. GoalCreated(g).kind = "goal-created"
    BY DEF GoalCreated
  <2> QED  BY <1>1, <2>1, SubmitSerial DEF CreateGoal
<1>2. ASSUME NEW t \in Task, NEW k \in Key, NEW o \in Owner, CreateTask(p, t, k, o)
      PROVE  SerialInv'
  <2>1. TaskCreated(t, k, o).kind = "task-created" /\ TaskCreated(t, k, o).task = t
    BY DEF TaskCreated
  <2> QED  BY <1>2, <2>1, SubmitSerial DEF CreateTask, Fresh
<1>3. ASSUME NEW t \in Task, NEW to \in Status, NEW a \in Actor, NEW r \in Ref \cup {NoRef},
             MoveTask(p, t, to, a, r) \/ MoveTaskAsVerifier(p, t, to, a, r)
      PROVE  SerialInv'
  BY <1>3, BeginMoveSerial DEF MoveTask, MoveTaskAsVerifier
<1>4. ASSUME NEW t \in Task, NEW r \in Ref, AddEvidence(p, t, r)
      PROVE  SerialInv'
  <2>1. EvidenceAdded(t, r).kind = "evidence-added"
    BY DEF EvidenceAdded
  <2> QED  BY <1>4, <2>1, SubmitSerial DEF AddEvidence
<1>5. ASSUME NEW t \in Task, NEW o \in Owner,
             ReassignOwner(p, t, o) \/ ReassignOwnerAsVerifier(p, t, o)
      PROVE  SerialInv'
  <2>1. OwnerReassigned(t, o).kind = "owner-reassigned"
    BY DEF OwnerReassigned
  <2> QED  BY <1>5, <2>1, SubmitSerial
             DEF ReassignOwner, ReassignOwnerAsVerifier, BeginReassign
<1> QED  BY <1>1, <1>2, <1>3, <1>4, <1>5 DEF Begin

\* What a call goes on to once its event is persisted, or has failed to be.
LEMMA AfterPersistSerial ==
    ASSUME SerialInv, NEW p \in Proc, proc[p].pc \notin {"idle", "evidence"}, NEW s, s = replay
    PROVE  Fits(AfterPersist(p), replay, s)
<1> DEFINE c == proc[p]
<1>1. CASE c.next # NoMove /\ CanTransition(c.seen, c.next.to, c.next.actor, c.next.ref)
  <2> DEFINE e == Moved(c.event.task, c.next.to, c.next.actor)
             d == [Idle EXCEPT !.pc = "read", !.event = e]
  <2>1. /\ e.kind = "transition" /\ e.task = c.event.task
        /\ e.to = c.next.to /\ e.actor = c.next.actor
    BY DEF Moved
  <2>2. Exists(replay, c.event.task) /\ c.seen.status = replay.tasks[c.event.task].status
    BY <1>1 DEF SerialInv, Fits, SeenStatus
  <2>3. LegalEdge(c.seen.status, c.next.to, c.next.actor)
    BY <1>1 DEF CanTransition, MayMove
  <2>4. AfterPersist(p) = d
    BY <1>1 DEF AfterPersist
  <2>5. d.pc = "read" /\ d.event = e /\ d.next = NoMove
    BY DEF Idle
  <2> HIDE DEF d, e
  <2> QED  BY <2>1, <2>2, <2>3, <2>4, <2>5 DEF Fits, InStep, PendingLegal, SeenStatus
<1>2. CASE ~(c.next # NoMove /\ CanTransition(c.seen, c.next.to, c.next.actor, c.next.ref))
  BY <1>2 DEF AfterPersist, Idle, Fits, InStep, PendingLegal, SeenStatus
<1> QED  BY <1>1, <1>2

\* Evidence does not change a task's status.
LEMMA EvidenceKeepsStatus ==
    ASSUME NEW s \in Snapshot, NEW e \in EvidenceEvent, Exists(s, e.task)
    PROVE  /\ Exists(ApplyEvent(s, e), e.task)
           /\ ApplyEvent(s, e).tasks[e.task].status = s.tasks[e.task].status
<1>1. e.kind = "evidence-added" /\ e.task \in Task
  BY EvidenceShape
<1>2. s.tasks[e.task] \in TaskRecord
  BY <1>1, TaskOfSnapshot
<1> QED  BY <1>1, <1>2 DEF ApplyEvent, Snapshot, Exists, TaskRecord

LEMMA ContinueSerial ==
    ASSUME "torn" \notin Fault, SerialInv, TypeInv', NEW p \in Proc, OthersIdle(p),
           Continue(p), ~LeavesOldSnapshot
    PROVE  SerialInv'
<1> DEFINE c == proc[p]
<1>a. c.pc # "idle"
  BY DEF Continue, RecordMoveEvidence, ReadBase, AppendLine, AppendFails, TruncateSnapshot,
         WriteSnapshot, WriteFails, Crash
<1>0. /\ c \in ProcState /\ CallFits(c) /\ replay \in Snapshot /\ ReadGraph \in Snapshot
      /\ Fits(c, replay, ReadGraph) /\ ~torn
  BY <1>a, ReadGraphType DEF SerialInv, TypeInv, TypeOK, CallOK
<1>1. ASSUME NEW d, proc' = [proc EXCEPT ![p] = d], UNCHANGED <<replay, torn, disk>>,
             Fits(d, replay, ReadGraph)
      PROVE  SerialInv'
  <2>1. replay' = replay /\ ReadGraph' = ReadGraph /\ ~torn'
    BY <1>0, <1>1 DEF ReadGraph
  <2> QED  BY <1>1, <2>1, SerialStep
<1>2. ASSUME ReadGraph = replay PROVE Fits(Idle, replay, ReadGraph)
  BY <1>2 DEF Idle, Fits, InStep, PendingLegal, SeenStatus
<1>3. CASE RecordMoveEvidence(p)
  <2> DEFINE task == ReadGraph.tasks[c.event.task]
             d == [c EXCEPT !.pc = "read",
                            !.seen = [task EXCEPT !.evidence = @ \cup {c.event.ref}]]
  <2>1. /\ proc' = [proc EXCEPT ![p] = IF Exists(ReadGraph, c.event.task) THEN d ELSE Idle]
        /\ UNCHANGED <<replay, torn, disk>> /\ c.pc = "evidence"
    BY <1>3 DEF RecordMoveEvidence
  <2>2. c.event \in EvidenceEvent /\ ReadGraph = replay
    BY <1>0, <2>1 DEF CallFits, Fits, InStep
  <2>3. CASE Exists(ReadGraph, c.event.task)
    <3>1. task \in TaskRecord
      BY <1>0, <2>2, <2>3, EvidenceShape, TaskOfSnapshot
    <3>2. d.pc = "read" /\ d.event = c.event /\ d.seen.status = task.status
      BY <1>0, <3>1 DEF ProcState, TaskRecord
    <3>3. c.event.kind = "evidence-added"
      BY <2>2, EvidenceShape
    <3> HIDE DEF d
    <3>4. Fits(d, replay, ReadGraph)
      BY <2>2, <2>3, <3>2, <3>3 DEF Fits, InStep, PendingLegal, SeenStatus
    <3> QED  BY <1>1, <2>1, <2>3, <3>4
  <2>4. CASE ~Exists(ReadGraph, c.event.task)
    BY <1>1, <1>2, <2>1, <2>2, <2>4
  <2> QED  BY <2>3, <2>4
<1>4. CASE ReadBase(p)
  <2> DEFINE d == [c EXCEPT !.pc = "append", !.base = ReadGraph]
  <2>1. /\ proc' = [proc EXCEPT ![p] = IF Dedupes(ReadGraph, c.event) THEN Idle ELSE d]
        /\ UNCHANGED <<replay, torn, disk>> /\ c.pc = "read"
    BY <1>4 DEF ReadBase
  <2>2. ReadGraph = replay
    BY <1>0, <2>1 DEF Fits, InStep
  <2>3. /\ d.pc = "append" /\ d.base = ReadGraph /\ d.event = c.event
        /\ d.next = c.next /\ d.seen = c.seen
    BY <1>0 DEF ProcState
  <2> HIDE DEF d
  <2>4. Fits(d, replay, ReadGraph)
    BY <1>0, <2>1, <2>2, <2>3 DEF Fits, InStep, PendingLegal, SeenStatus
  <2> QED  BY <1>1, <1>2, <2>1, <2>2, <2>4
<1>5. CASE AppendLine(p)
  <2> DEFINE d == [c EXCEPT !.pc = "truncate"]
  <2>1. /\ c.pc = "append" /\ proc' = [proc EXCEPT ![p] = d]
        /\ replay' = ApplyEvent(replay, c.event) /\ torn' = FALSE
    BY <1>0, <1>5 DEF AppendLine
  <2>2. d.pc = "truncate" /\ d.base = c.base /\ d.event = c.event /\ d.next = c.next /\ d.seen = c.seen
    BY <1>0 DEF ProcState
  <2>3. c.next # NoMove => /\ Exists(replay', c.event.task)
                           /\ c.seen.status = replay'.tasks[c.event.task].status
    <3> SUFFICES ASSUME c.next # NoMove
                 PROVE  /\ Exists(replay', c.event.task)
                        /\ c.seen.status = replay'.tasks[c.event.task].status
      OBVIOUS
    <3>1. c.event \in EvidenceEvent
      BY <1>0 DEF CallFits
    <3>2. Exists(replay, c.event.task) /\ c.seen.status = replay.tasks[c.event.task].status
      BY <1>0, <2>1 DEF Fits, SeenStatus
    <3> QED  BY <1>0, <2>1, <3>1, <3>2, EvidenceKeepsStatus
  <2>4. c.base = replay
    BY <1>0, <2>1 DEF Fits, InStep
  <2> HIDE DEF d
  <2>5. Fits(d, replay', ReadGraph')
    BY <2>1, <2>2, <2>3, <2>4 DEF Fits, InStep, PendingLegal, SeenStatus
  <2> QED  BY <2>1, <2>5, SerialStep
<1>6. CASE AppendFails(p)
  <2>1. /\ proc' = [proc EXCEPT ![p] = AfterPersist(p)] /\ UNCHANGED <<replay, torn, disk>>
        /\ c.pc = "append"
    BY <1>6 DEF AppendFails
  <2>2. ReadGraph = replay
    BY <1>0, <2>1 DEF Fits, InStep
  <2> QED  BY <1>1, <2>1, <2>2, AfterPersistSerial
<1>7. CASE TruncateSnapshot(p)
  <2> DEFINE d == [c EXCEPT !.pc = "write"]
  <2>1. /\ c.pc = "truncate" /\ proc' = [proc EXCEPT ![p] = d]
        /\ replay' = replay /\ torn' = torn /\ disk' = Unreadable
    BY <1>0, <1>7 DEF TruncateSnapshot
  <2>2. d.pc = "write" /\ d.base = c.base /\ d.event = c.event /\ d.next = c.next /\ d.seen = c.seen
    BY <1>0 DEF ProcState
  <2>3. ReadGraph' = replay'
    BY <2>1 DEF ReadGraph, Unreadable
  <2> HIDE DEF d
  <2>4. Fits(d, replay', ReadGraph')
    BY <1>0, <2>1, <2>2, <2>3 DEF Fits, InStep, PendingLegal, SeenStatus
  <2> QED  BY <1>0, <2>1, <2>4, SerialStep
<1>8. CASE WriteSnapshot(p)
  <2>1. /\ c.pc = "write" /\ proc' = [proc EXCEPT ![p] = AfterPersist(p)]
        /\ replay' = replay /\ torn' = torn
        /\ disk' = [readable |-> TRUE, graph |-> ApplyEvent(c.base, c.event)]
    BY <1>8 DEF WriteSnapshot
  <2>2. replay = ApplyEvent(c.base, c.event)
    BY <1>0, <2>1 DEF Fits, InStep
  <2>3. ReadGraph' = replay
    BY <2>1, <2>2 DEF ReadGraph
  <2>4. Fits(AfterPersist(p), replay, ReadGraph')
    BY <2>1, <2>3, AfterPersistSerial
  <2> QED  BY <1>0, <2>1, <2>4, SerialStep
<1>9. CASE WriteFails(p)
  <2>1. /\ proc' = [proc EXCEPT ![p] = AfterPersist(p)] /\ UNCHANGED <<replay, torn, disk>>
        /\ c.pc = "write"
    BY <1>9 DEF WriteFails, LeavesOldSnapshot
  <2>2. ReadGraph = replay
    BY <1>0, <2>1 DEF Fits, InStep
  <2> QED  BY <1>1, <2>1, <2>2, AfterPersistSerial
<1>10. CASE Crash(p)
  <2>1. proc' = [proc EXCEPT ![p] = Idle] /\ UNCHANGED <<replay, torn, disk>> /\ c.pc # "truncate"
    BY <1>10 DEF Crash, LeavesOldSnapshot
  <2>2. ReadGraph = replay
    BY <1>0, <2>1 DEF Fits, InStep
  <2> QED  BY <1>1, <1>2, <2>1, <2>2
<1> QED  BY <1>3, <1>4, <1>5, <1>6, <1>7, <1>8, <1>9, <1>10 DEF Continue

LEMMA SerialInit == Init => SerialInv
<1> SUFFICES ASSUME Init PROVE SerialInv
  OBVIOUS
<1>1. ReadGraph = replay
  <2>1. CASE disk = [readable |-> TRUE, graph |-> replay]
    BY <2>1 DEF ReadGraph
  <2>2. CASE disk = Unreadable
    BY <2>2 DEF ReadGraph, Unreadable
  <2> QED  BY <2>1, <2>2 DEF Init
<1>2. Fits(Idle, replay, ReadGraph)
  BY <1>1 DEF Idle, Fits, InStep, PendingLegal, SeenStatus
<1> QED  BY <1>1, <1>2, TypeInit DEF Init, SerialInv, Coherent

LEMMA SerialNext ==
    ASSUME "torn" \notin Fault, SerialInv, Serial, Serial', [Next]_vars,
           [~LeavesOldSnapshot]_vars
    PROVE  SerialInv'
<1>0. TypeInv'
  BY TypeNext DEF SerialInv
<1>1. CASE UNCHANGED vars
  BY <1>0, <1>1 DEF vars, SerialInv, ReadGraph, Coherent
<1>2. ASSUME NEW p \in Proc, Begin(p) \/ Continue(p)
      PROVE  SerialInv'
  <2>1. CASE UNCHANGED vars
    BY <1>1, <2>1
  <2>2. CASE ~LeavesOldSnapshot
    <3>1. OthersIdle(p)
      BY <1>2, OnlyOneAtWork DEF SerialInv, TypeInv
    <3> QED BY <1>0, <1>2, <2>2, <3>1, BeginSerial, ContinueSerial
  <2> QED BY <2>1, <2>2
<1> QED  BY <1>1, <1>2 DEF Next

\* While calls do not overlap, readers are served the fold of the ledger but
\* for the gap inside a write, though appends fail, snapshots are cut off and
\* processes die: anywhere but in the one gap that leaves an old snapshot.
THEOREM ReadersSeeTheLedger ==
    ASSUME "torn" \notin Fault
    PROVE  Spec /\ []Serial /\ [][~LeavesOldSnapshot]_vars => []Coherent
<1>1. SerialInv => Coherent
  BY DEF SerialInv
<1>2. SerialInv /\ Serial /\ Serial' /\ [Next]_vars /\ [~LeavesOldSnapshot]_vars => SerialInv'
  BY SerialNext
<1> QED  BY <1>1, <1>2, SerialInit, PTL DEF Spec

\* A line that changes the status of a task the ledger g has is a legal
\* transition of it.
LEMMA StatusChange ==
    ASSUME NEW g \in Snapshot, NEW e \in Event, NEW t \in Task,
           e.kind = "task-created" => ~Exists(g, e.task),
           ApplyEvent(g, e).tasks[t].status # g.tasks[t].status, Exists(g, t)
    PROVE  e.kind = "transition" /\ e.task = t /\ ApplyEvent(g, e).tasks[t].status = e.to
<1>1. g.tasks[t] \in TaskRecord
  BY TaskOfSnapshot
<1>2. CASE e.kind = "goal-created"
  BY <1>2 DEF ApplyEvent, Snapshot
<1>3. CASE e.kind = "task-created"
  BY <1>3, EventShape DEF ApplyEvent, Snapshot
<1>4. CASE /\ e.kind \in {"transition", "evidence-added", "owner-reassigned"}
           /\ ~Exists(g, e.task)
  BY <1>4 DEF ApplyEvent
<1>5. CASE e.kind = "transition" /\ Exists(g, e.task)
  BY <1>1, <1>5, EventShape DEF ApplyEvent, Snapshot, TaskRecord
<1>6. CASE e.kind = "evidence-added" /\ Exists(g, e.task)
  BY <1>1, <1>6, EventShape DEF ApplyEvent, Snapshot, TaskRecord
<1>7. CASE e.kind = "owner-reassigned" /\ Exists(g, e.task)
  BY <1>1, <1>7, EventShape DEF ApplyEvent, Snapshot, TaskRecord
<1> QED  BY <1>2, <1>3, <1>4, <1>5, <1>6, <1>7, EventShape

\* Only a line of the ledger changes what the ledger says.
LEMMA ReplayChanges ==
    ASSUME NEW p \in Proc, Begin(p) \/ Continue(p), replay' # replay
    PROVE  AppendLine(p)
<1>1. Begin(p) => replay' = replay
  <2>1. \A e : Submit(p, e) => replay' = replay
    BY DEF Submit
  <2>2. \A t, to, a, r : BeginMove(p, t, to, a, r) => replay' = replay
    BY <2>1 DEF BeginMove
  <2> QED  BY <2>1, <2>2 DEF Begin, CreateGoal, CreateTask, MoveTask, MoveTaskAsVerifier,
             AddEvidence, ReassignOwner, ReassignOwnerAsVerifier, BeginReassign
<1>2. Continue(p) => AppendLine(p)
  BY DEF Continue, RecordMoveEvidence, ReadBase, AppendFails, TruncateSnapshot,
         WriteSnapshot, WriteFails, Crash
<1> QED  BY <1>1, <1>2

\* Under the same conditions each transition in the ledger starts from the
\* status the ledger had and is one its actor may make, although it was
\* checked on a graph read earlier than the append.
THEOREM HistoryIsLegal ==
    ASSUME "torn" \notin Fault
    PROVE  Spec /\ []Serial /\ [][~LeavesOldSnapshot]_vars => LegalHistory
<1> DEFINE Legal(t) ==
      LET old == replay.tasks[t].status
          new == replay'.tasks[t].status IN
      old # new /\ old # "absent" =>
        \E p \in Proc : /\ AppendLine(p)
                        /\ proc[p].event.kind = "transition"
                        /\ LegalEdge(old, new, proc[p].event.actor)
<1>1. ASSUME SerialInv, Next, NEW t \in Task
      PROVE  Legal(t)
  <2> SUFFICES ASSUME replay.tasks[t].status # replay'.tasks[t].status, Exists(replay, t)
               PROVE  \E p \in Proc :
                        /\ AppendLine(p)
                        /\ proc[p].event.kind = "transition"
                        /\ LegalEdge(replay.tasks[t].status, replay'.tasks[t].status,
                                     proc[p].event.actor)
    BY DEF Exists
  <2>1. PICK p \in Proc : Begin(p) \/ Continue(p)
    BY <1>1 DEF Next
  <2>2. AppendLine(p)
    BY <2>1, ReplayChanges
  <2> DEFINE e == proc[p].event
  <2>3. /\ replay \in Snapshot /\ e \in Event /\ proc[p].pc = "append"
        /\ replay' = ApplyEvent(replay, e)
    BY <1>1, <2>2 DEF SerialInv, TypeInv, TypeOK, CallOK, CallFits, AppendLine
  <2>4. /\ e.kind = "task-created" => ~Exists(replay, e.task)
        /\ e.kind = "transition" => LegalEdge(replay.tasks[e.task].status, e.to, e.actor)
    BY <1>1, <2>3 DEF SerialInv, Fits, PendingLegal
  <2>5. e.kind = "transition" /\ e.task = t /\ replay'.tasks[t].status = e.to
    BY <2>3, <2>4, StatusChange
  <2> QED  BY <2>2, <2>4, <2>5
<1>2. SerialInv /\ [Next]_vars => [\A t \in Task : Legal(t)]_vars
  BY <1>1
<1>3. SerialInv /\ Serial /\ Serial' /\ [Next]_vars /\ [~LeavesOldSnapshot]_vars => SerialInv'
  BY SerialNext
<1> QED  BY <1>2, <1>3, SerialInit, PTL DEF Spec, LegalHistory

-----------------------------------------------------------------------------
(* Calls one at a time: one task for a key *)

\* Every task of g is in s, with its key.
Covers(s, g) ==
    \A t \in Task : Exists(g, t) => Exists(s, t) /\ s.tasks[t].key = g.tasks[t].key

Unique(g) ==
    \A t, u \in Task :
        Exists(g, t) /\ Exists(g, u) /\ g.tasks[t].key = g.tasks[u].key => t = u

\* What readers are served, and what a call has read or will write, covers the
\* ledger, though a line may be lost to it; and what passed the dedupe is new.
KeyFits(c, g, s) ==
    /\ c.pc # "truncate" => Covers(s, g)
    /\ c.pc = "append" => Covers(c.base, g) /\ ~Dedupes(c.base, c.event)
    /\ c.pc \in {"truncate", "write"} => Covers(ApplyEvent(c.base, c.event), g)
    /\ c.pc \in {"read", "append"} /\ c.event.kind = "task-created" =>
         ~Exists(g, c.event.task)

KeyInv ==
    /\ TypeInv
    /\ UniqueKeys
    /\ (\A p \in Proc : proc[p].pc = "idle") => Covers(ReadGraph, replay)
    /\ \A p \in Proc : proc[p].pc # "idle" => KeyFits(proc[p], replay, ReadGraph)

\* The tasks and keys of s are those e leaves.
KeyOf(s, e) ==
    \A t \in Task : /\ Exists(ApplyEvent(s, e), t) <=> Exists(s, t)
                    /\ Exists(s, t) => ApplyEvent(s, e).tasks[t].key = s.tasks[t].key

LEMMA KeysStay ==
    ASSUME NEW s \in Snapshot, NEW e \in Event,
           e.kind \in {"transition", "evidence-added", "owner-reassigned"}
    PROVE  KeyOf(s, e)
<1>1. CASE ~Exists(s, e.task)
  BY <1>1 DEF ApplyEvent, KeyOf
<1>2. CASE Exists(s, e.task)
  <2>1. /\ e.task \in Task /\ s.tasks[e.task] \in TaskRecord
        /\ e.kind = "transition" => e.to # "absent"
    BY <1>2, EventShape, TaskOfSnapshot DEF Status
  <2>2. CASE e.kind = "transition"
    BY <1>2, <2>1, <2>2 DEF ApplyEvent, Snapshot, Exists, TaskRecord, KeyOf
  <2>3. CASE e.kind = "evidence-added"
    BY <1>2, <2>1, <2>3 DEF ApplyEvent, Snapshot, Exists, TaskRecord, KeyOf
  <2>4. CASE e.kind = "owner-reassigned"
    BY <1>2, <2>1, <2>4 DEF ApplyEvent, Snapshot, Exists, TaskRecord, KeyOf
  <2> QED  BY <2>2, <2>3, <2>4
<1> QED  BY <1>1, <1>2

\* Folding the same event into both keeps the one covering the other.
LEMMA CoversBoth ==
    ASSUME NEW s \in Snapshot, NEW g \in Snapshot, NEW e \in Event, Covers(s, g)
    PROVE  Covers(ApplyEvent(s, e), ApplyEvent(g, e))
<1>1. CASE e.kind = "goal-created"
  BY <1>1 DEF ApplyEvent, Snapshot, Covers, Exists
<1>2. CASE e.kind = "task-created"
  BY <1>2, EventShape DEF ApplyEvent, Snapshot, Covers, Exists, NewTask
<1>3. CASE e.kind \in {"transition", "evidence-added", "owner-reassigned"}
  <2>1. KeyOf(s, e) /\ KeyOf(g, e)
    BY <1>3, KeysStay
  <2> QED  BY <2>1 DEF Covers, KeyOf
<1> QED  BY <1>1, <1>2, <1>3, EventShape

\* Folding an event into the larger one keeps it covering the other.
LEMMA CoversMore ==
    ASSUME NEW s \in Snapshot, NEW g \in Snapshot, NEW e \in Event, Covers(s, g),
           e.kind = "task-created" => ~Exists(g, e.task)
    PROVE  Covers(ApplyEvent(s, e), g)
<1>1. CASE e.kind = "goal-created"
  BY <1>1 DEF ApplyEvent, Snapshot, Covers, Exists
<1>2. CASE e.kind = "task-created"
  BY <1>2, EventShape DEF ApplyEvent, Snapshot, Covers, Exists, NewTask
<1>3. CASE e.kind \in {"transition", "evidence-added", "owner-reassigned"}
  BY <1>3, KeysStay DEF Covers, KeyOf
<1> QED  BY <1>1, <1>2, <1>3, EventShape

\* A new task with a key that nobody has leaves the keys unique.
LEMMA UniqueApplied ==
    ASSUME NEW g \in Snapshot, NEW e \in Event, Unique(g),
           e.kind = "task-created" =>
             \A t \in Task : Exists(g, t) => g.tasks[t].key # e.key
    PROVE  Unique(ApplyEvent(g, e))
<1>1. CASE e.kind = "goal-created"
  BY <1>1 DEF ApplyEvent, Snapshot, Unique, Exists
<1>2. CASE e.kind = "task-created"
  <2>1. \A t \in Task : ApplyEvent(g, e).tasks[t] =
                          IF t = e.task THEN NewTask(e.key, e.owner) ELSE g.tasks[t]
    BY <1>2 DEF ApplyEvent, Snapshot
  <2>2. NewTask(e.key, e.owner).key = e.key
    BY DEF NewTask
  <2> QED  BY <1>2, <2>1, <2>2 DEF Unique, Exists
<1>3. CASE e.kind \in {"transition", "evidence-added", "owner-reassigned"}
  BY <1>3, KeysStay DEF Unique, KeyOf
<1> QED  BY <1>1, <1>2, <1>3, EventShape
LEMMA KeyStep ==
    ASSUME KeyInv, TypeInv', UniqueKeys', NEW p \in Proc, OthersIdle(p), NEW d,
           proc' = [proc EXCEPT ![p] = d], KeyFits(d, replay', ReadGraph')
    PROVE  KeyInv'
<1>1. proc'[p] = d /\ \A q \in Proc : q # p => proc'[q].pc = "idle"
  BY DEF OthersIdle, KeyInv, TypeInv, TypeOK
<1>2. (\A q \in Proc : proc'[q].pc = "idle") => Covers(ReadGraph', replay')
  BY <1>1 DEF KeyFits
<1>3. Covers(ReadGraph, replay)' = Covers(ReadGraph', replay')
  BY DEF Covers, Exists
<1> QED  BY <1>1, <1>2, <1>3 DEF KeyInv

\* A step that leaves the files alone.
LEMMA KeyFilesStay ==
    ASSUME KeyInv, TypeInv', NEW p \in Proc, OthersIdle(p), NEW d,
           proc' = [proc EXCEPT ![p] = d], UNCHANGED <<replay, disk>>,
           KeyFits(d, replay, ReadGraph)
    PROVE  KeyInv'
<1>1. replay' = replay /\ ReadGraph' = ReadGraph
  BY DEF ReadGraph
<1>2. UniqueKeys'
  BY <1>1 DEF KeyInv, UniqueKeys
<1> QED  BY <1>1, <1>2, KeyStep

\* What a call is given to go on with that is no creation.
LEMMA KeyFitsOther ==
    ASSUME NEW d, NEW g, NEW s, d.pc \in {"idle", "evidence", "read"}, Covers(s, g),
           d.event.kind # "task-created" \/ ~Exists(g, d.event.task)
    PROVE  KeyFits(d, g, s)
BY DEF KeyFits

LEMMA KeySubmit ==
    ASSUME KeyInv, TypeInv', NEW p \in Proc, OthersIdle(p), NEW e, Free(p), Submit(p, e),
           e.kind = "task-created" => ~Exists(replay, e.task)
    PROVE  KeyInv'
<1> DEFINE d == [Idle EXCEPT !.pc = "read", !.event = e]
<1>1. d.pc = "read" /\ d.event = e
  BY DEF Idle
<1>2. proc' = [proc EXCEPT ![p] = d] /\ UNCHANGED <<replay, disk>>
  BY DEF Submit
<1>3. Covers(ReadGraph, replay)
  BY DEF OthersIdle, Free, KeyInv
<1> HIDE DEF d
<1>4. KeyFits(d, replay, ReadGraph)
  BY <1>1, <1>3, KeyFitsOther
<1> QED  BY <1>2, <1>4, KeyFilesStay

LEMMA KeyBeginMove ==
    ASSUME KeyInv, TypeInv', NEW p \in Proc, OthersIdle(p), NEW t \in Task, NEW to \in Status,
           NEW a \in Actor, NEW r \in Ref \cup {NoRef}, BeginMove(p, t, to, a, r)
    PROVE  KeyInv'
<1>1. CASE r = NoRef
  <2>1. Moved(t, to, a).kind = "transition"
    BY DEF Moved
  <2> QED  BY <1>1, <2>1, KeySubmit DEF BeginMove
<1>2. CASE r # NoRef
  <2> DEFINE d == [Idle EXCEPT !.pc = "evidence",
                               !.event = EvidenceAdded(t, r),
                               !.next = [to |-> to, actor |-> a, ref |-> r]]
  <2>1. proc' = [proc EXCEPT ![p] = d] /\ UNCHANGED <<replay, disk>>
    BY <1>2 DEF BeginMove
  <2>2. d.pc = "evidence" /\ d.event.kind = "evidence-added"
    BY DEF Idle, EvidenceAdded
  <2>3. Covers(ReadGraph, replay)
    BY DEF OthersIdle, BeginMove, Free, KeyInv
  <2> HIDE DEF d
  <2>4. KeyFits(d, replay, ReadGraph)
    BY <2>2, <2>3, KeyFitsOther
  <2> QED  BY <2>1, <2>4, KeyFilesStay
<1> QED  BY <1>1, <1>2

LEMMA KeyBegin ==
    ASSUME KeyInv, TypeInv', NEW p \in Proc, OthersIdle(p), Begin(p)
    PROVE  KeyInv'
<1>1. ASSUME NEW g \in Goal, CreateGoal(p, g)
      PROVE  KeyInv'
  <2>1. GoalCreated(g).kind = "goal-created"
    BY DEF GoalCreated
  <2> QED  BY <1>1, <2>1, KeySubmit DEF CreateGoal
<1>2. ASSUME NEW t \in Task, NEW k \in Key, NEW o \in Owner, CreateTask(p, t, k, o)
      PROVE  KeyInv'
  <2>1. TaskCreated(t, k, o).task = t
    BY DEF TaskCreated
  <2> QED  BY <1>2, <2>1, KeySubmit DEF CreateTask, Fresh
<1>3. ASSUME NEW t \in Task, NEW to \in Status, NEW a \in Actor, NEW r \in Ref \cup {NoRef},
             MoveTask(p, t, to, a, r) \/ MoveTaskAsVerifier(p, t, to, a, r)
      PROVE  KeyInv'
  BY <1>3, KeyBeginMove DEF MoveTask, MoveTaskAsVerifier
<1>4. ASSUME NEW t \in Task, NEW r \in Ref, AddEvidence(p, t, r)
      PROVE  KeyInv'
  <2>1. EvidenceAdded(t, r).kind = "evidence-added"
    BY DEF EvidenceAdded
  <2> QED  BY <1>4, <2>1, KeySubmit DEF AddEvidence
<1>5. ASSUME NEW t \in Task, NEW o \in Owner,
             ReassignOwner(p, t, o) \/ ReassignOwnerAsVerifier(p, t, o)
      PROVE  KeyInv'
  <2>1. OwnerReassigned(t, o).kind = "owner-reassigned"
    BY DEF OwnerReassigned
  <2> QED  BY <1>5, <2>1, KeySubmit
             DEF ReassignOwner, ReassignOwnerAsVerifier, BeginReassign
<1> QED  BY <1>1, <1>2, <1>3, <1>4, <1>5 DEF Begin

LEMMA KeyContinue ==
    ASSUME KeyInv, TypeInv', NEW p \in Proc, OthersIdle(p), Continue(p), ~LeavesOldSnapshot
    PROVE  KeyInv'
<1> DEFINE c == proc[p]
<1>a. c.pc # "idle"
  BY DEF Continue, RecordMoveEvidence, ReadBase, AppendLine, AppendFails, TruncateSnapshot,
         WriteSnapshot, WriteFails, Crash
<1>0. /\ c \in ProcState /\ CallFits(c) /\ replay \in Snapshot /\ ReadGraph \in Snapshot
      /\ KeyFits(c, replay, ReadGraph)
  BY <1>a, ReadGraphType DEF KeyInv, TypeInv, TypeOK, CallOK
<1>1. ASSUME NEW d, d = Idle \/ d = AfterPersist(p), Covers(ReadGraph, replay),
             proc' = [proc EXCEPT ![p] = d], UNCHANGED <<replay, disk>>
      PROVE  KeyInv'
  <2>1. d.pc \in {"idle", "read"} /\ d.event.kind # "task-created"
    BY <1>1, AfterPersistShape, BlankBase DEF NoEvent
  <2>2. KeyFits(d, replay, ReadGraph)
    BY <1>1, <2>1, KeyFitsOther
  <2> QED  BY <1>1, <2>2, KeyFilesStay
<1>3. CASE RecordMoveEvidence(p)
  <2> DEFINE task == ReadGraph.tasks[c.event.task]
             d == [c EXCEPT !.pc = "read",
                            !.seen = [task EXCEPT !.evidence = @ \cup {c.event.ref}]]
  <2>1. /\ proc' = [proc EXCEPT ![p] = IF Exists(ReadGraph, c.event.task) THEN d ELSE Idle]
        /\ UNCHANGED <<replay, disk>> /\ c.pc = "evidence"
    BY <1>3 DEF RecordMoveEvidence
  <2>2. Covers(ReadGraph, replay)
    BY <1>0, <2>1 DEF KeyFits
  <2>3. CASE Exists(ReadGraph, c.event.task)
    <3>1. d.pc = "read" /\ d.event = c.event
      BY <1>0 DEF ProcState
    <3>2. c.event.kind = "evidence-added"
      BY <1>0, <2>1, EvidenceShape DEF CallFits
    <3>3. proc' = [proc EXCEPT ![p] = d]
      BY <2>1, <2>3
    <3> HIDE DEF d
    <3>4. KeyFits(d, replay, ReadGraph)
      BY <2>2, <3>1, <3>2, KeyFitsOther
    <3> QED  BY <2>1, <3>3, <3>4, KeyFilesStay
  <2>4. CASE ~Exists(ReadGraph, c.event.task)
    BY <1>1, <2>1, <2>2, <2>4
  <2> QED  BY <2>3, <2>4
<1>4. CASE ReadBase(p)
  <2> DEFINE d == [c EXCEPT !.pc = "append", !.base = ReadGraph]
  <2>1. /\ proc' = [proc EXCEPT ![p] = IF Dedupes(ReadGraph, c.event) THEN Idle ELSE d]
        /\ UNCHANGED <<replay, disk>> /\ c.pc = "read"
    BY <1>4 DEF ReadBase
  <2>2. Covers(ReadGraph, replay)
    BY <1>0, <2>1 DEF KeyFits
  <2>3. d.pc = "append" /\ d.base = ReadGraph /\ d.event = c.event
    BY <1>0 DEF ProcState
  <2> HIDE DEF d
  <2>4. CASE ~Dedupes(ReadGraph, c.event)
    <3>1. KeyFits(d, replay, ReadGraph)
      BY <1>0, <2>1, <2>2, <2>3, <2>4 DEF KeyFits
    <3> QED  BY <2>1, <2>4, <3>1, KeyFilesStay
  <2>5. CASE Dedupes(ReadGraph, c.event)
    BY <1>1, <2>1, <2>2, <2>5
  <2> QED  BY <2>4, <2>5
<1>5. CASE AppendLine(p)
  <2> DEFINE d == [c EXCEPT !.pc = "truncate"]
  <2>1. /\ c.pc = "append" /\ proc' = [proc EXCEPT ![p] = d]
        /\ replay' = IF torn THEN replay ELSE ApplyEvent(replay, c.event)
    BY <1>0, <1>5 DEF AppendLine
  <2>2. d.pc = "truncate" /\ d.base = c.base /\ d.event = c.event
    BY <1>0 DEF ProcState
  <2>3. /\ c.event \in Event /\ c.base \in Snapshot
        /\ Covers(c.base, replay) /\ ~Dedupes(c.base, c.event)
        /\ c.event.kind = "task-created" => ~Exists(replay, c.event.task)
    BY <1>0, <2>1 DEF KeyFits, CallFits, ProcState
  <2>4. Covers(ApplyEvent(c.base, c.event), replay')
    BY <1>0, <2>1, <2>3, CoversBoth, CoversMore
  <2>5. Unique(replay')
    <3>1. Unique(replay)
      BY DEF KeyInv, UniqueKeys, Unique
    <3>2. c.event.kind = "task-created" =>
            \A t \in Task : Exists(replay, t) => replay.tasks[t].key # c.event.key
      BY <2>3 DEF Covers, Dedupes
    <3> QED  BY <1>0, <2>1, <2>3, <3>1, <3>2, UniqueApplied
  <2>6. UniqueKeys'
    BY <2>5 DEF Unique, UniqueKeys
  <2> HIDE DEF d
  <2>7. KeyFits(d, replay', ReadGraph')
    BY <2>2, <2>4 DEF KeyFits
  <2> QED  BY <2>1, <2>6, <2>7, KeyStep
<1>6. CASE AppendFails(p)
  <2>1. /\ proc' = [proc EXCEPT ![p] = AfterPersist(p)] /\ UNCHANGED <<replay, disk>>
        /\ c.pc = "append"
    BY <1>6 DEF AppendFails
  <2>2. Covers(ReadGraph, replay)
    BY <1>0, <2>1 DEF KeyFits
  <2> QED  BY <1>1, <2>1, <2>2
<1>7. CASE TruncateSnapshot(p)
  <2> DEFINE d == [c EXCEPT !.pc = "write"]
  <2>1. /\ c.pc = "truncate" /\ proc' = [proc EXCEPT ![p] = d]
        /\ replay' = replay /\ disk' = Unreadable
    BY <1>0, <1>7 DEF TruncateSnapshot
  <2>2. d.pc = "write" /\ d.base = c.base /\ d.event = c.event
    BY <1>0 DEF ProcState
  <2>3. ReadGraph' = replay
    BY <2>1 DEF ReadGraph, Unreadable
  <2> HIDE DEF d
  <2>4. KeyFits(d, replay', ReadGraph')
    BY <1>0, <2>1, <2>2, <2>3 DEF KeyFits, Covers
  <2>5. UniqueKeys'
    BY <2>1 DEF KeyInv, UniqueKeys
  <2> QED  BY <2>1, <2>4, <2>5, KeyStep
<1>8. CASE WriteSnapshot(p)
  <2>1. /\ c.pc = "write" /\ proc' = [proc EXCEPT ![p] = AfterPersist(p)]
        /\ replay' = replay
        /\ disk' = [readable |-> TRUE, graph |-> ApplyEvent(c.base, c.event)]
    BY <1>8 DEF WriteSnapshot
  <2>2. Covers(ReadGraph', replay)
    BY <1>0, <2>1 DEF ReadGraph, KeyFits, Covers
  <2>3. AfterPersist(p).pc \in {"idle", "read"} /\ AfterPersist(p).event.kind # "task-created"
    BY AfterPersistShape
  <2>4. KeyFits(AfterPersist(p), replay, ReadGraph')
    BY <2>2, <2>3, KeyFitsOther
  <2>5. UniqueKeys'
    BY <2>1 DEF KeyInv, UniqueKeys
  <2> QED  BY <2>1, <2>4, <2>5, KeyStep
<1>9. CASE WriteFails(p)
  <2>1. /\ proc' = [proc EXCEPT ![p] = AfterPersist(p)] /\ UNCHANGED <<replay, disk>>
        /\ c.pc = "write"
    BY <1>9 DEF WriteFails, LeavesOldSnapshot
  <2>2. Covers(ReadGraph, replay)
    BY <1>0, <2>1 DEF KeyFits
  <2> QED  BY <1>1, <2>1, <2>2
<1>10. CASE Crash(p)
  <2>1. proc' = [proc EXCEPT ![p] = Idle] /\ UNCHANGED <<replay, disk>> /\ c.pc # "truncate"
    BY <1>10 DEF Crash, LeavesOldSnapshot
  <2>2. Covers(ReadGraph, replay)
    BY <1>0, <2>1 DEF KeyFits
  <2> QED  BY <1>1, <2>1, <2>2
<1> QED  BY <1>3, <1>4, <1>5, <1>6, <1>7, <1>8, <1>9, <1>10 DEF Continue

LEMMA KeyInit == Init => KeyInv
<1> SUFFICES ASSUME Init PROVE KeyInv
  OBVIOUS
<1>1. Covers(ReadGraph, replay)
  <2>1. CASE disk = [readable |-> TRUE, graph |-> replay]
    BY <2>1 DEF ReadGraph, Covers
  <2>2. CASE disk = Unreadable
    BY <2>2 DEF ReadGraph, Unreadable, Covers
  <2> QED  BY <2>1, <2>2 DEF Init
<1>2. UniqueKeys
  BY ExecGraphAssumption DEF Init, UniqueKeys
<1>3. KeyFits(Idle, replay, ReadGraph)
  BY <1>1, BlankBase, KeyFitsOther DEF NoEvent
<1> QED  BY <1>1, <1>2, <1>3, TypeInit DEF Init, KeyInv

LEMMA KeyNext ==
    ASSUME KeyInv, Serial, Serial', [Next]_vars, [~LeavesOldSnapshot]_vars
    PROVE  KeyInv'
<1>0. TypeInv'
  BY TypeNext DEF KeyInv
<1>1. CASE UNCHANGED vars
  BY <1>0, <1>1 DEF vars, KeyInv, ReadGraph, UniqueKeys
<1>2. ASSUME NEW p \in Proc, Begin(p) \/ Continue(p)
      PROVE  KeyInv'
  <2>1. CASE UNCHANGED vars
    BY <1>1, <2>1
  <2>2. CASE ~LeavesOldSnapshot
    <3>1. OthersIdle(p)
      BY <1>2, OnlyOneAtWork DEF KeyInv, TypeInv
    <3> QED BY <1>0, <1>2, <2>2, <3>1, KeyBegin, KeyContinue
  <2> QED BY <2>1, <2>2
<1> QED  BY <1>1, <1>2 DEF Next

\* While calls do not overlap, no two tasks carry one key, though lines of the
\* ledger are lost or run together, snapshots are cut off and processes die
\* (anywhere but in that gap): what the dedupe looks at always covers the
\* ledger.
THEOREM KeysAreUnique == Spec /\ []Serial /\ [][~LeavesOldSnapshot]_vars => []UniqueKeys
<1>1. KeyInv => UniqueKeys
  BY DEF KeyInv
<1>2. KeyInv /\ Serial /\ Serial' /\ [Next]_vars /\ [~LeavesOldSnapshot]_vars => KeyInv'
  BY KeyNext
<1> QED  BY <1>1, <1>2, KeyInit, PTL DEF Spec

-----------------------------------------------------------------------------
(* Calls one at a time: ExecGraph implements TaskGraph *)

\* What a line that is appended rests on: where its call stands to the ledger
\* (SerialInv), that its key is new there (KeyInv), and, unless appends fail,
\* that the evidence it asks for is there (BackedInv).
WholeInv ==
    /\ SerialInv
    /\ KeyInv
    /\ Fault \cap {"append", "torn"} = {} => BackedInv

\* What calls are about to append are events.
LEMMA AskedType == TypeInv => Asked \subseteq Event
BY DEF TypeInv, CallOK, CallFits, Asked

LEMMA AskedTypeNext == TypeInv' => Asked' \subseteq Event
BY DEF TypeInv, CallOK, CallFits, Asked

\* A step that leaves the ledger alone is one of the graph's.
LEMMA AttendSuffices ==
    ASSUME replay' = replay, ReadGraph' \in {ReadGraph, replay}, Asked' \subseteq Event
    PROVE  Whole!GraphNext
<1>1. Event = Whole!Event
  BY DEF Event, GoalEvent, CreateEvent, MoveEvent, EvidenceEvent, OwnerEvent,
         GoalCreated, TaskCreated, Moved, EvidenceAdded, OwnerReassigned, Status,
         Whole!Event, Whole!GoalEvent, Whole!CreateEvent, Whole!MoveEvent,
         Whole!EvidenceEvent, Whole!OwnerEvent, Whole!GoalCreated, Whole!TaskCreated,
         Whole!Moved, Whole!EvidenceAdded, Whole!OwnerReassigned, Whole!Status
<1>2. Whole!Attend
  BY <1>1 DEF Whole!Attend
<1> QED BY <1>2 DEF Whole!GraphNext

\* The line is written on top of what readers see, and what they see is then
\* still that, or has the line; no other call is about to write one.
LEMMA AppendBecomes ==
    ASSUME WholeInv, NEW p \in Proc, OthersIdle(p), AppendLine(p)
    PROVE  /\ Whole!Becomes(proc[p].event, ApplyEvent(replay, proc[p].event))
           /\ replay \in Snapshot /\ proc[p].event \in Event
<1>1. /\ proc[p].pc = "append" /\ disk' = disk
      /\ replay' = ApplyEvent(replay, proc[p].event)
  BY DEF AppendLine, WholeInv, SerialInv
<1>2. ReadGraph = replay
  BY <1>1 DEF WholeInv, SerialInv, Fits, InStep
<1>3. ReadGraph' \in {ReadGraph, replay'}
  BY <1>1 DEF ReadGraph
<1>4. replay \in Snapshot /\ proc[p].event \in Event
  BY <1>1 DEF WholeInv, SerialInv, TypeInv, TypeOK, CallOK, CallFits
<1>5. Asked = {proc[p].event}
  BY <1>1 DEF OthersIdle, Asked
<1>6. Asked' = {}
  <2>1. proc' = [proc EXCEPT ![p].pc = "truncate"] /\ proc \in [Proc -> ProcState]
    BY DEF AppendLine, WholeInv, SerialInv, TypeInv, TypeOK
  <2>2. \A q \in Proc : proc'[q].pc \notin {"read", "append"}
    BY <2>1 DEF OthersIdle, ProcState
  <2> QED BY <2>2 DEF Asked
<1> QED BY <1>1, <1>2, <1>3, <1>4, <1>5, <1>6 DEF Whole!Becomes

\* The line does what one operation of the graph does.
LEMMA AppendIsOperation ==
    ASSUME WholeInv, NEW p \in Proc, OthersIdle(p), AppendLine(p)
    PROVE  Whole!GraphNext
<1> DEFINE e == proc[p].event
<1>1. Whole!Becomes(e, ApplyEvent(replay, e)) /\ replay \in Snapshot /\ e \in Event
  BY AppendBecomes
<1>2. proc[p].pc = "append" /\ proc[p].base = replay
  BY DEF AppendLine, WholeInv, SerialInv, Fits, InStep
<1>3. ~Dedupes(replay, e)
  BY <1>2 DEF WholeInv, KeyInv, KeyFits
<1>4. PendingLegal(proc[p], replay)
  BY <1>2 DEF WholeInv, SerialInv, Fits
<1>5. Whole!Becomes(e, replay) => Whole!GraphNext
  <2> SUFFICES ASSUME Whole!Becomes(e, replay) PROVE Whole!GraphNext
    OBVIOUS
  <2>1. Asked \subseteq Event
    BY AskedType DEF WholeInv, SerialInv
  <2>2. replay' = replay /\ ReadGraph' \in {ReadGraph, replay} /\ Asked' \subseteq Event
    BY <2>1 DEF Whole!Becomes
  <2> QED BY <2>2, AttendSuffices
<1>6. \A t : Whole!Known(t) <=> Exists(replay, t)
  BY DEF Whole!Known, Exists
<1>7. CASE e \in GoalEvent
  <2>1. e.kind = "goal-created" /\ e.goal \in Goal /\ e = Whole!GoalCreated(e.goal)
    BY <1>7 DEF GoalEvent, GoalCreated, Whole!GoalCreated
  <2>2. e.goal \notin replay.goals
    BY <1>3, <2>1 DEF Dedupes
  <2>3. ApplyEvent(replay, e) = [replay EXCEPT !.goals = @ \cup {e.goal}]
    BY <2>1 DEF ApplyEvent
  <2>4. Whole!AddGoal(e.goal)
    BY <1>1, <2>1, <2>2, <2>3 DEF Whole!AddGoal
  <2> QED BY <2>1, <2>4 DEF Whole!GraphNext
<1>8. CASE e \in CreateEvent
  <2>1. /\ e.kind = "task-created" /\ e.task \in Task /\ e.key \in Key /\ e.owner \in Owner
        /\ e = Whole!TaskCreated(e.task, e.key, e.owner)
    BY <1>8 DEF CreateEvent, TaskCreated, Whole!TaskCreated
  <2>2. ~Whole!Known(e.task)
    BY <1>2, <1>4, <1>6, <2>1 DEF PendingLegal
  <2>3. ~Whole!KeyUsed(e.key)
    BY <1>3, <1>6, <2>1 DEF Dedupes, Whole!KeyUsed
  <2>4. ApplyEvent(replay, e) =
          [replay EXCEPT !.tasks[e.task] =
             [status |-> "proposed", owner |-> e.owner, key |-> e.key, evidence |-> {}]]
    BY <2>1 DEF ApplyEvent, NewTask
  <2>5. Whole!OpenTask(e.task, e.key, e.owner)
    BY <1>1, <2>1, <2>2, <2>3, <2>4 DEF Whole!OpenTask
  <2> QED BY <2>1, <2>5 DEF Whole!GraphNext
<1>9. CASE e \in MoveEvent
  <2>1. /\ e.kind = "transition" /\ e.task \in Task /\ e.to \in Status /\ e.actor \in Actor
        /\ e = Whole!Moved(e.task, e.to, e.actor)
    BY <1>9 DEF MoveEvent, Moved, Whole!Moved
  <2>2. Exists(replay, e.task) /\ LegalEdge(replay.tasks[e.task].status, e.to, e.actor)
    BY <1>2, <1>4, <2>1 DEF PendingLegal
  <2>3. e.to \in EvidenceStatus =>
          Fault \cap {"append", "torn"} # {} \/ replay.tasks[e.task].evidence # {}
    BY <1>2, <2>1 DEF WholeInv, BackedInv, PendingBacked, MoveBacked
  <2>4. ApplyEvent(replay, e) = [replay EXCEPT !.tasks[e.task].status = e.to]
    BY <2>1, <2>2 DEF ApplyEvent
  <2>5. Whole!Transit(e.task, e.to, e.actor)
    BY <1>1, <1>6, <2>1, <2>2, <2>3, <2>4 DEF Whole!Transit, Whole!LegalEdge, LegalEdge,
       Whole!EvidenceStatus, EvidenceStatus, Whole!LegalTransitions, LegalTransitions,
       Whole!EscalationExitActors, EscalationExitActors, Whole!Status, Status
  <2> QED BY <2>1, <2>5 DEF Whole!GraphNext, Whole!Status, Status
<1>10. CASE e \in EvidenceEvent
  <2>1. /\ e.kind = "evidence-added" /\ e.task \in Task /\ e.ref \in Ref
        /\ e = Whole!EvidenceAdded(e.task, e.ref)
    BY <1>10 DEF EvidenceEvent, EvidenceAdded, Whole!EvidenceAdded
  <2>2. CASE ~Exists(replay, e.task)
    BY <1>1, <1>5, <2>1, <2>2 DEF ApplyEvent
  <2>3. CASE Exists(replay, e.task)
    <3>1. ApplyEvent(replay, e) = [replay EXCEPT !.tasks[e.task].evidence = @ \cup {e.ref}]
      BY <2>1, <2>3 DEF ApplyEvent
    <3>2. Whole!Attach(e.task, e.ref)
      BY <1>1, <1>6, <2>1, <2>3, <3>1 DEF Whole!Attach
    <3> QED BY <2>1, <3>2 DEF Whole!GraphNext
  <2> QED BY <2>2, <2>3
<1>11. CASE e \in OwnerEvent
  <2>1. /\ e.kind = "owner-reassigned" /\ e.task \in Task /\ e.owner \in Owner
        /\ e = Whole!OwnerReassigned(e.task, e.owner)
    BY <1>11 DEF OwnerEvent, OwnerReassigned, Whole!OwnerReassigned
  <2>2. CASE ~Exists(replay, e.task)
    BY <1>1, <1>5, <2>1, <2>2 DEF ApplyEvent
  <2>3. CASE Exists(replay, e.task)
    <3>1. ApplyEvent(replay, e) = [replay EXCEPT !.tasks[e.task].owner = e.owner]
      BY <2>1, <2>3 DEF ApplyEvent
    <3>2. Whole!Assign(e.task, e.owner)
      BY <1>1, <1>6, <2>1, <2>3, <3>1 DEF Whole!Assign
    <3> QED BY <2>1, <3>2 DEF Whole!GraphNext
  <2> QED BY <2>2, <2>3
<1> QED BY <1>1, <1>7, <1>8, <1>9, <1>10, <1>11 DEF Event

\* A call begins, or reads, without a trace in the files.
LEMMA BeginLeavesFiles ==
    ASSUME NEW p \in Proc, Begin(p)
    PROVE  replay' = replay /\ disk' = disk
<1>1. \A e : Submit(p, e) => replay' = replay /\ disk' = disk
  BY DEF Submit
<1>2. \A t, to, a, r : BeginMove(p, t, to, a, r) => replay' = replay /\ disk' = disk
  BY <1>1 DEF BeginMove
<1> QED BY <1>1, <1>2 DEF Begin, CreateGoal, CreateTask, MoveTask, MoveTaskAsVerifier,
           AddEvidence, ReassignOwner, ReassignOwnerAsVerifier, BeginReassign

\* Every other file operation lets readers catch up with the ledger, or leaves
\* them what they had.
LEMMA StepsOfWhole ==
    ASSUME WholeInv, TypeInv', NEW p \in Proc, OthersIdle(p), Begin(p) \/ Continue(p)
    PROVE  Whole!GraphNext
<1>1. Asked' \subseteq Event
  BY AskedType, AskedTypeNext
<1>2. replay' = replay /\ disk' = disk => Whole!GraphNext
  BY <1>1, AttendSuffices DEF ReadGraph
<1>3. replay' = replay /\ ReadGraph' = replay => Whole!GraphNext
  BY <1>1, AttendSuffices
<1>4. CASE Begin(p)
  BY <1>2, <1>4, BeginLeavesFiles
<1>5. CASE RecordMoveEvidence(p) \/ ReadBase(p) \/ AppendFails(p) \/ WriteFails(p) \/ Crash(p)
  BY <1>2, <1>5 DEF RecordMoveEvidence, ReadBase, AppendFails, WriteFails, Crash
<1>6. CASE AppendLine(p)
  BY <1>6, AppendIsOperation
<1>7. CASE TruncateSnapshot(p)
  <2>1. replay' = replay /\ ReadGraph' = replay
    BY <1>7 DEF TruncateSnapshot, ReadGraph, Unreadable
  <2> QED BY <1>3, <2>1
<1>8. CASE WriteSnapshot(p)
  <2>1. replay' = replay /\ disk' = [readable |-> TRUE, graph |-> replay]
    BY <1>8 DEF WriteSnapshot, WholeInv, SerialInv, Fits, InStep
  <2>2. ReadGraph' = replay
    BY <2>1 DEF ReadGraph
  <2> QED BY <1>3, <2>1, <2>2
<1> QED BY <1>4, <1>5, <1>6, <1>7, <1>8 DEF Continue

\* The calls of any number of processes, one at a time, with failing appends,
\* snapshots cut off and deaths anywhere but in that gap, are operations of one
\* graph, each in one step on the graph that readers are served; and readers are
\* at most that operation behind.
THEOREM GraphActsAtOnce ==
    ASSUME "torn" \notin Fault
    PROVE  Spec /\ []Serial /\ [][~LeavesOldSnapshot]_vars => ActsAtOnce
<1>1. Init => WholeInv /\ Whole!GraphInit
  <2> SUFFICES ASSUME Init PROVE WholeInv /\ Whole!GraphInit
    OBVIOUS
  <2>1. WholeInv
    BY SerialInit, KeyInit, BackedInit DEF WholeInv
  <2>2. ReadGraph = replay
    BY <2>1 DEF WholeInv, SerialInv, Coherent, Init, Idle
  <2>3. Asked = {}
    BY DEF Init, Idle, Asked
  <2> QED BY <2>1, <2>2, <2>3 DEF Init, Whole!GraphInit
<1>2. WholeInv /\ Serial /\ Serial' /\ [Next]_vars /\ [~LeavesOldSnapshot]_vars => WholeInv'
  BY SerialNext, KeyNext, BackedNext DEF WholeInv
<1>3. WholeInv /\ WholeInv' /\ Serial /\ Serial' /\ [Next]_vars
        => [Whole!GraphNext]_<<replay, ReadGraph, Asked>>
  <2> SUFFICES ASSUME WholeInv, WholeInv', Serial, Serial', [Next]_vars
               PROVE  Whole!GraphNext \/ UNCHANGED <<replay, ReadGraph, Asked>>
    OBVIOUS
  <2>1. CASE UNCHANGED vars
    BY <2>1 DEF vars, ReadGraph, Asked
  <2>2. ASSUME NEW p \in Proc, Begin(p) \/ Continue(p)
        PROVE  Whole!GraphNext
    <3>1. OthersIdle(p)
      BY <2>2, OnlyOneAtWork DEF WholeInv, SerialInv, TypeInv
    <3>2. TypeInv'
      BY DEF WholeInv, SerialInv
    <3> QED BY <2>2, <3>1, <3>2, StepsOfWhole
  <2> QED BY <2>1, <2>2 DEF Next
<1> QED BY <1>1, <1>2, <1>3, PTL DEF Spec, ActsAtOnce, Whole!GraphSpec

-----------------------------------------------------------------------------
(* The text of the ledger: what is read back is what ExecGraph keeps *)

Chunk == {Json(e) : e \in Event} \cup {Half, Newline}

\* The empty file, before anything is read.
Unbegun == [graph |-> EmptyGraph, line |-> <<>>]

\* f says what has been read after each of the first n chunks.
ReadsAs(f, n, chunks) ==
    f = [i \in 0 .. n |-> IF i = 0 THEN Unbegun ELSE ReadChunk(f[i - 1], chunks[i])]

\* The graph and the line begun at the end of the text.
AtEnd(chunks) == Reading(chunks)[Len(chunks)]

\* Half a line begins the line being read exactly when the ledger is torn;
\* everything before that line has been folded.
TextInv ==
    /\ TypeInv
    /\ PendingFresh
    /\ text \in Seq(Chunk)
    /\ AtEnd(text).graph = replay
    /\ AtEnd(text).line \in Seq(Chunk)
    /\ IF torn THEN AtEnd(text).line # <<>> /\ AtEnd(text).line[1] = Half
       ELSE AtEnd(text).line = <<>>
    /\ torn = (text # <<>> /\ Last(text) # Newline)

\* A set of naturals has a least element.
LEMMA LeastNumber ==
    ASSUME NEW S \in SUBSET Nat, S # {}
    PROVE  \E m \in S : \A n \in S : m <= n
<1> DEFINE less == OpToRel(<, Nat)
<1>1. IsWellFoundedOn(less, Nat)
  BY NatLessThanWellFounded
<1>2. \A m, n \in Nat : m < n => <<m, n>> \in less
  BY DEF OpToRel
<1> HIDE DEF less
<1>3. PICK m \in S : \A n \in S : <<n, m>> \notin less
  BY <1>1, WFMin
<1>4. \A n \in S : ~(n < m)
  BY <1>2, <1>3
<1>5. \A n \in S : m <= n
  BY <1>4
<1> QED BY <1>5

\* Reading is possible however long the text: were n the least number of
\* chunks that cannot be read, the reading of n - 1 of them could go on.
LEMMA ReadingExists ==
    ASSUME NEW chunks, NEW n \in Nat
    PROVE  \E f : ReadsAs(f, n, chunks)
<1> DEFINE bad == {k \in Nat : ~\E f : ReadsAs(f, k, chunks)}
<1>1. CASE bad = {}
  BY <1>1
<1>2. CASE bad # {}
  <2>1. PICK m \in bad : \A k \in bad : m <= k
    <3>1. bad \in SUBSET Nat
      OBVIOUS
    <3> HIDE DEF bad
    <3> QED BY <1>2, <3>1, LeastNumber
  <2>2. m \in Nat /\ ~\E f : ReadsAs(f, m, chunks)
    OBVIOUS
  <2>3. m # 0
    <3> DEFINE f == [i \in 0 .. 0 |-> Unbegun]
    <3>1. ReadsAs(f, 0, chunks)
      BY DEF ReadsAs
    <3> HIDE DEF f
    <3> QED BY <2>2, <3>1
  <2>4. m - 1 \in Nat /\ m - 1 \notin bad
    BY <2>1, <2>2, <2>3
  <2>5. PICK f : ReadsAs(f, m - 1, chunks)
    BY <2>4
  <2> DEFINE g == [i \in 0 .. m |-> IF i = m THEN ReadChunk(f[m - 1], chunks[m]) ELSE f[i]]
  <2>6. \A i \in 0 .. m - 1 :
            /\ g[i] = f[i]
            /\ f[i] = IF i = 0 THEN Unbegun ELSE ReadChunk(f[i - 1], chunks[i])
    BY <2>2, <2>5 DEF ReadsAs
  <2>7. \A i \in 0 .. m : g[i] = IF i = 0 THEN Unbegun ELSE ReadChunk(g[i - 1], chunks[i])
    <3> SUFFICES ASSUME NEW i \in 0 .. m
                 PROVE  g[i] = IF i = 0 THEN Unbegun ELSE ReadChunk(g[i - 1], chunks[i])
      OBVIOUS
    <3>1. CASE i = m
      <4>1. g[m] = ReadChunk(f[m - 1], chunks[m])
        BY <2>2
      <4>2. g[m - 1] = f[m - 1]
        BY <2>2, <2>4, <2>6
      <4> HIDE DEF g
      <4> QED BY <2>3, <3>1, <4>1, <4>2
    <3>2. CASE i # m
      <4>1. i \in 0 .. m - 1 /\ (i # 0 => i - 1 \in 0 .. m - 1)
        BY <2>2, <3>2
      <4>2. g[i] = f[i] /\ (i # 0 => g[i - 1] = f[i - 1])
        BY <2>6, <4>1
      <4> HIDE DEF g
      <4> QED BY <2>6, <4>1, <4>2
    <3> QED BY <3>1, <3>2
  <2>8. ReadsAs(g, m, chunks)
    <3>1. DOMAIN g = 0 .. m /\ g = [i \in 0 .. m |-> g[i]]
      OBVIOUS
    <3> HIDE DEF g
    <3> QED BY <2>7, <3>1 DEF ReadsAs
  <2> HIDE DEF g
  <2> QED BY <2>2, <2>8
<1> QED BY <1>1, <1>2

LEMMA ReadingIsOne ==
    ASSUME NEW chunks, Len(chunks) \in Nat
    PROVE  ReadsAs(Reading(chunks), Len(chunks), chunks)
<1>1. \E f : f = [i \in 0 .. Len(chunks) |->
                    IF i = 0 THEN [graph |-> EmptyGraph, line |-> <<>>]
                    ELSE ReadChunk(f[i - 1], chunks[i])]
  BY ReadingExists DEF ReadsAs, Unbegun
<1> QED BY <1>1, Zenon DEF Reading, ReadsAs, Unbegun

\* Two texts that begin alike are read alike that far.
LEMMA ReadingsAgree ==
    ASSUME NEW s, NEW t, NEW m \in Nat, NEW n \in Nat, NEW f, NEW g,
           m <= n, \A i \in 1 .. m : s[i] = t[i],
           ReadsAs(f, m, s), ReadsAs(g, n, t)
    PROVE  \A i \in 0 .. m : f[i] = g[i]
<1> DEFINE bad == {i \in 0 .. m : f[i] # g[i]}
<1>1. CASE bad = {}
  BY <1>1
<1>2. CASE bad # {}
  <2>1. PICK i \in bad : \A k \in bad : i <= k
    <3>1. bad \in SUBSET Nat
      OBVIOUS
    <3> HIDE DEF bad
    <3> QED BY <1>2, <3>1, LeastNumber
  <2>2. i \in 0 .. m /\ i \in 0 .. n /\ f[i] # g[i]
    OBVIOUS
  <2>3. f[i] = IF i = 0 THEN Unbegun ELSE ReadChunk(f[i - 1], s[i])
    BY <2>2 DEF ReadsAs
  <2>4. g[i] = IF i = 0 THEN Unbegun ELSE ReadChunk(g[i - 1], t[i])
    BY <2>2 DEF ReadsAs
  <2>5. i # 0
    BY <2>2, <2>3, <2>4
  <2>6. i - 1 \in 0 .. m /\ i - 1 \notin bad /\ i \in 1 .. m
    BY <2>1, <2>2, <2>5
  <2>7. f[i - 1] = g[i - 1] /\ s[i] = t[i]
    BY <2>6
  <2> QED BY <2>2, <2>3, <2>4, <2>7
<1> QED BY <1>1, <1>2

LEMMA ReadNothing == AtEnd(<<>>) = Unbegun
<1>1. Len(<<>>) = 0
  OBVIOUS
<1>2. ReadsAs(Reading(<<>>), 0, <<>>)
  BY <1>1, ReadingIsOne
<1> QED BY <1>1, <1>2 DEF AtEnd, ReadsAs

\* Reading on by one chunk.
LEMMA ReadOneMore ==
    ASSUME NEW S, NEW s \in Seq(S), NEW c \in S
    PROVE  AtEnd(Append(s, c)) = ReadChunk(AtEnd(s), c)
<1> DEFINE t == Append(s, c)
<1>1. /\ Len(s) \in Nat /\ Len(t) = Len(s) + 1
      /\ t[Len(s) + 1] = c
      /\ \A i \in 1 .. Len(s) : s[i] = t[i]
  OBVIOUS
<1> HIDE DEF t
<1>2. ReadsAs(Reading(s), Len(s), s) /\ ReadsAs(Reading(t), Len(t), t)
  BY <1>1, ReadingIsOne
<1>3. Reading(s)[Len(s)] = Reading(t)[Len(s)]
  <2> DEFINE m == Len(s)
             n == Len(t)
             f == Reading(s)
             g == Reading(t)
  <2>0. m \in Nat /\ n \in Nat /\ m <= n /\ \A i \in 1 .. m : s[i] = t[i]
    BY <1>1
  <2>2. ReadsAs(f, m, s) /\ ReadsAs(g, n, t)
    BY <1>2
  <2> HIDE DEF m, n, f, g
  <2>3. \A i \in 0 .. m : f[i] = g[i]
    BY <2>0, <2>2, ReadingsAgree
  <2>1. \A i \in 0 .. Len(s) : Reading(s)[i] = Reading(t)[i]
    BY <2>3 DEF m, f, g
  <2> QED BY <1>1, <2>1
<1>4. Reading(t)[Len(s) + 1] = ReadChunk(Reading(t)[Len(s)], c)
  BY <1>1, <1>2 DEF ReadsAs
<1>5. AtEnd(t) = ReadChunk(AtEnd(s), c)
  BY <1>1, <1>3, <1>4 DEF AtEnd
<1> QED BY <1>5 DEF t

LEMMA AppendFacts ==
    ASSUME NEW S, NEW s \in Seq(S), NEW c \in S
    PROVE  LET t == Append(s, c) IN
           /\ t \in Seq(S) /\ t # <<>>
           /\ Last(t) = c
           /\ s = <<>> => t = <<c>> /\ Len(t) = 1 /\ t[1] = c
           /\ s # <<>> => t[1] = s[1] /\ Len(t) # 1
<1> DEFINE t == Append(s, c)
<1>1. /\ t \in Seq(S)
      /\ Len(s) \in Nat /\ Len(t) = Len(s) + 1
      /\ t[Len(s) + 1] = c
      /\ \A i \in 1 .. Len(s) : t[i] = s[i]
  OBVIOUS
<1>2. s = <<>> <=> Len(s) = 0
  OBVIOUS
<1>3. s = <<>> => t = <<c>>
  OBVIOUS
<1> HIDE DEF t
<1>4. t # <<>>
  <2>1. Len(<<>>) = 0
    OBVIOUS
  <2> QED BY <1>1, <2>1
<1>5. Last(t) = c
  BY <1>1 DEF Last
<1> QED BY <1>1, <1>2, <1>3, <1>4, <1>5 DEF t

\* The three chunks differ, and so do the lines they make.
LEMMA ChunksDiffer ==
    /\ Half # Newline
    /\ \A e : Json(e) # Half /\ Json(e) # Newline /\ Json(e)[2] = e
<1>1. <<"half">>[1] = "half" /\ <<"newline">>[1] = "newline"
  OBVIOUS
<1>2. \A e : <<"json", e>>[1] = "json" /\ <<"json", e>>[2] = e
  OBVIOUS
<1> QED BY <1>1, <1>2 DEF Half, Newline, Json

\* The line of an event, appended after a newline, is folded; after half a
\* line it is not.
LEMMA ReadLine ==
    ASSUME NEW chunks \in Seq(Chunk), NEW e \in Event,
           AtEnd(chunks).line \in Seq(Chunk)
    PROVE  LET more == chunks \o <<Json(e), Newline>> IN
           /\ more \in Seq(Chunk)
           /\ more # <<>> /\ Last(more) = Newline
           /\ AtEnd(more).line = <<>>
           /\ AtEnd(more).graph =
                IF AtEnd(chunks).line = <<>> THEN ApplyEvent(AtEnd(chunks).graph, e)
                ELSE AtEnd(chunks).graph
<1> DEFINE more == chunks \o <<Json(e), Newline>>
           begun == Append(chunks, Json(e))
           line == AtEnd(chunks).line
<1>1. Json(e) \in Chunk /\ Newline \in Chunk
  BY DEF Chunk
<1>2. begun \in Seq(Chunk) /\ more = Append(begun, Newline)
  <2> DEFINE c == Json(e)
             d == Newline
  <2>1. c \in Chunk /\ d \in Chunk
    BY <1>1
  <2> HIDE DEF c, d
  <2>2. Append(chunks, c) \in Seq(Chunk) /\ chunks \o <<c, d>> = Append(Append(chunks, c), d)
    BY <2>1
  <2> QED BY <2>2 DEF c, d
<1>3. more \in Seq(Chunk) /\ more # <<>> /\ Last(more) = Newline
  <2> HIDE DEF begun
  <2>1. Append(begun, Newline) \in Seq(Chunk) /\ Append(begun, Newline) # <<>>
    BY <1>1, <1>2
  <2>2. Last(Append(begun, Newline)) = Newline
    BY <1>1, <1>2 DEF Last
  <2> QED BY <1>2, <2>1, <2>2
<1>4. AtEnd(begun) = [graph |-> AtEnd(chunks).graph, line |-> Append(line, Json(e))]
  <2>1. AtEnd(begun) = ReadChunk(AtEnd(chunks), Json(e))
    BY <1>1, ReadOneMore
  <2> QED BY <2>1, ChunksDiffer DEF ReadChunk
<1>5. AtEnd(more) = [graph |-> FoldLine(AtEnd(begun).graph, AtEnd(begun).line), line |-> <<>>]
  <2>1. AtEnd(Append(begun, Newline)) = ReadChunk(AtEnd(begun), Newline)
    BY <1>1, <1>2, ReadOneMore
  <2> HIDE DEF begun, more
  <2> QED BY <1>2, <2>1 DEF ReadChunk
<1> HIDE DEF more, begun
<1>6. AtEnd(more).graph = FoldLine(AtEnd(chunks).graph, Append(line, Json(e)))
  BY <1>4, <1>5
<1>7. CASE line = <<>>
  <2>1. Append(line, Json(e)) = <<Json(e)>>
    BY <1>7
  <2>2. Len(<<Json(e)>>) = 1 /\ <<Json(e)>>[1] = Json(e)
    OBVIOUS
  <2>3. FoldLine(AtEnd(chunks).graph, <<Json(e)>>) = ApplyEvent(AtEnd(chunks).graph, e)
    BY <2>2, ChunksDiffer DEF FoldLine
  <2> QED BY <1>3, <1>5, <1>6, <1>7, <2>1, <2>3 DEF more
<1>8. CASE line # <<>>
  <2>1. Len(Append(line, Json(e))) # 1
    <3> HIDE DEF line
    <3> DEFINE c == Json(e)
    <3> HIDE DEF c
    <3>1. line \in Seq(Chunk) /\ c \in Chunk
      BY <1>1 DEF line, c
    <3>2. Len(Append(line, c)) # 1
      BY <1>8, <3>1, AppendFacts
    <3> QED BY <3>2 DEF c
  <2>2. FoldLine(AtEnd(chunks).graph, Append(line, Json(e))) = AtEnd(chunks).graph
    BY <2>1 DEF FoldLine
  <2> QED BY <1>3, <1>5, <1>6, <1>8, <2>2 DEF more
<1> QED BY <1>7, <1>8

\* Half a line begins the line, or is added to it, and nothing is folded.
LEMMA ReadHalf ==
    ASSUME NEW chunks \in Seq(Chunk), AtEnd(chunks).line \in Seq(Chunk),
           AtEnd(chunks).line = <<>> \/ AtEnd(chunks).line[1] = Half
    PROVE  LET more == Append(chunks, Half) IN
           /\ more \in Seq(Chunk)
           /\ more # <<>> /\ Last(more) = Half
           /\ AtEnd(more).graph = AtEnd(chunks).graph
           /\ AtEnd(more).line \in Seq(Chunk)
           /\ AtEnd(more).line # <<>> /\ AtEnd(more).line[1] = Half
<1> DEFINE more == Append(chunks, Half)
           line == AtEnd(chunks).line
<1>1. Half \in Chunk
  BY DEF Chunk
<1>2. more \in Seq(Chunk) /\ more # <<>> /\ Last(more) = Half
  BY <1>1, AppendFacts
<1>3. AtEnd(more) = [graph |-> AtEnd(chunks).graph, line |-> Append(line, Half)]
  <2>1. AtEnd(more) = ReadChunk(AtEnd(chunks), Half)
    BY <1>1, ReadOneMore
  <2> QED BY <2>1, ChunksDiffer DEF ReadChunk
<1>4. line \in Seq(Chunk) /\ (line = <<>> \/ line[1] = Half)
  OBVIOUS
<1> HIDE DEF line, more
<1>5. Append(line, Half) \in Seq(Chunk) /\ Append(line, Half) # <<>> /\ Append(line, Half)[1] = Half
  BY <1>1, <1>4, AppendFacts
<1>6. AtEnd(more).graph = AtEnd(chunks).graph /\ AtEnd(more).line = Append(line, Half)
  BY <1>3
<1> QED BY <1>2, <1>5, <1>6 DEF more

\* Where e creates a task, nobody else has used its id.
CreatesNew(e) ==
    e.kind = "task-created" =>
        /\ ~Exists(replay, e.task)
        /\ \A q \in Proc : proc[q].event.kind = "task-created" => proc[q].event.task # e.task

\* A call begins without touching the files; it holds no creation, or that of
\* a task whose id nobody else uses.
LEMMA BeginHolds ==
    ASSUME TypeInv, NEW p \in Proc, Begin(p)
    PROVE  /\ UNCHANGED <<replay, torn, disk>>
           /\ \E d : proc' = [proc EXCEPT ![p] = d] /\ CreatesNew(d.event)
<1>1. ASSUME NEW e, Submit(p, e), CreatesNew(e)
      PROVE  /\ UNCHANGED <<replay, torn, disk>>
             /\ \E d : proc' = [proc EXCEPT ![p] = d] /\ CreatesNew(d.event)
  <2> DEFINE d == [Idle EXCEPT !.pc = "read", !.event = e]
  <2>1. d.event = e /\ proc' = [proc EXCEPT ![p] = d] /\ UNCHANGED <<replay, torn, disk>>
    BY <1>1, BlankBase DEF Submit
  <2> HIDE DEF d
  <2>2. CreatesNew(d.event)
    BY <1>1, <2>1
  <2> QED BY <2>1, <2>2, Zenon
<1>2. ASSUME NEW g \in Goal, CreateGoal(p, g)
      PROVE  Submit(p, GoalCreated(g)) /\ CreatesNew(GoalCreated(g))
  BY <1>2 DEF CreateGoal, GoalCreated, CreatesNew
<1>3. ASSUME NEW t \in Task, NEW k \in Key, NEW o \in Owner, CreateTask(p, t, k, o)
      PROVE  Submit(p, TaskCreated(t, k, o)) /\ CreatesNew(TaskCreated(t, k, o))
  <2>1. ASSUME NEW q \in Proc, proc[q].event.kind = "task-created"
        PROVE  proc[q].event.task # t
    <3>1. proc[q].event \in Event
      BY <2>1 DEF TypeInv, TypeOK, ProcState, NoEvent
    <3>2. proc[q].event \in CreateEvent
      BY <2>1, <3>1 DEF Event, GoalEvent, GoalCreated, MoveEvent, Moved,
                        EvidenceEvent, EvidenceAdded, OwnerEvent, OwnerReassigned
    <3>3. PICK u \in Task, l \in Key, w \in Owner : proc[q].event = TaskCreated(u, l, w)
      BY <3>2 DEF CreateEvent
    <3>4. u # t
      BY <1>3, <3>3 DEF CreateTask, Fresh
    <3> QED  BY <3>3, <3>4 DEF TaskCreated
  <2>2. TaskCreated(t, k, o).task = t
    BY DEF TaskCreated
  <2>3. Submit(p, TaskCreated(t, k, o)) /\ ~Exists(replay, t)
    BY <1>3 DEF CreateTask, Fresh
  <2> QED BY <2>1, <2>2, <2>3 DEF CreatesNew
<1>4. ASSUME NEW t \in Task, NEW to \in Status, NEW a \in Actor, NEW r \in Ref \cup {NoRef},
             BeginMove(p, t, to, a, r)
      PROVE  /\ UNCHANGED <<replay, torn, disk>>
             /\ \E d : proc' = [proc EXCEPT ![p] = d] /\ CreatesNew(d.event)
  <2>1. CASE r = NoRef
    <3>1. Submit(p, Moved(t, to, a)) /\ CreatesNew(Moved(t, to, a))
      BY <1>4, <2>1 DEF BeginMove, Moved, CreatesNew
    <3> QED BY <1>1, <3>1
  <2>2. CASE r # NoRef
    <3> DEFINE d == [Idle EXCEPT !.pc = "evidence",
                                 !.event = EvidenceAdded(t, r),
                                 !.next = [to |-> to, actor |-> a, ref |-> r]]
    <3>1. proc' = [proc EXCEPT ![p] = d] /\ UNCHANGED <<replay, torn, disk>>
      BY <1>4, <2>2 DEF BeginMove
    <3>2. CreatesNew(d.event)
      BY DEF Idle, EvidenceAdded, CreatesNew
    <3> HIDE DEF d
    <3> QED BY <3>1, <3>2
  <2> QED BY <2>1, <2>2
<1>5. ASSUME NEW t \in Task, NEW r \in Ref, AddEvidence(p, t, r)
      PROVE  Submit(p, EvidenceAdded(t, r)) /\ CreatesNew(EvidenceAdded(t, r))
  BY <1>5 DEF AddEvidence, EvidenceAdded, CreatesNew
<1>6. ASSUME NEW t \in Task, NEW o \in Owner,
             ReassignOwner(p, t, o) \/ ReassignOwnerAsVerifier(p, t, o)
      PROVE  Submit(p, OwnerReassigned(t, o)) /\ CreatesNew(OwnerReassigned(t, o))
  BY <1>6 DEF ReassignOwner, ReassignOwnerAsVerifier, BeginReassign, OwnerReassigned, CreatesNew
<1>7. CASE \E g \in Goal : CreateGoal(p, g)
  BY <1>1, <1>2, <1>7
<1>8. CASE \E t \in Task, k \in Key, o \in Owner : CreateTask(p, t, k, o)
  BY <1>1, <1>3, <1>8
<1>9. CASE \E t \in Task, to \in Status, a \in Actor, r \in Ref \cup {NoRef} :
             MoveTask(p, t, to, a, r) \/ MoveTaskAsVerifier(p, t, to, a, r)
  BY <1>4, <1>9 DEF MoveTask, MoveTaskAsVerifier
<1>10. CASE \E t \in Task, r \in Ref : AddEvidence(p, t, r)
  BY <1>1, <1>5, <1>10
<1>11. CASE \E t \in Task, o \in Owner : ReassignOwner(p, t, o) \/ ReassignOwnerAsVerifier(p, t, o)
  BY <1>1, <1>6, <1>11
<1> QED  BY <1>7, <1>8, <1>9, <1>10, <1>11 DEF Begin

\* Whatever goes wrong with the files, the id of a task that is about to be
\* created is used by nobody else; and only an appended line changes the fold.
LEMMA FreshStays ==
    ASSUME TypeInv, PendingFresh, [Next]_vars
    PROVE  PendingFresh'
<1>0. proc \in [Proc -> ProcState]
  BY DEF TypeInv, TypeOK
<1>1. CASE UNCHANGED vars
  BY <1>1 DEF vars, PendingFresh
<1>2. ASSUME NEW p \in Proc, Begin(p)
      PROVE  PendingFresh'
  <2>0. UNCHANGED replay
    BY <1>2, BeginHolds
  <2>1. PICK d : proc' = [proc EXCEPT ![p] = d] /\ CreatesNew(d.event)
    BY <1>2, BeginHolds, Zenon
  <2>2. \A q \in Proc : proc'[q] = IF q = p THEN d ELSE proc[q]
    BY <1>0, <2>1
  <2> QED BY <2>0, <2>1, <2>2 DEF PendingFresh, CreatesNew
<1>3. ASSUME NEW p \in Proc, NEW d, proc' = [proc EXCEPT ![p] = d], UNCHANGED replay,
             \/ d.event.kind # "task-created"
             \/ /\ d.event = proc[p].event
                /\ d.pc \in {"read", "append"} => proc[p].pc \in {"read", "append"}
      PROVE  PendingFresh'
  <2>1. \A q \in Proc : proc'[q] = IF q = p THEN d ELSE proc[q]
    BY <1>0, <1>3
  <2> QED BY <1>3, <2>1 DEF PendingFresh
<1>4. ASSUME NEW p \in Proc, Continue(p), ~AppendLine(p)
      PROVE  PendingFresh'
  <2> DEFINE c == proc[p]
  <2>0. c \in ProcState /\ CallFits(c)
    BY <1>0 DEF TypeInv, CallOK
  <2>1. Idle.event.kind # "task-created" /\ AfterPersist(p).event.kind # "task-created"
    BY BlankBase, AfterPersistShape DEF NoEvent
  <2>2. CASE RecordMoveEvidence(p)
    <3> DEFINE d == [c EXCEPT !.pc = "read",
                              !.seen = [ReadGraph.tasks[c.event.task] EXCEPT !.evidence = @ \cup {c.event.ref}]]
    <3>1. proc' = [proc EXCEPT ![p] = IF Exists(ReadGraph, c.event.task) THEN d ELSE Idle] /\ UNCHANGED replay
      BY <2>2 DEF RecordMoveEvidence
    <3>2. d.event = c.event /\ c.event.kind # "task-created"
      BY <2>0, <2>2, EvidenceShape DEF RecordMoveEvidence, CallFits, ProcState
    <3> HIDE DEF d, c
    <3> QED BY <1>3, <2>1, <3>1, <3>2
  <2>3. CASE ReadBase(p)
    <3> DEFINE d == [c EXCEPT !.pc = "append", !.base = ReadGraph]
    <3>1. proc' = [proc EXCEPT ![p] = IF Dedupes(ReadGraph, c.event) THEN Idle ELSE d]
          /\ UNCHANGED replay /\ c.pc = "read"
      BY <2>3 DEF ReadBase
    <3>2. d.event = proc[p].event /\ proc[p].pc = "read"
      BY <2>0, <3>1 DEF ProcState
    <3> HIDE DEF d, c
    <3> QED BY <1>3, <2>1, <3>1, <3>2
  <2>4. CASE TruncateSnapshot(p)
    <3> DEFINE d == [c EXCEPT !.pc = "write"]
    <3>1. proc' = [proc EXCEPT ![p] = d] /\ UNCHANGED replay
      BY <2>0, <2>4 DEF TruncateSnapshot
    <3>2. d.event = proc[p].event /\ d.pc = "write"
      BY <2>0 DEF ProcState
    <3> HIDE DEF d, c
    <3> QED BY <1>3, <3>1, <3>2
  <2>5. CASE AppendFails(p) \/ WriteSnapshot(p) \/ WriteFails(p)
    BY <1>3, <2>1, <2>5 DEF AppendFails, WriteSnapshot, WriteFails
  <2>6. CASE Crash(p)
    BY <1>3, <2>1, <2>6 DEF Crash
  <2> QED BY <1>4, <2>2, <2>3, <2>4, <2>5, <2>6 DEF Continue
<1>5. ASSUME NEW p \in Proc, AppendLine(p)
      PROVE  PendingFresh'
  <2> DEFINE e == proc[p].event
  <2>1. /\ replay \in Snapshot /\ e \in Event
        /\ replay' = replay \/ replay' = ApplyEvent(replay, e)
        /\ proc[p].pc = "append"
        /\ proc' = [proc EXCEPT ![p].pc = "truncate"]
    BY <1>5 DEF TypeInv, TypeOK, CallOK, CallFits, AppendLine
  <2>2. \A q \in Proc : /\ proc'[q].event = proc[q].event
                        /\ proc'[q].pc = IF q = p THEN "truncate" ELSE proc[q].pc
    BY <1>0, <2>1 DEF ProcState
  <2> SUFFICES ASSUME NEW q \in Proc, q # p, proc[q].pc \in {"read", "append"},
                      proc[q].event.kind = "task-created"
               PROVE  ~Exists(replay', proc[q].event.task)
    BY <2>1, <2>2 DEF PendingFresh
  <2>3. /\ ~Exists(replay, proc[q].event.task)
        /\ e.kind = "task-created" => e.task # proc[q].event.task
    BY DEF PendingFresh
  <2>4. proc[q].event.task \in Task
    BY EventShape DEF TypeInv, CallOK, CallFits
  <2>5. ApplyEvent(replay, e).tasks[proc[q].event.task] = replay.tasks[proc[q].event.task]
    <3>1. CASE e.kind = "goal-created"
      BY <2>1, <3>1 DEF ApplyEvent, Snapshot
    <3>2. CASE e.kind = "task-created"
      BY <2>1, <2>3, <2>4, <3>2, EventShape DEF ApplyEvent, Snapshot
    <3>3. CASE e.kind \in {"transition", "evidence-added", "owner-reassigned"}
      BY <2>1, <2>3, <2>4, <3>3, EventShape DEF ApplyEvent, Snapshot
    <3> QED  BY <2>1, <3>1, <3>2, <3>3, EventShape
  <2> QED  BY <2>1, <2>3, <2>5 DEF Exists
<1> QED BY <1>1, <1>2, <1>4, <1>5 DEF Next

\* At the end of the text, what is left of the line does not parse.
LEMMA FoldAtEnd ==
    ASSUME NEW chunks,
           \/ AtEnd(chunks).line = <<>>
           \/ AtEnd(chunks).line # <<>> /\ AtEnd(chunks).line[1] = Half
    PROVE  Fold(chunks) = AtEnd(chunks).graph
<1>1. Fold(chunks) = FoldLine(AtEnd(chunks).graph, AtEnd(chunks).line)
  BY DEF Fold, AtEnd
<1>2. CASE AtEnd(chunks).line = <<>>
  <2>1. Len(<<>>) = 0
    OBVIOUS
  <2> QED BY <1>1, <1>2, <2>1 DEF FoldLine
<1>3. CASE AtEnd(chunks).line # <<>> /\ AtEnd(chunks).line[1] = Half
  BY <1>1, <1>3 DEF FoldLine
<1> QED BY <1>2, <1>3

LEMMA FoldIsReplay == TextInv => Fold(text) = replay
BY FoldAtEnd DEF TextInv

LEMMA TextInvInit == TextInit => TextInv
<1> SUFFICES ASSUME TextInit PROVE TextInv
  OBVIOUS
<1>1. TypeInv /\ PendingFresh
  BY TypeInit, AheadInit DEF TextInit, AheadInv
<1>2. AtEnd(text) = Unbegun
  BY ReadNothing DEF TextInit
<1>3. replay = EmptyGraph /\ torn = FALSE /\ text = <<>>
  BY DEF TextInit, Init
<1>4. AtEnd(text).graph = replay /\ AtEnd(text).line = <<>>
  BY <1>2, <1>3 DEF Unbegun
<1>5. <<>> \in Seq(Chunk)
  OBVIOUS
<1> QED BY <1>1, <1>3, <1>4, <1>5 DEF TextInv

\* Every step of the text is a step of the graph.
LEMMA TextSteps == [TextNext]_<<vars, text>> => [Next]_vars
<1>1. ASSUME TextNext PROVE Next
  BY <1>1 DEF TextNext, WriteLine, WriteHalf, WriteNothing, Next, Continue
<1>2. ASSUME UNCHANGED <<vars, text>> PROVE UNCHANGED vars
  BY <1>2
<1> QED BY <1>1, <1>2

\* A step that leaves text, replay and torn alone.
LEMMA TextKept ==
    ASSUME TextInv, TypeInv', PendingFresh', UNCHANGED <<replay, torn, text>>
    PROVE  TextInv'
BY DEF TextInv

LEMMA TextInvNext == TextInv /\ [TextNext]_<<vars, text>> => TextInv'
<1> SUFFICES ASSUME TextInv, [TextNext]_<<vars, text>> PROVE TextInv'
  OBVIOUS
<1>0. TypeInv' /\ PendingFresh'
  BY TypeNext, FreshStays, TextSteps DEF TextInv
<1>1. CASE UNCHANGED <<vars, text>>
  BY <1>0, <1>1, TextKept DEF vars
<1>2. ASSUME NEW p \in Proc, WriteLine(p)
      PROVE  TextInv'
  <2> DEFINE e == proc[p].event
  <2>1. e \in Event
    BY <1>2 DEF WriteLine, AppendLine, TextInv, TypeInv, CallOK, CallFits
  <2>2. /\ text' = text \o <<Json(e), Newline>>
        /\ replay' = IF torn THEN replay ELSE ApplyEvent(replay, e)
        /\ torn' = FALSE
    BY <1>2 DEF WriteLine, AppendLine
  <2> HIDE DEF e
  <2>3. /\ text' \in Seq(Chunk)
        /\ text' # <<>> /\ Last(text') = Newline
        /\ AtEnd(text').line = <<>>
        /\ AtEnd(text').graph =
             IF AtEnd(text).line = <<>> THEN ApplyEvent(AtEnd(text).graph, e)
             ELSE AtEnd(text).graph
    BY <2>1, <2>2, ReadLine DEF TextInv
  <2>4. AtEnd(text').graph = replay'
    BY <2>2, <2>3 DEF TextInv
  <2>5. <<>> \in Seq(Chunk)
    OBVIOUS
  <2> QED BY <1>0, <2>2, <2>3, <2>4, <2>5 DEF TextInv
<1>3. ASSUME NEW p \in Proc, WriteHalf(p)
      PROVE  TextInv'
  <2>1. replay' = replay
    BY <1>3 DEF WriteHalf, AppendFails
  <2>2. CASE torn' = torn /\ UNCHANGED text
    BY <1>0, <2>1, <2>2, TextKept
  <2>3. CASE torn' /\ text' = Append(text, Half)
    <3>1. /\ text' \in Seq(Chunk)
          /\ text' # <<>> /\ Last(text') = Half
          /\ AtEnd(text').graph = AtEnd(text).graph
          /\ AtEnd(text').line \in Seq(Chunk)
          /\ AtEnd(text').line # <<>> /\ AtEnd(text').line[1] = Half
      BY <2>3, ReadHalf DEF TextInv
    <3> QED BY <1>0, <2>1, <2>3, <3>1, ChunksDiffer DEF TextInv
  <2>4. torn' \in BOOLEAN /\ torn \in BOOLEAN
    BY <1>0 DEF TextInv, TypeInv, TypeOK
  <2> QED BY <1>3, <2>2, <2>3 DEF WriteHalf
<1>4. ASSUME NEW p \in Proc, WriteNothing(p)
      PROVE  TextInv'
  <2>1. CASE Begin(p)
    BY <1>0, <1>4, <2>1, TextKept, BeginHolds DEF WriteNothing, TextInv
  <2>2. CASE ~Begin(p)
    BY <1>0, <1>4, <2>2, TextKept
    DEF WriteNothing, RecordMoveEvidence, ReadBase, TruncateSnapshot, WriteSnapshot, WriteFails, Crash
  <2> QED BY <2>1, <2>2
<1> QED BY <1>1, <1>2, <1>3, <1>4 DEF TextNext

\* However many lines are appended, cut short or run together, and however
\* many processes take part, reading the text back gives what ExecGraph
\* keeps, and the text ends in half a line exactly when ExecGraph says so.
THEOREM ReplayIsTheFold == TextSpec => []ReplayIsFold
<1>1. TextInv => ReplayIsFold
  BY FoldIsReplay DEF TextInv, ReplayIsFold
<1> QED BY <1>1, TextInvInit, TextInvNext, PTL DEF TextSpec

\* What the theorems above say of ExecGraph holds with the text: LedgerFile
\* only adds to what ExecGraph says of a step.
THEOREM TextImplementsGraph == TextSpec => Spec
<1>1. TextInit => Init
  BY DEF TextInit
<1> QED BY <1>1, TextSteps, PTL DEF TextSpec, Spec

\* A ledger read later says all that it said before: goals, tasks with their
\* keys, and evidence.
THEOREM LedgerOnlyGrows == TextSpec => NothingForgotten
<1>1. TextInv /\ [TextNext]_<<vars, text>> => Within(replay, replay')
  <2> SUFFICES ASSUME TextInv, [TextNext]_<<vars, text>>
               PROVE  Within(replay, replay')
    OBVIOUS
  <2>1. Within(replay, replay)
    BY DEF Within
  <2>2. CASE UNCHANGED replay
    BY <2>1, <2>2
  <2>3. ASSUME NEW p \in Proc, WriteLine(p)
        PROVE  Within(replay, replay')
    <3>1. proc[p].event \in Event /\ replay \in Snapshot
      BY <2>3 DEF WriteLine, AppendLine, TextInv, TypeInv, TypeOK, CallOK, CallFits
    <3>2. Within(replay, ApplyEvent(replay, proc[p].event))
      BY <2>3, <3>1, ApplyEventGrows DEF WriteLine, AppendLine, TextInv, PendingFresh
    <3> QED BY <2>1, <2>3, <3>2 DEF WriteLine, AppendLine
  <2>4. ASSUME NEW p \in Proc, WriteHalf(p) \/ WriteNothing(p)
        PROVE  UNCHANGED replay
    <3>1. CASE Begin(p)
      BY <3>1, BeginHolds DEF TextInv
    <3>2. CASE ~Begin(p)
      BY <2>4, <3>2
      DEF WriteHalf, AppendFails, WriteNothing, RecordMoveEvidence, ReadBase, TruncateSnapshot,
          WriteSnapshot, WriteFails, Crash
    <3> QED BY <3>1, <3>2
  <2> QED BY <2>2, <2>3, <2>4 DEF TextNext, vars
<1>2. TextInv => Fold(text) = replay
  BY FoldIsReplay
<1>3. TextInv' => Fold(text') = replay'
  BY FoldAtEnd DEF TextInv
<1>4. TextInv /\ TextInv' /\ [TextNext]_<<vars, text>> => [Within(Fold(text), Fold(text'))]_<<vars, text>>
  BY <1>1, <1>2, <1>3, Zenon
<1> QED BY <1>4, TextInvInit, TextInvNext, PTL DEF TextSpec, NothingForgotten
=============================================================================
