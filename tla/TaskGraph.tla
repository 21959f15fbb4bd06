----------------------------- MODULE TaskGraph -----------------------------
(***************************************************************************)
(* The execution graph as its callers think of it ("the single machine     *)
(* execution authority", src/exec-graph/README.md): one graph, and calls   *)
(* that ask for operations, each of which checks and changes the graph in  *)
(* one step.  An operation acts on the graph that readers are served; they *)
(* may be served the graph of before the operation for a while, and no     *)
(* other operation is carried out until they have caught up.               *)
(***************************************************************************)
EXTENDS ExecGraphContracts

CONSTANTS
    StartGraphs,
    Lossy   \* may a line of the ledger, and so a piece of evidence, be lost?

VARIABLES
    graph,  \* the goals, and per task its status, owner, key and evidence
    served, \* the graph that readers are served
    asked   \* the operations that calls are about to carry out

Known(t) == graph.tasks[t].status # "absent"

KeyUsed(k) == \E t \in Task : Known(t) /\ graph.tasks[t].key = k

\* The operation op, which was asked for, makes g of the graph readers see.
Becomes(op, g) ==
    /\ op \in asked
    /\ served = graph
    /\ graph' = g
    /\ served' \in {served, g}
    /\ asked' = asked \ {op}

AddGoal(g) ==
    /\ g \notin graph.goals
    /\ Becomes(GoalCreated(g), [graph EXCEPT !.goals = @ \cup {g}])

OpenTask(t, k, o) ==
    /\ ~Known(t)
    /\ ~KeyUsed(k)
    /\ Becomes(TaskCreated(t, k, o),
               [graph EXCEPT !.tasks[t] =
                  [status |-> "proposed", owner |-> o, key |-> k, evidence |-> {}]])

Transit(t, to, a) ==
    /\ Known(t)
    /\ LegalEdge(graph.tasks[t].status, to, a)
    /\ to \in EvidenceStatus => Lossy \/ graph.tasks[t].evidence # {}
    /\ Becomes(Moved(t, to, a), [graph EXCEPT !.tasks[t].status = to])

Attach(t, r) ==
    /\ Known(t)
    /\ Becomes(EvidenceAdded(t, r), [graph EXCEPT !.tasks[t].evidence = @ \cup {r}])

Assign(t, o) ==
    /\ Known(t)
    /\ Becomes(OwnerReassigned(t, o), [graph EXCEPT !.tasks[t].owner = o])

\* Calls come and go (answered as duplicates, refused, cut off), and readers
\* catch up.
Attend ==
    /\ graph' = graph
    /\ served' \in {served, graph}
    /\ asked' \in SUBSET Event

GraphInit == graph \in StartGraphs /\ served = graph /\ asked = {}

GraphNext ==
    \/ \E g \in Goal : AddGoal(g)
    \/ \E t \in Task, k \in Key, o \in Owner : OpenTask(t, k, o)
    \/ \E t \in Task, to \in Status, a \in Actor : Transit(t, to, a)
    \/ \E t \in Task, r \in Ref : Attach(t, r)
    \/ \E t \in Task, o \in Owner : Assign(t, o)
    \/ Attend

GraphSpec == GraphInit /\ [][GraphNext]_<<graph, served, asked>>
=============================================================================
