------------------------------- MODULE Hands --------------------------------
(***************************************************************************)
(* Hand Contract V0 (src/hands/exec-graph-adapter.ts): one task is         *)
(* assigned to a hand, the hand submits receipts for it, and only the      *)
(* deterministic verifier moves it to 'verified' or 'rejected'.            *)
(*                                                                         *)
(* Each operation reads the task once and then makes several calls into    *)
(* the execution graph.  A call is one step here (ExecGraph has its inner  *)
(* steps); between two of them other processes act, the files the receipts *)
(* cite change, and the process may die.  A call that throws ends the      *)
(* operation, and leaves what the earlier calls did.                       *)
(*                                                                         *)
(* A receipt is a model value: what it cites either holds now or does not. *)
(* Whether the refuter runs depends on the owner, through the actions the  *)
(* hand is allowed (the task's title is fixed).                            *)
(***************************************************************************)
EXTENDS TaskLifecycle, Naturals, SequencesExt

CONSTANTS
    Proc,           \* the processes
    Hand,           \* owners 'hand:<id>' of registered hands
    ForegroundOnly, \* the hands whose autonomy is 'foreground-only'
    Risky,          \* owners with which the task's risk class is not 'low'
    Receipt,        \* receipts, by their content hash
    Narrative,      \* the receipts of kind 'narrative'
    Note,           \* refs of evidence that is not a receipt
    Actor,          \* who calls the generic moves
    Generic,        \* the owner of a task no hand has
    Crashes,        \* may a process die in the middle of an operation?
    StartStatus,    \* the statuses a run may start from
    MaxCalls        \* bound: operations begun in a behaviour

ASSUME HandsAssumption ==
    /\ ForegroundOnly \subseteq Hand
    /\ Risky \subseteq Hand \cup {Generic}
    /\ Narrative \subseteq Receipt
    /\ Generic \notin Hand
    /\ Receipt \cap Note = {}
    /\ Crashes \in BOOLEAN
    /\ StartStatus \subseteq Status \ (EvidenceStatus \cup {"evidence-submitted"})
    /\ MaxCalls \in Nat

VARIABLES
    task,   \* the task in the execution graph
    holds,  \* the receipts whose claim the file system and git bear out now
    proc,   \* per process: where its operation is and what it remembers
    calls   \* number of operations begun

vars == <<task, holds, proc, calls>>

Entry == [kind : {"tool-receipt", "other"}, ref : Receipt \cup Note]

Idle == [pc |-> "idle"]

ProcState ==
    {Idle}
    \cup [pc : {"assign-move", "assign-own"}, hand : Hand]
    \cup [pc : {"submit-progress", "submit-evidence", "submit-move"}, receipt : Receipt]
    \cup [pc : {"abort"}]
    \cup [pc : {"primary"}, receipt : Receipt, entry : Nat, risky : BOOLEAN]
    \cup [pc : {"refute"}, receipt : Receipt, entry : Nat, verdict : BOOLEAN]
    \cup [pc : {"conclude"}, receipt : Receipt, entry : Nat, verdict : BOOLEAN]
    \cup [pc : {"reject"}]

TypeOK ==
    /\ task \in [status : Status, owner : Hand \cup {Generic}, evidence : Seq(Entry)]
    /\ holds \subseteq Receipt
    /\ proc \in [Proc -> ProcState]
    /\ calls \in Nat

Init ==
    /\ task \in [status : StartStatus, owner : {Generic}, evidence : {<<>>}]
    /\ holds \in SUBSET Receipt
    /\ proc = [p \in Proc |-> Idle]
    /\ calls = 0

-----------------------------------------------------------------------------
(* The calls into the execution graph *)

ToolReceipt(r) == [kind |-> "tool-receipt", ref |-> r]
Other(r) == [kind |-> "other", ref |-> r]

\* The task after a move to `to' citing `refs' (at most one): the refs become
\* evidence first, and stay when the edge then turns out to be illegal.
AfterMove(to, actor, refs) ==
    LET cited == [task EXCEPT !.evidence = @ \o [i \in DOMAIN refs |-> Other(refs[i])]] IN
    IF MayMove(task.status, to, actor, refs # <<>>, cited.evidence # <<>>)
    THEN [cited EXCEPT !.status = to]
    ELSE cited

Moves(to, actor, refs) == task' = AfterMove(to, actor, refs)

\* One that throws ends the operation it is part of.
Succeeds(to, actor, refs) ==
    MayMove(task.status, to, actor, refs # <<>>, task.evidence \o refs # <<>>)

Goto(p, state) == proc' = [proc EXCEPT ![p] = state]

\* An operation of p begins.
Begin(p) ==
    /\ proc[p] = Idle
    /\ calls < MaxCalls
    /\ calls' = calls + 1

\* Mutant: a generic move may go to the verifier's statuses too.
GenericMoveAnywhere(p, to, actor, refs) ==
    /\ Begin(p)
    /\ AfterMove(to, actor, refs) # task
    /\ Moves(to, actor, refs)
    /\ UNCHANGED <<holds, proc>>

\* `atlas task move' and the other generic callers: any status but the two
\* only the verifier may set.
GenericMove(p, to, actor, refs) ==
    /\ Begin(p)
    /\ to \notin FinalStatus
    /\ AfterMove(to, actor, refs) # task
    /\ Moves(to, actor, refs)
    /\ UNCHANGED <<holds, proc>>

\* reassignOwner refuses a 'hand:' owner.
GenericReassign(p) ==
    /\ Begin(p)
    /\ task' = [task EXCEPT !.owner = Generic]
    /\ UNCHANGED <<holds, proc>>

-----------------------------------------------------------------------------
(* assignHand *)

ActiveHandOwner == task.owner \in Hand /\ task.status \in {"delegated", "in-progress"}

AssignHand(p, h, unattended) ==
    /\ Begin(p)
    /\ ~(unattended /\ h \in ForegroundOnly)
    /\ ~ActiveHandOwner
    /\ Goto(p, [pc |-> "assign-move", hand |-> h])
    /\ UNCHANGED <<task, holds>>

AssignMove(p) ==
    /\ proc[p].pc = "assign-move"
    /\ Moves("delegated", "atlas", <<>>)
    /\ Goto(p, IF Succeeds("delegated", "atlas", <<>>)
               THEN [proc[p] EXCEPT !.pc = "assign-own"] ELSE Idle)
    /\ UNCHANGED <<holds, calls>>

AssignOwner(p) ==
    /\ proc[p].pc = "assign-own"
    /\ task' = [task EXCEPT !.owner = proc[p].hand]
    /\ Goto(p, Idle)
    /\ UNCHANGED <<holds, calls>>

-----------------------------------------------------------------------------
(* submitReceipt *)

AlreadySubmitted(r) == ToolReceipt(r) \in ToSet(task.evidence)

\* A receipt the task already has is answered with the task as it is.
SubmitReceipt(p, r) ==
    /\ Begin(p)
    /\ Goto(p, CASE AlreadySubmitted(r) -> Idle
                 [] ~AlreadySubmitted(r) /\ task.status = "delegated" ->
                      [pc |-> "submit-progress", receipt |-> r]
                 [] OTHER -> [pc |-> "submit-evidence", receipt |-> r])
    /\ UNCHANGED <<task, holds>>

SubmitProgress(p) ==
    /\ proc[p].pc = "submit-progress"
    /\ Moves("in-progress", "hand", <<>>)
    /\ Goto(p, IF Succeeds("in-progress", "hand", <<>>)
               THEN [proc[p] EXCEPT !.pc = "submit-evidence"] ELSE Idle)
    /\ UNCHANGED <<holds, calls>>

SubmitEvidence(p) ==
    /\ proc[p].pc = "submit-evidence"
    /\ task' = [task EXCEPT !.evidence = Append(@, ToolReceipt(proc[p].receipt))]
    /\ Goto(p, [proc[p] EXCEPT !.pc = "submit-move"])
    /\ UNCHANGED <<holds, calls>>

SubmitMove(p) ==
    /\ proc[p].pc = "submit-move"
    /\ Moves("evidence-submitted", "hand", <<proc[p].receipt>>)
    /\ Goto(p, Idle)
    /\ UNCHANGED <<holds, calls>>

-----------------------------------------------------------------------------
(* abortHandTask *)

AbortHandTask(p) ==
    /\ Begin(p)
    /\ task.status \in {"delegated", "in-progress"}
    /\ Goto(p, [pc |-> "abort"])
    /\ UNCHANGED <<task, holds>>

AbortMove(p) ==
    /\ proc[p].pc = "abort"
    /\ Moves("blocked", "atlas", <<>>)
    /\ Goto(p, Idle)
    /\ UNCHANGED <<holds, calls>>

-----------------------------------------------------------------------------
(* verifyAndTransition *)

ReceiptEntries == {i \in DOMAIN task.evidence : task.evidence[i].kind = "tool-receipt"}

\* findLatestReceiptEvidence: the last entry of kind 'tool-receipt'.
LatestReceipt == CHOOSE i \in ReceiptEntries : \A j \in ReceiptEntries : j <= i

VerifyAndTransition(p) ==
    /\ Begin(p)
    /\ task.status = "evidence-submitted"
    /\ Goto(p, IF ReceiptEntries = {}
               THEN [pc |-> "reject"]
               ELSE [pc |-> "primary",
                     receipt |-> task.evidence[LatestReceipt].ref,
                     entry |-> LatestReceipt,
                     risky |-> task.owner \in Risky])
    /\ UNCHANGED <<task, holds>>

\* verify: a narrative never holds; the others are looked up now.
Verify(r) == r \in holds \ Narrative

VerifyPrimary(p) ==
    /\ proc[p].pc = "primary"
    /\ Goto(p, [pc |-> IF proc[p].risky THEN "refute" ELSE "conclude",
                receipt |-> proc[p].receipt, entry |-> proc[p].entry,
                verdict |-> Verify(proc[p].receipt)])
    /\ UNCHANGED <<task, holds, calls>>

\* runRefuter: the same check once more; a disagreement rejects.
RunRefuter(p) ==
    /\ proc[p].pc = "refute"
    /\ Goto(p, [proc[p] EXCEPT !.pc = "conclude",
                               !.verdict = @ /\ Verify(proc[p].receipt)])
    /\ UNCHANGED <<task, holds, calls>>

Conclude(p) ==
    /\ proc[p].pc \in {"conclude", "reject"}
    /\ IF proc[p].pc = "conclude" /\ proc[p].verdict
       THEN Moves("verified", "atlas", <<proc[p].receipt>>)
       ELSE Moves("rejected", "atlas", <<>>)
    /\ Goto(p, Idle)
    /\ UNCHANGED <<holds, calls>>

-----------------------------------------------------------------------------

\* Files and commits come and go.
WorldChanges ==
    /\ holds' \in SUBSET Receipt
    /\ holds' # holds
    /\ UNCHANGED <<task, proc, calls>>

Crash(p) ==
    /\ Crashes
    /\ proc[p] # Idle
    /\ Goto(p, Idle)
    /\ UNCHANGED <<task, holds, calls>>

Operation(p) ==
    \/ \E to \in Status, a \in Actor, refs \in {<<>>} \cup {<<n>> : n \in Note} :
         GenericMove(p, to, a, refs)
    \/ GenericReassign(p)
    \/ \E h \in Hand, u \in BOOLEAN : AssignHand(p, h, u)
    \/ \E r \in Receipt : SubmitReceipt(p, r)
    \/ AbortHandTask(p)
    \/ VerifyAndTransition(p)

Continue(p) ==
    \/ AssignMove(p) \/ AssignOwner(p)
    \/ SubmitProgress(p) \/ SubmitEvidence(p) \/ SubmitMove(p)
    \/ AbortMove(p)
    \/ VerifyPrimary(p) \/ RunRefuter(p) \/ Conclude(p)
    \/ Crash(p)

Next == WorldChanges \/ \E p \in Proc : Operation(p) \/ Continue(p)

Spec == Init /\ [][Next]_vars

-----------------------------------------------------------------------------
(* Properties *)

\* A verified task has a submitted receipt that something other than prose
\* can bear out: neither a bare note nor a narrative is ever enough, however
\* the generic moves, the submissions and the verifications interleave.
VerifiedHasReceipt ==
    task.status = "verified" =>
        \E i \in ReceiptEntries : task.evidence[i].ref \notin Narrative
=============================================================================
