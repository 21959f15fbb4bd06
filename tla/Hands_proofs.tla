---------------------------- MODULE Hands_proofs ----------------------------
(***************************************************************************)
(* Proofs about Hands, for any number of processes, hands, receipts and    *)
(* calls, of processes that may die between any two of them: a verified    *)
(* task has a receipt that is not just prose.                              *)
(*                                                                         *)
(* The invariant is not inductive as it stands.  A verification remembers  *)
(* the receipt it found and the verdict on it while other processes move   *)
(* the task; that it may still conclude rests on two facts: evidence is    *)
(* only ever added, so that the entry it found is there yet, and a verdict *)
(* in favour was given on no narrative, whatever becomes of the files.     *)
(***************************************************************************)
EXTENDS Hands, SequenceTheorems, WellFoundedInduction, TLAPS

-----------------------------------------------------------------------------
(* The invariant *)

\* The receipt a verification goes by is in the task's evidence, and no
\* narrative once the verdict is in its favour.
Founded(c, evidence) ==
    /\ c.pc \in {"primary", "refute", "conclude"} =>
         /\ c.entry \in DOMAIN evidence
         /\ evidence[c.entry] = ToolReceipt(c.receipt)
    /\ c.pc \in {"refute", "conclude"} /\ c.verdict => c.receipt \notin Narrative

\* What is taken for a receipt was submitted as one.
SoundEntry == {e \in Entry : e.kind = "tool-receipt" => e.ref \in Receipt}

TaskType == [status : Status, owner : Hand \cup {Generic}, evidence : Seq(SoundEntry)]

HandsInv ==
    /\ TypeOK
    /\ task \in TaskType
    /\ \A p \in Proc : Founded(proc[p], task.evidence)
    /\ VerifiedHasReceipt

-----------------------------------------------------------------------------
(* Lemmas *)

\* A set of numbers up to n that is not empty has a greatest element: the
\* one that is the least away from n.
LEMMA GreatestIndex ==
    ASSUME NEW n \in Nat, NEW S \in SUBSET (1 .. n), S # {}
    PROVE  \E i \in S : \A j \in S : j <= i
<1> DEFINE less == OpToRel(<, Nat)
           T == {m \in Nat : \E i \in S : m = n - i}
<1>1. \A i \in S : n - i \in T
  OBVIOUS
<1>2. T # {} /\ T \subseteq Nat
  BY <1>1
<1>3. IsWellFoundedOn(less, Nat)
  BY NatLessThanWellFounded
<1>4. \A k, m \in Nat : k < m => <<k, m>> \in less
  BY DEF OpToRel
<1>5. \A m \in T : \E i \in S : m = n - i
  OBVIOUS
<1> HIDE DEF less, T
<1>6. PICK k \in T : \A m \in T : <<m, k>> \notin less
  BY <1>2, <1>3, WFMin
<1>7. \A m \in T : ~(m < k)
  BY <1>2, <1>4, <1>6
<1>8. PICK i \in S : k = n - i
  BY <1>5, <1>6
<1>9. \A j \in S : ~(n - j < n - i)
  BY <1>1, <1>7, <1>8
<1>10. \A j \in S : j <= i
  BY <1>9
<1> QED BY <1>10

\* findLatestReceiptEvidence finds one when there is one.
LEMMA LatestIsOne ==
    ASSUME task.evidence \in Seq(SoundEntry), ReceiptEntries # {}
    PROVE  LatestReceipt \in ReceiptEntries
<1>1. ReceiptEntries \in SUBSET (1 .. Len(task.evidence)) /\ Len(task.evidence) \in Nat
  BY DEF ReceiptEntries
<1>2. \E i \in ReceiptEntries : \A j \in ReceiptEntries : j <= i
  BY <1>1, GreatestIndex
<1> QED BY <1>2 DEF LatestReceipt

\* The evidence, with more after it, still has what it had.
LEMMA EntriesStay ==
    ASSUME task.evidence \in Seq(SoundEntry), NEW more \in Seq(SoundEntry),
           task'.evidence = task.evidence \o more
    PROVE  /\ \A i \in DOMAIN task.evidence :
                i \in DOMAIN task'.evidence /\ task'.evidence[i] = task.evidence[i]
           /\ \A i \in ReceiptEntries : i \in ReceiptEntries'
BY DEF ReceiptEntries

\* What the calls do to the task: more evidence perhaps, and perhaps a status.
Grows(to) ==
    /\ task' \in TaskType
    /\ \E more \in Seq(SoundEntry) : task'.evidence = task.evidence \o more
    /\ task'.status \in {task.status, to}

LEMMA TaskFits ==
    ASSUME NEW t \in TaskType
    PROVE  t \in [status : Status, owner : Hand \cup {Generic}, evidence : Seq(Entry)]
<1>1. t.evidence \in Seq(SoundEntry)
  BY DEF TaskType
<1>2. \A i \in 1 .. Len(t.evidence) : t.evidence[i] \in Entry
  BY <1>1 DEF SoundEntry
<1>3. t.evidence \in Seq(Entry)
  BY <1>1, <1>2
<1> QED BY <1>3 DEF TaskType

LEMMA SameGrows ==
    ASSUME task \in TaskType, NEW to
    PROVE  /\ UNCHANGED task => Grows(to)
           /\ \A o \in Hand \cup {Generic} : task' = [task EXCEPT !.owner = o] => Grows(to)
<1>1. task.evidence \in Seq(SoundEntry) /\ <<>> \in Seq(SoundEntry)
  BY DEF TaskType
<1>2. task.evidence = task.evidence \o <<>>
  BY <1>1
<1> QED BY <1>1, <1>2 DEF Grows, TaskType

LEMMA MoveGrows ==
    ASSUME task \in TaskType, NEW to \in Status, NEW actor,
           NEW refs \in {<<>>} \cup {<<n>> : n \in Receipt \cup Note}, Moves(to, actor, refs)
    PROVE  Grows(to)
<1> DEFINE more == [i \in DOMAIN refs |-> Other(refs[i])]
           all == task.evidence \o more
           cited == [task EXCEPT !.evidence = all]
<1>1. more \in Seq(SoundEntry)
  <2>1. /\ Len(refs) \in Nat /\ DOMAIN refs = 1 .. Len(refs)
        /\ \A i \in 1 .. Len(refs) : refs[i] \in Receipt \cup Note
    <3>1. CASE refs = <<>>
      BY <3>1
    <3>2. CASE \E n \in Receipt \cup Note : refs = <<n>>
      BY <3>2
    <3> QED BY <3>1, <3>2
  <2>2. \A i \in 1 .. Len(refs) : Other(refs[i]) \in SoundEntry
    BY <2>1 DEF Other, Entry, SoundEntry
  <2>3. more \in [1 .. Len(refs) -> SoundEntry]
    BY <2>1, <2>2
  <2> HIDE DEF more
  <2> QED BY <2>1, <2>3, SeqDef
<1>2. task' = cited \/ task' = [cited EXCEPT !.status = to]
  BY DEF Moves, AfterMove
<1> HIDE DEF more
<1>3. all \in Seq(SoundEntry)
  BY <1>1 DEF TaskType
<1> HIDE DEF all
<1>4. cited \in TaskType /\ cited.evidence = all /\ cited.status = task.status
  BY <1>3 DEF TaskType
<1> HIDE DEF cited
<1>5. task' \in TaskType /\ task'.evidence = all /\ task'.status \in {cited.status, to}
  BY <1>2, <1>4 DEF TaskType
<1> QED BY <1>1, <1>4, <1>5 DEF Grows, all

LEMMA HandsInvInit == Init => HandsInv
<1> SUFFICES ASSUME Init PROVE HandsInv
  OBVIOUS
<1>1. /\ task \in [status : StartStatus, owner : {Generic}, evidence : {<<>>}]
      /\ \A p \in Proc : proc[p] = Idle
      /\ proc \in [Proc -> {Idle}] /\ holds \subseteq Receipt /\ calls = 0
  BY DEF Init
<1>2. task \in TaskType /\ task.status # "verified"
  <2>1. StartStatus \subseteq Status /\ "verified" \notin StartStatus
    BY HandsAssumption DEF EvidenceStatus
  <2>2. <<>> \in Seq(SoundEntry)
    OBVIOUS
  <2> QED BY <1>1, <2>1, <2>2 DEF TaskType
<1>3. TypeOK
  <2>1. task \in [status : Status, owner : Hand \cup {Generic}, evidence : Seq(Entry)]
    BY <1>2, TaskFits
  <2> QED BY <1>1, <2>1 DEF TypeOK, ProcState
<1>4. \A p \in Proc : Founded(proc[p], task.evidence)
  BY <1>1 DEF Founded, Idle
<1> QED BY <1>2, <1>3, <1>4 DEF HandsInv, VerifiedHasReceipt

-----------------------------------------------------------------------------
(* The steps *)

\* A step that gives the task no new status 'verified', and leaves p where it
\* is, or at a place that goes by no receipt.
LEMMA HandsInvStep ==
    ASSUME HandsInv, NEW to, to # "verified", Grows(to),
           NEW p \in Proc, NEW c \in ProcState, Founded(c, task'.evidence), proc' = [proc EXCEPT ![p] = c],
           holds' \subseteq Receipt, calls' \in Nat
    PROVE  HandsInv'
<1>1. task \in TaskType /\ task' \in TaskType
  BY DEF HandsInv, Grows
<1>2. /\ \A i \in DOMAIN task.evidence :
           i \in DOMAIN task'.evidence /\ task'.evidence[i] = task.evidence[i]
      /\ \A i \in ReceiptEntries : i \in ReceiptEntries'
  <2>1. task.evidence \in Seq(SoundEntry)
    BY <1>1 DEF TaskType
  <2> QED BY <2>1, EntriesStay DEF Grows
<1>3. TypeOK'
  BY <1>1, TaskFits DEF TypeOK, HandsInv
<1>4. \A q \in Proc : proc'[q] = IF q = p THEN c ELSE proc[q]
  BY DEF HandsInv, TypeOK
<1>5. \A q \in Proc : Founded(proc'[q], task'.evidence)
  BY <1>2, <1>4 DEF HandsInv, Founded
<1>6. VerifiedHasReceipt'
  BY <1>2 DEF HandsInv, VerifiedHasReceipt, Grows, ReceiptEntries
<1> QED BY <1>1, <1>3, <1>5, <1>6 DEF HandsInv

\* The same for a step at a place that needs no receipt.
LEMMA HandsInvMove ==
    ASSUME HandsInv, NEW to, to # "verified", Grows(to),
           NEW p \in Proc, NEW c \in ProcState, c.pc \notin {"primary", "refute", "conclude"},
           proc' = [proc EXCEPT ![p] = c],
           holds' \subseteq Receipt, calls' \in Nat
    PROVE  HandsInv'
<1>1. Founded(c, task'.evidence)
  BY DEF Founded
<1> QED BY <1>1, HandsInvStep

\* And of a step that moves no process.
LEMMA HandsInvQuiet ==
    ASSUME HandsInv, NEW to, to # "verified", Grows(to), UNCHANGED proc,
           holds' \subseteq Receipt, calls' \in Nat
    PROVE  HandsInv'
<1>1. task \in TaskType /\ task' \in TaskType
  BY DEF HandsInv, Grows
<1>2. /\ \A i \in DOMAIN task.evidence :
           i \in DOMAIN task'.evidence /\ task'.evidence[i] = task.evidence[i]
      /\ \A i \in ReceiptEntries : i \in ReceiptEntries'
  <2>1. task.evidence \in Seq(SoundEntry)
    BY <1>1 DEF TaskType
  <2> QED BY <2>1, EntriesStay DEF Grows
<1>3. TypeOK'
  BY <1>1, TaskFits DEF TypeOK, HandsInv
<1>4. \A q \in Proc : Founded(proc'[q], task'.evidence)
  BY <1>2 DEF HandsInv, Founded
<1>5. VerifiedHasReceipt'
  BY <1>2 DEF HandsInv, VerifiedHasReceipt, Grows, ReceiptEntries
<1> QED BY <1>1, <1>3, <1>4, <1>5 DEF HandsInv

LEMMA IdleFits == Idle \in ProcState /\ Idle.pc = "idle"
BY DEF Idle, ProcState

LEMMA OperationKeeps ==
    ASSUME HandsInv, NEW p \in Proc, Operation(p)
    PROVE  HandsInv'
<1>1. task \in TaskType /\ TypeOK /\ calls' \in Nat
  <2>1. calls' = calls + 1
    BY DEF Operation, Begin, GenericMove, GenericReassign, AssignHand, SubmitReceipt,
           AbortHandTask, VerifyAndTransition
  <2> QED BY <2>1 DEF HandsInv, TypeOK
<1>2. task.evidence \in Seq(SoundEntry) /\ task.owner \in Hand \cup {Generic}
  BY <1>1 DEF TaskType
<1>3. ASSUME NEW to \in Status, NEW a \in Actor, NEW refs \in {<<>>} \cup {<<n>> : n \in Note},
             GenericMove(p, to, a, refs)
      PROVE  HandsInv'
  <2>1. to # "verified" /\ Moves(to, a, refs) /\ UNCHANGED <<holds, proc>>
    BY <1>3 DEF GenericMove, FinalStatus
  <2>2. refs \in {<<>>} \cup {<<n>> : n \in Receipt \cup Note}
    OBVIOUS
  <2>3. Grows(to)
    BY <1>1, <2>1, <2>2, MoveGrows
  <2> QED BY <1>1, <2>1, <2>3, HandsInvQuiet DEF TypeOK
<1>4. CASE GenericReassign(p)
  <2>1. Grows("closed") /\ UNCHANGED <<holds, proc>>
    BY <1>1, <1>4, SameGrows DEF GenericReassign
  <2> QED BY <1>1, <2>1, HandsInvQuiet DEF TypeOK
\* The other operations only begin, at a place of their own.
<1>5. ASSUME NEW c \in ProcState, Founded(c, task'.evidence), Goto(p, c), UNCHANGED <<task, holds>>
      PROVE  HandsInv'
  <2>1. Grows("closed")
    BY <1>1, <1>5, SameGrows
  <2> QED BY <1>1, <1>5, <2>1, HandsInvStep DEF Goto, TypeOK
<1>6. ASSUME NEW c \in ProcState, c.pc \notin {"primary", "refute", "conclude"}, Goto(p, c),
             UNCHANGED <<task, holds>>
      PROVE  HandsInv'
  <2>1. Founded(c, task'.evidence)
    BY <1>6 DEF Founded
  <2> QED BY <1>5, <1>6, <2>1
<1>7. ASSUME NEW h \in Hand, NEW u \in BOOLEAN, AssignHand(p, h, u) PROVE HandsInv'
  <2> DEFINE c == [pc |-> "assign-move", hand |-> h]
  <2>1. c \in ProcState /\ c.pc \notin {"primary", "refute", "conclude"}
    BY DEF ProcState
  <2> HIDE DEF c
  <2>2. Goto(p, c) /\ UNCHANGED <<task, holds>>
    BY <1>7 DEF AssignHand, c
  <2> QED BY <1>6, <2>1, <2>2
<1>8. ASSUME NEW r \in Receipt, SubmitReceipt(p, r) PROVE HandsInv'
  <2>1. PICK c \in {Idle, [pc |-> "submit-progress", receipt |-> r],
                    [pc |-> "submit-evidence", receipt |-> r]} :
          Goto(p, c) /\ UNCHANGED <<task, holds>>
    BY <1>8 DEF SubmitReceipt
  <2>2. c \in ProcState /\ c.pc \notin {"primary", "refute", "conclude"}
    BY IdleFits DEF ProcState
  <2> QED BY <1>6, <2>1, <2>2
<1>9. CASE AbortHandTask(p)
  <2> DEFINE c == [pc |-> "abort"]
  <2>1. c \in ProcState /\ c.pc \notin {"primary", "refute", "conclude"}
    BY DEF ProcState
  <2> HIDE DEF c
  <2>2. Goto(p, c) /\ UNCHANGED <<task, holds>>
    BY <1>9 DEF AbortHandTask, c
  <2> QED BY <1>6, <2>1, <2>2
<1>10. CASE VerifyAndTransition(p)
  <2>1. UNCHANGED <<task, holds>>
    BY <1>10 DEF VerifyAndTransition
  <2>2. CASE ReceiptEntries = {}
    <3> DEFINE c == [pc |-> "reject"]
    <3>1. c \in ProcState /\ c.pc \notin {"primary", "refute", "conclude"}
      BY DEF ProcState
    <3>2. Goto(p, c)
      BY <1>10, <2>2 DEF VerifyAndTransition
    <3> HIDE DEF c
    <3> QED BY <1>6, <2>1, <3>1, <3>2
  <2>3. CASE ReceiptEntries # {}
    <3> DEFINE e == LatestReceipt
               risky == task.owner \in Risky
               c == [pc |-> "primary", receipt |-> task.evidence[e].ref, entry |-> e,
                     risky |-> risky]
    <3>1. e \in ReceiptEntries
      BY <1>2, <2>3, LatestIsOne
    <3>2. e \in Nat /\ task.evidence[e] \in SoundEntry /\ task.evidence[e].kind = "tool-receipt"
      BY <1>2, <3>1 DEF ReceiptEntries
    <3>3. task.evidence[e].ref \in Receipt
      BY <3>2 DEF SoundEntry
    <3>4. Goto(p, c)
      BY <1>10, <2>3 DEF VerifyAndTransition
    <3> HIDE DEF e, risky
    <3>5. c \in ProcState /\ c.pc = "primary" /\ c.entry = e /\ c.receipt = task.evidence[e].ref
      <4>1. risky \in BOOLEAN
        BY DEF risky
      <4> QED BY <3>2, <3>3, <4>1 DEF ProcState
    <3> HIDE DEF c
    <3>6. Founded(c, task'.evidence)
      <4>1. e \in DOMAIN task.evidence /\ task.evidence[e] = ToolReceipt(task.evidence[e].ref)
        BY <3>1, <3>2 DEF ReceiptEntries, ToolReceipt, SoundEntry, Entry
      <4> QED BY <2>1, <3>5, <4>1 DEF Founded
    <3> QED BY <1>5, <2>1, <3>4, <3>5, <3>6
  <2> QED BY <2>2, <2>3
<1> QED BY <1>3, <1>4, <1>7, <1>8, <1>9, <1>10 DEF Operation

LEMMA ContinueKeeps ==
    ASSUME HandsInv, NEW p \in Proc, Continue(p)
    PROVE  HandsInv'
<1>1. /\ task \in TaskType /\ TypeOK /\ task.evidence \in Seq(SoundEntry)
      /\ holds' \subseteq Receipt /\ calls' \in Nat /\ proc[p] \in ProcState
  <2>1. UNCHANGED <<holds, calls>>
    BY DEF Continue, AssignMove, AssignOwner, SubmitProgress, SubmitEvidence, SubmitMove,
           AbortMove, VerifyPrimary, RunRefuter, Conclude, Crash
  <2> QED BY <2>1 DEF HandsInv, TypeOK, TaskType
\* A step of a move to anything but 'verified', to a place that needs no receipt.
<1>2. ASSUME NEW to \in Status \ {"verified"}, NEW actor,
             NEW refs \in {<<>>} \cup {<<n>> : n \in Receipt \cup Note}, Moves(to, actor, refs),
             NEW c \in ProcState, c.pc \notin {"primary", "refute", "conclude"}, Goto(p, c)
      PROVE  HandsInv'
  <2>1. Grows(to)
    BY <1>1, <1>2, MoveGrows
  <2> QED BY <1>1, <1>2, <2>1, HandsInvMove DEF Goto
\* A step that leaves the task as it is, to a place that has its grounds.
<1>3. ASSUME NEW c \in ProcState, Founded(c, task'.evidence), Goto(p, c), UNCHANGED task
      PROVE  HandsInv'
  <2>1. Grows("closed")
    BY <1>1, <1>3, SameGrows
  <2> QED BY <1>1, <1>3, <2>1, HandsInvStep DEF Goto
<1>4. CASE AssignMove(p)
  <2>1. PICK c \in {Idle, [proc[p] EXCEPT !.pc = "assign-own"]} :
          Goto(p, c) /\ Moves("delegated", "atlas", <<>>) /\ proc[p].pc = "assign-move"
    BY <1>4 DEF AssignMove
  <2>2. c \in ProcState /\ c.pc \notin {"primary", "refute", "conclude"}
    BY <1>1, <2>1, IdleFits DEF ProcState, Idle
  <2> QED BY <1>2, <2>1, <2>2 DEF Status
<1>5. CASE AssignOwner(p)
  <2>1. proc[p].pc = "assign-own" /\ task' = [task EXCEPT !.owner = proc[p].hand] /\ Goto(p, Idle)
    BY <1>5 DEF AssignOwner
  <2>2. proc[p].hand \in Hand
    BY <1>1, <2>1 DEF ProcState, Idle
  <2>3. Grows("closed")
    BY <1>1, <2>1, <2>2, SameGrows
  <2> QED BY <1>1, <2>1, <2>3, IdleFits, HandsInvMove DEF Goto
<1>6. CASE SubmitProgress(p)
  <2>1. PICK c \in {Idle, [proc[p] EXCEPT !.pc = "submit-evidence"]} :
          Goto(p, c) /\ Moves("in-progress", "hand", <<>>) /\ proc[p].pc = "submit-progress"
    BY <1>6 DEF SubmitProgress
  <2>2. c \in ProcState /\ c.pc \notin {"primary", "refute", "conclude"}
    BY <1>1, <2>1, IdleFits DEF ProcState, Idle
  <2> QED BY <1>2, <2>1, <2>2 DEF Status
<1>7. CASE SubmitEvidence(p)
  <2> DEFINE c == [proc[p] EXCEPT !.pc = "submit-move"]
             more == <<ToolReceipt(proc[p].receipt)>>
  <2>1. /\ proc[p].pc = "submit-evidence" /\ Goto(p, c)
        /\ task' = [task EXCEPT !.evidence = Append(@, ToolReceipt(proc[p].receipt))]
    BY <1>7 DEF SubmitEvidence
  <2>2. proc[p].receipt \in Receipt /\ c \in ProcState /\ c.pc = "submit-move"
    BY <1>1, <2>1 DEF ProcState, Idle
  <2>3. ToolReceipt(proc[p].receipt) \in SoundEntry
    BY <2>2 DEF ToolReceipt, Entry, SoundEntry
  <2> HIDE DEF c
  <2>4. /\ Append(task.evidence, ToolReceipt(proc[p].receipt)) = task.evidence \o more
        /\ more \in Seq(SoundEntry) /\ task.evidence \o more \in Seq(SoundEntry)
    BY <1>1, <2>3
  <2> HIDE DEF more
  <2>5. Grows("closed")
    BY <1>1, <2>1, <2>4 DEF Grows, TaskType
  <2> QED BY <1>1, <2>1, <2>2, <2>5, HandsInvMove DEF Goto
<1>8. CASE SubmitMove(p)
  <2>1. /\ proc[p].pc = "submit-move" /\ Goto(p, Idle)
        /\ Moves("evidence-submitted", "hand", <<proc[p].receipt>>)
    BY <1>8 DEF SubmitMove
  <2>2. proc[p].receipt \in Receipt
    BY <1>1, <2>1 DEF ProcState, Idle
  <2> QED BY <1>2, <2>1, <2>2, IdleFits DEF Status
<1>9. CASE AbortMove(p)
  BY <1>2, <1>9, IdleFits DEF AbortMove, Status
<1>10. CASE VerifyPrimary(p)
  <2> DEFINE c == [pc |-> IF proc[p].risky THEN "refute" ELSE "conclude",
                   receipt |-> proc[p].receipt, entry |-> proc[p].entry,
                   verdict |-> Verify(proc[p].receipt)]
  <2>1. proc[p].pc = "primary" /\ Goto(p, c) /\ UNCHANGED task
    BY <1>10 DEF VerifyPrimary
  <2>2. proc[p].receipt \in Receipt /\ proc[p].entry \in Nat
    BY <1>1, <2>1 DEF ProcState, Idle
  <2>3. Verify(proc[p].receipt) \in BOOLEAN
    BY DEF Verify
  <2>4. /\ c.pc \in {"refute", "conclude"} /\ c.receipt = proc[p].receipt
        /\ c.entry = proc[p].entry /\ c.verdict = Verify(proc[p].receipt)
    OBVIOUS
  <2>5. c \in ProcState
    BY <2>2, <2>3 DEF ProcState
  <2> HIDE DEF c
  <2>6. Founded(c, task'.evidence)
    <3>1. c.verdict => c.receipt \notin Narrative
      BY <2>4 DEF Verify
    <3> QED BY <2>1, <2>4, <3>1 DEF HandsInv, Founded
  <2> QED BY <1>3, <2>1, <2>5, <2>6
<1>11. CASE RunRefuter(p)
  <2> DEFINE verdict == proc[p].verdict /\ Verify(proc[p].receipt)
             c == [proc[p] EXCEPT !.pc = "conclude", !.verdict = verdict]
  <2>1. proc[p].pc = "refute" /\ Goto(p, c) /\ UNCHANGED task
    BY <1>11 DEF RunRefuter
  <2>2. verdict \in BOOLEAN /\ (verdict => proc[p].verdict)
    BY DEF Verify
  <2> HIDE DEF verdict
  <2>3. proc[p] \in [pc : {"refute"}, receipt : Receipt, entry : Nat, verdict : BOOLEAN]
    BY <1>1, <2>1 DEF ProcState, Idle
  <2>4. /\ c \in [pc : {"conclude"}, receipt : Receipt, entry : Nat, verdict : BOOLEAN]
        /\ c.receipt = proc[p].receipt /\ c.entry = proc[p].entry /\ c.verdict = verdict
        /\ c.pc = "conclude"
    BY <2>2, <2>3
  <2>5. c \in ProcState
    BY <2>4 DEF ProcState
  <2> HIDE DEF c
  <2>6. Founded(c, task'.evidence)
    <3>1. c.verdict => c.receipt \notin Narrative
      BY <2>1, <2>2, <2>4 DEF HandsInv, Founded
    <3> QED BY <2>1, <2>4, <3>1 DEF HandsInv, Founded
  <2> QED BY <1>3, <2>1, <2>5, <2>6
<1>12. CASE Conclude(p)
  <2>1. proc[p].pc \in {"conclude", "reject"} /\ Goto(p, Idle)
    BY <1>12 DEF Conclude
  <2>2. CASE Moves("rejected", "atlas", <<>>)
    BY <1>2, <2>1, <2>2, IdleFits DEF Status
  <2>3. CASE /\ proc[p].pc = "conclude" /\ proc[p].verdict
             /\ Moves("verified", "atlas", <<proc[p].receipt>>)
    <3> DEFINE e == proc[p].entry
    <3>1. proc[p].receipt \in Receipt
      BY <1>1, <2>3 DEF ProcState, Idle
    <3>2. Grows("verified")
      BY <1>1, <2>3, <3>1, MoveGrows DEF Status
    <3>3. task' \in TaskType /\ e \in DOMAIN task'.evidence
          /\ task'.evidence[e] = ToolReceipt(proc[p].receipt)
      <4>1. e \in DOMAIN task.evidence /\ task.evidence[e] = ToolReceipt(proc[p].receipt)
        BY <2>3 DEF HandsInv, Founded
      <4> QED BY <1>1, <3>2, <4>1, EntriesStay DEF Grows
    <3>4. proc[p].receipt \notin Narrative
      BY <2>3 DEF HandsInv, Founded
    <3>5. VerifiedHasReceipt'
      BY <3>3, <3>4 DEF VerifiedHasReceipt, ReceiptEntries, ToolReceipt
    <3>6. \A q \in Proc : Founded(proc'[q], task'.evidence)
      <4>1. \A q \in Proc : proc'[q] = IF q = p THEN Idle ELSE proc[q]
        BY <1>1, <2>1 DEF Goto, TypeOK
      <4>2. \A i \in DOMAIN task.evidence :
              i \in DOMAIN task'.evidence /\ task'.evidence[i] = task.evidence[i]
        BY <1>1, <3>2, EntriesStay DEF Grows
      <4> QED BY <4>1, <4>2, IdleFits DEF HandsInv, Founded
    <3>7. TypeOK'
      BY <1>1, <2>1, <3>3, IdleFits, TaskFits DEF TypeOK, Goto
    <3> QED BY <3>3, <3>5, <3>6, <3>7 DEF HandsInv
  <2> QED BY <1>12, <2>2, <2>3 DEF Conclude
<1>13. CASE Crash(p)
  <2>1. Goto(p, Idle) /\ UNCHANGED task
    BY <1>13 DEF Crash
  <2> QED BY <1>3, <2>1, IdleFits DEF Founded
<1> QED
  BY <1>4, <1>5, <1>6, <1>7, <1>8, <1>9, <1>10, <1>11, <1>12, <1>13 DEF Continue

LEMMA HandsInvNext ==
    ASSUME HandsInv, [Next]_vars
    PROVE  HandsInv'
<1>1. CASE WorldChanges
  <2>1. Grows("closed")
    BY <1>1, SameGrows DEF WorldChanges, HandsInv
  <2> QED BY <1>1, <2>1, HandsInvQuiet DEF WorldChanges, HandsInv, TypeOK
<1>2. CASE UNCHANGED vars
  BY <1>2 DEF vars, HandsInv, TypeOK, VerifiedHasReceipt, ReceiptEntries, Founded
<1> QED BY <1>1, <1>2, OperationKeeps, ContinueKeeps DEF Next

-----------------------------------------------------------------------------
(* The theorems *)

\* The invariant holds of every run of the hands and those who move their task
\* (hands/exec-graph-adapter.ts).
THEOREM HandsInvariant == Spec => []HandsInv
<1>1. HandsInv /\ [Next]_vars => HandsInv'
  BY HandsInvNext
<1> QED BY HandsInvInit, <1>1, PTL DEF Spec

\* A verified task has a submitted receipt that is no narrative, however the
\* operations interleave and wherever a process dies (verifyAndTransition).
THEOREM VerifiedOnReceipt == Spec => []VerifiedHasReceipt
<1>1. HandsInv => VerifiedHasReceipt
  BY DEF HandsInv
<1> QED BY HandsInvariant, <1>1, PTL
=============================================================================
