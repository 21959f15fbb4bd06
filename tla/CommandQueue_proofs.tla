------------------------ MODULE CommandQueue_proofs -------------------------
(***************************************************************************)
(* Proofs about CommandQueue, for any number of commands, consumers,       *)
(* attempts and faults: no command is executed more often than it may be,  *)
(* a done one was executed with success, and every row keeps the contract  *)
(* of WorkOrder.                                                           *)
(***************************************************************************)
EXTENDS CommandQueue, FiniteSetTheorems, TLAPS

-----------------------------------------------------------------------------
(* The invariants *)

\* The consumers that have claimed m and not executed it yet.
Holders(m) ==
    {c \in Consumer : /\ consumer[c].pc \in {"claimed", "verified", "cleared"}
                      /\ consumer[c].cmd = m}

\* The consumers whose execution of m has passed the nonce ledger.
Past(c, m) == consumer[c].pc \in {"verified", "cleared"} /\ consumer[c].cmd = m

Total(m) == runs[m]["worker"] + runs[m]["runner"]

\* A row in the queue has an attempt left.
AttemptLeft ==
    \A m \in Command :
        /\ row[m].status = "none" => row[m].attempts = 0
        /\ row[m].status = "pending" => row[m].attempts < MaxAttempts

\* An attempt is used up by a claim, and spent once.  The attempts of a row
\* that was removed are not known any more.
Limit(m) == IF row[m].status = "deleted" THEN MaxAttempts ELSE row[m].attempts

Budgeted ==
    \A m \in Command :
        /\ IsFiniteSet(Holders(m))
        /\ Total(m) + Cardinality(Holders(m)) <= Limit(m)

\* The nonce of a command that runs, or ran, is known or too old.
Used(m) == m \in nonces \cup expired

NonceKept ==
    SigningKey /\ ~forgotten =>
        \A m \in Command :
            /\ \A c \in Runner : Past(c, m) => Used(m) /\ runs[m]["runner"] = 0
            /\ \A c, d \in Runner : Past(c, m) /\ Past(d, m) => c = d
            /\ runs[m]["runner"] > 0 => Used(m)
            /\ runs[m]["runner"] <= 1

\* Who completes a command has executed it with success.
DoneRan ==
    /\ DoneWasRun
    /\ \A c \in Consumer : consumer[c].pc = "complete" => consumer[c].cmd \in succeeded

\* The bot works on closed rows, and on each of them once.
BotKnows ==
    /\ bot.pc \in {"notify", "delete"} =>
         \A m \in bot.batch : row[m].status \in {"done", "failed"}
    /\ bot.pc = "delete" =>
         row[bot.cmd].status \in {"done", "failed"} /\ bot.cmd \notin bot.batch

QueueInv == TypeOK /\ AttemptLeft /\ Budgeted /\ NonceKept /\ DoneRan /\ BotKnows

-----------------------------------------------------------------------------
(* The rows *)

RowType == [status : RowStatus, attempts : 0 .. MaxAttempts, stale : BOOLEAN]

\* What one step does to the row of m, and to no other.
RowOf(m) ==
    /\ row' = [row EXCEPT ![m] = row'[m]]
    /\ \/ /\ row[m].status = "none"
          /\ row'[m] = Row("pending", 0)
       \/ /\ row[m].status = "processing"
          /\ row'[m] = [row[m] EXCEPT !.stale = TRUE]
       \/ /\ row[m].status = "pending"
          /\ row'[m] = Row("processing", row[m].attempts + 1)
       \/ /\ row[m].status = "processing"
          /\ \E status \in {"done", "failed"} : row'[m] = Row(status, row[m].attempts)
       \/ /\ row[m].status \in {"done", "failed"}
          /\ bot.pc = "delete" /\ bot.cmd = m
          /\ row'[m] = Row("deleted", 0)

Sweeping == row' = [m \in Command |-> Swept(row[m])]

RowsStep == UNCHANGED row \/ Sweeping \/ \E m \in Command : RowOf(m)

LEMMA RowTyped ==
    ASSUME NEW status \in RowStatus, NEW attempts \in 0 .. MaxAttempts
    PROVE  /\ Row(status, attempts) \in RowType
           /\ Row(status, attempts).status = status
           /\ Row(status, attempts).attempts = attempts
BY DEF Row, RowType

LEMMA SweptTyped ==
    ASSUME NEW r \in RowType
    PROVE  /\ Swept(r) \in RowType
           /\ Swept(r).attempts = r.attempts
           /\ Swept(r).status # r.status =>
                /\ r.status = "processing"
                /\ Swept(r).status = IF r.attempts < MaxAttempts THEN "pending" ELSE "dead"
<1>1. r.status \in RowStatus /\ r.attempts \in 0 .. MaxAttempts
  BY DEF RowType
<1>2. CASE r.status # "processing" \/ ~r.stale
  BY <1>2 DEF Swept
<1>3. CASE ~(r.status # "processing" \/ ~r.stale)
  <2>1. Swept(r) = Row(IF r.attempts < MaxAttempts THEN "pending" ELSE "dead", r.attempts)
    BY <1>3 DEF Swept
  <2> QED BY <1>1, <1>3, <2>1, RowTyped DEF RowStatus
<1> QED BY <1>2, <1>3

\* A patch finds the row claimed, or leaves it.
LEMMA PatchSteps ==
    ASSUME TypeOK, NEW m \in Command, NEW status \in {"done", "failed"}, Patched(m, status)
    PROVE  RowsStep
BY DEF TypeOK, Patched, RowsStep, RowOf

LEMMA RowsChange ==
    ASSUME QueueInv, [Next]_vars
    PROVE  RowsStep
<1> USE DEF QueueInv
<1>1. CASE UNCHANGED vars
  BY <1>1 DEF vars, RowsStep
<1>2. ASSUME NEW m \in Command, Route(m) PROVE RowsStep
  BY <1>2 DEF Route, TypeOK, RowsStep, RowOf
<1>3. ASSUME NEW m \in Command, ClaimAges(m) PROVE RowsStep
  BY <1>3 DEF ClaimAges, TypeOK, RowsStep, RowOf
<1>4. ASSUME NEW m \in Command, SignatureAges(m) PROVE RowsStep
  BY <1>4 DEF SignatureAges, RowsStep
<1>5. ASSUME NEW c \in Consumer, ConsumerStep(c) PROVE RowsStep
  <2>1. CASE Sweep(c)
    BY <2>1 DEF Sweep, RowsStep, Sweeping
  <2>2. ASSUME NEW m \in Command, Claim(c, m) PROVE RowsStep
    BY <2>2 DEF Claim, TypeOK, RowsStep, RowOf
  <2>3. CASE Complete(c)
    <3>1. consumer[c].cmd \in Command
      BY <2>3 DEF Complete, TypeOK, ConsumerState
    <3>2. CASE Patched(consumer[c].cmd, "done")
      BY <3>1, <3>2, PatchSteps
    <3> QED BY <2>3, <3>2 DEF Complete, RowsStep
  <2>4. CASE Fail(c)
    <3>1. consumer[c].cmd \in Command
      BY <2>4 DEF Fail, TypeOK, ConsumerState
    <3>2. CASE Patched(consumer[c].cmd, "failed")
      BY <3>1, <3>2, PatchSteps
    <3> QED BY <2>4, <3>2 DEF Fail, RowsStep
  <2>5. CASE SkipTick(c) \/ Verify(c) \/ CheckRedLine(c) \/ \E ok \in BOOLEAN : Execute(c, ok)
    BY <2>5 DEF SkipTick, Verify, CheckRedLine, Execute, RowsStep
  <2> QED BY <1>5, <2>1, <2>2, <2>3, <2>4, <2>5 DEF ConsumerStep
<1>6. CASE BotStep
  <2>1. CASE DeleteDelivered
    <3>1. bot.cmd \in Command
      BY <2>1 DEF DeleteDelivered, TypeOK, BotState, Polling
    <3> QED BY <2>1, <3>1 DEF DeleteDelivered, BotKnows, TypeOK, RowsStep, RowOf
  <2> QED BY <1>6, <2>1 DEF BotStep, Poll, EndDelivery, Deliver, RowsStep
<1>7. CASE \/ \E c \in Consumer, kept \in SUBSET (nonces \cap expired), torn \in BOOLEAN : Crash(c, kept, torn)
           \/ CrashBot \/ Pause \/ Resume
  BY <1>7 DEF Crash, CrashBot, Pause, Resume, RowsStep
<1> QED BY <1>1, <1>2, <1>3, <1>4, <1>5, <1>6, <1>7 DEF Next

\* The rows stay rows, and those in the queue have an attempt left.
LEMMA RowsTyped ==
    ASSUME QueueInv, RowsStep
    PROVE  row' \in [Command -> RowType] /\ AttemptLeft'
<1>1. row \in [Command -> RowType] /\ AttemptLeft
  BY DEF QueueInv, TypeOK, RowType
<1>2. CASE UNCHANGED row
  BY <1>1, <1>2 DEF AttemptLeft
<1>3. CASE Sweeping
  <2>1. \A m \in Command : row'[m] = Swept(row[m]) /\ row'[m] \in RowType
    BY <1>1, <1>3, SweptTyped DEF Sweeping
  <2>2. row' \in [Command -> RowType]
    BY <1>3, <2>1 DEF Sweeping
  <2> QED BY <1>1, <2>1, <2>2, SweptTyped DEF AttemptLeft
<1>4. ASSUME NEW m \in Command, RowOf(m) PROVE row' \in [Command -> RowType] /\ AttemptLeft'
  <2> DEFINE Fits(r) == /\ r \in RowType
                        /\ r.status = "none" => r.attempts = 0
                        /\ r.status = "pending" => r.attempts < MaxAttempts
  <2>1. Fits(row[m]) /\ row[m].attempts \in 0 .. MaxAttempts
    BY <1>1 DEF AttemptLeft, RowType
  <2>2. Fits(row'[m])
    <3>1. CASE row[m].status = "none" /\ row'[m] = Row("pending", 0)
      BY <3>1, RowTyped, QueueAssumption DEF RowStatus
    <3>2. CASE row[m].status = "processing" /\ row'[m] = [row[m] EXCEPT !.stale = TRUE]
      BY <2>1, <3>2 DEF RowType
    <3>3. CASE row[m].status = "pending" /\ row'[m] = Row("processing", row[m].attempts + 1)
      <4>1. row[m].attempts + 1 \in 0 .. MaxAttempts
        BY <2>1, <3>3, QueueAssumption
      <4> QED BY <3>3, <4>1, RowTyped DEF RowStatus
    <3>4. ASSUME NEW status \in {"done", "failed", "deleted"}, NEW n \in {0, row[m].attempts},
                 row'[m] = Row(status, n)
          PROVE  Fits(row'[m])
      BY <2>1, <3>4, RowTyped, QueueAssumption DEF RowStatus
    <3> QED BY <1>4, <3>1, <3>2, <3>3, <3>4 DEF RowOf
  <2> QED BY <1>1, <1>4, <2>2 DEF RowOf, AttemptLeft
<1> QED BY <1>2, <1>3, <1>4 DEF RowsStep

-----------------------------------------------------------------------------
(* What consumers do to the sets of holders *)

\* The types of what the actions read.
LEMMA ConsumerTyped ==
    ASSUME TypeOK, NEW c \in Consumer
    PROVE  /\ consumer[c].pc \in {"idle", "swept", "claimed", "verified", "cleared", "complete", "fail"}
           /\ consumer[c].pc \notin {"idle", "swept"} => consumer[c].cmd \in Command
BY DEF TypeOK, ConsumerState

LEMMA Becoming ==
    ASSUME TypeOK, NEW c \in Consumer, NEW state \in ConsumerState, Become(c, state)
    PROVE  /\ consumer' \in [Consumer -> ConsumerState]
           /\ consumer'[c] = state
           /\ \A d \in Consumer : d # c => consumer'[d] = consumer[d]
BY DEF TypeOK, Become

LEMMA StatesTyped ==
    ASSUME NEW m \in Command
    PROVE  /\ Idle \in ConsumerState /\ [pc |-> "swept"] \in ConsumerState
           /\ \A pc \in {"claimed", "verified", "cleared", "complete", "fail"} :
                [pc |-> pc, cmd |-> m] \in ConsumerState
BY DEF ConsumerState, Idle

\* One more holder of one command.
LEMMA HolderAdded ==
    ASSUME NEW c \in Consumer, NEW m \in Command, IsFiniteSet(Holders(m)),
           Holders(m)' = Holders(m) \cup {c}, c \notin Holders(m)
    PROVE  IsFiniteSet(Holders(m)') /\ Cardinality(Holders(m)') = Cardinality(Holders(m)) + 1
BY FS_AddElement

\* One less, if it was one.
LEMMA HolderRemoved ==
    ASSUME NEW c \in Consumer, NEW m \in Command, IsFiniteSet(Holders(m)),
           Holders(m)' = Holders(m) \ {c}
    PROVE  /\ IsFiniteSet(Holders(m)')
           /\ Cardinality(Holders(m)') =
                IF c \in Holders(m) THEN Cardinality(Holders(m)) - 1 ELSE Cardinality(Holders(m))
BY FS_RemoveElement

LEMMA HoldersCounted ==
    ASSUME NEW m \in Command, IsFiniteSet(Holders(m))
    PROVE  /\ Cardinality(Holders(m)) \in Nat
           /\ \A c \in Holders(m) : Cardinality(Holders(m)) > 0
<1>1. Cardinality(Holders(m)) \in Nat
  BY FS_CardinalityType
<1>2. Cardinality(Holders(m)) = 0 <=> Holders(m) = {}
  BY FS_EmptySet
<1> QED BY <1>1, <1>2

-----------------------------------------------------------------------------
(* The type invariant *)

\* All of it but the rows.
OthersTyped ==
    /\ consumer \in [Consumer -> ConsumerState]
    /\ bot \in BotState
    /\ nonces \subseteq Command /\ expired \subseteq Command
    /\ paused \in BOOLEAN /\ faults \in 0 .. MaxFaults
    /\ runs \in [Command -> [{"worker", "runner"} -> Nat]]
    /\ succeeded \subseteq Command
    /\ told \in [Command -> Nat]
    /\ forgotten \in BOOLEAN

LEMMA RunCounted ==
    ASSUME TypeOK, NEW m \in Command, NEW k \in {"worker", "runner"},
           runs' = [runs EXCEPT ![m][k] = @ + 1]
    PROVE  /\ runs' \in [Command -> [{"worker", "runner"} -> Nat]]
           /\ runs'[m][k] = runs[m][k] + 1
           /\ \A l \in {"worker", "runner"} : l # k => runs'[m][l] = runs[m][l]
           /\ \A n \in Command : n # m => runs'[n] = runs[n]
BY DEF TypeOK

LEMMA BotTyped ==
    ASSUME TypeOK
    PROVE  /\ bot.pc \in {"notify", "delete"} => bot.batch \in SUBSET Command
           /\ bot.pc = "delete" => bot.cmd \in Command
           /\ Polling \in BotState
           /\ \A batch \in SUBSET Command :
                /\ [pc |-> "notify", batch |-> batch] \in BotState
                /\ \A m \in Command : [pc |-> "delete", batch |-> batch, cmd |-> m] \in BotState
BY DEF TypeOK, BotState, Polling

LEMMA FaultTyped ==
    ASSUME TypeOK, Fault \/ UNCHANGED faults
    PROVE  faults' \in 0 .. MaxFaults
BY QueueAssumption DEF TypeOK, Fault

LEMMA ConsumerStepTyped ==
    ASSUME TypeOK, NEW c \in Consumer, ConsumerStep(c)
    PROVE  OthersTyped'
<1> USE DEF OthersTyped
<1>1. OthersTyped
  BY DEF TypeOK
<1>2. Fault \/ UNCHANGED faults => faults' \in 0 .. MaxFaults
  BY FaultTyped
<1>3. \A state \in ConsumerState : Become(c, state) => consumer' \in [Consumer -> ConsumerState]
  BY Becoming
<1>4. \A m \in Command : /\ Idle \in ConsumerState /\ [pc |-> "swept"] \in ConsumerState
                         /\ \A pc \in {"claimed", "verified", "cleared", "complete", "fail"} :
                              [pc |-> pc, cmd |-> m] \in ConsumerState
  BY StatesTyped
<1>5. Idle \in ConsumerState /\ [pc |-> "swept"] \in ConsumerState
  BY DEF ConsumerState, Idle
<1>6. CASE Sweep(c)
  BY <1>1, <1>2, <1>3, <1>5, <1>6 DEF Sweep
<1>7. CASE SkipTick(c)
  BY <1>1, <1>3, <1>5, <1>7 DEF SkipTick
<1>8. ASSUME NEW m \in Command, Claim(c, m) PROVE OthersTyped'
  BY <1>1, <1>2, <1>3, <1>4, <1>8 DEF Claim
<1>9. CASE Verify(c)
  <2>1. consumer[c].cmd \in Command
    BY <1>9, ConsumerTyped DEF Verify
  <2> QED BY <1>1, <1>3, <1>4, <1>9, <2>1 DEF Verify
<1>10. CASE CheckRedLine(c)
  <2>1. consumer[c].cmd \in Command
    BY <1>10, ConsumerTyped DEF CheckRedLine
  <2> QED BY <1>1, <1>2, <1>3, <1>4, <1>10, <2>1 DEF CheckRedLine
<1>11. ASSUME NEW ok \in BOOLEAN, Execute(c, ok) PROVE OthersTyped'
  <2>1. consumer[c].cmd \in Command
    BY <1>11, ConsumerTyped DEF Execute
  <2>2. runs' \in [Command -> [{"worker", "runner"} -> Nat]]
    BY <1>1, <1>11, <2>1, RunCounted DEF Execute, Kind
  <2>3. consumer' \in [Consumer -> ConsumerState]
    BY <1>3, <1>4, <1>11, <2>1 DEF Execute
  <2> QED BY <1>1, <1>11, <2>1, <2>2, <2>3 DEF Execute
<1>12. CASE Complete(c)
  <2>1. consumer[c].cmd \in Command
    BY <1>12, ConsumerTyped DEF Complete
  <2> QED BY <1>1, <1>2, <1>3, <1>4, <1>12, <2>1 DEF Complete
<1>13. CASE Fail(c)
  BY <1>1, <1>2, <1>3, <1>5, <1>13 DEF Fail
<1> QED BY <1>6, <1>7, <1>8, <1>9, <1>10, <1>11, <1>12, <1>13 DEF ConsumerStep

LEMMA TypeKept ==
    ASSUME QueueInv, [Next]_vars
    PROVE  TypeOK' /\ AttemptLeft'
<1>1. row' \in [Command -> RowType] /\ AttemptLeft'
  BY RowsChange, RowsTyped
<1>2. TypeOK /\ OthersTyped
  BY DEF QueueInv, TypeOK, OthersTyped
<1>3. OthersTyped'
  <2> USE DEF OthersTyped
  <2>1. Fault \/ UNCHANGED faults => faults' \in 0 .. MaxFaults
    BY <1>2, FaultTyped
  <2>2. CASE UNCHANGED vars
    BY <1>2, <2>2 DEF vars
  <2>3. ASSUME NEW m \in Command, Route(m) \/ ClaimAges(m) \/ SignatureAges(m) PROVE OthersTyped'
    BY <1>2, <2>3 DEF Route, ClaimAges, SignatureAges
  <2>4. ASSUME NEW c \in Consumer, ConsumerStep(c) PROVE OthersTyped'
    BY <1>2, <2>4, ConsumerStepTyped
  <2>5. CASE BotStep
    <3>1. CASE Poll
      <4>1. {m \in Command : row[m].status \in {"done", "failed"}} \in SUBSET Command
        OBVIOUS
      <4> QED BY <1>2, <3>1, <4>1, BotTyped DEF Poll
    <3>2. CASE DeleteDelivered
      BY <1>2, <2>1, <3>2, BotTyped DEF DeleteDelivered
    <3>3. CASE EndDelivery
      BY <1>2, <3>3, BotTyped DEF EndDelivery
    <3>4. ASSUME NEW m \in Command, Deliver(m) PROVE OthersTyped'
      <4>1. bot.pc = "notify" /\ bot.batch \in SUBSET Command /\ bot = [pc |-> "notify", batch |-> bot.batch]
        BY <1>2, <3>4 DEF Deliver, TypeOK, BotState, Polling
      <4>2. [bot EXCEPT !.batch = @ \ {m}] = [pc |-> "notify", batch |-> bot.batch \ {m}]
        BY <4>1
      <4>3. bot' \in BotState
        <5>1. bot.batch \ {m} \in SUBSET Command
          BY <4>1
        <5>2. /\ [pc |-> "notify", batch |-> bot.batch \ {m}] \in BotState
              /\ [pc |-> "delete", batch |-> bot.batch \ {m}, cmd |-> m] \in BotState
          BY <1>2, <5>1, BotTyped
        <5>3. \/ bot' = [pc |-> "notify", batch |-> bot.batch \ {m}]
              \/ bot' = [pc |-> "delete", batch |-> bot.batch \ {m}, cmd |-> m]
          BY <3>4, <4>2 DEF Deliver
        <5> QED BY <5>2, <5>3
      <4>4. told' \in [Command -> Nat]
        BY <1>2, <3>4 DEF Deliver
      <4> QED BY <1>2, <2>1, <3>4, <4>3, <4>4 DEF Deliver
    <3> QED BY <2>5, <3>1, <3>2, <3>3, <3>4 DEF BotStep
  <2>6. ASSUME NEW c \in Consumer, NEW kept \in SUBSET (nonces \cap expired), NEW torn \in BOOLEAN,
               Crash(c, kept, torn)
        PROVE  OthersTyped'
    <3>1. consumer' \in [Consumer -> ConsumerState]
      BY <1>2, <2>6, Becoming DEF Crash, ConsumerState, Idle
    <3>2. nonces' \subseteq Command /\ forgotten' \in BOOLEAN
      BY <1>2, <2>6 DEF Crash, Reloaded
    <3> QED BY <1>2, <2>1, <2>6, <3>1, <3>2 DEF Crash
  <2>7. CASE CrashBot \/ Pause \/ Resume
    BY <1>2, <2>1, <2>7, BotTyped DEF CrashBot, Pause, Resume
  <2> QED BY <2>2, <2>3, <2>4, <2>5, <2>6, <2>7 DEF Next
<1> QED BY <1>1, <1>3 DEF TypeOK, OthersTyped, RowType

-----------------------------------------------------------------------------
(* Attempts *)

LEMMA LimitGrows ==
    ASSUME QueueInv, RowsStep, NEW m \in Command
    PROVE  /\ Limit(m) \in Nat /\ Limit(m)' \in Nat
           /\ Limit(m) <= Limit(m)'
           /\ row[m].status = "pending" /\ row'[m].status = "processing" => Limit(m)' = Limit(m) + 1
<1>1. row[m] \in RowType /\ row'[m] \in RowType /\ QueueAssumption
  BY RowsTyped, QueueAssumption DEF QueueInv, TypeOK, RowType
<1>2. CASE row'[m] = row[m]
  BY <1>1, <1>2 DEF Limit, RowType
<1>3. CASE row'[m] = Swept(row[m])
  BY <1>1, <1>3, SweptTyped DEF Limit, RowType
<1>4. CASE RowOf(m)
  <2>1. /\ row[m].attempts \in 0 .. MaxAttempts /\ row'[m].attempts \in 0 .. MaxAttempts
        /\ row[m].status = "none" => row[m].attempts = 0
    BY <1>1 DEF RowType, QueueInv, AttemptLeft
  <2>2. CASE row[m].status = "none" /\ row'[m] = Row("pending", 0)
    BY <2>1, <2>2, RowTyped, QueueAssumption DEF Limit, RowStatus
  <2>3. CASE row[m].status = "processing" /\ row'[m] = [row[m] EXCEPT !.stale = TRUE]
    BY <1>1, <2>1, <2>3 DEF Limit, RowType
  <2>4. CASE row[m].status = "pending" /\ row'[m] = Row("processing", row[m].attempts + 1)
    <3>1. row'[m].status = "processing" /\ row'[m].attempts = row[m].attempts + 1
      BY <2>4 DEF Row
    <3> QED BY <2>1, <2>4, <3>1 DEF Limit
  <2>5. ASSUME row[m].status = "processing", NEW status \in {"done", "failed"},
               row'[m] = Row(status, row[m].attempts)
        PROVE  Limit(m)' = Limit(m) /\ Limit(m) \in Nat
    BY <2>1, <2>5, RowTyped DEF Limit, RowStatus
  <2>6. CASE row[m].status \in {"done", "failed"} /\ row'[m] = Row("deleted", 0)
    <3>1. row'[m].status = "deleted"
      BY <2>6 DEF Row
    <3> QED BY <1>1, <2>1, <2>6, <3>1 DEF Limit
  <2> QED BY <1>4, <2>2, <2>3, <2>4, <2>5, <2>6 DEF RowOf
<1>5. ASSUME NEW n \in Command, n # m, RowOf(n) PROVE row'[m] = row[m]
  BY <1>5 DEF RowOf, QueueInv, TypeOK
<1> QED BY <1>2, <1>3, <1>4, <1>5 DEF RowsStep, Sweeping, QueueInv, TypeOK

\* Nobody claims and nobody executes: the attempts suffice as they did.
LEMMA BudgetKept ==
    ASSUME QueueInv, RowsStep, NEW m \in Command,
           Holders(m)' \subseteq Holders(m), runs'[m] = runs[m]
    PROVE  /\ IsFiniteSet(Holders(m)')
           /\ Total(m)' + Cardinality(Holders(m)') <= Limit(m)'
<1>1. /\ IsFiniteSet(Holders(m)) /\ Total(m) + Cardinality(Holders(m)) <= Limit(m)
      /\ Total(m) \in Nat
  BY DEF QueueInv, Budgeted, Total, TypeOK
<1>2. IsFiniteSet(Holders(m)') /\ Cardinality(Holders(m)') <= Cardinality(Holders(m))
  BY <1>1, FS_Subset
<1>3. Cardinality(Holders(m)) \in Nat /\ Cardinality(Holders(m)') \in Nat
  BY <1>1, <1>2, FS_CardinalityType
<1>4. Limit(m) \in Nat /\ Limit(m)' \in Nat /\ Limit(m) <= Limit(m)'
  BY LimitGrows
<1>5. Total(m)' = Total(m)
  BY DEF Total
<1> QED BY <1>1, <1>2, <1>3, <1>4, <1>5

\* A consumer that is not given a command to execute does not hold more.
LEMMA HoldersShrink ==
    ASSUME TypeOK, NEW c \in Consumer, NEW state \in ConsumerState, Become(c, state),
           state.pc \in {"claimed", "verified", "cleared"} =>
               c \in Holders(state.cmd),
           NEW m \in Command
    PROVE  Holders(m)' \subseteq Holders(m)
BY Becoming DEF Holders

LEMMA BudgetOfClaim ==
    ASSUME QueueInv, NEW c \in Consumer, NEW m \in Command, Claim(c, m)
    PROVE  Budgeted'
<1> SUFFICES ASSUME NEW n \in Command
             PROVE  /\ IsFiniteSet(Holders(n)')
                    /\ Total(n)' + Cardinality(Holders(n)') <= Limit(n)'
  BY DEF Budgeted
<1>1. RowsStep /\ TypeOK /\ row'[m] = Row("processing", row[m].attempts + 1)
  BY DEF Claim, RowsStep, RowOf, QueueInv, TypeOK
<1>2. Idle \in ConsumerState /\ [pc |-> "claimed", cmd |-> m] \in ConsumerState
  BY StatesTyped
<1>3. CASE Become(c, Idle)
  BY <1>1, <1>2, <1>3, HoldersShrink, BudgetKept DEF Claim, Idle
<1>4. CASE Become(c, [pc |-> "claimed", cmd |-> m])
  <2>1. c \notin Holders(m)
    BY DEF Claim, MayClaim, Idle, Holders
  <2>2. Holders(n)' = IF n = m THEN Holders(m) \cup {c} ELSE Holders(n) \ {c}
    BY <1>1, <1>2, <1>4, Becoming DEF Holders
  <2>3. CASE n # m
    BY <1>1, <2>2, <2>3, BudgetKept DEF Claim
  <2>4. CASE n = m
    <3>1. /\ IsFiniteSet(Holders(m)) /\ Total(m) + Cardinality(Holders(m)) <= Limit(m)
          /\ Total(m) \in Nat /\ Total(m)' = Total(m)
      BY DEF QueueInv, Budgeted, Total, TypeOK, Claim
    <3>2. IsFiniteSet(Holders(m)') /\ Cardinality(Holders(m)') = Cardinality(Holders(m)) + 1
      BY <2>1, <2>2, <2>4, <3>1, HolderAdded
    <3>3. Limit(m) \in Nat /\ Limit(m)' = Limit(m) + 1
      BY <1>1, LimitGrows DEF Claim, Row
    <3>4. Cardinality(Holders(m)) \in Nat
      BY <3>1, HoldersCounted
    <3> QED BY <2>4, <3>1, <3>2, <3>3, <3>4
  <2> QED BY <2>3, <2>4
<1> QED BY <1>3, <1>4 DEF Claim

LEMMA BudgetOfExecute ==
    ASSUME QueueInv, NEW c \in Consumer, NEW ok \in BOOLEAN, Execute(c, ok)
    PROVE  Budgeted'
<1> SUFFICES ASSUME NEW n \in Command
             PROVE  /\ IsFiniteSet(Holders(n)')
                    /\ Total(n)' + Cardinality(Holders(n)') <= Limit(n)'
  BY DEF Budgeted
<1>0. RowsStep /\ TypeOK
  BY DEF Execute, RowsStep, QueueInv
<1>1. PICK m \in Command : m = consumer[c].cmd /\ c \in Holders(m)
  BY ConsumerTyped DEF Execute, QueueInv, Holders
<1>2. PICK pc \in {"complete", "fail"} : Become(c, [pc |-> pc, cmd |-> m])
  BY <1>0, <1>1 DEF Execute
<1>3. [pc |-> pc, cmd |-> m] \in ConsumerState
  BY <1>0, <1>1, StatesTyped
<1>4. Holders(n)' = Holders(n) \ {c}
  BY <1>0, <1>1, <1>2, <1>3, Becoming DEF Holders
<1>5. CASE n # m \/ Blocked(c)
  <2>1. runs'[n] = runs[n]
    BY <1>0, <1>1, <1>5 DEF Execute, TypeOK
  <2> QED BY <1>0, <1>1, <1>4, <2>1, BudgetKept DEF QueueInv
<1>6. CASE n = m /\ ~Blocked(c)
  <2>1. /\ IsFiniteSet(Holders(m)) /\ Total(m) + Cardinality(Holders(m)) <= Limit(m)
        /\ Total(m) \in Nat /\ Limit(m) \in Nat /\ Limit(m)' = Limit(m)
    BY <1>0, <1>1, LimitGrows DEF QueueInv, Budgeted, Total, TypeOK, Execute, Limit
  <2>2. IsFiniteSet(Holders(m)') /\ Cardinality(Holders(m)') = Cardinality(Holders(m)) - 1
    BY <1>0, <1>1, <1>4, <1>6, <2>1, HolderRemoved
  <2>3. Total(m)' = Total(m) + 1
    <3>1. Kind(c) \in {"worker", "runner"} /\ runs' = [runs EXCEPT ![m][Kind(c)] = @ + 1]
      BY <1>1, <1>6 DEF Execute, Kind
    <3>2. runs[m]["worker"] \in Nat /\ runs[m]["runner"] \in Nat
      BY <1>0, <1>1 DEF TypeOK
    <3>3. \A k \in {"worker", "runner"} : runs'[m][k] = IF k = Kind(c) THEN runs[m][k] + 1 ELSE runs[m][k]
      BY <1>0, <1>1, <3>1, RunCounted
    <3> QED BY <3>1, <3>2, <3>3 DEF Total
  <2>4. Cardinality(Holders(m)) \in Nat /\ Cardinality(Holders(m)) > 0
    BY <1>0, <1>1, <2>1, HoldersCounted
  <2> QED BY <1>6, <2>1, <2>2, <2>3, <2>4
<1> QED BY <1>5, <1>6

LEMMA BudgetInv ==
    ASSUME QueueInv, [Next]_vars
    PROVE  Budgeted'
<1>1. RowsStep /\ TypeOK
  BY RowsChange DEF QueueInv
<1>2. ASSUME \A m \in Command : Holders(m)' \subseteq Holders(m), UNCHANGED runs
      PROVE  Budgeted'
  BY <1>1, <1>2, BudgetKept DEF Budgeted
<1>3. ASSUME NEW c \in Consumer, NEW state \in ConsumerState, Become(c, state), UNCHANGED runs,
             state.pc \in {"claimed", "verified", "cleared"} => c \in Holders(state.cmd)
      PROVE  Budgeted'
  BY <1>1, <1>2, <1>3, HoldersShrink
<1>4. CASE UNCHANGED consumer /\ UNCHANGED runs
  BY <1>2, <1>4 DEF Holders
<1>5. ASSUME NEW c \in Consumer, ConsumerStep(c) PROVE Budgeted'
  <2>1. ASSUME NEW m \in Command, NEW pc \in {"claimed", "verified", "cleared", "complete", "fail"}
        PROVE  /\ [pc |-> pc, cmd |-> m] \in ConsumerState
               /\ [pc |-> pc, cmd |-> m].pc = pc /\ [pc |-> pc, cmd |-> m].cmd = m
    BY <2>1, StatesTyped
  <2>2. /\ Idle \in ConsumerState /\ [pc |-> "swept"] \in ConsumerState
        /\ Idle.pc = "idle" /\ [pc |-> "swept"].pc = "swept"
    BY DEF ConsumerState, Idle
  <2>3. CASE Sweep(c)
    BY <1>3, <2>2, <2>3 DEF Sweep
  <2>4. CASE SkipTick(c)
    BY <1>3, <2>2, <2>4 DEF SkipTick
  <2>5. CASE Verify(c) \/ CheckRedLine(c)
    <3>1. consumer[c].cmd \in Command /\ c \in Holders(consumer[c].cmd)
      BY <1>1, <2>5, ConsumerTyped DEF Verify, CheckRedLine, Holders
    <3>2. PICK pc \in {"verified", "cleared", "fail"} : Become(c, [pc |-> pc, cmd |-> consumer[c].cmd])
      BY <2>5 DEF Verify, CheckRedLine
    <3>3. UNCHANGED runs
      BY <2>5 DEF Verify, CheckRedLine
    <3> QED BY <1>3, <2>1, <3>1, <3>2, <3>3
  <2>6. CASE Complete(c) \/ Fail(c)
    <3>1. CASE Become(c, Idle)
      BY <1>3, <2>2, <2>6, <3>1 DEF Complete, Fail
    <3>2. CASE consumer[c].pc = "complete" /\ Become(c, [pc |-> "fail", cmd |-> consumer[c].cmd])
      BY <1>1, <1>3, <2>1, <2>6, <3>2, ConsumerTyped DEF Complete, Fail
    <3> QED BY <2>6, <3>1, <3>2 DEF Complete, Fail
  <2> QED BY <1>5, <2>3, <2>4, <2>5, <2>6, BudgetOfClaim, BudgetOfExecute DEF ConsumerStep
<1>6. ASSUME NEW c \in Consumer, NEW kept, NEW torn, Crash(c, kept, torn) PROVE Budgeted'
  <2>1. Idle \in ConsumerState /\ Idle.pc = "idle"
    BY DEF ConsumerState, Idle
  <2> QED BY <1>3, <1>6, <2>1 DEF Crash
<1> QED BY <1>4, <1>5, <1>6 DEF Next, vars, Route, ClaimAges, SignatureAges, BotStep, Poll, Deliver,
           DeleteDelivered, EndDelivery, CrashBot, Pause, Resume

-----------------------------------------------------------------------------
(* Nonces *)

\* No nonce is forgotten, no runner executes and none gets past the ledger.
LEMMA NonceShrinks ==
    ASSUME NonceKept, forgotten => forgotten',
           \A m \in Command :
               /\ Used(m) => Used(m)'
               /\ runs'[m]["runner"] = runs[m]["runner"]
               /\ \A c \in Runner : Past(c, m)' => Past(c, m)
    PROVE  NonceKept'
BY DEF NonceKept

LEMMA NonceOfVerify ==
    ASSUME QueueInv, NEW c \in Runner, Verify(c)
    PROVE  NonceKept'
<1>1. PICK m \in Command : m = consumer[c].cmd
  BY ConsumerTyped DEF Verify, QueueInv, Consumer
<1>2. c \in Consumer /\ TypeOK /\ NonceKept
  BY DEF Consumer, QueueInv
<1>3. CASE ~SigningKey
  BY <1>3 DEF NonceKept
<1>4. CASE SigningKey /\ ~Fresh(m)
  <2>1. /\ Become(c, [pc |-> "fail", cmd |-> m]) /\ [pc |-> "fail", cmd |-> m] \in ConsumerState
        /\ UNCHANGED <<nonces, expired, runs, forgotten>>
    BY <1>1, <1>4, StatesTyped DEF Verify
  <2>2. \A d \in Runner, n \in Command : Past(d, n)' => Past(d, n)
    BY <1>2, <2>1, Becoming DEF Past, Consumer
  <2> QED BY <1>2, <2>1, <2>2, NonceShrinks DEF Used
<1>5. CASE SigningKey /\ Fresh(m)
  <2>1. /\ Become(c, [pc |-> "verified", cmd |-> m]) /\ [pc |-> "verified", cmd |-> m] \in ConsumerState
        /\ nonces' = nonces \cup {m} /\ UNCHANGED <<expired, runs, forgotten>>
    BY <1>1, <1>5, StatesTyped DEF Verify
  <2>2. \A d \in Runner, n \in Command : Past(d, n)' <=> (d = c /\ n = m) \/ (d # c /\ Past(d, n))
    BY <1>2, <2>1, Becoming DEF Past, Consumer
  <2>3. ~Used(m) /\ Used(m)' /\ \A n \in Command : Used(n) => Used(n)'
    BY <1>5, <2>1 DEF Fresh, Used
  <2>4. runs[m]["runner"] \in Nat
    BY <1>2 DEF TypeOK
  <2> QED BY <1>2, <2>1, <2>2, <2>3, <2>4 DEF NonceKept
<1> QED BY <1>3, <1>4, <1>5

LEMMA NonceOfExecute ==
    ASSUME QueueInv, NEW c \in Consumer, NEW ok \in BOOLEAN, Execute(c, ok)
    PROVE  NonceKept'
<1>1. PICK m \in Command : m = consumer[c].cmd
  BY ConsumerTyped DEF Execute, QueueInv
<1>2. TypeOK /\ NonceKept /\ UNCHANGED <<nonces, expired, forgotten>>
  BY DEF QueueInv, Execute
<1>3. PICK pc \in {"complete", "fail"} : Become(c, [pc |-> pc, cmd |-> m])
  BY <1>1 DEF Execute
<1>4. [pc |-> pc, cmd |-> m] \in ConsumerState
  BY <1>1, StatesTyped
<1>5. \A d \in Runner, n \in Command : Past(d, n)' => Past(d, n) /\ d # c
  BY <1>2, <1>3, <1>4, Becoming DEF Past, Consumer
<1>6. CASE \A n \in Command : runs'[n]["runner"] = runs[n]["runner"]
  BY <1>2, <1>5, <1>6, NonceShrinks DEF Used
<1>7. CASE c \in Worker \/ Blocked(c)
  <2>1. CASE Blocked(c)
    BY <1>6, <2>1 DEF Execute
  <2>2. CASE c \in Worker /\ ~Blocked(c)
    <3>1. runs' = [runs EXCEPT ![m]["worker"] = @ + 1]
      BY <1>1, <2>2 DEF Execute, Kind
    <3>2. \A n \in Command : runs'[n]["runner"] = runs[n]["runner"]
      BY <1>1, <1>2, <3>1, RunCounted
    <3> QED BY <1>6, <3>2
  <2> QED BY <1>7, <2>1, <2>2
<1>8. CASE c \notin Worker /\ ~Blocked(c)
  <2>1. c \in Runner /\ Past(c, m)
    BY <1>1, <1>8 DEF Execute, Past, Consumer
  <2>2. runs' = [runs EXCEPT ![m]["runner"] = @ + 1]
    BY <1>1, <1>8 DEF Execute, Kind
  <2>3. /\ runs'[m]["runner"] = runs[m]["runner"] + 1
        /\ \A n \in Command : n # m => runs'[n] = runs[n]
    BY <1>1, <1>2, <2>2, RunCounted
  <2>4. \A n \in Command : Used(n)' <=> Used(n)
    BY <1>2 DEF Used
  <2> QED BY <1>2, <1>5, <2>1, <2>3, <2>4 DEF NonceKept
<1> QED BY <1>7, <1>8

LEMMA NonceOfCrash ==
    ASSUME QueueInv, NEW c \in Consumer, NEW kept \in SUBSET (nonces \cap expired),
           NEW torn \in BOOLEAN, Crash(c, kept, torn)
    PROVE  NonceKept'
<1>1. TypeOK /\ NonceKept /\ Become(c, Idle) /\ Idle \in ConsumerState /\ UNCHANGED <<expired, runs>>
  BY DEF QueueInv, Crash, ConsumerState, Idle
<1>2. \A d \in Runner, n \in Command : Past(d, n)' => Past(d, n)
  BY <1>1, Becoming DEF Past, Consumer, Idle
<1>3. CASE c \notin Runner \/ ~torn
  <2>1. forgotten => forgotten'
    BY <1>3 DEF Crash
  <2>2. nonces \cup expired = nonces' \cup expired'
    BY <1>1, <1>3 DEF Crash, Reloaded
  <2> QED BY <1>1, <1>2, <2>1, <2>2, NonceShrinks DEF Used
<1>4. CASE c \in Runner /\ torn
  BY <1>4 DEF Crash, NonceKept
<1> QED BY <1>3, <1>4

LEMMA NonceInv ==
    ASSUME QueueInv, [Next]_vars
    PROVE  NonceKept'
<1>1. TypeOK /\ NonceKept
  BY DEF QueueInv
<1>2. ASSUME UNCHANGED <<nonces, runs, forgotten>>, expired \subseteq expired',
             \A m \in Command, c \in Runner : Past(c, m)' => Past(c, m)
      PROVE  NonceKept'
  BY <1>1, <1>2, NonceShrinks DEF Used
<1>3. CASE UNCHANGED <<consumer, nonces, runs, forgotten>> /\ expired \subseteq expired'
  BY <1>2, <1>3 DEF Past
<1>4. ASSUME NEW c \in Consumer, NEW state \in ConsumerState, Become(c, state),
             UNCHANGED <<nonces, expired, runs, forgotten>>,
             state.pc \in {"verified", "cleared"} => Past(c, state.cmd)
      PROVE  NonceKept'
  <2>1. \A m \in Command, d \in Runner : Past(d, m)' => Past(d, m)
    BY <1>1, <1>4, Becoming DEF Past, Consumer
  <2> QED BY <1>2, <1>4, <2>1
<1>5. ASSUME NEW c \in Consumer, ConsumerStep(c) PROVE NonceKept'
  <2>1. ASSUME NEW m \in Command, NEW pc \in {"claimed", "verified", "cleared", "complete", "fail"}
        PROVE  /\ [pc |-> pc, cmd |-> m] \in ConsumerState
               /\ [pc |-> pc, cmd |-> m].pc = pc /\ [pc |-> pc, cmd |-> m].cmd = m
    BY <2>1, StatesTyped
  <2>2. /\ Idle \in ConsumerState /\ [pc |-> "swept"] \in ConsumerState
        /\ Idle.pc = "idle" /\ [pc |-> "swept"].pc = "swept"
    BY DEF ConsumerState, Idle
  <2>3. CASE Sweep(c)
    BY <1>4, <2>2, <2>3 DEF Sweep
  <2>4. CASE SkipTick(c)
    BY <1>4, <2>2, <2>4 DEF SkipTick
  <2>5. ASSUME NEW m \in Command, Claim(c, m) PROVE NonceKept'
    BY <1>4, <2>1, <2>2, <2>5 DEF Claim
  <2>6. CASE CheckRedLine(c)
    <3>1. consumer[c].cmd \in Command /\ Past(c, consumer[c].cmd)
      BY <1>1, <2>6, ConsumerTyped DEF CheckRedLine, Past
    <3>2. PICK pc \in {"cleared", "fail"} : Become(c, [pc |-> pc, cmd |-> consumer[c].cmd])
      BY <2>6 DEF CheckRedLine
    <3> QED BY <1>4, <2>1, <2>6, <3>1, <3>2 DEF CheckRedLine
  <2>7. CASE Complete(c) \/ Fail(c)
    <3>1. CASE Become(c, Idle)
      BY <1>4, <2>2, <2>7, <3>1 DEF Complete, Fail
    <3>2. CASE consumer[c].pc = "complete" /\ Become(c, [pc |-> "fail", cmd |-> consumer[c].cmd])
      BY <1>1, <1>4, <2>1, <2>7, <3>2, ConsumerTyped DEF Complete, Fail
    <3> QED BY <2>7, <3>1, <3>2 DEF Complete, Fail
  <2> QED BY <1>5, <2>3, <2>4, <2>5, <2>6, <2>7, NonceOfVerify, NonceOfExecute DEF ConsumerStep, Verify
<1>6. CASE UNCHANGED vars \/ (\E m \in Command : Route(m) \/ ClaimAges(m) \/ SignatureAges(m))
           \/ BotStep \/ CrashBot \/ Pause \/ Resume
  BY <1>3, <1>6 DEF vars, Route, ClaimAges, SignatureAges, BotStep, Poll, Deliver,
                    DeleteDelivered, EndDelivery, CrashBot, Pause, Resume
<1> QED BY <1>5, <1>6, NonceOfCrash DEF Next

-----------------------------------------------------------------------------
(* Completions and deliveries *)

LEMMA DoneOfConsumer ==
    ASSUME QueueInv, NEW c \in Consumer, ConsumerStep(c)
    PROVE  DoneRan'
<1>1. TypeOK /\ DoneRan
  BY DEF QueueInv
<1>2. ASSUME succeeded \subseteq succeeded',
             \A m \in Command : row'[m].status = "done" => row[m].status = "done" \/ m \in succeeded',
             NEW state \in ConsumerState, Become(c, state),
             state.pc = "complete" => state.cmd \in succeeded'
      PROVE  DoneRan'
  <2>1. /\ \A d \in Consumer : d # c => consumer'[d] = consumer[d]
        /\ consumer'[c] = state
    BY <1>1, <1>2, Becoming
  <2> QED BY <1>1, <1>2, <2>1 DEF DoneRan, DoneWasRun
<1>3. ASSUME NEW m \in Command, NEW pc \in {"claimed", "verified", "cleared", "complete", "fail"}
      PROVE  /\ [pc |-> pc, cmd |-> m] \in ConsumerState
             /\ [pc |-> pc, cmd |-> m].pc = pc /\ [pc |-> pc, cmd |-> m].cmd = m
  BY <1>3, StatesTyped
<1>4. /\ Idle \in ConsumerState /\ [pc |-> "swept"] \in ConsumerState
      /\ Idle.pc = "idle" /\ [pc |-> "swept"].pc = "swept"
  BY DEF ConsumerState, Idle
<1>5. ASSUME NEW m \in Command, NEW status, Patched(m, status),
             status = "done" => m \in succeeded
      PROVE  \A n \in Command : row'[n].status = "done" => row[n].status = "done" \/ n \in succeeded
  <2>1. CASE UNCHANGED row
    BY <2>1
  <2>2. CASE row' = [row EXCEPT ![m] = Row(status, row[m].attempts)]
    <3>1. row'[m].status = status /\ \A n \in Command : n # m => row'[n] = row[n]
      BY <1>1, <2>2 DEF Row, TypeOK
    <3> QED BY <1>5, <3>1
  <2> QED BY <1>5, <2>1, <2>2 DEF Patched
<1>6. CASE Sweep(c)
  <2>1. \A m \in Command : row[m] \in RowType
    BY <1>1 DEF TypeOK, RowType
  <2>2. \A m \in Command : row'[m] = row[m] \/ row'[m] = Swept(row[m])
    BY <1>6 DEF Sweep
  <2>3. \A m \in Command : row'[m].status = "done" => row[m].status = "done"
    BY <2>1, <2>2, SweptTyped
  <2> QED BY <1>2, <1>4, <1>6, <2>3 DEF Sweep
<1>7. CASE SkipTick(c)
  BY <1>2, <1>4, <1>7 DEF SkipTick
<1>8. ASSUME NEW m \in Command, Claim(c, m) PROVE DoneRan'
  <2>1. \A n \in Command : row'[n].status = "done" => row[n].status = "done"
    BY <1>1, <1>8 DEF Claim, TypeOK, Row
  <2> QED BY <1>2, <1>3, <1>4, <1>8, <2>1 DEF Claim
<1>9. CASE Verify(c) \/ CheckRedLine(c)
  <2>1. consumer[c].cmd \in Command
    BY <1>1, <1>9, ConsumerTyped DEF Verify, CheckRedLine
  <2>2. PICK pc \in {"verified", "cleared", "fail"} : Become(c, [pc |-> pc, cmd |-> consumer[c].cmd])
    BY <1>9 DEF Verify, CheckRedLine
  <2> QED BY <1>2, <1>3, <1>9, <2>1, <2>2 DEF Verify, CheckRedLine
<1>10. ASSUME NEW ok \in BOOLEAN, Execute(c, ok) PROVE DoneRan'
  <2>1. consumer[c].cmd \in Command
    BY <1>1, <1>10, ConsumerTyped DEF Execute
  <2>2. PICK pc \in {"complete", "fail"} : /\ Become(c, [pc |-> pc, cmd |-> consumer[c].cmd])
                                           /\ pc = "complete" => ok
    BY <1>10 DEF Execute, Completes
  <2>3. succeeded \subseteq succeeded' /\ (ok => consumer[c].cmd \in succeeded') /\ UNCHANGED row
    BY <1>10 DEF Execute
  <2> QED BY <1>2, <1>3, <2>1, <2>2, <2>3
<1>11. CASE Complete(c)
  <2>1. consumer[c].cmd \in Command /\ consumer[c].cmd \in succeeded /\ UNCHANGED succeeded
    BY <1>1, <1>11, ConsumerTyped DEF Complete, DoneRan
  <2>2. \A n \in Command : row'[n].status = "done" => row[n].status = "done" \/ n \in succeeded
    BY <1>5, <1>11, <2>1 DEF Complete
  <2> QED BY <1>2, <1>3, <1>4, <1>11, <2>1, <2>2 DEF Complete
<1>12. CASE Fail(c)
  <2>1. consumer[c].cmd \in Command /\ UNCHANGED succeeded
    BY <1>1, <1>12, ConsumerTyped DEF Fail
  <2>2. \A n \in Command : row'[n].status = "done" => row[n].status = "done" \/ n \in succeeded
    BY <1>5, <1>12, <2>1 DEF Fail
  <2> QED BY <1>2, <1>4, <1>12, <2>1, <2>2 DEF Fail
<1> QED BY <1>6, <1>7, <1>8, <1>9, <1>10, <1>11, <1>12 DEF ConsumerStep

LEMMA DoneInv ==
    ASSUME QueueInv, [Next]_vars
    PROVE  DoneRan'
<1>1. TypeOK /\ DoneRan
  BY DEF QueueInv
<1>2. ASSUME UNCHANGED <<consumer, succeeded>>,
             \A m \in Command : row'[m].status = "done" => row[m].status = "done"
      PROVE  DoneRan'
  BY <1>1, <1>2 DEF DoneRan, DoneWasRun
<1>3. ASSUME NEW m \in Command, Route(m) \/ ClaimAges(m) \/ SignatureAges(m) PROVE DoneRan'
  <2>1. \A n \in Command : row'[n].status = "done" => row[n].status = "done"
    BY <1>1, <1>3 DEF Route, ClaimAges, SignatureAges, TypeOK, Row
  <2> QED BY <1>2, <1>3, <2>1 DEF Route, ClaimAges, SignatureAges
<1>4. CASE BotStep
  <2>1. CASE DeleteDelivered
    <3>1. \A n \in Command : row'[n] = row[n] \/ row'[n] = Row("deleted", 0)
      BY <1>1, <2>1 DEF DeleteDelivered, TypeOK
    <3>2. \A n \in Command : row'[n].status = "done" => row[n].status = "done"
      BY <3>1 DEF Row
    <3> QED BY <1>2, <2>1, <3>2 DEF DeleteDelivered
  <2> QED BY <1>2, <1>4, <2>1 DEF BotStep, Poll, Deliver, EndDelivery
<1>5. ASSUME NEW c \in Consumer, NEW kept, NEW torn, Crash(c, kept, torn) PROVE DoneRan'
  <2>1. \A d \in Consumer : consumer'[d].pc = "complete" => consumer'[d] = consumer[d]
    BY <1>1, <1>5 DEF Crash, Become, TypeOK, Idle
  <2> QED BY <1>1, <1>5, <2>1 DEF Crash, DoneRan, DoneWasRun
<1>6. CASE UNCHANGED vars \/ CrashBot \/ Pause \/ Resume
  BY <1>2, <1>6 DEF vars, CrashBot, Pause, Resume
<1> QED BY <1>3, <1>4, <1>5, <1>6, DoneOfConsumer DEF Next

LEMMA BotInv ==
    ASSUME QueueInv, [Next]_vars
    PROVE  BotKnows'
<1> DEFINE Closed(r) == r.status \in {"done", "failed"}
<1>1. TypeOK /\ BotKnows /\ RowsStep
  BY RowsChange DEF QueueInv
<1>2. ASSUME NEW m \in Command, Closed(row[m]), ~(bot.pc = "delete" /\ bot.cmd = m)
      PROVE  Closed(row'[m])
  <2>1. row[m] \in RowType
    BY <1>1 DEF TypeOK, RowType
  <2>2. CASE Sweeping
    BY <1>2, <2>1, <2>2, SweptTyped DEF Sweeping
  <2>3. ASSUME NEW n \in Command, RowOf(n) PROVE Closed(row'[m])
    BY <1>1, <1>2, <2>3 DEF RowOf, TypeOK
  <2> QED BY <1>1, <1>2, <2>2, <2>3 DEF RowsStep
<1>3. CASE UNCHANGED bot /\ UNCHANGED row
  BY <1>1, <1>3 DEF BotKnows
<1>4. CASE UNCHANGED bot /\ ~DeleteDelivered
  <2>1. \A m \in Command : Closed(row[m]) => Closed(row'[m])
    <3> SUFFICES ASSUME NEW m \in Command, Closed(row[m]), bot.pc = "delete", bot.cmd = m
                 PROVE  Closed(row'[m])
      BY <1>2
    <3>1. row[m] \in RowType
      BY <1>1 DEF TypeOK, RowType
    <3>2. CASE Sweeping
      BY <3>1, <3>2, SweptTyped DEF Sweeping
    <3>3. CASE UNCHANGED row
      BY <3>3
    <3>4. ASSUME NEW n \in Command, Route(n) \/ ClaimAges(n) PROVE Closed(row'[m])
      BY <1>1, <3>4 DEF Route, ClaimAges, TypeOK
    <3>5. ASSUME NEW c \in Consumer, ConsumerStep(c) PROVE Closed(row'[m])
      <4>1. CASE Sweep(c)
        BY <3>2, <3>3, <4>1 DEF Sweep, Sweeping
      <4>2. ASSUME NEW n \in Command, Claim(c, n) PROVE Closed(row'[m])
        BY <1>1, <4>2 DEF Claim, TypeOK
      <4>3. ASSUME NEW n, NEW status, Patched(n, status) PROVE Closed(row'[m])
        BY <1>1, <4>3 DEF Patched, TypeOK
      <4> QED BY <3>3, <3>5, <4>1, <4>2, <4>3 DEF ConsumerStep, SkipTick, Verify, CheckRedLine, Execute,
                                                  Complete, Fail
    <3> QED BY <1>4, <3>3, <3>4, <3>5 DEF Next, vars, SignatureAges, BotStep, Poll, Deliver, EndDelivery,
                                           Crash, CrashBot, Pause, Resume
  <2>2. bot.pc = "delete" => bot.cmd \in Command
    BY <1>1, BotTyped
  <2>3. bot.pc \in {"notify", "delete"} => bot.batch \in SUBSET Command
    BY <1>1, BotTyped
  <2> QED BY <1>1, <1>4, <2>1, <2>2, <2>3 DEF BotKnows
<1>5. CASE Poll
  BY <1>5 DEF Poll, BotKnows
<1>6. ASSUME NEW m \in Command, Deliver(m) PROVE BotKnows'
  <2>1. bot = [pc |-> "notify", batch |-> bot.batch] /\ UNCHANGED row
    BY <1>1, <1>6 DEF Deliver, TypeOK, BotState, Polling
  <2>2. \/ bot' = [pc |-> "notify", batch |-> bot.batch \ {m}]
        \/ bot' = [pc |-> "delete", batch |-> bot.batch \ {m}, cmd |-> m]
    BY <1>6, <2>1 DEF Deliver
  <2>3. \A n \in bot.batch : Closed(row[n])
    BY <1>1, <2>1 DEF BotKnows
  <2>4. m \in bot.batch
    BY <1>6 DEF Deliver
  <2> QED BY <2>1, <2>2, <2>3, <2>4 DEF BotKnows
<1>7. CASE DeleteDelivered
  <2>1. /\ bot.pc = "delete" /\ bot.batch \in SUBSET Command /\ bot.cmd \in Command
        /\ bot.cmd \notin bot.batch /\ \A n \in bot.batch : Closed(row[n])
    BY <1>1, <1>7, BotTyped DEF DeleteDelivered, BotKnows
  <2>2. \A n \in bot.batch : Closed(row'[n])
    BY <1>2, <2>1
  <2>3. bot' = [pc |-> "notify", batch |-> bot.batch]
    BY <1>7 DEF DeleteDelivered
  <2> QED BY <2>2, <2>3 DEF BotKnows
<1>8. CASE bot' = Polling
  BY <1>8 DEF BotKnows, Polling
<1> QED BY <1>4, <1>5, <1>6, <1>7, <1>8 DEF Next, vars, Route, ClaimAges, SignatureAges, ConsumerStep,
          Sweep, SkipTick, Claim, Verify, CheckRedLine, Execute, Complete, Fail, BotStep,
          EndDelivery, Crash, CrashBot, Pause, Resume

-----------------------------------------------------------------------------
(* The theorems *)

LEMMA QueueInit ==
    ASSUME Init
    PROVE  QueueInv
<1>1. TypeOK
  <2>1. Row("none", 0) \in RowType
    BY RowTyped, QueueAssumption DEF RowStatus
  <2>2. row \in [Command -> RowType]
    BY <2>1 DEF Init
  <2>3. Idle \in ConsumerState /\ Polling \in BotState
    BY DEF ConsumerState, Idle, BotState
  <2>4. 0 \in 0 .. MaxFaults
    BY QueueAssumption
  <2> QED BY <2>2, <2>3, <2>4 DEF Init, TypeOK, RowType
<1>2. AttemptLeft /\ DoneRan /\ BotKnows
  BY DEF Init, AttemptLeft, DoneRan, DoneWasRun, BotKnows, Row, Idle, Polling
<1>3. NonceKept
  <2>1. \A m \in Command : runs[m]["runner"] = 0
    BY DEF Init
  <2>2. \A m \in Command, c \in Runner : ~Past(c, m)
    BY DEF Init, Past, Idle, Consumer
  <2> QED BY <2>1, <2>2 DEF NonceKept
<1>4. Budgeted
  <2> SUFFICES ASSUME NEW m \in Command
               PROVE  IsFiniteSet(Holders(m)) /\ Total(m) + Cardinality(Holders(m)) <= Limit(m)
    BY DEF Budgeted
  <2>1. Holders(m) = {} /\ Total(m) = 0 /\ Limit(m) = 0
    BY DEF Init, Holders, Idle, Total, Limit, Row
  <2> QED BY <2>1, FS_EmptySet
<1> QED BY <1>1, <1>2, <1>3, <1>4 DEF QueueInv

\* QueueInv is an invariant: the types, the attempts, the nonces, the
\* completions and what the bot holds.
THEOREM QueueInvariant == Spec => []QueueInv
<1>1. QueueInv /\ [Next]_vars => QueueInv'
  BY TypeKept, BudgetInv, NonceInv, DoneInv, BotInv DEF QueueInv
<1> QED BY <1>1, QueueInit, PTL DEF Spec

\* No command is executed more often than it may be: by the runner once if it
\* is signed, and MaxAttempts times by all consumers together, whatever goes
\* stale, is swept, crashes or is claimed again.
THEOREM RunsAreBounded == Spec => []RunsBounded
<1>1. QueueInv => SignedOnce
  BY DEF QueueInv, NonceKept, SignedOnce
<1>2. QueueInv => AttemptsBound
  <2> SUFFICES ASSUME QueueInv, NEW m \in Command
               PROVE  runs[m]["worker"] + runs[m]["runner"] <= MaxAttempts
    BY DEF AttemptsBound
  <2>1. Total(m) \in Nat /\ Total(m) = runs[m]["worker"] + runs[m]["runner"]
    BY DEF QueueInv, TypeOK, Total
  <2>2. IsFiniteSet(Holders(m)) /\ Total(m) + Cardinality(Holders(m)) <= Limit(m)
    BY DEF QueueInv, Budgeted
  <2>3. Cardinality(Holders(m)) \in Nat
    BY <2>2, FS_CardinalityType
  <2>4. Limit(m) \in 0 .. MaxAttempts
    BY QueueAssumption DEF QueueInv, TypeOK, Limit
  <2> QED BY <2>1, <2>2, <2>3, <2>4, QueueAssumption
<1> QED BY <1>1, <1>2, QueueInvariant, PTL DEF RunsBounded

\* A command reported done was executed with success, whoever completed it.
THEOREM DoneWasRunAlways == Spec => []DoneWasRun
<1>1. QueueInv => DoneWasRun
  BY DEF QueueInv, DoneRan
<1> QED BY <1>1, QueueInvariant, PTL

-----------------------------------------------------------------------------
(* The contract of a row *)

Phases == [m \in Command |-> Phase(row[m].status)]

LEMMA PhaseOf ==
    /\ Phase("none") = "none" /\ Phase("pending") = "open" /\ Phase("processing") = "open"
    /\ Phase("done") = "closed" /\ Phase("failed") = "closed" /\ Phase("dead") = "closed"
    /\ Phase("deleted") = "gone"
BY DEF Phase

\* The sweep keeps a row open or closes it, and may close several at once.
LEMMA SweepCloses ==
    ASSUME TypeOK, Sweeping
    PROVE  UNCHANGED Phases \/ \E ms \in SUBSET Command : Contract!Close(ms)
<1> DEFINE Buried == {m \in Command : Phase(row[m].status) # Phase(row'[m].status)}
<1>1. ASSUME NEW m \in Command
      PROVE  \/ Phase(row'[m].status) = Phase(row[m].status)
             \/ Phase(row[m].status) = "open" /\ Phase(row'[m].status) = "closed"
  <2>1. row[m] \in RowType /\ row'[m] = Swept(row[m])
    BY <1>1 DEF TypeOK, RowType, Sweeping
  <2> QED BY <2>1, SweptTyped, PhaseOf
<1>2. CASE Buried = {}
  BY <1>2 DEF Phases
<1>3. CASE Buried # {}
  <2>1. \A m \in Buried : Phases[m] = "open"
    BY <1>1 DEF Phases
  <2>2. Phases' = [m \in Command |-> IF m \in Buried THEN "closed" ELSE Phases[m]]
    BY <1>1 DEF Phases
  <2>3. Contract!Close(Buried)
    BY <1>3, <2>1, <2>2 DEF Contract!Close, Contract!Shift, Phases
  <2> QED BY <2>3
<1> QED BY <1>2, <1>3

LEMMA RowShifts ==
    ASSUME TypeOK, NEW m \in Command, RowOf(m)
    PROVE  UNCHANGED Phases \/ Contract!Open(m) \/ Contract!Close({m}) \/ Contract!Remove(m)
<1>1. row[m] \in RowType /\ \A n \in Command : n # m => row'[n] = row[n]
  BY DEF RowOf, TypeOK, RowType
<1>2. ASSUME NEW from, NEW to, Phase(row[m].status) = from, Phase(row'[m].status) = to
      PROVE  Contract!Shift({m}, from, to)
  <2>1. Phases[m] = from /\ Phases' = [n \in Command |-> IF n \in {m} THEN to ELSE Phases[n]]
    BY <1>1, <1>2 DEF Phases
  <2> QED BY <2>1 DEF Contract!Shift, Phases
<1>3. CASE Phase(row'[m].status) = Phase(row[m].status)
  BY <1>1, <1>3 DEF Phases
<1>4. \/ Phase(row'[m].status) = Phase(row[m].status)
      \/ Phase(row[m].status) = "none" /\ Phase(row'[m].status) = "open"
      \/ Phase(row[m].status) = "open" /\ Phase(row'[m].status) = "closed"
      \/ Phase(row[m].status) = "closed" /\ Phase(row'[m].status) = "gone"
  <2> DEFINE Moves(old, new) ==
        \/ old = "none" /\ new = "pending"
        \/ old = "processing" /\ new \in {"processing", "done", "failed"}
        \/ old = "pending" /\ new = "processing"
        \/ old \in {"done", "failed"} /\ new = "deleted"
  <2>1. \A status, n : Row(status, n).status = status
    BY DEF Row
  <2>2. [row[m] EXCEPT !.stale = TRUE].status = row[m].status
    BY <1>1 DEF RowType
  <2>3. Moves(row[m].status, row'[m].status)
    <3>1. CASE row[m].status = "none" /\ row'[m] = Row("pending", 0)
      BY <2>1, <3>1
    <3>2. CASE row[m].status = "processing" /\ row'[m] = [row[m] EXCEPT !.stale = TRUE]
      BY <2>2, <3>2
    <3>3. CASE row[m].status = "pending" /\ row'[m] = Row("processing", row[m].attempts + 1)
      BY <2>1, <3>3
    <3>4. ASSUME row[m].status = "processing", NEW status \in {"done", "failed"},
                 row'[m] = Row(status, row[m].attempts)
          PROVE  Moves(row[m].status, row'[m].status)
      BY <2>1, <3>4
    <3>5. CASE row[m].status \in {"done", "failed"} /\ row'[m] = Row("deleted", 0)
      BY <2>1, <3>5
    <3> HIDE DEF Moves
    <3> QED BY <3>1, <3>2, <3>3, <3>4, <3>5 DEF RowOf
  <2> QED BY <2>3, PhaseOf
<1> QED BY <1>2, <1>3, <1>4 DEF Contract!Open, Contract!Close, Contract!Remove

\* The queue implements the contract of its rows: each is opened once, closed
\* once and for good, and removed after that.
THEOREM ContractKept == Spec => KeepsContract
<1>1. Init => Contract!OrderInit
  <2> SUFFICES ASSUME Init PROVE Contract!OrderInit
    OBVIOUS
  <2>1. \A m \in Command : Phase(row[m].status) = "none"
    BY PhaseOf DEF Init, Row
  <2> QED BY <2>1 DEF Contract!OrderInit
<1>2. QueueInv /\ [Next]_vars => [Contract!OrderNext]_Phases
  <2> SUFFICES ASSUME QueueInv, [Next]_vars PROVE Contract!OrderNext \/ UNCHANGED Phases
    OBVIOUS
  <2>1. RowsStep /\ TypeOK
    BY RowsChange DEF QueueInv
  <2>2. CASE UNCHANGED row
    BY <2>2 DEF Phases
  <2>3. CASE Sweeping
    BY <2>1, <2>3, SweepCloses DEF Contract!OrderNext
  <2>4. ASSUME NEW m \in Command, RowOf(m) PROVE Contract!OrderNext \/ UNCHANGED Phases
    <3>1. {m} \in SUBSET Command
      OBVIOUS
    <3> QED BY <2>1, <2>4, <3>1, RowShifts DEF Contract!OrderNext
  <2> QED BY <2>1, <2>2, <2>3, <2>4 DEF RowsStep
<1> QED BY <1>1, <1>2, QueueInvariant, PTL DEF Spec, KeepsContract, Contract!OrderSafe, Phases
=============================================================================
