--------------------------- MODULE Machine_proofs ---------------------------
(***************************************************************************)
(* What the processes of a machine share besides the execution graph, for  *)
(* any number of them: the instance lease and the chain of evidence its    *)
(* holder writes, the lock of the learning claims, the spend and the       *)
(* routing of model calls, the backups, the restore drill; and what the    *)
(* daemon tells: the notifier, the autonomy tick and the cron.             *)
(***************************************************************************)
EXTENDS EvidenceLedger, FileLock, ModelCalls, Backup, RestoreDrill, AutonomyLoop,
        SequenceTheorems, FiniteSetTheorems, WellFoundedInduction, TLAPS

-----------------------------------------------------------------------------
(* The instance lease *)

\* The inductive invariant: a writer's lease is at most one interval old, and
\* then its heartbeat is under way; while a process is about to claim the
\* lease, nobody else is, and nobody is a writer.
LeaseInv ==
    /\ LeaseTypeOK
    /\ \A p \in Instance : role[p] \in Writing =>
         /\ holder = p
         /\ leaseAge \in {0, 1}
         /\ leaseAge = 1 => due[p] \/ role[p] = "beat"
    /\ \A p, q \in Instance : role[p] = "claim" /\ role[q] \in Writing \cup {"claim"} => p = q

LEMMA LeaseInvInit == LeaseInit => LeaseInv
BY InstanceLeaseAssumption DEF LeaseInit, LeaseInv, LeaseTypeOK, Writing

LEMMA LeaseInvNext ==
    ASSUME ~Concurrent, ~Stalls, LeaseInv, [LeaseNext]_leaseVars
    PROVE  LeaseInv'
<1> USE InstanceLeaseAssumption DEF LeaseInv, LeaseTypeOK, Writing
<1>1. CASE UNCHANGED leaseVars
  BY <1>1 DEF leaseVars
<1>2. CASE LeaseTick
  <2>1. \A q \in Instance : ~due[q] /\ role[q] \notin {"beat", "claim"}
    BY <1>2 DEF LeaseTick
  <2>2. due' \in [Instance -> BOOLEAN]
    <3>1. due' = [q \in Instance |-> role[q] \in Writing]
      BY <1>2 DEF LeaseTick
    <3>2. \A q \in Instance : (role[q] \in Writing) \in BOOLEAN
      OBVIOUS
    <3> HIDE DEF LeaseInv, LeaseTypeOK, Writing
    <3> QED BY <3>1, <3>2, Zenon
  <2>3. \A q \in Instance : role[q] \in {"writer", "beat"} => due'[q]
    BY <1>2 DEF LeaseTick
  <2>4. \A q \in Instance : role[q] \in {"writer", "beat"} => leaseAge = 0
    BY <2>1
  <2>5. role' = role /\ holder' = holder /\ leaseAge' \in 0 .. Ttl /\ (leaseAge = 0 => leaseAge' = 1)
    BY <1>2 DEF LeaseTick
  <2> QED BY <2>1, <2>2, <2>3, <2>4, <2>5
<1>3. ASSUME NEW p \in Instance, ReadLease(p) PROVE LeaseInv'
  <2>1. CASE holder # NoInstance /\ Alive(holder) /\ Fresh
    BY <1>3, <2>1 DEF ReadLease
  <2>2. CASE ~(holder # NoInstance /\ Alive(holder) /\ Fresh)
    <3>1. \A q \in Instance : role[q] \notin Writing
      BY <2>2 DEF Alive, Fresh
    <3> QED BY <1>3, <2>2, <3>1 DEF ReadLease
  <2> QED BY <2>1, <2>2
<1>4. ASSUME NEW p \in Instance, ClaimLease(p) PROVE LeaseInv'
  BY <1>4 DEF ClaimLease
<1>5. ASSUME NEW p \in Instance, ReadToBeat(p) PROVE LeaseInv'
  BY <1>5 DEF ReadToBeat
<1>6. ASSUME NEW p \in Instance, Beat(p) PROVE LeaseInv'
  BY <1>6 DEF Beat
<1>7. ASSUME NEW p \in Instance, Exit(p) PROVE LeaseInv'
  BY <1>7 DEF Exit, Alive
<1> QED BY <1>1, <1>2, <1>3, <1>4, <1>5, <1>6, <1>7 DEF LeaseNext

\* A writer's lease is its own and fresh, so no later start takes it over.
THEOREM LeaseKept ==
    ASSUME ~Concurrent, ~Stalls
    PROVE  LeaseSpec => []WriterKeepsLease
<1>1. LeaseInv /\ [LeaseNext]_leaseVars => LeaseInv'
  BY LeaseInvNext
<1>2. LeaseInv => WriterKeepsLease
  BY InstanceLeaseAssumption DEF LeaseInv, WriterKeepsLease, Fresh, LeaseTypeOK
<1> QED BY LeaseInvInit, <1>1, <1>2, PTL DEF LeaseSpec

\* At most one process writes (`One writer per machine', instance-lease.ts).
THEOREM SingleWriter ==
    ASSUME ~Concurrent, ~Stalls
    PROVE  LeaseSpec => []OneWriter
<1>1. WriterKeepsLease => OneWriter
  BY DEF WriterKeepsLease, OneWriter
<1>2. LeaseSpec => []WriterKeepsLease
  BY LeaseKept
<1> QED BY <1>1, <1>2, PTL

-----------------------------------------------------------------------------
(* The chain of evidence *)

AppendState ==
    {NoAppend} \cup [pc : {"append", "snapshot"}, claim : Claim, read : Seq(Entry)]

\* The inductive invariant: only a writer appends, so that nobody has come
\* between what it read and its line; the snapshot lags behind only while a
\* writer is on its way to it or has died there.
EvidenceInv ==
    /\ LeaseInv
    /\ entries \in Seq(Entry)
    /\ appending \in [Instance -> AppendState]
    /\ \A p \in Instance : appending[p] # NoAppend => role[p] \in Writing
    /\ \A p \in Instance : appending[p].pc = "append" =>
         appending[p].read = entries /\ IsNew(appending[p].claim, entries)
    /\ \A p \in Instance : appending[p].pc = "snapshot" => Len(entries) = Len(appending[p].read) + 1
    /\ ChainIntact
    /\ ~cutShort /\ (\A p \in Instance : appending[p].pc # "snapshot") => snapCount = Len(entries)

LEMMA SubSeqOfAppend ==
    ASSUME NEW S, NEW s \in Seq(S), NEW e \in S, NEW n \in 0 .. Len(s)
    PROVE  SubSeq(Append(s, e), 1, n) = SubSeq(s, 1, n)
<1>1. CASE n = 0
  BY <1>1, SubSeqEmpty
<1>2. CASE n # 0
  <2>1. Append(s, e) = s \o <<e>> /\ <<e>> \in Seq(S) /\ n \in 1 .. Len(s) /\ 1 \in 1 .. Len(s)
    BY <1>2, AppendIsConcat
  <2> QED BY <2>1, SubSeqOfConcat1
<1> QED BY <1>1, <1>2

LEMMA LastHashType ==
    ASSUME NEW chain \in Seq(Entry)
    PROVE  LastHash(chain) \in Seq(Claim)
<1>1. CASE chain = <<>>
  BY <1>1 DEF LastHash
<1>2. CASE chain # <<>>
  <2>1. chain[Len(chain)] \in Entry
    BY <1>2
  <2> QED BY <1>2, <2>1 DEF LastHash, Hash, Entry
<1> QED BY <1>1, <1>2

\* One more entry, which refers to the last one, makes a longer chain.
LEMMA ChainGrows ==
    ASSUME NEW chain \in Seq(Entry), VerifyLedgerChain(chain),
           NEW e \in Entry, e.prev = LastHash(chain)
    PROVE  VerifyLedgerChain(Append(chain, e))
<1>1. /\ DOMAIN Append(chain, e) = 1 .. Len(chain) + 1 /\ Len(chain) \in Nat
      /\ \A i \in 1 .. Len(chain) : Append(chain, e)[i] = chain[i]
      /\ Append(chain, e)[Len(chain) + 1] = e
  OBVIOUS
<1> SUFFICES ASSUME NEW i \in 1 .. Len(chain) + 1
             PROVE  Append(chain, e)[i].prev = LastHash(SubSeq(Append(chain, e), 1, i - 1))
  BY <1>1 DEF VerifyLedgerChain
<1>2. i - 1 \in 0 .. Len(chain)
  BY <1>1
<1>3. SubSeq(Append(chain, e), 1, i - 1) = SubSeq(chain, 1, i - 1)
  BY <1>2, SubSeqOfAppend
<1>4. CASE i \in 1 .. Len(chain)
  <2>1. chain[i].prev = LastHash(SubSeq(chain, 1, i - 1))
    BY <1>1, <1>4 DEF VerifyLedgerChain
  <2> QED BY <1>1, <1>3, <1>4, <2>1
<1>5. CASE i = Len(chain) + 1
  <2>1. i - 1 = Len(chain)
    BY <1>1, <1>5
  <2>2. SubSeq(chain, 1, Len(chain)) = chain
    BY SubSeqFull
  <2> QED BY <1>1, <1>3, <1>5, <2>1, <2>2
<1> QED BY <1>4, <1>5

LEMMA EvidenceInvInit == EvidenceInit => EvidenceInv
<1> SUFFICES ASSUME EvidenceInit PROVE EvidenceInv
  OBVIOUS
<1>1. LeaseInv
  BY LeaseInvInit DEF EvidenceInit
<1>2. entries = <<>> /\ snapCount = 0 /\ appending = [p \in Instance |-> NoAppend]
  BY DEF EvidenceInit
<1>3. ChainIntact
  BY <1>2 DEF ChainIntact, VerifyLedgerChain
<1>4. appending \in [Instance -> AppendState] /\ entries \in Seq(Entry)
  BY <1>2 DEF AppendState
<1>5. \A p \in Instance : appending[p] = NoAppend /\ appending[p].pc = "none"
  BY <1>2 DEF NoAppend
<1> QED BY <1>1, <1>2, <1>3, <1>4, <1>5 DEF EvidenceInv

LEMMA LeaseInvEvidenceNext ==
    ASSUME ~Concurrent, ~Stalls, LeaseInv, [EvidenceNext]_ledgerVars
    PROVE  LeaseInv'
<1>1. [LeaseNext]_leaseVars
  BY DEF EvidenceNext, LeaseStep, ReadEntries, AppendEntry, WriteEvidenceSnapshot, ExitWriting,
         LeaseNext, ledgerVars
<1> QED BY <1>1, LeaseInvNext

LEMMA EvidenceInvNext ==
    ASSUME ~Concurrent, ~Stalls, EvidenceInv, [EvidenceNext]_ledgerVars
    PROVE  EvidenceInv'
<1>0. LeaseInv /\ LeaseInv'
  BY LeaseInvEvidenceNext DEF EvidenceInv
<1>1. /\ entries \in Seq(Entry) /\ Len(entries) \in Nat
      /\ appending \in [Instance -> AppendState]
      /\ \A p \in Instance : role[p] \notin Writing => appending[p].pc = "none"
      /\ \A p, q \in Instance : role[p] \in Writing /\ role[q] \in Writing => p = q
      /\ role \in [Instance -> {"off", "claim", "readonly", "gone"} \cup Writing]
  BY <1>0 DEF EvidenceInv, LeaseInv, LeaseTypeOK, NoAppend
<1>2. ASSUME UNCHANGED evidenceVars,
             \A p \in Instance : role[p] \in Writing => role'[p] \in Writing
      PROVE  EvidenceInv'
  BY <1>0, <1>2 DEF EvidenceInv, evidenceVars, ChainIntact
<1>3. CASE LeaseStep
  <2>1. \A p \in Instance : role[p] \in Writing => role'[p] \in Writing
    BY <1>1, <1>3 DEF LeaseStep, LeaseTick, ReadLease, ClaimLease, ReadToBeat, Beat, Writing
  <2> QED BY <1>2, <1>3, <2>1 DEF LeaseStep
<1>4. ASSUME NEW p \in Instance, NEW claim \in Claim, ReadEntries(p, claim) PROVE EvidenceInv'
  <2> DEFINE w == [pc |-> "append", claim |-> claim, read |-> entries]
  <2>1. w \in AppendState /\ w.pc = "append" /\ w.read = entries /\ w.claim = claim
    BY <1>1 DEF AppendState
  <2>2. appending' = [appending EXCEPT ![p] = w] /\ IsNew(claim, entries) /\ role[p] \in Writing
        /\ UNCHANGED <<entries, snapCount, cutShort, role>>
    BY <1>4 DEF ReadEntries, Appends, leaseVars
  <2> HIDE DEF w
  <2>3. appending' \in [Instance -> AppendState]
        /\ \A q \in Instance : appending'[q] = IF q = p THEN w ELSE appending[q]
    BY <1>1, <2>1, <2>2
  <2>4. appending[p].pc # "snapshot"
    BY <1>4 DEF ReadEntries, NoAppend
  <2> QED BY <1>0, <2>1, <2>2, <2>3, <2>4 DEF EvidenceInv, ChainIntact
<1>5. ASSUME NEW p \in Instance, AppendEntry(p) PROVE EvidenceInv'
  <2> DEFINE e == [prev |-> LastHash(appending[p].read), claim |-> appending[p].claim]
             w == [appending[p] EXCEPT !.pc = "snapshot"]
  <2>1. /\ appending[p].pc = "append" /\ entries' = Append(entries, e)
        /\ appending' = [appending EXCEPT ![p] = w]
        /\ UNCHANGED <<snapCount, cutShort, role>>
    BY <1>5 DEF AppendEntry, Appends, leaseVars
  <2>2. /\ appending[p] \in [pc : {"append", "snapshot"}, claim : Claim, read : Seq(Entry)]
        /\ appending[p] # NoAppend
    BY <1>1, <2>1 DEF AppendState, NoAppend
  <2>3. role[p] \in Writing
    BY <2>2 DEF EvidenceInv
  <2>4. appending[p].read = entries /\ IsNew(appending[p].claim, entries)
    BY <2>1 DEF EvidenceInv
  <2>5. e \in Entry /\ e.prev = LastHash(entries) /\ e.claim = appending[p].claim
    BY <1>1, <2>2, <2>4, LastHashType DEF Entry
  <2>6. w \in AppendState /\ w.pc = "snapshot" /\ w.read = entries
    BY <2>2, <2>4 DEF AppendState
  <2> HIDE DEF e, w
  <2>7. /\ entries' \in Seq(Entry) /\ Len(entries') = Len(entries) + 1
        /\ DOMAIN entries' = 1 .. Len(entries) + 1 /\ DOMAIN entries = 1 .. Len(entries)
        /\ \A i \in 1 .. Len(entries) : entries'[i] = entries[i]
        /\ entries'[Len(entries) + 1] = e
    BY <1>1, <2>1, <2>5
  <2>8. VerifyLedgerChain(entries')
    BY <1>1, <2>1, <2>5, ChainGrows DEF EvidenceInv, ChainIntact
  <2>9. \A i, j \in DOMAIN entries' : entries'[i].claim = entries'[j].claim => i = j
    <3>1. \A i, j \in 1 .. Len(entries) : entries[i].claim = entries[j].claim => i = j
      BY <2>7 DEF EvidenceInv, ChainIntact
    <3>2. \A i \in 1 .. Len(entries) : entries[i].claim # e.claim
      BY <2>4, <2>5, <2>7 DEF IsNew
    <3>3. \A i \in DOMAIN entries' : i \in 1 .. Len(entries) \/ i = Len(entries) + 1
      BY <1>1, <2>7
    <3> QED BY <2>7, <3>1, <3>2, <3>3
  <2>10. appending' \in [Instance -> AppendState]
         /\ \A q \in Instance : appending'[q] = IF q = p THEN w ELSE appending[q]
    BY <1>1, <2>1, <2>6
  <2>11. \A q \in Instance : q # p => appending[q].pc = "none"
    BY <1>1, <2>3
  <2> QED BY <1>0, <2>1, <2>3, <2>6, <2>7, <2>8, <2>9, <2>10, <2>11 DEF EvidenceInv, ChainIntact
<1>6. ASSUME NEW p \in Instance, WriteEvidenceSnapshot(p) PROVE EvidenceInv'
  <2>1. /\ appending[p].pc = "snapshot" /\ snapCount' = Len(appending[p].read) + 1
        /\ appending' = [appending EXCEPT ![p] = NoAppend] /\ UNCHANGED <<entries, role>>
    BY <1>6 DEF WriteEvidenceSnapshot, Appends, leaseVars
  <2>2. Len(entries) = Len(appending[p].read) + 1
    BY <2>1 DEF EvidenceInv
  <2>3. appending' \in [Instance -> AppendState]
        /\ \A q \in Instance : appending'[q] = IF q = p THEN NoAppend ELSE appending[q]
    BY <1>1, <2>1 DEF AppendState
  <2>4. NoAppend.pc = "none"
    BY DEF NoAppend
  <2> QED BY <1>0, <2>1, <2>2, <2>3, <2>4 DEF EvidenceInv, ChainIntact
<1>7. ASSUME NEW p \in Instance, ExitWriting(p) PROVE EvidenceInv'
  <2>1. /\ appending' = [appending EXCEPT ![p] = NoAppend] /\ UNCHANGED <<entries, snapCount>>
        /\ \A q \in Instance : q # p => role'[q] = role[q]
    BY <1>1, <1>7 DEF ExitWriting, Appends, Exit
  <2>2. ~cutShort' => ~cutShort /\ appending[p].pc # "snapshot"
    BY <1>7, Zenon DEF ExitWriting
  <2>3. appending' \in [Instance -> AppendState]
        /\ \A q \in Instance : appending'[q] = IF q = p THEN NoAppend ELSE appending[q]
    BY <1>1, <2>1 DEF AppendState
  <2>4. NoAppend.pc = "none"
    BY DEF NoAppend
  <2> QED BY <1>0, <2>1, <2>2, <2>3, <2>4 DEF EvidenceInv, ChainIntact
<1>8. CASE UNCHANGED ledgerVars
  BY <1>2, <1>8 DEF ledgerVars, leaseVars
<1> QED BY <1>3, <1>4, <1>5, <1>6, <1>7, <1>8 DEF EvidenceNext

\* The ledger of evidence is one chain without a claim twice, and between
\* appends an audit finds something only after a writer died before its
\* snapshot, for any number of processes that come and go: when starts do not
\* overlap and heartbeats are on time.
THEOREM OneChain ==
    ASSUME ~Concurrent, ~Stalls
    PROVE  EvidenceSpec => []LedgerSound
<1>1. EvidenceInv /\ [EvidenceNext]_ledgerVars => EvidenceInv'
  BY EvidenceInvNext
<1>2. EvidenceInv => LedgerSound
  <2>1. EvidenceInv => AuditIsFair
    BY DEF EvidenceInv, ChainIntact, AuditIsFair, Findings, NoAppend
  <2> QED BY <2>1 DEF EvidenceInv, LedgerSound
<1> QED BY EvidenceInvInit, <1>1, <1>2, PTL DEF EvidenceSpec

-----------------------------------------------------------------------------
(* The file lock *)

Using == {"inside", "leave"}

\* Why UnlinkStale does not run and Release removes the right lock.
Orderly ==
    /\ \A p \in Proc : pc[p] \in Using => lock = p
    /\ lock # NoProc => pc[lock] \in Using
    /\ (\E p \in Proc : pc[p] \in Using) => age <= Stale
    /\ \A p \in Proc : pc[p] # "unlink"

\* The inductive invariant; death is for ever, so that a step which ends with
\* everybody alive has begun so.
LockInv == TypeOK /\ (NobodyDied => Orderly)

LEMMA LockInvInit == Init => LockInv
BY FileLockAssumption DEF Init, LockInv, TypeOK, Orderly, NobodyDied, Where, Using

LEMMA LockTypeNext ==
    ASSUME TypeOK, [Next]_vars
    PROVE  TypeOK'
<1> USE FileLockAssumption DEF TypeOK, Where
<1>1. CASE UNCHANGED vars
  BY <1>1 DEF vars
<1>2. CASE Tick
  BY <1>2 DEF Tick
<1>3. ASSUME NEW p \in Proc, Request(p) \/ Open(p) \/ StatLock(p) PROVE TypeOK'
  BY <1>3 DEF Request, Open, StatLock, Move
<1>4. ASSUME NEW p \in Proc, UnlinkStale(p) \/ Retry(p) \/ GiveUp(p) PROVE TypeOK'
  BY <1>4 DEF UnlinkStale, Retry, GiveUp, Move
<1>5. ASSUME NEW p \in Proc, Finish(p) \/ Release(p) \/ Crash(p) PROVE TypeOK'
  BY <1>5 DEF Finish, Release, Crash, Move
<1> QED BY <1>1, <1>2, <1>3, <1>4, <1>5 DEF Next, Step

LEMMA DeathIsForever ==
    ASSUME TypeOK, [Next]_vars, NobodyDied'
    PROVE  NobodyDied
<1> SUFFICES ASSUME NEW p \in Proc, pc[p] = "dead" PROVE pc'[p] = "dead"
  BY DEF NobodyDied
<1>1. CASE UNCHANGED <<lock, pc>>
  BY <1>1
<1>2. ASSUME NEW q \in Proc, Request(q) \/ Step(q) \/ Crash(q) PROVE pc'[p] = "dead"
  <2>1. pc[q] # "dead"
    BY <1>2 DEF Request, Step, Open, StatLock, UnlinkStale, Retry, GiveUp, Finish,
                Release, Crash, Move
  <2>2. \E x : pc' = [pc EXCEPT ![q] = x]
    BY <1>2 DEF Request, Step, Open, StatLock, UnlinkStale, Retry, GiveUp, Finish,
                Release, Crash, Move
  <2> QED BY <2>1, <2>2 DEF TypeOK
<1> QED BY <1>1, <1>2 DEF Next, Tick, vars

LEMMA OrderlyNext ==
    ASSUME ~Overstay, TypeOK, Orderly, NobodyDied', [Next]_vars
    PROVE  Orderly'
<1> USE FileLockAssumption DEF TypeOK, Orderly, Where, Using
<1>1. CASE UNCHANGED vars
  BY <1>1 DEF vars
<1>2. CASE Tick
  BY <1>2 DEF Tick
<1>3. ASSUME NEW p \in Proc, Request(p) PROVE Orderly'
  BY <1>3 DEF Request, Move
<1>4. ASSUME NEW p \in Proc, Open(p) PROVE Orderly'
  <2>1. CASE lock = NoProc
    BY <1>4, <2>1 DEF Open, Move
  <2>2. CASE lock # NoProc
    BY <1>4, <2>2 DEF Open, Move
  <2> QED BY <2>1, <2>2
<1>5. ASSUME NEW p \in Proc, StatLock(p) PROVE Orderly'
  <2>1. ~(lock # NoProc /\ age > Stale)
    OBVIOUS
  <2>2. pc' = [pc EXCEPT ![p] = "sleep"] /\ pc[p] = "stat"
    BY <1>5, <2>1 DEF StatLock, Move
  <2> QED BY <1>5, <2>2 DEF StatLock
<1>6. ASSUME NEW p \in Proc, UnlinkStale(p) PROVE Orderly'
  BY <1>6 DEF UnlinkStale, Move
<1>7. ASSUME NEW p \in Proc, Retry(p) PROVE Orderly'
  BY <1>7 DEF Retry, Move
<1>8. ASSUME NEW p \in Proc, GiveUp(p) PROVE Orderly'
  BY <1>8 DEF GiveUp, Move
<1>9. ASSUME NEW p \in Proc, Finish(p) PROVE Orderly'
  BY <1>9 DEF Finish, Move
<1>10. ASSUME NEW p \in Proc, Release(p) PROVE Orderly'
  BY <1>10 DEF Release, Move
<1>11. ASSUME NEW p \in Proc, Crash(p) PROVE Orderly'
  BY <1>11 DEF Crash, NobodyDied
<1> QED
  BY <1>1, <1>2, <1>3, <1>4, <1>5, <1>6, <1>7, <1>8, <1>9, <1>10, <1>11 DEF Next, Step

LEMMA LockInvNext ==
    ASSUME ~Overstay, LockInv, [Next]_vars
    PROVE  LockInv'
BY LockTypeNext, DeathIsForever, OrderlyNext DEF LockInv

\* Whoever is inside owns the lock file until a process dies, when none
\* overstays (claim-file-lock.ts: the finally block unlinks its own lock).
THEOREM LockOwned ==
    ASSUME ~Overstay
    PROVE  Spec => []HolderOwnsLock
<1>1. LockInv /\ [Next]_vars => LockInv'
  BY LockInvNext
<1>2. LockInv => HolderOwnsLock
  BY DEF LockInv, Orderly, HolderOwnsLock, Using
<1> QED BY LockInvInit, <1>1, <1>2, PTL DEF Spec

\* Under the same assumption at most one process runs its function at a time,
\* until one dies.
THEOREM Exclusive ==
    ASSUME ~Overstay
    PROVE  Spec => [](NobodyDied => MutualExclusion)
<1>1. HolderOwnsLock => (NobodyDied => MutualExclusion)
  BY DEF HolderOwnsLock, MutualExclusion
<1>2. Spec => []HolderOwnsLock
  BY LockOwned
<1> QED BY <1>1, <1>2, PTL

-----------------------------------------------------------------------------
(* The restore drill *)

\* Unless a FAIL was logged, every table of this drill has been exported when
\* its first phase is over, and as much of it as the export has come through.
Exported ==
    /\ step.pc = "export" /\ ~fails => \A t \in Table \ step.todo : csv[t] = "this"
    /\ step.pc = "teardown" /\ phase = "source" /\ ~thrown /\ ~fails =>
         \A t \in Table : csv[t] = "this"
    /\ phase = "restore" /\ ~fails => \A t \in Table : csv[t] = "this"

\* The new container has only what was imported, which the verification asks
\* for before the drill goes on without a FAIL.
Imported ==
    phase = "restore" =>
        /\ step.pc \in {"migrate", "import", "verify"} =>
             \A t \in container.rows : <<t, csv[t]>> \in imported
        /\ step.pc \in {"schema", "teardown"} /\ ~fails /\ ~thrown =>
             \A t \in Filled : <<t, "this">> \in imported

DrillInv ==
    /\ DrillTypeOK
    /\ step.pc \in {"smoke", "fill", "export"} => phase = "source"
    /\ step.pc \in {"import", "verify", "schema"} => phase = "restore"
    /\ Exported
    /\ Imported
    /\ DrillSound

LEMMA GoToMeans ==
    \A where, tables : GoTo(where, tables) => step'.pc = where /\ step'.todo = tables
BY DEF GoTo, Do

LEMMA NoContainerMeans == NoContainer.there = FALSE /\ NoContainer.rows = {}
BY DEF NoContainer

LEMMA DrillInvInit == DrillInit => DrillInv
<1> SUFFICES ASSUME DrillInit PROVE DrillInv
  OBVIOUS
<1>1. container \in [there : BOOLEAN, rows : SUBSET Table]
  <2>1. CASE container = NoContainer
    BY <2>1 DEF NoContainer
  <2>2. CASE container = [there |-> TRUE, rows |-> Filled]
    BY <2>2, RestoreDrillAssumption
  <2> QED BY <2>1, <2>2 DEF DrillInit
<1>2. csv \in [Table -> {"absent", "earlier", "this"}]
  BY DEF DrillInit
<1>3. step \in [pc : {"remove"}, todo : {{}}]
  BY DEF DrillInit, Do
<1>4. step.pc = "remove" /\ phase = "source" /\ DrillTypeOK
  BY <1>1, <1>2, <1>3 DEF DrillInit, DrillTypeOK
<1> QED BY <1>4 DEF DrillInv, Exported, Imported, DrillSound, PassedRestored, TornDown

\* The types that the steps keep.
LEMMA GoToType ==
    ASSUME NEW where \in {"remove", "create", "migrate", "smoke", "fill", "export", "import",
                          "verify", "schema", "teardown", "passed", "failed"},
           NEW tables \in SUBSET Table, GoTo(where, tables)
    PROVE  step' \in [pc : {"remove", "create", "migrate", "smoke", "fill", "export", "import",
                            "verify", "schema", "teardown", "passed", "failed"},
                      todo : SUBSET Table]
BY DEF GoTo, Do

LEMMA RemovalType ==
    ASSUME container \in [there : BOOLEAN, rows : SUBSET Table], stuck \in BOOLEAN, RemoveContainer
    PROVE  /\ container' \in [there : BOOLEAN, rows : SUBSET Table]
           /\ stuck' \in BOOLEAN
           /\ ~container'.there \/ stuck'
<1>1. NoContainer \in [there : BOOLEAN, rows : SUBSET Table]
  BY DEF NoContainer
<1>2. CASE container' = NoContainer /\ stuck' = FALSE
  BY <1>1, <1>2, NoContainerMeans
<1>3. CASE UNCHANGED container /\ stuck' = container.there
  <2>1. container.there \in BOOLEAN
    OBVIOUS
  <2>2. ~container.there \/ stuck'
    BY <1>3, Zenon
  <2> QED BY <1>3, <2>1, <2>2, Zenon
<1> QED BY <1>2, <1>3 DEF RemoveContainer

LEMMA DrillTypeNext ==
    ASSUME DrillTypeOK, [DrillNext]_drillVars
    PROVE  DrillTypeOK'
<1> USE RestoreDrillAssumption DEF DrillTypeOK
<1>1. CASE UNCHANGED drillVars
  BY <1>1 DEF drillVars
<1>2. CASE RemoveOld
  BY <1>2, GoToType, RemovalType DEF RemoveOld
<1>3. CASE CreateContainer
  <2>1. [there |-> TRUE, rows |-> {}] \in [there : BOOLEAN, rows : SUBSET Table]
    OBVIOUS
  <2>2. container' \in [there : BOOLEAN, rows : SUBSET Table]
    BY <1>3, <2>1 DEF CreateContainer
  <2> QED BY <1>3, <2>2, GoToType DEF CreateContainer, Throw
<1>4. CASE ApplyMigrations
  BY <1>4, GoToType DEF ApplyMigrations, Throw
<1>5. CASE SmokeTests
  BY <1>5, GoToType DEF SmokeTests, Throw
<1>6. CASE InsertFixtures
  <2>1. container' \in [there : BOOLEAN, rows : SUBSET Table]
    BY <1>6 DEF InsertFixtures
  <2> QED BY <1>6, <2>1, GoToType DEF InsertFixtures, Throw
<1>7. CASE ExportTable
  BY <1>7, GoToType DEF ExportTable, ExportFails
<1>8. CASE ImportTable
  <2>1. PICK t \in step.todo :
          /\ IF step.todo = {t} THEN GoTo("verify", Filled) ELSE GoTo("import", step.todo \ {t})
          /\ IF csv[t] = "absent" \/ t \notin Filled
             THEN UNCHANGED <<container, imported, fails>>
             ELSE \/ /\ container' = [container EXCEPT !.rows = @ \cup {t}]
                     /\ imported' = imported \cup {<<t, csv[t]>>}
                     /\ UNCHANGED fails
                  \/ fails' = TRUE /\ UNCHANGED <<container, imported>>
    BY <1>8 DEF ImportTable
  <2>2. t \in Table /\ step.todo \ {t} \in SUBSET Table
    OBVIOUS
  <2>3. container' \in [there : BOOLEAN, rows : SUBSET Table]
    BY <2>1, <2>2
  <2>4. imported' \subseteq Table \X {"earlier", "this"}
    BY <2>1, <2>2
  <2> QED BY <1>8, <2>1, <2>2, <2>3, <2>4, GoToType DEF ImportTable
<1>9. CASE VerifyRows
  BY <1>9, GoToType DEF VerifyRows, Throw
<1>10. CASE AssertSchema
  BY <1>10, GoToType DEF AssertSchema, Throw
<1>11. CASE Teardown
  <2>1. \/ GoTo("failed", {}) /\ UNCHANGED phase
        \/ GoTo("passed", {}) /\ UNCHANGED phase
        \/ GoTo("remove", {}) /\ phase' = "restore"
    BY <1>11 DEF Teardown
  <2> QED BY <1>11, <2>1, GoToType, RemovalType DEF Teardown
<1> QED BY <1>1, <1>2, <1>3, <1>4, <1>5, <1>6, <1>7, <1>8, <1>9, <1>10, <1>11 DEF DrillNext

LEMMA DrillInvNext ==
    ASSUME DrillInv, [DrillNext]_drillVars
    PROVE  DrillInv'
<1>0. DrillTypeOK /\ DrillTypeOK'
  BY DrillTypeNext DEF DrillInv
<1> USE DEF DrillInv, Exported, Imported, DrillSound, PassedRestored, TornDown
<1> HIDE DEF DrillTypeOK
<1>1. CASE UNCHANGED drillVars
  BY <1>0, <1>1 DEF drillVars
<1>2. CASE RemoveOld
  BY <1>0, <1>2, GoToMeans DEF RemoveOld
<1>3. CASE CreateContainer
  <2>1. (step'.pc = "migrate" /\ container'.rows = {}) \/ (step'.pc = "teardown" /\ thrown')
    BY <1>3, GoToMeans DEF CreateContainer, Throw
  <2> QED BY <1>0, <1>3, <2>1 DEF CreateContainer
<1>4. CASE ApplyMigrations
  <2>1. (step'.pc \in {"smoke", "import"} /\ UNCHANGED fails) \/ (step'.pc = "teardown" /\ thrown')
    BY <1>4, GoToMeans DEF ApplyMigrations, Throw
  <2>2. IF phase = "source" THEN step'.pc # "import" ELSE step'.pc # "smoke"
    BY <1>4, GoToMeans DEF ApplyMigrations, Throw
  <2>3. phase \in {"source", "restore"}
    BY <1>0 DEF DrillTypeOK
  <2> QED BY <1>0, <1>4, <2>1, <2>2, <2>3 DEF ApplyMigrations
<1>5. CASE SmokeTests
  <2>1. step'.pc = "fill" \/ (step'.pc = "teardown" /\ thrown')
    BY <1>5, GoToMeans DEF SmokeTests, Throw
  <2>2. phase' = "source"
    BY <1>5 DEF SmokeTests
  <2> QED BY <1>0, <2>1, <2>2
<1>6. CASE InsertFixtures
  BY <1>0, <1>6, GoToMeans DEF InsertFixtures, Throw
<1>7. CASE ExportTable
  <2>1. PICK t \in step.todo :
          /\ IF step.todo = {t} THEN GoTo("teardown", {}) ELSE GoTo("export", step.todo \ {t})
          /\ (csv' = [csv EXCEPT ![t] = "this"] /\ UNCHANGED fails) \/ (fails' /\ UNCHANGED csv)
    BY <1>7 DEF ExportTable, ExportFails
  <2>2. \/ step'.pc = "teardown" /\ step.todo = {t}
        \/ step'.pc = "export" /\ step'.todo = step.todo \ {t}
    BY <2>1, GoToMeans
  <2>3. phase' = "source" /\ (~fails' => ~fails)
    BY <1>7, <2>1 DEF ExportTable
  <2>4. ~fails' => \A u \in Table : u = t \/ u \notin step.todo => csv'[u] = "this"
    BY <1>0, <1>7, <2>1, <2>3 DEF DrillTypeOK, ExportTable
  <2> QED BY <1>0, <2>2, <2>3, <2>4
<1>8. CASE ImportTable
  <2>1. PICK t \in step.todo :
          /\ IF step.todo = {t} THEN GoTo("verify", Filled) ELSE GoTo("import", step.todo \ {t})
          /\ IF csv[t] = "absent" \/ t \notin Filled
             THEN UNCHANGED <<container, imported, fails>>
             ELSE \/ /\ container' = [container EXCEPT !.rows = @ \cup {t}]
                     /\ imported' = imported \cup {<<t, csv[t]>>}
                     /\ UNCHANGED fails
                  \/ fails' = TRUE /\ UNCHANGED <<container, imported>>
    BY <1>8 DEF ImportTable
  <2>2. step'.pc \in {"verify", "import"} /\ UNCHANGED <<phase, csv>> /\ (~fails' => ~fails)
    BY <1>8, <2>1, GoToMeans DEF ImportTable
  <2>3. container'.rows \subseteq container.rows \cup {t}
    BY <1>0, <2>1 DEF DrillTypeOK
  <2>4. \/ container'.rows = container.rows /\ imported' = imported
        \/ imported' = imported \cup {<<t, csv[t]>>}
    BY <2>1
  <2>5. step.pc = "import"
    BY <1>8 DEF ImportTable
  <2> QED BY <1>0, <2>2, <2>3, <2>4, <2>5
<1>9. CASE VerifyRows
  <2>1. CASE step'.pc = "schema" /\ fails' = (fails \/ ~(Filled \subseteq container.rows))
    <3>1. ~fails' => ~fails /\ Filled \subseteq container.rows
      BY <1>0, <2>1, Zenon DEF DrillTypeOK
    <3>2. phase = "restore" /\ ~fails' => \A t \in Filled : <<t, "this">> \in imported
      BY <1>9, <3>1, RestoreDrillAssumption DEF VerifyRows
    <3> QED BY <1>0, <1>9, <2>1, <3>1, <3>2 DEF VerifyRows
  <2>2. CASE step'.pc = "teardown" /\ thrown' /\ UNCHANGED fails
    BY <1>0, <1>9, <2>2 DEF VerifyRows
  <2> QED BY <1>9, <2>1, <2>2, GoToMeans DEF VerifyRows, Throw
<1>10. CASE AssertSchema
  <2>1. step'.pc = "teardown"
    BY <1>10, GoToMeans DEF AssertSchema, Throw
  <2>2. ~fails' /\ ~thrown' => ~fails /\ ~thrown
    BY <1>10, Zenon DEF AssertSchema, Throw
  <2> QED BY <1>0, <1>10, <2>1, <2>2 DEF AssertSchema
<1>11. CASE Teardown
  BY <1>0, <1>11, GoToMeans, RemovalType DEF Teardown, DrillTypeOK
<1> QED BY <1>1, <1>2, <1>3, <1>4, <1>5, <1>6, <1>7, <1>8, <1>9, <1>10, <1>11 DEF DrillNext

\* A drill that passes has restored every fixture row from its own export, and
\* a drill that ends leaves no container it could remove, whatever fails.
THEOREM DrillIsSound == DrillSpec => []DrillSound
<1>1. DrillInv /\ [DrillNext]_drillVars => DrillInv'
  BY DrillInvNext
<1>2. DrillInv => DrillSound
  BY DEF DrillInv
<1> QED BY DrillInvInit, <1>1, <1>2, PTL DEF DrillSpec

-----------------------------------------------------------------------------
(* The backups *)

BackupRecord == [copied : SUBSET StateDir, manifest : BOOLEAN]

\* The good backup is as many directories from the newest as there have been
\* runs since; a run at work is one of them, and its directory the newest.
BackupInv ==
    /\ BackupTypeOK
    /\ since <= runs
    /\ job.pc \in {"archive", "export", "manifest"} => Newest >= 1 /\ since >= 1
    /\ runs > since /\ since < Keep => since < Newest /\ Good(backups[Newest - since])

LEMMA BackupInvInit == BackupInit => BackupInv
BY BackupAssumption DEF BackupInit, BackupInv, BackupTypeOK, At, Newest

\* The newest directory is changed, the others are what they were.
LEMMA NewestChanged ==
    ASSUME NEW bs \in Seq(BackupRecord), Len(bs) >= 1, NEW b \in BackupRecord
    PROVE  LET cs == [bs EXCEPT ![Len(bs)] = b] IN
           /\ cs \in Seq(BackupRecord) /\ Len(cs) = Len(bs)
           /\ cs[Len(bs)] = b
           /\ \A i \in 1 .. Len(bs) - 1 : cs[i] = bs[i]
OBVIOUS

LEMMA BackupInvNext ==
    ASSUME BackupInv, [BackupNext]_backupVars
    PROVE  BackupInv'
<1>0. /\ backups \in Seq(BackupRecord) /\ Len(backups) <= runs
      /\ job \in [pc : {"idle", "archive", "export", "manifest", "retain"}, todo : SUBSET StateDir]
      /\ runs \in 0 .. MaxRuns /\ since \in 0 .. MaxRuns
      /\ Newest \in Nat /\ Newest = Len(backups)
  BY BackupAssumption DEF BackupInv, BackupTypeOK, BackupRecord, Newest
<1> USE BackupAssumption
<1>1. CASE UNCHANGED backupVars
  BY <1>1 DEF backupVars, BackupInv, BackupTypeOK, Newest, Good
<1>2. CASE MakeBackupDir
  <2> DEFINE b == [copied |-> {}, manifest |-> FALSE]
  <2>1. b \in BackupRecord
    BY DEF BackupRecord
  <2>2. backups' = Append(backups, b) /\ runs' = runs + 1 /\ since' = since + 1 /\ runs < MaxRuns
        /\ job' = [pc |-> "archive", todo |-> StateDir]
    BY <1>2 DEF MakeBackupDir
  <2> HIDE DEF b
  <2>3. /\ backups' \in Seq(BackupRecord) /\ Len(backups') = Newest + 1
        /\ \A i \in 1 .. Newest : backups'[i] = backups[i]
    BY <1>0, <2>1, <2>2
  <2>4. BackupTypeOK'
    BY <1>0, <2>2, <2>3 DEF BackupInv, BackupTypeOK, BackupRecord
  <2>5. ASSUME runs' > since', since' < Keep
        PROVE  since' < Newest' /\ Good(backups'[Newest' - since'])
    <3>1. since < Newest /\ Good(backups[Newest - since])
      BY <1>0, <2>2, <2>5 DEF BackupInv
    <3>2. Newest' - since' = Newest - since /\ Newest' = Newest + 1
      BY <1>0, <2>2, <2>3 DEF Newest
    <3>3. Newest - since \in 1 .. Newest
      BY <1>0, <3>1
    <3> QED BY <1>0, <2>2, <2>3, <3>1, <3>2, <3>3
  <2>6. Newest' >= 1 /\ since' >= 1 /\ since' <= runs'
    BY <1>0, <2>2, <2>3 DEF Newest, BackupInv
  <2> QED BY <2>4, <2>5, <2>6 DEF BackupInv
<1>3. ASSUME NEW b \in BackupRecord, backups' = [backups EXCEPT ![Newest] = b],
             UNCHANGED runs, Newest >= 1, since >= 1, job'.pc # "idle",
             job' \in [pc : {"idle", "archive", "export", "manifest", "retain"}, todo : SUBSET StateDir],
             \/ UNCHANGED since
             \/ since' = 0 /\ Good(b) /\ job'.pc = "retain"
      PROVE  BackupInv'
  <2>1. /\ backups' \in Seq(BackupRecord) /\ Len(backups') = Newest
        /\ backups'[Newest] = b
        /\ \A i \in 1 .. Newest - 1 : backups'[i] = backups[i]
    BY <1>0, <1>3, NewestChanged
  <2>2. Newest' = Newest
    BY <2>1 DEF Newest
  <2>3. BackupTypeOK'
    BY <1>0, <1>3, <2>1 DEF BackupTypeOK, BackupRecord
  <2>4. ASSUME runs' > since', since' < Keep
        PROVE  since' < Newest' /\ Good(backups'[Newest' - since'])
    <3>1. CASE UNCHANGED since
      <4>1. since < Newest /\ Good(backups[Newest - since])
        BY <1>0, <1>3, <2>4, <3>1 DEF BackupInv
      <4>2. Newest - since \in 1 .. Newest - 1
        BY <1>0, <1>3, <4>1
      <4> QED BY <2>1, <2>2, <3>1, <4>1, <4>2
    <3>2. CASE since' = 0 /\ Good(b)
      BY <1>0, <1>3, <2>1, <2>2, <3>2
    <3> QED BY <1>3, <3>1, <3>2
  <2>5. since' <= runs'
    BY <1>0, <1>3 DEF BackupInv
  <2>6. job'.pc \in {"archive", "export", "manifest"} => since' >= 1
    BY <1>3
  <2> QED BY <1>3, <2>2, <2>3, <2>4, <2>5, <2>6 DEF BackupInv
<1>4. ASSUME UNCHANGED <<backups, runs, since>>,
             job' \in [pc : {"idle", "archive", "export", "manifest", "retain"}, todo : SUBSET StateDir],
             \/ job'.pc \in {"idle", "retain"}
             \/ job.pc \in {"archive", "export", "manifest"}
      PROVE  BackupInv'
  <2>1. Newest' = Newest
    BY <1>4 DEF Newest
  <2>2. BackupTypeOK'
    BY <1>4 DEF BackupInv, BackupTypeOK
  <2> QED BY <1>4, <2>1, <2>2 DEF BackupInv
<1>5. CASE ArchiveStateDir
  <2>1. PICK d \in job.todo :
          /\ job' = IF job.todo = {d} THEN At("export") ELSE [job EXCEPT !.todo = @ \ {d}]
          /\ \/ backups' = [backups EXCEPT ![Newest].copied = @ \cup {d}]
             \/ UNCHANGED backups
    BY <1>5 DEF ArchiveStateDir
  <2>2. /\ job.pc = "archive" /\ UNCHANGED <<runs, since>> /\ d \in StateDir
        /\ Newest >= 1 /\ since >= 1
    BY <1>0, <1>5 DEF ArchiveStateDir, BackupInv
  <2>3. /\ job' \in [pc : {"idle", "archive", "export", "manifest", "retain"}, todo : SUBSET StateDir]
        /\ job'.pc \in {"archive", "export"}
    BY <1>0, <2>1, <2>2 DEF At
  <2>4. CASE backups' = [backups EXCEPT ![Newest].copied = @ \cup {d}]
    <3> DEFINE b == [backups[Newest] EXCEPT !.copied = @ \cup {d}]
    <3>1. backups[Newest] \in BackupRecord
      BY <1>0, <2>2
    <3>2. b \in BackupRecord
      BY <2>2, <3>1 DEF BackupRecord
    <3>3. backups' = [backups EXCEPT ![Newest] = b]
      BY <2>4
    <3> HIDE DEF b
    <3> QED BY <1>3, <2>2, <2>3, <3>2, <3>3
  <2>5. CASE UNCHANGED backups
    BY <1>4, <2>2, <2>3, <2>5
  <2> QED BY <2>1, <2>4, <2>5
<1>6. CASE ExportDatabase
  <2>1. job' = [pc |-> "manifest", todo |-> {}] /\ job.pc = "export" /\ UNCHANGED <<backups, runs, since>>
    BY <1>6 DEF ExportDatabase, At
  <2> QED BY <1>4, <2>1
<1>7. CASE WriteManifest
  <2> DEFINE b == [backups[Newest] EXCEPT !.manifest = TRUE]
  <2>1. job.pc = "manifest" /\ Newest >= 1 /\ since >= 1 /\ UNCHANGED runs
    BY <1>7 DEF WriteManifest, BackupInv
  <2>2. backups[Newest] \in BackupRecord
    BY <1>0, <2>1
  <2>3. b \in BackupRecord
    BY <2>2 DEF BackupRecord
  <2>4. backups' = [backups EXCEPT ![Newest] = b]
    BY <1>7 DEF WriteManifest
  <2> HIDE DEF b
  <2>5. backups'[Newest] = b
    BY <1>0, <2>1, <2>3, <2>4, NewestChanged
  <2>6. UNCHANGED since \/ (since' = 0 /\ Good(b))
    BY <1>7, <2>5 DEF WriteManifest
  <2>7. job' = [pc |-> "retain", todo |-> {}]
    BY <1>7 DEF WriteManifest, At
  <2> QED BY <1>3, <2>1, <2>3, <2>4, <2>6, <2>7
<1>8. CASE EnforceRetention
  <2>1. CASE MustPrune(Len(backups))
    <3>1. backups' = Tail(backups) /\ UNCHANGED <<job, runs, since>> /\ Newest > Keep
          /\ job.pc = "retain"
      BY <1>0, <1>8, <2>1 DEF EnforceRetention, MustPrune
    <3>2. /\ backups' \in Seq(BackupRecord) /\ Len(backups') = Newest - 1
          /\ \A i \in 1 .. Newest - 1 : backups'[i] = backups[i + 1]
      BY <1>0, <3>1
    <3>3. BackupTypeOK'
      BY <1>0, <3>1, <3>2 DEF BackupTypeOK, BackupRecord
    <3>4. ASSUME runs' > since', since' < Keep
          PROVE  since' < Newest' /\ Good(backups'[Newest' - since'])
      <4>1. Good(backups[Newest - since])
        BY <3>1, <3>4 DEF BackupInv
      <4>2. Newest' = Newest - 1 /\ since' < Newest'
        BY <1>0, <3>1, <3>2, <3>4 DEF Newest
      <4>3. Newest' - since' \in 1 .. Newest - 1 /\ (Newest' - since') + 1 = Newest - since
        BY <1>0, <3>1, <4>2
      <4> QED BY <3>2, <4>1, <4>2, <4>3
    <3> QED BY <3>1, <3>3, <3>4 DEF BackupInv
  <2>2. CASE ~MustPrune(Len(backups))
    <3>1. job' = [pc |-> "idle", todo |-> {}] /\ UNCHANGED <<backups, runs, since>>
      BY <1>8, <2>2 DEF EnforceRetention, At
    <3> QED BY <1>4, <3>1
  <2> QED BY <2>1, <2>2
<1>9. CASE JobDies
  <2>1. job' = [pc |-> "idle", todo |-> {}] /\ UNCHANGED <<backups, runs, since>>
    BY <1>9 DEF JobDies, At
  <2> QED BY <1>4, <2>1
<1> QED BY <1>1, <1>2, <1>5, <1>6, <1>7, <1>8, <1>9 DEF BackupNext

\* As long as fewer than Keep runs have begun since the latest good backup was
\* finished, there is a good backup, however those runs went.
THEOREM GoodBackupSurvives == BackupSpec => []GoodOneSurvives
<1>1. BackupInv /\ [BackupNext]_backupVars => BackupInv'
  BY BackupInvNext
<1>2. BackupInv => GoodOneSurvives
  <2> SUFFICES ASSUME BackupInv, runs > since, since < Keep
               PROVE  \E i \in DOMAIN backups : Good(backups[i])
    BY DEF GoodOneSurvives
  <2>1. since < Newest /\ Good(backups[Newest - since])
    BY DEF BackupInv
  <2>2. Newest - since \in DOMAIN backups
    BY <2>1, BackupAssumption DEF BackupInv, BackupTypeOK, Newest
  <2> QED BY <2>1, <2>2
<1> QED BY BackupInvInit, <1>1, <1>2, PTL DEF BackupSpec

-----------------------------------------------------------------------------
(* The calls of models *)

CallState ==
    {NoCall} \cup [pc : {"gate", "calling"}, host : Host, fallback : BOOLEAN, rest : SUBSET Provider]

\* The calls of h that have passed the gate of a paid provider.
Paying(calls, h) ==
    {c \in Call : /\ calls[c].pc = "calling" /\ calls[c].host = h
                  /\ Cheapest(calls[c].rest) \in Paid}

ModelTypes ==
    /\ call \in [Call -> CallState]
    /\ counter \in [Host -> Int]
    /\ receipts \in Nat
    /\ paidSpent \in [Host -> Nat]

\* What a host looks at never falls short of what it paid.
Counted ==
    \A h \in Host : /\ paidSpent[h] <= receipts
                    /\ counter[h] = Unread \/ paidSpent[h] <= counter[h]

\* What it paid and what it has let through to be paid.
Owed ==
    \A h \in Host : paidSpent[h] + Cardinality(Paying(call, h)) <= Cap - 1 + Cardinality(Call)

SpendInv == ModelTypes /\ (~torn => Counted /\ Owed)

LEMMA PayingIsFinite ==
    ASSUME NEW calls, NEW h
    PROVE  /\ IsFiniteSet(Paying(calls, h))
           /\ Cardinality(Paying(calls, h)) \in Nat /\ Cardinality(Call) \in Nat
           /\ Cardinality(Paying(calls, h)) <= Cardinality(Call)
<1>1. Paying(calls, h) \subseteq Call
  BY DEF Paying
<1> QED BY <1>1, ModelCallsAssumption, FS_Subset, FS_CardinalityType

LEMMA FewerPay ==
    ASSUME NEW cs, NEW ds, NEW h, Paying(ds, h) \subseteq Paying(cs, h)
    PROVE  Cardinality(Paying(ds, h)) <= Cardinality(Paying(cs, h))
BY PayingIsFinite, FS_Subset

\* A set of numbers has a least one: the natural order is well-founded.
LEMMA LeastNumber ==
    ASSUME NEW S \in SUBSET Nat, S # {}
    PROVE  \E m \in S : \A n \in S : m <= n
<1> DEFINE less == OpToRel(<, Nat)
<1>1. IsWellFoundedOn(less, Nat)
  BY NatLessThanWellFounded
<1>2. \A m, n \in Nat : m < n => <<m, n>> \in less
  BY DEF OpToRel
<1> HIDE DEF less
<1>3. PICK m \in S : \A n \in S : <<n, m>> \notin less
  BY <1>1, WFMin
<1>4. \A n \in S : ~(n < m)
  BY <1>2, <1>3
<1>5. \A n \in S : m <= n
  BY <1>4
<1> QED BY <1>5

\* The one tried first is one of the candidates.
LEMMA CheapestIsOne ==
    ASSUME NEW providers \in SUBSET Provider, providers # {}
    PROVE  Cheapest(providers) \in providers
<1> DEFINE S == {i \in DOMAIN Order : Order[i] \in providers}
           First(i) == Order[i] \in providers /\ \A j \in 1 .. i - 1 : Order[j] \notin providers
<1>1. DOMAIN Order = 1 .. Len(Order) /\ Len(Order) \in Nat
  BY ModelCallsAssumption
<1>2. S # {} /\ S \in SUBSET Nat
  BY <1>1 DEF Provider, ToSet
<1>3. PICK m \in S : \A n \in S : m <= n
  BY <1>2, LeastNumber
<1>4. m \in DOMAIN Order /\ First(m)
  BY <1>1, <1>3
<1>5. (CHOOSE i \in DOMAIN Order : First(i)) \in DOMAIN Order /\ First(CHOOSE i \in DOMAIN Order : First(i))
  BY <1>4, Zenon
<1> QED BY <1>5 DEF Cheapest

LEMMA SpendInvInit == ModelInit => SpendInv
<1> SUFFICES ASSUME ModelInit PROVE SpendInv
  OBVIOUS
<1>1. ModelTypes
  BY DEF ModelInit, ModelTypes, CallState, Unread
<1>2. Counted
  BY DEF ModelInit, Counted
<1>3. \A h \in Host : paidSpent[h] = 0
  BY DEF ModelInit
<1>4. Owed
  BY <1>3, PayingIsFinite, ModelCallsAssumption DEF Owed
<1> QED BY <1>1, <1>2, <1>4 DEF SpendInv

\* The total a host goes by is a number, and no less than what it paid.
LEMMA TotalCounts ==
    ASSUME ModelTypes, NEW h \in Host
    PROVE  /\ DailyTokenTotal(h) \in Int
           /\ ~torn /\ Counted => paidSpent[h] <= DailyTokenTotal(h)
<1>1. CASE counter[h] # Unread
  BY <1>1 DEF ModelTypes, DailyTokenTotal, Counted
<1>2. CASE counter[h] = Unread
  BY <1>2 DEF ModelTypes, DailyTokenTotal, Counted
<1> QED BY <1>1, <1>2

\* A call that ends or goes on to its next candidate pays no more.
LEMMA NextPays ==
    ASSUME ModelTypes, NEW c \in Call, call[c] # NoCall, NextCandidate(c)
    PROVE  /\ call' \in [Call -> CallState]
           /\ \A h \in Host : Paying(call', h) = Paying(call, h) \ {c}
<1> DEFINE d == IF call[c].rest = {Present(c)} THEN NoCall
                ELSE [call[c] EXCEPT !.pc = "gate", !.rest = @ \ {Present(c)}]
<1>1. call[c] \in [pc : {"gate", "calling"}, host : Host, fallback : BOOLEAN, rest : SUBSET Provider]
  BY DEF ModelTypes, CallState
<1>2. d \in CallState /\ d.pc # "calling"
  BY <1>1 DEF CallState, NoCall
<1>3. call' = [call EXCEPT ![c] = d]
  BY DEF NextCandidate, SetCall
<1> HIDE DEF d
<1>4. call' \in [Call -> CallState] /\ \A e \in Call : call'[e] = IF e = c THEN d ELSE call[e]
  BY <1>2, <1>3 DEF ModelTypes
<1> QED BY <1>2, <1>4 DEF Paying

LEMMA SpendInvNext ==
    ASSUME SpendInv, [ModelNext]_modelVars
    PROVE  SpendInv'
<1> USE ModelCallsAssumption
<1>0. ModelTypes
  BY DEF SpendInv
<1>1. CASE UNCHANGED spendVars /\ call' \in [Call -> CallState]
           /\ \A h \in Host : Paying(call', h) \subseteq Paying(call, h)
  <2>1. ModelTypes'
    BY <1>0, <1>1 DEF ModelTypes, spendVars
  <2>2. Counted => Counted'
    BY <1>1 DEF Counted, spendVars
  <2>3. Owed => Owed'
    <3> SUFFICES ASSUME Owed, NEW h \in Host
                 PROVE  paidSpent[h] + Cardinality(Paying(call', h)) <= Cap - 1 + Cardinality(Call)
      BY <1>1 DEF Owed, spendVars
    <3>1. paidSpent[h] \in Nat
      BY <1>0 DEF ModelTypes
    <3>2. paidSpent[h] + Cardinality(Paying(call, h)) <= Cap - 1 + Cardinality(Call)
      BY DEF Owed
    <3>3. Cardinality(Paying(call', h)) <= Cardinality(Paying(call, h))
      BY <1>1, FewerPay
    <3>4. /\ Cardinality(Paying(call, h)) \in Nat /\ Cardinality(Paying(call', h)) \in Nat
          /\ Cardinality(Call) \in Nat
      BY PayingIsFinite
    <3> QED BY <3>1, <3>2, <3>3, <3>4
  <2> QED BY <1>1, <2>1, <2>2, <2>3 DEF SpendInv, spendVars
<1>2. ASSUME NEW c \in Call, NEW h \in Host, Route(c, h) PROVE SpendInv'
  <2>1. PICK fallback \in BOOLEAN :
          call' = [call EXCEPT ![c] = [pc |-> "gate", host |-> h, fallback |-> fallback,
                     rest |-> IF fallback THEN Candidates(h) ELSE {Cheapest(Candidates(h))}]]
    BY <1>2 DEF Route, SetCall
  <2> DEFINE rest == IF fallback THEN Candidates(h) ELSE {Cheapest(Candidates(h))}
             d == [pc |-> "gate", host |-> h, fallback |-> fallback, rest |-> rest]
  <2>2. rest \in SUBSET Provider
    BY <1>2, CheapestIsOne DEF Candidates, Route
  <2> HIDE DEF rest
  <2>3. d \in CallState /\ d.pc # "calling"
    BY <2>2 DEF CallState
  <2>4. call' = [call EXCEPT ![c] = d]
    BY <2>1 DEF rest
  <2> HIDE DEF d
  <2>5. call' \in [Call -> CallState] /\ \A e \in Call : call'[e] = IF e = c THEN d ELSE call[e]
    BY <1>0, <2>3, <2>4 DEF ModelTypes
  <2>6. \A g \in Host : Paying(call', g) \subseteq Paying(call, g)
    BY <2>3, <2>5 DEF Paying
  <2> QED BY <1>1, <1>2, <2>5, <2>6 DEF Route
<1>3. ASSUME NEW c \in Call, Gate(c) PROVE SpendInv'
  <2> DEFINE h == call[c].host
  <2>1. /\ call[c] \in [pc : {"gate", "calling"}, host : Host, fallback : BOOLEAN, rest : SUBSET Provider]
        /\ call[c].pc = "gate" /\ h \in Host /\ call[c] # NoCall
    BY <1>0, <1>3 DEF Gate, ModelTypes, CallState, NoCall
  <2>2. /\ counter' = [counter EXCEPT ![h] = DailyTokenTotal(h)]
        /\ UNCHANGED <<receipts, torn, paidSpent>>
    BY <1>3 DEF Gate
  <2>3. /\ DailyTokenTotal(h) \in Int
        /\ ~torn /\ Counted => paidSpent[h] <= DailyTokenTotal(h)
    BY <1>0, <2>1, TotalCounts
  <2>4. ~torn /\ Counted => Counted'
    BY <1>0, <2>1, <2>2, <2>3 DEF ModelTypes, Counted
  <2>5. counter' \in [Host -> Int]
    BY <1>0, <2>1, <2>2, <2>3 DEF ModelTypes
  <2>6. ASSUME call' \in [Call -> CallState],
               ~torn /\ Counted /\ Owed => Owed'
        PROVE  SpendInv'
    BY <1>0, <2>2, <2>4, <2>5, <2>6 DEF SpendInv, ModelTypes
  <2>7. CASE Blocked(h, Present(c))
    <3>1. NextCandidate(c)
      BY <1>3, <2>7 DEF Gate
    <3>2. call' \in [Call -> CallState] /\ \A g \in Host : Paying(call', g) \subseteq Paying(call, g)
      BY <1>0, <2>1, <3>1, NextPays
    <3>3. Owed => Owed'
      <4> SUFFICES ASSUME Owed, NEW g \in Host
                   PROVE  paidSpent[g] + Cardinality(Paying(call', g)) <= Cap - 1 + Cardinality(Call)
        BY <2>2 DEF Owed
      <4>1. Cardinality(Paying(call', g)) <= Cardinality(Paying(call, g))
        BY <3>2, FewerPay
      <4>2. /\ Cardinality(Paying(call, g)) \in Nat /\ Cardinality(Paying(call', g)) \in Nat
            /\ Cardinality(Call) \in Nat /\ paidSpent[g] \in Nat
        BY <1>0, PayingIsFinite DEF ModelTypes
      <4>3. paidSpent[g] + Cardinality(Paying(call, g)) <= Cap - 1 + Cardinality(Call)
        BY DEF Owed
      <4> QED BY <4>1, <4>2, <4>3
    <3> QED BY <2>6, <3>2, <3>3
  <2>8. CASE ~Blocked(h, Present(c))
    <3> DEFINE d == [call[c] EXCEPT !.pc = "calling"]
    <3>1. call' = [call EXCEPT ![c] = d]
      BY <1>3, <2>8 DEF Gate, SetCall
    <3>2. d \in CallState /\ d.host = h /\ d.rest = call[c].rest
      BY <2>1 DEF CallState
    <3> HIDE DEF d
    <3>3. call' \in [Call -> CallState] /\ \A e \in Call : call'[e] = IF e = c THEN d ELSE call[e]
      BY <1>0, <3>1, <3>2 DEF ModelTypes
    <3>4. ASSUME ~torn, Counted, Owed PROVE Owed'
      <4> SUFFICES ASSUME NEW g \in Host
                   PROVE  paidSpent[g] + Cardinality(Paying(call', g)) <= Cap - 1 + Cardinality(Call)
        BY <2>2 DEF Owed
      <4>1. /\ Cardinality(Paying(call, g)) \in Nat /\ Cardinality(Paying(call', g)) \in Nat
            /\ Cardinality(Paying(call', g)) <= Cardinality(Call)
            /\ Cardinality(Call) \in Nat /\ paidSpent[g] \in Nat
        BY <1>0, PayingIsFinite DEF ModelTypes
      <4>2. CASE g = h /\ Present(c) \in Paid
        <5>1. DailyTokenTotal(h) < Cap
          BY <2>3, <2>8, <4>2 DEF Blocked
        <5>2. paidSpent[h] <= DailyTokenTotal(h)
          BY <2>3, <3>4
        <5> QED BY <2>3, <4>1, <4>2, <5>1, <5>2
      <4>3. CASE ~(g = h /\ Present(c) \in Paid)
        <5>1. Paying(call', g) \subseteq Paying(call, g)
          BY <3>2, <3>3, <4>3 DEF Paying, Present
        <5>2. Cardinality(Paying(call', g)) <= Cardinality(Paying(call, g))
          BY <5>1, FewerPay
        <5>3. paidSpent[g] + Cardinality(Paying(call, g)) <= Cap - 1 + Cardinality(Call)
          BY <3>4 DEF Owed
        <5> QED BY <4>1, <5>2, <5>3
      <4> QED BY <4>2, <4>3
    <3> QED BY <2>6, <3>3, <3>4
  <2> QED BY <2>7, <2>8
<1>4. ASSUME NEW c \in Call, Answer(c) PROVE SpendInv'
  <2> DEFINE h == call[c].host
  <2>1. call[c].pc = "calling" /\ h \in Host
    BY <1>0, <1>4 DEF Answer, ModelTypes, CallState, NoCall
  <2>2. /\ counter' = [counter EXCEPT ![h] = DailyTokenTotal(h) + 1]
        /\ receipts' = receipts + 1 /\ torn' = torn
        /\ paidSpent' = IF Present(c) \in Paid THEN [paidSpent EXCEPT ![h] = @ + 1] ELSE paidSpent
        /\ call' = [call EXCEPT ![c] = NoCall]
    BY <1>4 DEF Answer, SetCall
  <2>3. /\ DailyTokenTotal(h) \in Int
        /\ ~torn /\ Counted => paidSpent[h] <= DailyTokenTotal(h)
    BY <1>0, <2>1, TotalCounts
  <2>4. /\ \A e \in Call : call'[e] = IF e = c THEN NoCall ELSE call[e]
        /\ \A g \in Host : paidSpent'[g] = IF g = h /\ Present(c) \in Paid THEN paidSpent[g] + 1
                                           ELSE paidSpent[g]
        /\ \A g \in Host : counter'[g] = IF g = h THEN DailyTokenTotal(h) + 1 ELSE counter[g]
    BY <1>0, <2>1, <2>2 DEF ModelTypes
  <2>5. ModelTypes'
    BY <1>0, <2>1, <2>2, <2>3 DEF ModelTypes, CallState
  <2>6. ~torn /\ Counted => Counted'
    BY <1>0, <2>1, <2>2, <2>3, <2>4 DEF ModelTypes, Counted
  <2>7. Owed => Owed'
    <3> SUFFICES ASSUME Owed, NEW g \in Host
                 PROVE  paidSpent'[g] + Cardinality(Paying(call', g)) <= Cap - 1 + Cardinality(Call)
      BY DEF Owed
    <3>1. /\ Cardinality(Paying(call, g)) \in Nat /\ Cardinality(Paying(call', g)) \in Nat
          /\ Cardinality(Call) \in Nat /\ paidSpent[g] \in Nat
          /\ IsFiniteSet(Paying(call, g))
      BY <1>0, PayingIsFinite DEF ModelTypes
    <3>2. paidSpent[g] + Cardinality(Paying(call, g)) <= Cap - 1 + Cardinality(Call)
      BY DEF Owed
    <3>3. Paying(call', g) = Paying(call, g) \ {c}
      BY <2>4 DEF Paying, NoCall
    <3>4. c \in Paying(call, g) <=> g = h /\ Present(c) \in Paid
      BY <2>1 DEF Paying, Present
    <3>5. Cardinality(Paying(call', g)) = IF c \in Paying(call, g)
                                          THEN Cardinality(Paying(call, g)) - 1
                                          ELSE Cardinality(Paying(call, g))
      BY <3>1, <3>3, FS_RemoveElement
    <3> HIDE DEF h
    <3> QED BY <2>4, <3>1, <3>2, <3>4, <3>5
  <2> QED BY <2>2, <2>5, <2>6, <2>7 DEF SpendInv
<1>5. ASSUME NEW c \in Call, FailCall(c) PROVE SpendInv'
  <2>1. call[c] # NoCall /\ NextCandidate(c) /\ UNCHANGED spendVars
    BY <1>5 DEF FailCall, NoCall
  <2>2. call' \in [Call -> CallState] /\ \A h \in Host : Paying(call', h) \subseteq Paying(call, h)
    BY <1>0, <2>1, NextPays
  <2> QED BY <1>1, <2>1, <2>2
<1>6. ASSUME NEW h \in Host, Restart(h) PROVE SpendInv'
  <2>1. /\ call' \in [Call -> CallState]
        /\ \A g \in Host : Paying(call', g) \subseteq Paying(call, g)
    <3>1. \A e \in Call : call'[e] = IF call[e] # NoCall /\ call[e].host = h THEN NoCall ELSE call[e]
      BY <1>6 DEF Restart
    <3>2. call' \in [Call -> CallState]
      BY <1>0, <1>6 DEF Restart, ModelTypes, CallState
    <3> QED BY <3>1, <3>2 DEF Paying, NoCall
  <2>2. /\ counter' = [counter EXCEPT ![h] = Unread] /\ UNCHANGED <<receipts, paidSpent>>
        /\ ~torn' => ~torn
    BY <1>6, Zenon DEF Restart
  <2>3. ModelTypes'
    BY <1>0, <2>1, <2>2 DEF ModelTypes, Unread
  <2>4. Counted => Counted'
    BY <1>0, <2>2 DEF Counted, ModelTypes
  <2>5. Owed => Owed'
    <3> SUFFICES ASSUME Owed, NEW g \in Host
                 PROVE  paidSpent[g] + Cardinality(Paying(call', g)) <= Cap - 1 + Cardinality(Call)
      BY <2>2 DEF Owed
    <3>1. Cardinality(Paying(call', g)) <= Cardinality(Paying(call, g))
      BY <2>1, FewerPay
    <3>2. /\ Cardinality(Paying(call, g)) \in Nat /\ Cardinality(Paying(call', g)) \in Nat
          /\ Cardinality(Call) \in Nat /\ paidSpent[g] \in Nat
      BY <1>0, PayingIsFinite DEF ModelTypes
    <3>3. paidSpent[g] + Cardinality(Paying(call, g)) <= Cap - 1 + Cardinality(Call)
      BY DEF Owed
    <3> QED BY <3>1, <3>2, <3>3
  <2> QED BY <2>2, <2>3, <2>4, <2>5 DEF SpendInv
<1>7. CASE CooldownTick
  BY <1>0, <1>1, <1>7 DEF CooldownTick, ModelTypes
<1>8. CASE NewDay
  <2>1. /\ receipts' = 0 /\ call' = call /\ torn' = torn
        /\ counter' = [h \in Host |-> Unread] /\ paidSpent' = [h \in Host |-> 0]
    BY <1>8 DEF NewDay
  <2>2. ModelTypes'
    BY <1>0, <2>1 DEF ModelTypes, Unread
  <2>3. Counted'
    BY <2>1 DEF Counted
  <2>4. Owed'
    BY <2>1, PayingIsFinite DEF Owed
  <2> QED BY <2>2, <2>3, <2>4 DEF SpendInv
<1>9. CASE UNCHANGED modelVars
  BY <1>0, <1>1, <1>9 DEF modelVars, ModelTypes
<1> QED BY <1>2, <1>3, <1>4, <1>5, <1>6, <1>7, <1>8, <1>9 DEF ModelNext

\* A host never pays for more than the cap and its calls under way allow, over
\* its restarts too, until half a receipt lies in the file, for any number of
\* hosts, calls and providers.
THEOREM SpendIsBounded == ModelSpec => []SpendBounded
<1>1. SpendInv /\ [ModelNext]_modelVars => SpendInv'
  BY SpendInvNext
<1>2. SpendInv => SpendBounded
  <2> SUFFICES ASSUME SpendInv, ~torn, NEW h \in Host
               PROVE  paidSpent[h] <= Cap - 1 + Cardinality(Call)
    BY DEF SpendBounded
  <2>1. paidSpent[h] \in Nat /\ paidSpent[h] + Cardinality(Paying(call, h)) <= Cap - 1 + Cardinality(Call)
    BY DEF SpendInv, ModelTypes, Owed
  <2> QED BY <2>1, PayingIsFinite, ModelCallsAssumption
<1> QED BY SpendInvInit, <1>1, <1>2, PTL DEF ModelSpec

\* The router of a host goes by its own list, which has each death it saw for
\* as long as the cooldown lasts, whatever others write into the health file.
THEOREM DeadOnesAreSkipped == ModelSpec => DeadAreSkipped
<1> DEFINE Inv == deadHere \in [Host -> [Provider -> Nat]] /\ sawDead = deadHere
<1>1. ModelInit => Inv
  BY DEF ModelInit, NeverDead
<1>2. Inv /\ [ModelNext]_modelVars => Inv'
  <2> SUFFICES ASSUME Inv, [ModelNext]_modelVars PROVE Inv'
    OBVIOUS
  <2>1. CASE UNCHANGED <<deadHere, sawDead>>
    BY <2>1
  <2>2. ASSUME NEW h, NEW p, NEW error, NoteFailure(h, p, error) PROVE Inv'
    <3>1. CASE UNCHANGED <<deadHere, sawDead>>
      BY <3>1
    <3>2. CASE /\ deadHere' = [deadHere EXCEPT ![h][p] = DeadFor]
               /\ sawDead' = [sawDead EXCEPT ![h][p] = DeadFor]
      BY <3>2, ModelCallsAssumption
    <3> QED BY <2>2, <3>1, <3>2 DEF NoteFailure
  <2>3. ASSUME NEW c, NEW error, Note(c, error) PROVE Inv'
    BY <2>1, <2>2, <2>3 DEF Note, healthVars
  <2>4. ASSUME NEW c \in Call, NEW h \in Host, Route(c, h) PROVE Inv'
    BY <2>1, <2>4 DEF Route
  <2>5. ASSUME NEW c \in Call, Gate(c) PROVE Inv'
    BY <2>1, <2>3, <2>5 DEF Gate, healthVars
  <2>6. ASSUME NEW c \in Call, Answer(c) PROVE Inv'
    BY <2>1, <2>6 DEF Answer, healthVars
  <2>7. ASSUME NEW c \in Call, FailCall(c) PROVE Inv'
    BY <2>3, <2>7 DEF FailCall
  <2>8. ASSUME NEW h \in Host, Restart(h) PROVE Inv'
    BY <2>8 DEF Restart, NeverDead
  <2>9. CASE CooldownTick
    <3>1. \A n \in Nat : Sooner(n) \in Nat
      BY DEF Sooner
    <3>2. deadHere' = [h \in Host |-> [p \in Provider |-> Sooner(deadHere[h][p])]] /\ sawDead' = deadHere'
      BY <2>9 DEF CooldownTick
    <3>3. \A h \in Host, p \in Provider : deadHere[h][p] \in Nat
      OBVIOUS
    <3> QED BY <3>1, <3>2, <3>3
  <2>10. CASE NewDay \/ UNCHANGED modelVars
    BY <2>1, <2>10 DEF NewDay, modelVars, healthVars
  <2> QED BY <2>4, <2>5, <2>6, <2>7, <2>8, <2>9, <2>10 DEF ModelNext
<1>3. SpendInv /\ [ModelNext]_modelVars => SpendInv'
  BY SpendInvNext
<1>4. Inv /\ Inv' /\ SpendInv /\ [ModelNext]_modelVars =>
        [\A c \in Call : call[c] = NoCall /\ call'[c] # NoCall =>
            \A p \in call'[c].rest : sawDead[call'[c].host][p] = 0]_modelVars
  <2> SUFFICES ASSUME Inv, SpendInv, ModelNext, NEW c \in Call,
                      call[c] = NoCall, call'[c] # NoCall
               PROVE  \A p \in call'[c].rest : sawDead[call'[c].host][p] = 0
    BY DEF modelVars
  <2>1. ModelTypes
    BY DEF SpendInv
  <2>2. ASSUME NEW d \in Call, NEW state, SetCall(d, state) PROVE d = c /\ call'[c] = state
    BY <2>1, <2>2 DEF SetCall, ModelTypes
  <2>3. PICK d \in Call, h \in Host : Route(d, h)
    <3>1. \A d \in Call : ~Gate(d) /\ ~FailCall(d) /\ ~Answer(d)
      BY <2>2 DEF Gate, FailCall, Answer, NextCandidate, NoCall
    <3>2. \A h \in Host : ~Restart(h)
      BY DEF Restart
    <3>3. ~CooldownTick /\ ~NewDay
      BY DEF CooldownTick, NewDay
    <3> QED BY <3>1, <3>2, <3>3 DEF ModelNext
  <2>4. PICK fallback \in BOOLEAN :
          SetCall(d, [pc |-> "gate", host |-> h, fallback |-> fallback,
                      rest |-> IF fallback THEN Candidates(h) ELSE {Cheapest(Candidates(h))}])
    BY <2>3 DEF Route
  <2>5. /\ call'[c].host = h
        /\ call'[c].rest = IF fallback THEN Candidates(h) ELSE {Cheapest(Candidates(h))}
    <3> DEFINE rest == IF fallback THEN Candidates(h) ELSE {Cheapest(Candidates(h))}
    <3>1. call'[c] = [pc |-> "gate", host |-> h, fallback |-> fallback, rest |-> rest]
      BY <2>2, <2>4, Zenon
    <3> HIDE DEF rest
    <3>2. call'[c].host = h /\ call'[c].rest = rest
      BY <3>1
    <3> QED BY <3>2 DEF rest
  <2>6. Candidates(h) \in SUBSET Provider /\ Candidates(h) # {}
    BY <2>3 DEF Candidates, Route
  <2>7. Cheapest(Candidates(h)) \in Candidates(h)
    BY <2>6, CheapestIsOne
  <2>8. call'[c].rest \subseteq Candidates(h)
    BY <2>5, <2>7
  <2>9. \A p \in Candidates(h) : deadHere[h][p] = 0
    BY DEF Candidates, IsAvailable
  <2> QED BY <2>5, <2>8, <2>9
<1> QED BY <1>1, <1>2, <1>3, <1>4, SpendInvInit, PTL DEF ModelSpec, DeadAreSkipped

-----------------------------------------------------------------------------
(* The quiet-hours queue, of a process that does one thing at a time *)

OneActor == \A a, b \in Actor : a = b

\* The inductive invariant: what an actor has read of the queue file is what
\* the file holds, and what it is about to clear has been delivered.
QueueInv ==
    /\ NotifyTypeOK
    /\ \A a \in Actor : actor[a].pc = "enqueue" => actor[a].read = queue
    /\ \A a \in Actor : actor[a].pc \in {"drain", "clear"} => actor[a].batch = queue
    /\ \A a \in Actor : actor[a].pc = "clear" => ToSet(queue) \subseteq delivered
    /\ NothingLost

LEMMA ActorStates ==
    ASSUME NEW s \in ActorState
    PROVE  /\ s.pc \in {"idle", "enqueue", "send", "drain", "clear"}
           /\ s.pc = "idle" <=> s = Idle
           /\ s.pc = "enqueue" => s.read \in Seq(Message)
           /\ s.pc \in {"enqueue", "send"} => s.message \in Message
           /\ s.pc \in {"drain", "clear"} =>
                /\ s.batch \in Seq(Message)
                /\ s = [pc |-> s.pc, batch |-> s.batch]
BY DEF ActorState, Idle

LEMMA StatesOfActors ==
    /\ Idle \in ActorState
    /\ \A q \in Seq(Message), m \in Message :
         [pc |-> "enqueue", read |-> q, message |-> m] \in ActorState
    /\ \A m \in Message : [pc |-> "send", message |-> m] \in ActorState
    /\ \A p \in {"drain", "clear"}, q \in Seq(Message) : [pc |-> p, batch |-> q] \in ActorState
BY DEF ActorState

\* Under the bound on its length the whole batch is in the digest.
LEMMA WholeDigest ==
    ASSUME NEW q \in Seq(Message), Len(q) <= Room
    PROVE  Digest(q) = ToSet(q) /\ Digest(q) \subseteq Message
<1>1. \A j \in DOMAIN q : j <= Room
  BY NotifyAssumption
<1>2. {j \in DOMAIN q : j <= Room} = DOMAIN q
  BY <1>1
<1> QED BY <1>2 DEF Digest, ToSet

LEMMA DigestTyped ==
    ASSUME NEW q \in Seq(Message)
    PROVE  Digest(q) \subseteq Message
BY DEF Digest

LEMMA ToSetAppend ==
    ASSUME NEW q \in Seq(Message), NEW m \in Message
    PROVE  ToSet(Append(q, m)) = ToSet(q) \cup {m}
<1>1. ToSet(q) \cup {m} \subseteq ToSet(Append(q, m))
  <2>1. \A i \in 1 .. Len(q) : i \in 1 .. Len(Append(q, m)) /\ Append(q, m)[i] = q[i]
    OBVIOUS
  <2>2. Len(q) + 1 \in 1 .. Len(Append(q, m)) /\ Append(q, m)[Len(q) + 1] = m
    OBVIOUS
  <2> QED BY <2>1, <2>2 DEF ToSet
<1>2. ToSet(Append(q, m)) \subseteq ToSet(q) \cup {m}
  <2>1. \A i \in 1 .. Len(Append(q, m)) : IF i <= Len(q) THEN Append(q, m)[i] = q[i]
                                                     ELSE Append(q, m)[i] = m
    OBVIOUS
  <2> QED BY <2>1 DEF ToSet
<1> QED BY <1>1, <1>2

LEMMA QueueInvInit == NotifyInit => QueueInv
<1> SUFFICES ASSUME NotifyInit PROVE QueueInv
  OBVIOUS
<1>1. \A a \in Actor : actor[a] = Idle /\ actor[a].pc = "idle"
  BY DEF NotifyInit, Idle
<1>2. NotifyTypeOK
  BY <1>1, StatesOfActors DEF NotifyInit, NotifyTypeOK
<1> QED BY <1>1, <1>2 DEF QueueInv, NothingLost, NotifyInit

LEMMA NextHourTyped ==
    ASSUME hour \in Hour
    PROVE  NextHour \in Hour
<1>1. CASE \A h \in Hour : h <= hour
  <2>1. \E h \in Hour : \A i \in Hour : h <= i
    BY NotifyAssumption, LeastNumber
  <2> QED BY <1>1, <2>1 DEF NextHour
<1>2. CASE ~\A h \in Hour : h <= hour
  <2> DEFINE later == {h \in Hour : h > hour}
  <2>1. PICK h \in Hour : ~(h <= hour)
    BY <1>2
  <2>2. \A i \in Hour : i \in Nat
    BY NotifyAssumption
  <2>3. h \in later /\ later \in SUBSET Nat
    BY <2>1, <2>2
  <2> HIDE DEF later
  <2>4. \E k \in later : \A i \in later : k <= i
    BY <2>3, LeastNumber
  <2>5. \E k \in Hour : k > hour /\ \A i \in Hour : i > hour => k <= i
    BY <2>4 DEF later
  <2> QED BY <1>2, <2>5 DEF NextHour
<1> QED BY <1>1, <1>2

\* Every step of the notifier keeps the types, of any number of actors.
LEMMA NotifyTypeNext ==
    ASSUME NotifyTypeOK, [NotifyNext]_notifyVars
    PROVE  NotifyTypeOK'
<1> USE DEF NotifyTypeOK
<1>1. CASE UNCHANGED notifyVars
  BY <1>1 DEF notifyVars
<1>2. CASE HourPasses
  BY <1>2, NextHourTyped DEF HourPasses
<1>3. ASSUME NEW a \in Actor,
             \/ \E m \in Message : Notify(a, m)
             \/ Enqueue(a) \/ Send(a)
             \/ DrainQueue(a) \/ SendDigest(a) \/ SendFails(a) \/ ClearQueue(a)
             \/ ActorDies(a)
      PROVE  NotifyTypeOK'
  <2>1. \A s \in ActorState : Become(a, s) => actor' \in [Actor -> ActorState]
    BY DEF Become
  <2>2. actor[a] \in ActorState
    OBVIOUS
  <2>3. CASE \E m \in Message : Notify(a, m)
    <3> PICK m \in Message : Notify(a, m)
      BY <2>3
    <3>1. (IF IsQuietHours /\ m \notin Panic
           THEN [pc |-> "enqueue", read |-> queue, message |-> m]
           ELSE [pc |-> "send", message |-> m]) \in ActorState
      BY StatesOfActors
    <3> QED BY <2>1, <3>1 DEF Notify
  <2>4. CASE Enqueue(a)
    <3>1. actor[a].read \in Seq(Message) /\ actor[a].message \in Message
      BY <2>2, <2>4, ActorStates DEF Enqueue
    <3> QED BY <2>1, <2>4, <3>1, StatesOfActors DEF Enqueue
  <2>5. CASE Send(a)
    <3>1. actor[a].message \in Message
      BY <2>2, <2>5, ActorStates DEF Send
    <3> QED BY <2>1, <2>5, <3>1, StatesOfActors DEF Send, Deliver
  <2>6. CASE DrainQueue(a)
    BY <2>1, <2>6, StatesOfActors DEF DrainQueue
  <2>7. CASE SendDigest(a)
    <3>1. actor[a].batch \in Seq(Message) /\ actor[a] = [pc |-> "drain", batch |-> actor[a].batch]
      BY <2>2, <2>7, ActorStates DEF SendDigest
    <3>2. [actor[a] EXCEPT !.pc = "clear"] = [pc |-> "clear", batch |-> actor[a].batch]
      BY <3>1
    <3>3. [actor[a] EXCEPT !.pc = "clear"] \in ActorState
      BY <3>1, <3>2, StatesOfActors
    <3> QED BY <2>1, <2>7, <3>1, <3>3, DigestTyped DEF SendDigest, Deliver
  <2>8. CASE SendFails(a)
    <3>1. actor[a].batch \in Seq(Message)
      BY <2>2, <2>8, ActorStates DEF SendFails
    <3> QED BY <2>1, <2>8, <3>1, StatesOfActors, DigestTyped DEF SendFails, Deliver
  <2>9. CASE ClearQueue(a)
    BY <2>1, <2>9, StatesOfActors DEF ClearQueue
  <2>10. CASE ActorDies(a)
    <3>1. (IF actor[a].pc \in {"enqueue", "send"} THEN {actor[a].message} ELSE {}) \subseteq Message
      BY <2>2, ActorStates
    <3> QED BY <2>1, <2>10, <3>1, StatesOfActors DEF ActorDies
  <2> QED BY <1>3, <2>3, <2>4, <2>5, <2>6, <2>7, <2>8, <2>9, <2>10
<1> QED BY <1>1, <1>2, <1>3 DEF NotifyNext

LEMMA QueueInvNext ==
    ASSUME OneActor, QueueInv, Len(queue) <= Room, [NotifyNext]_notifyVars
    PROVE  QueueInv'
<1>1. NotifyTypeOK'
  BY NotifyTypeNext DEF QueueInv
<1>2. CASE UNCHANGED notifyVars
  BY <1>1, <1>2 DEF QueueInv, NotifyTypeOK, NothingLost, Pending, notifyVars
<1>3. CASE HourPasses
  BY <1>1, <1>3 DEF QueueInv, NotifyTypeOK, NothingLost, Pending, HourPasses
<1>4. ASSUME NEW a \in Actor,
             \/ \E m \in Message : Notify(a, m)
             \/ Enqueue(a) \/ Send(a)
             \/ DrainQueue(a) \/ SendDigest(a) \/ SendFails(a) \/ ClearQueue(a)
             \/ ActorDies(a)
      PROVE  QueueInv'
  <2> DEFINE Doing(state, file, got) ==
               /\ state.pc = "enqueue" => state.read = file
               /\ state.pc \in {"drain", "clear"} => state.batch = file
               /\ state.pc = "clear" => ToSet(file) \subseteq got
  <2> DEFINE Kept(n, d, state, file, got) ==
               \A m \in n \ d :
                  \/ m \in ToSet(file)
                  \/ state.pc \in {"enqueue", "send"} /\ state.message = m
                  \/ m \in got
  <2>1. \A b \in Actor : b = a
    BY DEF OneActor
  <2>2. actor[a] \in ActorState /\ queue \in Seq(Message)
    BY DEF QueueInv, NotifyTypeOK
  <2>3. Doing(actor[a], queue, delivered)
    BY DEF QueueInv
  <2>4. Kept(notified, dropped, actor[a], queue, delivered)
    BY <2>1 DEF QueueInv, NothingLost, Pending
  <2>5. ASSUME NEW s, Become(a, s), Doing(s, queue', delivered'),
               Kept(notified', dropped', s, queue', delivered')
        PROVE  QueueInv'
    <3>1. actor'[a] = s
      BY <2>5 DEF Become, QueueInv, NotifyTypeOK
    <3>2. \A b \in Actor : Doing(actor'[b], queue', delivered')
      BY <2>1, <2>5, <3>1
    <3>3. Kept(notified', dropped', actor'[a], queue', delivered')
      BY <2>5, <3>1
    <3> QED BY <1>1, <3>2, <3>3 DEF QueueInv, NothingLost, Pending
  <2>6. CASE \E m \in Message : Notify(a, m)
    <3> PICK m \in Message : Notify(a, m)
      BY <2>6
    <3>1. CASE IsQuietHours /\ m \notin Panic
      <4> DEFINE s == [pc |-> "enqueue", read |-> queue, message |-> m]
      <4>1. Become(a, s)
        BY <3>1 DEF Notify
      <4>2. s.pc = "enqueue" /\ s.read = queue /\ s.message = m
        OBVIOUS
      <4> HIDE DEF s
      <4>3. Doing(s, queue', delivered') /\ Kept(notified', dropped', s, queue', delivered')
        BY <2>4, <4>2, ActorStates DEF Notify, Idle
      <4> QED BY <2>5, <4>1, <4>3
    <3>2. CASE ~(IsQuietHours /\ m \notin Panic)
      <4> DEFINE s == [pc |-> "send", message |-> m]
      <4>1. Become(a, s)
        BY <3>2 DEF Notify
      <4>2. s.pc = "send" /\ s.message = m
        OBVIOUS
      <4> HIDE DEF s
      <4>3. Doing(s, queue', delivered') /\ Kept(notified', dropped', s, queue', delivered')
        BY <2>4, <4>2, ActorStates DEF Notify, Idle
      <4> QED BY <2>5, <4>1, <4>3
    <3> QED BY <3>1, <3>2
  <2>7. Idle.pc = "idle"
    BY DEF Idle
  <2>8. CASE Enqueue(a)
    <3>1. ToSet(queue') = ToSet(queue) \cup {actor[a].message}
      BY <2>2, <2>3, <2>8, ActorStates, ToSetAppend DEF Enqueue
    <3>2. Kept(notified', dropped', Idle, queue', delivered')
      BY <2>4, <2>8, <3>1 DEF Enqueue
    <3> QED BY <2>5, <2>7, <2>8, <3>2 DEF Enqueue
  <2>9. CASE Send(a)
    <3>1. Kept(notified', dropped', Idle, queue', delivered')
      BY <2>4, <2>9 DEF Send, Deliver
    <3> QED BY <2>5, <2>7, <2>9, <3>1 DEF Send
  <2>10. CASE DrainQueue(a)
    <3> DEFINE s == [pc |-> "drain", batch |-> queue]
    <3>1. s.pc = "drain" /\ s.batch = queue
      OBVIOUS
    <3>2. Become(a, s) /\ UNCHANGED <<queue, notified, dropped, delivered>>
      BY <2>10 DEF DrainQueue
    <3>3. actor[a].pc = "idle"
      BY <2>7, <2>10 DEF DrainQueue
    <3> HIDE DEF s
    <3>4. Kept(notified', dropped', s, queue', delivered')
      BY <2>4, <3>2, <3>3
    <3> QED BY <2>5, <3>1, <3>2, <3>4
  <2>11. CASE SendDigest(a)
    <3> DEFINE s == [actor[a] EXCEPT !.pc = "clear"]
    <3>1. actor[a] = [pc |-> "drain", batch |-> actor[a].batch]
      BY <2>2, <2>11, ActorStates DEF SendDigest
    <3>2. actor[a].batch = queue
      BY <2>3, <2>11 DEF SendDigest
    <3>3. s.pc = "clear" /\ s.batch = queue
      BY <3>1, <3>2
    <3>4. Become(a, s) /\ UNCHANGED <<queue, notified, dropped>> /\ delivered' = delivered \cup ToSet(queue)
      BY <2>2, <2>11, <3>2, WholeDigest DEF SendDigest, Deliver
    <3>5. actor[a].pc = "drain"
      BY <2>11 DEF SendDigest
    <3> HIDE DEF s
    <3>6. Kept(notified', dropped', s, queue', delivered')
      BY <2>4, <3>4, <3>5
    <3> QED BY <2>5, <3>3, <3>4, <3>6
  <2>12. CASE SendFails(a)
    <3>1. Kept(notified', dropped', Idle, queue', delivered')
      BY <2>4, <2>12 DEF SendFails, Deliver
    <3> QED BY <2>5, <2>7, <2>12, <3>1 DEF SendFails
  <2>13. CASE ClearQueue(a)
    <3>1. ToSet(queue) \subseteq delivered
      BY <2>3, <2>13 DEF ClearQueue
    <3>2. Kept(notified', dropped', Idle, queue', delivered')
      BY <2>4, <2>13, <3>1 DEF ClearQueue
    <3> QED BY <2>5, <2>7, <2>13, <3>2 DEF ClearQueue
  <2>14. CASE ActorDies(a)
    <3>1. Kept(notified', dropped', Idle, queue', delivered')
      BY <2>4, <2>14 DEF ActorDies
    <3> QED BY <2>5, <2>7, <2>14, <3>1 DEF ActorDies
  <2> QED BY <1>4, <2>6, <2>8, <2>9, <2>10, <2>11, <2>12, <2>13, <2>14
<1> QED BY <1>2, <1>3, <1>4 DEF NotifyNext

\* The daemon does to the notifier only what the notifier does itself.
LEMMA LoopNotifies == [LoopNext]_allVars => [NotifyNext]_notifyVars
<1> SUFFICES ASSUME [LoopNext]_allVars PROVE [NotifyNext]_notifyVars
  OBVIOUS
<1>1. CASE UNCHANGED allVars
  BY <1>1 DEF allVars
<1>2. CASE NotifierStep
  BY <1>2 DEF NotifierStep, NotifyNext
<1>3. CASE TickStep
  <2>1. \A a \in Actor, m \in LoopMessage : Notify(a, m) => NotifyNext
    BY LoopAssumption DEF NotifyNext
  <2> QED BY <1>3, <2>1 DEF TickStep, Observe, TruncateAlertState, WriteAlertState, EndSilently,
                            Tell, CrashInTick
<1>4. CASE CronStep
  BY <1>4 DEF CronStep, HeartbeatCheck, RestartCron
<1> QED BY <1>1, <1>2, <1>3, <1>4 DEF LoopNext

\* The daemon implements the notifier: what is said of the one holds in the
\* other.
THEOREM LoopIsNotifier == LoopSpec => NotifySpec
<1>1. LoopInit => NotifyInit
  BY DEF LoopInit
<1> QED BY <1>1, LoopNotifies, PTL DEF LoopSpec, NotifySpec

\* A notification that was taken over is in the queue until the chat has it,
\* whatever fails or dies in between: in a process that does one thing at a
\* time and as long as the queue fits into one digest (drainQueue clears what
\* it read, and cuts the digest off at 4096 characters).
THEOREM NothingIsLost ==
    ASSUME OneActor
    PROVE  LoopSpec /\ [](Len(queue) <= Room) => []NothingLost
<1>1. LoopInit => QueueInv
  BY QueueInvInit DEF LoopInit
<1>2. QueueInv /\ Len(queue) <= Room /\ [LoopNext]_allVars => QueueInv'
  BY LoopNotifies, QueueInvNext
<1>3. QueueInv => NothingLost
  BY DEF QueueInv
<1> QED BY <1>1, <1>2, <1>3, PTL DEF LoopSpec

-----------------------------------------------------------------------------
(* The autonomy tick and the cron *)

\* The cron's latch is set in exactly the outages that have lasted for
\* Threshold checks, and it alerted when it was set.
CronInv ==
    /\ cron \in [stale : 0 .. Threshold, alerted : BOOLEAN]
    /\ cron.alerted <=> cron.stale >= Threshold
    /\ AlertedOncePerOutage

LEMMA CronInvInit == LoopInit => CronInv
BY LoopAssumption DEF LoopInit, CronInv, AlertedOncePerOutage, NoStaleCheck

LEMMA CronInvNext == CronInv /\ [LoopNext]_allVars => CronInv'
<1> SUFFICES ASSUME CronInv, [LoopNext]_allVars PROVE CronInv'
  OBVIOUS
<1> USE LoopAssumption DEF CronInv, AlertedOncePerOutage
<1>1. CASE UNCHANGED allVars
  BY <1>1 DEF allVars, loopVars
<1>2. CASE NotifierStep
  BY <1>2 DEF NotifierStep, loopVars
<1>3. CASE TickStep
  BY <1>3 DEF TickStep, Observe, TruncateAlertState, WriteAlertState, EndSilently, Tell, CrashInTick
<1>4. CASE \E fresh \in BOOLEAN : HeartbeatCheck(fresh)
  <2> PICK fresh \in BOOLEAN : HeartbeatCheck(fresh)
    BY <1>4
  <2>1. CASE fresh
    <3>1. cron' = NoStaleCheck /\ alarms' = 0
      BY <2>1 DEF HeartbeatCheck
    <3>2. cron' \in [stale : 0 .. Threshold, alerted : BOOLEAN]
      BY <3>1 DEF NoStaleCheck
    <3>3. cron'.stale = 0 /\ cron'.alerted = FALSE
      BY <3>1 DEF NoStaleCheck
    <3> QED BY <3>1, <3>2, <3>3
  <2>2. CASE ~fresh
    <3> DEFINE stale == IF cron.stale < Threshold THEN cron.stale + 1 ELSE Threshold
    <3>1. stale \in 0 .. Threshold
      OBVIOUS
    <3>2. cron' = [stale |-> stale, alerted |-> Alerted(stale, cron.alerted)]
      BY <2>2 DEF HeartbeatCheck
    <3>3. alarms' = IF stale >= Threshold /\ ~cron.alerted THEN alarms + 1 ELSE alarms
      BY <2>2 DEF HeartbeatCheck
    <3>4. Alerted(stale, cron.alerted) = (stale >= Threshold)
      BY DEF Alerted
    <3>5. cron'.stale = stale /\ cron'.alerted = (stale >= Threshold)
      BY <3>2, <3>4
    <3>6. cron' \in [stale : 0 .. Threshold, alerted : BOOLEAN]
      <4>1. (stale >= Threshold) \in BOOLEAN
        OBVIOUS
      <4> HIDE DEF stale, CronInv
      <4> QED BY <3>1, <3>2, <3>4, <4>1, Zenon
    <3> QED BY <3>1, <3>3, <3>5, <3>6
  <2> QED BY <2>1, <2>2
<1>5. CASE RestartCron
  BY <1>5 DEF RestartCron, NoStaleCheck
<1> QED BY <1>1, <1>2, <1>3, <1>4, <1>5 DEF LoopNext, CronStep

\* The cron alerts once in every outage of Threshold checks and in no shorter
\* one, however often it starts anew (heartbeat-alert.ts, recordHeartbeatCheck).
THEOREM AlertedOnce == LoopSpec => []AlertedOncePerOutage
<1>1. CronInv => AlertedOncePerOutage
  BY DEF CronInv
<1> QED BY CronInvInit, CronInvNext, <1>1, PTL DEF LoopSpec

\* What the CEO knows of a signal whose reading is r.
Told(s, r) == IF r > 0 THEN told[s] >= r ELSE told[s] = 0

\* The inductive invariant of the ticks.  Between two ticks the CEO knows what
\* the alert state says, and nothing milder has been written since; a tick has
\* judged by the alert state that it replaces; of what it is not to tell the
\* CEO knows already, and what it is to tell is worse than all that was
\* written since, or a recovery from what was told.
TickInv ==
    /\ alert \in [Signal -> Unknown .. Worst]
    /\ tick \in [Actor -> TickStates]
    /\ told \in Readings
    /\ mildest \in Readings
    /\ muted \subseteq Signal
    /\ (\A a \in Actor : tick[a].pc \in {"idle", "judged"}) =>
         \A s \in Signal \ muted :
            Told(s, alert[s]) /\ (mildest[s] = 0 \/ mildest[s] <= alert[s])
    /\ \A a \in Actor : tick[a].pc = "judged" => tick[a].events = SignalEvents(tick[a].seen)
    /\ \A a \in Actor : tick[a].pc \in {"writing", "written"} =>
         \A s \in Signal \ muted :
            IF s \notin tick[a].events THEN Told(s, tick[a].seen[s])
            ELSE IF tick[a].seen[s] > 0 THEN mildest[s] < tick[a].seen[s]
            ELSE told[s] > 0
    /\ \A a \in Actor : tick[a].pc = "written" =>
         /\ alert = tick[a].seen
         /\ \A s \in Signal \ (muted \cup tick[a].events) : mildest[s] <= tick[a].seen[s]

LEMMA TickKinds ==
    ASSUME NEW t \in TickStates
    PROVE  /\ t.pc \in {"idle", "judged", "writing", "written"}
           /\ t.pc = "idle" <=> t = NoTick
           /\ t.pc # "idle" => /\ t.seen \in Readings
                               /\ t.events \subseteq Signal
                               /\ t = [pc |-> t.pc, seen |-> t.seen, events |-> t.events]
BY DEF TickStates, NoTick

LEMMA ReadingOf ==
    ASSUME NEW r \in Readings
    PROVE  /\ r \in [Signal -> 0 .. Worst]
           /\ r \in [Signal -> Unknown .. Worst]
           /\ \A s \in Signal : r[s] \in Int /\ r[s] >= 0
BY LoopAssumption DEF Readings, Unknown

LEMMA NoReading == [s \in Signal |-> 0] \in Readings
BY LoopAssumption DEF Readings

\* Two readings, each taken for some signals, are a reading.
LEMMA MixedReading ==
    ASSUME NEW r \in Readings, NEW q \in Readings,
           NEW f, f = [s \in Signal |-> f[s]],
           \A s \in Signal : f[s] = r[s] \/ f[s] = q[s]
    PROVE  f \in Readings
BY DEF Readings

LEMMA TickInvInit == LoopInit => TickInv
<1> SUFFICES ASSUME LoopInit PROVE TickInv
  OBVIOUS
<1> USE LoopAssumption
<1>1. \A a \in Actor : tick[a] = NoTick /\ tick[a].pc = "idle"
  BY DEF LoopInit, NoTick
<1>2. told \in Readings /\ mildest \in Readings
  BY NoReading DEF LoopInit
<1>3. alert \in [Signal -> Unknown .. Worst] /\ tick \in [Actor -> TickStates]
  BY DEF LoopInit, NoAlertState, Unknown, TickStates
<1>4. \A s \in Signal : alert[s] = -1 /\ told[s] = 0 /\ mildest[s] = 0
  BY DEF LoopInit, NoAlertState, Unknown
<1> QED BY <1>1, <1>2, <1>3, <1>4 DEF TickInv, Told, LoopInit

LEMMA TickInvNext ==
    ASSUME OneActor, TickInv, [LoopNext]_allVars
    PROVE  TickInv'
<1> USE DEF TickInv
<1>1. ASSUME UNCHANGED <<alert, tick, told, mildest, muted>> PROVE TickInv'
  BY <1>1 DEF Told, SignalEvents
<1>2. ASSUME NEW a \in Actor,
             \/ Observe(a) \/ TruncateAlertState(a) \/ WriteAlertState(a)
             \/ EndSilently(a) \/ Tell(a) \/ CrashInTick(a)
      PROVE  TickInv'
  <2>1. \A b \in Actor : b = a
    BY DEF OneActor
  <2>2. tick[a] \in TickStates
    OBVIOUS
  <2>3. \A t \in TickStates : InTick(a, t) => tick' \in [Actor -> TickStates] /\ tick'[a] = t
    BY DEF InTick
  <2>4. NoTick \in TickStates /\ NoTick.pc = "idle"
    BY DEF NoTick, TickStates
  <2>5. \A s \in Signal : alert[s] \in Int /\ told[s] \in Int /\ told[s] >= 0
                          /\ mildest[s] \in Int /\ mildest[s] >= 0
    BY ReadingOf, LoopAssumption DEF Unknown
  <2> DEFINE Between == \A s \in Signal \ muted :
                           Told(s, alert[s]) /\ (mildest[s] = 0 \/ mildest[s] <= alert[s])
  <2> HIDE DEF TickInv
  <2>6. tick[a].pc \in {"idle", "judged"} => Between
    BY <2>1 DEF TickInv
  <2>7. ASSUME alert' \in [Signal -> Unknown .. Worst], tick' \in [Actor -> TickStates],
               told' \in Readings, mildest' \in Readings, muted' \subseteq Signal,
               tick'[a].pc = "idle", Between'
        PROVE  TickInv'
    BY <2>1, <2>7 DEF TickInv
  <2>8. CASE Observe(a)
    <3> PICK seen \in Readings :
          InTick(a, [pc |-> "judged", seen |-> seen, events |-> SignalEvents(seen)])
      BY <2>8 DEF Observe
    <3> DEFINE t == [pc |-> "judged", seen |-> seen, events |-> SignalEvents(seen)]
    <3>1. t \in TickStates /\ t.pc = "judged" /\ t.seen = seen /\ t.events = SignalEvents(seen)
      BY DEF TickStates, SignalEvents
    <3> HIDE DEF t
    <3>2. tick' \in [Actor -> TickStates] /\ tick'[a] = t
      BY <2>3, <3>1 DEF t
    <3>3. UNCHANGED <<alert, told, mildest, muted>> /\ tick[a].pc = "idle"
      BY <2>4, <2>8 DEF Observe
    <3>4. Between'
      BY <2>6, <3>3 DEF Told
    <3>5. SignalEvents(seen)' = SignalEvents(seen)
      BY <3>3 DEF SignalEvents
    <3> QED BY <2>1, <3>1, <3>2, <3>3, <3>4, <3>5 DEF TickInv, SignalEvents
  <2>9. CASE TruncateAlertState(a)
    <3> DEFINE t == [tick[a] EXCEPT !.pc = "writing"]
    <3>1. tick[a].pc = "judged" /\ InTick(a, t)
      BY <2>9 DEF TruncateAlertState
    <3>2. /\ t = [pc |-> "writing", seen |-> tick[a].seen, events |-> tick[a].events]
          /\ tick[a].seen \in Readings /\ tick[a].events \subseteq Signal
      BY <2>2, <3>1, TickKinds
    <3>3. t \in TickStates /\ t.pc = "writing" /\ t.seen = tick[a].seen /\ t.events = tick[a].events
      BY <3>2 DEF TickStates
    <3> HIDE DEF t
    <3>4. tick' \in [Actor -> TickStates] /\ tick'[a] = t
      BY <2>3, <3>1, <3>3
    <3>5. alert' \in [Signal -> Unknown .. Worst] /\ UNCHANGED <<told, mildest, muted>>
      BY <2>9, LoopAssumption DEF TruncateAlertState, NoAlertState, Unknown
    <3>6. tick[a].events = SignalEvents(tick[a].seen)
      BY <3>1 DEF TickInv
    <3>7. \A s \in Signal \ muted :
            IF s \notin t.events THEN Told(s, t.seen[s])
            ELSE IF t.seen[s] > 0 THEN mildest[s] < t.seen[s] ELSE told[s] > 0
      <4> TAKE s \in Signal \ muted
      <4>1. Told(s, alert[s]) /\ (mildest[s] = 0 \/ mildest[s] <= alert[s])
        BY <2>6, <3>1
      <4>2. s \in t.events <=> DetectTransition(alert[s], t.seen[s])
        BY <3>3, <3>6 DEF SignalEvents
      <4>3. t.seen[s] \in Int /\ t.seen[s] >= 0
        BY <3>2, <3>3, ReadingOf
      <4> QED BY <2>5, <4>1, <4>2, <4>3 DEF Told, DetectTransition
    <3> QED BY <2>1, <3>3, <3>4, <3>5, <3>7 DEF TickInv, Told
  <2>10. CASE WriteAlertState(a)
    <3> DEFINE t == [tick[a] EXCEPT !.pc = "written"]
    <3>1. tick[a].pc = "writing" /\ InTick(a, t)
      BY <2>10 DEF WriteAlertState
    <3>2. /\ t = [pc |-> "written", seen |-> tick[a].seen, events |-> tick[a].events]
          /\ tick[a].seen \in Readings /\ tick[a].events \subseteq Signal
      BY <2>2, <3>1, TickKinds
    <3>3. t \in TickStates /\ t.pc = "written" /\ t.seen = tick[a].seen /\ t.events = tick[a].events
      BY <3>2 DEF TickStates
    <3> HIDE DEF t
    <3>4. tick' \in [Actor -> TickStates] /\ tick'[a] = t
      BY <2>3, <3>1, <3>3
    <3>5. alert' = t.seen /\ UNCHANGED <<told, muted>>
      BY <2>10, <3>3 DEF WriteAlertState
    <3>6. mildest' = [s \in Signal |-> IF s \notin t.events /\ t.seen[s] < mildest[s]
                                       THEN t.seen[s] ELSE mildest[s]]
      BY <2>10, <3>3, <3>5 DEF WriteAlertState
    <3>7. mildest' \in Readings
      <4>1. \A s \in Signal : mildest'[s] = t.seen[s] \/ mildest'[s] = mildest[s]
        BY <3>6
      <4>2. mildest' = [s \in Signal |-> mildest'[s]]
        BY <3>6
      <4>3. t.seen \in Readings /\ mildest \in Readings
        BY <3>2, <3>3 DEF TickInv
      <4> QED BY <4>1, <4>2, <4>3, MixedReading
    <3>8. \A s \in Signal : t.seen[s] \in Int /\ t.seen[s] >= 0
      BY <3>2, <3>3, ReadingOf
    <3>9. \A s \in Signal \ muted :
            IF s \notin t.events THEN Told(s, t.seen[s])
            ELSE IF t.seen[s] > 0 THEN mildest[s] < t.seen[s] ELSE told[s] > 0
      BY <3>1, <3>3 DEF TickInv
    <3>10. \A s \in Signal \ muted :
            IF s \notin t.events THEN Told(s, t.seen[s]) /\ mildest'[s] <= t.seen[s]
            ELSE IF t.seen[s] > 0 THEN mildest'[s] < t.seen[s] ELSE told[s] > 0
      BY <2>5, <3>6, <3>8, <3>9
    <3>11. alert' \in [Signal -> Unknown .. Worst]
      BY <3>2, <3>3, <3>5, ReadingOf
    <3> QED BY <2>1, <3>3, <3>4, <3>5, <3>7, <3>10, <3>11 DEF TickInv, Told
  <2>11. ASSUME tick[a].pc = "written", muted' = muted \cup tick[a].events,
                InTick(a, NoTick), UNCHANGED <<alert, told, mildest>>
         PROVE  TickInv'
    <3>1. tick[a].seen \in Readings /\ tick[a].events \subseteq Signal
      BY <2>2, <2>11, TickKinds
    <3>2. alert = tick[a].seen
      BY <2>11 DEF TickInv
    <3>3. \A s \in Signal \ muted' : Told(s, alert[s]) /\ mildest[s] <= alert[s]
      BY <2>11, <3>2 DEF TickInv
    <3>4. Between'
      BY <2>11, <3>3 DEF Told
    <3> QED BY <2>3, <2>4, <2>7, <2>11, <3>1, <3>4 DEF TickInv
  <2>12. CASE EndSilently(a)
    BY <2>11, <2>12 DEF EndSilently
  <2>13. CASE Tell(a)
    <3>1. tick[a].pc = "written" /\ InTick(a, NoTick) /\ alert' = alert
      BY <2>13 DEF Tell
    <3> DEFINE E == tick[a].events
    <3> DEFINE seen == tick[a].seen
    <3>2. seen \in Readings /\ E \subseteq Signal
      BY <2>2, <3>1, TickKinds
    <3>3. /\ told' = [s \in Signal |-> IF s \in E THEN seen[s] ELSE told[s]]
          /\ mildest' = [s \in Signal |-> IF s \in E THEN seen[s] ELSE mildest[s]]
          /\ muted' = muted \ E
      BY <2>13 DEF Tell
    <3>4. alert = seen /\ \A s \in Signal \ (muted \cup E) : Told(s, seen[s]) /\ mildest[s] <= seen[s]
      BY <3>1 DEF TickInv
    <3> HIDE DEF E, seen
    <3>5. told' \in Readings /\ mildest' \in Readings
      <4>1. told \in Readings /\ mildest \in Readings
        BY DEF TickInv
      <4>2. told' = [s \in Signal |-> told'[s]] /\ mildest' = [s \in Signal |-> mildest'[s]]
        BY <3>3
      <4>3. \A s \in Signal : /\ told'[s] = seen[s] \/ told'[s] = told[s]
                              /\ mildest'[s] = seen[s] \/ mildest'[s] = mildest[s]
        BY <3>3
      <4>4. told' \in Readings
        BY <3>2, <4>1, <4>2, <4>3, MixedReading
      <4>5. mildest' \in Readings
        BY <3>2, <4>1, <4>2, <4>3, MixedReading
      <4> QED BY <4>4, <4>5
    <3>6. \A s \in Signal : seen[s] \in Int /\ seen[s] >= 0
      BY <3>2, ReadingOf
    <3>7. Between'
      <4> SUFFICES ASSUME NEW s \in Signal, s \notin muted'
                   PROVE  /\ IF seen[s] > 0 THEN told'[s] >= seen[s] ELSE told'[s] = 0
                          /\ mildest'[s] <= seen[s]
        BY <3>1, <3>4 DEF Told
      <4>1. CASE s \in E
        BY <3>3, <3>6, <4>1
      <4>2. CASE s \notin E
        BY <3>3, <3>4, <4>2 DEF Told
      <4> QED BY <4>1, <4>2
    <3>8. muted' \subseteq Signal
      BY <3>3 DEF TickInv
    <3> QED BY <2>3, <2>4, <2>7, <3>1, <3>5, <3>7, <3>8 DEF TickInv
  <2>14. CASE CrashInTick(a)
    <3>1. InTick(a, NoTick) /\ UNCHANGED <<alert, told, mildest>>
      BY <2>14 DEF CrashInTick
    <3>2. CASE tick[a].pc = "written"
      BY <2>11, <2>14, <3>1, <3>2 DEF CrashInTick
    <3>3. CASE tick[a].pc = "writing"
      <4>1. muted' = Signal
        BY <2>14, <3>3 DEF CrashInTick
      <4>2. Between'
        BY <4>1
      <4> QED BY <2>3, <2>4, <2>7, <3>1, <4>1, <4>2 DEF TickInv
    <3>4. CASE tick[a].pc \notin {"writing", "written"}
      <4>1. muted' = muted /\ tick[a].pc \in {"idle", "judged"}
        BY <2>2, <2>14, <3>4, TickKinds DEF CrashInTick
      <4>2. Between'
        BY <2>6, <3>1, <4>1 DEF Told
      <4> QED BY <2>3, <2>4, <2>7, <3>1, <4>1, <4>2 DEF TickInv
    <3> QED BY <3>2, <3>3, <3>4
  <2> QED BY <1>2, <2>8, <2>9, <2>10, <2>12, <2>13, <2>14
<1>3. CASE UNCHANGED allVars
  BY <1>1, <1>3 DEF allVars, loopVars
<1>4. CASE NotifierStep
  BY <1>1, <1>4 DEF NotifierStep, loopVars
<1>5. CASE TickStep
  BY <1>2, <1>5 DEF TickStep
<1>6. CASE CronStep
  BY <1>1, <1>6 DEF CronStep, HeartbeatCheck, RestartCron
<1> QED BY <1>3, <1>4, <1>5, <1>6 DEF LoopNext

\* The cron alerts once in every outage (heartbeat-alert.ts), and in a process
\* that does one thing at a time the alert state never says of a signal what
\* the CEO was not told of it (autonomy-loop.ts, runTick): a failure of which
\* he knows nothing would not be told again.
THEOREM AlertsAreRight ==
    ASSUME OneActor
    PROVE  LoopSpec => []AlertsRight
<1>1. TickInv /\ [LoopNext]_allVars => TickInv'
  BY TickInvNext
<1>2. TickInv => TellsWhatItKnows
  <2> SUFFICES ASSUME TickInv, NEW s \in Signal, s \notin muted, ~InHand(s), ~Rewriting
               PROVE  Told(s, alert[s])
    BY DEF TellsWhatItKnows, Told
  <2>1. CASE \A a \in Actor : tick[a].pc \in {"idle", "judged"}
    BY <2>1 DEF TickInv
  <2>2. ASSUME NEW a \in Actor, tick[a].pc \notin {"idle", "judged"}
        PROVE  Told(s, alert[s])
    <3>1. tick[a].pc = "written" /\ s \notin tick[a].events
      BY <2>2, TickKinds DEF TickInv, InHand, Rewriting
    <3> QED BY <3>1 DEF TickInv
  <2> QED BY <2>1, <2>2
<1>3. CronInv /\ TickInv => AlertsRight
  BY <1>2 DEF CronInv, AlertsRight
<1> QED BY CronInvInit, CronInvNext, TickInvInit, <1>1, <1>3, PTL DEF LoopSpec

\* No storm, in such a process: a tick tells of a failure only when it is worse
\* than all that was written of the signal since it was last told of, and of a
\* recovery only when the failure was told (detectTransition).
THEOREM NoStormEver ==
    ASSUME OneActor
    PROVE  LoopSpec => NoStorm
<1> DEFINE Tells == \A a \in Actor : Tell(a) =>
                       \A s \in tick[a].events \ muted :
                          IF tick[a].seen[s] > 0 THEN mildest[s] < tick[a].seen[s]
                                                 ELSE told[s] > 0
<1>1. TickInv /\ [LoopNext]_allVars => TickInv'
  BY TickInvNext
<1>2. TickInv => Tells
  <2> SUFFICES ASSUME TickInv, NEW a \in Actor, tick[a].pc = "written",
                      NEW s \in tick[a].events \ muted
               PROVE  IF tick[a].seen[s] > 0 THEN mildest[s] < tick[a].seen[s] ELSE told[s] > 0
    BY DEF Tell
  <2>1. s \in Signal
    BY TickKinds DEF TickInv
  <2> QED BY <2>1 DEF TickInv
<1>3. TickInv /\ [LoopNext]_allVars => [Tells]_allVars
  BY <1>2
<1> QED BY TickInvInit, <1>1, <1>3, PTL DEF LoopSpec, NoStorm
=============================================================================
