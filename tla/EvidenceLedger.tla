--------------------------- MODULE EvidenceLedger ---------------------------
(***************************************************************************)
(* The hash-chained ledger of typed claims (src/evidence/{ledger,          *)
(* auditor}.ts), written by the processes of a machine that the instance   *)
(* lease made its writers: appendClaim starts with assertWritable.         *)
(*                                                                         *)
(* A hash stands for what it is computed from: the hash of an entry is the *)
(* sequence of claims up to it, and nothing else has that hash.  An append *)
(* has three steps, between which the process may die: what it read, the   *)
(* line, the snapshot.  Half a line makes the file unreadable for good.    *)
(***************************************************************************)
EXTENDS InstanceLease, Sequences

CONSTANT Claim

VARIABLES
    entries,   \* ledger.jsonl
    halfLine,  \* does the file end in half a line?
    snapCount, \* the count in snapshot.json, which counts none when absent
    appending, \* per process: the append it is in
    cutShort   \* history: did a writer die after its line, before the snapshot?

evidenceVars == <<entries, halfLine, snapCount, appending, cutShort>>
ledgerVars == <<leaseVars, evidenceVars>>

NoAppend == [pc |-> "none"]
Entry == [prev : Seq(Claim), claim : Claim]

EvidenceTypeOK ==
    /\ LeaseTypeOK
    /\ entries \in Seq(Entry)
    /\ halfLine \in BOOLEAN
    /\ snapCount \in Nat
    /\ \A p \in Instance :
         \/ appending[p] = NoAppend
         \/ /\ appending[p].pc \in {"append", "snapshot"}
            /\ appending[p].claim \in Claim
            /\ appending[p].read \in Seq(Entry)
    /\ cutShort \in BOOLEAN

EvidenceInit ==
    /\ LeaseInit
    /\ entries = <<>>
    /\ halfLine = FALSE
    /\ snapCount = 0
    /\ appending = [p \in Instance |-> NoAppend]
    /\ cutShort = FALSE

Hash(entry) == Append(entry.prev, entry.claim)
LastHash(chain) == IF chain = <<>> THEN <<>> ELSE Hash(chain[Len(chain)])

VerifyLedgerChain(chain) ==
    \A i \in DOMAIN chain : chain[i].prev = LastHash(SubSeq(chain, 1, i - 1))

Appends(p, state) == appending' = [appending EXCEPT ![p] = state]

-----------------------------------------------------------------------------
(* appendClaim *)

\* Mutant: a claim that is there already is entered again.
NewTo(claim, chain) == TRUE

\* A claim that is there already is returned, and its snapshot left as it is.
IsNew(claim, chain) == \A i \in DOMAIN chain : chain[i].claim # claim

ReadEntries(p, claim) ==
    /\ role[p] \in Writing
    /\ appending[p] = NoAppend
    /\ ~halfLine
    /\ IsNew(claim, entries)
    /\ VerifyLedgerChain(entries)
    /\ Appends(p, [pc |-> "append", claim |-> claim, read |-> entries])
    /\ UNCHANGED <<leaseVars, entries, halfLine, snapCount, cutShort>>

AppendEntry(p) ==
    LET w == appending[p] IN
    /\ w.pc = "append"
    /\ entries' = Append(entries, [prev |-> LastHash(w.read), claim |-> w.claim])
    /\ Appends(p, [w EXCEPT !.pc = "snapshot"])
    /\ UNCHANGED <<leaseVars, halfLine, snapCount, cutShort>>

\* The snapshot, written aside and renamed; it counts what was read and one.
WriteEvidenceSnapshot(p) ==
    /\ appending[p].pc = "snapshot"
    /\ snapCount' = Len(appending[p].read) + 1
    /\ cutShort' = FALSE
    /\ Appends(p, NoAppend)
    /\ UNCHANGED <<leaseVars, entries, halfLine>>

\* A process ends between two calls, or dies within one.
ExitWriting(p) ==
    /\ Exit(p)
    /\ Appends(p, NoAppend)
    /\ cutShort' = (cutShort \/ appending[p].pc = "snapshot")
    /\ halfLine' \in {halfLine, halfLine \/ appending[p].pc = "append"}
    /\ UNCHANGED <<entries, snapCount>>

-----------------------------------------------------------------------------

\* appendClaim is one synchronous call: no interval passes within it.
LeaseStep ==
    /\ \/ LeaseTick /\ \A p \in Instance : appending[p] = NoAppend
       \/ \E p \in Instance :
            ReadLease(p) \/ ClaimLease(p) \/ (appending[p] = NoAppend /\ (ReadToBeat(p) \/ Beat(p)))
    /\ UNCHANGED evidenceVars

EvidenceNext ==
    \/ LeaseStep
    \/ \E p \in Instance :
         \/ \E claim \in Claim : ReadEntries(p, claim)
         \/ AppendEntry(p) \/ WriteEvidenceSnapshot(p) \/ ExitWriting(p)

EvidenceSpec == EvidenceInit /\ [][EvidenceNext]_ledgerVars

-----------------------------------------------------------------------------

\* The chain is one: writers that follow each other, the dead among them, never
\* append to the same hash, and no claim is in it twice.
ChainIntact ==
    /\ VerifyLedgerChain(entries)
    /\ \A i, j \in DOMAIN entries : entries[i].claim = entries[j].claim => i = j

\* What runEvidenceAudit finds of the files.
Findings ==
    (IF VerifyLedgerChain(entries) THEN {} ELSE {"tampered"})
    \cup (IF snapCount = Len(entries) THEN {} ELSE {"count-mismatch"})

\* An audit accuses nobody of tampering: between appends it finds something
\* only after a writer died before its snapshot, which the next one rewrites.
AuditIsFair ==
    (\A p \in Instance : appending[p] = NoAppend) /\ ~cutShort => Findings = {}

\* The ledger is one chain, and an audit says so (evidence/ledger.ts, auditor.ts).
LedgerSound == ChainIntact /\ AuditIsFair
=============================================================================
