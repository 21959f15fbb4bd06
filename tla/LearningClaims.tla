--------------------------- MODULE LearningClaims ---------------------------
(***************************************************************************)
(* The learning port (src/learning/{request-port,claim-store,projections}):*)
(* calls of processLearningRequest that carry one idempotency key, on      *)
(* several processes or interleaved at the awaits of one.  A durable claim *)
(* with a generation decides which call's proof counts; the effects on the *)
(* other ledgers and the receipt file are projected from that proof only.  *)
(*                                                                         *)
(* Each call has an owner id of its own (newOperationOwner), so a call is  *)
(* its owner.  A step is what happens between two awaits, or one access to *)
(* the claim file.  The compare-and-swap runs under the file's lock and is *)
(* one step; the claim is created by a write that is not atomic, so that   *)
(* readers, who take no lock, may see half of it.  A proof is identified   *)
(* with the call that computed it.                                         *)
(***************************************************************************)
EXTENDS Naturals

CONSTANTS
    Call,         \* the calls
    ReadonlyCall, \* those whose process may have been started with ATLAS_READONLY
    Payload,      \* payload hashes
    Fault,        \* which faults the environment may inject
    NoCall        \* none of the calls

\* "compute": computing the decision throws; "crash": a call's process dies,
\* but not while it creates the claim; "tear": it dies there; "lock": the
\* claim's lock cannot be had in time; "project": a projection throws, or its
\* lock cannot be had in time; "receipt": the receipt cannot be written.
FaultKind == {"compute", "crash", "tear", "lock", "project", "receipt"}

ASSUME LearningAssumption ==
    /\ ReadonlyCall \subseteq Call
    /\ Fault \subseteq FaultKind
    /\ NoCall \notin Call

VARIABLES
    claim,     \* the claim file of the key
    expired,   \* has the claim's lease run out?
    call,      \* per call: where it is and what it remembers
    projector, \* who holds the projection lock
    done,      \* per effect: how often it was recorded
    receipt    \* the receipt file of the key

vars == <<claim, expired, call, projector, done, receipt>>

-----------------------------------------------------------------------------
(* Claims, calls, receipts *)

NoClaim == [state |-> "none"]
Torn == [state |-> "torn"]

Claim ==
    [state : {"processing", "completed", "failed"}, owner : Call,
     payload : Payload, gen : Nat, proof : Call \cup {NoCall}]

Processing(c, gen) ==
    [state |-> "processing", owner |-> c, payload |-> call[c].payload,
     gen |-> gen, proof |-> NoCall]

\* What a decide request adds to the graph, the evidence ledger and the
\* spend log, in that order (an outcome request has the last two only).
Effects == <<"goal", "evidence", "spend">>

New == [pc |-> "new"]
Dead == [pc |-> "dead"]

\* `gen' is the generation a call works at, `proof' the one it delivers.
CallState ==
    {New, Dead}
    \cup [pc : {"begin", "create", "write"}, payload : Payload]
    \cup [pc : {"cas", "compute", "complete", "complete-cas", "stale", "lost",
                "fail", "fail-cas"}, payload : Payload, gen : Nat]
    \cup [pc : {"lock", "receipt"}, payload : Payload, proof : Call]
    \cup [pc : {"project"}, payload : Payload, proof : Call, effect : DOMAIN Effects]
    \cup [pc : {"done"}, payload : Payload, proof : Call]
    \cup [pc : {"done"}, answer : {"readonly", "rejected", "duplicate", "failed", "error"}]

NoReceipt == [status |-> "none"]
ReadonlyReceipt == [status |-> "readonly"]
CompletedReceipt(c) == [status |-> "completed", proof |-> c]

TypeOK ==
    /\ claim \in Claim \cup {NoClaim, Torn}
    /\ expired \in BOOLEAN
    /\ call \in [Call -> CallState]
    /\ projector \in Call \cup {NoCall}
    /\ done \in [{"goal", "evidence", "spend"} -> Nat]
    /\ receipt \in {NoReceipt, ReadonlyReceipt} \cup {CompletedReceipt(c) : c \in Call}

Init ==
    /\ claim = NoClaim
    /\ expired = FALSE
    /\ call = [c \in Call |-> New]
    /\ projector = NoCall
    /\ done = [e \in {"goal", "evidence", "spend"} |-> 0]
    /\ receipt = NoReceipt

-----------------------------------------------------------------------------
(* How a call begins *)

At(c, pc) == call[c].pc = pc
Become(c, state) == call' = [call EXCEPT ![c] = state]
Goto(c, pc) == Become(c, [call[c] EXCEPT !.pc = pc])
Answer(c, a) == Become(c, [pc |-> "done", answer |-> a])
Work(c, pc, gen) == Become(c, [pc |-> pc, payload |-> call[c].payload, gen |-> gen])
Deliver(c, proof) == Become(c, [pc |-> "lock", payload |-> call[c].payload, proof |-> proof])

FilesUnchanged == UNCHANGED <<claim, expired, projector, done, receipt>>

Start(c, x) ==
    /\ At(c, "new")
    /\ Become(c, [pc |-> "begin", payload |-> x])
    /\ FilesUnchanged

\* A read-only process answers at once, and writes that down as the receipt.
StartReadonly(c) ==
    /\ At(c, "new")
    /\ c \in ReadonlyCall
    /\ Answer(c, "readonly")
    /\ receipt' = ReadonlyReceipt
    /\ UNCHANGED <<claim, expired, projector, done>>

-----------------------------------------------------------------------------
(* beginOperation *)

\* readClaim, and what follows from what it says.  Half a claim does not
\* parse, and the call throws.
BeginOperation(c) ==
    /\ At(c, "begin")
    /\ CASE claim = Torn -> Answer(c, "error")
         [] claim = NoClaim -> Goto(c, "create")
         [] claim \notin {Torn, NoClaim} ->
              CASE claim.payload # call[c].payload -> Answer(c, "rejected")
                [] claim.payload = call[c].payload /\ claim.state = "completed" ->
                     Deliver(c, claim.proof)
                [] claim.payload = call[c].payload /\ claim.state = "processing" /\ ~expired ->
                     Answer(c, "duplicate")
                [] OTHER -> Work(c, "cas", claim.gen)
    /\ FilesUnchanged

\* createClaim: the file is opened, if there is none, ...
CreateClaim(c) ==
    /\ At(c, "create")
    /\ \A d \in Call : ~At(d, "write")
    /\ IF claim = NoClaim
       THEN claim' = Torn /\ Goto(c, "write")
       ELSE UNCHANGED claim /\ Goto(c, "begin")
    /\ UNCHANGED <<expired, projector, done, receipt>>

\* ... and written.
WriteClaim(c) ==
    /\ At(c, "write")
    /\ claim' = Processing(c, 1)
    /\ expired' = FALSE
    /\ Work(c, "compute", 1)
    /\ UNCHANGED <<projector, done, receipt>>

\* Mutant: the generation is not compared.
TakeOverAny(c) ==
    /\ At(c, "cas")
    /\ claim' = Processing(c, claim.gen + 1)
    /\ expired' = FALSE
    /\ Work(c, "compute", claim.gen + 1)
    /\ UNCHANGED <<projector, done, receipt>>

\* casClaim for a takeover or a retry: only at the generation that was read.
TakeOver(c) ==
    /\ At(c, "cas")
    /\ IF claim.gen = call[c].gen
       THEN /\ claim' = Processing(c, claim.gen + 1)
            /\ expired' = FALSE
            /\ Work(c, "compute", claim.gen + 1)
       ELSE /\ UNCHANGED <<claim, expired>>
            /\ Become(c, [pc |-> "begin", payload |-> call[c].payload])
    /\ UNCHANGED <<projector, done, receipt>>

-----------------------------------------------------------------------------
(* The work, completeOperation and failOperation *)

Compute(c) ==
    /\ At(c, "compute")
    /\ Goto(c, "complete") \/ ("compute" \in Fault /\ Goto(c, "fail"))
    /\ FilesUnchanged

Holds(c) ==
    claim.owner = c /\ claim.gen = call[c].gen /\ claim.state = "processing"

ReadToComplete(c) ==
    /\ At(c, "complete")
    /\ Goto(c, CASE claim.owner # c -> "stale"
                 [] claim.owner = c /\ ~Holds(c) -> "lost"
                 [] Holds(c) -> "complete-cas")
    /\ FilesUnchanged

\* Mutant: the generation is not compared.
CompleteAny(c) ==
    /\ At(c, "complete-cas")
    /\ claim' = [claim EXCEPT !.state = "completed", !.proof = c, !.gen = @ + 1]
    /\ Deliver(c, c)
    /\ UNCHANGED <<expired, projector, done, receipt>>

CompleteOperation(c) ==
    /\ At(c, "complete-cas")
    /\ IF claim.gen = call[c].gen
       THEN /\ claim' = [claim EXCEPT !.state = "completed", !.proof = c, !.gen = @ + 1]
            /\ Deliver(c, c)
       ELSE UNCHANGED claim /\ Goto(c, "lost")
    /\ UNCHANGED <<expired, projector, done, receipt>>

\* Mutant: who has lost the claim looks again and again for the proof.
ReadProofWaits(c) ==
    /\ call[c].pc \in {"stale", "lost"}
    /\ IF claim.state = "completed" THEN Deliver(c, claim.proof) ELSE Goto(c, "complete")
    /\ FilesUnchanged

\* readProof: somebody else's proof is delivered, when there is one.
ReadProof(c) ==
    /\ call[c].pc \in {"stale", "lost"}
    /\ CASE claim.state = "completed" -> Deliver(c, claim.proof)
         [] claim.state # "completed" /\ At(c, "stale") -> Answer(c, "duplicate")
         [] OTHER -> Goto(c, "fail")
    /\ FilesUnchanged

ReadToFail(c) ==
    /\ At(c, "fail")
    /\ IF Holds(c) THEN Goto(c, "fail-cas") ELSE Answer(c, "failed")
    /\ FilesUnchanged

FailOperation(c) ==
    /\ At(c, "fail-cas")
    /\ claim' = IF claim.gen = call[c].gen
                THEN [claim EXCEPT !.state = "failed", !.gen = @ + 1]
                ELSE claim
    /\ Answer(c, "failed")
    /\ UNCHANGED <<expired, projector, done, receipt>>

\* withClaimFileLock gives up: what it was called for throws.
LockTimeout(c) ==
    /\ "lock" \in Fault
    /\ \/ call[c].pc \in {"create", "cas", "fail-cas"} /\ Answer(c, "error")
       \/ At(c, "complete-cas") /\ Goto(c, "fail")
    /\ FilesUnchanged

-----------------------------------------------------------------------------
(* applyLearningProjections and the receipt *)

LockProjections(c) ==
    /\ At(c, "lock")
    /\ projector = NoCall
    /\ projector' = c
    /\ Become(c, [pc |-> "project", payload |-> call[c].payload,
                  proof |-> call[c].proof, effect |-> 1])
    /\ UNCHANGED <<claim, expired, done, receipt>>

ToReceipt(c) ==
    Become(c, [pc |-> "receipt", payload |-> call[c].payload, proof |-> call[c].proof])

\* Mutant: an effect is recorded without a look.
ProjectAgain(c) ==
    LET i == call[c].effect IN
    /\ At(c, "project")
    /\ done' = [done EXCEPT ![Effects[i]] = @ + 1]
    /\ IF i = 3
       THEN projector' = NoCall /\ ToReceipt(c)
       ELSE UNCHANGED projector /\ Become(c, [call[c] EXCEPT !.effect = @ + 1])
    /\ UNCHANGED <<claim, expired, receipt>>

\* Each effect is looked up before it is recorded.
Project(c) ==
    LET i == call[c].effect IN
    /\ At(c, "project")
    /\ done' = [done EXCEPT ![Effects[i]] = IF @ = 0 THEN 1 ELSE @]
    /\ IF i = 3
       THEN projector' = NoCall /\ ToReceipt(c)
       ELSE UNCHANGED projector /\ Become(c, [call[c] EXCEPT !.effect = @ + 1])
    /\ UNCHANGED <<claim, expired, receipt>>

\* The lock is not had in time, or a projection throws: not fatal.
ProjectionFails(c) ==
    /\ \/ At(c, "lock") /\ projector # NoCall /\ UNCHANGED projector
       \/ "project" \in Fault /\ At(c, "lock") /\ UNCHANGED projector
       \/ "project" \in Fault /\ At(c, "project") /\ projector' = NoCall
    /\ ToReceipt(c)
    /\ UNCHANGED <<claim, expired, done, receipt>>

\* The winner writes the receipt; who delivers another's proof writes it
\* only when there is none.
WriteReceipt(c) ==
    LET proof == call[c].proof IN
    /\ At(c, "receipt")
    /\ \/ receipt' = IF proof = c \/ receipt = NoReceipt THEN CompletedReceipt(proof) ELSE receipt
       \/ "receipt" \in Fault /\ UNCHANGED receipt
    /\ Become(c, [pc |-> "done", payload |-> call[c].payload, proof |-> proof])
    /\ UNCHANGED <<claim, expired, projector, done>>

-----------------------------------------------------------------------------
(* The environment *)

LeaseExpires ==
    /\ claim.state = "processing"
    /\ ~expired
    /\ expired' = TRUE
    /\ UNCHANGED <<claim, call, projector, done, receipt>>

Crash(c) ==
    /\ call[c].pc \notin {"new", "done", "dead"}
    /\ (IF At(c, "write") THEN "tear" ELSE "crash") \in Fault
    /\ Become(c, Dead)
    /\ FilesUnchanged

\* The projection lock of a dead process grows stale and is removed.
RemoveStaleLock ==
    /\ projector # NoCall
    /\ At(projector, "dead")
    /\ projector' = NoCall
    /\ UNCHANGED <<claim, expired, call, done, receipt>>

\* What the process of a call does once the call has begun.
Continue(c) ==
    \/ BeginOperation(c) \/ CreateClaim(c) \/ WriteClaim(c) \/ TakeOver(c)
    \/ Compute(c) \/ ReadToComplete(c) \/ CompleteOperation(c) \/ ReadProof(c)
    \/ ReadToFail(c) \/ FailOperation(c) \/ LockTimeout(c)
    \/ LockProjections(c) \/ Project(c) \/ ProjectionFails(c) \/ WriteReceipt(c)

Next ==
    \/ \E c \in Call :
         \/ \E x \in Payload : Start(c, x)
         \/ StartReadonly(c) \/ Continue(c) \/ Crash(c)
    \/ LeaseExpires
    \/ RemoveStaleLock

Spec == Init /\ [][Next]_vars

\* A process goes on with the calls it has begun, until it dies.
FairSpec == Spec /\ \A c \in Call : WF_vars(Continue(c))

-----------------------------------------------------------------------------
(* What the calls of one key see of all this *)

Completed == claim.state = "completed"

DecisionMade ==
    IF Completed THEN [proof |-> claim.proof, payload |-> claim.payload] ELSE [proof |-> NoCall]

\* What a call in this state has been answered; the payload is the one it was
\* made with.
Told(state) ==
    CASE state.pc # "done" -> [proof |-> NoCall, why |-> "pending"]
      [] state.pc = "done" /\ "proof" \in DOMAIN state ->
           [proof |-> state.proof, payload |-> state.payload]
      [] OTHER -> [proof |-> NoCall, why |-> "refused"]

Answers == [c \in Call |-> Told(call[c])]

ReceiptNames == IF receipt.status = "completed" THEN receipt.proof ELSE NoCall

Promise == INSTANCE OneDecision WITH
    decision <- DecisionMade, answer <- Answers, recorded <- done, receipt <- ReceiptNames

-----------------------------------------------------------------------------
(* Properties *)

\* All completed answers, the receipt and the claim name one proof, whoever
\* took over from whom (two parallel requests: one decision).
OneProof ==
    /\ \A c \in Call : At(c, "done") /\ "proof" \in DOMAIN call[c] =>
         Completed /\ call[c].proof = claim.proof /\ call[c].payload = claim.payload
    /\ receipt.status = "completed" => Completed /\ receipt.proof = claim.proof

\* Each effect is recorded at most once, however often the proof is delivered
\* and whichever process died between two effects; and none before the claim's
\* compare-and-swap has gone through: a worker that lost its lease leaves no
\* trace in the other ledgers.
ProjectedOnce == \A e \in DOMAIN done : done[e] <= IF Completed THEN 1 ELSE 0

\* A completed claim is never taken over, retried, failed or written again.
CompletedForever == [][Completed => UNCHANGED claim]_vars

\* The port keeps its promise: one call decides for good; the effects follow,
\* each once and in their order, though projections are cut off and begun
\* again by others; whoever gets a proof gets that one; and the call that
\* decided is told so, whatever fails after its compare-and-swap
\* (request-port.ts:272-330).
DecidesOnce == Promise!DecisionSpec

\* A call that is not cut off by a crash is answered.
EveryCallAnswered ==
    \A c \in Call : At(c, "begin") ~> call[c].pc \in {"done", "dead"}
=============================================================================
