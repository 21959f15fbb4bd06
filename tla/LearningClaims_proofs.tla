------------------------ MODULE LearningClaims_proofs ------------------------
(***************************************************************************)
(* Proofs about LearningClaims, for any number of calls, payloads and      *)
(* takeovers, and every choice of faults: one proof counts, its effects    *)
(* are recorded once, the claim that names it stays as it is, and to the   *)
(* callers it is all one decision (OneDecision).                           *)
(***************************************************************************)
EXTENDS LearningClaims, TLAPS

-----------------------------------------------------------------------------
(* The invariant *)

\* A call that knows the claim at some generation.
WorkPc == {"cas", "compute", "complete", "complete-cas", "stale", "lost", "fail", "fail-cas"}

\* A call that delivers a proof, or has delivered it.
Delivers(c) ==
    \/ call[c].pc \in {"lock", "project", "receipt"}
    \/ At(c, "done") /\ "proof" \in DOMAIN call[c]

\* What a call knows of the claim.  The generation is what makes an old
\* reading harmless: every write raises it, so that a compare-and-swap at the
\* generation that was read finds the claim in the state that was read.
Fits(c) ==
    /\ At(c, "write") => claim = Torn
    /\ call[c].pc \in WorkPc =>
         claim \in Claim /\ call[c].payload = claim.payload /\ call[c].gen <= claim.gen
    /\ At(c, "cas") /\ claim.gen = call[c].gen => ~Completed
    /\ call[c].pc \in {"complete-cas", "fail-cas"} /\ claim.gen = call[c].gen =>
         claim.state = "processing"
    /\ Delivers(c) =>
         Completed /\ call[c].proof = claim.proof /\ call[c].payload = claim.payload

OneWriter == \A c, d \in Call : At(c, "write") /\ At(d, "write") => c = d

\* What a completed claim and a receipt name.
ProofNamed ==
    /\ Completed => claim.proof \in Call
    /\ receipt.status = "completed" => Completed /\ receipt.proof = claim.proof

LearningInv ==
    /\ TypeOK
    /\ \A c \in Call : Fits(c)
    /\ OneWriter /\ ProofNamed /\ ProjectedOnce

-----------------------------------------------------------------------------
(* Calls *)

\* The types of what the actions read.
LEMMA CallTyped ==
    ASSUME TypeOK, NEW c \in Call
    PROVE  /\ call[c].pc \in WorkPc => call[c].payload \in Payload /\ call[c].gen \in Nat
           /\ call[c].pc \in {"begin", "create", "write"} => call[c].payload \in Payload
           /\ Delivers(c) => call[c].payload \in Payload /\ call[c].proof \in Call
           /\ At(c, "project") => call[c].effect \in 1 .. 3
BY DEF TypeOK, CallState, WorkPc, Delivers, At, New, Dead, Effects

LEMMA Becoming ==
    ASSUME TypeOK, NEW c \in Call, NEW state \in CallState, Become(c, state)
    PROVE  /\ call' \in [Call -> CallState] /\ call'[c] = state
           /\ \A d \in Call : d # c => call'[d] = call[d]
BY DEF TypeOK, Become

LEMMA StatesTyped ==
    /\ Dead \in CallState
    /\ \A a \in {"readonly", "rejected", "duplicate", "failed", "error"} :
         [pc |-> "done", answer |-> a] \in CallState
    /\ \A x \in Payload :
         /\ \A pc \in {"begin", "create", "write"} : [pc |-> pc, payload |-> x] \in CallState
         /\ \A pc \in WorkPc, gen \in Nat : [pc |-> pc, payload |-> x, gen |-> gen] \in CallState
         /\ \A p \in Call :
              /\ \A pc \in {"lock", "receipt", "done"} :
                   [pc |-> pc, payload |-> x, proof |-> p] \in CallState
              /\ \A i \in 1 .. 3 :
                   [pc |-> "project", payload |-> x, proof |-> p, effect |-> i] \in CallState
BY DEF CallState, Dead, WorkPc, Effects

\* Goto keeps what the call remembers.
LEMMA Going ==
    ASSUME TypeOK, NEW c \in Call, NEW pc
    PROVE  /\ call[c].pc \in WorkPc =>
                [call[c] EXCEPT !.pc = pc] = [pc |-> pc, payload |-> call[c].payload, gen |-> call[c].gen]
           /\ call[c].pc \in {"begin", "create", "write"} =>
                [call[c] EXCEPT !.pc = pc] = [pc |-> pc, payload |-> call[c].payload]
BY DEF TypeOK, CallState, WorkPc, New, Dead

-----------------------------------------------------------------------------
(* The claim *)

\* What a step may do to the claim: it is created, written, and from then on
\* each write raises its generation, until it is completed.
Raised ==
    /\ claim \in Claim /\ ~Completed
    /\ claim' \in Claim
    /\ claim'.gen = claim.gen + 1 /\ claim'.payload = claim.payload
    /\ Completed' => claim'.proof \in Call

ClaimStep ==
    \/ UNCHANGED claim
    \/ claim = NoClaim /\ claim' = Torn
    \/ claim = Torn /\ claim' \in Claim /\ claim'.state = "processing"
    \/ Raised

\* A call that stands still fits what becomes of the claim.
LEMMA OthersFit ==
    ASSUME TypeOK, ClaimStep, NEW c \in Call, Fits(c), call'[c] = call[c],
           At(c, "write") => UNCHANGED claim
    PROVE  Fits(c)'
<1>1. call[c].pc \in WorkPc => call[c].gen \in Nat
  BY CallTyped
<1>2. CASE UNCHANGED claim
  BY <1>2 DEF Fits, At, Delivers, Completed
<1>3. CASE claim = NoClaim \/ claim = Torn
  <2>1. claim \notin Claim /\ ~Completed
    BY <1>3 DEF Claim, NoClaim, Torn, Completed
  <2>2. call[c].pc \notin WorkPc /\ ~Delivers(c)
    BY <2>1 DEF Fits
  <2>3. call'[c].pc \notin WorkPc /\ ~Delivers(c)'
    BY <2>2 DEF Delivers, At
  <2>4. At(c, "write")' => (claim = Torn)'
    BY DEF Fits, At
  <2> QED BY <2>3, <2>4 DEF Fits, WorkPc, At
<1>4. CASE Raised
  <2>1. claim.gen \in Nat /\ ~Completed
    BY <1>4 DEF Raised, Claim
  <2>2. ~Delivers(c) /\ ~Delivers(c)'
    BY <2>1 DEF Fits, Delivers, At
  <2>3. ~At(c, "write")
    BY <1>4 DEF Fits, Raised, Claim, Torn
  <2>4. call[c].pc \in WorkPc => call[c].payload = claim'.payload /\ call[c].gen < claim'.gen
    BY <1>1, <1>4, <2>1 DEF Fits, Raised
  <2>5. claim' \in Claim /\ claim'.gen \in Nat
    BY <1>4 DEF Raised, Claim
  <2>6. call[c].pc \in WorkPc => call[c].gen <= claim'.gen /\ claim'.gen # call[c].gen
    BY <1>1, <2>4, <2>5
  <2> QED BY <2>2, <2>3, <2>4, <2>5, <2>6 DEF Fits, At, WorkPc
<1> QED BY <1>2, <1>3, <1>4 DEF ClaimStep

\* What a step of one call has to show: where the call is now, that it fits the
\* claim, and that nobody is about to write a claim that has changed.
Moved(c, state) ==
    /\ state \in CallState /\ Become(c, state)
    /\ ClaimStep /\ Fits(c)'
    /\ \A d \in Call : d # c /\ At(d, "write") => UNCHANGED claim /\ state.pc # "write"

LEMMA CallsKept ==
    ASSUME LearningInv, NEW c \in Call, NEW state, Moved(c, state)
    PROVE  /\ call' \in [Call -> CallState]
           /\ \A d \in Call : Fits(d)'
           /\ OneWriter'
<1>1. /\ call' \in [Call -> CallState] /\ call'[c] = state
      /\ \A d \in Call : d # c => call'[d] = call[d]
  BY Becoming DEF LearningInv, Moved
<1>2. ASSUME NEW d \in Call, d # c PROVE Fits(d)'
  BY <1>1, <1>2, OthersFit DEF LearningInv, Moved
<1>3. OneWriter'
  BY <1>1 DEF LearningInv, Moved, OneWriter, At
<1> QED BY <1>1, <1>2, <1>3 DEF Moved

\* The rest of the invariant, when nothing is recorded.
LEMMA ClaimKept ==
    ASSUME LearningInv, ClaimStep
    PROVE  /\ claim' \in Claim \cup {NoClaim, Torn}
           /\ Completed => UNCHANGED claim
           /\ Completed' => claim'.proof \in Call
<1>1. claim \in Claim \cup {NoClaim, Torn} /\ (Completed => claim.proof \in Call)
  BY DEF LearningInv, TypeOK, ProofNamed
<1>2. CASE UNCHANGED claim
  BY <1>1, <1>2 DEF Completed
<1>3. CASE claim = NoClaim /\ claim' = Torn
  BY <1>3 DEF Completed, NoClaim, Torn
<1>4. CASE claim = Torn /\ claim' \in Claim /\ claim'.state = "processing"
  BY <1>4 DEF Completed, Torn
<1>5. CASE Raised
  BY <1>5 DEF Raised
<1> QED BY <1>2, <1>3, <1>4, <1>5 DEF ClaimStep

LEMMA FilesKept ==
    ASSUME LearningInv, ClaimStep, UNCHANGED <<done, receipt>>
    PROVE  ProofNamed' /\ ProjectedOnce'
<1>1. Completed => UNCHANGED claim /\ Completed'
  BY ClaimKept DEF Completed
<1>2. ProofNamed'
  BY <1>1, ClaimKept DEF LearningInv, ProofNamed
<1>3. done \in [{"goal", "evidence", "spend"} -> Nat] /\ ProjectedOnce
  BY DEF LearningInv, TypeOK
<1>4. ASSUME NEW e \in DOMAIN done PROVE done[e] <= IF Completed' THEN 1 ELSE 0
  BY <1>1, <1>3, <1>4 DEF ProjectedOnce
<1> QED BY <1>2, <1>4 DEF ProjectedOnce

\* A step that leaves the files alone.
LEMMA QuietStep ==
    ASSUME LearningInv, NEW c \in Call, NEW state \in CallState, Become(c, state),
           UNCHANGED <<claim, done, receipt>>, Fits(c)', state.pc # "write",
           expired' \in BOOLEAN, projector' \in Call \cup {NoCall}
    PROVE  LearningInv'
<1>1. Moved(c, state) /\ ClaimStep
  BY DEF Moved, ClaimStep
<1>2. TypeOK'
  BY <1>1, CallsKept DEF LearningInv, TypeOK
<1> QED BY <1>1, <1>2, CallsKept, FilesKept DEF LearningInv

\* A call that is at neither place knows nothing that could be wrong.
LEMMA FitsTrivially ==
    ASSUME NEW c \in Call, call'[c].pc \notin WorkPc \cup {"write", "lock", "project", "receipt"},
           call'[c].pc = "done" => "proof" \notin DOMAIN call'[c]
    PROVE  Fits(c)'
BY DEF Fits, WorkPc, At, Delivers

-----------------------------------------------------------------------------
(* The steps that leave the files alone *)

LEMMA Answering ==
    ASSUME LearningInv, NEW c \in Call,
           NEW a \in {"readonly", "rejected", "duplicate", "failed", "error"}, Answer(c, a)
    PROVE  LET state == [pc |-> "done", answer |-> a] IN
           state \in CallState /\ Become(c, state) /\ state.pc # "write" /\ Fits(c)'
<1> DEFINE state == [pc |-> "done", answer |-> a]
<1>1. state \in CallState /\ Become(c, state) /\ state.pc = "done"
  BY StatesTyped DEF Answer
<1>2. call'[c] = state
  BY <1>1, Becoming DEF LearningInv
<1>3. Fits(c)'
  BY <1>2, FitsTrivially DEF WorkPc
<1> QED BY <1>1, <1>3

LEMMA QuietAnswer ==
    ASSUME LearningInv, NEW c \in Call, FilesUnchanged,
           NEW a \in {"readonly", "rejected", "duplicate", "failed", "error"}, Answer(c, a)
    PROVE  LearningInv'
<1>1. expired' \in BOOLEAN /\ projector' \in Call \cup {NoCall}
  BY DEF LearningInv, TypeOK, FilesUnchanged
<1> QED BY <1>1, Answering, QuietStep DEF FilesUnchanged

\* A call goes on, and what it knows is still so.
LEMMA QuietGoto ==
    ASSUME LearningInv, NEW c \in Call, FilesUnchanged, NEW pc, Goto(c, pc),
           \/ call[c].pc \in WorkPc /\ pc \in WorkPc \ {"cas", "complete-cas", "fail-cas"}
           \/ call[c].pc \in {"complete", "fail"} /\ pc \in {"complete-cas", "fail-cas"} /\ Holds(c)
           \/ call[c].pc = "begin" /\ pc = "create"
           \/ call[c].pc = "create" /\ pc = "begin"
    PROVE  LearningInv'
<1>0. TypeOK /\ Fits(c) /\ UNCHANGED <<claim, done, receipt>>
      /\ expired' \in BOOLEAN /\ projector' \in Call \cup {NoCall}
  BY DEF LearningInv, TypeOK, FilesUnchanged
<1>1. CASE call[c].pc \in WorkPc
  <2> DEFINE state == [pc |-> pc, payload |-> call[c].payload, gen |-> call[c].gen]
  <2>1. pc \in WorkPc \ {"cas"} /\ (pc \in {"complete-cas", "fail-cas"} => Holds(c))
    BY <1>1 DEF WorkPc
  <2>2. Become(c, state) /\ state \in CallState
    BY <1>0, <1>1, <2>1, Going, CallTyped, StatesTyped DEF Goto
  <2>3. call'[c] = state
    BY <1>0, <2>2, Becoming
  <2>4. Fits(c)'
    BY <1>0, <1>1, <2>1, <2>3 DEF Fits, At, Delivers, Holds, WorkPc
  <2>5. state.pc # "write"
    BY <2>1 DEF WorkPc
  <2> QED BY <1>0, <2>2, <2>4, <2>5, QuietStep
<1>2. CASE call[c].pc \in {"begin", "create"} /\ pc \in {"begin", "create"}
  <2> DEFINE state == [pc |-> pc, payload |-> call[c].payload]
  <2>1. Become(c, state) /\ state \in CallState /\ state.pc # "write"
    BY <1>0, <1>2, Going, CallTyped, StatesTyped DEF Goto
  <2>2. call'[c] = state
    BY <1>0, <2>1, Becoming
  <2>3. Fits(c)'
    BY <1>2, <2>2, FitsTrivially DEF WorkPc
  <2> QED BY <1>0, <2>1, <2>3, QuietStep
<1> QED BY <1>1, <1>2 DEF WorkPc

\* A proof is delivered once the claim is completed, and it is the claim's.
LEMMA QuietDeliver ==
    ASSUME LearningInv, NEW c \in Call, UNCHANGED <<claim, done, receipt>>,
           expired' \in BOOLEAN, projector' \in Call \cup {NoCall}, NEW state \in CallState, Become(c, state),
           Completed, state.proof = claim.proof, state.payload = claim.payload,
           state.pc \in {"lock", "project", "receipt", "done"}
    PROVE  LearningInv'
<1>1. call'[c] = state
  BY Becoming DEF LearningInv
<1>2. Fits(c)'
  BY <1>1 DEF Fits, At, Delivers, Completed, WorkPc
<1> QED BY <1>2, QuietStep

LEMMA BeginKeeps ==
    ASSUME LearningInv, NEW c \in Call, BeginOperation(c)
    PROVE  LearningInv'
<1>1. /\ TypeOK /\ FilesUnchanged /\ At(c, "begin") /\ call[c].payload \in Payload
      /\ expired' \in BOOLEAN /\ projector' \in Call \cup {NoCall}
  BY CallTyped DEF LearningInv, BeginOperation, TypeOK, FilesUnchanged, At
<1>2. CASE claim \notin Claim
  <2>1. (claim = Torn \/ claim = NoClaim) /\ Torn # NoClaim
    BY <1>1, <1>2 DEF TypeOK, Torn, NoClaim
  <2>2. Answer(c, "error") \/ Goto(c, "create")
    BY <2>1 DEF BeginOperation
  <2> QED BY <1>1, <2>2, QuietAnswer, QuietGoto DEF At
<1>3. CASE claim \in Claim
  <2>1. claim \notin {Torn, NoClaim} /\ claim.gen \in Nat /\ claim.state \in {"processing", "completed", "failed"}
    BY <1>3 DEF Claim, Torn, NoClaim
  <2>2. \/ \E a \in {"rejected", "duplicate"} : Answer(c, a)
        \/ claim.payload = call[c].payload /\ Completed /\ Deliver(c, claim.proof)
        \/ claim.payload = call[c].payload /\ ~Completed /\ Work(c, "cas", claim.gen)
    BY <2>1 DEF BeginOperation, Completed
  <2>3. CASE \E a \in {"rejected", "duplicate"} : Answer(c, a)
    BY <1>1, <2>3, QuietAnswer
  <2>4. CASE claim.payload = call[c].payload /\ Completed /\ Deliver(c, claim.proof)
    <3> DEFINE state == [pc |-> "lock", payload |-> call[c].payload, proof |-> claim.proof]
    <3>1. state \in CallState /\ Become(c, state)
      BY <1>1, <2>4, StatesTyped DEF Deliver, LearningInv, ProofNamed
    <3> QED BY <1>1, <2>4, <3>1, QuietDeliver DEF FilesUnchanged
  <2>5. CASE claim.payload = call[c].payload /\ ~Completed /\ Work(c, "cas", claim.gen)
    <3> DEFINE state == [pc |-> "cas", payload |-> call[c].payload, gen |-> claim.gen]
    <3>1. state \in CallState /\ Become(c, state)
      BY <1>1, <2>1, <2>5, StatesTyped DEF Work, WorkPc
    <3>2. call'[c] = state
      BY <1>1, <3>1, Becoming
    <3>3. Fits(c)'
      BY <1>1, <1>3, <2>1, <2>5, <3>2 DEF Fits, At, Delivers, WorkPc, Completed, FilesUnchanged
    <3> QED BY <1>1, <3>1, <3>3, QuietStep DEF FilesUnchanged
  <2> QED BY <2>2, <2>3, <2>4, <2>5
<1> QED BY <1>2, <1>3

LEMMA WorkKeeps ==
    ASSUME LearningInv, NEW c \in Call,
           Compute(c) \/ ReadToComplete(c) \/ ReadToFail(c) \/ ReadProof(c) \/ LockTimeout(c)
    PROVE  LearningInv'
<1>1. /\ TypeOK /\ FilesUnchanged /\ Fits(c)
      /\ expired' \in BOOLEAN /\ projector' \in Call \cup {NoCall}
  BY DEF LearningInv, Compute, ReadToComplete, ReadToFail, ReadProof, LockTimeout, TypeOK, FilesUnchanged
<1>2. CASE Compute(c)
  BY <1>1, <1>2, QuietGoto DEF Compute, At, WorkPc
<1>3. CASE ReadToComplete(c)
  <2>1. At(c, "complete")
        /\ (Goto(c, "stale") \/ Goto(c, "lost") \/ (Holds(c) /\ Goto(c, "complete-cas")))
    BY <1>3 DEF ReadToComplete
  <2> QED BY <1>1, <2>1, QuietGoto DEF At, WorkPc
<1>4. CASE ReadToFail(c)
  BY <1>1, <1>4, QuietGoto, QuietAnswer DEF ReadToFail, At
<1>5. CASE ReadProof(c)
  <2>1. \/ Completed /\ Deliver(c, claim.proof)
        \/ Answer(c, "duplicate") \/ Goto(c, "fail")
    BY <1>5 DEF ReadProof, Completed
  <2>2. CASE Completed /\ Deliver(c, claim.proof)
    <3> DEFINE state == [pc |-> "lock", payload |-> call[c].payload, proof |-> claim.proof]
    <3>1. call[c].payload \in Payload /\ call[c].payload = claim.payload
      BY <1>1, <1>5, CallTyped DEF ReadProof, WorkPc, Fits
    <3>2. state \in CallState /\ Become(c, state)
      BY <2>2, <3>1, StatesTyped DEF Deliver, LearningInv, ProofNamed
    <3> QED BY <1>1, <2>2, <3>1, <3>2, QuietDeliver DEF FilesUnchanged
  <2>3. call[c].pc \in WorkPc
    BY <1>5 DEF ReadProof, WorkPc
  <2> QED BY <1>1, <2>1, <2>2, <2>3, QuietAnswer, QuietGoto DEF WorkPc
<1>6. CASE LockTimeout(c)
  BY <1>1, <1>6, QuietAnswer, QuietGoto DEF LockTimeout, At, WorkPc
<1> QED BY <1>2, <1>3, <1>4, <1>5, <1>6

-----------------------------------------------------------------------------
(* The writes of the claim *)

\* A step that writes the claim and no other file.
LEMMA WriteStep ==
    ASSUME LearningInv, NEW c \in Call, NEW state, Moved(c, state),
           UNCHANGED <<projector, done, receipt>>, expired' \in BOOLEAN
    PROVE  LearningInv'
<1>1. ClaimStep
  BY DEF Moved
<1>2. TypeOK'
  BY <1>1, CallsKept, ClaimKept DEF LearningInv, TypeOK
<1> QED BY <1>1, <1>2, CallsKept, FilesKept DEF LearningInv

LEMMA CreateKeeps ==
    ASSUME LearningInv, NEW c \in Call, CreateClaim(c)
    PROVE  LearningInv'
<1>1. TypeOK /\ At(c, "create") /\ call[c].payload \in Payload
  BY CallTyped DEF LearningInv, CreateClaim, At
<1>2. CASE claim = NoClaim
  <2> DEFINE state == [pc |-> "write", payload |-> call[c].payload]
  <2>1. claim' = Torn /\ Goto(c, "write")
    BY <1>2 DEF CreateClaim
  <2>2. state \in CallState /\ Become(c, state)
    BY <1>1, <2>1, Going, StatesTyped DEF Goto, At
  <2>3. call'[c] = state
    BY <1>1, <2>2, Becoming
  <2>4. Fits(c)'
    BY <2>1, <2>3 DEF Fits, At, Delivers, WorkPc
  <2>5. Moved(c, state)
    BY <1>2, <2>1, <2>2, <2>4 DEF Moved, ClaimStep, CreateClaim
  <2> QED BY <1>1, <2>5, WriteStep DEF CreateClaim, TypeOK
<1>3. CASE claim # NoClaim
  BY <1>1, <1>3, QuietGoto DEF CreateClaim, FilesUnchanged, At
<1> QED BY <1>2, <1>3

\* Who raises the generation leaves no old reading valid.
LEMMA RaiseKeeps ==
    ASSUME LearningInv, NEW c \in Call, NEW state \in CallState, Become(c, state),
           Raised \/ (claim = Torn /\ At(c, "write") /\ claim' \in Claim /\ claim'.state = "processing"),
           Fits(c)', state.pc # "write",
           UNCHANGED <<projector, done, receipt>>, expired' \in BOOLEAN
    PROVE  LearningInv'
<1>1. ClaimStep
  BY DEF ClaimStep
<1>2. ASSUME NEW d \in Call, d # c, At(d, "write") PROVE FALSE
  <2>1. claim = Torn
    BY <1>2 DEF LearningInv, Fits
  <2>2. ~Raised
    BY <2>1 DEF Raised, Claim, Torn
  <2> QED BY <1>2, <2>2 DEF LearningInv, OneWriter
<1> QED BY <1>1, <1>2, WriteStep DEF Moved

LEMMA WriteKeeps ==
    ASSUME LearningInv, NEW c \in Call, WriteClaim(c)
    PROVE  LearningInv'
<1> DEFINE state == [pc |-> "compute", payload |-> call[c].payload, gen |-> 1]
<1>1. TypeOK /\ At(c, "write") /\ call[c].payload \in Payload /\ claim = Torn
  BY CallTyped DEF LearningInv, WriteClaim, At, Fits
<1>2. /\ claim' = Processing(c, 1)
      /\ claim' \in Claim /\ claim'.state = "processing" /\ claim'.gen = 1
      /\ claim'.payload = call[c].payload
  BY <1>1 DEF WriteClaim, Processing, Claim
<1>3. state \in CallState /\ Become(c, state)
  BY <1>1, StatesTyped DEF WriteClaim, Work, WorkPc
<1>4. call'[c] = state
  BY <1>1, <1>3, Becoming
<1>5. Fits(c)'
  BY <1>2, <1>4 DEF Fits, At, Delivers, WorkPc
<1> QED BY <1>1, <1>2, <1>3, <1>5, RaiseKeeps DEF WriteClaim

\* What a compare-and-swap that goes through finds.
LEMMA CasFinds ==
    ASSUME LearningInv, NEW c \in Call, call[c].pc \in {"cas", "complete-cas", "fail-cas"},
           claim.gen = call[c].gen
    PROVE  /\ claim \in Claim /\ claim.gen \in Nat /\ ~Completed
           /\ call[c].payload \in Payload /\ call[c].payload = claim.payload
<1>1. TypeOK /\ Fits(c) /\ call[c].pc \in WorkPc
  BY DEF LearningInv, WorkPc
<1> QED BY <1>1, CallTyped DEF Fits, At, Completed, Claim

LEMMA CasKeeps ==
    ASSUME LearningInv, NEW c \in Call, TakeOver(c) \/ CompleteOperation(c) \/ FailOperation(c)
    PROVE  LearningInv'
<1>1. TypeOK /\ Fits(c) /\ call[c].pc \in WorkPc /\ call[c].payload \in Payload
  BY CallTyped DEF LearningInv, TakeOver, CompleteOperation, FailOperation, At, WorkPc
<1>2. /\ UNCHANGED <<projector, done, receipt>> /\ expired' \in BOOLEAN
      /\ projector' \in Call \cup {NoCall}
  BY <1>1 DEF TakeOver, CompleteOperation, FailOperation, TypeOK
<1>3. CASE TakeOver(c) /\ claim.gen = call[c].gen
  <2> DEFINE state == [pc |-> "compute", payload |-> call[c].payload, gen |-> claim.gen + 1]
  <2>1. claim \in Claim /\ claim.gen \in Nat /\ ~Completed /\ call[c].payload = claim.payload
    BY <1>3, CasFinds DEF TakeOver, At
  <2>2. /\ claim' = Processing(c, claim.gen + 1)
        /\ claim'.gen = claim.gen + 1 /\ claim'.payload = call[c].payload
        /\ claim' \in Claim /\ ~Completed'
    BY <1>1, <1>3, <2>1 DEF TakeOver, Processing, Claim, Completed
  <2>3. Raised
    BY <2>1, <2>2 DEF Raised
  <2>4. state \in CallState /\ Become(c, state)
    <3>1. claim.gen + 1 \in Nat
      BY <2>1
    <3>2. state \in CallState
      BY <1>1, <3>1, StatesTyped DEF WorkPc
    <3> QED BY <1>3, <3>2 DEF TakeOver, Work
  <2>5. call'[c] = state
    BY <1>1, <2>4, Becoming
  <2>6. Fits(c)'
    BY <2>1, <2>2, <2>5 DEF Fits, At, Delivers, WorkPc
  <2> QED BY <1>2, <2>3, <2>4, <2>6, RaiseKeeps
<1>4. CASE TakeOver(c) /\ claim.gen # call[c].gen
  <2> DEFINE state == [pc |-> "begin", payload |-> call[c].payload]
  <2>1. state \in CallState /\ Become(c, state) /\ UNCHANGED claim
    BY <1>1, <1>4, StatesTyped DEF TakeOver
  <2>2. call'[c] = state
    BY <1>1, <2>1, Becoming
  <2>3. Fits(c)'
    BY <2>2, FitsTrivially DEF WorkPc
  <2> QED BY <1>2, <2>1, <2>3, QuietStep
<1>5. CASE CompleteOperation(c) /\ claim.gen = call[c].gen
  <2> DEFINE state == [pc |-> "lock", payload |-> call[c].payload, proof |-> c]
  <2>1. claim \in Claim /\ claim.gen \in Nat /\ ~Completed /\ call[c].payload = claim.payload
    BY <1>5, CasFinds DEF CompleteOperation, At
  <2>2. /\ claim'.gen = claim.gen + 1 /\ claim'.payload = claim.payload
        /\ claim' \in Claim /\ Completed' /\ claim'.proof = c
    <3>1. claim' = [claim EXCEPT !.state = "completed", !.proof = c, !.gen = claim.gen + 1]
      BY <1>5 DEF CompleteOperation
    <3>2. claim' = [state |-> "completed", owner |-> claim.owner, payload |-> claim.payload,
                    gen |-> claim.gen + 1, proof |-> c]
      BY <2>1, <3>1 DEF Claim
    <3> QED BY <2>1, <3>2 DEF Claim, Completed
  <2>3. Raised
    BY <2>1, <2>2 DEF Raised
  <2>4. state \in CallState /\ Become(c, state)
    BY <1>1, <1>5, StatesTyped DEF CompleteOperation, Deliver
  <2>5. call'[c] = state
    BY <1>1, <2>4, Becoming
  <2>6. Fits(c)'
    BY <2>1, <2>2, <2>5 DEF Fits, At, Delivers, WorkPc
  <2> QED BY <1>2, <2>3, <2>4, <2>6, RaiseKeeps
<1>6. CASE CompleteOperation(c) /\ claim.gen # call[c].gen
  BY <1>1, <1>6, QuietGoto DEF CompleteOperation, FilesUnchanged, WorkPc
<1>7. CASE FailOperation(c) /\ claim.gen = call[c].gen
  <2>1. claim \in Claim /\ claim.gen \in Nat /\ ~Completed /\ call[c].payload = claim.payload
    BY <1>7, CasFinds DEF FailOperation, At
  <2>2. /\ claim'.gen = claim.gen + 1 /\ claim'.payload = claim.payload
        /\ claim' \in Claim /\ ~Completed'
    <3>1. claim' = [claim EXCEPT !.state = "failed", !.gen = claim.gen + 1]
      BY <1>7 DEF FailOperation
    <3>2. claim' = [state |-> "failed", owner |-> claim.owner, payload |-> claim.payload,
                    gen |-> claim.gen + 1, proof |-> claim.proof]
      BY <2>1, <3>1 DEF Claim
    <3> QED BY <2>1, <3>2 DEF Claim, Completed
  <2>3. Raised
    BY <2>1, <2>2 DEF Raised
  <2> QED BY <1>2, <1>7, <2>3, Answering, RaiseKeeps DEF FailOperation
<1>8. CASE FailOperation(c) /\ claim.gen # call[c].gen
  BY <1>8, QuietAnswer DEF FailOperation, FilesUnchanged
<1> QED BY <1>3, <1>4, <1>5, <1>6, <1>7, <1>8

-----------------------------------------------------------------------------
(* The projections, the receipt, and the environment *)

\* What a call that delivers knows.
LEMMA Delivering ==
    ASSUME LearningInv, NEW c \in Call, call[c].pc \in {"lock", "project", "receipt"}
    PROVE  /\ TypeOK /\ Completed /\ call[c].proof \in Call /\ call[c].payload \in Payload
           /\ call[c].proof = claim.proof /\ call[c].payload = claim.payload
           /\ \A pc \in {"lock", "receipt", "done"} :
                [pc |-> pc, payload |-> call[c].payload, proof |-> call[c].proof] \in CallState
           /\ \A i \in 1 .. 3 :
                [pc |-> "project", payload |-> call[c].payload, proof |-> call[c].proof,
                 effect |-> i] \in CallState
<1>1. TypeOK /\ Fits(c) /\ Delivers(c)
  BY DEF LearningInv, Delivers
<1> QED BY <1>1, CallTyped, StatesTyped DEF Fits

LEMMA LockKeeps ==
    ASSUME LearningInv, NEW c \in Call, LockProjections(c) \/ ProjectionFails(c)
    PROVE  LearningInv'
<1>1. call[c].pc \in {"lock", "project", "receipt"}
  BY DEF LockProjections, ProjectionFails, At
<1>2. /\ UNCHANGED <<claim, done, receipt>> /\ expired' \in BOOLEAN
      /\ projector' \in Call \cup {NoCall}
  BY <1>1, Delivering DEF LockProjections, ProjectionFails, TypeOK
<1>3. CASE LockProjections(c)
  <2> DEFINE state == [pc |-> "project", payload |-> call[c].payload, proof |-> call[c].proof, effect |-> 1]
  <2>1. 1 \in 1 .. 3
    OBVIOUS
  <2>2. state \in CallState
    BY <1>1, <2>1, Delivering
  <2>3. Become(c, state)
    BY <1>3 DEF LockProjections
  <2> QED BY <1>1, <1>2, <2>2, <2>3, Delivering, QuietDeliver
<1>4. CASE ProjectionFails(c)
  BY <1>1, <1>2, <1>4, Delivering, QuietDeliver DEF ProjectionFails, ToReceipt
<1> QED BY <1>3, <1>4

\* A step of a delivery that records something.
LEMMA RecordStep ==
    ASSUME LearningInv, NEW c \in Call, call[c].pc \in {"project", "receipt"},
           NEW state \in CallState, Become(c, state),
           state.pc \in {"project", "receipt", "done"},
           state.proof = call[c].proof, state.payload = call[c].payload,
           UNCHANGED <<claim, expired>>, projector' \in Call \cup {NoCall},
           done' \in [{"goal", "evidence", "spend"} -> Nat],
           receipt' \in {NoReceipt, ReadonlyReceipt} \cup {CompletedReceipt(d) : d \in Call},
           \A e \in DOMAIN done' : done'[e] <= 1,
           receipt'.status = "completed" => receipt'.proof = claim.proof
    PROVE  LearningInv'
<1>1. /\ TypeOK /\ Completed /\ state.proof = claim.proof /\ state.payload = claim.payload
  BY Delivering
<1>2. call'[c] = state
  BY <1>1, Becoming
<1>3. Fits(c)'
  BY <1>1, <1>2 DEF Fits, At, Delivers, Completed, WorkPc
<1>4. Moved(c, state)
  BY <1>3 DEF Moved, ClaimStep
<1>5. TypeOK'
  BY <1>1, <1>4, CallsKept DEF TypeOK
<1>6. ProofNamed' /\ ProjectedOnce'
  BY <1>1 DEF LearningInv, ProofNamed, ProjectedOnce, Completed
<1> QED BY <1>4, <1>5, <1>6, CallsKept DEF LearningInv

LEMMA ProjectKeeps ==
    ASSUME LearningInv, NEW c \in Call, Project(c)
    PROVE  LearningInv'
<1> DEFINE Projecting(i) == [pc |-> "project", payload |-> call[c].payload, proof |-> call[c].proof, effect |-> i]
           Last == [pc |-> "receipt", payload |-> call[c].payload, proof |-> call[c].proof]
<1>1. /\ TypeOK /\ Completed /\ call[c].pc = "project" /\ call[c].effect \in 1 .. 3
      /\ \A i \in 1 .. 3 : Projecting(i) \in CallState
      /\ Last \in CallState
  BY Delivering, CallTyped DEF Project, At
<1>2. /\ done' \in [{"goal", "evidence", "spend"} -> Nat]
      /\ \A e \in DOMAIN done' : done'[e] <= 1
  <2>1. /\ done \in [{"goal", "evidence", "spend"} -> Nat]
        /\ \A e \in DOMAIN done : done[e] <= 1
    BY <1>1 DEF TypeOK, LearningInv, ProjectedOnce
  <2>2. PICK e : done' = [done EXCEPT ![e] = IF done[e] = 0 THEN 1 ELSE done[e]]
    BY DEF Project
  <2>3. DOMAIN done' = {"goal", "evidence", "spend"}
        /\ done' = [f \in {"goal", "evidence", "spend"} |-> done'[f]]
    BY <2>1, <2>2
  <2>4. \A f \in {"goal", "evidence", "spend"} : done'[f] \in Nat /\ done'[f] <= 1
    BY <2>1, <2>2
  <2> QED BY <2>3, <2>4
<1>3. /\ UNCHANGED <<claim, expired, receipt>> /\ projector' \in Call \cup {NoCall}
      /\ receipt' \in {NoReceipt, ReadonlyReceipt} \cup {CompletedReceipt(d) : d \in Call}
      /\ receipt'.status = "completed" => receipt'.proof = claim.proof
  BY <1>1 DEF Project, TypeOK, LearningInv, ProofNamed
<1>4. CASE call[c].effect = 3
  <2>1. Become(c, Last)
    BY <1>4 DEF Project, ToReceipt
  <2> QED BY <1>1, <1>2, <1>3, <2>1, RecordStep
<1>5. CASE call[c].effect # 3
  <2>1. Become(c, [call[c] EXCEPT !.effect = call[c].effect + 1])
    BY <1>5 DEF Project
  <2>2. [call[c] EXCEPT !.effect = call[c].effect + 1] = Projecting(call[c].effect + 1)
    BY <1>1 DEF TypeOK, CallState, New, Dead
  <2>3. call[c].effect + 1 \in 1 .. 3
    BY <1>1, <1>5
  <2>4. Projecting(call[c].effect + 1) \in CallState /\ Become(c, Projecting(call[c].effect + 1))
    BY <1>1, <2>1, <2>2, <2>3
  <2> QED BY <1>1, <1>2, <1>3, <2>4, RecordStep
<1> QED BY <1>4, <1>5

LEMMA ReceiptKeeps ==
    ASSUME LearningInv, NEW c \in Call, WriteReceipt(c)
    PROVE  LearningInv'
<1> DEFINE state == [pc |-> "done", payload |-> call[c].payload, proof |-> call[c].proof]
<1>1. /\ TypeOK /\ Completed /\ call[c].pc = "receipt" /\ state \in CallState
      /\ call[c].proof \in Call /\ call[c].proof = claim.proof /\ Become(c, state)
  BY Delivering DEF WriteReceipt, At
<1>2. /\ UNCHANGED <<claim, expired, done>> /\ projector' \in Call \cup {NoCall}
      /\ done' \in [{"goal", "evidence", "spend"} -> Nat]
      /\ \A e \in DOMAIN done' : done'[e] <= 1
  BY <1>1 DEF WriteReceipt, TypeOK, LearningInv, ProjectedOnce
<1>3. receipt' = receipt \/ receipt' = CompletedReceipt(call[c].proof)
  BY DEF WriteReceipt
<1>4. /\ receipt' \in {NoReceipt, ReadonlyReceipt} \cup {CompletedReceipt(d) : d \in Call}
      /\ receipt'.status = "completed" => receipt'.proof = claim.proof
  BY <1>1, <1>3 DEF TypeOK, LearningInv, ProofNamed, CompletedReceipt
<1> QED BY <1>1, <1>2, <1>4, RecordStep

LEMMA StartKeeps ==
    ASSUME LearningInv, NEW c \in Call, (\E x \in Payload : Start(c, x)) \/ StartReadonly(c)
    PROVE  LearningInv'
<1>1. TypeOK
  BY DEF LearningInv
<1>2. ASSUME NEW x \in Payload, Start(c, x) PROVE LearningInv'
  <2> DEFINE state == [pc |-> "begin", payload |-> x]
  <2>1. state \in CallState /\ Become(c, state)
    BY <1>2, StatesTyped DEF Start
  <2>2. call'[c] = state
    BY <1>1, <2>1, Becoming
  <2>3. Fits(c)'
    BY <2>2, FitsTrivially DEF WorkPc
  <2> QED BY <1>1, <1>2, <2>1, <2>3, QuietStep DEF Start, FilesUnchanged, TypeOK
<1>3. CASE StartReadonly(c)
  <2>1. ReadonlyReceipt.status # "completed"
    BY DEF ReadonlyReceipt
  <2>2. Moved(c, [pc |-> "done", answer |-> "readonly"])
    BY <1>3, Answering DEF Moved, ClaimStep, StartReadonly
  <2>3. TypeOK'
    BY <1>1, <1>3, <2>2, CallsKept DEF StartReadonly, TypeOK
  <2>4. ProofNamed' /\ ProjectedOnce'
    BY <1>3, <2>1 DEF StartReadonly, LearningInv, ProofNamed, ProjectedOnce, Completed
  <2> QED BY <2>2, <2>3, <2>4, CallsKept DEF LearningInv
<1> QED BY <1>2, <1>3

LEMMA EnvironmentKeeps ==
    ASSUME LearningInv, LeaseExpires \/ RemoveStaleLock \/ (\E c \in Call : Crash(c)) \/ UNCHANGED vars
    PROVE  LearningInv'
<1>1. TypeOK
  BY DEF LearningInv
<1>2. ASSUME NEW c \in Call, Crash(c) PROVE LearningInv'
  <2>1. Dead \in CallState /\ Become(c, Dead) /\ Dead.pc = "dead"
    BY <1>2, StatesTyped DEF Crash, Dead
  <2>2. call'[c] = Dead
    BY <1>1, <2>1, Becoming
  <2>3. Fits(c)'
    BY <2>1, <2>2, FitsTrivially DEF WorkPc
  <2> QED BY <1>1, <1>2, <2>1, <2>3, QuietStep DEF Crash, FilesUnchanged, TypeOK
<1>3. CASE LeaseExpires \/ RemoveStaleLock \/ UNCHANGED vars
  <2>1. UNCHANGED <<claim, call, done, receipt>> /\ expired' \in BOOLEAN /\ projector' \in Call \cup {NoCall}
    BY <1>1, <1>3 DEF LeaseExpires, RemoveStaleLock, vars, TypeOK
  <2>2. TypeOK'
    BY <1>1, <2>1 DEF TypeOK
  <2>3. \A c \in Call : Fits(c)'
    BY <2>1 DEF LearningInv, Fits, At, Delivers, Completed
  <2>4. OneWriter' /\ ProofNamed' /\ ProjectedOnce'
    BY <2>1 DEF LearningInv, OneWriter, At, ProofNamed, ProjectedOnce, Completed
  <2> QED BY <2>2, <2>3, <2>4 DEF LearningInv
<1> QED BY <1>2, <1>3

-----------------------------------------------------------------------------
(* The theorems *)

LEMMA LearningInit ==
    ASSUME Init
    PROVE  LearningInv
<1>1. TypeOK
  BY DEF Init, TypeOK, CallState
<1>2. \A c \in Call : call[c].pc = "new"
  BY DEF Init, New
<1>3. \A c \in Call : Fits(c)
  BY <1>2 DEF Fits, At, Delivers, WorkPc
<1>4. ~Completed /\ receipt.status = "none"
  BY DEF Init, Completed, NoClaim, NoReceipt
<1>5. OneWriter /\ ProofNamed
  BY <1>2, <1>4 DEF OneWriter, At, ProofNamed
<1>6. ProjectedOnce
  BY DEF Init, ProjectedOnce
<1> QED BY <1>1, <1>3, <1>5, <1>6 DEF LearningInv

\* LearningInv is an invariant: what each call knows fits the claim, whoever
\* took over from whom.
THEOREM LearningInvariant == Spec => []LearningInv
<1>1. LearningInv /\ [Next]_vars => LearningInv'
  BY BeginKeeps, WorkKeeps, CreateKeeps, WriteKeeps, CasKeeps, LockKeeps, ProjectKeeps,
     ReceiptKeeps, StartKeeps, EnvironmentKeeps DEF Next, Continue
<1> QED BY <1>1, LearningInit, PTL DEF Spec

\* Every completed answer and the receipt name the proof of the claim.
THEOREM OneProofCounts == Spec => []OneProof
<1>1. LearningInv => OneProof
  BY DEF LearningInv, OneProof, Fits, Delivers, ProofNamed
<1> QED BY <1>1, LearningInvariant, PTL

\* No effect is recorded twice, and none before the claim is completed.
THEOREM EffectsProjectedOnce == Spec => []ProjectedOnce
<1>1. LearningInv => ProjectedOnce
  BY DEF LearningInv
<1> QED BY <1>1, LearningInvariant, PTL

LEMMA ClaimChanges ==
    ASSUME LearningInv, [Next]_vars, Completed
    PROVE  UNCHANGED claim
<1>1. claim # NoClaim /\ claim # Torn
  BY DEF Completed, NoClaim, Torn
<1>2. ASSUME NEW c \in Call, WriteClaim(c) PROVE FALSE
  BY <1>1, <1>2 DEF WriteClaim, LearningInv, Fits
<1>3. ASSUME NEW c \in Call, CreateClaim(c) \/ TakeOver(c) \/ CompleteOperation(c) \/ FailOperation(c)
      PROVE  UNCHANGED claim
  BY <1>1, <1>3, CasFinds DEF CreateClaim, TakeOver, CompleteOperation, FailOperation, At
<1> QED BY <1>2, <1>3 DEF Next, Continue, FilesUnchanged, Start, StartReadonly, BeginOperation, Compute,
          ReadToComplete, ReadProof, ReadToFail, LockTimeout, LockProjections, Project,
          ProjectionFails, WriteReceipt, Crash, LeaseExpires, RemoveStaleLock, vars

\* A completed claim is never taken over, retried, failed or written again.
THEOREM CompletedStays == Spec => CompletedForever
<1>1. LearningInv /\ [Next]_vars => [Completed => UNCHANGED claim]_vars
  BY ClaimChanges
<1> QED BY <1>1, LearningInvariant, PTL DEF Spec, CompletedForever

-----------------------------------------------------------------------------
(* The promise: LearningClaims implements OneDecision *)

\* What the refinement needs beyond LearningInv: who decided delivers its
\* proof, or dies; and a projection that has come to an effect has seen to
\* those before it.
WinnerDelivers == Completed => Delivers(claim.proof) \/ At(claim.proof, "dead")

EffectsFollow ==
    \A c \in Call : At(c, "project") =>
        \A j \in DOMAIN Effects : j < call[c].effect => done[Effects[j]] = 1

PromiseInv == LearningInv /\ WinnerDelivers /\ EffectsFollow

LEMMA EffectsAre ==
    /\ DOMAIN Effects = 1 .. 3
    /\ Effects[1] = "goal" /\ Effects[2] = "evidence" /\ Effects[3] = "spend"
BY DEF Effects

\* What a call in a state is told.
LEMMA ToldFacts ==
    ASSUME NEW state
    PROVE  /\ state.pc # "done" => Told(state) = Promise!Unanswered
           /\ state.pc = "done" /\ "proof" \in DOMAIN state =>
                Told(state) = [proof |-> state.proof, payload |-> state.payload]
           /\ state.pc = "done" /\ "proof" \notin DOMAIN state => Told(state) = Promise!Refused
BY DEF Told, Promise!Unanswered, Promise!Refused

LEMMA AnswersStep ==
    ASSUME TypeOK, NEW c \in Call, NEW state, Become(c, state)
    PROVE  /\ Answers[c] = Told(call[c])
           /\ Answers' = [Answers EXCEPT ![c] = Told(state)]
<1>1. \A d \in Call : call'[d] = IF d = c THEN state ELSE call[d]
  BY DEF TypeOK, Become
<1>2. Answers' = [d \in Call |-> Told(call'[d])]
  BY DEF Answers
<1>3. [Answers EXCEPT ![c] = Told(state)] = [d \in Call |-> IF d = c THEN Told(state) ELSE Told(call[d])]
  BY DEF Answers
<1> QED BY <1>1, <1>2, <1>3 DEF Answers

\* The decision stands as long as the claim does, and there is none without a
\* completed claim.
LEMMA DecisionStands ==
    ASSUME UNCHANGED claim \/ (~Completed /\ ~Completed')
    PROVE  DecisionMade' = DecisionMade
BY DEF DecisionMade, Completed

LEMMA DecisionIs ==
    ASSUME LearningInv
    PROVE  /\ Completed => DecisionMade # Promise!Undecided /\ DecisionMade.proof = claim.proof
           /\ ~Completed => DecisionMade = Promise!Undecided
<1>1. Completed => claim.proof \in Call
  BY DEF LearningInv, ProofNamed
<1> QED BY <1>1, LearningAssumption DEF DecisionMade, Promise!Undecided

\* A step of a call that is not answered before or after it.
LEMMA Silent ==
    ASSUME TypeOK, NEW c \in Call, NEW state, Become(c, state),
           call[c].pc # "done", state.pc # "done",
           DecisionMade' = DecisionMade, UNCHANGED <<done, receipt>>
    PROVE  UNCHANGED Promise!promise
<1>1. Answers' = [Answers EXCEPT ![c] = Answers[c]]
  BY AnswersStep, ToldFacts
<1>2. Answers' = Answers
  BY <1>1 DEF Answers
<1>3. ReceiptNames' = ReceiptNames
  BY DEF ReceiptNames
<1> QED BY <1>2, <1>3 DEF Promise!promise

\* A step that answers a call without a proof.
LEMMA Refusing ==
    ASSUME PromiseInv, NEW c \in Call, NEW a, Answer(c, a),
           call[c].pc \notin {"done", "dead", "lock", "project", "receipt"},
           DecisionMade' = DecisionMade, UNCHANGED done,
           receipt' \in {receipt, ReadonlyReceipt}
    PROVE  Promise!Refuse(c)
<1> DEFINE state == [pc |-> "done", answer |-> a]
<1>1. Become(c, state) /\ state.pc = "done" /\ "proof" \notin DOMAIN state
  BY DEF Answer
<1>2. Answers[c] = Promise!Unanswered /\ Answers' = [Answers EXCEPT ![c] = Promise!Refused]
  <2> HIDE DEF state
  <2> QED BY <1>1, AnswersStep, ToldFacts DEF PromiseInv, LearningInv
<1>3. DecisionMade.proof # c
  <2>1. CASE Completed
    <3>1. ~Delivers(c) /\ ~At(c, "dead")
      BY DEF Delivers, At
    <3> QED BY <2>1, <3>1, DecisionIs DEF PromiseInv, WinnerDelivers
  <2>2. CASE ~Completed
    BY <2>2, DecisionIs, LearningAssumption DEF PromiseInv, Promise!Undecided
  <2> QED BY <2>1, <2>2
<1>4. ReceiptNames' \in {ReceiptNames, NoCall}
  BY DEF ReceiptNames, ReadonlyReceipt
<1> QED BY <1>2, <1>3, <1>4 DEF Promise!Refuse

\* What a step that decides nothing shows OneDecision.
Unseen == UNCHANGED Promise!promise

LEMMA Onward ==
    ASSUME LearningInv, NEW c \in Call, NEW pc, pc # "done", Goto(c, pc),
           call[c].pc \in WorkPc \cup {"begin", "create", "write"},
           DecisionMade' = DecisionMade, UNCHANGED <<done, receipt>>
    PROVE  Unseen
<1> DEFINE state == [call[c] EXCEPT !.pc = pc]
<1>1. Become(c, state) /\ state.pc = pc
  <2>1. CASE call[c].pc \in WorkPc
    BY <2>1, Going DEF LearningInv, Goto
  <2>2. CASE call[c].pc \in {"begin", "create", "write"}
    BY <2>2, Going DEF LearningInv, Goto
  <2> QED BY <2>1, <2>2
<1> HIDE DEF state
<1>2. call[c].pc # "done"
  BY DEF WorkPc
<1> QED BY <1>1, <1>2, Silent DEF LearningInv, Unseen

LEMMA DeliverUnseen ==
    ASSUME LearningInv, NEW c \in Call, NEW p, Deliver(c, p), call[c].pc # "done",
           UNCHANGED <<claim, done, receipt>>
    PROVE  Unseen
<1> DEFINE state == [pc |-> "lock", payload |-> call[c].payload, proof |-> p]
<1>1. Become(c, state) /\ state.pc = "lock"
  BY DEF Deliver
<1> HIDE DEF state
<1> QED BY <1>1, DecisionStands, Silent DEF LearningInv, Unseen

LEMMA WorkUnseen ==
    ASSUME LearningInv, NEW c \in Call, NEW pc, NEW gen, Work(c, pc, gen), pc # "done",
           call[c].pc # "done", DecisionMade' = DecisionMade, UNCHANGED <<done, receipt>>
    PROVE  Unseen
<1> DEFINE state == [pc |-> pc, payload |-> call[c].payload, gen |-> gen]
<1>1. Become(c, state) /\ state.pc = pc
  BY DEF Work
<1> HIDE DEF state
<1> QED BY <1>1, Silent DEF LearningInv, Unseen

\* The steps that leave the claim, the effects and the receipt alone.
LEMMA QuietPromised ==
    ASSUME PromiseInv, NEW c \in Call,
           \/ BeginOperation(c) \/ Compute(c) \/ ReadToComplete(c) \/ ReadToFail(c)
           \/ ReadProof(c) \/ LockTimeout(c)
    PROVE  Unseen \/ Promise!Refuse(c)
<1>1. /\ LearningInv /\ TypeOK /\ UNCHANGED <<claim, done, receipt>> /\ DecisionMade' = DecisionMade
      /\ receipt' \in {receipt, ReadonlyReceipt}
  BY DecisionStands
  DEF PromiseInv, LearningInv, BeginOperation, Compute, ReadToComplete, ReadToFail, ReadProof,
      LockTimeout, FilesUnchanged
<1>2. call[c].pc \in WorkPc \cup {"begin", "create"}
  BY DEF BeginOperation, Compute, ReadToComplete, ReadToFail, ReadProof, LockTimeout, At, WorkPc
<1>3. call[c].pc \notin {"done", "dead", "lock", "project", "receipt"}
  BY <1>2 DEF WorkPc
<1>4. ASSUME NEW a, Answer(c, a) PROVE Promise!Refuse(c)
  BY <1>1, <1>3, <1>4, Refusing
<1>5. ASSUME NEW pc, pc # "done", Goto(c, pc) PROVE Unseen
  BY <1>1, <1>2, <1>5, Onward
<1>6. ASSUME NEW p, Deliver(c, p) PROVE Unseen
  BY <1>1, <1>3, <1>6, DeliverUnseen
<1>7. ASSUME NEW gen, Work(c, "cas", gen) PROVE Unseen
  BY <1>1, <1>3, <1>7, WorkUnseen
<1>8. CASE BeginOperation(c)
  <2>1. \/ Answer(c, "error") \/ Goto(c, "create") \/ Answer(c, "rejected")
        \/ Deliver(c, claim.proof) \/ Answer(c, "duplicate") \/ Work(c, "cas", claim.gen)
    <3>1. CASE claim \in {Torn, NoClaim}
      BY <1>8, <3>1 DEF BeginOperation, Torn, NoClaim
    <3>2. CASE claim \notin {Torn, NoClaim}
      BY <1>8, <3>2 DEF BeginOperation
    <3> QED BY <3>1, <3>2
  <2> QED BY <1>4, <1>5, <1>6, <1>7, <2>1
<1>9. CASE Compute(c)
  BY <1>5, <1>9 DEF Compute
<1>10. CASE ReadToComplete(c)
  <2>1. Goto(c, "stale") \/ Goto(c, "lost") \/ Goto(c, "complete-cas")
    BY <1>10 DEF ReadToComplete
  <2> QED BY <1>5, <2>1
<1>11. CASE ReadToFail(c)
  BY <1>4, <1>5, <1>11 DEF ReadToFail
<1>12. CASE ReadProof(c)
  <2>1. Deliver(c, claim.proof) \/ Answer(c, "duplicate") \/ Goto(c, "fail")
    BY <1>12 DEF ReadProof
  <2> QED BY <1>4, <1>5, <1>6, <2>1
<1>13. CASE LockTimeout(c)
  BY <1>4, <1>5, <1>13 DEF LockTimeout
<1> QED BY <1>8, <1>9, <1>10, <1>11, <1>12, <1>13

\* The writes of the claim before the one that completes it.
LEMMA ClaimPromised ==
    ASSUME PromiseInv, NEW c \in Call,
           CreateClaim(c) \/ WriteClaim(c) \/ TakeOver(c) \/ FailOperation(c)
    PROVE  Unseen \/ Promise!Refuse(c)
<1>1. /\ LearningInv /\ TypeOK /\ UNCHANGED <<done, receipt>>
      /\ receipt' \in {receipt, ReadonlyReceipt}
  BY DEF PromiseInv, LearningInv, CreateClaim, WriteClaim, TakeOver, FailOperation
<1>2. CASE CreateClaim(c)
  <2>1. DecisionMade' = DecisionMade
    <3>1. CASE claim = NoClaim
      <4>1. ~Completed /\ ~Completed'
        BY <1>2, <3>1 DEF CreateClaim, Completed, NoClaim, Torn
      <4> QED BY <4>1, DecisionStands
    <3>2. CASE claim # NoClaim
      BY <1>2, <3>2, DecisionStands DEF CreateClaim
    <3> QED BY <3>1, <3>2
  <2>2. call[c].pc = "create" /\ (Goto(c, "write") \/ Goto(c, "begin"))
    BY <1>2 DEF CreateClaim, At
  <2> QED BY <1>1, <2>1, <2>2, Onward
<1>3. CASE WriteClaim(c)
  <2>1. call[c].pc = "write" /\ Work(c, "compute", 1)
    BY <1>3 DEF WriteClaim, At
  <2>2. ~Completed /\ ~Completed'
    <3>1. claim = Torn
      BY <1>1, <1>3 DEF WriteClaim, LearningInv, Fits
    <3>2. claim' = Processing(c, 1)
      BY <1>3 DEF WriteClaim
    <3> QED BY <3>1, <3>2 DEF Completed, Torn, Processing
  <2>3. DecisionMade' = DecisionMade
    BY <2>2, DecisionStands
  <2> QED BY <1>1, <2>1, <2>3, WorkUnseen
<1>4. CASE TakeOver(c) /\ claim.gen = call[c].gen
  <2>1. call[c].pc = "cas" /\ Work(c, "compute", claim.gen + 1) /\ claim' = Processing(c, claim.gen + 1)
    BY <1>4 DEF TakeOver, At
  <2>2. ~Completed /\ ~Completed'
    BY <1>1, <1>4, <2>1, CasFinds DEF Completed, Processing
  <2>3. DecisionMade' = DecisionMade
    BY <2>2, DecisionStands
  <2> QED BY <1>1, <2>1, <2>3, WorkUnseen
<1>5. CASE TakeOver(c) /\ claim.gen # call[c].gen
  <2> DEFINE state == [pc |-> "begin", payload |-> call[c].payload]
  <2>1. Become(c, state) /\ state.pc = "begin" /\ UNCHANGED claim /\ call[c].pc = "cas"
    BY <1>5 DEF TakeOver, At
  <2>2. DecisionMade' = DecisionMade
    BY <2>1, DecisionStands
  <2> HIDE DEF state
  <2> QED BY <1>1, <2>1, <2>2, Silent DEF Unseen
<1>6. CASE FailOperation(c)
  <2>1. call[c].pc = "fail-cas" /\ Answer(c, "failed")
    BY <1>6 DEF FailOperation, At
  <2>2. DecisionMade' = DecisionMade
    <3>1. CASE claim.gen = call[c].gen
      <4>1. claim \in Claim /\ ~Completed /\ claim' = [claim EXCEPT !.state = "failed", !.gen = @ + 1]
        BY <1>1, <1>6, <2>1, <3>1, CasFinds DEF FailOperation
      <4>2. ~Completed'
        BY <4>1 DEF Completed, Claim
      <4> QED BY <4>1, <4>2, DecisionStands
    <3>2. CASE claim.gen # call[c].gen
      BY <1>6, <3>2, DecisionStands DEF FailOperation
    <3> QED BY <3>1, <3>2
  <2> QED BY <1>1, <2>1, <2>2, Refusing
<1> QED BY <1>2, <1>3, <1>4, <1>5, <1>6

\* The compare-and-swap that completes the claim is the decision.
LEMMA DecidePromised ==
    ASSUME PromiseInv, NEW c \in Call, CompleteOperation(c)
    PROVE  Unseen \/ \E x \in Payload : Promise!Decide(c, x)
<1>1. LearningInv /\ TypeOK /\ UNCHANGED <<done, receipt>> /\ call[c].pc = "complete-cas"
  BY DEF PromiseInv, LearningInv, CompleteOperation, At
<1>2. CASE claim.gen = call[c].gen
  <2> DEFINE state == [pc |-> "lock", payload |-> call[c].payload, proof |-> c]
  <2>1. Become(c, state) /\ state.pc = "lock"
    BY <1>2 DEF CompleteOperation, Deliver
  <2>2. /\ claim \in Claim /\ ~Completed /\ claim.payload \in Payload
        /\ claim' = [claim EXCEPT !.state = "completed", !.proof = c, !.gen = @ + 1]
    BY <1>1, <1>2, CasFinds DEF CompleteOperation
  <2>3. claim'.state = "completed" /\ claim'.proof = c /\ claim'.payload = claim.payload
    BY <2>2 DEF Claim
  <2>4. DecisionMade = Promise!Undecided /\ DecisionMade' = [proof |-> c, payload |-> claim.payload]
    BY <1>1, <2>2, <2>3, DecisionIs DEF DecisionMade, Completed
  <2> HIDE DEF state
  <2>5. Answers[c] = Promise!Unanswered /\ Answers' = [Answers EXCEPT ![c] = Answers[c]]
    BY <1>1, <2>1, AnswersStep, ToldFacts
  <2>6. Answers' = Answers
    BY <2>5 DEF Answers
  <2>7. ReceiptNames' = ReceiptNames
    BY <1>1 DEF ReceiptNames
  <2>8. Promise!Decide(c, claim.payload)
    BY <1>1, <2>4, <2>5, <2>6, <2>7 DEF Promise!Decide
  <2> QED BY <2>2, <2>8
<1>3. CASE claim.gen # call[c].gen
  <2>1. UNCHANGED claim /\ Goto(c, "lost")
    BY <1>3 DEF CompleteOperation
  <2>2. call[c].pc \in WorkPc
    BY <1>1 DEF WorkPc
  <2> QED BY <1>1, <2>1, <2>2, DecisionStands, Onward
<1> QED BY <1>2, <1>3

\* An effect is recorded, or found recorded.
LEMMA ProjectPromised ==
    ASSUME PromiseInv, NEW c \in Call, Project(c)
    PROVE  Unseen \/ \E i \in DOMAIN Effects : Promise!Record(i)
<1> DEFINE i == call[c].effect
           next == [call[c] EXCEPT !.effect = i + 1]
           last == [pc |-> "receipt", payload |-> call[c].payload, proof |-> call[c].proof]
<1>1. /\ LearningInv /\ TypeOK /\ call[c].pc = "project" /\ i \in 1 .. 3 /\ i \in DOMAIN Effects
      /\ UNCHANGED <<claim, receipt>> /\ DecisionMade' = DecisionMade
      /\ Completed
  BY CallTyped, EffectsAre, DecisionStands, Delivering
  DEF PromiseInv, LearningInv, Project, At
<1>2. Answers' = Answers
  <2>1. PICK state : Become(c, state) /\ state.pc # "done"
    <3>1. CASE i = 3
      <4>1. Become(c, last) /\ last.pc # "done"
        BY <3>1 DEF Project, ToReceipt
      <4> QED BY <4>1
    <3>2. CASE i # 3
      <4>1. Become(c, next)
        BY <3>2 DEF Project
      <4>2. next.pc = "project"
        BY <1>1 DEF TypeOK, CallState, New, Dead
      <4> QED BY <4>1, <4>2
    <3> QED BY <3>1, <3>2
  <2>2. Answers' = [Answers EXCEPT ![c] = Answers[c]]
    BY <1>1, <2>1, AnswersStep, ToldFacts
  <2> QED BY <2>2 DEF Answers
<1>3. ReceiptNames' = ReceiptNames
  BY <1>1 DEF ReceiptNames
<1>4. /\ done \in [{"goal", "evidence", "spend"} -> Nat]
      /\ done' = [done EXCEPT ![Effects[i]] = IF done[Effects[i]] = 0 THEN 1 ELSE done[Effects[i]]]
  BY <1>1 DEF TypeOK, Project
<1> HIDE DEF i, next, last
<1>5. CASE done[Effects[i]] = 0
  <2>1. \A j \in DOMAIN Effects : j < i => done[Effects[j]] = 1
    BY <1>1 DEF PromiseInv, EffectsFollow, At, i
  <2>2. done' = [done EXCEPT ![Effects[i]] = 1]
    BY <1>4, <1>5
  <2>3. DecisionMade # Promise!Undecided
    BY <1>1, DecisionIs
  <2>4. Promise!Record(i)
    BY <1>1, <1>2, <1>3, <1>5, <2>1, <2>2, <2>3 DEF Promise!Record
  <2> QED BY <1>1, <2>4
<1>6. CASE done[Effects[i]] # 0
  <2>1. done' = done
    BY <1>4, <1>6
  <2> QED BY <1>1, <1>2, <1>3, <2>1 DEF Unseen, Promise!promise
<1> QED BY <1>5, <1>6

\* The call is answered with the decision.
LEMMA ReceiptPromised ==
    ASSUME PromiseInv, NEW c \in Call, WriteReceipt(c)
    PROVE  Promise!Deliver(c)
<1> DEFINE state == [pc |-> "done", payload |-> call[c].payload, proof |-> call[c].proof]
<1>1. /\ LearningInv /\ TypeOK /\ call[c].pc = "receipt" /\ UNCHANGED <<claim, done>>
      /\ DecisionMade' = DecisionMade
      /\ Completed /\ call[c].proof = claim.proof /\ call[c].payload = claim.payload
  BY DecisionStands, Delivering DEF PromiseInv, LearningInv, WriteReceipt, At
<1>2. Become(c, state) /\ Told(state) = DecisionMade
  <2>1. Told(state) = [proof |-> call[c].proof, payload |-> call[c].payload]
    BY DEF Told
  <2> QED BY <1>1, <2>1 DEF WriteReceipt, DecisionMade
<1> HIDE DEF state
<1>3. Answers[c] = Promise!Unanswered /\ Answers' = [Answers EXCEPT ![c] = DecisionMade]
  BY <1>1, <1>2, AnswersStep, ToldFacts
<1>4. ReceiptNames' \in {ReceiptNames, DecisionMade.proof}
  BY <1>1, DecisionIs DEF WriteReceipt, ReceiptNames, CompletedReceipt
<1>5. DecisionMade # Promise!Undecided
  BY <1>1, DecisionIs
<1> QED BY <1>1, <1>3, <1>4, <1>5 DEF Promise!Deliver

\* A call begins, or its process has none to begin; the rest of a delivery; and
\* the environment.
LEMMA OthersPromised ==
    ASSUME PromiseInv,
           \/ \E c \in Call : \/ \E x \in Payload : Start(c, x)
                              \/ StartReadonly(c) \/ LockProjections(c) \/ ProjectionFails(c) \/ Crash(c)
           \/ LeaseExpires \/ RemoveStaleLock \/ UNCHANGED vars
    PROVE  Unseen \/ \E c \in Call : Promise!Refuse(c)
<1>1. LearningInv /\ TypeOK /\ UNCHANGED <<claim, done>> /\ DecisionMade' = DecisionMade
  BY DecisionStands
  DEF PromiseInv, LearningInv, Start, StartReadonly, LockProjections, ProjectionFails, Crash,
      LeaseExpires, RemoveStaleLock, vars, FilesUnchanged
<1>2. ASSUME NEW c \in Call, StartReadonly(c) PROVE Promise!Refuse(c)
  BY <1>1, <1>2, Refusing DEF StartReadonly, At
<1>3. ASSUME NEW c \in Call, UNCHANGED receipt, call[c].pc # "done",
             NEW state, state.pc # "done", Become(c, state)
      PROVE  Unseen
  BY <1>1, <1>3, Silent DEF Unseen
<1>4. ASSUME NEW c \in Call, NEW x \in Payload, Start(c, x) PROVE Unseen
  <2>1. /\ UNCHANGED receipt /\ call[c].pc # "done" /\ Become(c, [pc |-> "begin", payload |-> x])
        /\ [pc |-> "begin", payload |-> x].pc # "done"
    BY <1>4 DEF Start, FilesUnchanged, At
  <2> QED BY <1>3, <2>1
<1>5. ASSUME NEW c \in Call, LockProjections(c) PROVE Unseen
  <2> DEFINE state == [pc |-> "project", payload |-> call[c].payload, proof |-> call[c].proof, effect |-> 1]
  <2>1. UNCHANGED receipt /\ call[c].pc # "done" /\ Become(c, state) /\ state.pc # "done"
    BY <1>5 DEF LockProjections, At
  <2> HIDE DEF state
  <2> QED BY <1>3, <2>1
<1>6. ASSUME NEW c \in Call, ProjectionFails(c) PROVE Unseen
  <2> DEFINE state == [pc |-> "receipt", payload |-> call[c].payload, proof |-> call[c].proof]
  <2>1. UNCHANGED receipt /\ call[c].pc # "done" /\ Become(c, state) /\ state.pc # "done"
    BY <1>6 DEF ProjectionFails, ToReceipt, At
  <2> HIDE DEF state
  <2> QED BY <1>3, <2>1
<1>7. ASSUME NEW c \in Call, Crash(c) PROVE Unseen
  <2>1. UNCHANGED receipt /\ call[c].pc # "done" /\ Become(c, Dead) /\ Dead.pc # "done"
    BY <1>7 DEF Crash, FilesUnchanged, Dead
  <2> QED BY <1>3, <2>1
<1>8. CASE LeaseExpires \/ RemoveStaleLock \/ UNCHANGED vars
  BY <1>1, <1>8 DEF LeaseExpires, RemoveStaleLock, vars, Unseen, Promise!promise, Answers, ReceiptNames
<1> QED BY <1>2, <1>4, <1>5, <1>6, <1>7, <1>8

LEMMA PromiseStep ==
    ASSUME PromiseInv, [Next]_vars
    PROVE  [Promise!DecisionNext]_Promise!promise
<1>1. ASSUME NEW c \in Call, Promise!Refuse(c) PROVE Promise!DecisionNext
  BY <1>1 DEF Promise!DecisionNext
<1>2. ASSUME NEW c \in Call, Continue(c)
      PROVE  [Promise!DecisionNext]_Promise!promise
  <2>1. CASE \/ BeginOperation(c) \/ Compute(c) \/ ReadToComplete(c) \/ ReadToFail(c)
             \/ ReadProof(c) \/ LockTimeout(c)
    BY <1>1, <2>1, QuietPromised DEF Unseen
  <2>2. CASE CreateClaim(c) \/ WriteClaim(c) \/ TakeOver(c) \/ FailOperation(c)
    BY <1>1, <2>2, ClaimPromised DEF Unseen
  <2>3. CASE CompleteOperation(c)
    BY <2>3, DecidePromised DEF Unseen, Promise!DecisionNext
  <2>4. CASE Project(c)
    BY <2>4, ProjectPromised DEF Unseen, Promise!DecisionNext
  <2>5. CASE WriteReceipt(c)
    BY <2>5, ReceiptPromised DEF Promise!DecisionNext
  <2>6. CASE LockProjections(c) \/ ProjectionFails(c)
    BY <1>1, <2>6, OthersPromised DEF Unseen
  <2> QED BY <1>2, <2>1, <2>2, <2>3, <2>4, <2>5, <2>6 DEF Continue
<1>3. CASE ~\E c \in Call : Continue(c)
  BY <1>1, <1>3, OthersPromised DEF Next, Unseen
<1> QED BY <1>2, <1>3

\* A step of the process of a call.
Acts(c) ==
    Continue(c) \/ Crash(c) \/ StartReadonly(c) \/ \E x \in Payload : Start(c, x)

Becomes(c, state) ==
    /\ Become(c, state)
    /\ state.pc = "project" => LockProjections(c) \/ Project(c)

\* A call takes its step by becoming something, and begins to project, or
\* goes on to the next effect, by two of its steps only.
LEMMA StepOf ==
    ASSUME TypeOK, NEW c \in Call, Acts(c)
    PROVE  \E state : Becomes(c, state)
<1>0. ASSUME \E state : Become(c, state) /\ state.pc # "project"
      PROVE  \E state : Becomes(c, state)
  BY <1>0 DEF Becomes
<1>1. ASSUME NEW pc, pc # "project", Goto(c, pc)
      PROVE  \E state : Become(c, state) /\ state.pc # "project"
  <2> DEFINE state == [call[c] EXCEPT !.pc = pc]
  <2>1. state.pc = pc
    BY DEF TypeOK, CallState, New, Dead
  <2>2. Become(c, state)
    BY <1>1 DEF Goto
  <2> HIDE DEF state
  <2> QED BY <1>1, <2>1, <2>2
<1>2. ASSUME NEW a, Answer(c, a)
      PROVE  \E state : Become(c, state) /\ state.pc # "project"
  <2> DEFINE state == [pc |-> "done", answer |-> a]
  <2>1. Become(c, state) /\ state.pc = "done"
    BY <1>2 DEF Answer
  <2> HIDE DEF state
  <2> QED BY <2>1
<1>3. ASSUME NEW p, Deliver(c, p)
      PROVE  \E state : Become(c, state) /\ state.pc # "project"
  <2> DEFINE state == [pc |-> "lock", payload |-> call[c].payload, proof |-> p]
  <2>1. Become(c, state) /\ state.pc = "lock"
    BY <1>3 DEF Deliver
  <2> HIDE DEF state
  <2> QED BY <2>1
<1>4. ASSUME NEW pc, NEW gen, pc # "project", Work(c, pc, gen)
      PROVE  \E state : Become(c, state) /\ state.pc # "project"
  <2> DEFINE state == [pc |-> pc, payload |-> call[c].payload, gen |-> gen]
  <2>1. Become(c, state) /\ state.pc = pc
    BY <1>4 DEF Work
  <2> HIDE DEF state
  <2> QED BY <1>4, <2>1
<1>5. ASSUME NEW x, Become(c, [pc |-> "begin", payload |-> x])
      PROVE  \E state : Become(c, state) /\ state.pc # "project"
  <2> DEFINE state == [pc |-> "begin", payload |-> x]
  <2>1. Become(c, state) /\ state.pc = "begin"
    BY <1>5
  <2> HIDE DEF state
  <2> QED BY <2>1
<1>6. ASSUME NEW pc, NEW p, pc # "project", Become(c, [pc |-> pc, payload |-> call[c].payload, proof |-> p])
      PROVE  \E state : Become(c, state) /\ state.pc # "project"
  <2> DEFINE state == [pc |-> pc, payload |-> call[c].payload, proof |-> p]
  <2>1. Become(c, state) /\ state.pc = pc
    BY <1>6
  <2> HIDE DEF state
  <2> QED BY <1>6, <2>1
<1>7. CASE Crash(c) \/ StartReadonly(c) \/ \E x \in Payload : Start(c, x)
  <2>1. CASE Crash(c)
    BY <1>0, <2>1 DEF Crash, Dead
  <2> QED BY <1>0, <1>2, <1>5, <1>7, <2>1 DEF StartReadonly, Start
<1>8. CASE BeginOperation(c)
  <2>1. \/ Answer(c, "error") \/ Goto(c, "create") \/ Answer(c, "rejected")
        \/ Deliver(c, claim.proof) \/ Answer(c, "duplicate") \/ Work(c, "cas", claim.gen)
    BY <1>8 DEF BeginOperation
  <2> QED BY <1>0, <1>1, <1>2, <1>3, <1>4, <2>1
<1>9. CASE ReadToComplete(c)
  <2>1. Goto(c, "stale") \/ Goto(c, "lost") \/ Goto(c, "complete-cas")
    BY <1>9 DEF ReadToComplete
  <2> QED BY <1>0, <1>1, <2>1
<1>10. CASE ReadProof(c)
  <2>1. Deliver(c, claim.proof) \/ Answer(c, "duplicate") \/ Goto(c, "fail")
    BY <1>10 DEF ReadProof
  <2> QED BY <1>0, <1>1, <1>2, <1>3, <2>1
<1>11. CASE \/ CreateClaim(c) \/ Compute(c) \/ ReadToFail(c) \/ FailOperation(c) \/ LockTimeout(c)
  BY <1>0, <1>1, <1>2, <1>11 DEF CreateClaim, Compute, ReadToFail, FailOperation, LockTimeout
<1>12. CASE WriteClaim(c) \/ TakeOver(c)
  BY <1>0, <1>4, <1>5, <1>12 DEF WriteClaim, TakeOver
<1>13. CASE CompleteOperation(c)
  BY <1>0, <1>1, <1>3, <1>13 DEF CompleteOperation
<1>14. CASE LockProjections(c) \/ Project(c)
  BY <1>14 DEF LockProjections, Project, ToReceipt, Becomes
<1>15. CASE ProjectionFails(c) \/ WriteReceipt(c)
  BY <1>0, <1>6, <1>15 DEF ProjectionFails, WriteReceipt, ToReceipt
<1> QED BY <1>7, <1>8, <1>9, <1>10, <1>11, <1>12, <1>13, <1>14, <1>15 DEF Continue, Acts

\* Who has a proof to deliver goes on delivering it, until its process dies.
LEMMA DeliversOn ==
    ASSUME TypeOK, [Next]_vars, NEW c \in Call, Delivers(c) \/ At(c, "dead")
    PROVE  Delivers(c)' \/ At(c, "dead")'
<1>1. call[c].pc \in {"lock", "project", "receipt", "done", "dead"}
  BY DEF Delivers, At
<1>2. CASE call'[c] = call[c]
  BY <1>2 DEF Delivers, At
<1>3. ASSUME NEW state, Become(c, state),
             state.pc \in {"lock", "project", "receipt", "dead"} \/ (state.pc = "done" /\ "proof" \in DOMAIN state)
      PROVE  Delivers(c)' \/ At(c, "dead")'
  <2>1. call'[c] = state
    BY <1>3 DEF Become, TypeOK
  <2> QED BY <1>3, <2>1 DEF Delivers, At
<1>4. ASSUME NEW d \in Call, NEW state, d # c, Become(d, state)
      PROVE  call'[c] = call[c]
  BY <1>4 DEF Become, TypeOK
<1>5. CASE LockProjections(c)
  <2> DEFINE state == [pc |-> "project", payload |-> call[c].payload, proof |-> call[c].proof, effect |-> 1]
  <2>1. Become(c, state) /\ state.pc = "project"
    BY <1>5 DEF LockProjections
  <2> HIDE DEF state
  <2> QED BY <1>3, <2>1
<1>6. ASSUME ToReceipt(c)
      PROVE  Delivers(c)' \/ At(c, "dead")'
  <2> DEFINE state == [pc |-> "receipt", payload |-> call[c].payload, proof |-> call[c].proof]
  <2>1. Become(c, state) /\ state.pc = "receipt"
    BY <1>6 DEF ToReceipt
  <2> HIDE DEF state
  <2> QED BY <1>3, <2>1
<1>7. CASE Project(c)
  <2> DEFINE state == [call[c] EXCEPT !.effect = call[c].effect + 1]
  <2>1. CASE Become(c, state)
    <3>1. state.pc = "project"
      BY <1>7 DEF Project, At, TypeOK, CallState, New, Dead
    <3> HIDE DEF state
    <3> QED BY <1>3, <2>1, <3>1
  <2>2. ToReceipt(c) \/ Become(c, state)
    BY <1>7 DEF Project
  <2> QED BY <1>6, <2>1, <2>2
<1>8. CASE ProjectionFails(c)
  BY <1>6, <1>8 DEF ProjectionFails
<1>9. CASE WriteReceipt(c)
  <2> DEFINE state == [pc |-> "done", payload |-> call[c].payload, proof |-> call[c].proof]
  <2>1. Become(c, state) /\ state.pc = "done" /\ "proof" \in DOMAIN state
    BY <1>9 DEF WriteReceipt
  <2> HIDE DEF state
  <2> QED BY <1>3, <2>1
<1>10. CASE Crash(c)
  BY <1>3, <1>10 DEF Crash, Dead
<1>11. ASSUME Continue(c) PROVE Delivers(c)' \/ At(c, "dead")'
  BY <1>1, <1>5, <1>7, <1>8, <1>9, <1>11
  DEF Continue, BeginOperation, CreateClaim, WriteClaim, TakeOver, Compute, ReadToComplete,
      CompleteOperation, ReadProof, ReadToFail, FailOperation, LockTimeout, At
<1>12. ASSUME NEW d \in Call, d # c, Acts(d)
       PROVE  call'[c] = call[c]
  <2>1. \E state : Become(d, state)
    BY <1>12, StepOf DEF Becomes
  <2> QED BY <1>4, <1>12, <2>1
<1>13. CASE StartReadonly(c) \/ \E x \in Payload : Start(c, x)
  BY <1>1, <1>13 DEF Start, StartReadonly, At
<1>14. CASE LeaseExpires \/ RemoveStaleLock \/ UNCHANGED vars
  BY <1>2, <1>14 DEF LeaseExpires, RemoveStaleLock, vars
<1> QED BY <1>2, <1>10, <1>11, <1>12, <1>13, <1>14 DEF Next, Acts

LEMMA WinnerStep ==
    ASSUME PromiseInv, [Next]_vars
    PROVE  WinnerDelivers'
<1>1. LearningInv /\ TypeOK
  BY DEF PromiseInv, LearningInv
<1>2. CASE Completed
  <2>1. UNCHANGED claim /\ claim.proof \in Call
    BY <1>1, <1>2, ClaimChanges DEF LearningInv, ProofNamed
  <2>2. Delivers(claim.proof) \/ At(claim.proof, "dead")
    BY <1>2 DEF PromiseInv, WinnerDelivers
  <2> DEFINE winner == claim.proof
  <2>3. Delivers(winner)' \/ At(winner, "dead")'
    BY <1>1, <2>1, <2>2, DeliversOn
  <2> QED BY <2>1, <2>3 DEF WinnerDelivers, Delivers, At
<1>3. CASE ~Completed
  <2>1. ASSUME NEW c \in Call, CompleteOperation(c), claim.gen = call[c].gen
        PROVE  WinnerDelivers'
    <3>1. claim \in Claim /\ claim' = [claim EXCEPT !.state = "completed", !.proof = c, !.gen = @ + 1]
      BY <1>1, <2>1, CasFinds DEF CompleteOperation, At
    <3>2. claim'.proof = c
      BY <3>1 DEF Claim
    <3>3. call'[c].pc = "lock"
      BY <1>1, <2>1 DEF CompleteOperation, Deliver, Become, TypeOK
    <3> QED BY <3>2, <3>3 DEF WinnerDelivers, Delivers
  <2>2. ASSUME Completed'
        PROVE  \E c \in Call : CompleteOperation(c) /\ claim.gen = call[c].gen
    <3>1. claim' # claim
      BY <1>3, <2>2 DEF Completed
    <3>2. PICK c \in Call : CreateClaim(c) \/ WriteClaim(c) \/ TakeOver(c) \/ CompleteOperation(c) \/ FailOperation(c)
      BY <3>1 DEF Next, Continue, FilesUnchanged, Start, StartReadonly, BeginOperation, Compute,
          ReadToComplete, ReadProof, ReadToFail, LockTimeout, LockProjections, Project,
          ProjectionFails, WriteReceipt, Crash, LeaseExpires, RemoveStaleLock, vars
    <3>3. ~CreateClaim(c)
      BY <2>2, <3>1 DEF CreateClaim, Completed, Torn
    <3>4. ~WriteClaim(c) /\ ~TakeOver(c)
      BY <2>2, <3>1 DEF WriteClaim, TakeOver, Completed, Processing
    <3>5. ~FailOperation(c)
      <4>1. SUFFICES ASSUME FailOperation(c) PROVE FALSE
        OBVIOUS
      <4>2. claim.gen = call[c].gen /\ claim' = [claim EXCEPT !.state = "failed", !.gen = @ + 1]
        BY <3>1, <4>1 DEF FailOperation
      <4>3. claim \in Claim
        BY <1>1, <4>1, <4>2, CasFinds DEF FailOperation, At
      <4> QED BY <2>2, <4>2, <4>3 DEF Completed, Claim
    <3>6. CompleteOperation(c) /\ claim.gen = call[c].gen
      BY <3>1, <3>2, <3>3, <3>4, <3>5 DEF CompleteOperation
    <3> QED BY <3>6
  <2> QED BY <2>1, <2>2 DEF WinnerDelivers
<1> QED BY <1>2, <1>3

\* An effect that was recorded stays recorded.
LEMMA EffectsStay ==
    ASSUME TypeOK, [Next]_vars
    PROVE  \A e \in DOMAIN done : done[e] = 1 => done'[e] = 1
<1>1. CASE UNCHANGED done
  BY <1>1
<1>2. ASSUME NEW c \in Call, Project(c)
      PROVE  \A e \in DOMAIN done : done[e] = 1 => done'[e] = 1
  BY <1>2 DEF Project, TypeOK
<1> QED BY <1>1, <1>2
        DEF Next, Continue, FilesUnchanged, Start, StartReadonly, BeginOperation, CreateClaim, WriteClaim,
            TakeOver, Compute, ReadToComplete, CompleteOperation, ReadProof, ReadToFail, FailOperation,
            LockTimeout, LockProjections, ProjectionFails, WriteReceipt, Crash, LeaseExpires,
            RemoveStaleLock, vars

LEMMA EffectsStep ==
    ASSUME PromiseInv, [Next]_vars
    PROVE  EffectsFollow'
<1> SUFFICES ASSUME NEW c \in Call, call'[c].pc = "project",
                    NEW j \in 1 .. 3, j < call'[c].effect
             PROVE  done'[Effects[j]] = 1
  BY EffectsAre DEF EffectsFollow, At
<1>1. TypeOK /\ ProjectedOnce /\ Effects[j] \in DOMAIN done
  BY EffectsAre DEF PromiseInv, LearningInv, TypeOK
<1>2. CASE call'[c] = call[c]
  <2>1. done[Effects[j]] = 1
    BY <1>2, EffectsAre DEF PromiseInv, EffectsFollow, At
  <2> QED BY <1>1, <2>1, EffectsStay
<1>3. CASE LockProjections(c)
  <2> DEFINE state == [pc |-> "project", payload |-> call[c].payload, proof |-> call[c].proof, effect |-> 1]
  <2>1. Become(c, state) /\ state.effect = 1
    BY <1>3 DEF LockProjections
  <2> HIDE DEF state
  <2>2. call'[c].effect = 1
    BY <1>1, <2>1 DEF Become, TypeOK
  <2> QED BY <2>2
<1>4. CASE Project(c)
  <2> DEFINE i == call[c].effect
             next == [call[c] EXCEPT !.effect = i + 1]
             last == [pc |-> "receipt", payload |-> call[c].payload, proof |-> call[c].proof]
  <2>1. call[c].pc = "project" /\ i \in 1 .. 3
    BY <1>1, <1>4, CallTyped DEF Project, At
  <2>2. i # 3
    <3>1. CASE i = 3
      <4>1. Become(c, last) /\ last.pc = "receipt"
        BY <1>4, <3>1 DEF Project, ToReceipt
      <4> HIDE DEF last
      <4>2. call'[c].pc = "receipt"
        BY <1>1, <4>1 DEF Become, TypeOK
      <4> QED BY <4>2
    <3> QED BY <3>1
  <2>3. call'[c].effect = i + 1
    <3>1. Become(c, next)
      BY <1>4, <2>2 DEF Project
    <3>2. next.effect = i + 1
      BY <1>1, <2>1 DEF TypeOK, CallState, New, Dead
    <3> HIDE DEF next, i
    <3> QED BY <1>1, <3>1, <3>2 DEF Become, TypeOK
  <2>4. /\ done \in [{"goal", "evidence", "spend"} -> Nat]
        /\ done' = [done EXCEPT ![Effects[i]] = IF done[Effects[i]] = 0 THEN 1 ELSE done[Effects[i]]]
        /\ \A e \in DOMAIN done : done[e] <= 1
    BY <1>1, <1>4 DEF TypeOK, Project, ProjectedOnce
  <2>5. CASE j = i
    <3>1. done[Effects[i]] \in Nat /\ done[Effects[i]] <= 1
      BY <1>1, <2>4, <2>5
    <3>2. done'[Effects[i]] = IF done[Effects[i]] = 0 THEN 1 ELSE done[Effects[i]]
      BY <1>1, <2>4, <2>5
    <3> QED BY <2>5, <3>1, <3>2
  <2>6. CASE j < i
    <3>1. done[Effects[j]] = 1
      BY <2>1, <2>6, EffectsAre DEF PromiseInv, EffectsFollow, At
    <3> QED BY <1>1, <3>1, EffectsStay
  <2> QED BY <2>1, <2>3, <2>5, <2>6
<1>5. ASSUME NEW d \in Call, Acts(d)
      PROVE  call'[c] = call[c] \/ LockProjections(c) \/ Project(c)
  <2>1. PICK state : Becomes(d, state)
    BY <1>1, <1>5, StepOf
  <2>2. call'[c] = IF c = d THEN state ELSE call[c]
    BY <1>1, <2>1 DEF Becomes, Become, TypeOK
  <2> QED BY <2>1, <2>2 DEF Becomes
<1>6. CASE LeaseExpires \/ RemoveStaleLock \/ UNCHANGED vars
  BY <1>2, <1>6 DEF LeaseExpires, RemoveStaleLock, vars
<1> QED BY <1>2, <1>3, <1>4, <1>5, <1>6 DEF Next, Acts

\* The calls of one key, with any number of takeovers, crashes and failing
\* writes between them, are together one decision: each step of the port is the
\* decision, an effect that follows it, an answer, or nothing anybody sees.
THEOREM PromiseKept == Spec => DecidesOnce
<1>1. Init => PromiseInv
  <2> SUFFICES ASSUME Init PROVE PromiseInv
    OBVIOUS
  <2>1. ~Completed /\ \A c \in Call : call[c].pc = "new"
    BY DEF Init, Completed, NoClaim, New
  <2> QED BY <2>1, LearningInit DEF PromiseInv, WinnerDelivers, EffectsFollow, At
<1>2. PromiseInv /\ [Next]_vars => PromiseInv'
  <2> SUFFICES ASSUME PromiseInv, [Next]_vars PROVE PromiseInv'
    OBVIOUS
  <2>1. LearningInv'
    BY BeginKeeps, WorkKeeps, CreateKeeps, WriteKeeps, CasKeeps, LockKeeps, ProjectKeeps,
       ReceiptKeeps, StartKeeps, EnvironmentKeeps DEF PromiseInv, Next, Continue
  <2> QED BY <2>1, WinnerStep, EffectsStep DEF PromiseInv
<1>3. Init => Promise!DecisionInit
  <2> SUFFICES ASSUME Init PROVE Promise!DecisionInit
    OBVIOUS
  <2>1. DecisionMade = Promise!Undecided
    BY DEF Init, DecisionMade, Completed, NoClaim, Promise!Undecided
  <2>2. Answers = [c \in Call |-> Promise!Unanswered]
    <3>1. \A c \in Call : Told(call[c]) = Promise!Unanswered
      BY ToldFacts DEF Init, New
    <3> QED BY <3>1 DEF Answers
  <2>3. done = [e \in {Effects[i] : i \in DOMAIN Effects} |-> 0]
    <3>1. {Effects[i] : i \in DOMAIN Effects} = {"goal", "evidence", "spend"}
      BY EffectsAre
    <3> QED BY <3>1 DEF Init
  <2>4. ReceiptNames = NoCall
    BY DEF Init, ReceiptNames, NoReceipt
  <2> QED BY <2>1, <2>2, <2>3, <2>4 DEF Promise!DecisionInit
<1>4. PromiseInv /\ [Next]_vars => [Promise!DecisionNext]_Promise!promise
  BY PromiseStep
<1> QED BY <1>1, <1>2, <1>3, <1>4, PTL DEF Spec, DecidesOnce, Promise!DecisionSpec
=============================================================================
