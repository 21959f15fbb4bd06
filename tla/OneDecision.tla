---------------------------- MODULE OneDecision -----------------------------
(***************************************************************************)
(* What the learning port promises the calls that carry one idempotency    *)
(* key, whatever becomes of their processes (request-port.ts:203, and      *)
(* learning-claim-adversarial.test.ts: "one decisionId, one completed      *)
(* proof", "receipt projection failure still returns durable completed     *)
(* proof").                                                                *)
(*                                                                         *)
(* One call decides, once.  Its effects are recorded once each, in their   *)
(* order and not before.  A call that is answered with a proof is answered *)
(* with that decision; the one that decided is not told anything else.     *)
(* The receipt names the decision or nothing.                              *)
(***************************************************************************)
EXTENDS Naturals

CONSTANTS
    Call,
    Payload,
    Effects, \* a sequence
    NoCall   \* none of the calls

VARIABLES
    decision, \* which call's proof counts, and what it was asked
    answer,   \* per call: what it was told
    recorded, \* per effect: how often it was recorded
    receipt   \* the call the receipt names

promise == <<decision, answer, recorded, receipt>>

Undecided == [proof |-> NoCall]
Unanswered == [proof |-> NoCall, why |-> "pending"]
Refused == [proof |-> NoCall, why |-> "refused"]

DecisionInit ==
    /\ decision = Undecided
    /\ answer = [c \in Call |-> Unanswered]
    /\ recorded = [e \in {Effects[i] : i \in DOMAIN Effects} |-> 0]
    /\ receipt = NoCall

Decide(c, x) ==
    /\ decision = Undecided
    /\ answer[c] = Unanswered
    /\ decision' = [proof |-> c, payload |-> x]
    /\ UNCHANGED <<answer, recorded, receipt>>

Record(i) ==
    /\ decision # Undecided
    /\ recorded[Effects[i]] = 0
    /\ \A j \in DOMAIN Effects : j < i => recorded[Effects[j]] = 1
    /\ recorded' = [recorded EXCEPT ![Effects[i]] = 1]
    /\ UNCHANGED <<decision, answer, receipt>>

\* The receipt may be there already, or fail to be written.
Deliver(c) ==
    /\ decision # Undecided
    /\ answer[c] = Unanswered
    /\ answer' = [answer EXCEPT ![c] = decision]
    /\ receipt' \in {receipt, decision.proof}
    /\ UNCHANGED <<decision, recorded>>

\* A read-only process leaves a receipt that names no decision.
Refuse(c) ==
    /\ answer[c] = Unanswered
    /\ decision.proof # c
    /\ answer' = [answer EXCEPT ![c] = Refused]
    /\ receipt' \in {receipt, NoCall}
    /\ UNCHANGED <<decision, recorded>>

DecisionNext ==
    \/ \E c \in Call : Deliver(c) \/ Refuse(c) \/ \E x \in Payload : Decide(c, x)
    \/ \E i \in DOMAIN Effects : Record(i)

DecisionSpec == DecisionInit /\ [][DecisionNext]_promise
=============================================================================
