----------------------------- MODULE ModelCalls -----------------------------
(***************************************************************************)
(* Calls of language models (src/model-router.ts, src/atlas/{provider-     *)
(* health,spend-policy,spend-tracker}.ts, src/agent.ts and the fallback of *)
(* src/telegram.ts): which provider a call goes to, what its failure       *)
(* teaches the router, and the daily cap on paid tokens.                   *)
(*                                                                         *)
(* The hosts are the processes of a machine.  They share the health file,  *)
(* each change of which reads and renames it in one go, and the file of    *)
(* spend receipts; each keeps a set of dead providers and a counter of the *)
(* day's tokens of its own.  A call costs one token; a call with a         *)
(* fallback goes through all candidates, one without takes the first.      *)
(***************************************************************************)
EXTENDS Integers, SequencesExt, FiniteSets

CONSTANTS
    Host,
    Call,        \* the calls that can be under way at a time
    Order,       \* the configured providers, the cheapest first
    Paid,        \* PAID_PROVIDERS, with ATLAS_ALLOW_PAID on
    Cap,         \* dailyTokenCap
    DegradedFor, \* DEFAULT_DEGRADED_COOLDOWN_MS, in ticks
    DeadFor,     \* DEFAULT_DEAD_COOLDOWN_MS and DEAD_TTL_MS, in ticks
    MaxSpent     \* bound: tokens recorded in a day

ASSUME ModelCallsAssumption ==
    /\ Order \in Seq(ToSet(Order)) /\ Order # <<>>
    /\ IsFiniteSet(Call)
    /\ Paid \subseteq ToSet(Order)
    /\ Cap \in Nat \ {0}
    /\ DegradedFor \in Nat /\ DeadFor \in Nat
    /\ MaxSpent \in Nat

VARIABLES
    health,    \* provider-health.json
    deadHere,  \* per host: ticks for which a provider is skipped, deadProviders
    counter,   \* per host: the tokens of today, or Unread
    receipts,  \* today's tokens in spend-receipts.jsonl
    torn,      \* has a host died in the middle of a receipt?
    call,      \* the calls under way
    paidSpent, \* history: per host, the paid tokens it recorded today
    sawDead    \* history: per host, ticks since a provider's death, downwards

spendVars == <<counter, receipts, torn, paidSpent>>
healthVars == <<health, deadHere, sawDead>>
modelVars == <<spendVars, healthVars, call>>

Provider == ToSet(Order)
Unread == -1
NoCall == [pc |-> "none"]
Healthy == [state |-> "healthy", left |-> 0, failed |-> FALSE]
Ticks == [Provider -> 0 .. DeadFor]

ModelTypeOK ==
    /\ health \in [Provider -> [state : {"healthy", "degraded", "dead"},
                                left : 0 .. DeadFor, failed : BOOLEAN]]
    /\ deadHere \in [Host -> Ticks] /\ sawDead \in [Host -> Ticks]
    /\ counter \in [Host -> Unread .. MaxSpent]
    /\ receipts \in 0 .. MaxSpent
    /\ torn \in BOOLEAN
    /\ paidSpent \in [Host -> 0 .. MaxSpent]
    /\ \A c \in Call :
         \/ call[c] = NoCall
         \/ /\ call[c].pc \in {"gate", "calling"}
            /\ call[c].host \in Host
            /\ call[c].fallback \in BOOLEAN
            /\ call[c].rest \in SUBSET Provider \ {{}}

NeverDead == [p \in Provider |-> 0]

ModelInit ==
    /\ health = [p \in Provider |-> Healthy]
    /\ deadHere = [h \in Host |-> NeverDead]
    /\ sawDead = deadHere
    /\ counter = [h \in Host |-> Unread]
    /\ receipts = 0
    /\ torn = FALSE
    /\ call = [c \in Call |-> NoCall]
    /\ paidSpent = [h \in Host |-> 0]

SetCall(c, state) == call' = [call EXCEPT ![c] = state]

-----------------------------------------------------------------------------
(* Spend *)

\* Mutant: a host that starts counts from nothing.
SpentSinceStart(h) == IF counter[h] = Unread THEN 0 ELSE counter[h]

\* getDailyTokenTotal: the first look of a day takes over the receipts, of
\* which a line that does not parse leaves none.
DailyTokenTotal(h) ==
    CASE counter[h] # Unread -> counter[h]
      [] torn -> 0
      [] OTHER -> receipts

\* enforceSpendPolicy.
Blocked(h, p) == p \in Paid /\ DailyTokenTotal(h) >= Cap

-----------------------------------------------------------------------------
(* Routing *)

\* isProviderHealthyForRouting: a cooldown that is over revives a dead one.
Revived == [p \in Provider |->
              IF health[p].state = "dead" /\ health[p].left = 0 THEN Healthy ELSE health[p]]

IsAvailable(h, p) == health[p].left = 0 /\ deadHere[h][p] = 0

Candidates(h) == {p \in Provider : IsAvailable(h, p)}

\* The candidates are sorted by cost: the one tried first.
Cheapest(providers) ==
    LET i == CHOOSE i \in DOMAIN Order :
               Order[i] \in providers /\ \A j \in 1 .. i - 1 : Order[j] \notin providers
    IN  Order[i]

\* routeModelWithFallback, or routeModel for a caller that makes do with one;
\* when there is no candidate the caller gets an error.
Route(c, h) ==
    /\ call[c] = NoCall
    /\ Candidates(h) # {}
    /\ health' = Revived
    /\ \E fallback \in BOOLEAN :
         SetCall(c, [pc |-> "gate", host |-> h, fallback |-> fallback,
                     rest |-> IF fallback THEN Candidates(h) ELSE {Cheapest(Candidates(h))}])
    /\ UNCHANGED <<spendVars, deadHere, sawDead>>

\* The candidate a call is at.
Present(c) == Cheapest(call[c].rest)

\* The next candidate of a call whose present one has failed.
NextCandidate(c) ==
    SetCall(c, IF call[c].rest = {Present(c)} THEN NoCall
               ELSE [call[c] EXCEPT !.pc = "gate", !.rest = @ \ {Present(c)}])

\* recordProviderFailure: the class of the error decides on the state.
ClassOf(error, p) ==
    IF error = "auth" \/ (error = "network" /\ health[p].failed) THEN "dead" ELSE "degraded"

\* Mutant: a death is written to the file only.
NoteInFile(h, p, error) ==
    /\ health' = [health EXCEPT ![p] =
          [state |-> ClassOf(error, p), failed |-> TRUE,
           left |-> IF ClassOf(error, p) = "dead" THEN DeadFor ELSE DegradedFor]]
    /\ sawDead' = IF ClassOf(error, p) = "dead"
                  THEN [sawDead EXCEPT ![h][p] = DeadFor] ELSE sawDead
    /\ UNCHANGED deadHere

\* noteProviderFailure: into the file, and a death into the host's own set, too.
NoteFailure(h, p, error) ==
    LET state == ClassOf(error, p) IN
    /\ health' = [health EXCEPT ![p] =
          [state |-> state, failed |-> TRUE,
           left |-> IF state = "dead" THEN DeadFor ELSE DegradedFor]]
    /\ IF state = "dead"
       THEN /\ deadHere' = [deadHere EXCEPT ![h][p] = DeadFor]
            /\ sawDead' = [sawDead EXCEPT ![h][p] = DeadFor]
       ELSE UNCHANGED <<deadHere, sawDead>>

\* A call without a fallback throws, and teaches nobody anything.
Note(c, error) ==
    IF call[c].fallback THEN NoteFailure(call[c].host, Present(c), error)
                        ELSE UNCHANGED healthVars

\* The gate; to the fallback a blocked provider is a failing one.
Gate(c) ==
    LET h == call[c].host IN
    /\ call[c].pc = "gate"
    /\ counter' = [counter EXCEPT ![h] = DailyTokenTotal(h)]
    /\ IF Blocked(h, Present(c))
       THEN NextCandidate(c) /\ Note(c, "other")
       ELSE SetCall(c, [call[c] EXCEPT !.pc = "calling"]) /\ UNCHANGED healthVars
    /\ UNCHANGED <<receipts, torn, paidSpent>>

\* The provider answers; recordSpend, into the counter and the receipts.
Answer(c) ==
    LET h == call[c].host IN
    /\ call[c].pc = "calling"
    /\ receipts < MaxSpent
    /\ receipts' = receipts + 1
    /\ counter' = [counter EXCEPT ![h] = DailyTokenTotal(h) + 1]
    /\ paidSpent' = IF Present(c) \in Paid
                    THEN [paidSpent EXCEPT ![h] = @ + 1] ELSE paidSpent
    /\ SetCall(c, NoCall)
    /\ UNCHANGED <<healthVars, torn>>

FailCall(c) ==
    /\ call[c].pc = "calling"
    /\ \E error \in {"auth", "rate", "network", "other"} : Note(c, error)
    /\ NextCandidate(c)
    /\ UNCHANGED spendVars

-----------------------------------------------------------------------------

\* A host dies and is started again, perhaps with half a receipt written.
Restart(h) ==
    /\ call' = [c \in Call |-> IF call[c] # NoCall /\ call[c].host = h THEN NoCall ELSE call[c]]
    /\ counter' = [counter EXCEPT ![h] = Unread]
    /\ deadHere' = [deadHere EXCEPT ![h] = NeverDead]
    /\ sawDead' = [sawDead EXCEPT ![h] = NeverDead]
    /\ torn' \in {torn, torn \/ \E c \in Call : call[c].pc = "calling" /\ call[c].host = h}
    /\ UNCHANGED <<receipts, paidSpent, health>>

Sooner(n) == IF n = 0 THEN 0 ELSE n - 1

CooldownTick ==
    /\ health' = [p \in Provider |-> [health[p] EXCEPT !.left = Sooner(@)]]
    /\ deadHere' = [h \in Host |-> [p \in Provider |-> Sooner(deadHere[h][p])]]
    /\ sawDead' = [h \in Host |-> [p \in Provider |-> Sooner(sawDead[h][p])]]
    /\ UNCHANGED <<spendVars, call>>

\* rollIfNewDay, which every look at the counter begins with.
NewDay ==
    /\ receipts' = 0
    /\ counter' = [h \in Host |-> Unread]
    /\ paidSpent' = [h \in Host |-> 0]
    /\ UNCHANGED <<healthVars, torn, call>>

ModelNext ==
    \/ \E c \in Call : (\E h \in Host : Route(c, h)) \/ Gate(c) \/ Answer(c) \/ FailCall(c)
    \/ \E h \in Host : Restart(h)
    \/ CooldownTick \/ NewDay

ModelSpec == ModelInit /\ [][ModelNext]_modelVars

-----------------------------------------------------------------------------

\* A host spends fewer paid tokens a day than the cap and its calls under way
\* allow, over its restarts too, until half a receipt lies in the file: each
\* call passes the gate before it, and is counted after it, was paid for.
SpendBounded ==
    ~torn => \A h \in Host : paidSpent[h] <= Cap - 1 + Cardinality(Call)

\* Who saw a provider die does not route to it before the cooldown is over,
\* whatever others have written over the health file since.
DeadAreSkipped ==
    [][\A c \in Call : call[c] = NoCall /\ call'[c] # NoCall =>
          \A p \in call'[c].rest : sawDead[call'[c].host][p] = 0]_modelVars
=============================================================================
