---------------------------- MODULE CommandQueue ----------------------------
(***************************************************************************)
(* The remote command queue: the router of free-form messages puts a       *)
(* command into a table, consumers claim and execute it, the bot delivers  *)
(* its result (src/atlas/{action-router, supabase-memory, queue-worker,    *)
(* atlas-runner, queue-auth, task-spawner}.ts and telegram.ts).            *)
(*                                                                         *)
(* Consumers are the ticks of the in-process worker, which may overlap,    *)
(* and the runner, which handles one command at a time and is alone on its *)
(* machine (InstanceLease).  Every call of the database is one step, and   *)
(* fails with or without effect.  A command is a model value; its age is   *)
(* what the 30 minutes of a claim and the 24 hours of a signature tell     *)
(* apart.  What may go wrong is bounded by MaxFaults.                      *)
(***************************************************************************)
EXTENDS Naturals, FiniteSets

CONSTANTS
    Command,
    Irreversible,  \* the commands whose text crosses a red line
    Risky,         \* those only the runner's second opinion finds to do so
    Worker,        \* ticks of the in-process worker that may be under way
    Runner,
    SigningKey,    \* whether ATLAS_QUEUE_SIGNING_KEY is set on both sides
    MaxAttempts,   \* the column max_attempts of the table
    MaxFaults

ASSUME QueueAssumption ==
    /\ Irreversible \subseteq Command /\ Risky \subseteq Command
    /\ Worker \cap Runner = {}
    /\ SigningKey \in BOOLEAN
    /\ MaxAttempts \in Nat \ {0} /\ MaxFaults \in Nat

VARIABLES
    row,       \* the table, by command: status, attempts, whether the claim is stale
    consumer,  \* per worker tick and runner: where it is
    bot,       \* the delivery loop of the bot: the rows it polled, and where it is
    nonces,    \* the nonce ledger of the runner, memory and file
    expired,   \* the commands signed more than 24 hours ago
    paused,
    faults,    \* how many things have gone wrong
    runs,      \* history: how often each kind of consumer executed a command
    succeeded, \* history: the commands an execution of which exited with 0
    told,      \* history: how often the result was handed to the notifier
    forgotten  \* history: the nonce ledger has been lost

vars == <<row, consumer, bot, nonces, expired, paused, faults,
          runs, succeeded, told, forgotten>>

Consumer == Worker \cup Runner
Kind(c) == IF c \in Worker THEN "worker" ELSE "runner"

RowStatus == {"none", "pending", "processing", "done", "failed", "dead", "deleted"}
Row(status, attempts) == [status |-> status, attempts |-> attempts, stale |-> FALSE]

Idle == [pc |-> "idle"]
ConsumerState ==
    [pc : {"idle", "swept"}]
    \cup [pc : {"claimed", "verified", "cleared", "complete", "fail"}, cmd : Command]
Polling == [pc |-> "poll"]
BotState ==
    {Polling}
    \cup [pc : {"notify"}, batch : SUBSET Command]
    \cup [pc : {"delete"}, batch : SUBSET Command, cmd : Command]

TypeOK ==
    /\ row \in [Command -> [status : RowStatus, attempts : 0 .. MaxAttempts, stale : BOOLEAN]]
    /\ consumer \in [Consumer -> ConsumerState]
    /\ bot \in BotState
    /\ nonces \subseteq Command /\ expired \subseteq Command
    /\ paused \in BOOLEAN /\ faults \in 0 .. MaxFaults
    /\ runs \in [Command -> [{"worker", "runner"} -> Nat]]
    /\ succeeded \subseteq Command
    /\ told \in [Command -> Nat]
    /\ forgotten \in BOOLEAN

Init ==
    /\ row = [m \in Command |-> Row("none", 0)]
    /\ consumer = [c \in Consumer |-> Idle]
    /\ bot = Polling
    /\ nonces = {} /\ expired = {}
    /\ paused = FALSE /\ faults = 0
    /\ runs = [m \in Command |-> [k \in {"worker", "runner"} |-> 0]]
    /\ succeeded = {}
    /\ told = [m \in Command |-> 0]
    /\ forgotten = FALSE

Become(c, state) == consumer' = [consumer EXCEPT ![c] = state]
Fault == faults < MaxFaults /\ faults' = faults + 1

\* Mutant: a patch that fits the row whatever became of the claim.
PatchedAlways(m, status) == row' = [row EXCEPT ![m] = Row(status, @.attempts)]

\* The patch of a command's row, which fits only while it is claimed.
Patched(m, status) ==
    IF row[m].status = "processing"
    THEN row' = [row EXCEPT ![m] = Row(status, @.attempts)]
    ELSE UNCHANGED row

-----------------------------------------------------------------------------
(* The producer *)

\* routeFreeformAction: chat and red lines end before; the task in the
\* execution graph is made by intake and commit.  The insert may fail.
Route(m) ==
    /\ row[m].status = "none"
    /\ m \notin Irreversible
    /\ row' = [row EXCEPT ![m] = Row("pending", 0)]
    /\ UNCHANGED <<consumer, bot, nonces, expired, paused, faults,
                   runs, succeeded, told, forgotten>>

-----------------------------------------------------------------------------
(* Time *)

\* The 30 minutes of a claim are over, whoever holds it.
ClaimAges(m) ==
    /\ row[m].status = "processing" /\ ~row[m].stale
    /\ row' = [row EXCEPT ![m].stale = TRUE]
    /\ UNCHANGED <<consumer, bot, nonces, expired, paused, faults,
                   runs, succeeded, told, forgotten>>

\* The 24 hours of a signature are over.
SignatureAges(m) ==
    /\ row[m].status # "none" /\ m \notin expired
    /\ expired' = expired \cup {m}
    /\ UNCHANGED <<row, consumer, bot, nonces, paused, faults,
                   runs, succeeded, told, forgotten>>

-----------------------------------------------------------------------------
(* runWorkerTick and runnerTick *)

\* Mutant: a command on its last attempt is left where it is.
SweptButLast(r) ==
    IF r.status # "processing" \/ ~r.stale \/ r.attempts = MaxAttempts THEN r
    ELSE Row("pending", r.attempts)

\* sweep_stale_commands: retry or bury.
Swept(r) ==
    IF r.status # "processing" \/ ~r.stale THEN r
    ELSE Row(IF r.attempts < MaxAttempts THEN "pending" ELSE "dead", r.attempts)

\* Only the worker sweeps, before it looks whether it may claim.
Sweep(w) ==
    /\ consumer[w] = Idle
    /\ Become(w, [pc |-> "swept"])
    /\ \/ row' = [m \in Command |-> Swept(row[m])] /\ UNCHANGED faults
       \/ Fault /\ UNCHANGED row
    /\ UNCHANGED <<bot, nonces, expired, paused, runs, succeeded, told, forgotten>>

MayClaim(c) == consumer[c] = (IF c \in Worker THEN [pc |-> "swept"] ELSE Idle)

\* Paused, over the cap, or nothing to do: the tick of a worker ends.
SkipTick(w) ==
    /\ consumer[w] = [pc |-> "swept"]
    /\ paused \/ \A m \in Command : row[m].status # "pending"
    /\ Become(w, Idle)
    /\ UNCHANGED <<row, bot, nonces, expired, paused, faults,
                   runs, succeeded, told, forgotten>>

\* claim_next_command; an answer that is lost leaves the row to nobody.
Claim(c, m) ==
    /\ MayClaim(c) /\ ~paused
    /\ row[m].status = "pending"
    /\ row' = [row EXCEPT ![m] = Row("processing", @.attempts + 1)]
    /\ \/ Become(c, [pc |-> "claimed", cmd |-> m]) /\ UNCHANGED faults
       \/ Fault /\ Become(c, Idle)
    /\ UNCHANGED <<bot, nonces, expired, paused, runs, succeeded, told, forgotten>>

\* Mutant: the nonces are not looked at.
FreshUnexpired(m) == m \notin expired

\* verifyPayload, in the runner only: the nonce is on the disk before the
\* command is executed.
Fresh(m) == m \notin expired /\ m \notin nonces

Verify(c) ==
    /\ c \in Runner /\ consumer[c].pc = "claimed"
    /\ LET m == consumer[c].cmd IN
       IF SigningKey /\ ~Fresh(m)
       THEN Become(c, [pc |-> "fail", cmd |-> m]) /\ UNCHANGED nonces
       ELSE /\ Become(c, [pc |-> "verified", cmd |-> m])
            /\ nonces' = IF SigningKey THEN nonces \cup {m} ELSE nonces
    /\ UNCHANGED <<row, bot, expired, paused, faults, runs, succeeded, told, forgotten>>

\* checkRedLine: keywords, then the classifier; one that throws blocks.
CheckRedLine(c) ==
    /\ consumer[c].pc = "verified"
    /\ \E blocked \in BOOLEAN :
          LET m == consumer[c].cmd
              crossed == m \in Irreversible \cup Risky
          IN /\ crossed => blocked
             /\ IF blocked /\ ~crossed THEN Fault ELSE UNCHANGED faults
             /\ Become(c, [pc |-> IF blocked THEN "fail" ELSE "cleared", cmd |-> m])
    /\ UNCHANGED <<row, bot, nonces, expired, paused, runs, succeeded, told, forgotten>>

\* runTask under a pause runs nothing and has no exit code.
Blocked(c) == c \in Runner /\ paused

\* Mutant: a command that did not run counts as done.
CompletesUnlessFailed(c, ok) == ok \/ Blocked(c)

\* Only exit code 0 is reported as done.
Completes(c, ok) == ok

Execute(c, ok) ==
    /\ consumer[c].pc = (IF c \in Worker THEN "claimed" ELSE "cleared")
    /\ Blocked(c) => ~ok
    /\ LET m == consumer[c].cmd IN
       /\ runs' = IF Blocked(c) THEN runs ELSE [runs EXCEPT ![m][Kind(c)] = @ + 1]
       /\ succeeded' = IF ok THEN succeeded \cup {m} ELSE succeeded
       /\ Become(c, [pc |-> IF Completes(c, ok) THEN "complete" ELSE "fail", cmd |-> m])
    /\ UNCHANGED <<row, bot, nonces, expired, paused, faults, told, forgotten>>

\* completeCommand, whose guard is the status alone; if it throws the
\* consumer goes on to fail the command.
Complete(c) ==
    /\ consumer[c].pc = "complete"
    /\ LET m == consumer[c].cmd IN
       \/ Patched(m, "done") /\ Become(c, Idle) /\ UNCHANGED faults
       \/ /\ Fault /\ Become(c, [pc |-> "fail", cmd |-> m])
          /\ Patched(m, "done") \/ UNCHANGED row
    /\ UNCHANGED <<bot, nonces, expired, paused, runs, succeeded, told, forgotten>>

\* failCommand; if it throws the row stays as it is.
Fail(c) ==
    /\ consumer[c].pc = "fail"
    /\ Become(c, Idle)
    /\ \/ Patched(consumer[c].cmd, "failed") /\ UNCHANGED faults
       \/ Fault /\ UNCHANGED row
    /\ UNCHANGED <<bot, nonces, expired, paused, runs, succeeded, told, forgotten>>

-----------------------------------------------------------------------------
(* deliverRemoteResults *)

\* pollCompletedCommands asks for 'done' and 'failed', never for 'dead'.
Poll ==
    /\ bot = Polling
    /\ \E m \in Command : row[m].status \in {"done", "failed"}
    /\ bot' = [pc |-> "notify",
               batch |-> {m \in Command : row[m].status \in {"done", "failed"}}]
    /\ UNCHANGED <<row, consumer, nonces, expired, paused, faults,
                   runs, succeeded, told, forgotten>>

\* The notifier sends the result or queues it (NotifyQueue); or it fails.
Deliver(m) ==
    /\ bot.pc = "notify" /\ m \in bot.batch
    /\ \/ /\ told' = [told EXCEPT ![m] = @ + 1]
          /\ bot' = [pc |-> "delete", batch |-> bot.batch \ {m}, cmd |-> m]
          /\ UNCHANGED faults
       \/ /\ Fault
          /\ bot' = [bot EXCEPT !.batch = @ \ {m}]
          /\ UNCHANGED told
    /\ UNCHANGED <<row, consumer, nonces, expired, paused, runs, succeeded, forgotten>>

DeleteDelivered ==
    /\ bot.pc = "delete"
    /\ bot' = [pc |-> "notify", batch |-> bot.batch]
    /\ \/ row' = [row EXCEPT ![bot.cmd] = Row("deleted", 0)]
          /\ UNCHANGED faults
       \/ Fault /\ UNCHANGED row
    /\ UNCHANGED <<consumer, nonces, expired, paused, runs, succeeded, told, forgotten>>

EndDelivery ==
    /\ bot.pc = "notify" /\ bot.batch = {}
    /\ bot' = Polling
    /\ UNCHANGED <<row, consumer, nonces, expired, paused, faults,
                   runs, succeeded, told, forgotten>>

-----------------------------------------------------------------------------
(* The environment *)

\* createNonceLedger drops nonces recorded more than 24 hours ago; their
\* commands were signed before that.  A file cut short counts as empty.
Reloaded(kept, torn) == IF torn THEN {} ELSE (nonces \ expired) \cup kept

Crash(c, kept, torn) ==
    /\ Fault
    /\ Become(c, Idle)
    /\ IF c \in Runner
       THEN /\ torn => consumer[c].pc = "verified"
            /\ nonces' = Reloaded(kept, torn)
            /\ forgotten' = (forgotten \/ torn)
       ELSE /\ ~torn /\ kept = {} /\ UNCHANGED <<nonces, forgotten>>
    /\ UNCHANGED <<row, bot, expired, paused, runs, succeeded, told>>

CrashBot ==
    /\ Fault
    /\ bot' = Polling
    /\ UNCHANGED <<row, consumer, nonces, expired, paused, runs, succeeded, told, forgotten>>

Pause ==
    /\ Fault
    /\ ~paused /\ paused' = TRUE
    /\ UNCHANGED <<row, consumer, bot, nonces, expired, runs, succeeded, told, forgotten>>

Resume ==
    /\ paused /\ paused' = FALSE
    /\ UNCHANGED <<row, consumer, bot, nonces, expired, faults,
                   runs, succeeded, told, forgotten>>

-----------------------------------------------------------------------------

ConsumerStep(c) ==
    \/ c \in Worker /\ (Sweep(c) \/ SkipTick(c))
    \/ \E m \in Command : Claim(c, m)
    \/ Verify(c) \/ CheckRedLine(c)
    \/ \E ok \in BOOLEAN : Execute(c, ok)
    \/ Complete(c) \/ Fail(c)

BotStep ==
    \/ Poll \/ DeleteDelivered \/ EndDelivery
    \/ \E m \in Command : Deliver(m)

Next ==
    \/ \E m \in Command : Route(m) \/ ClaimAges(m) \/ SignatureAges(m)
    \/ \E c \in Consumer : ConsumerStep(c)
    \/ BotStep
    \/ \E c \in Consumer, kept \in SUBSET (nonces \cap expired), torn \in BOOLEAN :
          Crash(c, kept, torn)
    \/ CrashBot \/ Pause \/ Resume

(* The polls are timers that never stop, time passes, and a pause is       *)
(* lifted; what fails is bounded by MaxFaults.                             *)
Fairness ==
    /\ \A c \in Consumer : WF_vars(ConsumerStep(c))
    /\ WF_vars(BotStep)
    /\ \A m \in Command : WF_vars(ClaimAges(m))
    /\ WF_vars(Resume)

Spec == Init /\ [][Next]_vars /\ Fairness

-----------------------------------------------------------------------------
(* Properties *)

\* A signed command is executed by the runner once at most, across crashes,
\* sweeps and the eviction of old nonces, unless the nonce ledger was lost
\* (atlas-runner.ts, queue-auth.ts).
SignedOnce ==
    SigningKey /\ ~forgotten => \A m \in Command : runs[m]["runner"] <= 1

\* However often its claim goes stale, a command is executed MaxAttempts
\* times at most, by all consumers together (sweep_stale_commands).
AttemptsBound ==
    \A m \in Command : runs[m]["worker"] + runs[m]["runner"] <= MaxAttempts

\* No command is executed more often than it may be.
RunsBounded == SignedOnce /\ AttemptsBound

\* A command is reported done only if an execution of it exited with 0,
\* whichever consumer's completion fell on the row (atlas-runner.ts:210).
DoneWasRun ==
    \A m \in Command : row[m].status = "done" => m \in succeeded

\* The phase of a row, as its contract sees it.
Phase(status) ==
    CASE status = "none" -> "none"
      [] status \in {"pending", "processing"} -> "open"
      [] status \in {"done", "failed", "dead"} -> "closed"
      [] status = "deleted" -> "gone"

Contract == INSTANCE WorkOrder WITH
    Order <- Command, phase <- [m \in Command |-> Phase(row[m].status)]

\* The queue keeps its contract: a row that was closed is never opened or
\* rewritten by a late consumer, and none goes before it was closed (the guards
\* status=eq.processing of supabase-memory.ts:192-213, and the sweep).
KeepsContract == Contract!OrderSafe

\* The contract's other half, every open row is closed; and beyond it, every
\* command that is queued is answered and delivered, or buried
\* (queue-worker.ts, telegram.ts).
Settled ==
    /\ Contract!OrderFair
    /\ \A m \in Command : row[m].status = "pending" ~> row[m].status \in {"deleted", "dead"}
=============================================================================
