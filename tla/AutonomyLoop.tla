---------------------------- MODULE AutonomyLoop ----------------------------
(***************************************************************************)
(* The autonomy tick (src/atlas/autonomy-loop.ts) over the notifier, and   *)
(* the stale-heartbeat alert of the cron (src/atlas/{cron,                 *)
(* heartbeat-alert}.ts).                                                   *)
(*                                                                         *)
(* A tick observes the signals (the health checks, one of which has bands  *)
(* of severity, and the watched repositories), judges each one against the *)
(* alert state on disk, writes the new alert state and only then tells the *)
(* CEO what is notable.  A reading is its severity: 0 is healthy, a signal *)
(* without bands fails with 1, the heartbeat with its bands from mild up.   *)
(* What a tick reads, and whether it finds a pause at either of its looks,  *)
(* are inputs: both change as they like between two looks.                 *)
(*                                                                         *)
(* The history `told' holds what the CEO was last to be told of a signal,  *)
(* `mildest' the mildest reading written since, and `muted' the signals of *)
(* which a tick had something to tell, wrote its alert state and then said *)
(* nothing: a pause, a dry run, a crash.                                   *)
(***************************************************************************)
EXTENDS NotifyQueue, Integers

CONSTANTS
    Signal,
    Heartbeat,    \* the signal that has bands
    Worst,        \* the number of its bands
    LoopMessage,  \* the messages of the ticks: a bound on the telling ticks
    Threshold     \* STALE_ALERT_THRESHOLD

ASSUME LoopAssumption ==
    /\ Heartbeat \in Signal
    /\ LoopMessage \subseteq Message \ Panic
    /\ Worst \in Nat \ {0}
    /\ Threshold \in Nat \ {0}

VARIABLES
    alert,    \* the alert state file: each signal's last reading
    tick,     \* per actor: the tick it is in
    told,     \* history, see above
    mildest,
    muted,
    cron,     \* the cron's count of stale checks, and its latch
    alarms    \* history: its alerts since the last fresh check

loopVars == <<alert, tick, told, mildest, muted, cron, alarms>>
allVars == <<notifyVars, loopVars>>

Unknown == -1
Readings == {r \in [Signal -> 0 .. Worst] : \A s \in Signal : s # Heartbeat => r[s] <= 1}

NoTick == [pc |-> "idle"]

TickStates ==
    {NoTick}
    \cup [pc : {"judged", "writing", "written"}, seen : Readings,
          events : SUBSET Signal]

LoopTypeOK ==
    /\ NotifyTypeOK
    /\ alert \in [Signal -> Unknown .. Worst]
    /\ tick \in [Actor -> TickStates]
    /\ told \in Readings
    /\ mildest \in Readings
    /\ muted \subseteq Signal
    /\ cron \in [stale : 0 .. Threshold, alerted : BOOLEAN]
    /\ alarms \in 0 .. 1

NoStaleCheck == [stale |-> 0, alerted |-> FALSE]
NoAlertState == [s \in Signal |-> Unknown]

LoopInit ==
    /\ NotifyInit
    /\ alert = NoAlertState
    /\ tick = [a \in Actor |-> NoTick]
    /\ told = [s \in Signal |-> 0]
    /\ mildest = told
    /\ muted = {}
    /\ cron = NoStaleCheck
    /\ alarms = 0

InTick(a, state) == tick' = [tick EXCEPT ![a] = state]
Aside(a) == actor[a] = Idle

-----------------------------------------------------------------------------
(* runTick *)

\* Mutant: any other band of a signal that goes on failing is an escalation.
DetectsAnyChange(prev, now) == now # prev /\ (now > 0 \/ prev > 0)

\* detectTransition: a new failure or an escalation, or a recovery.
DetectTransition(prev, now) == IF now = 0 THEN prev > 0 ELSE now > prev

\* Mutant: a signal nothing is known of yet has no transition.
EventsOfKnown(seen) ==
    {s \in Signal : alert[s] # Unknown /\ DetectTransition(alert[s], seen[s])}

SignalEvents(seen) == {s \in Signal : DetectTransition(alert[s], seen[s])}

\* The pause check, observe, readAlertState and computeSignalEvents.  A tick
\* starts while the bound on messages leaves it one.
Observe(a) ==
    /\ Aside(a) /\ tick[a] = NoTick
    /\ LoopMessage \ notified # {}
    /\ \E seen \in Readings :
          InTick(a, [pc |-> "judged", seen |-> seen, events |-> SignalEvents(seen)])
    /\ UNCHANGED <<notifyVars, alert, told, mildest, muted, cron, alarms>>

\* The file is truncated and then written: what dies in between leaves none.
TruncateAlertState(a) ==
    /\ tick[a].pc = "judged"
    /\ alert' = NoAlertState
    /\ InTick(a, [tick[a] EXCEPT !.pc = "writing"])
    /\ UNCHANGED <<notifyVars, told, mildest, muted, cron, alarms>>

WriteAlertState(a) ==
    /\ tick[a].pc = "writing"
    /\ alert' = tick[a].seen
    /\ mildest' = [s \in Signal |-> IF s \notin tick[a].events /\ alert'[s] < mildest[s]
                                   THEN alert'[s] ELSE mildest[s]]
    /\ InTick(a, [tick[a] EXCEPT !.pc = "written"])
    /\ UNCHANGED <<notifyVars, told, muted, cron, alarms>>

\* Nothing notable, a dry run, or a pause in the meantime.
EndSilently(a) ==
    /\ tick[a].pc = "written"
    /\ muted' = muted \cup tick[a].events
    /\ InTick(a, NoTick)
    /\ UNCHANGED <<notifyVars, alert, told, mildest, cron, alarms>>

Tell(a) ==
    /\ tick[a].pc = "written"
    /\ tick[a].events # {}
    /\ \E m \in LoopMessage : Notify(a, m)
    /\ told' = [s \in Signal |-> IF s \in tick[a].events THEN tick[a].seen[s] ELSE told[s]]
    /\ mildest' = [s \in Signal |-> IF s \in tick[a].events THEN tick[a].seen[s]
                                   ELSE mildest[s]]
    /\ muted' = muted \ tick[a].events
    /\ InTick(a, NoTick)
    /\ UNCHANGED <<alert, cron, alarms>>

\* A tick that dies while it writes loses the alert state of every signal.
CrashInTick(a) ==
    /\ "crash" \in Fault
    /\ tick[a] # NoTick
    /\ muted' = CASE tick[a].pc = "writing" -> Signal
                  [] tick[a].pc = "written" -> muted \cup tick[a].events
                  [] OTHER -> muted
    /\ InTick(a, NoTick)
    /\ UNCHANGED <<notifyVars, alert, told, mildest, cron, alarms>>

-----------------------------------------------------------------------------
(* The cron *)

\* The latch after a stale check, the count of which is `stale'.
Alerted(stale, alerted) == alerted \/ stale >= Threshold

\* recordHeartbeatCheck; the count saturates at the threshold.
HeartbeatCheck(fresh) ==
    LET stale == IF cron.stale < Threshold THEN cron.stale + 1 ELSE Threshold
        alarm == stale >= Threshold /\ ~cron.alerted
    IN
    /\ IF fresh
       THEN cron' = NoStaleCheck /\ alarms' = 0
       ELSE /\ cron' = [stale |-> stale, alerted |-> Alerted(stale, cron.alerted)]
            /\ alarms' = IF alarm THEN alarms + 1 ELSE alarms
    /\ UNCHANGED <<notifyVars, alert, tick, told, mildest, muted>>

RestartCron ==
    /\ "crash" \in Fault
    /\ cron' = NoStaleCheck
    /\ alarms' = 0
    /\ UNCHANGED <<notifyVars, alert, tick, told, mildest, muted>>

-----------------------------------------------------------------------------

\* What the notifier does for itself and for its other callers.  No hour passes
\* within a tick.
NotifierStep ==
    /\ \/ HourPasses /\ tick = [a \in Actor |-> NoTick]
       \/ \E a \in Actor :
            /\ tick[a] = NoTick
            /\ \/ \E m \in Message \ LoopMessage : Notify(a, m)
               \/ Enqueue(a) \/ Send(a)
               \/ DrainQueue(a) \/ SendDigest(a) \/ SendFails(a) \/ ClearQueue(a)
               \/ ActorDies(a)
    /\ UNCHANGED loopVars

TickStep ==
    \E a \in Actor :
        \/ Observe(a) \/ TruncateAlertState(a) \/ WriteAlertState(a)
        \/ EndSilently(a) \/ Tell(a) \/ CrashInTick(a)

CronStep == (\E fresh \in BOOLEAN : HeartbeatCheck(fresh)) \/ RestartCron

LoopNext == NotifierStep \/ TickStep \/ CronStep

LoopSpec == LoopInit /\ [][LoopNext]_allVars

\* The hours pass, started work goes on, and, the assumption on the caller
\* that drainQueue lacks, the drain is called now and then in the daytime and
\* a send that is tried again and again succeeds.
LoopFairness ==
    /\ SF_allVars(HourPasses /\ tick = [a \in Actor |-> NoTick] /\ UNCHANGED loopVars)
    /\ \A a \in Actor :
         /\ WF_allVars((Enqueue(a) \/ Send(a) \/ ClearQueue(a)) /\ UNCHANGED loopVars)
         /\ WF_allVars(TruncateAlertState(a) \/ WriteAlertState(a) \/ EndSilently(a))
         /\ SF_allVars(tick[a] = NoTick /\ DrainQueue(a) /\ UNCHANGED loopVars)
         /\ SF_allVars(SendDigest(a) /\ UNCHANGED loopVars)

-----------------------------------------------------------------------------

InHand(s) == \E a \in Actor : tick[a].pc \in {"writing", "written"} /\ s \in tick[a].events
Rewriting == \E a \in Actor : tick[a].pc = "writing"

\* What the CEO was last told of a signal is what the alert state says of it:
\* a failure at least as severe, or health.  A tick that would not tell again
\* what it once wrote makes any event that slips through invisible for good.
TellsWhatItKnows ==
    \A s \in Signal :
        (s \notin muted /\ ~InHand(s) /\ ~Rewriting) =>
            IF alert[s] > 0 THEN told[s] >= alert[s] ELSE told[s] = 0

\* No storm: a failure is told when it is worse than what has been written of
\* the signal since it was last told of, a recovery when a failure was told.
NoStorm ==
    [][\A a \in Actor : Tell(a) =>
          \A s \in tick[a].events \ muted :
              IF tick[a].seen[s] > 0 THEN mildest[s] < tick[a].seen[s]
                                     ELSE told[s] > 0]_allVars

\* The cron alerts once in every outage that lasts for Threshold checks, and
\* in no shorter one.
AlertedOncePerOutage == alarms = IF cron.stale >= Threshold THEN 1 ELSE 0

\* Tick and cron: the CEO has been told of what fails, and once.
AlertsRight == TellsWhatItKnows /\ AlertedOncePerOutage
=============================================================================
