------------------------------ MODULE MCDaemon ------------------------------
(* The autonomy tick, the cron and one other caller of the notifier.  The   *)
(* cron shares no state with the rest: it runs where the rest is at rest.   *)
EXTENDS AutonomyLoop

CONSTANTS a1, m1, m2, m3, heartbeat, repos

CronAtRest == cron = NoStaleCheck
RestAtRest == hour \in Hour /\ notified = {} /\ alert = NoAlertState /\ tick = [a \in Actor |-> NoTick]

MCNext ==
    \/ CronAtRest /\ (NotifierStep \/ TickStep)
    \/ RestAtRest /\ CronStep

MCSpec == LoopInit /\ [][MCNext]_allVars
MCFairSpec == MCSpec /\ LoopFairness
=============================================================================
