----------------------------- MODULE MCMachine ------------------------------
(***************************************************************************)
(* What the processes of a machine share besides the execution graph: the  *)
(* instance lease and the evidence ledger its holder writes, the lock of   *)
(* the learning claims, the model calls, the backups and the drill.        *)
(*                                                                         *)
(* The five parts have no state in common.  A behaviour is one of each     *)
(* part with the other four at rest, so that their state spaces add up.    *)
(***************************************************************************)
EXTENDS EvidenceLedger, FileLock, ModelCalls, Backup, RestoreDrill

CONSTANTS i1, i2, i3, i4, d1, d2, p1, p2, p3, h1, c1, c2, free, paid, x1, x2, x3

ByCost == <<free, paid>>

AtRest(part) ==
    /\ part = "evidence" \/ EvidenceInit
    /\ part = "lock" \/ Init
    /\ part = "models" \/ ModelInit
    /\ part = "backup" \/ BackupInit
    /\ part = "drill" \/ (DrillInit /\ ~container.there /\ csv = [t \in Table |-> "absent"])

MCInit == EvidenceInit /\ Init /\ ModelInit /\ BackupInit /\ DrillInit

MCNext ==
    \/ AtRest("evidence") /\ EvidenceNext /\ UNCHANGED <<vars, modelVars, backupVars, drillVars>>
    \/ AtRest("lock") /\ Next /\ UNCHANGED <<ledgerVars, modelVars, backupVars, drillVars>>
    \/ AtRest("models") /\ ModelNext /\ UNCHANGED <<ledgerVars, vars, backupVars, drillVars>>
    \/ AtRest("backup") /\ BackupNext /\ UNCHANGED <<ledgerVars, vars, modelVars, drillVars>>
    \/ AtRest("drill") /\ DrillNext /\ UNCHANGED <<ledgerVars, vars, modelVars, backupVars>>

allVars == <<ledgerVars, vars, modelVars, backupVars, drillVars>>

MCSpec ==
    /\ MCInit /\ [][MCNext]_allVars
    /\ WF_vars(Tick) /\ \A p \in Proc : WF_vars(Step(p))
=============================================================================
