------------------------------- MODULE Backup -------------------------------
(***************************************************************************)
(* The backup job (src/scripts/backup-atlas.mts): a directory for each     *)
(* run, the state directories copied into it one after the other, the      *)
(* database exported, the manifest written last, and then the oldest       *)
(* directories removed until the newest Keep remain.                       *)
(*                                                                         *)
(* A copy may fail, which the run notes and goes on after, and the job may *)
(* die at every step.  A backup is good when its manifest is there and all *)
(* state directories are.                                                  *)
(***************************************************************************)
EXTENDS Naturals, Sequences

CONSTANTS
    StateDir,
    Keep,     \* ATLAS_BACKUP_KEEP
    MaxRuns   \* bound: how often the job is run

ASSUME BackupAssumption ==
    /\ StateDir # {}
    /\ Keep \in Nat \ {0}
    /\ MaxRuns \in Nat

VARIABLES
    backups, \* the directories under the root, the oldest first
    job,     \* where the job is
    runs,    \* how many there have been
    since    \* history: runs begun since the latest good backup was finished

backupVars == <<backups, job, runs, since>>

BackupTypeOK ==
    /\ backups \in Seq([copied : SUBSET StateDir, manifest : BOOLEAN])
    /\ Len(backups) <= runs
    /\ job \in [pc : {"idle", "archive", "export", "manifest", "retain"}, todo : SUBSET StateDir]
    /\ runs \in 0 .. MaxRuns
    /\ since \in 0 .. MaxRuns

At(pc) == [pc |-> pc, todo |-> {}]

BackupInit == backups = <<>> /\ job = At("idle") /\ runs = 0 /\ since = 0

Good(backup) == backup.manifest /\ backup.copied = StateDir
Newest == Len(backups)

MakeBackupDir ==
    /\ job.pc = "idle"
    /\ runs < MaxRuns
    /\ runs' = runs + 1
    /\ since' = since + 1
    /\ backups' = Append(backups, [copied |-> {}, manifest |-> FALSE])
    /\ job' = [pc |-> "archive", todo |-> StateDir]

\* archiveStateDirs, one directory, which can fail.
ArchiveStateDir ==
    /\ job.pc = "archive"
    /\ \E d \in job.todo :
         /\ job' = IF job.todo = {d} THEN At("export")
                    ELSE [job EXCEPT !.todo = @ \ {d}]
         /\ \/ backups' = [backups EXCEPT ![Newest].copied = @ \cup {d}]
            \/ UNCHANGED backups
    /\ UNCHANGED <<runs, since>>

\* exportDatabase, the outcome of which changes nothing else.
ExportDatabase ==
    /\ job.pc = "export"
    /\ job' = At("manifest")
    /\ UNCHANGED <<backups, runs, since>>

WriteManifest ==
    /\ job.pc = "manifest"
    /\ backups' = [backups EXCEPT ![Newest].manifest = TRUE]
    /\ since' = IF Good(backups'[Newest]) THEN 0 ELSE since
    /\ job' = At("retain")
    /\ UNCHANGED runs

\* Mutant: one more is removed.
TooMany(n) == n >= Keep

\* entries.length > KEEP.
MustPrune(n) == n > Keep

\* enforceRetention, one removal; after the last the job is over.
EnforceRetention ==
    /\ job.pc = "retain"
    /\ IF MustPrune(Len(backups))
       THEN backups' = Tail(backups) /\ UNCHANGED job
       ELSE job' = At("idle") /\ UNCHANGED backups
    /\ UNCHANGED <<runs, since>>

\* Killed, or out of disk.
JobDies ==
    /\ job.pc # "idle"
    /\ job' = At("idle")
    /\ UNCHANGED <<backups, runs, since>>

BackupNext ==
    \/ MakeBackupDir \/ ArchiveStateDir \/ ExportDatabase \/ WriteManifest
    \/ EnforceRetention \/ JobDies

BackupSpec == BackupInit /\ [][BackupNext]_backupVars

-----------------------------------------------------------------------------

\* A good backup outlives Keep - 1 runs that come to nothing, not more: what
\* failed counts for the retention like what did not.
GoodOneSurvives ==
    (runs > since /\ since < Keep) => \E i \in DOMAIN backups : Good(backups[i])
=============================================================================
