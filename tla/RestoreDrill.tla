---------------------------- MODULE RestoreDrill ----------------------------
(***************************************************************************)
(* The backup-restore proof (src/scripts/restore-drill.mts,                *)
(* --backup-restore; the plain drill is its second phase with the smoke    *)
(* tests for the import): fill a database in a container, export its       *)
(* tables, remove the container, import the export into a new one, look.   *)
(*                                                                         *)
(* A step that throws goes to the teardown of its phase and ends the       *)
(* drill; one that logs FAIL goes on, and the drill exits with an error.   *)
(* The export directory may hold the files of an earlier drill, and        *)
(* removing a container may fail, which no step looks at.                  *)
(***************************************************************************)
EXTENDS FiniteSets

CONSTANTS
    Table,  \* MANIFEST_TABLES
    Filled  \* those the fixture rows are put into, and looked for

ASSUME RestoreDrillAssumption == Filled \subseteq Table

VARIABLES
    step,      \* where the drill is, and the tables it has yet to do
    phase,     \* "source" or "restore"
    container, \* what is in the container, when there is one
    csv,       \* per table: whose export is in the directory
    fails,     \* has a FAIL been logged?
    thrown,    \* has a step thrown?
    imported,  \* history: the tables imported, and from whose export
    stuck      \* history: did the latest removal of the container fail?

drillVars == <<step, phase, container, csv, fails, thrown, imported, stuck>>

NoContainer == [there |-> FALSE, rows |-> {}]
Do(pc, tables) == [pc |-> pc, todo |-> tables]

DrillTypeOK ==
    /\ step \in [pc : {"remove", "create", "migrate", "smoke", "fill", "export", "import",
                       "verify", "schema", "teardown", "passed", "failed"},
                 todo : SUBSET Table]
    /\ phase \in {"source", "restore"}
    /\ container \in [there : BOOLEAN, rows : SUBSET Table]
    /\ csv \in [Table -> {"absent", "earlier", "this"}]
    /\ {fails, thrown, stuck} \subseteq BOOLEAN
    /\ imported \subseteq Table \X {"earlier", "this"}

\* A drill that was killed may have left its container, and its export.
DrillInit ==
    /\ step = Do("remove", {})
    /\ phase = "source"
    /\ container \in {NoContainer, [there |-> TRUE, rows |-> Filled]}
    /\ csv \in [Table -> {"absent", "earlier"}]
    /\ fails = FALSE /\ thrown = FALSE /\ stuck = FALSE
    /\ imported = {}

GoTo(pc, tables) == step' = Do(pc, tables)

\* To the finally block of the phase.
Throw == GoTo("teardown", {}) /\ thrown' = TRUE

-----------------------------------------------------------------------------

\* docker rm -f, whose failure is ignored.
RemoveContainer ==
    \/ container' = NoContainer /\ stuck' = FALSE
    \/ UNCHANGED container /\ stuck' = container.there

RemoveOld ==
    /\ step.pc = "remove"
    /\ RemoveContainer
    /\ GoTo("create", {})
    /\ UNCHANGED <<phase, csv, fails, thrown, imported>>

\* docker run, which needs the name to be free, and up to 30 looks.
CreateContainer ==
    /\ step.pc = "create"
    /\ \/ /\ ~container.there
          /\ container' = [there |-> TRUE, rows |-> {}]
          /\ \/ GoTo("migrate", {}) /\ UNCHANGED <<fails, thrown>>
             \/ Throw /\ fails' = TRUE
       \/ Throw /\ UNCHANGED <<container, fails>>
    /\ UNCHANGED <<phase, csv, imported, stuck>>

ApplyMigrations ==
    /\ step.pc = "migrate"
    /\ \/ /\ IF phase = "source" THEN GoTo("smoke", {}) ELSE GoTo("import", Table)
          /\ UNCHANGED <<fails, thrown>>
       \/ Throw /\ fails' = TRUE
    /\ UNCHANGED <<phase, container, csv, imported, stuck>>

\* What they insert they delete.
SmokeTests ==
    /\ step.pc = "smoke"
    /\ \/ GoTo("fill", {}) /\ fails' \in {fails, TRUE} /\ UNCHANGED thrown
       \/ Throw /\ fails' \in {fails, TRUE}
    /\ UNCHANGED <<phase, container, csv, imported, stuck>>

InsertFixtures ==
    /\ step.pc = "fill"
    /\ \/ /\ container' = [container EXCEPT !.rows = Filled]
          /\ GoTo("export", Table)
          /\ UNCHANGED thrown
       \/ \E some \in SUBSET Filled : container' = [container EXCEPT !.rows = some] /\ Throw
    /\ UNCHANGED <<phase, csv, fails, imported, stuck>>

\* Mutant: a table that cannot be exported is skipped.
NoExport(t) == UNCHANGED <<csv, fails>>

ExportFails(t) == fails' = TRUE /\ UNCHANGED csv

\* exportFixtures, one table.
ExportTable ==
    /\ step.pc = "export"
    /\ \E t \in step.todo :
         /\ IF step.todo = {t} THEN GoTo("teardown", {}) ELSE GoTo("export", step.todo \ {t})
         /\ \/ csv' = [csv EXCEPT ![t] = "this"] /\ UNCHANGED fails
            \/ ExportFails(t)
    /\ UNCHANGED <<phase, container, thrown, imported, stuck>>

\* importFixtures, one table: an absent file is skipped, and one that holds
\* the header only.
ImportTable ==
    /\ step.pc = "import"
    /\ \E t \in step.todo :
         /\ IF step.todo = {t} THEN GoTo("verify", Filled) ELSE GoTo("import", step.todo \ {t})
         /\ IF csv[t] = "absent" \/ t \notin Filled
            THEN UNCHANGED <<container, imported, fails>>
            ELSE \/ /\ container' = [container EXCEPT !.rows = @ \cup {t}]
                    /\ imported' = imported \cup {<<t, csv[t]>>}
                    /\ UNCHANGED fails
                 \/ fails' = TRUE /\ UNCHANGED <<container, imported>>
    /\ UNCHANGED <<phase, csv, thrown, stuck>>

\* The fixture rows are looked for in the restored database.
VerifyRows ==
    /\ step.pc = "verify"
    /\ \/ GoTo("schema", {}) /\ fails' = (fails \/ ~(Filled \subseteq container.rows)) /\ UNCHANGED thrown
       \/ Throw /\ UNCHANGED fails
    /\ UNCHANGED <<phase, container, csv, imported, stuck>>

AssertSchema ==
    /\ step.pc = "schema"
    /\ \/ GoTo("teardown", {}) /\ fails' \in {fails, TRUE} /\ UNCHANGED thrown
       \/ Throw /\ UNCHANGED fails
    /\ UNCHANGED <<phase, container, csv, imported, stuck>>

\* The finally block of a phase: the next phase, or the end.
Teardown ==
    /\ step.pc = "teardown"
    /\ RemoveContainer
    /\ CASE thrown -> GoTo("failed", {}) /\ UNCHANGED phase
         [] ~thrown /\ phase = "source" -> GoTo("remove", {}) /\ phase' = "restore"
         [] OTHER -> GoTo(IF fails THEN "failed" ELSE "passed", {}) /\ UNCHANGED phase
    /\ UNCHANGED <<csv, fails, thrown, imported>>

DrillNext ==
    \/ RemoveOld \/ CreateContainer \/ ApplyMigrations \/ SmokeTests \/ InsertFixtures
    \/ ExportTable \/ ImportTable \/ VerifyRows \/ AssertSchema \/ Teardown

DrillSpec == DrillInit /\ [][DrillNext]_drillVars

-----------------------------------------------------------------------------

\* A drill that passes has restored every fixture row from its own export:
\* neither from files of an earlier drill nor in the container it exported.
PassedRestored ==
    step.pc = "passed" => \A t \in Filled : <<t, "this">> \in imported

\* A drill that ends, however it ends, leaves a container only when the
\* container cannot be removed.
TornDown == step.pc \in {"passed", "failed"} => ~container.there \/ stuck

\* The drill's verdict is about this restore, and the drill leaves nothing.
DrillSound == PassedRestored /\ TornDown
=============================================================================
