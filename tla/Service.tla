------------------------------- MODULE Service -------------------------------
(***************************************************************************)
(* The life of the process as main orders it: the migrations of the        *)
(* processor's tables (Migrator) run to their end before the Bernard       *)
(* triggers start (BernardSync); an error of a migration, or a crash, ends *)
(* both, and the process is started again.                                 *)
(***************************************************************************)
EXTENDS BernardSync, Migrator

ServiceInit == Init /\ MigratorInit

\* processor.New calls Migrate.
MigrationStep == up /\ Migrating /\ UNCHANGED vars

\* log.Fatal, or a crash at any moment.
Die == Crash /\ Ended

\* Mutant: the triggers do not wait for the processor.
TriggersAtOnce == (\E t \in Trigger : StartAutoSync(t) \/ StartFails(t)) /\ UNCHANGED migration

\* initDaemonTriggers comes after initProcessor.
InitDaemonTriggers ==
  /\ migrator = "done"
  /\ \E t \in Trigger : StartAutoSync(t) \/ StartFails(t)
  /\ UNCHANGED migration

SyncStep ==
  /\ Boot \/ (\E d \in Drive : Change(d) \/ JobStep(d))
  /\ UNCHANGED migration

ServiceNext == MigrationStep \/ Die \/ InitDaemonTriggers \/ SyncStep

serviceVars == <<vars, migration>>

ServiceSpec == ServiceInit /\ [][ServiceNext]_serviceVars

\* The process is started again when it died; migrations, the goroutines of the triggers,
\* cron and the syncs make progress.  A sync is taken to end: the watchdog only warns.
ServiceFairness ==
  /\ WF_serviceVars(Boot /\ UNCHANGED migration)
  /\ WF_serviceVars(MigrationStep)
  /\ WF_serviceVars(InitDaemonTriggers)
  /\ \A d \in Drive : WF_serviceVars((Fire(d) \/ Run(d)) /\ UNCHANGED migration)

FairServiceSpec == ServiceSpec /\ ServiceFairness

-----------------------------------------------------------------------------
(* Properties.                                                              *)

\* A job runs only on tables that hold every migration of this release, each executed
\* once and in order: whatever crash an earlier start hit, no scan is handed to a processor
\* whose table lacks a column (main.go:160-184, migrate/util.go:54-88).
JobsFindNewTables ==
  (\E d \in Drive : phase[d] # "idle") => Ascending(Version, schema)
=============================================================================
