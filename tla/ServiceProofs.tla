----------------------------- MODULE ServiceProofs -----------------------------
(***************************************************************************)
(* Theorems about Service, for every set of migrations, drives, triggers   *)
(* and accounts: the whole process still behaves as BernardSync, the       *)
(* tables are those of the recorded migrations whatever crash hits them,   *)
(* and no job runs on tables that lack one.                                *)
(***************************************************************************)
EXTENDS Service, BernardSyncProofs

-----------------------------------------------------------------------------
(* The process, seen without its migrations.                                *)

LEMMA ServiceStep == [ServiceNext]_serviceVars => [Next]_vars
<1> SUFFICES ASSUME [ServiceNext]_serviceVars PROVE [Next]_vars
  OBVIOUS
<1>1. CASE MigrationStep
  BY <1>1 DEF MigrationStep
<1>2. CASE Die
  BY <1>2 DEF Die, Next
<1>3. CASE InitDaemonTriggers
  BY <1>3 DEF InitDaemonTriggers, Next
<1>4. CASE SyncStep
  BY <1>4 DEF SyncStep, Next
<1>5. CASE UNCHANGED serviceVars
  BY <1>5 DEF serviceVars
<1> QED
  BY <1>1, <1>2, <1>3, <1>4, <1>5 DEF ServiceNext

\* The composition implements BernardSync: the migrations only delay its triggers, and every
\* theorem about its behaviours is one about those of the process (main.go:160-192).
THEOREM ServiceImplementsSync == ServiceSpec => Spec
<1>1. ServiceInit => Init
  BY DEF ServiceInit
<1> QED
  BY <1>1, ServiceStep, PTL DEF ServiceSpec, Spec

-----------------------------------------------------------------------------
(* The migrations.                                                          *)

LEMMA AscendingAppend ==
  ASSUME NEW S \in SUBSET Version, NEW s \in Seq(Version), NEW v \in Version,
         Ascending(S, s), \A r \in S : r < v
  PROVE  Ascending(S \cup {v}, Append(s, v))
<1> DEFINE t == Append(s, v)
<1>1. /\ Len(s) \in Nat /\ DOMAIN s = 1..Len(s) /\ DOMAIN t = 1..(Len(s) + 1)
      /\ t[Len(s) + 1] = v /\ \A i \in 1..Len(s) : t[i] = s[i]
  OBVIOUS
<1>2. \A i \in 1..Len(s) : s[i] \in S
  BY <1>1 DEF Ascending
<1>3. \A r \in S : \E i \in 1..Len(s) : s[i] = r
  BY <1>1 DEF Ascending
<1> HIDE DEF t
<1>4. {t[i] : i \in DOMAIN t} = S \cup {v}
  <2>1. ASSUME NEW r \in S \cup {v} PROVE \E i \in DOMAIN t : t[i] = r
    <3>1. CASE r = v
      BY <1>1, <3>1
    <3>2. CASE r \in S
      <4>1. PICK i \in 1..Len(s) : s[i] = r
        BY <1>3, <3>2
      <4> QED
        BY <1>1, <4>1
    <3> QED
      BY <3>1, <3>2
  <2>2. ASSUME NEW i \in DOMAIN t PROVE t[i] \in S \cup {v}
    BY <1>1, <1>2
  <2> QED
    BY <2>1, <2>2
<1>5. ASSUME NEW i \in DOMAIN t, NEW j \in DOMAIN t, i < j PROVE t[i] < t[j]
  <2>1. i \in 1..Len(s)
    BY <1>1, <1>5
  <2>2. CASE j = Len(s) + 1
    BY <1>1, <1>2, <2>1, <2>2
  <2>3. CASE j \in 1..Len(s)
    BY <1>1, <1>5, <2>1, <2>3 DEF Ascending
  <2> QED
    BY <1>1, <2>2, <2>3
<1> QED
  BY <1>4, <1>5 DEF Ascending, t

\* What is recorded are the first versions, and what an open transaction sees of them is
\* one migration ahead, at most.
MigrationInv ==
  /\ MigratorTypeOK
  /\ SchemaIsRecorded
  /\ \A r \in recorded, v \in Version \ recorded : r < v
  /\ migrator = "off" => todo = {}
  /\ migrator \in {"off", "next", "done"} => tx = NoTx
  /\ migrator \in {"next", "exec", "insert"} => todo = Version \ recorded
  /\ migrator = "done" => recorded = Version
  /\ migrator = "exec" => tx = [schema |-> schema, recorded |-> recorded]
  /\ migrator = "insert" =>
       \E v \in Version : Lowest(v) /\ tx = [schema |-> Append(schema, v), recorded |-> recorded]
  /\ migrator = "commit" =>
       /\ tx \in [schema : Seq(Version), recorded : SUBSET Version]
       /\ Ascending(tx.recorded, tx.schema)
       /\ todo = Version \ tx.recorded
       /\ \A r \in tx.recorded, v \in Version \ tx.recorded : r < v

LEMMA MigrationInit == MigratorInit => MigrationInv
<1> SUFFICES ASSUME MigratorInit PROVE MigrationInv
  OBVIOUS
<1>1. schema \in Seq(Version)
  <2>1. PICK n \in 0..Cardinality(Version) : schema \in [1..n -> Version]
    BY DEF MigratorInit
  <2>2. n \in Nat
    <3>1. Cardinality(Version) \in Nat
      BY MigratorAssumption, FS_CardinalityType
    <3> QED
      BY <3>1
  <2> QED
    BY <2>1, <2>2
<1> QED
  BY <1>1 DEF MigratorInit, MigrationInv, MigratorTypeOK, SchemaIsRecorded

LEMMA MigrationStable == MigrationInv /\ UNCHANGED migration => MigrationInv'
BY DEF MigrationInv, migration, MigratorTypeOK, SchemaIsRecorded, Lowest

LEMMA MigrationEnded == MigrationInv /\ Ended => MigrationInv'
BY DEF MigrationInv, Ended, MigratorTypeOK, SchemaIsRecorded

LEMMA MigrationMoves == MigrationInv /\ Migrating => MigrationInv'
<1> SUFFICES ASSUME MigrationInv, Migrating PROVE MigrationInv'
  OBVIOUS
<1> USE MigratorAssumption
<1>1. CASE Migrate
  BY <1>1 DEF Migrate, MigrationInv, MigratorTypeOK, SchemaIsRecorded
<1>2. CASE Begin
  BY <1>2 DEF Begin, MigrationInv, MigratorTypeOK, SchemaIsRecorded
<1>3. ASSUME NEW v \in Version, Exec(v) PROVE MigrationInv'
  <2>1. /\ migrator = "exec" /\ migrator' = "insert" /\ schema' = schema /\ recorded' = recorded
        /\ todo' = todo /\ tx = [schema |-> schema, recorded |-> recorded] /\ Lowest(v)
        /\ tx' = [schema |-> Append(schema, v), recorded |-> recorded]
    BY <1>3 DEF Exec, MigrationInv
  <2>2. Lowest(v)'
    BY <2>1 DEF Lowest
  <2>3. tx' \in [schema : Seq(Version), recorded : SUBSET Version]
    BY <2>1 DEF MigrationInv, MigratorTypeOK
  <2> QED
    BY <2>1, <2>2, <2>3 DEF MigrationInv, MigratorTypeOK, SchemaIsRecorded
<1>4. ASSUME NEW v \in Version, InsertVersion(v) PROVE MigrationInv'
  <2>1. PICK w \in Version :
          Lowest(w) /\ tx = [schema |-> Append(schema, w), recorded |-> recorded]
    BY <1>4 DEF InsertVersion, MigrationInv
  <2>2. /\ migrator' = "commit" /\ schema' = schema /\ recorded' = recorded /\ Lowest(v)
        /\ tx' = [tx EXCEPT !.recorded = @ \cup {v}] /\ todo' = todo \ {v}
        /\ todo = Version \ recorded
    BY <1>4 DEF InsertVersion, MigrationInv
  <2>3. v = w
    BY <2>1, <2>2 DEF Lowest
  <2>4. tx' = [schema |-> Append(schema, v), recorded |-> recorded \cup {v}]
    BY <2>1, <2>2, <2>3
  <2>5. /\ recorded \in SUBSET Version /\ schema \in Seq(Version) /\ Ascending(recorded, schema)
        /\ \A r \in recorded, x \in Version \ recorded : r < x
    BY DEF MigrationInv, MigratorTypeOK, SchemaIsRecorded
  <2>6. v \in Version \ recorded /\ \A x \in Version \ recorded : v =< x
    BY <2>2 DEF Lowest
  <2>7. Ascending(recorded \cup {v}, Append(schema, v))
    BY <2>5, <2>6, AscendingAppend
  <2>8. \A r \in recorded \cup {v}, x \in Version \ (recorded \cup {v}) : r < x
    BY <2>5, <2>6
  <2>9. tx' \in [schema : Seq(Version), recorded : SUBSET Version]
    BY <2>4, <2>5
  <2>10. todo' = Version \ (recorded \cup {v})
    BY <2>2
  <2>11. tx'.schema = Append(schema, v) /\ tx'.recorded = recorded \cup {v}
    BY <2>4
  <2> QED
    BY <2>2, <2>5, <2>7, <2>8, <2>9, <2>10, <2>11 DEF MigrationInv, MigratorTypeOK, SchemaIsRecorded
<1>5. CASE Commit
  BY <1>5 DEF Commit, MigrationInv, MigratorTypeOK, SchemaIsRecorded
<1>6. CASE Migrated
  BY <1>6 DEF Migrated, MigrationInv, MigratorTypeOK, SchemaIsRecorded
<1> QED
  BY <1>1, <1>2, <1>3, <1>4, <1>5, <1>6 DEF Migrating

-----------------------------------------------------------------------------
(* The whole.                                                               *)

\* Before the migrations are done nothing of the triggers has been started.
StartedLast ==
  migrator # "done" =>
    /\ \A d \in Drive : phase[d] = "idle" /\ job[d] = "none"
    /\ \A t \in Trigger : trigger[t] = "new"

ServiceInv == MigrationInv /\ StartedLast

LEMMA ServiceInvInit == ServiceInit => ServiceInv
BY MigrationInit DEF ServiceInit, Init, Each, ServiceInv, StartedLast

LEMMA IdleJobs ==
  ASSUME SyncInv, NEW d \in Drive, JobStep(d), \A x \in Drive : phase[x] = "idle" /\ job[x] = "none"
  PROVE  FALSE
<1>1. CASE Fire(d)
  BY <1>1 DEF Fire
<1>2. CASE Acquire(d)
  BY <1>2, FirstWaits DEF SyncInv
<1>3. CASE FullSyncDone(d) \/ PartialSyncEmpty(d) \/ PartialSyncDone(d) \/ Callback(d)
             \/ SyncFails(d) \/ CallbackFails(d)
  BY <1>3 DEF FullSyncDone, PartialSyncEmpty, PartialSyncDone, Callback, SyncFails, CallbackFails
<1> QED
  BY <1>1, <1>2, <1>3 DEF JobStep, Run

LEMMA ServiceInvStep == SyncInv /\ ServiceInv /\ [ServiceNext]_serviceVars => ServiceInv'
<1> SUFFICES ASSUME SyncInv, ServiceInv, [ServiceNext]_serviceVars PROVE ServiceInv'
  OBVIOUS
<1>1. CASE MigrationStep
  <2>1. migrator # "done"
    BY <1>1 DEF MigrationStep, Migrating, Migrate, Begin, Exec, InsertVersion, Commit, Migrated
  <2>2. MigrationInv'
    BY <1>1, MigrationMoves DEF MigrationStep, ServiceInv
  <2> QED
    BY <1>1, <2>1, <2>2 DEF MigrationStep, vars, cron, ServiceInv, StartedLast
<1>2. CASE Die
  <2>1. MigrationInv'
    BY <1>2, MigrationEnded DEF Die, ServiceInv
  <2>2. StartedLast'
    BY <1>2 DEF Die, Crash, Each, StartedLast
  <2> QED
    BY <2>1, <2>2 DEF ServiceInv
<1>3. CASE InitDaemonTriggers
  BY <1>3, MigrationStable DEF InitDaemonTriggers, migration, ServiceInv, StartedLast
<1>4. CASE SyncStep
  <2>1. MigrationInv' /\ migrator' = migrator
    BY <1>4, MigrationStable DEF SyncStep, migration, ServiceInv
  <2>2. CASE Boot
    BY <2>1, <2>2 DEF Boot, cron, ServiceInv, StartedLast
  <2>3. ASSUME NEW d \in Drive, Change(d) PROVE ServiceInv'
    BY <2>1, <2>3 DEF Change, cron, ServiceInv, StartedLast
  <2>4. ASSUME NEW d \in Drive, JobStep(d) PROVE ServiceInv'
    BY <2>1, <2>4, IdleJobs DEF ServiceInv, StartedLast
  <2> QED
    BY <1>4, <2>2, <2>3, <2>4 DEF SyncStep
<1>5. CASE UNCHANGED serviceVars
  BY <1>5, MigrationStable DEF serviceVars, vars, cron, migration, ServiceInv, StartedLast
<1> QED
  BY <1>1, <1>2, <1>3, <1>4, <1>5 DEF ServiceNext

\* The inductive invariant of the process: a migration in progress and what it has left to
\* do agree with the committed tables, and jobs exist only on migrated ones.
THEOREM ServiceInvariance == ServiceSpec => []ServiceInv
<1>1. ServiceInit => ServiceInv
  BY ServiceInvInit
<1>2. SyncInv /\ ServiceInv /\ [ServiceNext]_serviceVars => ServiceInv'
  BY ServiceInvStep
<1>3. ServiceSpec => []SyncInv
  BY ServiceImplementsSync, SyncInvariance, PTL
<1> QED
  BY <1>1, <1>2, <1>3, PTL DEF ServiceSpec

\* Whatever step of a migration an error or a crash hits, the tables are the result of the
\* recorded migrations, each executed once and in order (migrate/util.go:54-88).
THEOREM SchemasAreRecorded == ServiceSpec => []SchemaIsRecorded
<1>1. ServiceInv => SchemaIsRecorded
  BY DEF ServiceInv, MigrationInv
<1> QED
  BY <1>1, ServiceInvariance, PTL

\* No sync job runs before every migration of the release is committed (main.go:160-184).
THEOREM JobsRunOnNewTables == ServiceSpec => []JobsFindNewTables
<1>1. ServiceInv => JobsFindNewTables
  BY DEF ServiceInv, MigrationInv, StartedLast, SchemaIsRecorded, JobsFindNewTables
<1> QED
  BY <1>1, ServiceInvariance, PTL
=============================================================================
