------------------------------ MODULE Migrator ------------------------------
(***************************************************************************)
(* migrate: brings the tables of one component to the newest version when  *)
(* the process starts.  Each migration and the row that records it are one *)
(* transaction; an error ends the process, which may also die anywhere.    *)
(* What a migration does to the tables is its version.                     *)
(***************************************************************************)
EXTENDS Integers, Sequences, FiniteSets

CONSTANTS Version,   \* the versions of the migrations this release holds
          NoTx       \* no transaction is open

ASSUME MigratorAssumption ==
  /\ Version \in SUBSET Nat /\ IsFiniteSet(Version)
  /\ NoTx \notin [schema : Seq(Version), recorded : SUBSET Version]

VARIABLES
  schema,    \* committed: the migrations executed, in their order
  recorded,  \* committed: the table schema_migration
  migrator,  \* "off", "exec", "insert" or "commit" inside a transaction, "next", "done"
  todo,      \* the versions left to this call of Migrate
  tx         \* what the open transaction sees

migration == <<schema, recorded, migrator, todo, tx>>

\* The versions of S in ascending order.
Ascending(S, s) ==
  /\ {s[i] : i \in DOMAIN s} = S
  /\ \A i, j \in DOMAIN s : i < j => s[i] < s[j]

\* A database of this release or of an older one, whose migrations are the first of these.
MigratorInit ==
  /\ recorded \in {S \in SUBSET Version : \A v \in S, w \in Version \ S : v < w}
  /\ schema \in UNION {[1..n -> Version] : n \in 0..Cardinality(Version)}
  /\ Ascending(recorded, schema)
  /\ migrator = "off"
  /\ todo = {}
  /\ tx = NoTx

\* verify, parse and versions: the map of the versions is read once.
Migrate ==
  /\ migrator = "off"
  /\ migrator' = "next"
  /\ todo' = Version \ recorded
  /\ UNCHANGED <<schema, recorded, tx>>

\* The migrations are sorted by version.
Lowest(v) == v \in todo /\ \A w \in todo : v =< w

Begin ==
  /\ migrator = "next"
  /\ todo # {}
  /\ tx' = [schema |-> schema, recorded |-> recorded]
  /\ migrator' = "exec"
  /\ UNCHANGED <<schema, recorded, todo>>

\* Mutant: the statements of the migration are not part of the transaction.
ExecOutside(v) ==
  /\ migrator = "exec"
  /\ Lowest(v)
  /\ schema' = Append(schema, v)
  /\ tx' = [tx EXCEPT !.schema = schema']
  /\ migrator' = "insert"
  /\ UNCHANGED <<recorded, todo>>

Exec(v) ==
  /\ migrator = "exec"
  /\ Lowest(v)
  /\ tx' = [tx EXCEPT !.schema = Append(@, v)]
  /\ migrator' = "insert"
  /\ UNCHANGED <<schema, recorded, todo>>

InsertVersion(v) ==
  /\ migrator = "insert"
  /\ Lowest(v)
  /\ tx' = [tx EXCEPT !.recorded = @ \cup {v}]
  /\ todo' = todo \ {v}
  /\ migrator' = "commit"
  /\ UNCHANGED <<schema, recorded>>

Commit ==
  /\ migrator = "commit"
  /\ schema' = tx.schema
  /\ recorded' = tx.recorded
  /\ tx' = NoTx
  /\ migrator' = "next"
  /\ UNCHANGED todo

Migrated ==
  /\ migrator = "next"
  /\ todo = {}
  /\ migrator' = "done"
  /\ UNCHANGED <<schema, recorded, todo, tx>>

\* An error of a statement or the death of the process: the transaction rolls back.
Ended ==
  /\ migrator' = "off"
  /\ todo' = {}
  /\ tx' = NoTx
  /\ UNCHANGED <<schema, recorded>>

Migrating ==
  \/ Migrate
  \/ Begin
  \/ \E v \in Version : Exec(v) \/ InsertVersion(v)
  \/ Commit
  \/ Migrated

-----------------------------------------------------------------------------
(* Properties.                                                              *)

MigratorTypeOK ==
  /\ recorded \in SUBSET Version
  /\ schema \in Seq(Version)
  /\ migrator \in {"off", "next", "exec", "insert", "commit", "done"}
  /\ todo \in SUBSET Version
  /\ tx \in [schema : Seq(Version), recorded : SUBSET Version] \cup {NoTx}

\* The tables are the result of the recorded migrations, each executed once and in the
\* order of the versions, whatever step of Migrate an error or a crash hits
\* (util.go:54-88); a migration such as ALTER TABLE ... ADD COLUMN cannot run twice.
SchemaIsRecorded == Ascending(recorded, schema)
=============================================================================
