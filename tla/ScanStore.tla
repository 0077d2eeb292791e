------------------------------ MODULE ScanStore ------------------------------
(***************************************************************************)
(* The table "scan" of the processor's database: at most one row for each  *)
(* folder (folder is the primary key), and what the statements of          *)
(* processor/datastore.go do to it.  Everything here is a value: the       *)
(* transactions around the statements are in Processor.                    *)
(*                                                                         *)
(* Times in rows are whole seconds, as in the column.  The field "at" of a *)
(* scan and of a row is history, in clock ticks and never read by the      *)
(* code: the moment from which the minimum age of its file counts.         *)
(***************************************************************************)
EXTENDS Integers, Sequences

CONSTANTS Folder,      \* the folders of scans
          RelPath,     \* the relative paths of scans (the empty one included)
          Priority,    \* the priorities of triggers
          NoRow        \* what the table holds for a folder without a row

Scan == [folder: Folder, relativePath: RelPath, priority: Priority, time: Int, at: Int]

Row == [relativePath: RelPath, priority: Priority, time: Int, at: Int]

ASSUME StoreAssumption == Priority \subseteq Int /\ NoRow \notin Row

Table == [Folder -> Row \cup {NoRow}]

EmptyTable == [f \in Folder |-> NoRow]

Queued(table) == {f \in Folder : table[f] # NoRow}

RowOf(s) == [relativePath |-> s.relativePath, priority |-> s.priority,
             time |-> s.time, at |-> s.at]

Larger(a, b) == IF a >= b THEN a ELSE b

\* Mutant: the priority of the last event wins.
MergedLastPriority(row, s) == RowOf(s)

\* Mutant: priorities of merged events add up.
MergedSum(row, s) == [RowOf(s) EXCEPT !.priority = s.priority + row.priority]

\* Mutant: the row keeps the relative path of its first event.
MergedFirstPath(row, s) ==
  [RowOf(s) EXCEPT !.relativePath = row.relativePath, !.priority = Larger(s.priority, row.priority)]

\* ON CONFLICT (folder) DO UPDATE: everything but the priority is overwritten.
Merged(row, s) == [RowOf(s) EXCEPT !.priority = Larger(s.priority, row.priority)]

Upserted(table, s) ==
  [table EXCEPT ![s.folder] = IF @ = NoRow THEN RowOf(s) ELSE Merged(@, s)]

\* The loop of Upsert: the table after each number of its scans.
UpsertedEach(table, scans) ==
  LET after[n \in 0..Len(scans)] == IF n = 0 THEN table ELSE Upserted(after[n - 1], scans[n])
  IN  after

UpsertedAll(table, scans) == UpsertedEach(table, scans)[Len(scans)]

Deleted(table, f) == [table EXCEPT ![f] = NoRow]

\* Mutant: a row of the cutoff second itself is taken for old enough.
AvailableAtCutoff(table, cutoff) == {f \in Queued(table) : table[f].time =< cutoff}

\* WHERE time < cutoff
Available(table, cutoff) == {f \in Queued(table) : table[f].time < cutoff}

\* ORDER BY priority DESC, time ASC
Precedes(a, b) ==
  \/ a.priority > b.priority
  \/ a.priority = b.priority /\ a.time =< b.time

\* The rows "LIMIT 1" may return: ties are the database's to break.
Candidates(table, cutoff) ==
  {f \in Available(table, cutoff) :
     \A g \in Available(table, cutoff) : Precedes(table[f], table[g])}
=============================================================================
