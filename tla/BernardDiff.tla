----------------------------- MODULE BernardDiff -----------------------------
(***************************************************************************)
(* What a partial sync of the Bernard trigger makes of the changes of a    *)
(* drive: the library's difference between its store and the drive, the    *)
(* hook that reclassifies what was trashed or restored (postprocess.go),   *)
(* the hook that collects folders and builds their paths (paths.go).       *)
(*                                                                         *)
(* The drive changes between two syncs; the store holds the drive as of    *)
(* the last sync.  A path is the sequence of the names of its folders.     *)
(***************************************************************************)
EXTENDS Integers, Sequences, FiniteSets

CONSTANTS DriveFolder,  \* IDs of folders other than the drive's own
          DriveFile,    \* IDs of files
          Top,          \* the ID of the drive, which is that of its root folder
          Name,
          NamesOf,      \* NamesOf[i]: names that i may take, which no other item takes
          Trees,        \* drives as a full sync stored them
          NoItem,       \* what the store or the drive holds for an unknown ID
          MaxOps        \* bound: changes of the drive

Item == DriveFolder \cup DriveFile

Record == [parent : DriveFolder \cup {Top}, name : Name, trashed : BOOLEAN]

ASSUME BernardDiffAssumption ==
  /\ IsFiniteSet(DriveFolder)
  /\ Top \notin Item /\ NoItem \notin Record \cup Item \cup {Top}
  /\ NamesOf \in [Item -> SUBSET Name]
  /\ MaxOps \in Nat

VARIABLES
  store,  \* the library's tables
  drive,  \* the drive itself
  stuck,  \* a hook did not return: the sync job hangs
  ops     \* changes so far, for MaxOps

tree == <<store, drive, stuck, ops>>

DiffInit ==
  /\ drive \in Trees
  /\ store = drive
  /\ stuck = FALSE
  /\ ops = 0

-----------------------------------------------------------------------------
(* Walking up a tree: Up(t, i)[n] is the folder n levels above i.           *)

ParentIn(t, i) == IF i \in {Top, NoItem} THEN i ELSE IF t[i] = NoItem THEN NoItem ELSE t[i].parent

Depth == Cardinality(DriveFolder) + 1

Up(t, i) ==
  LET up[n \in 0..Depth] == IF n = 0 THEN i ELSE ParentIn(t, up[n - 1])
  IN  up

\* getFolderPath
PathOf(t, i) ==
  LET up == Up(t, i)
      d  == CHOOSE n \in 0..Depth : up[n] = Top /\ \A m \in 0..(n - 1) : up[m] # Top
  IN  [k \in 1..d |-> t[up[d - k]].name]

Below(t, i) == {j \in Item : t[j] # NoItem /\ \E n \in 0..Depth : Up(t, j)[n] = i}

\* A drive: parents are known, every way up ends at the top, and what is below a trashed
\* item is trashed.
IsTree(t) ==
  /\ t \in [Item -> Record \cup {NoItem}]
  /\ \A i \in Item : t[i] # NoItem =>
       /\ t[i].name \in NamesOf[i]
       /\ Up(t, i)[Depth] = Top
       /\ \/ t[i].parent = Top
          \/ t[t[i].parent] # NoItem /\ (t[t[i].parent].trashed => t[i].trashed)

ASSUME TreesAssumption == \A t \in Trees : IsTree(t)

-----------------------------------------------------------------------------
(* The drive.                                                               *)

Live(i) == IF i = Top THEN TRUE ELSE drive[i] # NoItem /\ ~drive[i].trashed

Operation == ops < MaxOps /\ ops' = ops + 1 /\ UNCHANGED <<store, stuck>>

Put(i, p, n) == drive' = [drive EXCEPT ![i] = [parent |-> p, name |-> n, trashed |-> FALSE]]

\* An ID is used once.
Upload(i, p) ==
  /\ drive[i] = NoItem /\ store[i] = NoItem
  /\ Live(p)
  /\ \E n \in NamesOf[i] : Put(i, p, n)
  /\ Operation

Move(i, p) ==
  /\ drive[i] # NoItem /\ Live(i)
  /\ Live(p) /\ p # drive[i].parent /\ p \notin Below(drive, i)
  /\ Put(i, p, drive[i].name)
  /\ Operation

Rename(i) ==
  /\ drive[i] # NoItem /\ Live(i)
  /\ \E n \in NamesOf[i] \ {drive[i].name} : Put(i, drive[i].parent, n)
  /\ Operation

Marked(i, b) ==
  drive' = [j \in Item |-> IF j \in Below(drive, i) THEN [drive[j] EXCEPT !.trashed = b] ELSE drive[j]]

Trash(i) ==
  /\ drive[i] # NoItem /\ Live(i)
  /\ Marked(i, TRUE)
  /\ Operation

Restore(i) ==
  /\ drive[i] # NoItem /\ ~Live(i)
  /\ Live(drive[i].parent)
  /\ Marked(i, FALSE)
  /\ Operation

Delete(i) ==
  /\ drive[i] # NoItem
  /\ drive' = [j \in Item |-> IF j \in Below(drive, i) THEN NoItem ELSE drive[j]]
  /\ Operation

DriveChange ==
  \E i \in Item :
    \/ \E p \in DriveFolder \cup {Top} : Upload(i, p) \/ Move(i, p)
    \/ Rename(i)
    \/ Trash(i)
    \/ Restore(i)
    \/ Delete(i)

-----------------------------------------------------------------------------
(* The difference, as the hooks leave it.                                   *)

In(t) == {i \in Item : t[i] # NoItem}

Differs == {i \in In(store) \cap In(drive) : store[i] # drive[i]}

\* reclassifyTrashed
Restored == {i \in Differs : store[i].trashed /\ ~drive[i].trashed}
Trashed == {i \in Differs : ~store[i].trashed /\ drive[i].trashed}

Added == (In(drive) \ In(store)) \cup Restored
Changed == Differs \ (Restored \cup Trashed)

\* What was trashed already is not removed again.
Removed == {i \in In(store) \ In(drive) : ~store[i].trashed} \cup Trashed

\* The maps of getDiffFolderMaps, completed by the store as getFolder does.

\* Mutant: a folder that is not in the diff is not looked up in the store.
CurrentInDiff == [i \in Item |-> IF i \in Added \cup Changed THEN drive[i] ELSE NoItem]

Current == [i \in Item |-> IF i \in Added \cup Changed THEN drive[i] ELSE store[i]]

\* Mutant: the new record of a folder with a new name is taken for the old one.
OldOfRenamed ==
  [i \in Item |-> IF i \in Added \cup Trashed \cup {j \in Changed : drive[j].name # store[j].name}
                  THEN drive[i] ELSE store[i]]

Old == [i \in Item |-> IF i \in Added \cup Trashed THEN drive[i] ELSE store[i]]

ParentsIn(t, F) == {t[f].parent : f \in F \cap DriveFile}

\* getDiffFolders
NewParents == (Changed \cap DriveFolder) \cup ParentsIn(drive, Added \cup Changed)

\* Mutant: the former parent of a file that moved is forgotten.
OldParentsNoMoves ==
  ((Changed \cup Removed) \cap DriveFolder) \cup ParentsIn(Old, Removed)

OldParents == ((Changed \cup Removed) \cap DriveFolder) \cup ParentsIn(Old, Changed \cup Removed)

\* datastore.RootFolders: the folders whose parent is not among them.
RootFolders(t, S) == {i \in S : i = Top \/ t[i].parent \notin S}

\* The folders that the hooks build a path for, level by level.
WaysUp ==
  {Up(Current, i) : i \in RootFolders(Current, NewParents)}
    \cup {Up(Old, i) : i \in RootFolders(Old, OldParents)}

\* A folder is in neither the diff nor the store: the hook fails, on the parent of a file or
\* on the way up from a folder.
NotFound ==
  \/ \E i \in NewParents \ {Top} : Current[i] = NoItem
  \/ \E i \in OldParents \ {Top} : Old[i] = NoItem
  \/ \E way \in WaysUp : way[Depth] = NoItem

\* getFolderPath does not return.
Endless == \E way \in WaysUp : way[Depth] \in DriveFolder

NewFolders == {PathOf(Current, i) : i \in RootFolders(Current, NewParents)}
OldFolders == {PathOf(Old, i) : i \in RootFolders(Old, OldParents)}

\* Mutant: what went together with its folder stays in the store.
StoreKeepsOrphans ==
  /\ ~stuck
  /\ store # drive
  /\ ~NotFound
  /\ ~Endless
  /\ store' = [i \in Item |-> IF i \in In(store) \ In(drive) /\ store[i].parent \notin In(drive) \cup {Top}
                             THEN store[i] ELSE drive[i]]
  /\ UNCHANGED <<drive, stuck, ops>>

\* The library stores the changes when the hooks have returned.
StoreChanges ==
  /\ ~stuck
  /\ store # drive
  /\ ~NotFound
  /\ ~Endless
  /\ store' = drive
  /\ UNCHANGED <<drive, stuck, ops>>

SyncHangs ==
  /\ ~stuck
  /\ ~NotFound
  /\ Endless
  /\ stuck' = TRUE
  /\ UNCHANGED <<store, drive, ops>>

DiffNext == DriveChange \/ StoreChanges \/ SyncHangs

DiffSpec == DiffInit /\ [][DiffNext]_tree

-----------------------------------------------------------------------------
(* What should be scanned: the folders in which a file came, went or took   *)
(* another name.                                                            *)

Visible(t) == {f \in DriveFile : t[f] # NoItem /\ ~t[f].trashed}

\* A file and where it is seen.
Sights(t) == {<<f, t[f].name, PathOf(t, t[f].parent)>> : f \in Visible(t)}

\* Moved or renamed, and trashed before the next sync: the hooks see only where it went.
MovedToTrash ==
  {i \in Trashed : store[i].parent # drive[i].parent \/ store[i].name # drive[i].name}

MisplacedFiles == UNION {Below(store, i) : i \in MovedToTrash}

ChangedPaths ==
  {s[3] : s \in Sights(drive) \ Sights(store)}
    \cup {s[3] : s \in {x \in Sights(store) \ Sights(drive) : x[1] \notin MisplacedFiles}}

\* "a Bernard hook that collects new and old folder paths from a diff" (paths.go:18):
\* every sync gets to the paths of its diff.
SyncsEnd == ~stuck

\* What remains of SyncsEnd: a folder that was moved and then trashed between two syncs is
\* the only cause of a way without an end.  No other sequence of changes makes a circle of
\* old and new records, neither among the old folders nor among the new ones
\* (paths.go:199-240 on the maps of paths.go:64-86 and postprocess.go:52-98).
OnlyTrashedMovesHang ==
  Endless => \E i \in Trashed \cap DriveFolder : store[i].parent # drive[i].parent

\* Whatever changed between two syncs, each folder that the hooks look up is in the diff or
\* in the store: no sync ends with "could not get folder" (paths.go:182-190, 208-232), after
\* which its diff would be met again at each attempt.
FoldersAreFound == ~NotFound
=============================================================================
