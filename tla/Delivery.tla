------------------------------- MODULE Delivery -------------------------------
(***************************************************************************)
(* The way of a change from a trigger to the media servers: requests of    *)
(* the HTTP triggers (Webhooks) and partial syncs of a drive (BernardDiff) *)
(* become rows of the table (ScanStore), and Process turns each row into   *)
(* requests to the targets (Targets).  What is left out here is elsewhere: *)
(* any row may be old enough and urgent enough to be next (Processor has   *)
(* the minimum age, the order, and commits while targets are called), and  *)
(* a sync hands its scans over at once (BernardSync has the gap).          *)
(***************************************************************************)
EXTENDS ScanStore, Targets, BernardDiff

CONSTANTS Events,        \* the requests that HTTP clients may send
          RulesOf(_),    \* the rewrite rules of the trigger that a request reaches
          DriveRules,    \* those of the drive
          Includes, Excludes,
          Target,
          Kind,          \* "plex", "emby", "jellyfin" or "autoscan"
          TargetRules,
          Downstream,    \* the manual trigger's rules at the autoscan target
          FirstLibraries, LaterLibraries,
          MaxEvents,     \* bound: requests and changes of the drive together
          MaxFaults      \* bound: failed calls and ends of the process

\* Paths hold the names of the drive and, in "", the name that no folder has.
Path == Seq(Name \cup {Void})

Rules == Seq([from : Path, to : Path])

Event ==
  [hook : {"sonarr", "radarr"}, type : STRING, parent : Path, file : Path,
   renamed : Seq([previous : Path, current : Path])]
    \cup [hook : {"lidarr", "readarr"}, type : STRING, files : Seq(Path)]
    \cup [hook : {"manual"}, type : STRING, dirs : Seq(Path), paths : Seq(Path)]
    \cup [hook : {"a-train"}, type : {"Changes", "Garbage"}, drive : STRING,
          created : Seq(Path), deleted : Seq(Path)]

\* Lidarr and Readarr rewrite the path of a file; a rule is about folders.
RulesNameFolders(e) ==
  e.hook \in {"lidarr", "readarr"} =>
    \A p \in ToSet(e.files) : \A i \in DOMAIN RulesOf(e) : RulesOf(e)[i].from # p

ASSUME DeliveryAssumption ==
  /\ \A e \in Events : e \in Event /\ RulesOf(e) \in Rules /\ RulesNameFolders(e)
  /\ DriveRules \in Rules /\ Downstream \in Rules /\ TargetRules \in [Target -> Rules]
  /\ Includes \subseteq Path /\ Excludes \subseteq Path
  /\ IsFiniteSet(Target)
  /\ Kind \in [Target -> {"plex", "emby", "jellyfin", "autoscan"}]
  /\ FirstLibraries \in [Target -> SUBSET Path]
  /\ LaterLibraries \in [Target -> SUBSET Path]
  /\ MaxEvents \in Nat /\ MaxFaults \in Nat
  /\ NoFile \in RelPath /\ 0 \in Priority

VARIABLES
  table,      \* the scans that wait
  libraries,  \* the libraries a server has
  known,      \* those its target fetched when it was made
  alive,      \* the process runs
  events,
  faults

\* History: read by no action, only by properties.
VARIABLES
  owed,     \* for each target: the changes a server has not been told of
  grouped   \* pairs of what was announced and, with it or after it, for the folder of a row

queue == <<table, grouped>>
vars == <<tree, table, libraries, known, alive, events, faults, owed, grouped>>

Init ==
  /\ DiffInit
  /\ table = EmptyTable
  /\ libraries = FirstLibraries
  /\ known = FirstLibraries
  /\ alive = TRUE
  /\ events = 0
  /\ faults = 0
  /\ owed = [t \in Target |-> {}]
  /\ grouped = {}

Fault == faults < MaxFaults /\ faults' = faults + 1

-----------------------------------------------------------------------------
(* What has changed, as the sender of an event means it; independent of what *)
(* the handlers make of the event.                                          *)

FileAt(p) == Entry(Dir(p), Base(p))

Means(e) ==
  CASE \/ e.hook = "sonarr" /\ e.type \in {"Download", "EpisodeFileDelete"}
       \/ e.hook = "radarr" /\ e.type \in {"Download", "MovieFileDelete"} ->
         {FileAt(e.parent \o e.file)}
    [] \/ e.hook = "sonarr" /\ e.type = "SeriesDelete"
       \/ e.hook = "radarr" /\ e.type \in {"MovieDelete", "Rename"} ->
         {Entry(e.parent, NoFile)}
    [] e.hook = "sonarr" /\ e.type = "Rename" ->
         UNION {{FileAt(e.renamed[i].previous), FileAt(e.parent \o e.renamed[i].current)} :
                  i \in DOMAIN e.renamed}
    [] e.hook \in {"lidarr", "readarr"} /\ e.type = "Download" ->
         {FileAt(p) : p \in ToSet(e.files)}
    [] e.hook = "manual" /\ e.type \notin {"GET", "HEAD"} ->
         {Entry(d, NoFile) : d \in ToSet(e.dirs)} \cup {FileAt(p) : p \in ToSet(e.paths)}
    [] e.hook = "a-train" /\ e.type = "Changes" ->
         {Entry(p, NoFile) : p \in ToSet(e.created) \cup ToSet(e.deleted)}
    [] OTHER -> {}

\* In autoscan's own paths.
Local(rules, places) == {Entry(Rewritten(rules, p.folder), p.file) : p \in places}

Meant == [e \in Events |-> Local(RulesOf(e), Means(e))]

\* Where a server has a folder of autoscan.
At(t, folder) ==
  IF Kind[t] = "autoscan" THEN Rewritten(Downstream, Rewritten(TargetRules[t], folder))
  ELSE Rewritten(TargetRules[t], folder)

\* A change is owed to each library of the server that its folder belongs to.
Owes(t, places) ==
  UNION {{Request(l, p.folder, p.file) : l \in Matched(libraries[t], At(t, p.folder))} :
           p \in places}

-----------------------------------------------------------------------------
(* The HTTP triggers.                                                       *)

Batches == [e \in Events |->
  CASE e.hook = "sonarr" -> Sonarr(RulesOf(e), e)
    [] e.hook = "radarr" -> Radarr(RulesOf(e), e)
    [] e.hook = "lidarr" -> Lidarr(RulesOf(e), e)
    [] e.hook = "readarr" -> Readarr(RulesOf(e), e)
    [] e.hook = "manual" -> Manual(RulesOf(e), e)
    [] e.hook = "a-train" -> ATrain(RulesOf(e), e)]

\* Every path is a possible folder, of which an instance needs those that are handed over.
DrivePaths ==
  UNION {[1..d -> UNION {NamesOf[i] : i \in DriveFolder}] : d \in 0..Depth}

ASSUME FoldersAssumption ==
  /\ \A e \in Events : \A batch \in Batches[e] : \A i \in DOMAIN batch :
       batch[i].folder \in Folder /\ batch[i].file \in RelPath
  /\ \A p \in DrivePaths : Rewritten(DriveRules, p) \in Folder
  /\ Folder \subseteq Path

ScanOf(s) ==
  [folder |-> s.folder, relativePath |-> s.file, priority |-> 0, time |-> 0, at |-> 0]

\* What waits, and the files that rows say.
Waiting == UNION {{Entry(o.folder, o.file) : o \in owed[t]} : t \in Target}
Rows == {Entry(f, table[f].relativePath) : f \in Queued(table)}

\* An event follows all that waits, but what it announces again, and the places that it
\* means in one folder come together.
Follows(places) ==
  {g \in grouped : g[1] \notin places}
    \cup (Waiting \ places) \X places
    \cup {g \in places \X places : g[1].folder = g[2].folder}

\* The pairs that still matter.
Kept(pairs) ==
  LET said == Waiting'
      rows == {r \in Rows' : r.file # NoFile}
  IN  {g \in pairs : g[1] \in said /\ g[2] \in rows}

\* processor.Add of one batch; places are what the event meant.
Enqueue(batch, places) ==
  /\ table' = UpsertedAll(table, [i \in DOMAIN batch |-> ScanOf(batch[i])])
  /\ owed' = [t \in Target |-> owed[t] \cup Owes(t, places)]
  /\ grouped' = Kept(Follows(places))

Webhook(e) ==
  /\ alive
  /\ events + ops < MaxEvents
  /\ events' = events + 1
  /\ \E batch \in Batches[e] : Enqueue(batch, Meant[e])
  /\ UNCHANGED <<tree, libraries, known, alive, faults>>

\* 400: nothing to hand over; 500: Add failed, and the sender knows.
WebhookRefused(e) ==
  /\ alive
  /\ events + ops < MaxEvents
  /\ events' = events + 1
  /\ IF Batches[e] = {} THEN UNCHANGED faults ELSE Fault
  /\ UNCHANGED <<tree, queue, libraries, known, alive, owed>>

-----------------------------------------------------------------------------
(* A partial sync.                                                          *)

\* getScanTask: new folders first; a scan for each folder the filter lets pass.
ScanTask ==
  LET found == {Rewritten(DriveRules, p) : p \in NewFolders \cup OldFolders}
  IN  {Entry(p, NoFile) : p \in {q \in found : Allowed(Includes, Excludes, q)}}

\* The folder p was found above q and is scanned in its place: the filter lets it pass, and
\* no rule begins between the two.
StandsFor(p, q) ==
  /\ Allowed(Includes, Excludes, Rewritten(DriveRules, p))
  /\ IsPrefix(Rewritten(DriveRules, p), Rewritten(DriveRules, q))

\* RootFolders leaves out a folder below another before the filter and the rewriter see
\* either: what is not scanned for that reason is not wanted.
Wanted ==
  {Entry(Rewritten(DriveRules, q), NoFile) :
     q \in {c \in ChangedPaths :
              /\ Allowed(Includes, Excludes, Rewritten(DriveRules, c))
              /\ \A p \in NewFolders \cup OldFolders : IsPrefix(p, c) => StandsFor(p, c)}}

PartialSync ==
  /\ alive
  /\ StoreChanges
  /\ Enqueue(SetToSeq(ScanTask), Wanted)
  /\ UNCHANGED <<libraries, known, alive, events, faults>>

DriveChanges ==
  /\ events + ops < MaxEvents
  /\ DriveChange
  /\ UNCHANGED <<table, libraries, known, alive, events, faults, owed, grouped>>

-----------------------------------------------------------------------------
(* The targets.                                                             *)

Requests(t, f) ==
  LET server == Rewritten(TargetRules[t], f)
      file   == table[f].relativePath
  IN  CASE Kind[t] = "plex" -> Plex(known[t], server)
        [] Kind[t] = "emby" -> Emby(known[t], server, file)
        [] Kind[t] = "jellyfin" -> Jellyfin(known[t], server, file)
        [] Kind[t] = "autoscan" -> Autoscan(Downstream, server, f, file)

\* A request tells the server of the change o.
Tells(t, q, o) ==
  /\ q.library \in {AnyLibrary, o.library}
  /\ IF q.file = NoFile THEN IsPrefix(q.folder, At(t, o.folder))
     ELSE q.folder = At(t, o.folder) /\ q.file = o.file

Told(t, done) == {o \in owed[t] : \E q \in done : Tells(t, q, o)}

\* The target had not heard of the library, or the row is of a folder above it.
Unmatched(t, f, o) ==
  \/ o.library \notin known[t]
  \/ IsStrictPrefix(Rewritten(TargetRules[t], f), o.library)

\* The row is of a folder above the one that a rule of the target begins with.
AboveRule(t, f, o) == IsStrictPrefix(f, o.folder) /\ ~IsPrefix(At(t, f), At(t, o.folder))

\* The row took over the relative path of another file, or of one above the folder, that was
\* announced with the change or after it.
Overwritten(t, f, o) ==
  LET said == Entry(o.folder, o.file)
      row  == Entry(f, table[f].relativePath)
  IN  /\ Kind[t] # "plex"
      /\ row.file # NoFile
      /\ row # said
      /\ <<said, row>> \in grouped

\* An autoscan target sends the path of a file as it is, without its rewrite rules.
NotRewritten(t, f) ==
  /\ Kind[t] = "autoscan"
  /\ table[f].relativePath # NoFile
  /\ Rewritten(TargetRules[t], f) # f

\* The known ways in which a row goes although a server has not been told.
Forgiven(t, f) ==
  {o \in owed[t] : IsPrefix(f, o.folder)
                     /\ (\/ Unmatched(t, f, o) \/ AboveRule(t, f, o)
                         \/ Overwritten(t, f, o) \/ NotRewritten(t, f))}

\* Mutant: a target without a library for the folder fails.
TakenMatched(f) ==
  /\ alive
  /\ f \in Queued(table)
  /\ \A t \in Target : Requests(t, f) # {}
  /\ table' = Deleted(table, f)

\* Every target takes the scan or has no library for it: the row goes.
Taken(f) ==
  /\ alive
  /\ f \in Queued(table)
  /\ table' = Deleted(table, f)

Process(f) ==
  /\ Taken(f)
  /\ owed' = [t \in Target |-> owed[t] \ (Told(t, Requests(t, f)) \cup Forgiven(t, f))]
  /\ grouped' = Kept(grouped)
  /\ UNCHANGED <<tree, libraries, known, alive, events, faults>>

\* Some targets fail, Plex perhaps after some of its requests: the row stays, and the
\* process goes on (ErrTargetUnavailable) or exits (ErrFatal).
ProcessFails(f) ==
  /\ alive
  /\ f \in Queued(table)
  /\ \E bad \in SUBSET {t \in Target : Requests(t, f) # {}} \ {{}} :
       /\ faults + Cardinality(bad) =< MaxFaults
       /\ faults' = faults + Cardinality(bad)
       /\ \E done \in [bad -> SUBSET UNION {Requests(t, f) : t \in bad}] :
            /\ \A t \in bad : done[t] \subseteq Requests(t, f) /\ done[t] # Requests(t, f)
            /\ owed' = [t \in Target |->
                          owed[t] \ Told(t, IF t \in bad THEN done[t] ELSE Requests(t, f))]
  /\ alive' \in BOOLEAN
  /\ UNCHANGED <<tree, queue, libraries, known, events>>

Crash ==
  /\ alive
  /\ Fault
  /\ alive' = FALSE
  /\ UNCHANGED <<tree, queue, libraries, known, events, owed>>

\* initTargets: New fetches the libraries.
Start ==
  /\ ~alive
  /\ alive' = TRUE
  /\ known' = libraries
  /\ UNCHANGED <<tree, queue, libraries, events, faults, owed>>

LibraryAdded(t) ==
  /\ \E l \in LaterLibraries[t] \ libraries[t] :
       libraries' = [libraries EXCEPT ![t] = @ \cup {l}]
  /\ UNCHANGED <<tree, queue, known, alive, events, faults, owed>>

-----------------------------------------------------------------------------
Next ==
  \/ \E e \in Events : Webhook(e) \/ WebhookRefused(e)
  \/ DriveChanges
  \/ PartialSync
  \/ \E f \in Queued(table) : Process(f) \/ ProcessFails(f)
  \/ Crash
  \/ Start
  \/ \E t \in Target : LibraryAdded(t)

Spec == Init /\ [][Next]_vars

\* The scan loop goes on, and the process is started again when it ended.
Fairness == WF_table(\E f \in Queued(table) : Taken(f)) /\ WF_vars(Start)

FairSpec == Spec /\ Fairness

-----------------------------------------------------------------------------
(* Properties.                                                              *)

TypeOK ==
  /\ table \in Table
  /\ libraries \in [Target -> SUBSET Path]
  /\ known \in [Target -> SUBSET Path]
  /\ alive \in BOOLEAN
  /\ events \in 0..MaxEvents
  /\ faults \in 0..MaxFaults
  /\ IsTree(store) /\ IsTree(drive)
  /\ stuck \in BOOLEAN
  /\ ops \in 0..MaxOps
  /\ owed \in [Target -> SUBSET [library : Path, folder : Path, file : Name \cup {Void, NoFile}]]

\* What an event meant and a server has not been told of still waits: a row of its folder
\* or of one above is in the table.  So no path, file, rename or rule is lost on the way
\* from a request (sonarr.go:162-188 and the other handlers) or a diff (paths.go:19-57)
\* through the rewriting of trigger and target, the merging of rows, the matching of
\* libraries (plex.go:108-126) and failed calls, but in the ways of Forgiven.
NothingUntold ==
  \A t \in Target : \A o \in owed[t] : \E f \in Queued(table) : IsPrefix(f, o.folder)

\* Every sync hands over, for each folder of the drive in which a file came, went or took
\* another name since the sync before, a scan of the folder or of one above, under the
\* new or the old path (paths.go:95-240, postprocess.go:13-98), unless the file's tree was
\* moved and trashed between the two syncs.
DiffsAreCovered ==
  [][store' # store =>
       \A q \in ChangedPaths : \E p \in NewFolders \cup OldFolders : IsPrefix(p, q)]_vars

\* Each server is told of everything in the end: no row blocks the queue, through failed
\* calls, ends of the process and targets that have no library for a folder
\* (processor.go:136-165, main.go:476-530).
ServersAreTold == \A t \in Target : (owed[t] # {}) ~> (owed[t] = {})
=============================================================================
