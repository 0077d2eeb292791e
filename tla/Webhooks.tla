------------------------------- MODULE Webhooks -------------------------------
(***************************************************************************)
(* What the HTTP triggers make of a request: the scans they hand to        *)
(* processor.Add in one call.  Each handler is the set of the batches it   *)
(* may hand over; the empty batch is a request that is answered 200        *)
(* without a scan, and no batch at all one that is answered 400.           *)
(*                                                                         *)
(* A path is the sequence of its names, cleaned; <<>> in a field is a      *)
(* field that is missing.  The pattern of a rewrite rule or of a filter is *)
(* taken to be anchored at the start of the path and to match whole names; *)
(* JSON, case folding and the wording of answers are left out.             *)
(***************************************************************************)
EXTENDS Naturals, SequencesExt

CONSTANTS NoFile,  \* the relative path of a scan of a whole folder
          Void     \* a name that no folder has: <<Void>> is the folder ""

Nowhere == <<Void>>

-----------------------------------------------------------------------------
(* Rewriting and filtering.                                                 *)

Matching(rules, p) == {i \in DOMAIN rules : IsPrefix(rules[i].from, p)}

\* NewRewriter: the first rule that matches, and no other.
Rewritten(rules, p) ==
  IF Matching(rules, p) = {} THEN p
  ELSE LET r == rules[Min(Matching(rules, p))]
       IN  r.to \o SubSeq(p, Len(r.from) + 1, Len(p))

\* NewFilterer: an exclude wins; without includes everything else passes.
Allowed(includes, excludes, p) ==
  /\ \A x \in excludes : ~IsPrefix(x, p)
  /\ includes = {} \/ \E i \in includes : IsPrefix(i, p)

-----------------------------------------------------------------------------
(* Paths of events.                                                         *)

\* path.Dir and path.Base
Dir(p) == IF p = <<>> THEN <<>> ELSE Front(p)

Base(p) == IF p = <<>> THEN NoFile ELSE Last(p)

Entry(folder, file) == [folder |-> folder, file |-> file]

\* Each element once, where it is first.
Distinct(s) ==
  LET seen[n \in 0..Len(s)] ==
        IF n = 0 THEN <<>>
        ELSE IF Contains(seen[n - 1], s[n]) THEN seen[n - 1] ELSE Append(seen[n - 1], s[n])
  IN  seen[Len(s)]

-----------------------------------------------------------------------------
(* Sonarr: a map from folders to files, whose order is arbitrary.           *)

\* pathsForDownload
DownloadPaths(e) == [f \in {Dir(e.parent \o e.file)} |-> Base(e.parent \o e.file)]

\* previous and current path of each renamed file
RenameMentions(e) ==
  [k \in 1..2 * Len(e.renamed) |->
     LET file == e.renamed[(k + 1) \div 2]
     IN  IF k % 2 = 1 THEN file.previous ELSE e.parent \o file.current]

\* Mutant: the paths the files had before are left out.
CurrentOnly(e) ==
  LET said == [i \in DOMAIN e.renamed |-> e.parent \o e.renamed[i].current]
  IN  [f \in {Dir(p) : p \in ToSet(said)} |->
         Base(said[Min({i \in DOMAIN said : Dir(said[i]) = f})])]

\* pathsForRename: a folder keeps the file with which it is first mentioned.
RenamePaths(e) ==
  LET said == RenameMentions(e)
  IN  [f \in {Dir(p) : p \in ToSet(said)} |->
         Base(said[Min({i \in DOMAIN said : Dir(said[i]) = f})])]

SonarrRefuses(e) ==
  \/ e.type = "Garbage"
  \/ e.type \in {"Download", "EpisodeFileDelete"} /\ <<>> \in {e.parent, e.file}
  \/ e.type \in {"SeriesDelete", "Rename"} /\ e.parent = <<>>

SonarrPaths(e) ==
  CASE e.type \in {"Download", "EpisodeFileDelete"} -> DownloadPaths(e)
    [] e.type = "SeriesDelete" -> [f \in {e.parent} |-> NoFile]
    [] e.type = "Rename" -> RenamePaths(e)
    [] OTHER -> <<>>   \* a test, or an event of another type

Sonarr(rules, e) ==
  IF SonarrRefuses(e) THEN {}
  ELSE LET paths == SonarrPaths(e)
       IN  {[i \in DOMAIN s |-> Entry(Rewritten(rules, s[i]), paths[s[i]])] :
              s \in SetToSeqs(DOMAIN paths)}

-----------------------------------------------------------------------------
(* Radarr, Lidarr, Readarr.                                                 *)

RadarrRefuses(e) ==
  \/ e.type = "Garbage"
  \/ e.type \in {"Download", "MovieFileDelete"} /\ <<>> \in {e.parent, e.file}
  \/ e.type \in {"MovieDelete", "Rename"} /\ e.parent = <<>>

\* An event of another type leaves both paths empty, and they are handed over.
RadarrScan(rules, e) ==
  CASE e.type \in {"Download", "MovieFileDelete"} ->
         Entry(Rewritten(rules, Dir(e.parent \o e.file)), Base(e.parent \o e.file))
    [] e.type \in {"MovieDelete", "Rename"} -> Entry(Rewritten(rules, e.parent), NoFile)
    [] OTHER -> Entry(Rewritten(rules, Nowhere), NoFile)

Radarr(rules, e) ==
  IF RadarrRefuses(e) THEN {}
  ELSE IF e.type = "Test" THEN {<<>>}
  ELSE {<<RadarrScan(rules, e)>>}

\* The path of the file is rewritten, not that of its folder.
FoldersOf(rules, files) ==
  Distinct([i \in DOMAIN files |-> Entry(Dir(Rewritten(rules, files[i])), NoFile)])

Lidarr(rules, e) ==
  IF e.type = "Test" THEN {<<>>}
  ELSE IF e.type # "Download" \/ e.files = <<>> THEN {}
  ELSE {FoldersOf(rules, e.files)}

Readarr(rules, e) ==
  IF e.type = "Test" THEN {<<>>}
  ELSE IF e.type # "Download" \/ e.files = <<>> THEN {}
  ELSE {FoldersOf(rules, e.files)}

-----------------------------------------------------------------------------
(* Manual and A-Train.                                                      *)

Manual(rules, e) ==
  IF e.type \in {"GET", "HEAD"} THEN {<<>>}
  ELSE IF e.dirs = <<>> /\ e.paths = <<>> THEN {}
  ELSE {[i \in DOMAIN e.dirs |-> Entry(Rewritten(rules, e.dirs[i]), NoFile)]
          \o [i \in DOMAIN e.paths |->
                Entry(Rewritten(rules, Dir(e.paths[i])), Base(e.paths[i]))]}

\* rules are those of the drive, if it is configured, and then the global ones.
ATrain(rules, e) ==
  IF e.type = "Garbage" THEN {}
  ELSE LET said == e.created \o e.deleted
       IN  {[i \in DOMAIN said |-> Entry(Rewritten(rules, said[i]), NoFile)]}

ATrainRules(drives, global, id) ==
  IF id \in DOMAIN drives THEN drives[id] \o global ELSE global
=============================================================================
