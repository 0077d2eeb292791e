------------------------------- MODULE Targets -------------------------------
(***************************************************************************)
(* What the targets make of a scan: the requests they send for it.  A      *)
(* request names a folder and, unless it is about the whole folder, a file *)
(* of it, in the server's own paths; one to Plex also names a library.  A  *)
(* library is the path of one of its locations.  A target without a        *)
(* request for a scan answers ErrLibraryNotMatched.                        *)
(***************************************************************************)
EXTENDS Webhooks

CONSTANTS AnyLibrary  \* the server itself finds the libraries of the path

Request(library, folder, file) == [library |-> library, folder |-> folder, file |-> file]

\* HasPrefix(folder, location + "/") or CleanedPathEqual: getScanLibrary of all three.
Matched(libraries, folder) == {l \in libraries : IsPrefix(l, folder)}

\* Plex: one request for each library; the relative path is not used.
SectionRefresh(library, folder) == Request(library, folder, NoFile)

Plex(libraries, folder) == {SectionRefresh(l, folder) : l \in Matched(libraries, folder)}

\* Emby: one request for the first library that matches.
MediaUpdated(folder, file) == Request(AnyLibrary, folder, file)

Emby(libraries, folder, file) ==
  IF Matched(libraries, folder) = {} THEN {} ELSE {MediaUpdated(folder, file)}

\* A copy of Emby's code: only the URLs and the type of the update differ.
Jellyfin(libraries, folder, file) == Emby(libraries, folder, file)

\* Autoscan: ?dir=<folder>, or ?path=<path> when there is one.
ManualCall(folder, path) ==
  [type |-> "POST",
   dirs |-> IF path = <<>> THEN <<folder>> ELSE <<>>,
   paths |-> IF path = <<>> THEN <<>> ELSE <<path>>]

\* The path is not rewritten.  The other instance's manual trigger takes it apart.
Autoscan(theirs, rewritten, folder, file) ==
  LET path == IF file = NoFile THEN <<>> ELSE Append(folder, file)
  IN  {Request(AnyLibrary, s.folder, s.file) :
         s \in UNION {ToSet(batch) : batch \in Manual(theirs, ManualCall(rewritten, path))}}
=============================================================================
