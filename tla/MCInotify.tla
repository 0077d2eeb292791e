------------------------------ MODULE MCInotify ------------------------------
(* Small instances of Inotify for TLC. *)
EXTENDS Inotify

CONSTANTS root, show, season, poster, episode, note, showFolder, seasonFolder

\* root/show/season, a file in each of the lower two and one that the filter rejects.
TreeParent ==
  [p \in {show, season, poster, episode, note} |->
     CASE p = show -> root
       [] p \in {season, poster} -> show
       [] OTHER -> season]

TreeFolderOf ==
  [p \in {root, show, season, poster, episode, note} |->
     CASE p \in {show, poster} -> showFolder
       [] p \in {season, episode} -> seasonFolder
       [] OTHER -> Filtered]
=============================================================================
