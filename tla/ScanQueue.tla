------------------------------ MODULE ScanQueue ------------------------------
(***************************************************************************)
(* What the processor promises, without the table, the connection, the     *)
(* loop or the process: a set of folders that are due; at any time at most *)
(* one of them is being handed to the targets; it stops being due only     *)
(* when, in one and the same attempt, every target has taken it; an        *)
(* attempt may be abandoned at any time and then leaves the folder due.    *)
(* The folders of one Add become due together or not at all.               *)
(***************************************************************************)
CONSTANTS Folder, Target, Nobody

VARIABLES due,     \* the folders that wait for a scan
          current, \* the folder being handed to the targets, or Nobody
          took     \* the targets that took it in this attempt

vars == <<due, current, took>>

Init == due = {} /\ current = Nobody /\ took = {}

Enqueue(F) == due' = due \cup F /\ UNCHANGED <<current, took>>

Start(f) ==
  /\ current = Nobody
  /\ f \in due
  /\ current' = f
  /\ took' = {}
  /\ UNCHANGED due

Take(t) ==
  /\ current # Nobody
  /\ took' = took \cup {t}
  /\ UNCHANGED <<due, current>>

Idle == current' = Nobody /\ took' = {}

Abandon == current # Nobody /\ Idle /\ UNCHANGED due

Finish ==
  /\ current # Nobody
  /\ took = Target
  /\ due' = due \ {current}
  /\ Idle

Next ==
  \/ \E F \in SUBSET Folder : Enqueue(F)
  \/ \E f \in Folder : Start(f)
  \/ \E t \in Target : Take(t)
  \/ Abandon
  \/ Finish

Spec == Init /\ [][Next]_vars
=============================================================================
