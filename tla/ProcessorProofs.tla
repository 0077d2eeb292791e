--------------------------- MODULE ProcessorProofs ---------------------------
(***************************************************************************)
(* Theorems about Processor, for every set of clients, folders, targets,   *)
(* anchors and batches and whatever the bounds: its types, that no         *)
(* committed scan is lost outside the window of Process, what the rows     *)
(* say, which one is taken and when, and that it implements ScanQueue.     *)
(***************************************************************************)
EXTENDS Processor, ScanStoreProofs

-----------------------------------------------------------------------------
(* Types.                                                                   *)

\* What a trigger stamps is a scan, and a batch of them a list of scans.
LEMMA StampedScans ==
  ASSUME clock \in Nat, NEW b \in Batches
  PROVE  /\ [i \in DOMAIN b |-> Stamped(b[i])] \in Seq(Scan)
         /\ Len(b) \in Nat
<1>1. b \in Seq(Entry)
  BY ProcessorAssumption
<1>2. \A e \in Entry : Stamped(e) \in Scan
  <2>1. \A n \in Int : Seconds(n) \in Int
    BY ProcessorAssumption DEF Seconds
  <2> QED
    BY <2>1 DEF Stamped, Entry, Scan
<1>3. \A i \in DOMAIN b : b[i] \in Entry
  BY <1>1
<1> QED
  BY <1>1, <1>2, <1>3

-----------------------------------------------------------------------------
(* Type correctness.                                                        *)

\* The initial values have their types.
LEMMA EmptyTypes ==
  /\ EmptyTable \in Table
  /\ [c \in Client |-> <<>>] \in [Client -> Seq(Scan)]
  /\ NoAnswer \in [Target -> Answer]
  /\ NoStats \in [received : Nat, processed : Nat, retried : Nat]
  /\ [a \in Anchor |-> FALSE] \in [Anchor -> BOOLEAN]
  /\ [a \in Anchor |-> TRUE] \in [Anchor -> BOOLEAN]
  /\ [t \in Target |-> "up"] \in [Target -> {"up", "down", "broken"}]
  /\ [f \in Folder |-> {}] \in [Folder -> SUBSET [at : Int, priority : Priority]]
  /\ [f \in Folder |-> {}] \in [Folder -> SUBSET Target]
<1>1. EmptyTable \in Table
  BY DEF EmptyTable, Table
<1>2. [c \in Client |-> <<>>] \in [Client -> Seq(Scan)]
  OBVIOUS
<1>3. NoAnswer \in [Target -> Answer]
  BY DEF NoAnswer, Answer
<1>4. NoStats \in [received : Nat, processed : Nat, retried : Nat]
  BY DEF NoStats
<1>5. /\ [a \in Anchor |-> FALSE] \in [Anchor -> BOOLEAN]
      /\ [a \in Anchor |-> TRUE] \in [Anchor -> BOOLEAN]
  OBVIOUS
<1>6. [t \in Target |-> "up"] \in [Target -> {"up", "down", "broken"}]
  OBVIOUS
<1>7. /\ [f \in Folder |-> {}] \in [Folder -> SUBSET [at : Int, priority : Priority]]
      /\ [f \in Folder |-> {}] \in [Folder -> SUBSET Target]
  OBVIOUS
<1> QED
  BY <1>1, <1>2, <1>3, <1>4, <1>5, <1>6, <1>7

\* The types hold at the start.
LEMMA InitTypes == Init => TypeOK
<1> SUFFICES ASSUME Init
             PROVE  TypeOK
  OBVIOUS
<1>1. /\ clock \in Nat /\ adds \in Nat /\ faults \in Nat
      /\ next \in Nat \ {0} /\ nextAnchor \in Nat \ {0}
  BY DEF Init
<1>2. table \in Table /\ draft \in Table /\ batch \in [Client -> Seq(Scan)]
  BY EmptyTypes DEF Init
<1>3. /\ conn \in Client \cup {Free}
      /\ picked \in Folder \cup {NoFolder}
      /\ loop \in {"down", "init", "anchors", "checking", "pick", "call", "delete"}
  BY DEF Init
<1>4. /\ anchorState \in [Anchor -> BOOLEAN]
      /\ anchorUp \in [Anchor -> BOOLEAN]
      /\ targetsAvailable \in BOOLEAN
  BY EmptyTypes, Zenon DEF Init
<1>5. /\ answer \in [Target -> Answer]
      /\ health \in [Target -> {"up", "down", "broken"}]
      /\ stats \in [received : Nat, processed : Nat, retried : Nat]
  BY EmptyTypes, Zenon DEF Init
<1>6. /\ seen \in [Folder -> SUBSET [at : Int, priority : Priority]]
      /\ owed \in [Folder -> SUBSET Target]
      /\ overtaken \in SUBSET Folder
      /\ verified \in SUBSET Target
      /\ sighted \in SUBSET Anchor
  BY EmptyTypes DEF Init
<1> QED
  BY <1>1, <1>2, <1>3, <1>4, <1>5, <1>6 DEF TypeOK

\* What an exit of the process leaves has the right types.
LEMMA ExitTypes == TypeOK /\ Exit /\ faults' \in Nat => TypeOK'
<1> SUFFICES ASSUME TypeOK, Exit, faults' \in Nat
             PROVE  TypeOK'
  OBVIOUS
<1>1. /\ anchorState' \in [Anchor -> BOOLEAN]
      /\ batch' \in [Client -> Seq(Scan)]
      /\ answer' \in [Target -> Answer]
      /\ stats' \in [received : Nat, processed : Nat, retried : Nat]
      /\ targetsAvailable' \in BOOLEAN
  BY EmptyTypes, Zenon DEF Exit
<1>2. /\ clock' \in Nat /\ table' \in Table /\ draft' \in Table /\ conn' \in Client \cup {Free}
      /\ next' \in Nat \ {0} /\ nextAnchor' \in Nat \ {0}
      /\ loop' \in {"down", "init", "anchors", "checking", "pick", "call", "delete"}
      /\ picked' \in Folder \cup {NoFolder}
  BY DEF TypeOK, Exit
<1>3. /\ health' \in [Target -> {"up", "down", "broken"}]
      /\ anchorUp' \in [Anchor -> BOOLEAN]
      /\ adds' \in Nat
  BY DEF TypeOK, Exit
<1>4. /\ seen' \in [Folder -> SUBSET [at : Int, priority : Priority]]
      /\ owed' \in [Folder -> SUBSET Target]
      /\ overtaken' \in SUBSET Folder
      /\ verified' \in SUBSET Target
      /\ sighted' \in SUBSET Anchor
  BY DEF TypeOK, Exit
<1> QED
  BY <1>1, <1>2, <1>3, <1>4 DEF TypeOK

\* Every step keeps the types.
LEMMA NextTypes == TypeOK /\ [Next]_vars => TypeOK'
<1> SUFFICES ASSUME TypeOK, [Next]_vars
             PROVE  TypeOK'
  OBVIOUS
<1> USE DEF TypeOK
<1>1. ASSUME NEW c \in Client, NEW b \in Batches, Add(c, b)
      PROVE  TypeOK'
  <2>1. batch' \in [Client -> Seq(Scan)]
    BY <1>1, StampedScans DEF Add
  <2>2. stats' \in [received : Nat, processed : Nat, retried : Nat]
    <3>1. Len(b) \in Nat
      BY StampedScans
    <3>2. stats \in [received : Nat, processed : Nat, retried : Nat]
      OBVIOUS
    <3>3. stats' = [stats EXCEPT !.received = @ + Len(b)]
      BY <1>1 DEF Add
    <3> HIDE DEF TypeOK
    <3> QED
      BY <3>1, <3>2, <3>3
  <2> QED
    BY <1>1, <2>1, <2>2 DEF Add, store, looping, world, history, past
<1>2. ASSUME NEW c \in Client, Begin(c)
      PROVE  TypeOK'
  BY <1>2 DEF Begin, store, looping, world, history, past
<1>3. ASSUME NEW c \in Client, BeginFails(c)
      PROVE  TypeOK'
  BY <1>3 DEF BeginFails, Fault, store, looping, world, history, past
<1>4. ASSUME NEW c \in Client, ExecUpsert(c)
      PROVE  TypeOK'
  BY <1>4, UpsertedTable DEF ExecUpsert, store, looping, world, history, past
<1>5. ASSUME NEW c \in Client, Rollback(c)
      PROVE  TypeOK'
  BY <1>5 DEF Rollback, Return, Fault, store, looping, world, history, past
<1>6. ASSUME NEW c \in Client, Commit(c)
      PROVE  TypeOK'
  <2>1. \A i \in DOMAIN batch[c] : batch[c][i] \in Scan
    OBVIOUS
  <2>2. batch' \in [Client -> Seq(Scan)]
    BY <1>6 DEF Commit, Return
  <2>3. seen' \in [Folder -> SUBSET [at : Int, priority : Priority]]
    <3>1. \A i \in DOMAIN batch[c] : [at |-> batch[c][i].at, priority |-> batch[c][i].priority]
                                       \in [at : Int, priority : Priority]
      BY <2>1 DEF Scan
    <3>2. DOMAIN batch[c] = 1 .. Len(batch[c])
      OBVIOUS
    <3>3. \A f \in Folder : Events(batch[c], Len(batch[c]), f) \in SUBSET [at : Int, priority : Priority]
      BY <3>1, <3>2 DEF Events
    <3>4. seen' = [f \in Folder |-> seen[f] \cup Events(batch[c], Len(batch[c]), f)]
      BY <1>6 DEF Commit, Record
    <3>5. \A f \in Folder : seen[f] \in SUBSET [at : Int, priority : Priority]
      OBVIOUS
    <3> HIDE DEF TypeOK
    <3> QED
      BY <3>3, <3>4, <3>5
  <2>4. owed' \in [Folder -> SUBSET Target]
    BY <1>6 DEF Commit, Record
  <2>5. overtaken' \in SUBSET Folder
    BY <1>6, <2>1 DEF Commit, Record, Folders, Scan
  <2> QED
    BY <1>6, <2>2, <2>3, <2>4, <2>5 DEF Commit, Return, Record, store, looping, world, history, past
<1>7. CASE InitTargets
  BY <1>7 DEF InitTargets, store, looping, world, history, past
<1>8. CASE StatAnchor
  <2>1. nextAnchor \in Anchor
    BY <1>8, ProcessorAssumption DEF StatAnchor, Anchor
  <2>2. anchorState' \in [Anchor -> BOOLEAN]
    BY <1>8, <2>1, Zenon DEF StatAnchor
  <2>3. sighted' \in SUBSET Anchor
    BY <1>8, <2>1 DEF StatAnchor
  <2> QED
    BY <1>8, <2>2, <2>3 DEF StatAnchor, store, looping, world, history, past
<1>9. CASE AnchorsChecked
  BY <1>9 DEF AnchorsChecked, store, looping, world, history, past
<1>10. CASE TargetsAvailable
  BY <1>10 DEF TargetsAvailable, NoAnswer, Answer, store, looping, world, history, past
<1>11. CASE TargetsUnavailable
  BY <1>11 DEF TargetsUnavailable, Again, NoAnswer, Answer, store, looping, world, history, past
<1>12. CASE TargetCheckFatal
  BY <1>12, ExitTypes DEF TargetCheckFatal, store, looping, world, history, past
<1>13. ASSUME NEW f \in Folder, Pick(f)
      PROVE  TypeOK'
  BY <1>13 DEF Pick, store, looping, world, history, past
<1>14. CASE NoScans
  BY <1>14 DEF NoScans, Again, NoAnswer, Answer, store, looping, world, history, past
<1>15. CASE TargetsCalled
  BY <1>15 DEF TargetsCalled, store, looping, world, history, past
<1>16. CASE CallUnavailable
  <2>1. stats' \in [received : Nat, processed : Nat, retried : Nat]
    BY <1>16 DEF CallUnavailable
  <2>2. targetsAvailable' \in BOOLEAN
    BY <1>16, Zenon DEF CallUnavailable
  <2>3. answer' \in [Target -> Answer]
    BY <1>16, EmptyTypes DEF CallUnavailable, Again
  <2> QED
    BY <1>16, <2>1, <2>2, <2>3 DEF CallUnavailable, Again, store, looping, world, history, past
<1>17. CASE CallFatal
  BY <1>17, ExitTypes DEF CallFatal, store, looping, world, history, past
<1>18. CASE Delete
  <2>1. stats' \in [received : Nat, processed : Nat, retried : Nat]
    BY <1>18 DEF Delete
  <2>2. seen' \in [Folder -> SUBSET [at : Int, priority : Priority]]
    BY <1>18 DEF Delete
  <2>3. table' \in Table /\ draft' \in Table
    BY <1>18, EmptyTypes DEF Delete, Deleted, Table
  <2>4. answer' \in [Target -> Answer]
    BY <1>18, EmptyTypes DEF Delete, Again
  <2> QED
    BY <1>18, <2>1, <2>2, <2>3, <2>4 DEF Delete, Again, store, looping, world, history, past
<1>19. ASSUME NEW t \in Target, AnswerAvailable(t)
      PROVE  TypeOK'
  BY <1>19 DEF AnswerAvailable, Failed, Answer, store, looping, world, history, past
<1>20. ASSUME NEW t \in Target, AnswerScan(t)
      PROVE  TypeOK'
  <2>1. answer' \in [Target -> Answer] /\ faults' \in Nat
    BY <1>20 DEF AnswerScan, MayAnswer, Fault
  <2>2. owed' \in [Folder -> SUBSET Target] /\ verified' \in SUBSET Target
    BY <1>20 DEF AnswerScan
  <2> QED
    BY <1>20, <2>1, <2>2 DEF AnswerScan, store, looping, world, history, past
<1>21. CASE InitTargetsFails
  BY <1>21, ExitTypes DEF InitTargetsFails, store, looping, world, history, past
<1>22. CASE PickFails
  BY <1>22, ExitTypes DEF PickFails, Fault, store, looping, world, history, past
<1>23. CASE DeleteFails
  BY <1>23, ExitTypes DEF DeleteFails, Fault, store, looping, world, history, past
<1>24. CASE Crash
  BY <1>24, ExitTypes DEF Crash, Fault, store, looping, world, history, past
<1>25. CASE Tick
  BY <1>25 DEF Tick, store, looping, world, history, past
<1>26. CASE Boot
  BY <1>26 DEF Boot, store, looping, world, history, past
<1>27. ASSUME NEW t \in Target, TargetFails(t)
      PROVE  TypeOK'
  BY <1>27 DEF TargetFails, Fault, store, looping, world, history, past
<1>28. ASSUME NEW t \in Target, TargetRecovers(t)
      PROVE  TypeOK'
  BY <1>28 DEF TargetRecovers, store, looping, world, history, past
<1>29. ASSUME NEW a \in Anchor, AnchorLost(a)
      PROVE  TypeOK'
  BY <1>29 DEF AnchorLost, Fault, store, looping, world, history, past
<1>30. ASSUME NEW a \in Anchor, AnchorBack(a)
      PROVE  TypeOK'
  BY <1>30 DEF AnchorBack, store, looping, world, history, past
<1>31. CASE UNCHANGED vars
  BY <1>31 DEF vars, store, looping, world, history, past
<1> QED
  BY <1>1, <1>2, <1>3, <1>4, <1>5, <1>6, <1>7, <1>8, <1>9, <1>10, <1>11, <1>12, <1>13, <1>14, <1>15, <1>16, <1>17, <1>18, <1>19, <1>20, <1>21, <1>22, <1>23, <1>24, <1>25, <1>26, <1>27, <1>28, <1>29, <1>30, <1>31
  DEF Next, Trigger, Upserting, Looping, Process, Answering, Dying, World

\* The variables have their types in every behaviour.
THEOREM TypeCorrect == Spec => []TypeOK
BY InitTypes, NextTypes, PTL DEF Spec

-----------------------------------------------------------------------------
(* The connection.                                                          *)

\* The steps that touch the table, the connection or a batch.
LEMMA StoreSteps ==
  ASSUME [Next]_vars
  PROVE  \/ UNCHANGED <<store, seen>>
         \/ \E c \in Client :
              \/ \E b \in Batches : Add(c, b)
              \/ Begin(c) \/ BeginFails(c) \/ ExecUpsert(c) \/ Rollback(c) \/ Commit(c)
         \/ Delete
         \/ Exit
<1>1. CASE \E c \in Client : Trigger(c)
  BY <1>1 DEF Trigger, Upserting
<1>2. CASE Looping
  BY <1>2 DEF Looping, Process, InitTargets, StatAnchor, AnchorsChecked, TargetsAvailable,
       TargetsUnavailable, TargetCheckFatal, Pick, NoScans, TargetsCalled, CallUnavailable, CallFatal,
       history, past
<1>3. CASE \E t \in Target : Answering(t)
  BY <1>3 DEF Answering, AnswerAvailable, AnswerScan
<1>4. CASE Dying
  BY <1>4 DEF Dying, InitTargetsFails, PickFails, DeleteFails, Crash
<1>5. CASE World
  BY <1>5 DEF World, Tick, Boot, TargetFails, TargetRecovers, AnchorLost, AnchorBack, history, past
<1>6. CASE UNCHANGED vars
  BY <1>6 DEF vars, history, past
<1> QED
  BY <1>1, <1>2, <1>3, <1>4, <1>5, <1>6 DEF Next

\* At any time at most one transaction is open and it contains the table.
LEMMA ConnectionStep ==
  ASSUME TypeOK, ConnectionInv, [Next]_vars
  PROVE  ConnectionInv'
<1>1. CASE UNCHANGED store
  BY <1>1 DEF ConnectionInv, store
<1>2. ASSUME NEW c \in Client, NEW b \in Batches, Add(c, b)
      PROVE  ConnectionInv'
  <2>1. conn # Free => conn # c
    BY <1>2 DEF Add, ConnectionInv
  <2>2. UNCHANGED <<table, draft, conn, next>>
    BY <1>2 DEF Add
  <2>3. \A d \in Client : d # c => batch'[d] = batch[d]
    BY <1>2 DEF Add, TypeOK
  <2>4. conn # Free => batch'[conn] = batch[conn]
    BY <2>1, <2>3 DEF TypeOK
  <2> QED
    BY <2>2, <2>4 DEF ConnectionInv
<1>3. ASSUME NEW c \in Client, Begin(c)
      PROVE  ConnectionInv'
  <2>1. batch[c] \in Seq(Scan)
    BY DEF TypeOK
  <2> QED
    BY <1>3, <2>1, ProcessorAssumption DEF Begin, Waiting, ConnectionInv
<1>4. ASSUME NEW c \in Client, BeginFails(c)
      PROVE  ConnectionInv'
  BY <1>4 DEF BeginFails, Waiting, ConnectionInv
<1>5. ASSUME NEW c \in Client, ExecUpsert(c)
      PROVE  ConnectionInv'
  <2>1. batch[c] \in Seq(Scan) /\ next \in 1 .. Len(batch[c])
    BY <1>5 DEF TypeOK, ExecUpsert
  <2> DEFINE s == batch[c][next]
  <2>2. s \in Scan
    BY <2>1
  <2>3. draft' = Upserted(draft, s) /\ UNCHANGED <<table, conn, batch>> /\ next' = next + 1 /\ conn = c
    BY <1>5 DEF ExecUpsert
  <2>4. conn # Free
    BY <2>3, ProcessorAssumption
  <2> HIDE DEF s
  <2>5. \A f \in Folder : draft[f] # NoRow => draft'[f] # NoRow
    <3>1. draft \in Table
      BY DEF TypeOK
    <3>2. draft'[s.folder] # NoRow
      BY <2>2, <2>3, <3>1, UpsertedTable
    <3>3. \A f \in Folder : f # s.folder => draft'[f] = draft[f]
      BY <2>2, <2>3, <3>1, UpsertedTable
    <3> QED
      BY <3>2, <3>3
  <2>6. draft'[s.folder] # NoRow
    BY <2>2, <2>3, UpsertedTable DEF TypeOK
  <2>7. \A i \in 1 .. next : batch[c][i].folder \in Folder
    <3>1. \A i \in 1 .. next : batch[c][i] \in Scan
      BY <2>1
    <3> QED
      BY <3>1 DEF Scan
  <2>8. \A i \in 1 .. next : draft'[batch[c][i].folder] # NoRow
    <3> TAKE i \in 1 .. next
    <3>1. CASE i = next
      BY <3>1, <2>6 DEF s
    <3>2. CASE i # next
      BY <3>2, <2>1, <2>3, <2>4, <2>5, <2>7 DEF ConnectionInv
    <3> QED
      BY <3>1, <3>2
  <2> QED
    BY <2>1, <2>3, <2>4, <2>5, <2>8 DEF ConnectionInv
<1>6. ASSUME NEW c \in Client, Rollback(c)
      PROVE  ConnectionInv'
  BY <1>6 DEF Rollback, Return, ConnectionInv
<1>7. ASSUME NEW c \in Client, Commit(c)
      PROVE  ConnectionInv'
  BY <1>7 DEF Commit, Return, ConnectionInv
<1>8. CASE Delete
  BY <1>8 DEF Delete, ConnectionInv
<1>9. CASE Exit
  BY <1>9 DEF Exit, ConnectionInv
<1> QED
  BY StoreSteps, <1>1, <1>2, <1>3, <1>4, <1>5, <1>6, <1>7, <1>8, <1>9

-----------------------------------------------------------------------------
(* The scan in Process, and the scans that wait.                            *)

touched == <<table, loop, answer, picked, owed, overtaken>>

\* The steps that touch the table, the scan in Process or what the targets are owed.
LEMMA ProcessSteps ==
  ASSUME [Next]_vars
  PROVE  \/ UNCHANGED touched
         \/ \E c \in Client : Commit(c)
         \/ InitTargets \/ Boot \/ AnchorsChecked
         \/ TargetsAvailable \/ TargetsUnavailable
         \/ \E f \in Folder : Pick(f)
         \/ NoScans \/ TargetsCalled \/ CallUnavailable \/ Delete
         \/ \E t \in Target : AnswerAvailable(t) \/ AnswerScan(t)
         \/ Exit
<1>1. CASE \E c \in Client : Trigger(c)
  BY <1>1 DEF Trigger, Upserting, Add, Begin, BeginFails, ExecUpsert, Rollback,
       touched, looping, history, past
<1>2. CASE Looping
  BY <1>2 DEF Looping, Process, StatAnchor, TargetCheckFatal, CallFatal, touched, store, history, past
<1>3. CASE \E t \in Target : Answering(t)
  BY <1>3 DEF Answering
<1>4. CASE Dying
  BY <1>4 DEF Dying, InitTargetsFails, PickFails, DeleteFails, Crash
<1>5. CASE World
  BY <1>5 DEF World, Tick, TargetFails, TargetRecovers, AnchorLost, AnchorBack,
       touched, store, looping, history, past
<1>6. CASE UNCHANGED vars
  BY <1>6 DEF vars, touched, store, looping, history, past
<1> QED
  BY <1>1, <1>2, <1>3, <1>4, <1>5, <1>6 DEF Next

\* What a commit does to the folders of its batch and to the others.
LEMMA CommitEffect ==
  ASSUME TypeOK, ConnectionInv, NEW c \in Client, Commit(c)
  PROVE  /\ \A f \in Folders(batch[c]) : table'[f] # NoRow /\ owed'[f] = Target
         /\ \A f \in Folder \ Folders(batch[c]) : owed'[f] = owed[f]
         /\ \A f \in Folder : table[f] # NoRow => table'[f] # NoRow
         /\ overtaken' = overtaken \cup (Folders(batch[c]) \cap {picked})
         /\ Folders(batch[c]) \subseteq Folder
         /\ UNCHANGED <<loop, answer, picked>>
<1>1. batch[c] \in Seq(Scan)
  BY DEF TypeOK
<1>2. conn = c /\ conn # Free /\ next = Len(batch[c]) + 1
  BY <1>1, ProcessorAssumption DEF Commit, ConnectionInv, TypeOK
<1>3. \A i \in DOMAIN batch[c] : batch[c][i] \in Scan /\ i \in 1 .. next - 1
  BY <1>1, <1>2
<1>4. \A f \in Folders(batch[c]) : f \in Folder /\ draft[f] # NoRow
  BY <1>2, <1>3 DEF Folders, ConnectionInv, Scan
<1>5. table' = draft
  BY DEF Commit
<1>6. \A f \in Folder : owed'[f] = IF f \in Folders(batch[c]) THEN Target ELSE owed[f]
  BY DEF Commit, Record
<1>7. overtaken' = overtaken \cup (Folders(batch[c]) \cap {picked})
  BY DEF Commit, Record
<1>8. UNCHANGED <<loop, answer, picked>>
  BY DEF Commit, looping
<1>9. \A f \in Folder : table[f] # NoRow => table'[f] # NoRow
  BY <1>2, <1>5 DEF ConnectionInv
<1> QED
  BY <1>4, <1>5, <1>6, <1>7, <1>8, <1>9

\* The row of the scan in Process stays, and the targets that took it are owed nothing
\* unless it has been overtaken.
LEMMA ProcessStep ==
  ASSUME TypeOK, ConnectionInv, ProcessInv, [Next]_vars
  PROVE  ProcessInv'
<1> USE DEF Processing
<1>1. CASE UNCHANGED touched
  BY <1>1 DEF ProcessInv, touched
<1>2. ASSUME NEW c \in Client, Commit(c)
      PROVE  ProcessInv'
  BY <1>2, CommitEffect DEF ProcessInv
<1>3. CASE InitTargets \/ Boot \/ AnchorsChecked
  BY <1>3 DEF InitTargets, Boot, AnchorsChecked, ProcessInv, store, history, past
<1>4. CASE TargetsAvailable
  BY <1>4 DEF TargetsAvailable, ProcessInv, NoAnswer, Took
<1>5. CASE TargetsUnavailable \/ NoScans \/ CallUnavailable
  BY <1>5 DEF TargetsUnavailable, NoScans, CallUnavailable, Again, ProcessInv
<1>6. ASSUME NEW f \in Folder, Pick(f)
      PROVE  ProcessInv'
  <2>1. table[f] # NoRow
    BY <1>6 DEF Pick, Candidates, Available, Queued
  <2>2. answer' = NoAnswer /\ \A t \in Target : answer'[t] \notin Took
    BY <1>6 DEF Pick, ProcessInv, NoAnswer, Took
  <2> QED
    BY <1>6, <2>1, <2>2 DEF Pick, ProcessInv, store
<1>7. CASE TargetsCalled
  <2>1. \A t \in Target : answer[t] \in Took
    <3>1. \A t \in Target : answer[t] \notin Failure /\ answer[t] # "none"
      BY <1>7 DEF TargetsCalled, CallSucceeds, Answered, Failing
    <3> QED
      BY <3>1 DEF TypeOK, Answer, Took, Failure
  <2> QED
    BY <1>7, <2>1 DEF TargetsCalled, ProcessInv, store, history, past
<1>8. CASE Delete
  BY <1>8 DEF Delete, Again, ProcessInv
<1>9. ASSUME NEW t \in Target, AnswerAvailable(t)
      PROVE  ProcessInv'
  BY <1>9 DEF AnswerAvailable, ProcessInv, store
<1>10. ASSUME NEW t \in Target, AnswerScan(t)
       PROVE  ProcessInv'
  <2>1. \A u \in Target : u # t => answer'[u] = answer[u]
    BY <1>10 DEF AnswerScan, TypeOK
  <2>2. loop = "call" /\ UNCHANGED <<table, loop, picked, overtaken>> /\ picked \in Folder
    BY <1>10 DEF AnswerScan, store, ProcessInv
  <2>3. picked \notin overtaken => \A u \in Target : answer'[u] \in Took => u \notin owed'[picked]
    <3> SUFFICES ASSUME picked \notin overtaken, NEW u \in Target, answer'[u] \in Took
                 PROVE  u \notin owed'[picked]
      OBVIOUS
    <3>1. CASE Failed(t)
      <4>1. u # t /\ owed' = owed
        BY <1>10, <3>1 DEF AnswerScan, Failed, Failure, Took
      <4> QED
        BY <2>1, <2>2, <4>1 DEF ProcessInv
    <3>2. CASE ~Failed(t)
      <4>1. owed'[picked] = owed[picked] \ {t}
        BY <1>10, <2>2, <3>2 DEF AnswerScan, TypeOK
      <4> QED
        BY <2>1, <2>2, <4>1 DEF ProcessInv
    <3> QED
      BY <3>1, <3>2
  <2> QED
    BY <2>2, <2>3 DEF ProcessInv
<1>11. CASE Exit
  BY <1>11 DEF Exit, ProcessInv
<1> QED
  BY ProcessSteps, <1>1, <1>2, <1>3, <1>4, <1>5, <1>6, <1>7, <1>8, <1>9, <1>10, <1>11

\* A committed scan waits until every target has taken it, or has been overtaken.
LEMMA NoScanLostStep ==
  ASSUME TypeOK, ConnectionInv, ProcessInv, NoScanLost, [Next]_vars
  PROVE  NoScanLost'
<1>1. CASE UNCHANGED touched
  BY <1>1 DEF NoScanLost, touched
<1>2. ASSUME NEW c \in Client, Commit(c)
      PROVE  NoScanLost'
  BY <1>2, CommitEffect DEF NoScanLost
<1>3. CASE InitTargets \/ Boot \/ AnchorsChecked \/ TargetsAvailable \/ TargetsUnavailable
           \/ NoScans \/ TargetsCalled \/ CallUnavailable \/ Exit
  BY <1>3 DEF InitTargets, Boot, AnchorsChecked, TargetsAvailable, TargetsUnavailable,
       NoScans, TargetsCalled, CallUnavailable, Exit, NoScanLost, store, history, past
<1>4. ASSUME NEW f \in Folder, Pick(f)
      PROVE  NoScanLost'
  BY <1>4 DEF Pick, Candidates, Available, Queued, NoScanLost, store
<1>5. CASE Delete
  <2>1. picked \in Folder /\ loop = "delete"
    BY <1>5 DEF Delete, ProcessInv, Processing
  <2>2. picked \notin overtaken => owed[picked] = {}
    BY <2>1 DEF ProcessInv, Processing, TypeOK
  <2>3. \A f \in Folder : f # picked => table'[f] = table[f]
    BY <1>5, <2>1, DeletedTable DEF Delete, TypeOK
  <2> QED
    BY <1>5, <2>1, <2>2, <2>3 DEF Delete, NoScanLost
<1>6. ASSUME NEW t \in Target, AnswerAvailable(t)
      PROVE  NoScanLost'
  BY <1>6 DEF AnswerAvailable, NoScanLost, store
<1>7. ASSUME NEW t \in Target, AnswerScan(t)
      PROVE  NoScanLost'
  <2>1. \A f \in Folder : owed'[f] \subseteq owed[f]
    BY <1>7 DEF AnswerScan, TypeOK
  <2> QED
    BY <1>7, <2>1 DEF AnswerScan, NoScanLost, store
<1> QED
  BY ProcessSteps, <1>1, <1>2, <1>3, <1>4, <1>5, <1>6, <1>7

\* Only GetAvailableScan begins the processing of a folder.
LEMMA DispatchIsPick ==
  ASSUME [Next]_vars, NEW f \in Folder, Dispatch(f)
  PROVE  Pick(f)
<1> USE DEF Dispatch
<1>1. picked' = f /\ picked # f /\ f # NoFolder
  BY ProcessorAssumption
<1>2. ~UNCHANGED picked
  BY <1>1
<1>3. ASSUME NEW g \in Folder, Pick(g)
      PROVE  Pick(f)
  BY <1>1, <1>3 DEF Pick
<1>4. CASE Exit
  BY <1>1, <1>4 DEF Exit
<1>5. CASE TargetsUnavailable \/ NoScans \/ CallUnavailable \/ Delete
  BY <1>1, <1>5 DEF TargetsUnavailable, NoScans, CallUnavailable, Delete, Again
<1> QED
  BY ProcessSteps, <1>2, <1>3, <1>4, <1>5
  DEF touched, Commit, InitTargets, Boot, AnchorsChecked, TargetsAvailable, TargetsCalled,
      AnswerAvailable, AnswerScan, looping

-----------------------------------------------------------------------------
(* The gates.                                                               *)

seenByLoop == <<loop, nextAnchor, anchorState, targetsAvailable, answer, verified, sighted>>

\* The steps that touch what the gates depend on.
LEMMA GateSteps ==
  ASSUME [Next]_vars
  PROVE  \/ UNCHANGED seenByLoop
         \/ InitTargets \/ Boot \/ StatAnchor \/ AnchorsChecked
         \/ TargetsAvailable \/ TargetsUnavailable
         \/ \E f \in Folder : Pick(f)
         \/ NoScans \/ TargetsCalled \/ CallUnavailable \/ Delete
         \/ \E t \in Target : AnswerAvailable(t) \/ AnswerScan(t)
         \/ Exit
<1>1. CASE \E c \in Client : Trigger(c)
  BY <1>1 DEF Trigger, Upserting, Add, Begin, BeginFails, ExecUpsert, Rollback, Commit, Record,
       seenByLoop, looping, history, past
<1>2. CASE Looping
  BY <1>2 DEF Looping, Process, TargetCheckFatal, CallFatal
<1>3. CASE \E t \in Target : Answering(t)
  BY <1>3 DEF Answering
<1>4. CASE Dying
  BY <1>4 DEF Dying, InitTargetsFails, PickFails, DeleteFails, Crash
<1>5. CASE World
  BY <1>5 DEF World, Tick, TargetFails, TargetRecovers, AnchorLost, AnchorBack,
       seenByLoop, looping, history, past
<1>6. CASE UNCHANGED vars
  BY <1>6 DEF vars, seenByLoop, looping, history, past
<1> QED
  BY <1>1, <1>2, <1>3, <1>4, <1>5, <1>6 DEF Next

\* The loop is at Process only behind its gates.
LEMMA GateStep ==
  ASSUME TypeOK, ProcessInv, GateInv, [Next]_vars
  PROVE  GateInv'
<1>0. \A a \in Anchor : ~(a < 1)
  BY DEF Anchor
<1>1. CASE UNCHANGED seenByLoop
  BY <1>1 DEF GateInv, seenByLoop
<1>2. CASE InitTargets \/ Boot
  BY <1>0, <1>2 DEF InitTargets, Boot, GateInv, history, past
<1>3. CASE StatAnchor
  <2>1. /\ loop = "anchors" /\ nextAnchor \in Anchor /\ nextAnchor' = nextAnchor + 1
        /\ UNCHANGED <<loop, targetsAvailable, answer, verified>>
    BY <1>3, ProcessorAssumption DEF StatAnchor, Anchor, TypeOK, history, past
  <2>2. /\ anchorState'[nextAnchor] => nextAnchor \in sighted'
        /\ \A a \in Anchor : a # nextAnchor => anchorState'[a] = anchorState[a]
        /\ sighted \subseteq sighted'
    BY <1>3, <2>1 DEF StatAnchor, TypeOK
  <2>3. \A a \in Anchor : a < nextAnchor' => a < nextAnchor \/ a = nextAnchor
    BY <2>1 DEF Anchor
  <2>4. \A a \in Anchor : (a < nextAnchor' /\ anchorState'[a]) => a \in sighted'
    BY <2>1, <2>2, <2>3 DEF GateInv
  <2> QED
    BY <2>1, <2>4 DEF GateInv
<1>4. CASE AnchorsChecked
  <2>1. answer = NoAnswer
    BY <1>4 DEF AnchorsChecked, ProcessInv, Processing
  <2>2. \A t \in Target : answer[t] # "ok"
    BY <2>1 DEF NoAnswer
  <2>3. AllAnchorsAvailable => sighted' = Anchor
    <3>1. \A a \in Anchor : a < nextAnchor
      BY <1>4, ProcessorAssumption DEF AnchorsChecked, Anchor, TypeOK
    <3>2. AllAnchorsAvailable => \A a \in Anchor : a \in sighted
      BY <1>4, <3>1 DEF AnchorsChecked, AllAnchorsAvailable, GateInv
    <3> QED
      BY <1>4, <3>2 DEF AnchorsChecked, TypeOK
  <2>4. \A a \in Anchor : ~(a < nextAnchor')
    BY <1>0, <1>4 DEF AnchorsChecked
  <2> QED
    BY <1>4, <2>2, <2>3, <2>4 DEF AnchorsChecked, GateInv, history, past
<1>5. CASE TargetsAvailable
  BY <1>5 DEF TargetsAvailable, GateInv, history, past
<1>6. CASE TargetsUnavailable
  BY <1>0, <1>6 DEF TargetsUnavailable, Again, GateInv, history, past
<1>7. CASE NoScans
  BY <1>0, <1>7 DEF NoScans, Again, GateInv, history, past
<1>8. ASSUME NEW f \in Folder, Pick(f)
      PROVE  GateInv'
  BY <1>8 DEF Pick, GateInv
<1>9. CASE TargetsCalled
  BY <1>9 DEF TargetsCalled, CallSucceeds, Failing, GateInv, history, past
<1>10. CASE CallUnavailable
  BY <1>0, <1>10 DEF CallUnavailable, Again, GateInv, history, past
<1>11. CASE Delete
  BY <1>0, <1>11 DEF Delete, Again, GateInv
<1>12. ASSUME NEW t \in Target, AnswerAvailable(t)
       PROVE  GateInv'
  <2>1. /\ loop = "checking"
        /\ UNCHANGED <<loop, nextAnchor, anchorState, targetsAvailable, sighted>>
        /\ \A u \in Target : u # t => answer'[u] = answer[u]
        /\ \A u \in Target : u # t => (u \in verified' <=> u \in verified)
    BY <1>12 DEF AnswerAvailable, TypeOK
  <2>2. answer'[t] = "ok" => t \in verified'
    BY <1>12 DEF AnswerAvailable, Failed, Failure
  <2>3. ~targetsAvailable
    BY <2>1 DEF GateInv
  <2> QED
    BY <2>1, <2>2, <2>3 DEF GateInv
<1>13. ASSUME NEW t \in Target, AnswerScan(t)
       PROVE  GateInv'
  BY <1>13 DEF AnswerScan, Failed, Failure, GateInv, TypeOK
<1>14. CASE Exit
  BY <1>14 DEF Exit, GateInv
<1> QED
  BY GateSteps, <1>1, <1>2, <1>3, <1>4, <1>5, <1>6, <1>7, <1>8, <1>9, <1>10, <1>11, <1>12, <1>13, <1>14

-----------------------------------------------------------------------------
(* The theorems.                                                            *)

\* The strengthened invariant holds at the start.
LEMMA InitInv == Init => IInv
<1> SUFFICES ASSUME Init
             PROVE  IInv
  OBVIOUS
<1>1. TypeOK
  BY InitTypes
<1>2. ConnectionInv
  BY DEF Init, ConnectionInv
<1>3. ProcessInv
  BY DEF Init, ProcessInv, Processing
<1>4. GateInv
  BY DEF Init, GateInv
<1>5. NoScanLost
  BY DEF Init, NoScanLost
<1> QED
  BY <1>1, <1>2, <1>3, <1>4, <1>5 DEF IInv

\* Every step keeps it.
LEMMA NextInv == IInv /\ [Next]_vars => IInv'
BY NextTypes, ConnectionStep, ProcessStep, GateStep, NoScanLostStep DEF IInv

\* The strengthened invariant holds in every behaviour.
THEOREM Invariance == Spec => []IInv
BY InitInv, NextInv, PTL DEF Spec

\* A committed scan is in the table until every target has taken it, unless it was
\* committed while its folder was in Process: NoScanLost, whatever fails or exits.
THEOREM ScansAreNotLost == Spec => []NoScanLost
<1>1. IInv => NoScanLost
  BY DEF IInv
<1> QED
  BY <1>1, Invariance, PTL

\* No scan begins before every anchor was found in this round and every target that failed was
\* available again: DispatchIsGated.
THEOREM DispatchesAreGated == Spec => DispatchIsGated
<1> DEFINE A == \A f \in Folder : Dispatch(f) => sighted = Anchor /\ verified = Target
<1>1. IInv /\ [Next]_vars => [A]_vars
  <2> SUFFICES ASSUME IInv, [Next]_vars, NEW f \in Folder, Dispatch(f)
               PROVE  sighted = Anchor /\ verified = Target
    OBVIOUS
  <2>1. loop = "pick"
    BY DispatchIsPick DEF Pick
  <2> QED
    BY <2>1 DEF IInv, GateInv, TypeOK
<1> QED
  BY <1>1, Invariance, PTL DEF Spec, DispatchIsGated

-----------------------------------------------------------------------------
(* The refinement of ScanQueue.                                             *)

\* An empty table, no attempt.
LEMMA QueueInit == Init => Queue!Init
BY DEF Init, Queue!Init, TookScan, Processing, Queued, EmptyTable

\* Every step of the processor is one of the queue, or none.
LEMMA QueueStep ==
  ASSUME IInv, [Next]_vars
  PROVE  [Queue!Next]_Queue!vars
<1> USE DEF IInv, Processing
<1>1. CASE UNCHANGED touched
  BY <1>1 DEF touched, Queue!vars, TookScan, Queued
<1>2. ASSUME NEW c \in Client, Commit(c)
      PROVE  Queue!Next
  <2>1. Queued(table)' = Queued(table) \cup Queued(table)'
    BY <1>2, CommitEffect DEF Queued
  <2>2. UNCHANGED <<picked, TookScan>>
    BY <1>2, CommitEffect DEF TookScan
  <2>3. Queued(table)' \in SUBSET Folder
    BY DEF Queued
  <2>4. Queue!Enqueue(Queued(table)')
    BY <2>1, <2>2 DEF Queue!Enqueue
  <2> QED
    BY <2>3, <2>4 DEF Queue!Next
<1>3. CASE InitTargets \/ Boot \/ AnchorsChecked \/ TargetsAvailable \/ TargetsUnavailable \/ NoScans
  <2>1. UNCHANGED <<table, picked>> /\ ~Processing /\ ~Processing'
    BY <1>3 DEF InitTargets, Boot, AnchorsChecked, TargetsAvailable, TargetsUnavailable, NoScans,
         Again, ProcessInv, store
  <2> QED
    BY <2>1 DEF Queue!vars, TookScan, Queued
<1>4. ASSUME NEW f \in Folder, Pick(f)
      PROVE  Queue!Next
  <2>1. picked = NoFolder /\ f \in Queued(table) /\ picked' = f /\ table' = table
    BY <1>4 DEF Pick, Candidates, Available, ProcessInv, store
  <2>2. TookScan' = {}
    BY <1>4 DEF Pick, ProcessInv, NoAnswer, TookScan, Took
  <2> QED
    BY <2>1, <2>2 DEF Queue!Next, Queue!Start, Queued
<1>5. CASE TargetsCalled
  BY <1>5 DEF TargetsCalled, Queue!vars, TookScan, Queued, store
<1>6. CASE CallUnavailable
  <2>1. picked # NoFolder /\ picked' = NoFolder /\ table' = table /\ TookScan' = {}
    BY <1>6, ProcessorAssumption DEF CallUnavailable, Again, ProcessInv, TookScan, store
  <2> QED
    BY <2>1 DEF Queue!Next, Queue!Abandon, Queue!Idle, Queued
<1>7. CASE Delete
  <2>1. picked \in Folder /\ picked # NoFolder /\ TookScan = Target
    BY <1>7, ProcessorAssumption DEF Delete, ProcessInv, TookScan
  <2>2. picked' = NoFolder /\ TookScan' = {}
    BY <1>7 DEF Delete, Again, TookScan
  <2>3. Queued(table)' = Queued(table) \ {picked}
    BY <1>7, <2>1, DeletedTable DEF Delete, Queued, TypeOK
  <2> QED
    BY <2>1, <2>2, <2>3 DEF Queue!Next, Queue!Finish, Queue!Idle
<1>8. ASSUME NEW t \in Target, AnswerAvailable(t)
      PROVE  UNCHANGED Queue!vars
  BY <1>8 DEF AnswerAvailable, Queue!vars, TookScan, Queued, store
<1>9. ASSUME NEW t \in Target, AnswerScan(t)
      PROVE  [Queue!Next]_Queue!vars
  <2>1. UNCHANGED <<table, picked, loop>> /\ loop = "call" /\ picked # NoFolder
    BY <1>9, ProcessorAssumption DEF AnswerScan, ProcessInv, store
  <2>2. /\ \A u \in Target : u # t => answer'[u] = answer[u]
        /\ answer[t] \notin Took
    BY <1>9 DEF AnswerScan, TypeOK, Took
  <2>3. CASE answer'[t] \in Took
    <3>1. TookScan' = TookScan \cup {t}
      BY <2>1, <2>2, <2>3 DEF TookScan
    <3> QED
      BY <2>1, <3>1 DEF Queue!Next, Queue!Take, Queued
  <2>4. CASE answer'[t] \notin Took
    <3>1. TookScan' = TookScan
      BY <2>1, <2>2, <2>4 DEF TookScan
    <3> QED
      BY <2>1, <3>1 DEF Queue!vars, Queued
  <2> QED
    BY <2>3, <2>4
<1>10. CASE Exit
  <2>1. table' = table /\ picked' = NoFolder /\ TookScan' = {}
    BY <1>10 DEF Exit, TookScan
  <2>2. CASE picked = NoFolder
    <3>1. TookScan = {}
      BY <2>2, ProcessorAssumption DEF ProcessInv, TookScan
    <3> QED
      BY <2>1, <2>2, <3>1 DEF Queue!vars, Queued
  <2>3. CASE picked # NoFolder
    BY <2>1, <2>3 DEF Queue!Next, Queue!Abandon, Queue!Idle, Queued
  <2> QED
    BY <2>2, <2>3
<1> QED
  BY ProcessSteps, <1>1, <1>2, <1>3, <1>4, <1>5, <1>6, <1>7, <1>8, <1>9, <1>10

\* The processor is an at-least-once queue: ImplementsQueue.
THEOREM ProcessorImplementsQueue == Spec => ImplementsQueue
BY QueueInit, QueueStep, Invariance, PTL DEF Spec, ImplementsQueue, Queue!Spec

-----------------------------------------------------------------------------
(* The minimum age, in real time.                                           *)

\* Seconds truncates downwards.
LEMMA SecondsTruncates ==
  ASSUME NEW n \in Int
  PROVE  /\ Seconds(n) \in Int
         /\ TicksPerSecond * Seconds(n) =< n
         /\ n < TicksPerSecond * Seconds(n) + TicksPerSecond
BY ProcessorAssumption DEF Seconds

\* A scan is stamped with the second its moment is in.
LEMMA StampInSecond ==
  ASSUME clock \in Nat, NEW e \in Entry
  PROVE  InItsSecond(Stamped(e))
<1> DEFINE n == clock + e.offset
           q == Seconds(n)
           k == TicksPerSecond
<1>1. n \in Int /\ k \in Int
  BY ProcessorAssumption DEF Entry
<1>2. q \in Int /\ n < k * q + k
  BY <1>1, SecondsTruncates
<1>3. Stamped(e).at = n /\ Stamped(e).time = q
  BY DEF Stamped
<1> HIDE DEF n, q, k
<1>4. n < (q + 1) * k
  BY <1>1, <1>2
<1> QED
  BY <1>3, <1>4 DEF InItsSecond, k

\* A row before the cutoff is older than the minimum age.
LEMMA BeforeCutoffIsAged ==
  ASSUME clock \in Nat, NEW r \in Row, InItsSecond(r), r.time < Cutoff
  PROVE  clock - r.at > MinAge
<1> DEFINE q == Cutoff
           k == TicksPerSecond
<1>1. /\ q \in Int /\ k \in Int /\ k > 0 /\ clock \in Int /\ MinAge \in Int
      /\ r.time \in Int /\ r.at \in Int
  BY SecondsTruncates, ProcessorAssumption DEF Cutoff, Row
<1>2. k * q =< clock - MinAge
  BY SecondsTruncates, ProcessorAssumption DEF Cutoff
<1>3. r.at < (r.time + 1) * k /\ r.time + 1 =< q
  BY <1>1 DEF InItsSecond
<1> HIDE DEF q, k
<1>4. (r.time + 1) * k =< q * k
  BY <1>1, <1>3
<1>5. r.at < clock - MinAge
  BY <1>1, <1>2, <1>3, <1>4
<1> QED
  BY <1>1, <1>5

\* Merging keeps the moment and the second of the scan.
LEMMA MergedInSecond ==
  ASSUME NEW s \in Scan, InItsSecond(s), NEW T \in Table
  PROVE  InItsSecond(Upserted(T, s)[s.folder])
<1>1. s.folder \in Folder
  BY DEF Scan
<1>2. RowOf(s).at = s.at /\ RowOf(s).time = s.time
  BY DEF RowOf
<1>3. ASSUME NEW r \in Row
      PROVE  Merged(r, s).at = s.at /\ Merged(r, s).time = s.time
  BY <1>2 DEF Merged, RowOf
<1>4. T[s.folder] \in Row \cup {NoRow}
  BY <1>1 DEF Table
<1>5. Upserted(T, s)[s.folder] = IF T[s.folder] = NoRow THEN RowOf(s) ELSE Merged(T[s.folder], s)
  BY <1>1 DEF Upserted, Table
<1> QED
  BY <1>2, <1>3, <1>4, <1>5 DEF InItsSecond

\* Every scan and row is in its second.
LEMMA TimeStep ==
  ASSUME TypeOK, ConnectionInv, TimeInv, [Next]_vars, ProcessInv
  PROVE  TimeInv'
<1>1. CASE UNCHANGED store
  BY <1>1 DEF TimeInv, store, InItsSecond
<1>2. ASSUME NEW c \in Client, NEW b \in Batches, Add(c, b)
      PROVE  TimeInv'
  <2>1. \A i \in DOMAIN b : b[i] \in Entry
    BY ProcessorAssumption
  <2>2. \A i \in DOMAIN b : InItsSecond(Stamped(b[i]))
    BY <2>1, StampInSecond DEF TypeOK
  <2>3. batch' = [batch EXCEPT ![c] = [i \in DOMAIN b |-> Stamped(b[i])]]
    BY <1>2 DEF Add
  <2>4. \A d \in Client : \A i \in DOMAIN batch'[d] : InItsSecond(batch'[d][i])
    <3> SUFFICES ASSUME NEW d \in Client, NEW i \in DOMAIN batch'[d]
                 PROVE  InItsSecond(batch'[d][i])
      OBVIOUS
    <3>1. CASE d = c
      <4>1. batch'[d] = [j \in DOMAIN b |-> Stamped(b[j])]
        BY <2>3, <3>1 DEF TypeOK
      <4>2. i \in DOMAIN b /\ batch'[d][i] = Stamped(b[i])
        BY <4>1
      <4> QED
        BY <2>2, <4>2
    <3>2. CASE d # c
      BY <2>3, <3>2 DEF TypeOK, TimeInv
    <3> QED
      BY <3>1, <3>2
  <2> QED
    BY <1>2, <2>4 DEF Add, TimeInv, InItsSecond
<1>3. ASSUME NEW c \in Client, Begin(c)
      PROVE  TimeInv'
  BY <1>3 DEF Begin, TimeInv, InItsSecond
<1>4. ASSUME NEW c \in Client, batch' = [batch EXCEPT ![c] = <<>>], table' \in {table, draft},
             draft' \in {table, draft}
      PROVE  TimeInv'
  <2>1. \A d \in Client : \A i \in DOMAIN batch'[d] : InItsSecond(batch'[d][i])
    BY <1>4 DEF TypeOK, TimeInv
  <2> QED
    BY <1>4, <2>1 DEF TimeInv, InItsSecond
<1>5. ASSUME NEW c \in Client, ExecUpsert(c)
      PROVE  TimeInv'
  <2>1. batch[c] \in Seq(Scan) /\ next \in DOMAIN batch[c]
    BY <1>5 DEF TypeOK, ExecUpsert
  <2> DEFINE s == batch[c][next]
  <2>2. s \in Scan /\ InItsSecond(s)
    BY <2>1 DEF TimeInv
  <2>3. draft' = Upserted(draft, s) /\ UNCHANGED <<table, batch>>
    BY <1>5 DEF ExecUpsert
  <2> HIDE DEF s
  <2>4. draft \in Table
    BY DEF TypeOK
  <2>5. InItsSecond(draft'[s.folder])
    BY <2>2, <2>3, <2>4, MergedInSecond
  <2>6. \A f \in Folder : f # s.folder => draft'[f] = draft[f]
    BY <2>2, <2>3, <2>4, UpsertedTable
  <2>7. \A f \in Folder : draft'[f] # NoRow => InItsSecond(draft'[f])
    BY <2>5, <2>6 DEF TimeInv
  <2> QED
    BY <2>3, <2>7 DEF TimeInv, InItsSecond
<1>6. CASE Delete
  <2>1. picked \in Folder
    BY <1>6 DEF Delete, ProcessInv, Processing
  <2>2. /\ table'[picked] = NoRow
        /\ \A f \in Folder : f # picked => table'[f] = table[f]
    BY <1>6, <2>1, DeletedTable DEF Delete, TypeOK
  <2>3. draft' = table' /\ batch' = batch
    BY <1>6 DEF Delete
  <2>4. \A f \in Folder : table'[f] # NoRow => InItsSecond(table'[f])
    BY <2>2 DEF TimeInv
  <2> QED
    BY <2>3, <2>4 DEF TimeInv, InItsSecond
<1>7. CASE Exit
  <2>1. \A d \in Client : \A i \in DOMAIN batch'[d] : InItsSecond(batch'[d][i])
    BY <1>7 DEF Exit
  <2> QED
    BY <1>7, <2>1 DEF Exit, TimeInv, InItsSecond
<1>8. ASSUME NEW c \in Client, BeginFails(c) \/ Rollback(c) \/ Commit(c)
      PROVE  TimeInv'
  BY <1>4, <1>8 DEF BeginFails, Rollback, Commit, Return
<1> QED
  BY StoreSteps, <1>1, <1>2, <1>3, <1>5, <1>6, <1>7, <1>8

\* No folder is handed over before more than the minimum age has passed since its last
\* committed event: MinAgeRespected.
THEOREM MinAgeIsRespected == Spec => MinAgeRespected
<1> DEFINE Aged == \A f \in Folder : Dispatch(f) => clock - table[f].at > MinAge
<1>1. Init => TimeInv
  BY DEF Init, TimeInv, EmptyTable
<1>2. IInv /\ TimeInv /\ [Next]_vars => TimeInv'
  BY TimeStep DEF IInv
<1>3. IInv /\ TimeInv /\ [Next]_vars => [Aged]_vars
  <2> SUFFICES ASSUME IInv, TimeInv, [Next]_vars, NEW f \in Folder, Dispatch(f)
               PROVE  clock - table[f].at > MinAge
    OBVIOUS
  <2>1. table[f] # NoRow /\ table[f].time < Cutoff
    BY DispatchIsPick DEF Pick, Candidates, Available, Queued
  <2>2. clock \in Nat /\ table[f] \in Row
    BY <2>1 DEF IInv, TypeOK, Table
  <2>3. InItsSecond(table[f])
    BY <2>1 DEF TimeInv
  <2> QED
    BY <2>1, <2>2, <2>3, BeforeCutoffIsAged
<1> QED
  BY <1>1, <1>2, <1>3, Invariance, PTL DEF Spec, MinAgeRespected

-----------------------------------------------------------------------------
(* The rows and the committed events.                                       *)

\* An upsert adds its event to what the row of its folder says.
LEMMA UpsertSays ==
  ASSUME NEW T \in Table, NEW s \in Scan, NEW E, \A e \in E : e.priority \in Priority,
         Says(T[s.folder], E)
  PROVE  Says(Upserted(T, s)[s.folder], E \cup {[at |-> s.at, priority |-> s.priority]})
<1> DEFINE e == [at |-> s.at, priority |-> s.priority]
<1>1. s.folder \in Folder /\ s.priority \in Int
  BY StoreAssumption DEF Scan
<1>2. e.at = s.at /\ e.priority = s.priority
  OBVIOUS
<1> HIDE DEF e
<1>3. Upserted(T, s)[s.folder] # NoRow
  BY UpsertedTable
<1>4. CASE T[s.folder] = NoRow
  <2>1. Upserted(T, s)[s.folder] = RowOf(s) /\ E = {}
    BY <1>1, <1>4 DEF Upserted, Table, Says
  <2>2. RowOf(s).at = s.at /\ RowOf(s).priority = s.priority
    BY DEF RowOf
  <2>3. Says(RowOf(s), {e})
    BY <1>1, <1>2, <1>3, <2>1, <2>2 DEF Says
  <2> QED
    BY <2>1, <2>3 DEF e
<1>5. CASE T[s.folder] # NoRow
  <2> DEFINE r == T[s.folder]
             m == Upserted(T, s)[s.folder]
  <2>1. r \in Row
    BY <1>1, <1>5 DEF Table
  <2>2. r.priority \in Int
    BY <2>1, StoreAssumption DEF Row
  <2>3. m = Merged(r, s)
    BY <1>1, <1>5 DEF Upserted, Table
  <2>4. m.at = s.at /\ m.priority = Larger(s.priority, r.priority)
    BY <2>3 DEF Merged, RowOf
  <2>5. /\ \E d \in E : d.priority = r.priority
        /\ \A d \in E : d.priority =< r.priority
    BY <1>5 DEF Says
  <2> HIDE DEF r, m
  <2>6. \A d \in E : d.priority \in Int
    BY StoreAssumption
  <2>7. \E d \in E \cup {e} : d.priority = m.priority
    BY <1>2, <2>4, <2>5 DEF Larger
  <2>8. \A d \in E \cup {e} : d.priority =< m.priority
    BY <1>1, <1>2, <2>2, <2>4, <2>5, <2>6 DEF Larger
  <2>9. \E d \in E \cup {e} : d.at = m.at
    BY <1>2, <2>4
  <2> QED
    BY <1>3, <2>7, <2>8, <2>9 DEF Says, e, m
<1> QED
  BY <1>4, <1>5

\* The events of one scan more.
LEMMA EventsGrow ==
  ASSUME NEW scans \in Seq(Scan), NEW n \in 1 .. Len(scans), NEW f \in Folder
  PROVE  /\ scans[n].folder # f => Events(scans, n, f) = Events(scans, n - 1, f)
         /\ scans[n].folder = f =>
              Events(scans, n, f) = Events(scans, n - 1, f) \cup
                                      {[at |-> scans[n].at, priority |-> scans[n].priority]}
<1>1. 1 .. n = (1 .. n - 1) \cup {n}
  OBVIOUS
<1> QED
  BY <1>1 DEF Events

\* Every step keeps what the rows say.
LEMMA RowsStep ==
  ASSUME TypeOK, ConnectionInv, ProcessInv, RowsInv, [Next]_vars
  PROVE  RowsInv'
<1> USE DEF RowsInv, RowsAreCommittedEvents
<1>1. CASE UNCHANGED <<store, seen>>
  BY <1>1 DEF DraftInv, store
<1>2. ASSUME NEW c \in Client, NEW b \in Batches, Add(c, b)
      PROVE  RowsInv'
  <2>1. conn # Free => conn # c
    BY <1>2 DEF Add, ConnectionInv
  <2>2. conn # Free => batch'[conn] = batch[conn]
    BY <1>2, <2>1 DEF Add, TypeOK
  <2> QED
    BY <1>2, <2>2 DEF Add, DraftInv, history, past
<1>3. ASSUME NEW c \in Client, Begin(c)
      PROVE  RowsInv'
  <2>1. /\ draft = table /\ next' = 1 /\ conn' = c
        /\ UNCHANGED <<table, draft, batch, seen>>
    BY <1>3 DEF Begin, ConnectionInv, history, past
  <2>2. \A f \in Folder : Events(batch[c], 0, f) = {}
    BY DEF Events
  <2>3. \A f \in Folder : Events(batch'[conn'], next' - 1, f) = {}
    BY <2>1, <2>2
  <2> QED
    BY <2>1, <2>3 DEF DraftInv
<1>4. ASSUME NEW c \in Client, BeginFails(c)
      PROVE  RowsInv'
  BY <1>4 DEF BeginFails, DraftInv, history, past
<1>5. ASSUME NEW c \in Client, ExecUpsert(c)
      PROVE  RowsInv'
  <2>1. batch[c] \in Seq(Scan) /\ next \in 1 .. Len(batch[c])
    BY <1>5 DEF TypeOK, ExecUpsert
  <2>2. /\ draft' = Upserted(draft, batch[c][next]) /\ next' = next + 1 /\ conn = c
        /\ UNCHANGED <<table, conn, batch, seen>>
    BY <1>5 DEF ExecUpsert, history, past
  <2>3. batch[c][next] \in Scan /\ draft \in Table /\ conn # Free
    BY <2>1, <2>2, ProcessorAssumption DEF TypeOK
  <2>4. ASSUME NEW f \in Folder
        PROVE  Says(draft'[f], seen[f] \cup Events(batch[c], next, f))
    <3> DEFINE E == seen[f] \cup Events(batch[c], next - 1, f)
    <3>1. Says(draft[f], E)
      BY <2>2, <2>3 DEF DraftInv
    <3>2. CASE batch[c][next].folder # f
      <4>1. draft'[f] = draft[f]
        BY <2>2, <2>3, <3>2, UpsertedTable
      <4> QED
        BY <2>1, <3>1, <3>2, <4>1, EventsGrow
    <3>3. CASE batch[c][next].folder = f
      <4>1. \A e \in E : e.priority \in Priority
        <5>1. \A e \in seen[f] : e.priority \in Priority
          BY DEF TypeOK
        <5>2. \A i \in 1 .. next - 1 : batch[c][i] \in Scan
          BY <2>1
        <5>3. \A e \in Events(batch[c], next - 1, f) : e.priority \in Priority
          BY <5>2 DEF Events, Scan
        <5> QED
          BY <5>1, <5>3
      <4> DEFINE s == batch[c][next]
      <4> HIDE DEF E, s
      <4>2. Says(Upserted(draft, s)[s.folder], E \cup {[at |-> s.at, priority |-> s.priority]})
        BY <2>3, <3>1, <3>3, <4>1, UpsertSays DEF s
      <4>3. E \cup {[at |-> s.at, priority |-> s.priority]}
              = seen[f] \cup Events(batch[c], next, f)
        BY <2>1, <3>3, EventsGrow DEF E, s
      <4> QED
        BY <2>2, <3>3, <4>2, <4>3 DEF s
    <3> QED
      BY <3>2, <3>3
  <2>5. next' - 1 = next
    BY <2>1, <2>2
  <2> QED
    BY <2>2, <2>4, <2>5 DEF DraftInv
<1>6. ASSUME NEW c \in Client, Rollback(c)
      PROVE  RowsInv'
  BY <1>6 DEF Rollback, Return, DraftInv, history, past
<1>7. ASSUME NEW c \in Client, Commit(c)
      PROVE  RowsInv'
  <2>1. conn = c /\ conn # Free /\ conn' = Free /\ table' = draft
    BY <1>7, ProcessorAssumption DEF Commit, Return
  <2>2. batch[c] \in Seq(Scan) /\ Len(batch[c]) \in Nat
    BY DEF TypeOK
  <2>3. next - 1 = Len(batch[c])
    BY <1>7, <2>1, <2>2 DEF Commit, ConnectionInv, TypeOK
  <2>4. \A f \in Folder : seen'[f] = seen[f] \cup Events(batch[c], next - 1, f)
    BY <1>7, <2>3 DEF Commit, Record
  <2> QED
    BY <2>1, <2>4 DEF DraftInv
<1>8. CASE Delete
  <2>1. picked \in Folder /\ conn' = Free
    BY <1>8 DEF Delete, ProcessInv, Processing
  <2>2. /\ table'[picked] = NoRow
        /\ \A f \in Folder : f # picked => table'[f] = table[f]
    BY <1>8, <2>1, DeletedTable DEF Delete, TypeOK
  <2>3. /\ seen'[picked] = {}
        /\ \A f \in Folder : f # picked => seen'[f] = seen[f]
    BY <1>8, <2>1 DEF Delete, TypeOK
  <2>4. \A f \in Folder : Says(table'[f], seen'[f])
    BY <2>2, <2>3 DEF Says
  <2> QED
    BY <2>1, <2>4 DEF DraftInv
<1>9. CASE Exit
  BY <1>9 DEF Exit, DraftInv
<1> QED
  BY StoreSteps, <1>1, <1>2, <1>3, <1>4, <1>5, <1>6, <1>7, <1>8, <1>9

\* The invariant holds in every behaviour.
LEMMA RowsInvariance == Spec => []RowsInv
<1>1. Init => RowsInv
  BY DEF Init, RowsInv, RowsAreCommittedEvents, DraftInv, Says, EmptyTable
<1>2. IInv /\ RowsInv /\ [Next]_vars => RowsInv'
  BY RowsStep DEF IInv
<1> QED
  BY <1>1, <1>2, Invariance, PTL DEF Spec

\* What a row says is what the committed events of its folder say, whatever fails or
\* dies half way: RowsAreCommittedEvents.
THEOREM RowsAreEvents == Spec => []RowsAreCommittedEvents
<1>1. RowsInv => RowsAreCommittedEvents
  BY DEF RowsInv
<1> QED
  BY <1>1, RowsInvariance, PTL

\* The folder handed over has had an event at least as urgent as any event of any other
\* that is old enough: MostUrgentFirst.
THEOREM MostUrgentIsFirst == Spec => MostUrgentFirst
<1> DEFINE Urgent ==
      \A f \in Folder : Dispatch(f) =>
        \A g \in {h \in Queued(table) : table[h].time < Cutoff} : \A e \in seen[g] :
          \E d \in seen[f] : d.priority >= e.priority
<1>1. IInv /\ RowsInv /\ [Next]_vars => [Urgent]_vars
  <2> SUFFICES ASSUME IInv, RowsInv, [Next]_vars, NEW f \in Folder, Dispatch(f),
                      NEW g \in {h \in Queued(table) : table[h].time < Cutoff}, NEW e \in seen[g]
               PROVE  \E d \in seen[f] : d.priority >= e.priority
    OBVIOUS
  <2>1. f \in Candidates(table, Cutoff)
    BY DispatchIsPick DEF Pick
  <2>2. g \in Folder /\ g \in Available(table, Cutoff) /\ table[g] # NoRow
    BY DEF Queued, Available
  <2>3. table[f] # NoRow /\ Precedes(table[f], table[g])
    BY <2>1, <2>2 DEF Candidates, Available, Queued
  <2>4. table[f].priority \in Int /\ table[g].priority \in Int
    BY <2>2, <2>3, StoreAssumption DEF IInv, TypeOK, Table, Row
  <2>5. table[f].priority >= table[g].priority
    BY <2>3, <2>4 DEF Precedes
  <2>6. PICK d \in seen[f] : d.priority = table[f].priority
    BY <2>3 DEF RowsInv, RowsAreCommittedEvents, Says
  <2>7. e.priority =< table[g].priority
    BY <2>2 DEF RowsInv, RowsAreCommittedEvents, Says
  <2>8. e.priority \in Int
    <3>1. seen[g] \in SUBSET [at : Int, priority : Priority]
      BY <2>2 DEF IInv, TypeOK
    <3>2. e \in [at : Int, priority : Priority]
      BY <3>1
    <3> QED
      BY <3>2, StoreAssumption
  <2> QED
    BY <2>4, <2>5, <2>6, <2>7, <2>8
<1> QED
  BY <1>1, Invariance, RowsInvariance, PTL DEF Spec, MostUrgentFirst

-----------------------------------------------------------------------------
(* A batch is committed as a whole.                                         *)

\* The open transaction is the table with the scans upserted so far.
LEMMA BatchStep ==
  ASSUME TypeOK, ConnectionInv, BatchInv, [Next]_vars
  PROVE  BatchInv'
<1>1. CASE UNCHANGED store
  BY <1>1 DEF BatchInv, store
<1>2. ASSUME NEW c \in Client, NEW b \in Batches, Add(c, b)
      PROVE  BatchInv'
  <2>1. conn # Free => conn # c /\ conn \in Client
    BY <1>2 DEF Add, ConnectionInv, TypeOK
  <2>2. UNCHANGED <<table, draft, conn, next>>
    BY <1>2 DEF Add
  <2>3. \A d \in Client : d # c => batch'[d] = batch[d]
    BY <1>2 DEF Add, TypeOK
  <2> QED
    BY <2>1, <2>2, <2>3 DEF BatchInv
<1>3. ASSUME NEW c \in Client, Begin(c)
      PROVE  BatchInv'
  <2>1. draft = table /\ UNCHANGED <<table, draft, batch>> /\ conn' = c /\ next' = 1
    BY <1>3 DEF Begin, ConnectionInv
  <2>2. UpsertedEach(table, batch[c])[0] = table
    BY UpsertedEachStep DEF TypeOK
  <2> QED
    BY <2>1, <2>2 DEF BatchInv
<1>4. ASSUME NEW c \in Client, BeginFails(c)
      PROVE  BatchInv'
  BY <1>4 DEF BeginFails, BatchInv
<1>5. ASSUME NEW c \in Client, ExecUpsert(c)
      PROVE  BatchInv'
  <2>1. batch[c] \in Seq(Scan) /\ next \in 1 .. Len(batch[c]) /\ table \in Table
    BY <1>5 DEF TypeOK, ExecUpsert
  <2>2. /\ draft' = Upserted(draft, batch[c][next])
        /\ UNCHANGED <<table, conn, batch>> /\ next' = next + 1 /\ conn = c
    BY <1>5 DEF ExecUpsert
  <2>3. draft = UpsertedEach(table, batch[c])[next - 1]
    BY <2>2, ProcessorAssumption DEF BatchInv
  <2>4. UpsertedEach(table, batch[c])[next] = Upserted(draft, batch[c][next])
    BY <2>1, <2>3, UpsertedEachStep
  <2>5. next' - 1 = next
    BY <2>1, <2>2
  <2> QED
    BY <2>2, <2>4, <2>5 DEF BatchInv
<1>6. ASSUME NEW c \in Client, Rollback(c) \/ Commit(c)
      PROVE  BatchInv'
  BY <1>6 DEF Rollback, Commit, Return, BatchInv
<1>7. CASE Delete
  BY <1>7 DEF Delete, BatchInv
<1>8. CASE Exit
  BY <1>8 DEF Exit, BatchInv
<1> QED
  BY StoreSteps, <1>1, <1>2, <1>3, <1>4, <1>5, <1>6, <1>7, <1>8

\* What a commit puts into the table is its whole batch, on the table of that moment.
LEMMA CommitsBatch ==
  ASSUME TypeOK, ConnectionInv, BatchInv, NEW c \in Client, Commit(c)
  PROVE  batch[c] # <<>> /\ table' = UpsertedAll(table, batch[c])
<1>1. conn = c /\ conn # Free /\ next > Len(batch[c]) /\ table' = draft
  BY ProcessorAssumption DEF Commit
<1>2. batch[c] \in Seq(Scan) /\ next \in Nat
  BY DEF TypeOK
<1>3. next =< Len(batch[c]) + 1
  BY <1>1 DEF ConnectionInv
<1>4. next - 1 = Len(batch[c])
  BY <1>1, <1>2, <1>3
<1>5. table' = UpsertedEach(table, batch[c])[Len(batch[c])]
  BY <1>1, <1>4 DEF BatchInv
<1> QED
  BY <1>1, <1>5 DEF UpsertedAll, ConnectionInv

\* A call of Add is atomic: the table changes by one delete or by a whole batch.
THEOREM AddIsAtomic == Spec => BatchesAreAtomic
<1>1. Init => BatchInv
  BY DEF Init, BatchInv
<1>2. IInv /\ BatchInv /\ [Next]_vars => BatchInv'
  BY BatchStep DEF IInv
<1>3. IInv /\ BatchInv /\ [Next]_vars =>
        (table' # table =>
           \/ \E f \in Folder : table' = Deleted(table, f)
           \/ \E c \in Client : batch[c] # <<>> /\ table' = UpsertedAll(table, batch[c]))
  <2> SUFFICES ASSUME IInv, BatchInv, [Next]_vars, table' # table
               PROVE  \/ \E f \in Folder : table' = Deleted(table, f)
                      \/ \E c \in Client :
                           batch[c] # <<>> /\ table' = UpsertedAll(table, batch[c])
    OBVIOUS
  <2>1. (\E c \in Client : Commit(c)) \/ Delete
    BY StoreSteps DEF store, Add, Begin, BeginFails, ExecUpsert, Rollback, Exit
  <2>2. CASE \E c \in Client : Commit(c)
    BY <2>2, CommitsBatch DEF IInv
  <2>3. CASE Delete
    <3>1. picked \in Folder
      BY <2>3 DEF Delete, IInv, ProcessInv, Processing
    <3>2. table' = Deleted(table, picked)
      BY <2>3 DEF Delete
    <3> QED
      BY <3>1, <3>2
  <2> QED
    BY <2>1, <2>2, <2>3
<1> QED
  BY Invariance, <1>1, <1>2, <1>3, PTL DEF Spec, BatchesAreAtomic
=============================================================================
