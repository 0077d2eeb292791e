---------------------------- MODULE InotifyProofs ----------------------------
(***************************************************************************)
(* Theorems about Inotify, for every tree of paths, every rewriting of     *)
(* them, every size of the kernel's queue and every delay: its types, that *)
(* no directory in a watched directory is left out but in the three cases  *)
(* NoGap names, and that no folder with a change is dropped on its way.    *)
(***************************************************************************)
EXTENDS Inotify, TLAPS

-----------------------------------------------------------------------------
(* Lists of events and of names.                                            *)

\* Pushing names on the names still to visit gives a list that has both.
LEMMA PushNames ==
  ASSUME NEW S \in SUBSET Path, NEW stack \in Seq(SUBSET Path)
  PROVE  /\ Push(S, stack) \in Seq(SUBSET Path)
         /\ \A p \in S : \E i \in DOMAIN Push(S, stack) : p \in Push(S, stack)[i]
         /\ \A i \in DOMAIN stack : \A p \in stack[i] :
              \E j \in DOMAIN Push(S, stack) : p \in Push(S, stack)[j]
<1>1. CASE S = {}
  BY <1>1 DEF Push
<1>2. CASE S # {}
  <2> DEFINE r == <<S>> \o stack
  <2>1. Push(S, stack) = r
    BY <1>2 DEF Push
  <2>2. r \in Seq(SUBSET Path) /\ Len(r) = Len(stack) + 1 /\ r[1] = S
    OBVIOUS
  <2>3. \A i \in 1 .. Len(stack) : r[i + 1] = stack[i]
    OBVIOUS
  <2>4. \A i \in DOMAIN stack : i + 1 \in DOMAIN r /\ r[i + 1] = stack[i]
    BY <2>2, <2>3
  <2>5. 1 \in DOMAIN r
    BY <2>2
  <2> HIDE DEF r
  <2> QED
    BY <2>1, <2>2, <2>4, <2>5
<1> QED
  BY <1>1, <1>2

\* Visiting a name leaves a list of all the others.
LEMMA RestNames ==
  ASSUME TypeOK, todo # <<>>, NEW q \in Path
  PROVE  /\ Rest(q) \in Seq(SUBSET Path)
         /\ \A p : p # q /\ ToVisit(p) => \E i \in DOMAIN Rest(q) : p \in Rest(q)[i]
<1>1. todo \in Seq(SUBSET Path)
  BY DEF TypeOK
<1>2. /\ Head(todo) \in SUBSET Path /\ Tail(todo) \in Seq(SUBSET Path)
      /\ \A i \in DOMAIN todo : i = 1 \/ (i - 1 \in DOMAIN Tail(todo) /\ Tail(todo)[i - 1] = todo[i])
      /\ Head(todo) = todo[1]
  BY <1>1
<1>3. Head(todo) \ {q} \in SUBSET Path
  BY <1>2
<1>4. /\ Rest(q) \in Seq(SUBSET Path)
      /\ \A p \in Head(todo) \ {q} : \E i \in DOMAIN Rest(q) : p \in Rest(q)[i]
      /\ \A i \in DOMAIN Tail(todo) : \A p \in Tail(todo)[i] :
           \E j \in DOMAIN Rest(q) : p \in Rest(q)[j]
  BY <1>2, <1>3, PushNames DEF Rest
<1>5. ASSUME NEW p, p # q, ToVisit(p)
      PROVE  \E i \in DOMAIN Rest(q) : p \in Rest(q)[i]
  <2>1. PICK i \in DOMAIN todo : p \in todo[i]
    BY <1>5 DEF ToVisit
  <2>2. CASE i = 1
    BY <1>2, <1>4, <1>5, <2>1, <2>2
  <2>3. CASE i # 1
    <3>1. i - 1 \in DOMAIN Tail(todo) /\ p \in Tail(todo)[i - 1]
      BY <1>2, <2>1, <2>3
    <3> QED
      BY <1>4, <3>1
  <2> QED
    BY <2>2, <2>3
<1> QED
  BY <1>4, <1>5

\* Raising an event keeps the others, and adds its own when it is noticed.
LEMMA RaisedEvent ==
  ASSUME TypeOK, NEW o \in {"create", "remove", "write"}, NEW p \in Path, Raise(o, p)
  PROVE  /\ events' \in Seq(Event)
         /\ \A q : Announced(q) => Announced(q)'
         /\ o = "create" /\ Noticed(p) => Announced(p)'
<1>1. events \in Seq(Event) /\ [op |-> o, path |-> p] \in Event
  BY DEF TypeOK, Event
<1> DEFINE e == [op |-> o, path |-> p]
<1>2. CASE Noticed(p)
  <2>1. events' = Append(events, e)
    BY <1>2 DEF Raise
  <2>2. /\ events' \in Seq(Event) /\ Len(events') = Len(events) + 1
        /\ \A i \in DOMAIN events : i \in DOMAIN events' /\ events'[i] = events[i]
        /\ Len(events') \in DOMAIN events' /\ events'[Len(events')] = e
    BY <1>1, <2>1
  <2>3. e.op = o /\ e.path = p
    OBVIOUS
  <2> HIDE DEF e
  <2> QED
    BY <2>2, <2>3 DEF Announced
<1>3. CASE ~Noticed(p)
  BY <1>1, <1>3 DEF Raise, Announced
<1> QED
  BY <1>2, <1>3

\* Taking the first event leaves the others.
LEMMA TakenEvent ==
  ASSUME TypeOK, Take
  PROVE  /\ events' \in Seq(Event)
         /\ Head(events) \in Event
         /\ \A q : Announced(q) =>
              Announced(q)' \/ (Head(events).op = "create" /\ Head(events).path = q)
<1>1. events \in Seq(Event) /\ events # <<>> /\ events' = Tail(events)
  BY DEF TypeOK, Take
<1>2. /\ Tail(events) \in Seq(Event) /\ Head(events) \in Event /\ Head(events) = events[1]
      /\ \A i \in DOMAIN events :
           i = 1 \/ (i - 1 \in DOMAIN Tail(events) /\ Tail(events)[i - 1] = events[i])
  BY <1>1
<1> QED
  BY <1>1, <1>2 DEF Announced

-----------------------------------------------------------------------------
(* Type correctness.                                                        *)

\* The types hold at the start.
LEMMA InitTypes == Init => TypeOK
<1> SUFFICES ASSUME Init
             PROVE  TypeOK
  OBVIOUS
<1>1. Roots \in SUBSET Path
  BY InotifyAssumption
<1>2. present \in SUBSET Path
  BY DEF Init, Trees
<1>3. scans \in [Folder -> Nat \cup {NotQueued}]
  BY DEF Init
<1>4. todo \in Seq(SUBSET Path) /\ events \in Seq(Event)
  BY <1>1 DEF Init
<1> QED
  BY <1>2, <1>3, <1>4 DEF Init, TypeOK

\* The folder of a file that changed is a folder.
LEMMA ChangedTypes ==
  ASSUME TypeOK, NEW p \in Path, Changed(p)
  PROVE  stale' \in SUBSET Folder /\ missed' \in SUBSET Folder
BY InotifyAssumption DEF TypeOK, Changed, File

\* They are preserved by changes of the file system.
LEMMA FileSystemTypes == TypeOK /\ FileSystem => TypeOK'
<1> SUFFICES ASSUME TypeOK, NEW p \in Path \ Roots, Create(p) \/ Remove(p) \/ Write(p)
             PROVE  TypeOK'
  BY DEF FileSystem
<1>1. ops' \in Nat
  BY DEF TypeOK, Create, Remove, Write, Operation
<1>2. events' \in Seq(Event)
  <2>1. \E o \in {"create", "remove", "write"} : Raise(o, p)
    BY Zenon DEF Create, Remove, Write
  <2> QED
    BY <2>1, RaisedEvent
<1>3. stale' \in SUBSET Folder /\ missed' \in SUBSET Folder
  BY ChangedTypes DEF TypeOK, Create, Remove, Write
<1>4. present' \in SUBSET Path /\ watched' \in SUBSET Dir /\ blind' \in SUBSET Dir
  BY DEF TypeOK, Create, Remove, Write, Overlooked
<1>5. UNCHANGED <<walk, queue, faults>>
  BY Zenon DEF Create, Remove, Write
<1> QED
  BY <1>1, <1>2, <1>3, <1>4, <1>5 DEF TypeOK, walk, queue

\* They are preserved when a walk is abandoned.
LEMMA AbandonTypes ==
  ASSUME TypeOK, Abandon, faults' \in Nat
  PROVE  TypeOK'
<1>1. todo' \in Seq(SUBSET Path)
  BY DEF Abandon, LeaveWalk
<1>3. events' \in Seq(Event)
  <2>1. events' = <<>> \/ events' = events
    BY Zenon DEF Abandon
  <2>2. <<>> \in Seq(Event) /\ events \in Seq(Event)
    BY DEF TypeOK
  <2> QED
    BY <2>1, <2>2, Zenon
<1>2. blind' \in SUBSET Dir /\ watched' \in SUBSET Dir
  BY DEF TypeOK, Abandon, Skipped
<1> QED
  BY <1>1, <1>2, <1>3 DEF TypeOK, Abandon, LeaveWalk, queue

\* They are preserved by the steps of a walk.
LEMMA WalkingTypes == TypeOK /\ WalkInv /\ (Walking \/ WatchRefused) => TypeOK'
<1> SUFFICES ASSUME TypeOK, WalkInv, Walking \/ WatchRefused
             PROVE  TypeOK'
  OBVIOUS
<1>1. ASSUME NEW p \in Path, WalkDir(p) \/ WalkFile(p)
      PROVE  TypeOK'
  <2>1. Rest(p) \in Seq(SUBSET Path)
    BY <1>1, RestNames DEF WalkDir, WalkFile, Visit
  <2>2. Children(p) \in SUBSET Path
    BY DEF TypeOK, Children
  <2> QED
    BY <1>1, <2>1, <2>2 DEF TypeOK, WalkDir, WalkFile, queue
<1>2. CASE Watch
  <2>1. Push(names, todo) \in Seq(SUBSET Path)
    BY PushNames DEF TypeOK
  <2> QED
    BY <1>2, <2>1 DEF TypeOK, Watch, WalkInv, queue
<1>3. CASE WalkFails \/ WatchFails \/ WatchRefused
  <2>1. faults' \in Nat
    BY <1>3 DEF TypeOK, WalkFails, WatchFails, WatchRefused, Fault
  <2> QED
    BY <1>3, <2>1, AbandonTypes DEF WalkFails, WatchFails, WatchRefused
<1>4. CASE WalkDone
  BY <1>4 DEF TypeOK, WalkDone, LeaveWalk, queue
<1> QED
  BY <1>1, <1>2, <1>3, <1>4 DEF Walking

\* They are preserved by the other steps of the worker.
LEMMA ReceivingTypes ==
  ASSUME TypeOK,
         ReceiveCreate \/ ReceiveRemove \/ Ignore \/ StatFile \/ StatDir \/ StatFails \/ StatFiltered
  PROVE  TypeOK'
<1>1. CASE ReceiveCreate \/ ReceiveRemove \/ Ignore
  <2>1. events' \in Seq(Event) /\ Head(events).path \in Path
    BY <1>1, TakenEvent DEF ReceiveCreate, ReceiveRemove, Ignore, Event
  <2> QED
    BY <1>1, <2>1 DEF TypeOK, ReceiveCreate, ReceiveRemove, Ignore, walk, queue
<1>2. CASE StatDir
  <2>1. todo' \in Seq(SUBSET Path)
    BY <1>2 DEF TypeOK, StatDir
  <2> QED
    BY <1>2, <2>1 DEF TypeOK, StatDir, queue
<1>3. CASE StatFile \/ StatFails \/ StatFiltered
  BY <1>3 DEF TypeOK, StatFile, StatFails, StatFiltered, queue
<1> QED
  BY <1>1, <1>2, <1>3

\* They are preserved by the queue.
LEMMA QueueTypes ==
  ASSUME TypeOK, WalkInv,
         Send \/ Queueing \/ Tick \/ \E f \in Folder : CallbackFails(f)
  PROVE  TypeOK'
<1>1. CASE Send
  <2>1. scans' \in [Folder -> Nat \cup {NotQueued}]
    BY <1>1, InotifyAssumption DEF TypeOK, Send
  <2> QED
    BY <1>1, <2>1 DEF TypeOK, Send
<1>2. CASE Tick
  <2>1. scans' \in [Folder -> Nat \cup {NotQueued}]
    BY <1>2 DEF TypeOK, Tick, NotQueued
  <2> QED
    BY <1>2, <2>1 DEF TypeOK, Tick, walk
<1>3. CASE Collect
  <2>1. scans' \in [Folder -> Nat \cup {NotQueued}] /\ ready' \in SUBSET Folder
    BY <1>3 DEF TypeOK, Collect, Ripe
  <2> QED
    BY <1>3, <2>1 DEF TypeOK, Collect, walk
<1>4. ASSUME NEW f \in Folder, Callback(f) \/ CallbackFails(f)
      PROVE  TypeOK'
  BY <1>4 DEF TypeOK, Callback, CallbackFails, Fault, walk
<1> QED
  BY <1>1, <1>2, <1>3, <1>4 DEF Queueing

\* They are preserved by every step.
LEMMA NextTypes == TypeOK /\ WalkInv /\ [Next]_vars => TypeOK'
<1> SUFFICES ASSUME TypeOK, WalkInv, [Next]_vars
             PROVE  TypeOK'
  OBVIOUS
<1>1. CASE UNCHANGED vars
  BY <1>1 DEF TypeOK, vars, walk, queue
<1>2. CASE Next
  BY <1>2, FileSystemTypes, WalkingTypes, ReceivingTypes, QueueTypes DEF Next, Working
<1> QED
  BY <1>1, <1>2

-----------------------------------------------------------------------------
(* A directory that the worker will reach stays so until it is watched,     *)
(* unless it goes or the walk of startMonitoring fails.                     *)

\* Changes of the file system keep it.
LEMMA FileSystemReaches ==
  ASSUME TypeOK, NEW p \in Path \ Roots, Create(p) \/ Remove(p) \/ Write(p),
         NEW q \in present' \cap Dir, Reached(q)
  PROVE  Reached(q)'
<1>1. Announced(q) => Announced(q)'
  <2>1. \E o \in {"create", "remove", "write"} : Raise(o, p)
    BY Zenon DEF Create, Remove, Write
  <2> QED
    BY <2>1, RaisedEvent
<1>2. UNCHANGED walk
  BY Zenon DEF Create, Remove, Write
<1>3. /\ q \in watched => q \in watched'
      /\ q \in blind => q \in blind'
  BY DEF Create, Remove, Write
<1> QED
  BY <1>1, <1>2, <1>3 DEF Reached, WillBeWatched, ToVisit, walk

\* A walk that is abandoned while the trigger runs leaves it in blind.
LEMMA AbandonReaches ==
  ASSUME TypeOK, Abandon, ~starting, worker \in {"walk", "watch"},
         NEW q \in present \cap Dir, Reached(q)
  PROVE  Reached(q)'
<1>1. UNCHANGED <<watched, events>> /\ blind' = blind \cup Skipped
  BY DEF Abandon
<1>2. ToVisit(q) \/ current = q \/ q \in names => q \in Skipped
  BY DEF Skipped
<1> QED
  BY <1>1, <1>2 DEF Reached, WillBeWatched, Announced

\* Steps of a walk keep it.
LEMMA WalkReaches ==
  ASSUME TypeOK, WalkInv, (\E p \in Path : WalkDir(p) \/ WalkFile(p)) \/ Watch \/ WalkDone,
         NEW q \in present \cap Dir, Reached(q)
  PROVE  Reached(q)'
<1>1. UNCHANGED events
  BY Zenon DEF WalkDir, WalkFile, Watch, WalkDone
<1>2. Announced(q) => Announced(q)'
  BY <1>1 DEF Announced
<1>3. ASSUME NEW p \in Path, WalkDir(p) \/ WalkFile(p)
      PROVE  Reached(q)'
  <2>1. worker = "walk" /\ todo # <<>> /\ todo' = Rest(p) /\ UNCHANGED <<watched, blind>>
    BY <1>3 DEF WalkDir, WalkFile, Visit
  <2>2. p # q /\ ToVisit(q) => ToVisit(q)'
    BY <2>1, RestNames DEF ToVisit
  <2>3. p = q => worker' = "watch" /\ current' = q
    BY <1>3 DEF WalkDir, WalkFile, File
  <2> QED
    BY <1>2, <2>1, <2>2, <2>3 DEF Reached, WillBeWatched
<1>4. CASE Watch
  <2>1. ToVisit(q) \/ q \in names => ToVisit(q)'
    BY <1>4, PushNames DEF Watch, ToVisit, TypeOK
  <2>2. /\ worker = "watch" /\ watched' = watched \cup {current}
        /\ blind' = blind \ {current}
    BY <1>4 DEF Watch
  <2> QED
    BY <1>2, <2>1, <2>2 DEF Reached, WillBeWatched
<1>5. CASE WalkDone
  <2>1. worker = "walk" /\ ~ToVisit(q) /\ UNCHANGED <<watched, blind>>
    BY <1>5 DEF WalkDone, ToVisit
  <2> QED
    BY <1>2, <2>1 DEF Reached, WillBeWatched
<1> QED
  BY <1>3, <1>4, <1>5

\* The other steps of the worker keep it.
LEMMA ReceiveReaches ==
  ASSUME TypeOK, WalkInv,
         ReceiveCreate \/ ReceiveRemove \/ Ignore \/ StatFile \/ StatDir \/ StatFails \/ StatFiltered,
         NEW q \in present \cap Dir, Reached(q)
  PROVE  Reached(q)'
<1>1. UNCHANGED <<watched, blind>>
  BY Zenon DEF ReceiveCreate, ReceiveRemove, Ignore, StatFile, StatDir, StatFails, StatFiltered
<1>2. CASE ReceiveCreate \/ ReceiveRemove \/ Ignore
  <2>1. Take /\ worker = "idle" /\ todo' = todo
    BY <1>2 DEF ReceiveCreate, ReceiveRemove, Ignore, Take, walk
  <2>2. Announced(q) => Announced(q)' \/ (worker' = "stat" /\ current' = q)
    BY <1>2, <2>1, TakenEvent DEF ReceiveCreate, ReceiveRemove, Ignore
  <2> QED
    BY <1>1, <2>1, <2>2 DEF Reached, WillBeWatched, ToVisit
<1>3. CASE StatDir
  <2>1. worker = "stat" /\ todo' = <<{current}>> /\ UNCHANGED events
    BY <1>3 DEF StatDir
  <2>2. todo = <<>>
    BY <2>1 DEF WalkInv
  <2>3. current = q => ToVisit(q)'
    BY <2>1 DEF ToVisit
  <2> QED
    BY <1>1, <2>1, <2>2, <2>3 DEF Reached, WillBeWatched, ToVisit, Announced
<1>4. CASE StatFile \/ StatFails \/ StatFiltered
  <2>1. worker = "stat" /\ current # q /\ UNCHANGED <<events, todo>>
    BY <1>4 DEF StatFile, StatFails, StatFiltered, File
  <2> QED
    BY <1>1, <2>1 DEF Reached, WillBeWatched, ToVisit, Announced
<1> QED
  BY <1>2, <1>3, <1>4

\* The queue keeps it.
LEMMA QueueReaches ==
  ASSUME Send \/ Queueing \/ Tick \/ \E f \in Folder : CallbackFails(f),
         NEW q \in present \cap Dir, Reached(q)
  PROVE  Reached(q)'
<1>1. UNCHANGED <<watched, events, todo, blind>>
  BY Zenon DEF Send, Queueing, Collect, Callback, CallbackFails, Tick, walk
<1>2. worker = "send" \/ UNCHANGED <<worker, current, names>>
  BY Zenon DEF Send, Queueing, Collect, Callback, CallbackFails, Tick, walk
<1> QED
  BY <1>1, <1>2 DEF Reached, WillBeWatched, ToVisit, Announced

\* Every step keeps it, but one that closes the watcher.
LEMMA StaysReached ==
  ASSUME TypeOK, WalkInv, Next, NEW q \in (present' \cap Dir) \ Roots, q \in present, Reached(q)
  PROVE  Reached(q)' \/ (worker' = "dead" /\ watched' = {})
<1>1. CASE FileSystem
  BY <1>1, FileSystemReaches DEF FileSystem
<1>2. CASE WalkFails \/ WatchFails \/ WatchRefused
  <2>1. Abandon /\ worker \in {"walk", "watch"}
    BY <1>2 DEF WalkFails, WatchFails, WatchRefused, Visit
  <2>2. starting => worker' = "dead" /\ watched' = {}
    BY <2>1 DEF Abandon
  <2> QED
    BY <2>1, <2>2, AbandonReaches
<1>3. CASE (\E p \in Path : WalkDir(p) \/ WalkFile(p)) \/ Watch \/ WalkDone
  BY <1>3, WalkReaches
<1>4. CASE ReceiveCreate \/ ReceiveRemove \/ Ignore \/ StatFile \/ StatDir \/ StatFails \/ StatFiltered
  BY <1>4, ReceiveReaches
<1>5. CASE Send \/ Queueing \/ Tick \/ \E f \in Folder : CallbackFails(f)
  BY <1>5, QueueReaches
<1> QED
  BY <1>1, <1>2, <1>3, <1>4, <1>5 DEF Next, Working, Walking

-----------------------------------------------------------------------------
(* The inductive invariant.                                                 *)

\* A directory that was not there before the step is reached when its parent is watched,
\* or about to be.
LEMMA NewIsReached ==
  ASSUME TypeOK, WalkInv, Next, NEW q \in (present' \cap Dir) \ Roots, q \notin present,
         Parent[q] \in watched \/ (worker = "watch" /\ current = Parent[q])
  PROVE  Reached(q)' /\ UNCHANGED <<watched, walk>>
<1>1. PICK p \in Path \ Roots : Create(p)
  BY DEF Next, FileSystem, Working, Walking, Queueing, Remove, Write, WalkDir, WalkFile, Watch,
         WalkFails, WatchFails, WatchRefused, Abandon, WalkDone, ReceiveCreate, ReceiveRemove,
         Ignore, StatFile, StatDir, StatFails, StatFiltered, Send, Collect, Callback,
         CallbackFails, Tick
<1>2. p = q
  BY <1>1 DEF Create
<1>3. UNCHANGED <<watched, walk>>
  BY <1>1, Zenon DEF Create
<1>4. CASE Noticed(q)
  BY <1>1, <1>2, <1>4, RaisedEvent DEF Create, Reached, WillBeWatched
<1>5. CASE ~Noticed(q)
  BY <1>1, <1>2, <1>5 DEF Create, Overlooked, Reached
<1> QED
  BY <1>3, <1>4, <1>5

\* The control part of WalkInv is preserved.
LEMMA ControlPreserved ==
  ASSUME TypeOK, WalkInv, Next
  PROVE  /\ starting' => worker' \in {"walk", "watch"}
         /\ worker' \notin {"walk", "watch"} => todo' = <<>>
         /\ worker' \in {"stat", "send", "watch"} => current' \in Path
         /\ worker' = "watch" => current' \in Dir
<1>1. CASE UNCHANGED walk
  BY <1>1 DEF WalkInv, walk
<1>2. CASE FileSystem \/ Queueing \/ Tick \/ (\E f \in Folder : CallbackFails(f)) \/ Ignore
  <2>1. UNCHANGED walk
    BY <1>2, Zenon DEF FileSystem, Create, Remove, Write, Queueing, Collect, Callback,
                       CallbackFails, Tick, Ignore
  <2> QED
    BY <1>1, <2>1
<1>3. CASE WalkFails \/ WatchFails \/ WatchRefused \/ WalkDone
  <2>1. worker' \in {"idle", "dead"} /\ LeaveWalk
    BY <1>3 DEF WalkFails, WatchFails, WatchRefused, Abandon, WalkDone
  <2> QED
    BY <2>1 DEF LeaveWalk
<1>4. CASE (\E p \in Path : WalkDir(p) \/ WalkFile(p)) \/ Watch
  BY <1>4 DEF WalkDir, WalkFile, Watch, Visit
<1>5. CASE ReceiveCreate \/ ReceiveRemove
  BY <1>5, TakenEvent DEF WalkInv, ReceiveCreate, ReceiveRemove, Take, Event
<1>6. CASE StatFile \/ StatDir \/ StatFails \/ StatFiltered \/ Send
  BY <1>6 DEF WalkInv, StatFile, StatDir, StatFails, StatFiltered, Send
<1> QED
  BY <1>2, <1>3, <1>4, <1>5, <1>6 DEF Next, Working, Walking

\* While a directory is about to be watched, what is in it is reached.
LEMMA WindowPreserved ==
  ASSUME TypeOK, WalkInv, Next, worker' = "watch",
         NEW q \in (present' \cap Dir) \ Roots, Parent[q] = current'
  PROVE  Reached(q)'
<1>1. CASE worker = "watch"
  <2>1. ~(\E p \in Path : WalkDir(p) \/ WalkFile(p))
    BY <1>1 DEF WalkDir, WalkFile, Visit
  <2>2. UNCHANGED walk
    BY <1>1, <2>1 DEF Next, FileSystem, Create, Remove, Write, Working, Walking, Watch,
         WalkFails, WatchFails, WatchRefused, Abandon, WalkDone, ReceiveCreate, ReceiveRemove,
         Ignore, Take, StatFile, StatDir, StatFails, StatFiltered, Send, Queueing, Collect,
         Callback, CallbackFails, Tick
  <2>3. current = current'
    BY <2>2 DEF walk
  <2>4. CASE q \in present
    BY <1>1, <2>3, <2>4, StaysReached DEF WalkInv
  <2>5. CASE q \notin present
    BY <1>1, <2>3, <2>5, NewIsReached
  <2> QED
    BY <2>4, <2>5
<1>2. CASE worker # "watch"
  <2>1. PICK p \in Path : WalkDir(p)
    BY <1>2 DEF Next, FileSystem, Create, Remove, Write, Working, Walking, WalkFile, Watch,
         WalkFails, WatchFails, WatchRefused, Abandon, WalkDone, ReceiveCreate, ReceiveRemove,
         Ignore, StatFile, StatDir, StatFails, StatFiltered, Send, Queueing, Collect,
         Callback, CallbackFails, Tick, walk
  <2>2. names' = Children(p) /\ current' = p /\ UNCHANGED present
    BY <2>1 DEF WalkDir
  <2>3. q \in names'
    BY <2>2 DEF Children
  <2> QED
    BY <2>3 DEF Reached, WillBeWatched
<1> QED
  BY <1>1, <1>2

\* NoGap is preserved: a directory comes, or its parent becomes watched.
LEMMA NoGapPreserved ==
  ASSUME TypeOK, WalkInv, NoGap, Next,
         NEW q \in (present' \cap Dir) \ Roots, Parent[q] \in watched'
  PROVE  Reached(q)'
<1>1. worker' # "dead" \/ watched' # {}
  OBVIOUS
<1>2. watched' \subseteq watched \/ Watch
  BY Zenon DEF Next, FileSystem, Create, Remove, Write, Working, Walking, WalkDir, WalkFile,
         WalkFails, WatchFails, WatchRefused, Abandon, WalkDone, ReceiveCreate, ReceiveRemove,
         Ignore, StatFile, StatDir, StatFails, StatFiltered, Send, Queueing, Collect,
         Callback, CallbackFails, Tick
<1>3. Parent[q] \in watched \/ (worker = "watch" /\ current = Parent[q])
  BY <1>2 DEF Watch
<1>4. CASE q \in present
  <2>1. Reached(q)
    BY <1>3, <1>4 DEF NoGap, WalkInv
  <2> QED
    BY <1>4, <2>1, StaysReached
<1>5. CASE q \notin present
  BY <1>3, <1>5, NewIsReached
<1> QED
  BY <1>4, <1>5

\* The inductive invariant holds at the start and is preserved.
LEMMA Induction == (Init => IInv) /\ (IInv /\ [Next]_vars => IInv')
<1>1. ASSUME Init
      PROVE  IInv
  BY <1>1, InitTypes DEF Init, IInv, WalkInv, NoGap
<1>2. ASSUME IInv, Next
      PROVE  IInv'
  <2>1. TypeOK'
    BY <1>2, NextTypes DEF IInv
  <2>2. WalkInv'
    BY <1>2, ControlPreserved, WindowPreserved DEF IInv, WalkInv
  <2>3. NoGap'
    BY <1>2, NoGapPreserved DEF IInv, NoGap
  <2> QED
    BY <2>1, <2>2, <2>3 DEF IInv
<1>3. ASSUME IInv, UNCHANGED vars
      PROVE  IInv'
  BY <1>3 DEF IInv, TypeOK, WalkInv, NoGap, Reached, WillBeWatched, Announced, ToVisit, vars,
              walk, queue
<1> QED
  BY <1>1, <1>2, <1>3

\* The inductive invariant holds in every behaviour.
THEOREM Invariance == Spec => []IInv
<1>1. Init => IInv
  BY Induction
<1>2. IInv /\ [Next]_vars => IInv'
  BY Induction
<1> QED
  BY <1>1, <1>2, PTL DEF Spec

\* The types of the variables hold in every behaviour.
THEOREM TypeCorrect == Spec => []TypeOK
<1>1. IInv => TypeOK
  BY DEF IInv
<1> QED
  BY <1>1, Invariance, PTL

\* A directory in a watched directory is watched, will be, or was overlooked in one of the
\* three ways NoGap names (daemon.worker and walkFunc), for every tree and queue.
THEOREM GapsAreKnown == Spec => []NoGap
<1>1. IInv => NoGap
  BY DEF IInv
<1> QED
  BY <1>1, Invariance, PTL

-----------------------------------------------------------------------------
(* No folder is dropped.                                                    *)

\* A new event is the last one; the others keep their places.
LEMMA RaisedLast ==
  ASSUME TypeOK, NEW o \in {"create", "remove", "write"}, NEW p \in Path, Raise(o, p)
  PROVE  /\ \A i \in DOMAIN events : i \in DOMAIN events' /\ events'[i] = events[i]
         /\ Noticed(p) => \E i \in DOMAIN events' : events'[i].op = o /\ events'[i].path = p
<1>1. events \in Seq(Event) /\ [op |-> o, path |-> p] \in Event
  BY DEF TypeOK, Event
<1> DEFINE e == [op |-> o, path |-> p]
<1>2. CASE Noticed(p)
  <2>1. events' = Append(events, e)
    BY <1>2 DEF Raise
  <2>2. /\ \A i \in DOMAIN events : i \in DOMAIN events' /\ events'[i] = events[i]
        /\ Len(events') \in DOMAIN events' /\ events'[Len(events')] = e
    BY <1>1, <2>1
  <2>3. e.op = o /\ e.path = p
    OBVIOUS
  <2> HIDE DEF e
  <2> QED
    BY <2>2, <2>3
<1>3. CASE ~Noticed(p)
  BY <1>3 DEF Raise
<1> QED
  BY <1>2, <1>3

\* The file system: what it takes away from under a creation, it announces or misses.
LEMMA FileSystemKeeps ==
  ASSUME TypeOK, KeptInv, NEW p \in Path \ Roots, Create(p) \/ Remove(p) \/ Write(p)
  PROVE  KeptInv'
<1>1. UNCHANGED <<worker, current, starting, scans, ready>>
  BY DEF Create, Remove, Write, walk, queue
<1>2. PICK o \in {"create", "remove", "write"} : Raise(o, p) /\ (o = "remove" <=> Remove(p))
  <2>1. Create(p) => Raise("create", p) /\ ~Remove(p)
    BY DEF Create, Remove
  <2>2. Write(p) => Raise("write", p) /\ (Remove(p) => Raise("remove", p))
    BY DEF Write, Remove
  <2>3. Remove(p) => Raise("remove", p)
    BY DEF Remove
  <2> QED
    BY <2>1, <2>2, <2>3
<1>3. \A i \in DOMAIN events : i \in DOMAIN events' /\ events'[i] = events[i]
  BY <1>2, RaisedLast
<1>4. starting' => stale' = {}
  BY <1>1 DEF KeptInv, Create, Remove, Write, Changed
<1>5. ASSUME NEW f \in stale, f \notin missed
      PROVE  f \in missed' \/ f \in ready' \/ scans'[f] # NotQueued \/ WillBeSent(f)'
  <2>1. CASE f \in ready \/ scans[f] # NotQueued
    BY <1>1, <2>1
  <2>2. CASE WillBeSent(f) /\ ~Remove(p)
    <3>1. present \subseteq present'
      BY <2>2 DEF Create, Write
    <3> QED
      BY <1>1, <1>3, <2>2, <3>1 DEF WillBeSent
  <2>3. CASE WillBeSent(f) /\ Remove(p)
    <3>1. present' = present \ {p} /\ Raise("remove", p)
      BY <2>3 DEF Remove
    <3>2. CASE ~(p \in File /\ FolderOf[p] = f)
      BY <1>1, <1>3, <2>3, <3>1, <3>2 DEF WillBeSent
    <3>3. CASE p \in File /\ FolderOf[p] = f /\ Noticed(p)
      <4>1. \E i \in DOMAIN events' : events'[i].op = "remove" /\ events'[i].path = p
        BY <3>1, <3>3, RaisedLast
      <4> QED
        BY <3>3, <4>1 DEF WillBeSent
    <3>4. CASE p \in File /\ FolderOf[p] = f /\ ~Noticed(p)
      <4>1. f # Filtered /\ ~starting
        BY <1>5, InotifyAssumption DEF TypeOK, KeptInv
      <4> QED
        BY <2>3, <3>4, <4>1 DEF Remove, Changed
    <3> QED
      BY <3>2, <3>3, <3>4
  <2> QED
    BY <1>5, <2>1, <2>2, <2>3 DEF KeptInv
<1>6. ASSUME NEW f \in stale' \ missed', f \notin stale
      PROVE  WillBeSent(f)'
  <2>1. Changed(p) /\ ~Write(p)
    BY <1>6 DEF Create, Remove, Write
  <2>2. p \in File /\ FolderOf[p] = f /\ Noticed(p)
    BY <1>6, <2>1 DEF Changed
  <2>3. CASE Create(p)
    <3>1. p \in present' /\ Raise("create", p)
      BY <2>3 DEF Create
    <3>2. \E i \in DOMAIN events' : events'[i].op = "create" /\ events'[i].path = p
      BY <2>2, <3>1, RaisedLast
    <3> QED
      BY <2>2, <3>1, <3>2 DEF WillBeSent
  <2>4. CASE Remove(p)
    <3>1. \E i \in DOMAIN events' : events'[i].op = "remove" /\ events'[i].path = p
      BY <2>2, <2>4, RaisedLast DEF Remove
    <3> QED
      BY <2>2, <3>1 DEF WillBeSent
  <2> QED
    BY <2>1, <2>3, <2>4
<1>7. \A f \in missed : f \in missed'
  BY DEF Create, Remove, Write, Changed
<1> QED
  BY <1>4, <1>5, <1>6, <1>7 DEF KeptInv

\* A walk touches neither events nor folders, unless it is the first.
LEMMA WalkKeeps ==
  ASSUME KeptInv, Walking \/ WatchRefused
  PROVE  KeptInv'
<1>1. /\ worker \in {"walk", "watch"}
      /\ UNCHANGED <<present, queue, stale, missed>>
      /\ starting' => starting
  BY DEF Walking, WatchRefused, WalkDir, WalkFile, Visit, Watch, WalkFails, WatchFails, WalkDone,
         LeaveWalk, Abandon
<1>2. starting \/ events' = events
  BY DEF Walking, WatchRefused, WalkDir, WalkFile, Watch, WalkFails, WatchFails, WalkDone, Abandon
<1>3. CASE starting
  BY <1>1, <1>3 DEF KeptInv
<1>4. CASE ~starting
  <2>1. \A f : WillBeSent(f) => WillBeSent(f)'
    BY <1>1, <1>2, <1>4 DEF WillBeSent
  <2> QED
    BY <1>1, <1>4, <2>1 DEF KeptInv, queue
<1> QED
  BY <1>3, <1>4

\* The worker hands what it takes from the events to the queue.
LEMMA ReceiveKeeps ==
  ASSUME TypeOK, WalkInv, KeptInv,
         ReceiveCreate \/ ReceiveRemove \/ Ignore \/ StatFile \/ StatDir \/ StatFails \/ StatFiltered
  PROVE  KeptInv'
<1>1. UNCHANGED <<present, starting, queue, stale, missed>>
  BY DEF ReceiveCreate, ReceiveRemove, Ignore, StatFile, StatDir, StatFails, StatFiltered, walk
<1>2. ASSUME NEW f \in Folder, WillBeSent(f)
      PROVE  WillBeSent(f)'
  <2>1. CASE ReceiveCreate \/ ReceiveRemove \/ Ignore
    <3>1. worker = "idle" /\ events # <<>> /\ events' = Tail(events) /\ events \in Seq(Event)
      BY <2>1 DEF ReceiveCreate, ReceiveRemove, Ignore, Take, TypeOK
    <3>2. /\ Head(events) = events[1]
          /\ \A i \in DOMAIN events :
               i = 1 \/ (i - 1 \in DOMAIN events' /\ events'[i - 1] = events[i])
      BY <3>1
    <3>3. PICK i \in DOMAIN events :
            /\ FolderOf[events[i].path] = f
            /\ \/ events[i].op = "remove"
               \/ events[i].op = "create" /\ events[i].path \in present \cap File
      BY <1>2, <3>1 DEF WillBeSent
    <3>4. CASE i # 1
      <4>1. i - 1 \in DOMAIN events' /\ events'[i - 1] = events[i]
        BY <3>2, <3>4
      <4> QED
        BY <1>1, <3>3, <4>1 DEF WillBeSent
    <3>5. CASE i = 1
      BY <1>1, <2>1, <3>2, <3>3, <3>5, InotifyAssumption
      DEF WillBeSent, ReceiveCreate, ReceiveRemove, Ignore
    <3> QED
      BY <3>4, <3>5
  <2>2. CASE StatFile
    BY <1>1, <1>2, <2>2 DEF StatFile, WillBeSent
  <2>3. CASE StatDir \/ StatFails \/ StatFiltered
    <3>1. worker = "stat" /\ events' = events
      BY <2>3 DEF StatDir, StatFails, StatFiltered
    <3>2. ~(current \in present \cap File /\ FolderOf[current] = f)
      BY <2>3, InotifyAssumption DEF StatDir, StatFails, StatFiltered, File
    <3> QED
      BY <1>1, <1>2, <3>1, <3>2 DEF WillBeSent
  <2> QED
    BY <2>1, <2>2, <2>3
<1> QED
  BY <1>1, <1>2 DEF KeptInv, TypeOK, queue

\* The queue keeps a folder until the processor has it or refuses it.
LEMMA QueueKeeps ==
  ASSUME TypeOK, KeptInv, Send \/ Queueing \/ Tick \/ \E f \in Folder : CallbackFails(f)
  PROVE  KeptInv'
<1>1. CASE Send
  <2>1. UNCHANGED <<present, events, starting, ready, stale, missed>> /\ worker = "send"
    BY <1>1 DEF Send
  <2>2. ASSUME NEW f \in Folder
        PROVE  /\ scans'[f] = IF f = FolderOf[current] THEN Delay ELSE scans[f]
               /\ Delay # NotQueued
    BY <1>1, InotifyAssumption DEF Send, TypeOK, NotQueued
  <2>3. ASSUME NEW f \in Folder, WillBeSent(f)
        PROVE  scans'[f] # NotQueued \/ WillBeSent(f)'
    BY <2>1, <2>2, <2>3 DEF WillBeSent
  <2> QED
    BY <2>1, <2>2, <2>3 DEF KeptInv, TypeOK
<1>2. CASE ~Send
  <2>1. UNCHANGED <<present, events, walk>>
    BY <1>2 DEF Queueing, Tick, CallbackFails, Collect, Callback
  <2>2. \A f : WillBeSent(f) => WillBeSent(f)'
    BY <2>1 DEF WillBeSent, walk
  <2>3. CASE Tick
    <3>1. ASSUME NEW f \in Folder, scans[f] # NotQueued
          PROVE  scans'[f] # NotQueued
      <4>1. scans[f] \in Nat
        BY <3>1 DEF TypeOK
      <4>2. scans'[f] = IF scans[f] > 0 THEN scans[f] - 1 ELSE scans[f]
        BY <2>3 DEF Tick
      <4> QED
        BY <4>1, <4>2 DEF NotQueued
    <3> QED
      BY <2>1, <2>2, <2>3, <3>1 DEF Tick, KeptInv, TypeOK, walk
  <2>4. CASE Collect
    <3>1. /\ ready = {} /\ ready' = Ripe
          /\ \A f \in Folder : f \in Ripe \/ scans'[f] = scans[f]
      BY <2>4 DEF Collect
    <3> QED
      BY <2>1, <2>2, <2>4, <3>1 DEF Collect, KeptInv, TypeOK, walk
  <2>5. ASSUME NEW f \in Folder, Callback(f) \/ CallbackFails(f)
        PROVE  KeptInv'
    BY <2>1, <2>2, <2>5 DEF Callback, CallbackFails, KeptInv, walk
  <2> QED
    BY <1>2, <2>3, <2>4, <2>5 DEF Queueing
<1> QED
  BY <1>1, <1>2

\* Every step keeps the folders that changed.
LEMMA KeptStep ==
  ASSUME TypeOK, WalkInv, KeptInv, [Next]_vars
  PROVE  KeptInv'
<1>1. CASE UNCHANGED vars
  BY <1>1 DEF vars, walk, queue, KeptInv, WillBeSent
<1>2. CASE Next
  BY <1>2, FileSystemKeeps, WalkKeeps, ReceiveKeeps, QueueKeeps
  DEF Next, FileSystem, Working
<1> QED
  BY <1>1, <1>2

\* A folder with a change that raised an event is in the hands of the trigger until the
\* processor has it, or a callback fails: ChangesAreKept.
THEOREM NoChangeIsDropped == Spec => []ChangesAreKept
<1>1. Init => KeptInv
  BY DEF Init, KeptInv
<1>2. IInv /\ KeptInv /\ [Next]_vars => KeptInv'
  BY KeptStep DEF IInv
<1>3. KeptInv => ChangesAreKept
  <2> SUFFICES ASSUME KeptInv, NEW f \in stale \ missed
               PROVE  InFlight(f)
    BY DEF ChangesAreKept
  <2>1. ASSUME WillBeSent(f)
        PROVE  InFlight(f)
    BY <2>1 DEF WillBeSent, InFlight
  <2> QED
    BY <2>1 DEF KeptInv, InFlight
<1> QED
  BY <1>1, <1>2, <1>3, Invariance, PTL DEF Spec
=============================================================================
