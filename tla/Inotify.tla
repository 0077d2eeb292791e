------------------------------- MODULE Inotify -------------------------------
(***************************************************************************)
(* The inotify trigger: the goroutine that takes file system events from   *)
(* the watcher and walks new directories to watch them (daemon.worker), the*)
(* goroutine that holds folders back until they have been silent for a     *)
(* while and then calls the processor (queue.worker), and the file system, *)
(* which changes between any two of their steps.                           *)
(*                                                                         *)
(* One lifetime of the process: the trigger keeps nothing on disk.         *)
(***************************************************************************)
EXTENDS Integers, Sequences

CONSTANTS Path,      \* the paths of the watched trees
          Dir,       \* those that are directories whenever they exist
          Roots,     \* the configured paths
          Parent,    \* the directory of every other path
          Folder,    \* what events are rewritten to
          FolderOf,  \* FolderOf[p]: the folder of an event of p, or Filtered
          Filtered,  \* the filter rejects the path
          NoPath,    \* the worker is at no path
          Delay,     \* ticks of silence before a folder is handed over
          QueueSize, \* events the kernel holds before it drops them
          MaxOps,    \* bound: changes of the file system
          MaxFaults  \* bound: failures to watch and failed callbacks

File == Path \ Dir
NotQueued == -1
Event == [op : {"create", "remove", "write"}, path : Path]

ASSUME InotifyAssumption ==
  /\ Roots \subseteq Dir /\ Dir \subseteq Path
  /\ Parent \in [Path \ Roots -> Dir]
  /\ FolderOf \in [Path -> Folder \cup {Filtered}]
  /\ Filtered \notin Folder
  /\ NoPath \notin Path
  /\ {Delay, QueueSize, MaxOps, MaxFaults} \subseteq Nat

VARIABLES
  present,  \* the paths that exist
  watched,  \* the directories the kernel watches for the trigger
  events,   \* what the watcher has not delivered yet
  worker,   \* where daemon.worker is; "dead" when it was never started
  starting, \* the walk is that of startMonitoring
  todo,     \* the walk: names still to visit, those of the innermost directory first
  current,  \* the path the worker is at
  names,    \* the names read in current, which is not watched yet
  scans,    \* queue.scans: the ticks each folder has to wait, or NotQueued
  ready,    \* folders taken from the map whose callback has not returned
  ops,      \* changes so far, for MaxOps
  faults    \* failures so far, for MaxFaults

\* History: read by no action, only by properties.
VARIABLES
  blind,    \* directories made, skipped or dropped where no event or walk reaches them
  stale,    \* folders with a change since they were last handed over
  missed    \* folders with a change that raised no event, or whose event was lost

walk == <<worker, starting, todo, current, names>>
queue == <<scans, ready>>
vars == <<present, watched, events, walk, queue, ops, faults, blind, stale, missed>>

Children(d) == {p \in present \ Roots : Parent[p] = d}

Trees == {S \in SUBSET Path : Roots \subseteq S /\ \A p \in S \ Roots : Parent[p] \in S}

Init ==
  /\ present \in Trees
  /\ watched = {}
  /\ events = <<>>
  /\ worker = "walk"
  /\ starting = TRUE
  /\ todo = <<Roots>>
  /\ current = NoPath
  /\ names = {}
  /\ scans = [f \in Folder |-> NotQueued]
  /\ ready = {}
  /\ ops = 0
  /\ faults = 0
  /\ blind = {}
  /\ stale = {}
  /\ missed = {}

Fault == faults < MaxFaults /\ faults' = faults + 1

-----------------------------------------------------------------------------
(* The file system and the kernel's queue.                                  *)

\* An event of p is delivered when its directory is watched and the queue has room.
Noticed(p) == Parent[p] \in watched /\ Len(events) < QueueSize

Raise(o, p) == events' = IF Noticed(p) THEN Append(events, [op |-> o, path |-> p]) ELSE events

Operation == ops < MaxOps /\ ops' = ops + 1

\* A file that comes or goes while the trigger runs makes its folder stale.
Changed(p) ==
  LET F == IF p \in File /\ ~starting THEN {FolderOf[p]} \ {Filtered} ELSE {}
  IN  /\ stale' = stale \cup F
      /\ missed' = IF Noticed(p) THEN missed ELSE missed \cup F

\* A new directory that raises no event although its parent is watched or about to be.
Overlooked(p) ==
  /\ p \in Dir
  /\ ~Noticed(p)
  /\ Parent[p] \in watched \/ (worker = "watch" /\ current = Parent[p])

Create(p) ==
  /\ p \notin present
  /\ Parent[p] \in present
  /\ Operation
  /\ present' = present \cup {p}
  /\ Raise("create", p)
  /\ Changed(p)
  /\ blind' = IF Overlooked(p) THEN blind \cup {p} ELSE blind
  /\ UNCHANGED <<watched, walk, queue, faults>>

\* A path is deleted, or renamed; with it goes its watch.
Remove(p) ==
  /\ p \in present
  /\ Children(p) = {}
  /\ Operation
  /\ present' = present \ {p}
  /\ watched' = watched \ {p}
  /\ Raise("remove", p)
  /\ Changed(p)
  /\ blind' = blind \ {p}
  /\ UNCHANGED <<walk, queue, faults>>

Write(p) ==
  /\ p \in present \cap File
  /\ Operation
  /\ Raise("write", p)
  /\ UNCHANGED <<present, watched, walk, queue, faults, blind, stale, missed>>

-----------------------------------------------------------------------------
(* filepath.Walk with walkFunc.  Walk reads the names of a directory, then  *)
(* calls walkFunc, which watches it, then visits the names.                 *)

Push(S, stack) == IF S = {} THEN stack ELSE <<S>> \o stack

Visit(p) == worker = "walk" /\ todo # <<>> /\ p \in Head(todo)
Rest(p) == Push(Head(todo) \ {p}, Tail(todo))

\* The order of the names is their lexical order: any.
WalkDir(p) ==
  /\ Visit(p)
  /\ p \in present \cap Dir
  /\ todo' = Rest(p)
  /\ current' = p
  /\ names' = Children(p)
  /\ worker' = "watch"
  /\ UNCHANGED <<present, watched, events, starting, queue, ops, faults, blind, stale, missed>>

\* Mutant: walkFunc does not ignore what is no directory.
WatchesFiles(p) ==
  /\ Visit(p)
  /\ p \in present \cap File
  /\ todo' = Rest(p)
  /\ watched' = watched \cup {p}
  /\ UNCHANGED <<present, events, worker, starting, current, names, queue, ops, faults,
                 blind, stale, missed>>

WalkFile(p) ==
  /\ Visit(p)
  /\ p \in present \cap File
  /\ todo' = Rest(p)
  /\ UNCHANGED <<present, watched, events, worker, starting, current, names, queue, ops, faults,
                 blind, stale, missed>>

\* Mutant: directories below a new directory are not watched.
WatchOnlyIt ==
  /\ worker = "watch"
  /\ current \in present
  /\ watched' = watched \cup {current}
  /\ blind' = blind \ {current}
  /\ todo' = todo
  /\ current' = NoPath
  /\ names' = {}
  /\ worker' = "walk"
  /\ UNCHANGED <<present, events, starting, queue, ops, faults, stale, missed>>

Watch ==
  /\ worker = "watch"
  /\ current \in present
  /\ watched' = watched \cup {current}
  /\ blind' = blind \ {current}
  /\ todo' = Push(names, todo)
  /\ current' = NoPath
  /\ names' = {}
  /\ worker' = "walk"
  /\ UNCHANGED <<present, events, starting, queue, ops, faults, stale, missed>>

ToVisit(p) == \E i \in DOMAIN todo : p \in todo[i]

\* What an abandoned walk has not watched.
Skipped == {p \in present \cap Dir : ToVisit(p) \/ p \in names \/ p = current}

LeaveWalk == todo' = <<>> /\ current' = NoPath /\ names' = {} /\ starting' = FALSE

\* An error ends the walk.  That of startMonitoring closes the watcher and the trigger
\* never starts its worker.
Abandon ==
  /\ LeaveWalk
  /\ IF starting
     THEN /\ worker' = "dead"
          /\ watched' = {}
          /\ events' = <<>>
          /\ UNCHANGED blind
     ELSE /\ worker' = "idle"
          /\ blind' = blind \cup Skipped
          /\ UNCHANGED <<watched, events>>
  /\ UNCHANGED <<present, queue, ops, stale, missed>>

\* A name is gone before it is visited, whatever it was.
WalkFails ==
  /\ \E p \in Path \ present : Visit(p)
  /\ Abandon
  /\ UNCHANGED faults

\* The directory is gone before it is watched.
WatchFails ==
  /\ worker = "watch"
  /\ current \notin present
  /\ Abandon
  /\ UNCHANGED faults

\* The limit of watches, or permissions.
WatchRefused == worker = "watch" /\ Fault /\ Abandon

WalkDone ==
  /\ worker = "walk"
  /\ todo = <<>>
  /\ worker' = "idle"
  /\ LeaveWalk
  /\ UNCHANGED <<present, watched, events, queue, ops, faults, blind, stale, missed>>

-----------------------------------------------------------------------------
(* daemon.worker                                                            *)

Take == worker = "idle" /\ events # <<>> /\ events' = Tail(events)

ReceiveCreate ==
  /\ Take
  /\ Head(events).op = "create"
  /\ worker' = "stat"
  /\ current' = Head(events).path
  /\ UNCHANGED <<present, watched, starting, todo, names, queue, ops, faults, blind, stale, missed>>

ReceiveRemove ==
  /\ Take
  /\ Head(events).op = "remove"
  /\ FolderOf[Head(events).path] # Filtered
  /\ worker' = "send"
  /\ current' = Head(events).path
  /\ UNCHANGED <<present, watched, starting, todo, names, queue, ops, faults, blind, stale, missed>>

Ignore ==
  /\ Take
  /\ \/ Head(events).op = "write"
     \/ Head(events).op = "remove" /\ FolderOf[Head(events).path] = Filtered
  /\ UNCHANGED <<present, watched, walk, queue, ops, faults, blind, stale, missed>>

\* os.Stat: what the event named may be gone.
StatFile ==
  /\ worker = "stat"
  /\ current \in present \cap File
  /\ FolderOf[current] # Filtered
  /\ worker' = "send"
  /\ UNCHANGED <<present, watched, events, starting, todo, current, names, queue, ops, faults,
                 blind, stale, missed>>

StatDir ==
  /\ worker = "stat"
  /\ current \in present \cap Dir
  /\ worker' = "walk"
  /\ todo' = <<{current}>>
  /\ current' = NoPath
  /\ UNCHANGED <<present, watched, events, starting, names, queue, ops, faults, blind, stale, missed>>

\* Mutant: an error of os.Stat ends the worker.
StatEnds ==
  /\ worker = "stat"
  /\ current \notin present
  /\ worker' = "dead"
  /\ current' = NoPath
  /\ UNCHANGED <<present, watched, events, starting, todo, names, queue, ops, faults, blind, stale, missed>>

StatFails ==
  /\ worker = "stat"
  /\ current \notin present
  /\ worker' = "idle"
  /\ current' = NoPath
  /\ UNCHANGED <<present, watched, events, starting, todo, names, queue, ops, faults, blind, stale, missed>>

StatFiltered ==
  /\ worker = "stat"
  /\ current \in present \cap File
  /\ FolderOf[current] = Filtered
  /\ worker' = "idle"
  /\ current' = NoPath
  /\ UNCHANGED <<present, watched, events, starting, todo, names, queue, ops, faults, blind, stale, missed>>

-----------------------------------------------------------------------------
(* queue.worker.  The channel has no buffer: a send waits for the callbacks.*)

Send ==
  /\ worker = "send"
  /\ ready = {}
  /\ scans' = [scans EXCEPT ![FolderOf[current]] = Delay]
  /\ worker' = "idle"
  /\ current' = NoPath
  /\ UNCHANGED <<present, watched, events, starting, todo, names, ready, ops, faults,
                 blind, stale, missed>>

Ripe == {f \in Folder : scans[f] = 0}

\* Mutant: the map is replaced by an empty one.
CollectAndClear ==
  /\ ready = {}
  /\ Ripe # {}
  /\ ready' = Ripe
  /\ scans' = [f \in Folder |-> NotQueued]
  /\ UNCHANGED <<present, watched, events, walk, ops, faults, blind, stale, missed>>

Collect ==
  /\ ready = {}
  /\ Ripe # {}
  /\ ready' = Ripe
  /\ scans' = [f \in Folder |-> IF f \in Ripe THEN NotQueued ELSE scans[f]]
  /\ UNCHANGED <<present, watched, events, walk, ops, faults, blind, stale, missed>>

Callback(f) ==
  /\ f \in ready
  /\ ready' = ready \ {f}
  /\ stale' = stale \ {f}
  /\ missed' = missed \ {f}
  /\ UNCHANGED <<present, watched, events, walk, scans, ops, faults, blind>>

\* processor.Add returns an error: it is logged.
CallbackFails(f) ==
  /\ f \in ready
  /\ Fault
  /\ ready' = ready \ {f}
  /\ missed' = missed \cup (stale \cap {f})
  /\ UNCHANGED <<present, watched, events, walk, scans, ops, blind, stale>>

Tick ==
  /\ scans' = [f \in Folder |-> IF scans[f] > 0 THEN scans[f] - 1 ELSE scans[f]]
  /\ UNCHANGED <<present, watched, events, walk, ready, ops, faults, blind, stale, missed>>

-----------------------------------------------------------------------------
FileSystem == \E p \in Path \ Roots : Create(p) \/ Remove(p) \/ Write(p)

Walking ==
  \/ \E p \in Path : WalkDir(p) \/ WalkFile(p)
  \/ Watch
  \/ WalkFails
  \/ WatchFails
  \/ WalkDone

Working ==
  \/ Walking
  \/ ReceiveCreate
  \/ ReceiveRemove
  \/ Ignore
  \/ StatFile
  \/ StatDir
  \/ StatFails
  \/ StatFiltered
  \/ Send

Queueing ==
  \/ Collect
  \/ \E f \in Folder : Callback(f)

Next ==
  \/ FileSystem
  \/ Working
  \/ WatchRefused
  \/ Queueing
  \/ \E f \in Folder : CallbackFails(f)
  \/ Tick

Spec == Init /\ [][Next]_vars

\* Both goroutines run, callbacks return (AddReturns of Processor), time passes.
Fairness == WF_vars(Working) /\ WF_vars(Queueing) /\ WF_vars(Tick)

FairSpec == Spec /\ Fairness

-----------------------------------------------------------------------------
(* Properties.                                                              *)

\* The types of the variables.
TypeOK ==
  /\ present \in SUBSET Path
  /\ watched \in SUBSET Dir
  /\ events \in Seq(Event)
  /\ worker \in {"walk", "watch", "idle", "stat", "send", "dead"}
  /\ starting \in BOOLEAN
  /\ todo \in Seq(SUBSET Path)
  /\ current \in Path \cup {NoPath}
  /\ names \in SUBSET Path
  /\ scans \in [Folder -> Nat \cup {NotQueued}]
  /\ ready \in SUBSET Folder
  /\ ops \in Nat
  /\ faults \in Nat
  /\ blind \in SUBSET Dir
  /\ stale \in SUBSET Folder
  /\ missed \in SUBSET Folder

Announced(p) == \E i \in DOMAIN events : events[i].op = "create" /\ events[i].path = p

\* The worker will come to p and watch it.
WillBeWatched(p) ==
  \/ Announced(p)
  \/ ToVisit(p)
  \/ worker = "stat" /\ current = p
  \/ worker = "watch" /\ (current = p \/ p \in names)

Reached(p) == p \in watched \/ WillBeWatched(p) \/ p \in blind

\* A directory in a watched directory is watched or will be, with three exceptions
\* (blind): it was made after Walk read the names of its parent and before walkFunc
\* watched the parent; its event was dropped by a full queue; the walk that would have
\* reached it was ended by an error.  See inotify.go:119-139, 176-186.
NoGap ==
  \A p \in (present \cap Dir) \ Roots :
    Parent[p] \in watched => Reached(p)

InFlight(f) ==
  \/ f \in ready
  \/ scans[f] # NotQueued
  \/ worker \in {"stat", "send"} /\ FolderOf[current] = f
  \/ \E i \in DOMAIN events : events[i].op # "write" /\ FolderOf[events[i].path] = f

\* Once a file that came or went has raised an event, its folder is in the hands of the
\* trigger until the processor has it: an error of os.Stat, a filter, a burst of events
\* or a busy queue drop no folder.  Only a failed callback does (missed).
ChangesAreKept == \A f \in stale \ missed : InFlight(f)

\* Every change that raised an event is handed to the processor or is lost to a failure:
\* neither the two goroutines nor the channel between them stop.
ChangesArrive == \A f \in Folder : f \in stale ~> (f \notin stale \/ f \in missed)

Quiet == events = <<>> /\ worker = "idle" /\ ready = {} /\ \A f \in Folder : scans[f] = NotQueued

\* "watch new directories" (inotify.go:176): with nothing left to do, every directory is
\* watched, whenever it was made.
DirectoriesAreWatched == Quiet => present \cap Dir \subseteq watched

\* "Listens for changes on the file system" (README.md:114): with nothing left to do and
\* every directory watched, the folder of every file that came or went since the trigger
\* runs has been handed to the processor.
ChangesAreAdded == Quiet /\ present \cap Dir \subseteq watched => stale = {}

-----------------------------------------------------------------------------
(* The inductive strengthening of NoGap.                                    *)

\* Where the walk is between two of its steps; while a directory is about to be watched,
\* those in it are known (names) or overlooked (blind) already.
WalkInv ==
  /\ starting => worker \in {"walk", "watch"}
  /\ worker \notin {"walk", "watch"} => todo = <<>>
  /\ worker \in {"stat", "send", "watch"} => current \in Path
  /\ worker = "watch" => current \in Dir
  /\ worker = "watch" =>
       \A p \in (present \cap Dir) \ Roots : Parent[p] = current => Reached(p)

IInv == TypeOK /\ WalkInv /\ NoGap

-----------------------------------------------------------------------------
(* The inductive strengthening of ChangesAreKept.                           *)

\* What the events and the worker hold of f leads to a send: the file of a creation is
\* still there, or its removal comes behind.
WillBeSent(f) ==
  \/ worker = "send" /\ FolderOf[current] = f
  \/ worker = "stat" /\ current \in present \cap File /\ FolderOf[current] = f
  \/ \E i \in DOMAIN events :
       /\ FolderOf[events[i].path] = f
       /\ \/ events[i].op = "remove"
          \/ events[i].op = "create" /\ events[i].path \in present \cap File

KeptInv ==
  /\ starting => stale = {}
  /\ \A f \in stale \ missed : f \in ready \/ scans[f] # NotQueued \/ WillBeSent(f)
=============================================================================
