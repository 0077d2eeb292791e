------------------------------ MODULE Processor ------------------------------
(***************************************************************************)
(* The processor of autoscan: triggers that add scans (processor.Add, one  *)
(* transaction on the only read-write connection), the scan loop that      *)
(* hands the most urgent old enough scan to every target and then deletes  *)
(* it (runScanLoop, Process), and the process around them, which exits on  *)
(* fatal errors, is killed and is started again on the same database.      *)
(*                                                                         *)
(* Each step of a trigger and of the loop that another of them can come    *)
(* between is an action: a transaction is open over several steps, and the *)
(* loop reads a row, waits for the answers of its targets, and deletes the *)
(* row in three different statements.                                      *)
(***************************************************************************)
EXTENDS ScanStore, Sequences

CONSTANTS Client,         \* goroutines of triggers that call processor.Add
          Free,           \* nobody: the read-write connection is in the pool
          NoFolder,       \* no scan is being processed
          NTargets,       \* len(targets)
          NAnchors,       \* len(anchors)
          Batches,        \* the lists of scans a trigger may add
          MinAge,         \* minimum-age, in ticks
          TicksPerSecond, \* the clock is finer than the seconds of the table
          MaxClock,       \* bound: the clock stops here
          MaxStamp,       \* bound: no trigger fires after this tick
          MaxAdds,        \* bound: calls of Add
          MaxFaults       \* bound: failures of targets, anchors, database, process

Target == 1 .. NTargets
Anchor == 1 .. NAnchors

\* An entry of a batch, before it is stamped: "offset" is the time-offset of a
\* bernard drive in ticks, 0 in every other trigger.
Entry == [folder: Folder, relativePath: RelPath, priority: Priority, offset: Int]

ASSUME ProcessorAssumption ==
  /\ Free \notin Client
  /\ NoFolder \notin Folder
  /\ NTargets \in Nat \ {0}
  /\ NAnchors \in Nat
  /\ Batches \subseteq Seq(Entry)
  /\ MinAge \in Nat
  /\ TicksPerSecond \in Nat \ {0}
  /\ {MaxClock, MaxStamp, MaxAdds, MaxFaults} \subseteq Nat

VARIABLES
  clock,            \* the wall clock, in ticks
  table,            \* the committed contents of the table scan
  draft,            \* what the read-write connection sees: table, or its open transaction
  conn,             \* the client whose transaction is open, or Free
  batch,            \* batch[c]: the scans of c's current call of Add, <<>> when there is none
  next,             \* the position in batch[conn] of the next scan to upsert
  loop,             \* where the scan loop is; "down" and "init" are the process's own
  nextAnchor,       \* the next anchor CheckAnchors stats
  anchorState,      \* anchorState[a]: a existed when last statted
  targetsAvailable, \* the loop's flag of the same name
  answer,           \* answer[t]: what t returned in the current round of calls
  picked,           \* the folder of the scan in Process, or NoFolder
  stats,            \* the counters of stats.Stats
  health,           \* health[t]: whether target t answers (environment)
  anchorUp,         \* anchorUp[a]: whether anchor a exists (environment)
  adds,             \* calls of Add so far, for MaxAdds
  faults            \* failures so far, for MaxFaults

\* History: read by no action, only by properties.
VARIABLES
  seen,             \* seen[f]: the events merged into the row of f
  owed,             \* owed[f]: targets not yet told of f since its last committed event
  overtaken,        \* folders with an event committed while their row was in Process
  verified,         \* targets that were available after they last failed
  sighted           \* anchors found to exist since this round of the loop began

store == <<table, draft, conn, batch, next>>
looping == <<loop, nextAnchor, anchorState, targetsAvailable, answer, picked>>
world == <<clock, health, anchorUp, adds, faults>>
past == <<seen, owed, overtaken, verified>>
history == <<past, sighted>>
vars == <<store, looping, stats, world, history>>

Answer == {"none", "ok", "unmatched", "unavailable", "fatal"}
Failure == {"unavailable", "fatal"}
NoAnswer == [t \in Target |-> "none"]
NoStats == [received |-> 0, processed |-> 0, retried |-> 0]

Seconds(ticks) == ticks \div TicksPerSecond

Folders(scans) == {scans[i].folder : i \in DOMAIN scans}

Init ==
  /\ clock = 0
  /\ table = EmptyTable
  /\ draft = EmptyTable
  /\ conn = Free
  /\ batch = [c \in Client |-> <<>>]
  /\ next = 1
  /\ loop = "init"
  /\ nextAnchor = 1
  /\ anchorState = [a \in Anchor |-> FALSE]
  /\ targetsAvailable = FALSE
  /\ answer = NoAnswer
  /\ picked = NoFolder
  /\ stats = NoStats
  /\ health = [t \in Target |-> "up"]
  /\ anchorUp = [a \in Anchor |-> TRUE]
  /\ adds = 0
  /\ faults = 0
  /\ seen = [f \in Folder |-> {}]
  /\ owed = [f \in Folder |-> {}]
  /\ overtaken = {}
  /\ verified = {}
  /\ sighted = {}

Fault == faults < MaxFaults /\ faults' = faults + 1

-----------------------------------------------------------------------------
(* processor.Add and datastore.Upsert, in the goroutine of a trigger.       *)

Stamped(e) ==
  [folder |-> e.folder, relativePath |-> e.relativePath, priority |-> e.priority,
   time |-> Seconds(clock + e.offset), at |-> clock + e.offset]

\* The trigger stamps its scans and calls Add; Upsert of an empty list returns at once.
Add(c, b) ==
  /\ loop # "down"
  /\ batch[c] = <<>>
  /\ adds < MaxAdds
  /\ clock =< MaxStamp
  /\ adds' = adds + 1
  /\ batch' = [batch EXCEPT ![c] = [i \in DOMAIN b |-> Stamped(b[i])]]
  /\ stats' = [stats EXCEPT !.received = @ + Len(b)]
  /\ UNCHANGED <<table, draft, conn, next, looping, clock, health, anchorUp, faults, history>>

Waiting(c) == batch[c] # <<>> /\ conn # c

\* BeginTx: the pool hands out its one connection.
Begin(c) ==
  /\ Waiting(c)
  /\ conn = Free
  /\ conn' = c
  /\ next' = 1
  /\ UNCHANGED <<table, draft, batch, looping, stats, world, history>>

BeginFails(c) ==
  /\ Waiting(c)
  /\ conn = Free
  /\ Fault
  /\ batch' = [batch EXCEPT ![c] = <<>>]
  /\ UNCHANGED <<table, draft, conn, next, looping, stats, clock, health, anchorUp, adds, history>>

ExecUpsert(c) ==
  /\ conn = c
  /\ next =< Len(batch[c])
  /\ draft' = Upserted(draft, batch[c][next])
  /\ next' = next + 1
  /\ UNCHANGED <<table, conn, batch, looping, stats, world, history>>

\* Mutant: the transaction is never closed, and the connection not returned to the pool.
KeepsConnection(c) ==
  /\ batch' = [batch EXCEPT ![c] = <<>>]
  /\ conn' = conn
  /\ next' = 1

Return(c) ==
  /\ batch' = [batch EXCEPT ![c] = <<>>]
  /\ conn' = Free
  /\ next' = 1

\* Mutant: what was upserted before the error is committed.
CommitsOnError(c) ==
  /\ conn = c
  /\ Fault
  /\ Return(c)
  /\ table' = draft
  /\ draft' = draft
  /\ UNCHANGED <<looping, stats, clock, health, anchorUp, adds, history>>

\* An upsert or the commit fails: the deferred function rolls back.
Rollback(c) ==
  /\ conn = c
  /\ Fault
  /\ Return(c)
  /\ draft' = table
  /\ UNCHANGED <<table, looping, stats, clock, health, anchorUp, adds, history>>

\* The events of the first n scans of a list that are of folder f.
Events(scans, n, f) ==
  {[at |-> scans[i].at, priority |-> scans[i].priority] : i \in {j \in 1 .. n : scans[j].folder = f}}

\* The history of a commit: its events wait in the rows, every target is owed a call.
Record(scans) ==
  /\ seen' = [f \in Folder |-> seen[f] \cup Events(scans, Len(scans), f)]
  /\ owed' = [f \in Folder |-> IF f \in Folders(scans) THEN Target ELSE owed[f]]
  /\ overtaken' = overtaken \cup (Folders(scans) \cap {picked})
  /\ UNCHANGED <<verified, sighted>>

Commit(c) ==
  /\ conn = c
  /\ next > Len(batch[c])
  /\ Return(c)
  /\ table' = draft
  /\ Record(batch[c])
  /\ UNCHANGED <<draft, looping, stats, world>>

-----------------------------------------------------------------------------
(* The process.                                                             *)

\* The process is gone: what it held in memory, its open transaction included.
Exit ==
  /\ loop' = "down"
  /\ batch' = [c \in Client |-> <<>>]
  /\ conn' = Free
  /\ next' = 1
  /\ draft' = table
  /\ nextAnchor' = 1
  /\ anchorState' = [a \in Anchor |-> FALSE]
  /\ targetsAvailable' = FALSE
  /\ answer' = NoAnswer
  /\ picked' = NoFolder
  /\ stats' = NoStats
  /\ verified' = {}
  /\ sighted' = {}
  /\ UNCHANGED <<table, clock, health, anchorUp, adds, seen, owed, overtaken>>

Crash == loop # "down" /\ Fault /\ Exit

\* main: the database is open and the triggers are served before the targets are known.
Boot ==
  /\ loop = "down"
  /\ loop' = "init"
  /\ UNCHANGED <<store, nextAnchor, anchorState, targetsAvailable, answer, picked, stats, world, history>>

InitTargets ==
  /\ loop = "init"
  /\ loop' = "anchors"
  /\ UNCHANGED <<store, nextAnchor, anchorState, targetsAvailable, answer, picked, stats, world, history>>

\* A target that does not answer while it is initialised: log.Fatal.
InitTargetsFails ==
  /\ loop = "init"
  /\ \E t \in Target : health[t] # "up"
  /\ Exit
  /\ UNCHANGED faults

-----------------------------------------------------------------------------
(* runScanLoop.  After a sleep, and after a scan, the loop is at "anchors". *)

Again ==
  /\ loop' = "anchors"
  /\ nextAnchor' = 1
  /\ picked' = NoFolder
  /\ answer' = NoAnswer
  /\ sighted' = {}

\* Mutant: an anchor that was found once is not statted again.
StatOnce ==
  /\ loop = "anchors"
  /\ nextAnchor =< NAnchors
  /\ nextAnchor' = nextAnchor + 1
  /\ IF anchorState[nextAnchor]
     THEN UNCHANGED <<anchorState, sighted>>
     ELSE /\ anchorState' = [anchorState EXCEPT ![nextAnchor] = anchorUp[nextAnchor]]
          /\ sighted' = IF anchorUp[nextAnchor] THEN sighted \cup {nextAnchor} ELSE sighted
  /\ UNCHANGED <<store, loop, targetsAvailable, answer, picked, stats, world, past>>

\* CheckAnchors stats one anchor.
StatAnchor ==
  /\ loop = "anchors"
  /\ nextAnchor =< NAnchors
  /\ anchorState' = [anchorState EXCEPT ![nextAnchor] = anchorUp[nextAnchor]]
  /\ sighted' = IF anchorUp[nextAnchor] THEN sighted \cup {nextAnchor} ELSE sighted
  /\ nextAnchor' = nextAnchor + 1
  /\ UNCHANGED <<store, loop, targetsAvailable, answer, picked, stats, world, past>>

AllAnchorsAvailable == \A a \in Anchor : anchorState[a]

AnchorsChecked ==
  /\ loop = "anchors"
  /\ nextAnchor > NAnchors
  /\ nextAnchor' = 1
  /\ loop' = IF ~AllAnchorsAvailable THEN "anchors"
             ELSE IF targetsAvailable THEN "pick" ELSE "checking"
  /\ sighted' = IF AllAnchorsAvailable THEN sighted ELSE {}
  /\ UNCHANGED <<store, anchorState, targetsAvailable, answer, picked, stats, world, past>>

Failed(t) == answer'[t] \in Failure

AnswerAvailable(t) ==
  /\ loop = "checking"
  /\ answer[t] = "none"
  /\ answer' = [answer EXCEPT ![t] =
        CASE health[t] = "up" -> "ok" [] health[t] = "down" -> "unavailable" [] OTHER -> "fatal"]
  /\ verified' = IF Failed(t) THEN verified \ {t} ELSE verified \cup {t}
  /\ UNCHANGED <<store, loop, nextAnchor, anchorState, targetsAvailable, picked, stats, world,
                 seen, owed, overtaken, sighted>>

Answered == \A t \in Target : answer[t] # "none"

\* The errgroup returns the error that came first: any of them may have.
TargetsAvailable ==
  /\ loop = "checking"
  /\ Answered
  /\ \A t \in Target : answer[t] = "ok"
  /\ targetsAvailable' = TRUE
  /\ loop' = "pick"
  /\ answer' = NoAnswer
  /\ UNCHANGED <<store, nextAnchor, anchorState, picked, stats, world, history>>

\* Mutant: the answers of the last round are taken for those of the next.
KeepsAnswers ==
  /\ loop = "checking"
  /\ Answered
  /\ \E t \in Target : answer[t] = "unavailable"
  /\ loop' = "anchors"
  /\ nextAnchor' = 1
  /\ sighted' = {}
  /\ UNCHANGED <<store, anchorState, targetsAvailable, answer, picked, stats, world, past>>

TargetsUnavailable ==
  /\ loop = "checking"
  /\ Answered
  /\ \E t \in Target : answer[t] = "unavailable"
  /\ Again
  /\ UNCHANGED <<store, anchorState, targetsAvailable, stats, world, past>>

TargetCheckFatal ==
  /\ loop = "checking"
  /\ Answered
  /\ \E t \in Target : answer[t] = "fatal"
  /\ Exit
  /\ UNCHANGED faults

-----------------------------------------------------------------------------
(* Process: GetAvailableScan, callTargets, Delete.                          *)

Cutoff == Seconds(clock - MinAge)

\* Mutant: the row is deleted as it is read, before the targets are called.
PickAndDelete(f) ==
  /\ loop = "pick"
  /\ conn = Free
  /\ f \in Candidates(table, Cutoff)
  /\ table' = Deleted(table, f)
  /\ draft' = Deleted(table, f)
  /\ picked' = f
  /\ overtaken' = overtaken \ {f}
  /\ loop' = "call"
  /\ UNCHANGED <<conn, batch, next, nextAnchor, anchorState, targetsAvailable, answer, stats,
                 world, seen, owed, verified, sighted>>

Pick(f) ==
  /\ loop = "pick"
  /\ f \in Candidates(table, Cutoff)
  /\ picked' = f
  /\ overtaken' = overtaken \ {f}
  /\ loop' = "call"
  /\ UNCHANGED <<store, nextAnchor, anchorState, targetsAvailable, answer, stats, world,
                 seen, owed, verified, sighted>>

\* ErrNoScans: the loop sleeps.
NoScans ==
  /\ loop = "pick"
  /\ Available(table, Cutoff) = {}
  /\ Again
  /\ UNCHANGED <<store, anchorState, targetsAvailable, stats, world, past>>

\* The query fails: ErrFatal, log.Fatal.
PickFails == loop = "pick" /\ Fault /\ Exit

\* What target t may answer to a scan.  Without a library for the folder it answers before
\* any request, whatever its health.  Any request may fail on its own (a time-out, a 500),
\* also after the target has started the scan: see AnswerScan.
MayAnswer(t, a) ==
  \/ a = "unmatched"
  \/ a = "ok" /\ health[t] = "up"
  \/ a = "unavailable" /\ health[t] = "down"
  \/ a = "fatal" /\ health[t] = "broken"

AnswerScan(t) ==
  /\ loop = "call"
  /\ answer[t] = "none"
  /\ \E a \in Answer :
       /\ \/ MayAnswer(t, a) /\ UNCHANGED faults
          \/ a = "unavailable" /\ health[t] = "up" /\ Fault
       /\ answer' = [answer EXCEPT ![t] = a]
  /\ verified' = IF Failed(t) THEN verified \ {t} ELSE verified
  /\ owed' = IF Failed(t) \/ picked \in overtaken THEN owed
             ELSE [owed EXCEPT ![picked] = @ \ {t}]
  /\ UNCHANGED <<store, loop, nextAnchor, anchorState, targetsAvailable, picked, stats,
                 clock, health, anchorUp, adds, seen, overtaken, sighted>>

Failing == {t \in Target : answer[t] \in Failure}

\* Mutant: one target that took the scan is enough.
SomeTargetTookIt == Failing = {} \/ \E t \in Target : answer[t] = "ok"

\* callTargets returns nil: ErrLibraryNotMatched is no error.
CallSucceeds == Failing = {}

\* callTargets returns the first error in the order of the targets.
CallReturns(error) ==
  \E t \in Failing : answer[t] = error /\ \A u \in Failing : t =< u

TargetsCalled ==
  /\ loop = "call"
  /\ Answered
  /\ CallSucceeds
  /\ loop' = "delete"
  /\ UNCHANGED <<store, nextAnchor, anchorState, targetsAvailable, answer, picked, stats,
                 world, history>>

\* Mutant: the loop does not wait until the targets are available again.
CallAgain ==
  /\ loop = "call"
  /\ Answered
  /\ CallReturns("unavailable")
  /\ stats' = [stats EXCEPT !.retried = @ + 1]
  /\ Again
  /\ UNCHANGED <<store, anchorState, targetsAvailable, world, past>>

\* ErrTargetUnavailable: the scan stays in the table.
CallUnavailable ==
  /\ loop = "call"
  /\ Answered
  /\ CallReturns("unavailable")
  /\ stats' = [stats EXCEPT !.retried = @ + 1]
  /\ targetsAvailable' = FALSE
  /\ Again
  /\ UNCHANGED <<store, anchorState, world, past>>

CallFatal ==
  /\ loop = "call"
  /\ Answered
  /\ CallReturns("fatal")
  /\ Exit
  /\ UNCHANGED faults

\* One statement, and a transaction of its own: it waits for the connection.
Delete ==
  /\ loop = "delete"
  /\ conn = Free
  /\ table' = Deleted(table, picked)
  /\ draft' = table'
  /\ stats' = [stats EXCEPT !.processed = @ + 1]
  /\ seen' = [seen EXCEPT ![picked] = {}]
  /\ Again
  /\ UNCHANGED <<conn, batch, next, anchorState, targetsAvailable, world,
                 owed, overtaken, verified>>

\* An error of no class: log.Fatal.
DeleteFails == loop = "delete" /\ conn = Free /\ Fault /\ Exit

-----------------------------------------------------------------------------
(* The world around the process.                                            *)

Tick ==
  /\ clock < MaxClock
  /\ clock' = clock + 1
  /\ UNCHANGED <<store, looping, stats, health, anchorUp, adds, faults, history>>

TargetFails(t) ==
  /\ health[t] = "up"
  /\ Fault
  /\ \E h \in {"down", "broken"} : health' = [health EXCEPT ![t] = h]
  /\ UNCHANGED <<store, looping, stats, clock, anchorUp, adds, history>>

TargetRecovers(t) ==
  /\ health[t] # "up"
  /\ health' = [health EXCEPT ![t] = "up"]
  /\ UNCHANGED <<store, looping, stats, clock, anchorUp, adds, faults, history>>

AnchorLost(a) ==
  /\ anchorUp[a]
  /\ Fault
  /\ anchorUp' = [anchorUp EXCEPT ![a] = FALSE]
  /\ UNCHANGED <<store, looping, stats, clock, health, adds, history>>

AnchorBack(a) ==
  /\ ~anchorUp[a]
  /\ anchorUp' = [anchorUp EXCEPT ![a] = TRUE]
  /\ UNCHANGED <<store, looping, stats, clock, health, adds, faults, history>>

-----------------------------------------------------------------------------
Upserting(c) == Begin(c) \/ ExecUpsert(c) \/ Commit(c)

Trigger(c) ==
  \/ \E b \in Batches : Add(c, b)
  \/ Upserting(c)
  \/ BeginFails(c)
  \/ Rollback(c)

Process ==
  \/ \E f \in Folder : Pick(f)
  \/ NoScans
  \/ TargetsCalled
  \/ CallUnavailable
  \/ CallFatal
  \/ Delete

Looping ==
  \/ InitTargets
  \/ StatAnchor
  \/ AnchorsChecked
  \/ TargetsAvailable
  \/ TargetsUnavailable
  \/ TargetCheckFatal
  \/ Process

Answering(t) == AnswerAvailable(t) \/ AnswerScan(t)

Dying == InitTargetsFails \/ PickFails \/ DeleteFails \/ Crash

World ==
  \/ Tick
  \/ Boot
  \/ \E t \in Target : TargetFails(t) \/ TargetRecovers(t)
  \/ \E a \in Anchor : AnchorLost(a) \/ AnchorBack(a)

Next ==
  \/ \E c \in Client : Trigger(c)
  \/ Looping
  \/ \E t \in Target : Answering(t)
  \/ Dying
  \/ World

Spec == Init /\ [][Next]_vars

\* The goroutines run, the calls of the targets return (their clients time out), the
\* supervisor starts the process again, and what failed comes back.
Fairness ==
  /\ \A c \in Client : WF_vars(Upserting(c))
  /\ WF_vars(Looping)
  /\ \A t \in Target : WF_vars(Answering(t)) /\ WF_vars(TargetRecovers(t))
  /\ \A a \in Anchor : WF_vars(AnchorBack(a))
  /\ WF_vars(Boot)
  /\ WF_vars(Tick)

FairSpec == Spec /\ Fairness

-----------------------------------------------------------------------------
(* Properties.                                                              *)

\* The types of the variables.
TypeOK ==
  /\ clock \in Nat
  /\ table \in Table
  /\ draft \in Table
  /\ conn \in Client \cup {Free}
  /\ batch \in [Client -> Seq(Scan)]
  /\ next \in Nat \ {0}
  /\ loop \in {"down", "init", "anchors", "checking", "pick", "call", "delete"}
  /\ nextAnchor \in Nat \ {0}
  /\ anchorState \in [Anchor -> BOOLEAN]
  /\ targetsAvailable \in BOOLEAN
  /\ answer \in [Target -> Answer]
  /\ picked \in Folder \cup {NoFolder}
  /\ stats \in [received : Nat, processed : Nat, retried : Nat]
  /\ health \in [Target -> {"up", "down", "broken"}]
  /\ anchorUp \in [Anchor -> BOOLEAN]
  /\ adds \in Nat
  /\ faults \in Nat
  /\ seen \in [Folder -> SUBSET [at : Int, priority : Priority]]
  /\ owed \in [Folder -> SUBSET Target]
  /\ overtaken \in SUBSET Folder
  /\ verified \in SUBSET Target
  /\ sighted \in SUBSET Anchor

\* A committed scan is in the table until every target has taken it in an attempt that
\* began after its commit, whatever fails or exits in between.  The exception is the
\* window of Process: an event committed between GetAvailableScan and Delete
\* (processor.go:176-187) goes with the row that the loop deletes.
NoScanLost == \A f \in Folder : (owed[f] # {} /\ table[f] = NoRow) => f \in overtaken

\* The same without the exception: every file that was added waits in the table until
\* its folder is handed to the targets.
EveryFileDispatched == \A f \in Folder : owed[f] # {} => table[f] # NoRow

Says(row, events) ==
  IF row = NoRow THEN events = {}
  ELSE /\ \E e \in events : e.at = row.at
       /\ \E e \in events : e.priority = row.priority
       /\ \A e \in events : e.priority =< row.priority

\* An Add that fails or dies half way leaves nothing behind, and what a row says is what
\* the committed events of its folder say: it exists when there are any, it is due with
\* one of them and as urgent as the most urgent.
RowsAreCommittedEvents == \A f \in Folder : Says(table[f], seen[f])

\* What one call of Add hands over enters the table at once and as a whole, or not at all,
\* on top of every commit and delete before it (datastore.go:53-83): the table changes only
\* by the delete of one folder or by all upserts of one batch.
BatchesAreAtomic ==
  [][table' # table =>
       \/ \E f \in Folder : table' = Deleted(table, f)
       \/ \E c \in Client : batch[c] # <<>> /\ table' = UpsertedAll(table, batch[c])]_vars

\* The step that begins the processing of f.
Dispatch(f) == picked # f /\ picked' = f

\* A folder is handed to the targets only when more than the minimum age has passed, in
\* real time, since its last committed event: truncating both sides of "time < ?" to
\* seconds never cuts the wait short.
MinAgeRespected ==
  [][\A f \in Folder : Dispatch(f) => clock - table[f].at > MinAge]_vars

\* The same of every event merged into the row, not of the last one to commit.
WaitsForAllFiles ==
  [][\A f \in Folder : Dispatch(f) => \A e \in seen[f] : clock - e.at > MinAge]_vars

\* Of the folders that are old enough, the one handed over has had an event at least as
\* urgent as any event of any other.
MostUrgentFirst ==
  [][\A f \in Folder : Dispatch(f) =>
       \A g \in {h \in Queued(table) : table[h].time < Cutoff} : \A e \in seen[g] :
         \E d \in seen[f] : d.priority >= e.priority]_vars

\* No scan is begun before every anchor has been found to exist in this very round of the
\* loop (processor.go:83-94), not in an earlier one, and every target that failed, even
\* once, has been available since.
DispatchIsGated ==
  [][\A f \in Folder : Dispatch(f) => sighted = Anchor /\ verified = Target]_vars

\* A call of Add returns: no error leaves the only connection behind.
AddReturns == \A c \in Client : batch[c] # <<>> ~> batch[c] = <<>>

\* When failures stop, the table empties: no scan and no failed attempt blocks it.
Drains == \A f \in Folder : table[f] # NoRow ~> table[f] = NoRow

Took == {"ok", "unmatched"}
Processing == loop \in {"call", "delete"}

\* The targets that have taken the scan in Process.
TookScan == IF Processing THEN {t \in Target : answer[t] \in Took} ELSE {}

Queue == INSTANCE ScanQueue WITH
  Nobody <- NoFolder,
  due <- Queued(table),
  current <- picked,
  took <- TookScan

\* The processor is an at-least-once queue: see ScanQueue.
ImplementsQueue == Queue!Spec

-----------------------------------------------------------------------------
(* The inductive strengthening of NoScanLost and DispatchIsGated.           *)

\* The connection: what its transaction has upserted so far, and nothing is lost from
\* the table in it; without a transaction it sees the table.
ConnectionInv ==
  /\ conn = Free => (draft = table /\ next = 1)
  /\ conn # Free =>
       /\ batch[conn] # <<>>
       /\ next =< Len(batch[conn]) + 1
       /\ \A f \in Folder : table[f] # NoRow => draft[f] # NoRow
       /\ \A i \in 1 .. next - 1 : draft[batch[conn][i].folder] # NoRow

\* The scan in Process: its row stays, and who took it is no longer owed it unless it has
\* been overtaken; answers are from this round.
ProcessInv ==
  /\ IF Processing THEN picked \in Folder /\ table[picked] # NoRow ELSE picked = NoFolder
  /\ (loop # "checking" /\ ~Processing) => answer = NoAnswer
  /\ (Processing /\ picked \notin overtaken) =>
       \A t \in Target : answer[t] \in Took => t \notin owed[picked]
  /\ loop = "delete" => \A t \in Target : answer[t] \in Took

\* The gates: what the loop has seen when it reaches Process.
GateInv ==
  /\ loop \in {"down", "init"} => nextAnchor = 1
  /\ loop = "anchors" =>
       \A a \in Anchor : (a < nextAnchor /\ anchorState[a]) => a \in sighted
  /\ loop \in {"checking", "pick"} => sighted = Anchor
  /\ loop = "pick" => targetsAvailable
  /\ loop = "checking" => ~targetsAvailable
  /\ loop = "checking" => \A t \in Target : answer[t] = "ok" => t \in verified
  /\ targetsAvailable =>
       \A t \in Target : t \in verified \/ (loop = "call" /\ answer[t] \in Failure)

IInv == TypeOK /\ ConnectionInv /\ ProcessInv /\ GateInv /\ NoScanLost

\* For MinAgeRespected: the second of a scan or row has not ended before its file's moment.
InItsSecond(s) == s.at < (s.time + 1) * TicksPerSecond

TimeInv ==
  /\ \A c \in Client : \A i \in DOMAIN batch[c] : InItsSecond(batch[c][i])
  /\ \A f \in Folder : draft[f] # NoRow => InItsSecond(draft[f])
  /\ \A f \in Folder : table[f] # NoRow => InItsSecond(table[f])

\* For RowsAreCommittedEvents: an open transaction says what it would say if it were
\* committed now.
DraftInv ==
  conn # Free =>
    \A f \in Folder : Says(draft[f], seen[f] \cup Events(batch[conn], next - 1, f))

RowsInv == RowsAreCommittedEvents /\ DraftInv

\* For BatchesAreAtomic: the open transaction is the table with the scans upserted so far.
BatchInv == conn # Free => draft = UpsertedEach(table, batch[conn])[next - 1]
=============================================================================
