----------------------------- MODULE BernardSync -----------------------------
(***************************************************************************)
(* The sync jobs of the Bernard trigger: one cron job for each drive, the  *)
(* slots that the jobs of an account share, retries and the removal of a   *)
(* job, the page token that the library keeps in the database, and the     *)
(* scans of a diff, which exist only in memory between the commit of the   *)
(* token and the return of processor.Add.  The process may die anywhere.   *)
(*                                                                         *)
(* The changes of a drive are numbered; what a diff makes of them is in    *)
(* BernardDiff.                                                            *)
(***************************************************************************)
EXTENDS Integers, Sequences, FiniteSets

CONSTANTS Trigger,     \* the configured Bernard triggers
          Drive,       \* the drives of all of them
          Account,     \* the service accounts
          TriggerOf,
          AccountOf,
          SyncLimit,   \* syncLimit: slots of an account
          MaxRetries,  \* maxSyncRetries
          Rejected,    \* the changes from which the filter leaves no scan
          MaxChanges,  \* bound: changes of a drive
          MaxFaults    \* bound: failed syncs, refused scans, failed starts and crashes

ASSUME BernardSyncAssumption ==
  /\ TriggerOf \in [Drive -> Trigger]
  /\ AccountOf \in [Drive -> Account]
  /\ IsFiniteSet(Drive)
  /\ SyncLimit \in Nat \ {0}
  /\ MaxRetries \in Nat \ {0}
  /\ Rejected \subseteq Nat
  /\ {MaxChanges, MaxFaults} \subseteq Nat

NoToken == -1   \* PageToken: ErrFullSync

VARIABLES
  up,        \* the process runs
  trigger,   \* "new", "running" or "failed" (startAutoSync returned an error)
  job,       \* the cron entry of a drive: "none", "scheduled", "removed"
  attempts,  \* syncJob.attempts
  fullSync,  \* the variable of setupDrive that the job's closure shares
  phase,     \* "idle", "waiting" for a slot, "full", "partial", "callback"
  waiters,   \* the queue of the semaphore
  free,      \* its free slots
  hand,      \* the changes whose scans wait for the callback to return
  token,     \* in the database: the last change the library has stored
  head,      \* the last change of the drive
  faults

\* History: read by no action, only by properties.
VARIABLES
  handed,    \* changes whose scans the processor took
  baseline,  \* changes that the first full sync took in: no scans are made of them
  lost,      \* changes whose scans were in memory at a crash or were refused
  streak,    \* failed runs of the job since it last succeeded
  refused    \* drives whose scans were refused since the process started

cron == <<job, attempts, fullSync, phase, waiters, free, hand>>
history == <<handed, baseline, lost, streak, refused>>
vars == <<up, trigger, cron, token, head, faults, history>>

Each(v) == [d \in Drive |-> v]

Init ==
  /\ up = FALSE
  /\ trigger = [t \in Trigger |-> "new"]
  /\ job = Each("none")
  /\ attempts = Each(0)
  /\ fullSync = Each(FALSE)
  /\ phase = Each("idle")
  /\ waiters = [a \in Account |-> <<>>]
  /\ free = [a \in Account |-> SyncLimit]
  /\ hand = Each({})
  /\ streak = Each(0)
  /\ refused = {}
  /\ token = Each(NoToken)
  /\ head = Each(0)
  /\ faults = 0
  /\ handed = Each({})
  /\ baseline = Each({})
  /\ lost = Each({})

Fault == faults < MaxFaults /\ faults' = faults + 1

-----------------------------------------------------------------------------
(* The drive, and the life of the process.                                  *)

Change(d) ==
  /\ head[d] < MaxChanges
  /\ head' = [head EXCEPT ![d] = @ + 1]
  /\ UNCHANGED <<up, trigger, cron, token, faults, history>>

Boot ==
  /\ ~up
  /\ up' = TRUE
  /\ UNCHANGED <<trigger, cron, token, head, faults, history>>

\* startAutoSync: setupDrive for each drive of the trigger, then cron.Start.
StartAutoSync(t) ==
  /\ up
  /\ trigger[t] = "new"
  /\ trigger' = [trigger EXCEPT ![t] = "running"]
  /\ job' = [d \in Drive |-> IF TriggerOf[d] = t THEN "scheduled" ELSE job[d]]
  /\ fullSync' = [d \in Drive |-> IF TriggerOf[d] = t THEN token[d] = NoToken ELSE fullSync[d]]
  /\ UNCHANGED <<up, attempts, phase, waiters, free, hand, token, head, faults, history>>

\* PageToken fails for one drive: cron never starts, for none of the trigger's drives.
StartFails(t) ==
  /\ up
  /\ trigger[t] = "new"
  /\ Fault
  /\ trigger' = [trigger EXCEPT ![t] = "failed"]
  /\ UNCHANGED <<up, cron, token, head, history>>

Crash ==
  /\ up
  /\ Fault
  /\ up' = FALSE
  /\ trigger' = [t \in Trigger |-> "new"]
  /\ job' = Each("none")
  /\ attempts' = Each(0)
  /\ fullSync' = Each(FALSE)
  /\ phase' = Each("idle")
  /\ waiters' = [a \in Account |-> <<>>]
  /\ free' = [a \in Account |-> SyncLimit]
  /\ hand' = Each({})
  /\ streak' = Each(0)
  /\ refused' = {}
  /\ lost' = [d \in Drive |-> lost[d] \cup hand[d]]
  /\ UNCHANGED <<token, head, handed, baseline>>

-----------------------------------------------------------------------------
(* syncJob.Run.                                                             *)

\* cron fires; SkipIfStillRunning.
Fire(d) ==
  /\ job[d] = "scheduled"
  /\ trigger[TriggerOf[d]] = "running"
  /\ phase[d] = "idle"
  /\ attempts' = [attempts EXCEPT ![d] = @ + 1]
  /\ phase' = [phase EXCEPT ![d] = "waiting"]
  /\ waiters' = [waiters EXCEPT ![AccountOf[d]] = Append(@, d)]
  /\ UNCHANGED <<up, trigger, job, fullSync, free, hand, token, head, faults, history>>

\* Mutant: the jobs of an account are not limited.
AcquireAtOnce(d) ==
  LET a == AccountOf[d] IN
  /\ waiters[a] # <<>> /\ Head(waiters[a]) = d
  /\ free' = [free EXCEPT ![a] = @ - 1]
  /\ waiters' = [waiters EXCEPT ![a] = Tail(@)]
  /\ phase' = [phase EXCEPT ![d] = IF fullSync[d] THEN "full" ELSE "partial"]
  /\ UNCHANGED <<up, trigger, job, attempts, fullSync, hand, token, head, faults, history>>

\* The semaphore serves its waiters in the order in which they came.
Acquire(d) ==
  LET a == AccountOf[d] IN
  /\ waiters[a] # <<>> /\ Head(waiters[a]) = d
  /\ free[a] > 0
  /\ free' = [free EXCEPT ![a] = @ - 1]
  /\ waiters' = [waiters EXCEPT ![a] = Tail(@)]
  /\ phase' = [phase EXCEPT ![d] = IF fullSync[d] THEN "full" ELSE "partial"]
  /\ UNCHANGED <<up, trigger, job, attempts, fullSync, hand, token, head, faults, history>>

\* The deferred Release.
Release(d) ==
  /\ free' = [free EXCEPT ![AccountOf[d]] = @ + 1]
  /\ phase' = [phase EXCEPT ![d] = "idle"]

\* Mutant: the attempts of earlier runs are kept.
SucceedKeeping(d) ==
  /\ Release(d)
  /\ attempts' = attempts
  /\ streak' = [streak EXCEPT ![d] = 0]
  /\ UNCHANGED job

\* Mutant: a run that succeeds leaves its slot taken.
SucceedHolding(d) ==
  /\ phase' = [phase EXCEPT ![d] = "idle"]
  /\ attempts' = [attempts EXCEPT ![d] = 0]
  /\ streak' = [streak EXCEPT ![d] = 0]
  /\ UNCHANGED <<job, free>>

Succeed(d) ==
  /\ Release(d)
  /\ attempts' = [attempts EXCEPT ![d] = 0]
  /\ streak' = [streak EXCEPT ![d] = 0]
  /\ UNCHANGED job

\* Mutant: an error leaves the slot taken.
FailHolding(d, fatal) ==
  /\ phase' = [phase EXCEPT ![d] = "idle"]
  /\ streak' = [streak EXCEPT ![d] = @ + 1]
  /\ job' = IF fatal \/ attempts[d] >= MaxRetries
            THEN [job EXCEPT ![d] = "removed"] ELSE job
  /\ UNCHANGED <<attempts, free>>

Fail(d, fatal) ==
  /\ Release(d)
  /\ streak' = [streak EXCEPT ![d] = @ + 1]
  /\ job' = IF fatal \/ attempts[d] >= MaxRetries
            THEN [job EXCEPT ![d] = "removed"] ELSE job
  /\ UNCHANGED attempts

SyncFails(d) ==
  /\ phase[d] \in {"full", "partial"}
  /\ Fault
  /\ Fail(d, FALSE)
  /\ UNCHANGED <<up, trigger, fullSync, waiters, hand, token, head, handed, baseline, lost, refused>>

\* Changes that the token passes when there was none.
TakenIn(d, n) == IF token[d] = NoToken THEN 1..n ELSE {}

\* Mutant: the flag stays.
FullSyncAgain(d) ==
  /\ phase[d] = "full"
  /\ \E n \in 0..head[d] :
       /\ token' = [token EXCEPT ![d] = n]
       /\ baseline' = [baseline EXCEPT ![d] = @ \cup TakenIn(d, n)]
  /\ Succeed(d)
  /\ UNCHANGED <<up, trigger, fullSync, waiters, hand, head, faults, handed, lost, refused>>

\* The token that a full sync stores may be as old as its start.
FullSyncDone(d) ==
  /\ phase[d] = "full"
  /\ \E n \in 0..head[d] :
       /\ token' = [token EXCEPT ![d] = n]
       /\ baseline' = [baseline EXCEPT ![d] = @ \cup TakenIn(d, n)]
  /\ fullSync' = [fullSync EXCEPT ![d] = FALSE]
  /\ Succeed(d)
  /\ UNCHANGED <<up, trigger, waiters, hand, head, faults, handed, lost, refused>>

Difference(d) == token[d] + 1 .. head[d]

\* The changes and the new token are stored; no scan is left: the run ends.
PartialSyncEmpty(d) ==
  /\ phase[d] = "partial"
  /\ Difference(d) \subseteq Rejected
  /\ token' = [token EXCEPT ![d] = head[d]]
  /\ Succeed(d)
  /\ UNCHANGED <<up, trigger, fullSync, waiters, hand, head, faults, handed, baseline, lost, refused>>

\* Mutant: the token is not stored with the changes.
PartialSyncForgets(d) ==
  /\ phase[d] = "partial"
  /\ ~(Difference(d) \subseteq Rejected)
  /\ hand' = [hand EXCEPT ![d] = Difference(d)]
  /\ phase' = [phase EXCEPT ![d] = "callback"]
  /\ UNCHANGED <<up, trigger, job, attempts, fullSync, waiters, free, token, head, faults, history>>

PartialSyncDone(d) ==
  /\ phase[d] = "partial"
  /\ ~(Difference(d) \subseteq Rejected)
  /\ token' = [token EXCEPT ![d] = head[d]]
  /\ hand' = [hand EXCEPT ![d] = Difference(d)]
  /\ phase' = [phase EXCEPT ![d] = "callback"]
  /\ UNCHANGED <<up, trigger, job, attempts, fullSync, waiters, free, head, faults, history>>

Callback(d) ==
  /\ phase[d] = "callback"
  /\ handed' = [handed EXCEPT ![d] = @ \cup hand[d]]
  /\ hand' = [hand EXCEPT ![d] = {}]
  /\ Succeed(d)
  /\ UNCHANGED <<up, trigger, fullSync, waiters, token, head, faults, baseline, lost, refused>>

\* Mutant: the scans of a refused callback are dropped by nobody's decision.
CallbackIgnored(d) ==
  /\ phase[d] = "callback"
  /\ Fault
  /\ hand' = [hand EXCEPT ![d] = {}]
  /\ Succeed(d)
  /\ UNCHANGED <<up, trigger, fullSync, waiters, token, head, handed, baseline, lost, refused>>

\* processor.Add returns an error, which is fatal for the job; the token has moved.
CallbackFails(d) ==
  /\ phase[d] = "callback"
  /\ Fault
  /\ lost' = [lost EXCEPT ![d] = @ \cup hand[d]]
  /\ refused' = refused \cup {d}
  /\ hand' = [hand EXCEPT ![d] = {}]
  /\ Fail(d, TRUE)
  /\ UNCHANGED <<up, trigger, fullSync, waiters, token, head, handed, baseline>>

-----------------------------------------------------------------------------
Run(d) ==
  \/ Acquire(d)
  \/ FullSyncDone(d)
  \/ PartialSyncEmpty(d)
  \/ PartialSyncDone(d)
  \/ Callback(d)

JobStep(d) ==
  \/ Fire(d)
  \/ Run(d)
  \/ SyncFails(d)
  \/ CallbackFails(d)

Next ==
  \/ Boot
  \/ Crash
  \/ \E t \in Trigger : StartAutoSync(t) \/ StartFails(t)
  \/ \E d \in Drive : Change(d) \/ JobStep(d)

Spec == Init /\ [][Next]_vars

-----------------------------------------------------------------------------
(* Properties.                                                              *)

TypeOK ==
  /\ up \in BOOLEAN
  /\ trigger \in [Trigger -> {"new", "running", "failed"}]
  /\ job \in [Drive -> {"none", "scheduled", "removed"}]
  /\ attempts \in [Drive -> Nat]
  /\ fullSync \in [Drive -> BOOLEAN]
  /\ phase \in [Drive -> {"idle", "waiting", "full", "partial", "callback"}]
  /\ waiters \in [Account -> Seq(Drive)]
  /\ free \in [Account -> Nat]
  /\ hand \in [Drive -> SUBSET Nat]
  /\ token \in [Drive -> Nat \cup {NoToken}]
  /\ head \in [Drive -> Nat]
  /\ faults \in Nat
  /\ handed \in [Drive -> SUBSET Nat]
  /\ baseline \in [Drive -> SUBSET Nat]
  /\ lost \in [Drive -> SUBSET Nat]
  /\ streak \in [Drive -> Nat]
  /\ refused \in SUBSET Drive

Holders(a) == {d \in Drive : AccountOf[d] = a /\ phase[d] \in {"full", "partial", "callback"}}

\* Every slot of an account is free or held by a running job: whichever way a run ends
\* gives its slot back, once (bernard.go:270-274); a leak would stop every drive of the
\* account, a double release would let more than five drives sync at once.
SlotsAccounted == \A a \in Account : free[a] + Cardinality(Holders(a)) = SyncLimit

Settled(d) == handed[d] \cup baseline[d] \cup lost[d] \cup Rejected

\* A change that the page token has passed is never looked at again; so its scans were
\* taken by the processor, or are about to be, unless it belongs to the first full sync,
\* or a crash or a refusal hit the gap between the token and the callback
\* (bernard.go:313-341).  Nothing else loses a change.
NothingSkipped == \A d \in Drive : 1..token[d] \subseteq Settled(d) \cup hand[d]

\* The scans of a change are handed over at most once, and never those of a change that
\* the first full sync took in: no crash, retry or second run repeats them.
HandedOnce ==
  \A d \in Drive :
    /\ hand[d] \cap (handed[d] \cup baseline[d] \cup lost[d]) = {}
    /\ handed[d] \cap (baseline[d] \cup lost[d]) = {}

\* A full sync runs only for a drive without a token: the flag that decides it was read
\* at start-up (bernard.go:256-267) and must follow the database from then on, or changes
\* would be taken in without a scan.
FullSyncOnlyOnce == \A d \in Drive : phase[d] = "full" => token[d] = NoToken

\* A job is given up only after MaxRetries failed runs in a row or after scans were
\* refused: failures that a success separates do not add up (bernard.go:165-206).
GivenUpInTime ==
  \A d \in Drive : job[d] = "removed" => streak[d] >= MaxRetries \/ d \in refused

Stopped(d) == job[d] = "removed" \/ trigger[TriggerOf[d]] = "failed"

\* The changes that have been made so far (compare with head).
Made(d, c) == c =< head[d]

\* Every change is settled, or the job of its drive stops: no job waits for ever for a
\* slot, and no run, retry or restart leaves a drive behind.
ChangesAreSettled ==
  \A d \in Drive : \A c \in 1..MaxChanges : Made(d, c) ~> (c \in Settled(d) \/ Stopped(d))

-----------------------------------------------------------------------------
(* The inductive strengthening of the safety properties.                    *)

\* The flag and the phase of a job agree with the database; a job that does not run holds
\* no scans; what is settled, lost or in hand lies behind the token.
JobInv(d) ==
  /\ fullSync[d] => token[d] = NoToken
  /\ job[d] # "none" /\ ~fullSync[d] => token[d] # NoToken
  /\ phase[d] # "idle" => job[d] = "scheduled"
  /\ phase[d] = "full" => fullSync[d]
  /\ phase[d] \in {"partial", "callback"} => ~fullSync[d]
  /\ phase[d] # "callback" => hand[d] = {}
  /\ hand[d] \cup handed[d] \cup baseline[d] \cup lost[d] \subseteq 1..token[d]
  /\ attempts[d] = streak[d] + (IF phase[d] = "idle" THEN 0 ELSE 1)
  /\ token[d] =< head[d]

WaitersInv ==
  \A a \in Account : \A i \in DOMAIN waiters[a] :
    /\ AccountOf[waiters[a][i]] = a
    /\ phase[waiters[a][i]] = "waiting"
    /\ \A j \in DOMAIN waiters[a] : waiters[a][j] = waiters[a][i] => j = i

SyncInv ==
  /\ TypeOK
  /\ \A d \in Drive : JobInv(d)
  /\ WaitersInv
  /\ FullSyncOnlyOnce
  /\ SlotsAccounted
  /\ NothingSkipped
  /\ HandedOnce
  /\ GivenUpInTime
=============================================================================
