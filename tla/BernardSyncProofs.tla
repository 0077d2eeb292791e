--------------------------- MODULE BernardSyncProofs ---------------------------
(***************************************************************************)
(* Theorems about BernardSync, for every number of drives, triggers,       *)
(* accounts, slots, retries and faults: the slots of an account are never  *)
(* lost, no change is skipped or handed over twice, full syncs happen only *)
(* without a page token, and a job is given up only as configured.         *)
(***************************************************************************)
EXTENDS BernardSync, FiniteSetTheorems, TLAPS

Holding == {"full", "partial", "callback"}

\* The steps of BernardSync, one by one.
Step(d) ==
  \/ Change(d) \/ Fire(d) \/ Acquire(d) \/ SyncFails(d) \/ FullSyncDone(d)
  \/ PartialSyncEmpty(d) \/ PartialSyncDone(d) \/ Callback(d) \/ CallbackFails(d)

LEMMA NextCases ==
  Next => Boot \/ Crash \/ (\E t \in Trigger : StartAutoSync(t) \/ StartFails(t))
               \/ (\E d \in Drive : Step(d))
BY DEF Next, JobStep, Run, Step

LEMMA Constant == /\ TriggerOf \in [Drive -> Trigger] /\ AccountOf \in [Drive -> Account]
                  /\ IsFiniteSet(Drive) /\ SyncLimit \in Nat \ {0} /\ MaxRetries \in Nat \ {0}
                  /\ Rejected \subseteq Nat /\ MaxChanges \in Nat /\ MaxFaults \in Nat
BY BernardSyncAssumption

-----------------------------------------------------------------------------
(* Types.                                                                   *)

LEMMA InitType == Init => TypeOK
<1> SUFFICES ASSUME Init PROVE TypeOK
  OBVIOUS
<1>1. waiters \in [Account -> Seq(Drive)]
  BY DEF Init
<1>2. free \in [Account -> Nat]
  BY Constant DEF Init
<1>3. /\ hand \in [Drive -> SUBSET Nat] /\ handed \in [Drive -> SUBSET Nat]
      /\ baseline \in [Drive -> SUBSET Nat] /\ lost \in [Drive -> SUBSET Nat]
      /\ attempts \in [Drive -> Nat] /\ streak \in [Drive -> Nat] /\ head \in [Drive -> Nat]
      /\ token \in [Drive -> Nat \cup {NoToken}]
  BY DEF Init, Each
<1>4. /\ up \in BOOLEAN /\ trigger \in [Trigger -> {"new", "running", "failed"}]
      /\ job \in [Drive -> {"none", "scheduled", "removed"}] /\ fullSync \in [Drive -> BOOLEAN]
      /\ phase \in [Drive -> {"idle", "waiting", "full", "partial", "callback"}]
      /\ faults \in Nat /\ refused \in SUBSET Drive
  BY DEF Init, Each
<1> QED
  BY <1>1, <1>2, <1>3, <1>4 DEF TypeOK

\* What the end of a run does to the types.
LEMMA ReleaseTypes ==
  ASSUME TypeOK, NEW d \in Drive, Release(d)
  PROVE  /\ free' \in [Account -> Nat]
         /\ phase' \in [Drive -> {"idle", "waiting", "full", "partial", "callback"}]
<1>1. AccountOf[d] \in Account /\ free[AccountOf[d]] + 1 \in Nat
  BY Constant DEF TypeOK
<1> QED
  BY <1>1 DEF Release, TypeOK

LEMMA SucceedTypes ==
  ASSUME TypeOK, NEW d \in Drive, Succeed(d)
  PROVE  /\ free' \in [Account -> Nat]
         /\ phase' \in [Drive -> {"idle", "waiting", "full", "partial", "callback"}]
         /\ attempts' \in [Drive -> Nat] /\ streak' \in [Drive -> Nat]
         /\ job' \in [Drive -> {"none", "scheduled", "removed"}]
BY ReleaseTypes DEF Succeed, TypeOK

LEMMA FailTypes ==
  ASSUME TypeOK, NEW d \in Drive, NEW fatal \in BOOLEAN, Fail(d, fatal)
  PROVE  /\ free' \in [Account -> Nat]
         /\ phase' \in [Drive -> {"idle", "waiting", "full", "partial", "callback"}]
         /\ attempts' \in [Drive -> Nat] /\ streak' \in [Drive -> Nat]
         /\ job' \in [Drive -> {"none", "scheduled", "removed"}]
<1>1. streak' \in [Drive -> Nat]
  BY DEF Fail, TypeOK
<1>2. job' \in [Drive -> {"none", "scheduled", "removed"}]
  BY DEF Fail, TypeOK
<1> QED
  BY <1>1, <1>2, ReleaseTypes DEF Fail, TypeOK

LEMMA TypeStep == TypeOK /\ [Next]_vars => TypeOK'
<1> SUFFICES ASSUME TypeOK, [Next]_vars PROVE TypeOK'
  OBVIOUS
<1> USE Constant
<1>1. CASE Boot
  BY <1>1 DEF Boot, TypeOK, cron, history
<1>2. CASE Crash
  <2>1. waiters' \in [Account -> Seq(Drive)]
    BY <1>2 DEF Crash
  <2>2. free' \in [Account -> Nat]
    BY <1>2 DEF Crash
  <2>3. /\ hand' \in [Drive -> SUBSET Nat] /\ lost' \in [Drive -> SUBSET Nat]
        /\ attempts' \in [Drive -> Nat] /\ streak' \in [Drive -> Nat]
    BY <1>2 DEF Crash, Each, TypeOK
  <2>4. /\ up' \in BOOLEAN /\ trigger' \in [Trigger -> {"new", "running", "failed"}]
        /\ job' \in [Drive -> {"none", "scheduled", "removed"}]
        /\ fullSync' \in [Drive -> BOOLEAN]
        /\ phase' \in [Drive -> {"idle", "waiting", "full", "partial", "callback"}]
        /\ refused' \in SUBSET Drive
    BY <1>2 DEF Crash, Each
  <2>5. faults' \in Nat
    BY <1>2 DEF Crash, Fault, TypeOK
  <2> QED
    BY <1>2, <2>1, <2>2, <2>3, <2>4, <2>5 DEF Crash, TypeOK
<1>3. ASSUME NEW t \in Trigger, StartAutoSync(t) PROVE TypeOK'
  BY <1>3 DEF StartAutoSync, TypeOK, history
<1>4. ASSUME NEW t \in Trigger, StartFails(t) PROVE TypeOK'
  BY <1>4 DEF StartFails, Fault, TypeOK, cron, history
<1>5. ASSUME NEW d \in Drive, Change(d) PROVE TypeOK'
  <2>1. head' \in [Drive -> Nat]
    BY <1>5 DEF Change, TypeOK
  <2> QED
    BY <1>5, <2>1 DEF Change, TypeOK, cron, history
<1>6. ASSUME NEW d \in Drive, Fire(d) PROVE TypeOK'
  BY <1>6 DEF Fire, TypeOK, history
<1>7. ASSUME NEW d \in Drive, Acquire(d) PROVE TypeOK'
  <2> DEFINE a == AccountOf[d]
  <2>1. /\ a \in Account /\ waiters[a] \in Seq(Drive) /\ waiters[a] # <<>> /\ free[a] \in Nat
        /\ free[a] > 0
    BY <1>7 DEF Acquire, TypeOK
  <2>2. Tail(waiters[a]) \in Seq(Drive) /\ free[a] - 1 \in Nat
    BY <2>1
  <2>3. waiters' = [waiters EXCEPT ![a] = Tail(@)] /\ free' = [free EXCEPT ![a] = @ - 1]
    BY <1>7 DEF Acquire
  <2>4. waiters' \in [Account -> Seq(Drive)] /\ free' \in [Account -> Nat]
    BY <2>1, <2>2, <2>3 DEF TypeOK
  <2> QED
    BY <1>7, <2>4 DEF Acquire, TypeOK, history
<1>8. ASSUME NEW d \in Drive, SyncFails(d) PROVE TypeOK'
  <2>1. Fail(d, FALSE)
    BY <1>8 DEF SyncFails
  <2>5. faults' \in Nat
    BY <1>8 DEF SyncFails, Fault, TypeOK
  <2> QED
    BY <1>8, <2>1, <2>5, FailTypes DEF SyncFails, TypeOK
<1>9. ASSUME NEW d \in Drive, FullSyncDone(d) PROVE TypeOK'
  <2>1. Succeed(d)
    BY <1>9 DEF FullSyncDone
  <2>2. PICK n \in 0..head[d] : /\ token' = [token EXCEPT ![d] = n]
                                /\ baseline' = [baseline EXCEPT ![d] = @ \cup TakenIn(d, n)]
    BY <1>9 DEF FullSyncDone
  <2>3. head[d] \in Nat
    BY DEF TypeOK
  <2>4. n \in Nat /\ TakenIn(d, n) \in SUBSET Nat
    BY <2>3 DEF TakenIn
  <2>5. token' \in [Drive -> Nat \cup {NoToken}] /\ baseline' \in [Drive -> SUBSET Nat]
    BY <2>2, <2>4 DEF TypeOK
  <2>6. fullSync' \in [Drive -> BOOLEAN]
    BY <1>9 DEF FullSyncDone, TypeOK
  <2> QED
    BY <1>9, <2>1, <2>5, <2>6, SucceedTypes DEF FullSyncDone, TypeOK
<1>10. ASSUME NEW d \in Drive, PartialSyncEmpty(d) PROVE TypeOK'
  <2>1. Succeed(d)
    BY <1>10 DEF PartialSyncEmpty
  <2>2. token' \in [Drive -> Nat \cup {NoToken}]
    BY <1>10 DEF PartialSyncEmpty, TypeOK
  <2> QED
    BY <1>10, <2>1, <2>2, SucceedTypes DEF PartialSyncEmpty, TypeOK
<1>11. ASSUME NEW d \in Drive, PartialSyncDone(d) PROVE TypeOK'
  <2>1. Difference(d) \in SUBSET Nat
    <3>1. token[d] + 1 \in Nat /\ head[d] \in Nat
      <4>1. head[d] \in Nat /\ (token[d] \in Nat \/ token[d] = NoToken)
        BY DEF TypeOK
      <4>2. NoToken + 1 = 0
        BY DEF NoToken
      <4> QED
        BY <4>1, <4>2
    <3> QED
      BY <3>1 DEF Difference
  <2>2. hand' \in [Drive -> SUBSET Nat]
    BY <1>11, <2>1 DEF PartialSyncDone, TypeOK
  <2> QED
    BY <1>11, <2>2 DEF PartialSyncDone, TypeOK, history
<1>12. ASSUME NEW d \in Drive, Callback(d) PROVE TypeOK'
  <2>1. Succeed(d)
    BY <1>12 DEF Callback
  <2>2. handed' \in [Drive -> SUBSET Nat]
    BY <1>12 DEF Callback, TypeOK
  <2>3. hand' \in [Drive -> SUBSET Nat]
    BY <1>12 DEF Callback, TypeOK
  <2> QED
    BY <1>12, <2>1, <2>2, <2>3, SucceedTypes DEF Callback, TypeOK
<1>13. ASSUME NEW d \in Drive, CallbackFails(d) PROVE TypeOK'
  <2>1. Fail(d, TRUE)
    BY <1>13 DEF CallbackFails
  <2>5. faults' \in Nat
    BY <1>13 DEF CallbackFails, Fault, TypeOK
  <2>2. lost' \in [Drive -> SUBSET Nat]
    BY <1>13 DEF CallbackFails, TypeOK
  <2>3. hand' \in [Drive -> SUBSET Nat]
    BY <1>13 DEF CallbackFails, TypeOK
  <2>4. refused' \in SUBSET Drive
    BY <1>13 DEF CallbackFails, TypeOK
  <2> QED
    BY <1>13, <2>1, <2>2, <2>3, <2>4, <2>5, FailTypes DEF CallbackFails, TypeOK
<1>14. CASE UNCHANGED vars
  BY <1>14 DEF vars, cron, history, TypeOK
<1> QED
  BY <1>1, <1>2, <1>3, <1>4, <1>5, <1>6, <1>7, <1>8, <1>9, <1>10, <1>11, <1>12, <1>13, <1>14,
     NextCases DEF Step

-----------------------------------------------------------------------------
(* What holds of one drive.                                                 *)

DriveInv(d) ==
  /\ JobInv(d)
  /\ 1..token[d] \subseteq Settled(d) \cup hand[d]
  /\ hand[d] \cap (handed[d] \cup baseline[d] \cup lost[d]) = {}
  /\ handed[d] \cap (baseline[d] \cup lost[d]) = {}
  /\ phase[d] = "full" => token[d] = NoToken
  /\ job[d] = "removed" => streak[d] >= MaxRetries \/ d \in refused

\* The value of every variable that DriveInv(x) reads.
Same(x) ==
  /\ job'[x] = job[x] /\ attempts'[x] = attempts[x] /\ fullSync'[x] = fullSync[x]
  /\ phase'[x] = phase[x] /\ hand'[x] = hand[x] /\ token'[x] = token[x] /\ head'[x] = head[x]
  /\ handed'[x] = handed[x] /\ baseline'[x] = baseline[x] /\ lost'[x] = lost[x]
  /\ streak'[x] = streak[x] /\ (x \in refused' <=> x \in refused)

LEMMA SameDrive ==
  ASSUME NEW x \in Drive, DriveInv(x), Same(x)
  PROVE  DriveInv(x)'
BY DEF Same, DriveInv, JobInv, Settled

\* The step of a drive's job is none of another drive's concern.
LEMMA OtherDrives ==
  ASSUME TypeOK, NEW d \in Drive, Step(d), NEW x \in Drive, x # d
  PROVE  Same(x)
<1>1. CASE Change(d)
  BY <1>1 DEF Change, Same, TypeOK, cron, history
<1>2. CASE Fire(d)
  BY <1>2 DEF Fire, Same, TypeOK, history
<1>3. CASE Acquire(d)
  BY <1>3 DEF Acquire, Same, TypeOK, history
<1>4. CASE SyncFails(d)
  BY <1>4 DEF SyncFails, Fail, Release, Same, TypeOK
<1>5. CASE FullSyncDone(d)
  BY <1>5 DEF FullSyncDone, Succeed, Release, Same, TypeOK
<1>6. CASE PartialSyncEmpty(d)
  BY <1>6 DEF PartialSyncEmpty, Succeed, Release, Same, TypeOK
<1>7. CASE PartialSyncDone(d)
  BY <1>7 DEF PartialSyncDone, Same, TypeOK, history
<1>8. CASE Callback(d)
  BY <1>8 DEF Callback, Succeed, Release, Same, TypeOK
<1>9. CASE CallbackFails(d)
  BY <1>9 DEF CallbackFails, Fail, Release, Same, TypeOK
<1> QED
  BY <1>1, <1>2, <1>3, <1>4, <1>5, <1>6, <1>7, <1>8, <1>9 DEF Step

LEMMA InitDrive == ASSUME Init, NEW d \in Drive PROVE DriveInv(d)
<1>1. 1..NoToken = {} /\ NoToken =< 0
  BY DEF NoToken
<1> QED
  BY <1>1 DEF Init, Each, DriveInv, JobInv, Settled, NoToken

\* A slot is held by the job that was first among the waiting.
LEMMA FirstWaits ==
  ASSUME TypeOK, WaitersInv, NEW d \in Drive, Acquire(d)
  PROVE  phase[d] = "waiting"
<1> DEFINE a == AccountOf[d]
<1>1. a \in Account /\ waiters[a] \in Seq(Drive) /\ waiters[a] # <<>> /\ Head(waiters[a]) = d
  BY Constant DEF Acquire, TypeOK
<1>2. 1 \in DOMAIN waiters[a] /\ waiters[a][1] = d
  BY <1>1
<1> QED
  BY <1>1, <1>2 DEF WaitersInv

LEMMA DriveStep ==
  ASSUME TypeOK, WaitersInv, NEW d \in Drive, DriveInv(d), Step(d)
  PROVE  DriveInv(d)'
<1>1. /\ token[d] \in Nat \cup {NoToken} /\ head[d] \in Nat /\ attempts[d] \in Nat
      /\ streak[d] \in Nat /\ NoToken = -1 /\ MaxRetries \in Nat \ {0}
      /\ phase[d] \in {"idle", "waiting", "full", "partial", "callback"}
      /\ job[d] \in {"none", "scheduled", "removed"} /\ fullSync[d] \in BOOLEAN
  BY Constant DEF TypeOK, NoToken
<1>2. CASE Change(d)
  BY <1>1, <1>2 DEF Change, DriveInv, JobInv, Settled, TypeOK, cron, history
<1>3. CASE Fire(d)
  BY <1>1, <1>3 DEF Fire, DriveInv, JobInv, Settled, TypeOK, history
<1>4. CASE Acquire(d)
  BY <1>1, <1>4, FirstWaits DEF Acquire, DriveInv, JobInv, Settled, TypeOK, history
<1>5. CASE SyncFails(d)
  BY <1>1, <1>5 DEF SyncFails, Fail, Release, DriveInv, JobInv, Settled, TypeOK
<1>6. CASE FullSyncDone(d)
  BY <1>1, <1>6 DEF FullSyncDone, Succeed, Release, TakenIn, DriveInv, JobInv, Settled, TypeOK
<1>7. CASE PartialSyncEmpty(d)
  BY <1>1, <1>7
     DEF PartialSyncEmpty, Succeed, Release, Difference, DriveInv, JobInv, Settled, TypeOK
<1>8. CASE PartialSyncDone(d)
  <2> DEFINE D == token[d] + 1 .. head[d]
  <2>1. /\ phase[d] = "partial" /\ phase'[d] = "callback" /\ token'[d] = head[d] /\ hand'[d] = D
        /\ job'[d] = job[d] /\ attempts'[d] = attempts[d] /\ fullSync'[d] = fullSync[d]
        /\ head'[d] = head[d] /\ handed'[d] = handed[d] /\ baseline'[d] = baseline[d]
        /\ lost'[d] = lost[d] /\ streak'[d] = streak[d] /\ refused' = refused
    BY <1>8 DEF PartialSyncDone, Difference, TypeOK, history
  <2>2. /\ job[d] = "scheduled" /\ ~fullSync[d] /\ token[d] # NoToken /\ token[d] =< head[d]
        /\ attempts[d] = streak[d] + 1 /\ hand[d] = {}
        /\ handed[d] \cup baseline[d] \cup lost[d] \subseteq 1..token[d]
    BY <1>1, <2>1 DEF DriveInv, JobInv
  <2>3. token[d] \in Nat
    BY <1>1, <2>2
  <2>4. /\ 1..head[d] = (1..token[d]) \cup D /\ (1..token[d]) \cap D = {}
        /\ D \subseteq 1..head[d]
    BY <1>1, <2>2, <2>3
  <2>5. 1..token[d] \subseteq Settled(d)
    BY <2>2 DEF DriveInv
  <2> HIDE DEF D
  <2>6. JobInv(d)'
    <3>1. D \cup handed[d] \cup baseline[d] \cup lost[d] \subseteq 1..head[d]
      BY <2>2, <2>4
    <3>2. head[d] # NoToken
      BY <1>1
    <3> QED
      BY <1>1, <2>1, <2>2, <3>1, <3>2 DEF JobInv
  <2>7. (1..token[d] \subseteq Settled(d) \cup hand[d])'
    BY <2>1, <2>4, <2>5 DEF Settled
  <2>8. (hand[d] \cap (handed[d] \cup baseline[d] \cup lost[d]) = {})'
    BY <2>1, <2>2, <2>4
  <2>9. (handed[d] \cap (baseline[d] \cup lost[d]) = {})'
    BY <2>1 DEF DriveInv
  <2> QED
    BY <2>1, <2>2, <2>6, <2>7, <2>8, <2>9 DEF DriveInv
<1>9. CASE Callback(d)
  BY <1>1, <1>9 DEF Callback, Succeed, Release, DriveInv, JobInv, Settled, TypeOK
<1>10. CASE CallbackFails(d)
  BY <1>1, <1>10 DEF CallbackFails, Fail, Release, DriveInv, JobInv, Settled, TypeOK
<1> QED
  BY <1>2, <1>3, <1>4, <1>5, <1>6, <1>7, <1>8, <1>9, <1>10 DEF Step

-----------------------------------------------------------------------------
(* The queue of the semaphore.                                              *)

\* A job that was not waiting is in no queue: whatever it does next, the queues are right.
LEMMA SameWaiters ==
  ASSUME TypeOK, WaitersInv, NEW d \in Drive, phase[d] # "waiting", NEW p,
         phase' = [phase EXCEPT ![d] = p], waiters' = waiters
  PROVE  WaitersInv'
<1> SUFFICES ASSUME NEW a \in Account, NEW i \in DOMAIN waiters[a]
             PROVE  /\ AccountOf[waiters[a][i]] = a
                    /\ phase'[waiters[a][i]] = "waiting"
                    /\ \A j \in DOMAIN waiters[a] : waiters[a][j] = waiters[a][i] => j = i
  BY DEF WaitersInv
<1>1. waiters[a][i] \in Drive
  BY DEF TypeOK
<1>2. phase[waiters[a][i]] = "waiting"
  BY DEF WaitersInv
<1> QED
  BY <1>1, <1>2 DEF WaitersInv, TypeOK

LEMMA FireWaits ==
  ASSUME TypeOK, WaitersInv, NEW d \in Drive, Fire(d)
  PROVE  WaitersInv'
<1> DEFINE b == AccountOf[d]
<1> SUFFICES ASSUME NEW a \in Account, NEW i \in DOMAIN waiters'[a]
             PROVE  /\ AccountOf[waiters'[a][i]] = a
                    /\ phase'[waiters'[a][i]] = "waiting"
                    /\ \A j \in DOMAIN waiters'[a] : waiters'[a][j] = waiters'[a][i] => j = i
  BY DEF WaitersInv
<1>1. /\ b \in Account /\ phase[d] = "idle" /\ phase' = [phase EXCEPT ![d] = "waiting"]
      /\ waiters' = [waiters EXCEPT ![b] = Append(@, d)]
  BY Constant DEF Fire
<1>2. waiters[a] \in Seq(Drive) /\ waiters[b] \in Seq(Drive)
  BY <1>1 DEF TypeOK
<1>3. \A j \in DOMAIN waiters[a] :
        /\ waiters[a][j] \in Drive /\ waiters[a][j] # d /\ AccountOf[waiters[a][j]] = a
        /\ phase[waiters[a][j]] = "waiting" /\ phase'[waiters[a][j]] = "waiting"
  BY <1>1, <1>2 DEF WaitersInv, TypeOK
<1>4. CASE a # b
  <2>1. waiters'[a] = waiters[a]
    BY <1>1, <1>4 DEF TypeOK
  <2> QED
    BY <1>3, <2>1 DEF WaitersInv
<1>5. CASE a = b
  <2>1. waiters'[a] = Append(waiters[a], d)
    BY <1>1, <1>5 DEF TypeOK
  <2>2. /\ DOMAIN waiters'[a] = DOMAIN waiters[a] \cup {Len(waiters[a]) + 1}
        /\ waiters'[a][Len(waiters[a]) + 1] = d
        /\ \A j \in DOMAIN waiters[a] : waiters'[a][j] = waiters[a][j]
    BY <1>2, <2>1
  <2>3. phase'[d] = "waiting"
    BY <1>1 DEF TypeOK
  <2> QED
    BY <1>3, <1>5, <2>2, <2>3 DEF WaitersInv
<1> QED
  BY <1>4, <1>5

LEMMA AcquireWaits ==
  ASSUME TypeOK, WaitersInv, NEW d \in Drive, Acquire(d)
  PROVE  WaitersInv'
<1> DEFINE b == AccountOf[d]
<1> SUFFICES ASSUME NEW a \in Account, NEW i \in DOMAIN waiters'[a]
             PROVE  /\ AccountOf[waiters'[a][i]] = a
                    /\ phase'[waiters'[a][i]] = "waiting"
                    /\ \A j \in DOMAIN waiters'[a] : waiters'[a][j] = waiters'[a][i] => j = i
  BY DEF WaitersInv
<1>1. /\ b \in Account /\ waiters[b] # <<>> /\ Head(waiters[b]) = d
      /\ waiters' = [waiters EXCEPT ![b] = Tail(@)]
      /\ \A x \in Drive : x # d => phase'[x] = phase[x]
  BY Constant DEF Acquire, TypeOK
<1>2. waiters[a] \in Seq(Drive) /\ waiters[b] \in Seq(Drive)
  BY <1>1 DEF TypeOK
<1>3. \A j \in DOMAIN waiters[a] :
        /\ waiters[a][j] \in Drive /\ AccountOf[waiters[a][j]] = a
        /\ waiters[a][j] # d => phase'[waiters[a][j]] = "waiting"
  BY <1>1, <1>2 DEF WaitersInv
<1>4. CASE a # b
  <2>1. waiters'[a] = waiters[a]
    BY <1>1, <1>4 DEF TypeOK
  <2>2. \A j \in DOMAIN waiters[a] : waiters[a][j] # d
    BY <1>3, <1>4
  <2> QED
    BY <1>3, <2>1, <2>2 DEF WaitersInv
<1>5. CASE a = b
  <2>1. waiters'[a] = Tail(waiters[a])
    BY <1>1, <1>5 DEF TypeOK
  <2>2. /\ waiters[a][1] = d /\ 1 \in DOMAIN waiters[a]
        /\ \A j \in DOMAIN waiters'[a] :
             j \in Nat /\ j + 1 \in DOMAIN waiters[a] /\ j + 1 # 1
               /\ waiters'[a][j] = waiters[a][j + 1]
    <3> DEFINE s == waiters[a]
    <3>1. s \in Seq(Drive) /\ s # <<>> /\ Head(s) = d /\ waiters'[a] = Tail(s)
      BY <1>1, <1>2, <1>5, <2>1
    <3> HIDE DEF s
    <3>2. /\ Len(s) \in Nat \ {0} /\ DOMAIN s = 1..Len(s) /\ s[1] = d
          /\ DOMAIN Tail(s) = 1..(Len(s) - 1)
          /\ \A j \in 1..(Len(s) - 1) : Tail(s)[j] = s[j + 1]
      BY <3>1
    <3> QED
      BY <3>1, <3>2 DEF s
  <2>3. \A j \in DOMAIN waiters'[a] : waiters'[a][j] # d
    BY <2>2 DEF WaitersInv
  <2>4. \A j \in DOMAIN waiters'[a] : waiters'[a][j] = waiters'[a][i] => j + 1 = i + 1
    BY <2>2 DEF WaitersInv
  <2>5. \A j \in DOMAIN waiters'[a] : waiters'[a][j] = waiters'[a][i] => j = i
    BY <2>2, <2>4
  <2> QED
    BY <1>3, <2>2, <2>3, <2>5
<1> QED
  BY <1>4, <1>5

LEMMA WaitersStep ==
  ASSUME TypeOK, WaitersInv, [Next]_vars
  PROVE  WaitersInv'
<1>1. CASE Boot
  BY <1>1 DEF Boot, WaitersInv, cron
<1>2. CASE Crash
  BY <1>2 DEF Crash, WaitersInv
<1>3. ASSUME NEW t \in Trigger, StartAutoSync(t) \/ StartFails(t) PROVE WaitersInv'
  BY <1>3 DEF StartAutoSync, StartFails, WaitersInv, cron
<1>4. ASSUME NEW d \in Drive, Step(d) PROVE WaitersInv'
  <2>1. CASE Change(d)
    BY <2>1 DEF Change, WaitersInv, cron
  <2>2. CASE Fire(d)
    BY <2>2, FireWaits
  <2>3. CASE Acquire(d)
    BY <2>3, AcquireWaits
  <2>4. CASE SyncFails(d) \/ FullSyncDone(d) \/ PartialSyncEmpty(d) \/ Callback(d)
               \/ CallbackFails(d)
    <3>1. phase[d] # "waiting" /\ phase' = [phase EXCEPT ![d] = "idle"] /\ waiters' = waiters
      BY <2>4 DEF SyncFails, FullSyncDone, PartialSyncEmpty, Callback, CallbackFails,
                  Fail, Succeed, Release
    <3> QED
      BY <3>1, SameWaiters
  <2>5. CASE PartialSyncDone(d)
    <3>1. phase[d] # "waiting" /\ phase' = [phase EXCEPT ![d] = "callback"] /\ waiters' = waiters
      BY <2>5 DEF PartialSyncDone
    <3> QED
      BY <3>1, SameWaiters
  <2> QED
    BY <1>4, <2>1, <2>2, <2>3, <2>4, <2>5 DEF Step
<1>5. CASE UNCHANGED vars
  BY <1>5 DEF vars, cron, WaitersInv
<1> QED
  BY <1>1, <1>2, <1>3, <1>4, <1>5, NextCases

-----------------------------------------------------------------------------
(* The slots of an account.                                                 *)

LEMMA HoldersFinite ==
  ASSUME NEW a PROVE IsFiniteSet(Holders(a)) /\ Cardinality(Holders(a)) \in Nat
<1>1. Holders(a) \in SUBSET Drive
  BY DEF Holders
<1>2. IsFiniteSet(Holders(a))
  BY <1>1, Constant, FS_Subset
<1> QED
  BY <1>2, FS_CardinalityType

LEMMA SlotTaken ==
  ASSUME TypeOK, SlotsAccounted, NEW d \in Drive, phase[d] \notin Holding, NEW p \in Holding,
         phase' = [phase EXCEPT ![d] = p], free' = [free EXCEPT ![AccountOf[d]] = @ - 1]
  PROVE  SlotsAccounted'
<1> SUFFICES ASSUME NEW a \in Account PROVE free'[a] + Cardinality(Holders(a)') = SyncLimit
  BY DEF SlotsAccounted
<1>1. /\ free[a] \in Nat /\ free[a] + Cardinality(Holders(a)) = SyncLimit
      /\ SyncLimit \in Nat
  BY Constant DEF TypeOK, SlotsAccounted
<1>2. IsFiniteSet(Holders(a)) /\ Cardinality(Holders(a)) \in Nat
  BY HoldersFinite
<1>3. CASE a = AccountOf[d]
  <2>1. Holders(a)' = Holders(a) \cup {d} /\ d \notin Holders(a)
    BY <1>3 DEF Holders, Holding, TypeOK
  <2>2. Cardinality(Holders(a)') = Cardinality(Holders(a)) + 1
    BY <1>2, <2>1, FS_AddElement
  <2>3. free'[a] = free[a] - 1
    BY <1>3 DEF TypeOK
  <2> QED
    BY <1>1, <1>2, <2>2, <2>3
<1>4. CASE a # AccountOf[d]
  <2>1. Holders(a)' = Holders(a) /\ free'[a] = free[a]
    BY <1>4 DEF Holders, TypeOK
  <2> QED
    BY <1>1, <2>1
<1> QED
  BY <1>3, <1>4

LEMMA SlotReleased ==
  ASSUME TypeOK, SlotsAccounted, NEW d \in Drive, phase[d] \in Holding, Release(d)
  PROVE  SlotsAccounted'
<1> SUFFICES ASSUME NEW a \in Account PROVE free'[a] + Cardinality(Holders(a)') = SyncLimit
  BY DEF SlotsAccounted
<1>1. /\ free[a] \in Nat /\ free[a] + Cardinality(Holders(a)) = SyncLimit
      /\ SyncLimit \in Nat
  BY Constant DEF TypeOK, SlotsAccounted
<1>2. IsFiniteSet(Holders(a)) /\ Cardinality(Holders(a)) \in Nat
  BY HoldersFinite
<1>3. CASE a = AccountOf[d]
  <2>1. Holders(a)' = Holders(a) \ {d} /\ d \in Holders(a)
    BY <1>3 DEF Release, Holders, Holding, TypeOK
  <2>2. Cardinality(Holders(a)') = Cardinality(Holders(a)) - 1
    BY <1>2, <2>1, FS_RemoveElement
  <2>3. free'[a] = free[a] + 1
    BY <1>3 DEF Release, TypeOK
  <2> QED
    BY <1>1, <1>2, <2>2, <2>3
<1>4. CASE a # AccountOf[d]
  <2>1. Holders(a)' = Holders(a) /\ free'[a] = free[a]
    BY <1>4 DEF Release, Holders, TypeOK
  <2> QED
    BY <1>1, <2>1
<1> QED
  BY <1>3, <1>4

LEMMA SlotsKept ==
  ASSUME SlotsAccounted, free' = free,
         \A d \in Drive : phase'[d] \in Holding <=> phase[d] \in Holding
  PROVE  SlotsAccounted'
<1>1. \A a \in Account : Holders(a)' = Holders(a)
  BY DEF Holders, Holding
<1> QED
  BY <1>1 DEF SlotsAccounted

LEMMA SlotsFree ==
  ASSUME free = [a \in Account |-> SyncLimit], phase = Each("idle")
  PROVE  SlotsAccounted
<1>1. \A a \in Account : Holders(a) = {}
  BY DEF Holders, Each
<1> QED
  BY <1>1, Constant, FS_EmptySet DEF SlotsAccounted

LEMMA SlotsStep ==
  ASSUME TypeOK, WaitersInv, SlotsAccounted, [Next]_vars
  PROVE  SlotsAccounted'
<1>1. CASE Boot
  BY <1>1, SlotsKept DEF Boot, cron
<1>2. CASE Crash
  <2>1. free' = [a \in Account |-> SyncLimit] /\ phase' = Each("idle")
    BY <1>2 DEF Crash
  <2>2. \A a \in Account : Holders(a)' = {}
    BY <2>1 DEF Holders, Each
  <2>3. \A a \in Account : free'[a] + Cardinality(Holders(a)') = SyncLimit
    BY <2>1, <2>2, Constant, FS_EmptySet
  <2> QED
    BY <2>3 DEF SlotsAccounted
<1>3. ASSUME NEW t \in Trigger, StartAutoSync(t) \/ StartFails(t) PROVE SlotsAccounted'
  BY <1>3, SlotsKept DEF StartAutoSync, StartFails, cron
<1>4. ASSUME NEW d \in Drive, Step(d) PROVE SlotsAccounted'
  <2>1. CASE Change(d)
    BY <2>1, SlotsKept DEF Change, cron
  <2>2. CASE Fire(d)
    <3>1. free' = free /\ \A x \in Drive : phase'[x] \in Holding <=> phase[x] \in Holding
      BY <2>2 DEF Fire, Holding, TypeOK
    <3> QED
      BY <3>1, SlotsKept
  <2>3. CASE Acquire(d)
    <3>1. phase[d] \notin Holding
      BY <2>3, FirstWaits DEF Holding
    <3>2. PICK p \in Holding : phase' = [phase EXCEPT ![d] = p]
      BY <2>3 DEF Acquire, Holding
    <3>3. free' = [free EXCEPT ![AccountOf[d]] = @ - 1]
      BY <2>3 DEF Acquire
    <3> QED
      BY <3>1, <3>2, <3>3, SlotTaken
  <2>4. CASE SyncFails(d) \/ FullSyncDone(d) \/ PartialSyncEmpty(d) \/ Callback(d)
               \/ CallbackFails(d)
    <3>1. phase[d] \in Holding /\ Release(d)
      BY <2>4 DEF SyncFails, FullSyncDone, PartialSyncEmpty, Callback, CallbackFails,
                  Fail, Succeed, Holding
    <3> QED
      BY <3>1, SlotReleased
  <2>5. CASE PartialSyncDone(d)
    <3>1. free' = free /\ \A x \in Drive : phase'[x] \in Holding <=> phase[x] \in Holding
      BY <2>5 DEF PartialSyncDone, Holding, TypeOK
    <3> QED
      BY <3>1, SlotsKept
  <2> QED
    BY <1>4, <2>1, <2>2, <2>3, <2>4, <2>5 DEF Step
<1>5. CASE UNCHANGED vars
  BY <1>5, SlotsKept DEF vars, cron
<1> QED
  BY <1>1, <1>2, <1>3, <1>4, <1>5, NextCases

-----------------------------------------------------------------------------
(* The theorems.                                                            *)

LEMMA SyncInvParts ==
  SyncInv <=> TypeOK /\ WaitersInv /\ SlotsAccounted /\ \A d \in Drive : DriveInv(d)
BY DEF SyncInv, DriveInv, NothingSkipped, HandedOnce, FullSyncOnlyOnce, GivenUpInTime

LEMMA SyncInvInit == Init => SyncInv
<1> SUFFICES ASSUME Init PROVE SyncInv
  OBVIOUS
<1>1. TypeOK
  BY InitType
<1>2. WaitersInv
  BY DEF Init, WaitersInv
<1>3. SlotsAccounted
  BY SlotsFree DEF Init
<1> QED
  BY <1>1, <1>2, <1>3, InitDrive, SyncInvParts

LEMMA SyncInvStep == SyncInv /\ [Next]_vars => SyncInv'
<1> SUFFICES ASSUME SyncInv, [Next]_vars PROVE SyncInv'
  OBVIOUS
<1>1. TypeOK /\ WaitersInv /\ SlotsAccounted /\ \A d \in Drive : DriveInv(d)
  BY SyncInvParts
<1>2. TypeOK' /\ WaitersInv' /\ SlotsAccounted'
  BY <1>1, TypeStep, WaitersStep, SlotsStep
<1>3. ASSUME NEW x \in Drive PROVE DriveInv(x)'
  <2>1. CASE Boot
    BY <1>1, <2>1, SameDrive DEF Boot, Same, cron, history
  <2>2. CASE Crash
    <3>1. /\ job'[x] = "none" /\ attempts'[x] = 0 /\ fullSync'[x] = FALSE /\ phase'[x] = "idle"
          /\ hand'[x] = {} /\ token'[x] = token[x] /\ head'[x] = head[x] /\ handed'[x] = handed[x]
          /\ baseline'[x] = baseline[x] /\ lost'[x] = lost[x] \cup hand[x] /\ streak'[x] = 0
      BY <2>2 DEF Crash, Each
    <3> QED
      BY <1>1, <3>1 DEF DriveInv, JobInv, Settled
  <2>3. ASSUME NEW t \in Trigger, StartAutoSync(t) PROVE DriveInv(x)'
    <3>1. CASE TriggerOf[x] = t
      <4>1. /\ job'[x] = "scheduled" /\ fullSync'[x] = (token[x] = NoToken)
            /\ attempts'[x] = attempts[x] /\ phase'[x] = phase[x] /\ hand'[x] = hand[x]
            /\ token'[x] = token[x] /\ head'[x] = head[x] /\ handed'[x] = handed[x]
            /\ baseline'[x] = baseline[x] /\ lost'[x] = lost[x] /\ streak'[x] = streak[x]
        BY <2>3, <3>1 DEF StartAutoSync, history
      <4> QED
        BY <1>1, <4>1 DEF DriveInv, JobInv, Settled
    <3>2. CASE TriggerOf[x] # t
      <4>1. Same(x)
        BY <2>3, <3>2 DEF StartAutoSync, Same, history
      <4> QED
        BY <1>1, <4>1, SameDrive
    <3> QED
      BY <3>1, <3>2
  <2>4. ASSUME NEW t \in Trigger, StartFails(t) PROVE DriveInv(x)'
    BY <1>1, <2>4, SameDrive DEF StartFails, Same, cron, history
  <2>5. ASSUME NEW d \in Drive, Step(d) PROVE DriveInv(x)'
    BY <1>1, <2>5, DriveStep, OtherDrives, SameDrive
  <2>6. CASE UNCHANGED vars
    BY <1>1, <2>6, SameDrive DEF vars, Same, cron, history
  <2> QED
    BY <2>1, <2>2, <2>3, <2>4, <2>5, <2>6, NextCases
<1> QED
  BY <1>2, <1>3 DEF SyncInv, DriveInv, NothingSkipped, HandedOnce, FullSyncOnlyOnce, GivenUpInTime

\* The inductive invariant: every job, its flag and its scans agree with the page token, and
\* the slots and waiters of every account with the phases of its jobs.
THEOREM SyncInvariance == Spec => []SyncInv
<1>1. Init => SyncInv
  BY SyncInvInit
<1>2. SyncInv /\ [Next]_vars => SyncInv'
  BY SyncInvStep
<1> QED
  BY <1>1, <1>2, PTL DEF Spec

\* The variables have their types in every behaviour.
THEOREM TypeCorrect == Spec => []TypeOK
<1>1. SyncInv => TypeOK
  BY DEF SyncInv
<1> QED
  BY <1>1, SyncInvariance, PTL

\* Every slot of an account is free or held by one running job, through failed syncs,
\* refused scans and crashes (limiter.go:25-38, bernard.go:270-274).
THEOREM SlotsAreAccounted == Spec => []SlotsAccounted
<1>1. SyncInv => SlotsAccounted
  BY DEF SyncInv
<1> QED
  BY <1>1, SyncInvariance, PTL

\* A change that the page token has passed was handed to the processor or is about to be,
\* but for the first full sync, a crash or a refusal in the gap before the callback
\* (bernard.go:307-351).
THEOREM NothingIsSkipped == Spec => []NothingSkipped
<1>1. SyncInv => NothingSkipped
  BY DEF SyncInv
<1> QED
  BY <1>1, SyncInvariance, PTL

\* No change is handed over twice (bernard.go:313-341).
THEOREM ChangesAreHandedOnce == Spec => []HandedOnce
<1>1. SyncInv => HandedOnce
  BY DEF SyncInv
<1> QED
  BY <1>1, SyncInvariance, PTL

\* The flag of a job, read once at start-up, never asks for a full sync of a drive that
\* has a page token (bernard.go:256-290).
THEOREM FullSyncsAreFirst == Spec => []FullSyncOnlyOnce
<1>1. SyncInv => FullSyncOnlyOnce
  BY DEF SyncInv
<1> QED
  BY <1>1, SyncInvariance, PTL

\* A job is removed only after MaxRetries failures in a row or a refusal (bernard.go:165-206).
THEOREM JobsAreGivenUpInTime == Spec => []GivenUpInTime
<1>1. SyncInv => GivenUpInTime
  BY DEF SyncInv
<1> QED
  BY <1>1, SyncInvariance, PTL
=============================================================================
