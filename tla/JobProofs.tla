------------------------------- MODULE JobProofs -------------------------------
(***************************************************************************)
(* The life of a job, for any number of jobs, processes, crashes, stops    *)
(* and failing Redis calls, without an assumption on leases or watchers:   *)
(* JobInv is inductive (given TypeOK), and the safety properties of        *)
(* Scheduler about single jobs follow from it.                             *)
(***************************************************************************)
EXTENDS SchedulerProofs

USE DEF Reply, sharedVars, jobVars, slotVars, reqVars, workerVars, watcherVars,
        checkerVars, cancelVars, restVars, redisVars

------------------------------------------------------------------------------
\* Initially nothing is queued, owned or known.
LEMMA JobInit == Init => JobInv
  BY ConstantsAssumption
  DEF Init, SharedInit, AdmissionInit, DispatcherInit, LeaseWatcherInit, CancelInit,
      JobInv, JobLife, JobOwners, JobClients, Fresh, Gone

\* A submit handler makes its own job queued, or lets it be gone unqueued, and
\* hands out ids that are no longer fresh.
LEMMA JobAdmit == TypeOK /\ JobInv /\ AdmitSteps => JobInv'
  <1> SUFFICES ASSUME TypeOK, JobInv, AdmitSteps PROVE JobInv'
    OBVIOUS
  <1> USE ConstantsAssumption
      DEF TypeOK, SharedTypeOK, AdmissionTypeOK, DispatcherTypeOK, LeaseWatcherTypeOK,
          CancelTypeOK, JobInv, JobLife, JobOwners, JobClients, Fresh, Gone,
          Handling, Working, Goto, Respond
  <1>1. PICK j \in Jobs, r \in Reply :
           \/ \E i \in Instances : Receive(i, j, r)
           \/ Reject(j, r)
           \/ \E s \in Scores : Enqueue(j, s, r)
           \/ RecordKey(j, r)
           \/ StorePayload(j, r)
    BY DEF AdmitSteps, AdmissionNext
  <1>2. UNCHANGED <<workerVars, watcherVars, checkerVars, cancelVars, restVars>>
    BY DEF AdmitSteps
  <1>3. ASSUME NEW i \in Instances, Receive(i, j, r) PROVE JobInv'
    <2>1. JobLife'
      BY <1>2, <1>3 DEF Receive
    <2>2. JobOwners'
      BY <1>2, <1>3 DEF Receive
    <2>3. JobClients'
      BY <1>2, <1>3 DEF Receive
    <2> QED
      BY <2>1, <2>2, <2>3
  <1>4. CASE Reject(j, r)
    <2>1. JobLife'
      BY <1>2, <1>4 DEF Reject
    <2>2. JobOwners'
      BY <1>2, <1>4 DEF Reject
    <2>3. JobClients'
      BY <1>2, <1>4 DEF Reject
    <2> QED
      BY <2>1, <2>2, <2>3
  <1>5. ASSUME NEW s \in Scores, Enqueue(j, s, r) PROVE JobInv'
    <2>1. JobLife'
      BY <1>2, <1>5 DEF Enqueue, EnqueueJob
    <2>2. JobOwners'
      BY <1>2, <1>5 DEF Enqueue, EnqueueJob
    <2>3. JobClients'
      BY <1>2, <1>5 DEF Enqueue, EnqueueJob
    <2> QED
      BY <2>1, <2>2, <2>3
  <1>6. CASE RecordKey(j, r)
    <2>1. JobLife'
      BY <1>2, <1>6 DEF RecordKey
    <2>2. JobOwners'
      BY <1>2, <1>6 DEF RecordKey
    <2>3. JobClients'
      BY <1>2, <1>6 DEF RecordKey
    <2> QED
      BY <2>1, <2>2, <2>3
  <1>7. CASE StorePayload(j, r)
    <2>1. JobLife'
      BY <1>2, <1>7 DEF StorePayload
    <2>2. JobOwners'
      BY <1>2, <1>7 DEF StorePayload
    <2>3. JobClients'
      BY <1>2, <1>7 DEF StorePayload
    <2> QED
      BY <2>1, <2>2, <2>3
  <1> HIDE DEF JobInv
  <1> QED
    BY <1>1, <1>3, <1>4, <1>5, <1>6, <1>7

\* A cancel takes a queued job out, or writes to one that it has seen gone.
LEMMA JobCancel ==
  TypeOK /\ JobInv /\ CancelSteps => JobInv'
  <1> SUFFICES ASSUME TypeOK, JobInv, CancelSteps PROVE JobInv'
    OBVIOUS
  <1> USE ConstantsAssumption
      DEF TypeOK, SharedTypeOK, AdmissionTypeOK, DispatcherTypeOK, LeaseWatcherTypeOK,
          CancelTypeOK, JobInv, JobLife, JobOwners, JobClients, Fresh, Gone,
          Handling, Working, Cancelling, CanGoto, Known, Queued
  <1>1. PICK c \in Cancels, r \in Reply :
           \/ \E i \in Instances, j \in Jobs : CancelRead(c, i, j, r)
           \/ CancelScript(c, r)
           \/ CancelExpire(c, r)
           \/ CancelMark(c, r)
    BY DEF CancelSteps, CancelNext
  <1>2. UNCHANGED <<workerVars, watcherVars, checkerVars, restVars>>
    BY DEF CancelSteps
  <1>3. ASSUME NEW i \in Instances, NEW j \in Jobs, CancelRead(c, i, j, r) PROVE JobInv'
    <2>1. JobLife'
      BY <1>2, <1>3 DEF CancelRead
    <2>2. JobOwners'
      BY <1>2, <1>3 DEF CancelRead
    <2>3. JobClients'
      BY <1>2, <1>3 DEF CancelRead
    <2> QED
      BY <2>1, <2>2, <2>3
  <1>4. CASE CancelScript(c, r)
    <2>1. JobLife'
      BY <1>2, <1>4 DEF CancelScript, CancelQueued, Executed
    <2>2. JobOwners'
      BY <1>2, <1>4 DEF CancelScript, CancelQueued, Executed
    <2>3. JobClients'
      BY <1>2, <1>4 DEF CancelScript, CancelQueued, Executed
    <2> QED
      BY <2>1, <2>2, <2>3
  <1>5. CASE CancelExpire(c, r)
    <2>1. JobLife'
      BY <1>2, <1>5 DEF CancelExpire
    <2>2. JobOwners'
      BY <1>2, <1>5 DEF CancelExpire
    <2>3. JobClients'
      BY <1>2, <1>5 DEF CancelExpire
    <2> QED
      BY <2>1, <2>2, <2>3
  <1>6. CASE CancelMark(c, r)
    <2>1. JobLife'
      BY <1>2, <1>6 DEF CancelMark
    <2>2. JobOwners'
      BY <1>2, <1>6 DEF CancelMark
    <2>3. JobClients'
      BY <1>2, <1>6 DEF CancelMark
    <2> QED
      BY <2>1, <2>2, <2>3
  <1> HIDE DEF JobInv
  <1> QED
    BY <1>1, <1>3, <1>4, <1>5, <1>6

\* A worker takes the popped job out of the queue for good, and forwards it
\* once.
LEMMA JobWork ==
  ASSUME NEW i \in Instances
  PROVE TypeOK /\ JobInv /\ Works(i) => JobInv'
  <1> SUFFICES ASSUME TypeOK, JobInv, Works(i) PROVE JobInv'
    OBVIOUS
  <1> USE ConstantsAssumption
      DEF TypeOK, SharedTypeOK, AdmissionTypeOK, DispatcherTypeOK, LeaseWatcherTypeOK,
          CancelTypeOK, JobInv, JobLife, JobOwners, JobClients, Fresh, Gone,
          Handling, Working, Holding, WGoto, Queued
  <1>1. PICK r \in Reply :
           \/ \E j \in Jobs : Bzpopmin(i, j, r)
           \/ Claim(i, r)
           \/ SetLease(i, r)
           \/ Fetch(i, r)
           \/ Mark(i, r)
           \/ Cleanup(i, r)
           \/ Release(i, r)
           \/ FetchMalformed(i)
    BY DEF Works, WorkerStep, Reply
  <1>2. UNCHANGED <<reqVars, watcherVars, checkerVars, cancelVars, restVars>>
    BY DEF Works
  <1>3. ASSUME NEW j \in Jobs, Bzpopmin(i, j, r) PROVE JobInv'
    <2>1. JobLife'
      BY <1>2, <1>3 DEF Bzpopmin, MostUrgent
    <2>2. JobOwners'
      BY <1>2, <1>3 DEF Bzpopmin, MostUrgent
    <2>3. JobClients'
      BY <1>2, <1>3 DEF Bzpopmin, MostUrgent
    <2> QED
      BY <2>1, <2>2, <2>3
  <1>4. CASE Claim(i, r)
    <2>1. JobLife'
      BY <1>2, <1>4 DEF Claim, ClaimSlot, WorkerEnds
    <2>2. JobOwners'
      BY <1>2, <1>4 DEF Claim, ClaimSlot, WorkerEnds
    <2>3. JobClients'
      BY <1>2, <1>4 DEF Claim, ClaimSlot, WorkerEnds
    <2> QED
      BY <2>1, <2>2, <2>3
  <1>5. CASE SetLease(i, r)
    <2>1. JobLife'
      BY <1>2, <1>5 DEF SetLease
    <2>2. JobOwners'
      BY <1>2, <1>5 DEF SetLease
    <2>3. JobClients'
      BY <1>2, <1>5 DEF SetLease
    <2> QED
      BY <2>1, <2>2, <2>3
  <1>6. CASE Fetch(i, r)
    <2>1. JobLife'
      BY <1>2, <1>6 DEF Fetch
    <2>2. JobOwners'
      BY <1>2, <1>6 DEF Fetch
    <2>3. JobClients'
      BY <1>2, <1>6 DEF Fetch
    <2> QED
      BY <2>1, <2>2, <2>3
  <1>7. CASE Mark(i, r)
    <2>1. JobLife'
      BY <1>2, <1>7 DEF Mark
    <2>2. JobOwners'
      BY <1>2, <1>7 DEF Mark
    <2>3. JobClients'
      BY <1>2, <1>7 DEF Mark
    <2> QED
      BY <2>1, <2>2, <2>3
  <1>8. CASE Cleanup(i, r)
    <2>1. JobLife'
      BY <1>2, <1>8 DEF Cleanup
    <2>2. JobOwners'
      BY <1>2, <1>8 DEF Cleanup
    <2>3. JobClients'
      BY <1>2, <1>8 DEF Cleanup
    <2> QED
      BY <2>1, <2>2, <2>3
  <1>9. CASE Release(i, r)
    <2>1. JobLife'
      BY <1>2, <1>9 DEF Release, ReleaseSlot, LoopTop
    <2>2. JobOwners'
      BY <1>2, <1>9 DEF Release, ReleaseSlot, LoopTop
    <2>3. JobClients'
      BY <1>2, <1>9 DEF Release, ReleaseSlot, LoopTop
    <2> QED
      BY <2>1, <2>2, <2>3
  <1>10. CASE FetchMalformed(i)
    <2>1. JobLife'
      BY <1>2, <1>10 DEF FetchMalformed, WorkerEnds
    <2>2. JobOwners'
      BY <1>2, <1>10 DEF FetchMalformed, WorkerEnds
    <2>3. JobClients'
      BY <1>2, <1>10 DEF FetchMalformed, WorkerEnds
    <2> QED
      BY <2>1, <2>2, <2>3
  <1> HIDE DEF JobInv
  <1> QED
    BY <1>1, <1>3, <1>4, <1>5, <1>6, <1>7, <1>8, <1>9, <1>10

\* A stopping worker lets go of its job; it never puts it back.
LEMMA JobWind ==
  ASSUME NEW i \in Instances
  PROVE TypeOK /\ JobInv /\ (Winds(i) \/ Answers(i)) => JobInv'
  <1> SUFFICES ASSUME TypeOK, JobInv, (Winds(i) \/ Answers(i)) PROVE JobInv'
    OBVIOUS
  <1> USE ConstantsAssumption
      DEF TypeOK, SharedTypeOK, AdmissionTypeOK, DispatcherTypeOK, LeaseWatcherTypeOK,
          CancelTypeOK, JobInv, JobLife, JobOwners, JobClients, Fresh, Gone,
          Handling, Working, Holding, WGoto, WorkerEnds, Queued
  <1>1. UNCHANGED <<reqVars, watcherVars, checkerVars, cancelVars, restVars>>
    BY DEF Winds, Answers
  <1>2. ASSUME NEW j \in Jobs, BzpopminStopping(i, j) PROVE JobInv'
    <2>1. JobLife'
      BY <1>1, <1>2 DEF BzpopminStopping, MostUrgent
    <2>2. JobOwners'
      BY <1>1, <1>2 DEF BzpopminStopping, MostUrgent
    <2>3. JobClients'
      BY <1>1, <1>2 DEF BzpopminStopping, MostUrgent
    <2> QED
      BY <2>1, <2>2, <2>3
  <1>3. CASE ClaimStop(i)
    <2>1. JobLife'
      BY <1>1, <1>3 DEF ClaimStop
    <2>2. JobOwners'
      BY <1>1, <1>3 DEF ClaimStop
    <2>3. JobClients'
      BY <1>1, <1>3 DEF ClaimStop
    <2> QED
      BY <2>1, <2>2, <2>3
  <1>4. CASE StopCancel(i)
    <2>1. JobLife'
      BY <1>1, <1>4 DEF StopCancel
    <2>2. JobOwners'
      BY <1>1, <1>4 DEF StopCancel
    <2>3. JobClients'
      BY <1>1, <1>4 DEF StopCancel
    <2> QED
      BY <2>1, <2>2, <2>3
  <1>5. ASSUME NEW out \in {"completed", "failed"}, BackendReturns(i, out) PROVE JobInv'
    <2>1. JobLife'
      BY <1>1, <1>5 DEF BackendReturns
    <2>2. JobOwners'
      BY <1>1, <1>5 DEF BackendReturns
    <2>3. JobClients'
      BY <1>1, <1>5 DEF BackendReturns
    <2> QED
      BY <2>1, <2>2, <2>3
  <1> HIDE DEF JobInv
  <1> QED
    BY <1>2, <1>3, <1>4, <1>5 DEF Winds, Answers, WorkerStopping, BackendStep

\* Watchers only see jobs in flight, which are gone.
LEMMA JobWatch ==
  TypeOK /\ JobInv /\ (TimePasses \/ \E i \in Instances : Watches(i)) => JobInv'
  <1> SUFFICES ASSUME TypeOK, JobInv, (TimePasses \/ \E i \in Instances : Watches(i)) PROVE JobInv'
    OBVIOUS
  <1> USE ConstantsAssumption
      DEF TypeOK, SharedTypeOK, AdmissionTypeOK, DispatcherTypeOK, LeaseWatcherTypeOK,
          CancelTypeOK, JobInv, JobLife, JobOwners, JobClients, Fresh, Gone,
          Working
  <1>1. UNCHANGED <<reqVars, checkerVars, cancelVars, restVars>>
    BY DEF TimePasses, Watches
  <1>2. ASSUME NEW j \in Jobs, BecomesOverdue(j) \/ LeaseExpires(j) PROVE JobInv'
    <2>1. JobLife'
      BY <1>1, <1>2 DEF BecomesOverdue, LeaseExpires
    <2>2. JobOwners'
      BY <1>1, <1>2 DEF BecomesOverdue, LeaseExpires
    <2>3. JobClients'
      BY <1>1, <1>2 DEF BecomesOverdue, LeaseExpires
    <2> QED
      BY <2>1, <2>2, <2>3
  <1>3. ASSUME NEW i \in Instances, Scan(i) PROVE JobInv'
    <2>1. JobLife'
      BY <1>1, <1>3 DEF Scan
    <2>2. JobOwners'
      BY <1>1, <1>3 DEF Scan
    <2>3. JobClients'
      BY <1>1, <1>3 DEF Scan
    <2> QED
      BY <2>1, <2>2, <2>3
  <1>4. ASSUME NEW i \in Instances, NEW j \in Jobs, NEW r \in Reply, Check(i, j, r)
        PROVE JobInv'
    <2>1. JobLife'
      BY <1>1, <1>4 DEF Check
    <2>2. JobOwners'
      BY <1>1, <1>4 DEF Check
    <2>3. JobClients'
      BY <1>1, <1>4 DEF Check
    <2> QED
      BY <2>1, <2>2, <2>3
  <1>5. ASSUME NEW i \in Instances, NEW r \in Reply, Reclaim(i, r) PROVE JobInv'
    <2>1. JobLife'
      BY <1>1, <1>5 DEF Reclaim
    <2>2. JobOwners'
      BY <1>1, <1>5 DEF Reclaim
    <2>3. JobClients'
      BY <1>1, <1>5 DEF Reclaim
    <2> QED
      BY <2>1, <2>2, <2>3
  <1> HIDE DEF JobInv, TypeOK
  <1>6. CASE TimePasses
    BY <1>2, <1>6 DEF TimePasses, LeaseTime
  <1>7. ASSUME NEW i \in Instances, Watches(i) PROVE JobInv'
    <2>1. \/ Scan(i)
          \/ \E j \in Jobs, r \in Reply : Check(i, j, r)
          \/ \E r \in Reply : Reclaim(i, r)
      BY <1>7 DEF Watches, WatcherStep
    <2> QED
      BY <1>3, <1>4, <1>5, <2>1
  <1> QED
    BY <1>6, <1>7

\* The checker writes in_use only.
LEMMA JobCheck == ASSUME NEW i \in Instances PROVE TypeOK /\ JobInv /\ Checks(i) => JobInv'
  <1> SUFFICES ASSUME JobInv, Checks(i) PROVE JobInv'
    OBVIOUS
  <1>1. UNCHANGED <<jobVars, inflight, overdue, lease, dlq, idem, proc, reqVars, workerVars,
                    candidates, orphan, overran, cancelVars>>
    BY DEF Checks, CheckerStep, ReadActual, ReadRecorded, Correct, Accept
  <1> QED
    BY <1>1 DEF JobInv, JobLife, JobOwners, JobClients, Fresh, Gone

\* Handlers that die leave their job where it is; workers forget theirs.
LEMMA JobProcess ==
  ASSUME NEW i \in Instances
  PROVE TypeOK /\ JobInv /\ (Crash(i) \/ Stop(i) \/ Restart(i)) => JobInv'
  <1> SUFFICES ASSUME TypeOK, JobInv, (Crash(i) \/ Stop(i) \/ Restart(i)) PROVE JobInv'
    OBVIOUS
  <1> USE ConstantsAssumption
      DEF TypeOK, SharedTypeOK, AdmissionTypeOK, DispatcherTypeOK, LeaseWatcherTypeOK,
          CancelTypeOK, JobInv, JobLife, JobOwners, JobClients, Fresh, Gone,
          Handling, Working, WGoto
  <1>1. CASE Crash(i)
    <2>1. JobLife'
      BY <1>1 DEF Crash, RequestsDie, CancelsDie, Cancelling, WorkerDies,
              WorkerEnds, WatcherDies
    <2>2. JobOwners'
      BY <1>1 DEF Crash, RequestsDie, CancelsDie, Cancelling, WorkerDies,
              WorkerEnds, WatcherDies
    <2>3. JobClients'
      BY <1>1 DEF Crash, RequestsDie, CancelsDie, Cancelling, WorkerDies,
              WorkerEnds, WatcherDies
    <2> QED
      BY <2>1, <2>2, <2>3
  <1>2. CASE Stop(i)
    <2>1. JobLife'
      BY <1>2 DEF Stop, WatcherDies
    <2>2. JobOwners'
      BY <1>2 DEF Stop, WatcherDies
    <2>3. JobClients'
      BY <1>2 DEF Stop, WatcherDies
    <2> QED
      BY <2>1, <2>2, <2>3
  <1>3. CASE Restart(i)
    <2>1. JobLife'
      BY <1>3 DEF Restart, WorkerStarts
    <2>2. JobOwners'
      BY <1>3 DEF Restart, WorkerStarts
    <2>3. JobClients'
      BY <1>3 DEF Restart, WorkerStarts
    <2> QED
      BY <2>1, <2>2, <2>3
  <1> HIDE DEF JobInv
  <1> QED
    BY <1>1, <1>2, <1>3

\* JobInv is inductive, given TypeOK.
LEMMA JobNext == TypeOK /\ JobInv /\ [Next]_vars => JobInv'
  <1> SUFFICES ASSUME TypeOK, JobInv, [Next]_vars PROVE JobInv'
    OBVIOUS
  <1>1. CASE UNCHANGED vars
    BY <1>1 DEF vars, JobInv, JobLife, JobOwners, JobClients, Fresh, Gone
  <1>2. CASE Next
    BY <1>2, JobAdmit, JobCancel, JobWork, JobWind, JobWatch, JobCheck, JobProcess
    DEF Next, Step
  <1> QED
    BY <1>1, <1>2

------------------------------------------------------------------------------
(***************************************************************************)
(* What follows.                                                           *)
(***************************************************************************)

\* The life of a job: no handler, worker, watcher or crash ever brings a job
\* back to the queue, and no two workers ever have the same job.
THEOREM JobLives == Spec => [](TypeOK /\ JobInv)
  <1>1. Init => TypeOK /\ JobInv
    BY TypeInit, JobInit
  <1>2. TypeOK /\ JobInv /\ [Next]_vars => (TypeOK /\ JobInv)'
    BY TypeNext, JobNext
  <1> QED
    BY <1>1, <1>2, PTL DEF Spec

\* DispatcherWorker.run pops before anything else happens to a job: the backend
\* is never sent the same job twice, whatever crashes, restarts and retries.
THEOREM NeverTwice == Spec => []AtMostOnce
  <1>1. TypeOK /\ JobInv => AtMostOnce
    BY DEF JobInv, JobLife, AtMostOnce
  <1> QED
    BY <1>1, JobLives, PTL

\* A job in queue:{model} has status "queued", was never sent to the backend,
\* holds no slot and is in no worker's hands.
THEOREM QueueUntouched == Spec => []QueuedIsUntouched
  <1>1. TypeOK /\ JobInv => QueuedIsUntouched
    BY ConstantsAssumption
    DEF TypeOK, SharedTypeOK, DispatcherTypeOK, JobInv, JobLife, JobOwners, Gone, Queued,
        QueuedIsUntouched
  <1> QED
    BY <1>1, JobLives, PTL

\* cancel_job answers "cancelled" after the cancel script removed the job: that
\* job never reaches a worker or the backend, whoever raced for it.
THEOREM CancelsHold == Spec => []CancelHonoured
  <1>1. TypeOK /\ JobInv => CancelHonoured
    BY ConstantsAssumption
    DEF TypeOK, CancelTypeOK, JobInv, JobClients, Gone, Queued, CancelHonoured
  <1> QED
    BY <1>1, JobLives, PTL

------------------------------------------------------------------------------
(***************************************************************************)
(* The bound of the queue.                                                 *)
(***************************************************************************)

\* Only the enqueue script adds to the queue, one job.
LEMMA QueueGrows ==
  ASSUME TypeOK, [Next]_vars
  PROVE  \/ Queued' \subseteq Queued
         \/ EnqueueRoom /\ \E j \in Jobs : Queued' \subseteq Queued \cup {j}
  <1> USE DEF Queued, TypeOK, SharedTypeOK
  <1>1. CASE AdmitSteps
    <2>1. PICK j \in Jobs, r \in Reply :
             \/ queue' = queue
             \/ \E s \in Scores : Enqueue(j, s, r)
      BY <1>1 DEF AdmitSteps, AdmissionNext, Receive, Reject, RecordKey, StorePayload
    <2> QED
      BY <2>1 DEF Enqueue, EnqueueJob
  <1>2. CASE CancelSteps
    BY <1>2 DEF CancelSteps, CancelNext, CancelRead, CancelScript, CancelQueued, CancelExpire,
                CancelMark
  <1>3. ASSUME NEW i \in Instances, Works(i) \/ Winds(i) \/ Answers(i)
        PROVE  Queued' \subseteq Queued
    BY <1>3 DEF Works, Winds, Answers, WorkerStep, WorkerStopping, BackendStep, Bzpopmin,
                BzpopminStopping, Claim, ClaimStop, StopCancel, SetLease, Fetch, FetchMalformed,
                BackendReturns, Mark, Cleanup, Release
  <1>4. ASSUME TimePasses \/ \E i \in Instances : Watches(i)
        PROVE  queue' = queue
    BY <1>4 DEF TimePasses, Watches, LeaseTime, WatcherStep, BecomesOverdue, LeaseExpires, Scan,
                Check, Reclaim
  <1>5. ASSUME NEW i \in Instances, Checks(i) \/ Crash(i) \/ Stop(i) \/ Restart(i)
        PROVE  queue' = queue
    BY <1>5 DEF Checks, CheckerStep, ReadActual, ReadRecorded, Correct, Accept, Crash, Stop, Restart
  <1>6. CASE UNCHANGED vars
    BY <1>6 DEF vars
  <1> QED
    BY <1>1, <1>2, <1>3, <1>4, <1>5, <1>6 DEF Next, Step

\* The enqueue script checks ZCARD and adds in one atomic step: the queue never
\* exceeds max_queue_depth, for any number of concurrent handlers.
THEOREM QueueNeverOverflows == Spec => []QueueBounded
  <1>1. Init => QueueBounded
    <2>1. Init => Queued = {}
      BY DEF Init, SharedInit, Queued
    <2> QED
      BY <2>1, FS_EmptySet, ConstantsAssumption DEF QueueBounded
  <1>2. TypeOK /\ QueueBounded /\ [Next]_vars => QueueBounded'
    <2> SUFFICES ASSUME TypeOK, QueueBounded, [Next]_vars PROVE QueueBounded'
      OBVIOUS
    <2>1. IsFiniteSet(Queued) /\ Cardinality(Queued) \in Nat
      BY ConstantsAssumption, FS_Subset, FS_CardinalityType DEF Queued
    <2>2. CASE Queued' \subseteq Queued
      <3>1. Cardinality(Queued') <= Cardinality(Queued) /\ Cardinality(Queued') \in Nat
        BY <2>1, <2>2, FS_Subset, FS_CardinalityType
      <3> QED
        BY <2>1, <3>1, ConstantsAssumption DEF QueueBounded
    <2>3. ASSUME EnqueueRoom, NEW j \in Jobs, Queued' \subseteq Queued \cup {j}
          PROVE  QueueBounded'
      <3>1. /\ IsFiniteSet(Queued \cup {j})
            /\ \/ Cardinality(Queued \cup {j}) = Cardinality(Queued)
               \/ Cardinality(Queued \cup {j}) = Cardinality(Queued) + 1
        BY <2>1, FS_AddElement
      <3>2. Cardinality(Queued') <= Cardinality(Queued \cup {j}) /\ Cardinality(Queued') \in Nat
        BY <2>3, <3>1, FS_Subset, FS_CardinalityType
      <3> QED
        BY <2>1, <2>3, <3>1, <3>2, ConstantsAssumption DEF QueueBounded, EnqueueRoom
    <2> QED
      BY <2>2, <2>3, QueueGrows
  <1> QED
    BY <1>1, <1>2, TypeCorrect, PTL DEF Spec

------------------------------------------------------------------------------
\* A submit handler records a key once, for a job it has enqueued.
LEMMA RetryAdmit == TypeOK /\ RetryInv /\ AdmitSteps => RetryInv'
  <1> SUFFICES ASSUME TypeOK, RetryInv, AdmitSteps PROVE RetryInv'
    OBVIOUS
  <1> USE ConstantsAssumption
      DEF TypeOK, SharedTypeOK, AdmissionTypeOK, RetryInv, Handling, Goto, Respond
  <1>1. PICK j \in Jobs, r \in Reply :
           \/ \E i \in Instances : Receive(i, j, r)
           \/ Reject(j, r)
           \/ \E s \in Scores : Enqueue(j, s, r)
           \/ RecordKey(j, r)
           \/ StorePayload(j, r)
    BY DEF AdmitSteps, AdmissionNext
  <1>2. ASSUME NEW i \in Instances, Receive(i, j, r) PROVE RetryInv'
    BY <1>2 DEF Receive
  <1>3. CASE Reject(j, r)
    BY <1>3 DEF Reject
  <1>4. ASSUME NEW s \in Scores, Enqueue(j, s, r) PROVE RetryInv'
    BY <1>4 DEF Enqueue, EnqueueJob, Executed
  <1>5. CASE RecordKey(j, r)
    BY <1>5 DEF RecordKey, Executed
  <1>6. CASE StorePayload(j, r)
    BY <1>6 DEF StorePayload
  <1> HIDE DEF RetryInv
  <1> QED
    BY <1>1, <1>2, <1>3, <1>4, <1>5, <1>6

\* Nobody else records a key, and a status once written is never absent again.
LEMMA RetryRest ==
  ASSUME TypeOK, Next, ~AdmitSteps
  PROVE  /\ \A j \in Jobs : status[j] # "absent" => status'[j] # "absent"
         /\ UNCHANGED <<idem, answer>>
         /\ \A j \in Jobs : reqPc'[j] = reqPc[j] \/ reqPc'[j] = "aborted"
  <1> USE DEF TypeOK, SharedTypeOK, AdmissionTypeOK, DispatcherTypeOK, LeaseWatcherTypeOK,
              CancelTypeOK, Working, Handling
  <1> DEFINE Kept == /\ \A j \in Jobs : status[j] # "absent" => status'[j] # "absent"
                     /\ UNCHANGED <<idem, answer>>
                     /\ \A j \in Jobs : reqPc'[j] = reqPc[j] \/ reqPc'[j] = "aborted"
  <1>1. CASE CancelSteps
    BY <1>1 DEF CancelSteps, CancelNext, CancelRead, CancelScript, CancelQueued, CancelExpire,
                CancelMark
  <1>2. CASE TimePasses
    BY <1>2 DEF TimePasses, LeaseTime, BecomesOverdue, LeaseExpires
  <1>3. ASSUME NEW i \in Instances PROVE Works(i) => Kept
    BY DEF Works, WorkerStep, Bzpopmin, Claim, ClaimSlot, SetLease, Fetch, FetchMalformed, Mark,
           Cleanup, Release, Terminal
  <1>4. ASSUME NEW i \in Instances PROVE Winds(i) \/ Answers(i) => Kept
    BY DEF Winds, Answers, WorkerStopping, BackendStep, BzpopminStopping, ClaimStop, StopCancel,
           BackendReturns
  <1>5. ASSUME NEW i \in Instances PROVE Watches(i) => Kept
    BY DEF Watches, WatcherStep, Scan, Check, Reclaim
  <1>6. ASSUME NEW i \in Instances PROVE Checks(i) => Kept
    BY DEF Checks, CheckerStep, ReadActual, ReadRecorded, Correct, Accept
  <1>7. ASSUME NEW i \in Instances PROVE Crash(i) \/ Stop(i) \/ Restart(i) => Kept
    BY DEF Crash, Stop, Restart, RequestsDie
  <1> HIDE DEF Kept
  <1>8. Kept
    BY <1>1, <1>2, <1>3, <1>4, <1>5, <1>6, <1>7 DEF Next, Step, Kept
  <1> QED
    BY <1>8 DEF Kept

\* However many requests carry one key and whatever fails: once a request with
\* a key is answered, the key is recorded for ever, and every retry that finds
\* it recorded is given that one job, which exists.
THEOREM RetriesAgree == Spec => []RetriesDeduplicated
  <1>1. Init => RetryInv
    BY ConstantsAssumption DEF Init, SharedInit, AdmissionInit, RetryInv
  <1>2. TypeOK /\ RetryInv /\ [Next]_vars => RetryInv'
    <2> SUFFICES ASSUME TypeOK, RetryInv, [Next]_vars PROVE RetryInv'
      OBVIOUS
    <2>1. CASE AdmitSteps
      BY <2>1, RetryAdmit
    <2>2. CASE Next /\ ~AdmitSteps
      BY <2>2, RetryRest, ConstantsAssumption
      DEF RetryInv, TypeOK, SharedTypeOK, AdmissionTypeOK, Handling
    <2>3. CASE UNCHANGED vars
      BY <2>3 DEF vars, RetryInv
    <2> QED
      BY <2>1, <2>2, <2>3
  <1>3. TypeOK /\ RetryInv => RetriesDeduplicated
    BY ConstantsAssumption
    DEF RetryInv, RetriesDeduplicated, TypeOK, SharedTypeOK, AdmissionTypeOK
  <1> QED
    BY <1>1, <1>2, <1>3, TypeCorrect, PTL DEF Spec

==============================================================================
