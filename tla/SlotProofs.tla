------------------------------ MODULE SlotProofs -------------------------------
(***************************************************************************)
(* Slots, for any number of jobs, processes, crashes, stops, failing Redis *)
(* calls, jobs that outlast their lease, overlapping scans and resets, and *)
(* for any capacity and tolerance.  What in_use may miss is what watchers  *)
(* and checkers overbook, and what watchers overbook is bounded.  Before   *)
(* the first fault more is true: in_use is exact, nothing is lost and      *)
(* outcomes are kept.                                                      *)
(***************************************************************************)
EXTENDS JobProofs

USE DEF Reply, sharedVars, jobVars, slotVars, reqVars, workerVars, watcherVars,
        checkerVars, cancelVars, restVars, redisVars

------------------------------------------------------------------------------
(***************************************************************************)
(* OrphanInv: a watcher refers to a job that a live worker has only after  *)
(* the job outlasted its lease.                                            *)
(***************************************************************************)

\* Initially nothing is overdue and nobody scans.
LEMMA OrphanInit == Init => OrphanInv
  BY ConstantsAssumption
  DEF Init, SharedInit, DispatcherInit, LeaseWatcherInit, OrphanInv, Refers

\* Submit and cancel handlers touch nothing of it.
LEMMA OrphanApi == OrphanInv /\ (AdmitSteps \/ CancelSteps) => OrphanInv'
  <1> SUFFICES ASSUME OrphanInv, AdmitSteps \/ CancelSteps PROVE OrphanInv'
    OBVIOUS
  <1>1. UNCHANGED <<slotVars, workerVars, watcherVars>>
    BY DEF AdmitSteps, AdmissionNext, Receive, Reject, Enqueue, RecordKey, StorePayload,
           CancelSteps, CancelNext, CancelRead, CancelScript, CancelExpire, CancelMark
  <1> QED
    BY <1>1 DEF OrphanInv, Refers

\* A worker takes a job that nobody refers to, and removes only its own job from
\* the overdue ones, which has then outlasted its lease.
LEMMA OrphanWork ==
  ASSUME NEW i \in Instances, TypeOK, JobInv, OrphanInv, Works(i) \/ Winds(i) \/ Answers(i)
  PROVE  OrphanInv'
  <1> USE ConstantsAssumption
      DEF TypeOK, SharedTypeOK, DispatcherTypeOK, LeaseWatcherTypeOK,
          JobInv, JobLife, JobOwners, Gone, OrphanInv, Refers,
          Working, Holding, WGoto, WorkerEnds, Queued
  <1>1. UNCHANGED watcherVars
    BY DEF Works, Winds, Answers
  <1>2. ASSUME NEW j \in Jobs, NEW r \in Reply, Bzpopmin(i, j, r) PROVE OrphanInv'
    BY <1>1, <1>2, SMTT(30) DEF Bzpopmin, MostUrgent
  <1>3. ASSUME NEW j \in Jobs, BzpopminStopping(i, j) PROVE OrphanInv'
    BY <1>1, <1>3 DEF BzpopminStopping
  <1>4. ASSUME NEW r \in Reply, Claim(i, r) PROVE OrphanInv'
    BY <1>1, <1>4 DEF Claim
  <1>5. CASE ClaimStop(i)
    BY <1>1, <1>5 DEF ClaimStop
  <1>6. ASSUME NEW r \in Reply, SetLease(i, r) PROVE OrphanInv'
    BY <1>1, <1>6 DEF SetLease
  <1>7. ASSUME NEW r \in Reply, Fetch(i, r) \/ Mark(i, r) \/ Cleanup(i, r) PROVE OrphanInv'
    BY <1>1, <1>7 DEF Fetch, Mark, Cleanup
  <1>8. ASSUME NEW out \in {"completed", "failed"}, BackendReturns(i, out) PROVE OrphanInv'
    BY <1>1, <1>8 DEF BackendReturns
  <1>9. ASSUME NEW r \in Reply, Release(i, r) PROVE OrphanInv'
    BY <1>1, <1>9 DEF Release, ReleaseSlot, LoopTop
  <1>10. CASE StopCancel(i)
    BY <1>1, <1>10 DEF StopCancel
  <1>11. CASE FetchMalformed(i)
    BY <1>1, <1>11 DEF FetchMalformed
  <1> HIDE DEF OrphanInv
  <1> QED
    BY <1>2, <1>3, <1>4, <1>5, <1>6, <1>7, <1>8, <1>9, <1>10, <1>11
    DEF Works, Winds, Answers, WorkerStep, WorkerStopping, BackendStep

\* A watcher moves its own candidates, which were overdue when it scanned.
LEMMA OrphanWatch ==
  ASSUME TypeOK, JobInv, OrphanInv, TimePasses \/ \E i \in Instances : Watches(i)
  PROVE  OrphanInv'
  <1> USE ConstantsAssumption
      DEF TypeOK, SharedTypeOK, DispatcherTypeOK, LeaseWatcherTypeOK,
          JobInv, JobOwners, OrphanInv, Refers, Scanning, Working
  <1>2. ASSUME NEW j \in Jobs, BecomesOverdue(j) PROVE OrphanInv'
    BY <1>2 DEF BecomesOverdue, HeldJobs, Holders
  <1>3. ASSUME NEW j \in Jobs, LeaseExpires(j) PROVE OrphanInv'
    BY <1>3 DEF LeaseExpires
  <1>4. ASSUME NEW i \in Instances, Scan(i) PROVE OrphanInv'
    BY <1>4 DEF Scan
  <1>5. ASSUME NEW i \in Instances, NEW j \in Jobs, NEW r \in Reply, Check(i, j, r)
        PROVE OrphanInv'
    BY <1>5 DEF Check
  <1>6. ASSUME NEW i \in Instances, NEW r \in Reply, Reclaim(i, r) PROVE OrphanInv'
    BY <1>6 DEF Reclaim
  <1> HIDE DEF OrphanInv, TypeOK, JobInv
  <1>7. CASE TimePasses
    BY <1>2, <1>3, <1>7 DEF TimePasses, LeaseTime
  <1>8. ASSUME NEW i \in Instances, Watches(i) PROVE OrphanInv'
    <2>1. \/ Scan(i)
          \/ \E j \in Jobs, r \in Reply : Check(i, j, r)
          \/ \E r \in Reply : Reclaim(i, r)
      BY <1>8 DEF Watches, WatcherStep
    <2> QED
      BY <1>4, <1>5, <1>6, <2>1
  <1> QED
    BY <1>7, <1>8

\* A checker touches in_use only; a dead worker or watcher has no job.
LEMMA OrphanProcess ==
  ASSUME NEW i \in Instances, TypeOK, OrphanInv,
         Checks(i) \/ Crash(i) \/ Stop(i) \/ Restart(i)
  PROVE  OrphanInv'
  <1> USE ConstantsAssumption
      DEF TypeOK, SharedTypeOK, DispatcherTypeOK, LeaseWatcherTypeOK, OrphanInv, Refers
  <1>1. CASE Checks(i)
    <2>1. UNCHANGED <<inflight, overdue, dlq, workerVars, candidates, orphan, overran>>
      BY <1>1 DEF Checks, CheckerStep, ReadActual, ReadRecorded, Correct, Accept
    <2> QED
      BY <2>1
  <1>2. CASE Crash(i)
    BY <1>2 DEF Crash, WorkerDies, WorkerEnds, WGoto, WatcherDies
  <1>3. CASE Stop(i)
    BY <1>3 DEF Stop, WatcherDies
  <1>4. CASE Restart(i)
    BY <1>4 DEF Restart, WorkerStarts, WGoto
  <1> QED
    BY <1>1, <1>2, <1>3, <1>4

\* OrphanInv is preserved.
LEMMA OrphanNext ==
  ASSUME TypeOK, JobInv, OrphanInv, [Next]_vars
  PROVE  OrphanInv'
  <1>2. CASE UNCHANGED vars
    BY <1>2 DEF vars, OrphanInv, Refers
  <1>3. CASE Next
    BY <1>3, OrphanApi, OrphanWork, OrphanWatch, OrphanProcess DEF Next, Step
  <1> QED
    BY <1>2, <1>3

------------------------------------------------------------------------------
(***************************************************************************)
(* SlotInv: in_use moves with the jobs that it must count.                 *)
(***************************************************************************)

\* A step that counts no more jobs, takes a slot, gives one back, gives away
\* one that is still taken, or resets in_use.
Keeps == UNCHANGED <<inUse, overbooked>> /\ Counted' \subseteq Counted
Takes == inUse < MaxConcurrency /\ inUse' = inUse + 1 /\ overbooked' = overbooked
            /\ \E j \in Jobs : Counted' \subseteq Counted \cup {j}
Gives == inUse' = inUse - 1 /\ overbooked' = overbooked
            /\ \E j \in Counted : Counted' \subseteq Counted \ {j}
Overbooks == inUse' = inUse - 1 /\ overbooked' = overbooked + 1 /\ Counted' \subseteq Counted
Resets == resetBy' # {} /\ overbooked' >= overbooked /\ Counted' = Counted
            /\ Cardinality(Counted) <= inUse' + overbooked'

\* Handlers do not touch slots.
LEMMA SlotApi == AdmitSteps \/ CancelSteps => Keeps
  BY DEF AdmitSteps, AdmissionNext, Receive, Reject, Enqueue, RecordKey, StorePayload,
         CancelSteps, CancelNext, CancelRead, CancelScript, CancelExpire, CancelMark,
         Keeps, Counted, HeldJobs, Holders

\* A worker takes a slot in Claim and gives it back in Release.
LEMMA SlotWork ==
  ASSUME NEW i \in Instances, TypeOK, JobInv, Works(i) \/ Winds(i) \/ Answers(i)
  PROVE  Keeps \/ Takes \/ Gives
  <1> USE ConstantsAssumption
      DEF TypeOK, SharedTypeOK, DispatcherTypeOK, Working, Holding, WGoto, WorkerEnds,
          Counted, HeldJobs, Holders
  <1>0. overbooked' = overbooked
    BY DEF Works, Winds, Answers
  <1>1. ASSUME NEW j \in Jobs, NEW r \in Reply, Bzpopmin(i, j, r) PROVE Keeps
    BY <1>0, <1>1 DEF Bzpopmin, Keeps
  <1>2. ASSUME NEW j \in Jobs, BzpopminStopping(i, j) PROVE Keeps
    BY <1>0, <1>2 DEF BzpopminStopping, Keeps
  <1>3. ASSUME NEW r \in Reply, Claim(i, r) PROVE Keeps \/ Takes
    <2>1. inUse < MaxConcurrency /\ (inUse' = inUse \/ inUse' = inUse + 1)
      BY <1>3 DEF Claim, ClaimRoom, ClaimSlot
    <2>2. wjob[i] \in Jobs
      BY <1>3 DEF Claim
    <2>3. CASE r = "ok"
      <3>1. Counted' \subseteq Counted \cup {wjob[i]} /\ inUse' = inUse + 1
        BY <1>3, <2>3 DEF Claim, ClaimSlot, Executed
      <3> QED
        BY <1>0, <2>1, <2>2, <3>1 DEF Takes
    <2>4. CASE r # "ok"
      <3>1. Counted' \subseteq Counted
        BY <1>3, <2>4 DEF Claim
      <3> QED
        BY <1>0, <2>1, <2>2, <3>1 DEF Keeps, Takes
    <2> QED
      BY <2>3, <2>4
  <1>4. CASE ClaimStop(i) \/ FetchMalformed(i)
    BY <1>0, <1>4 DEF ClaimStop, FetchMalformed, Keeps
  <1>5. ASSUME NEW r \in Reply, SetLease(i, r) PROVE Keeps
    BY <1>0, <1>5 DEF SetLease, Keeps
  <1>6. ASSUME NEW r \in Reply, Fetch(i, r) \/ Mark(i, r) \/ Cleanup(i, r) PROVE Keeps
    BY <1>0, <1>6 DEF Fetch, Mark, Cleanup, Keeps
  <1>7. ASSUME NEW out \in {"completed", "failed"}, BackendReturns(i, out) PROVE Keeps
    BY <1>0, <1>7 DEF BackendReturns, Keeps
  <1>8. ASSUME NEW r \in Reply, Release(i, r) PROVE Keeps \/ Gives
    <2>1. wjob[i] \in Counted
      BY <1>8 DEF Release
    <2>2. HeldJobs' \subseteq HeldJobs \ {wjob[i]}
      BY <1>8 DEF Release, LoopTop, JobInv, JobOwners
    <2>3. CASE Executed(r)
      BY <1>0, <1>8, <2>1, <2>2, <2>3 DEF Release, ReleaseSlot, Gives
    <2>4. CASE ~Executed(r)
      BY <1>0, <1>8, <2>2, <2>4 DEF Release, Keeps
    <2> QED
      BY <2>3, <2>4
  <1>9. CASE StopCancel(i)
    BY <1>0, <1>9 DEF StopCancel, Keeps
  <1> QED
    BY <1>1, <1>2, <1>3, <1>4, <1>5, <1>6, <1>7, <1>8, <1>9
    DEF Works, Winds, Answers, WorkerStep, WorkerStopping, BackendStep

\* A watcher gives back the slot of a job that is in flight and not held, or
\* overbooks.
LEMMA SlotWatch ==
  ASSUME TypeOK, TimePasses \/ \E i \in Instances : Watches(i)
  PROVE  Keeps \/ Gives \/ Overbooks
  <1> USE DEF Counted, HeldJobs, Holders
  <1>1. CASE TimePasses
    BY <1>1 DEF TimePasses, LeaseTime, BecomesOverdue, LeaseExpires, Keeps
  <1>2. ASSUME NEW i \in Instances, Watches(i) PROVE Keeps \/ Gives \/ Overbooks
    <2>1. CASE Scan(i) \/ \E j \in Jobs, r \in Reply : Check(i, j, r)
      BY <2>1 DEF Scan, Check, Keeps
    <2>2. ASSUME NEW r \in Reply, Reclaim(i, r) PROVE Keeps \/ Gives \/ Overbooks
      <3>1. HeldJobs' = HeldJobs
        BY <2>2 DEF Reclaim
      <3>2. CASE Executed(r) /\ orphan[i] \in inflight \ HeldJobs
        BY <2>2, <3>1, <3>2 DEF Reclaim, Gives
      <3>3. CASE Executed(r) /\ orphan[i] \notin inflight \ HeldJobs
        BY <2>2, <3>1, <3>3 DEF Reclaim, Overbooks
      <3>4. CASE ~Executed(r)
        BY <2>2, <3>1, <3>4 DEF Reclaim, Keeps
      <3> QED
        BY <3>2, <3>3, <3>4
    <2> QED
      BY <1>2, <2>1, <2>2 DEF Watches, WatcherStep
  <1> QED
    BY <1>1, <1>2

\* Slots are not touched by crashes, stops and restarts.
LEMMA SlotProcess ==
  ASSUME NEW i \in Instances, TypeOK, Crash(i) \/ Stop(i) \/ Restart(i)
  PROVE  Keeps
  <1> USE ConstantsAssumption DEF Keeps, Counted, HeldJobs, Holders
  <1>2. CASE Crash(i)
    BY <1>2 DEF TypeOK, DispatcherTypeOK, Crash, WorkerDies, WorkerEnds, WGoto, Holding,
                WatcherDies
  <1>3. CASE Stop(i)
    BY <1>3 DEF Stop, WatcherDies
  <1>4. CASE Restart(i)
    BY <1>4 DEF TypeOK, DispatcherTypeOK, Restart, WorkerStarts, WGoto, Holding
  <1> QED
    BY <1>2, <1>3, <1>4

\* A step of a checker that does not reset leaves the slots alone.
LEMMA CheckKeeps ==
  ASSUME NEW i \in Instances, Checks(i), resetBy' = {} \/ inUse' = inUse
  PROVE  /\ UNCHANGED <<inUse, inflight, overdue, dlq, workerVars, candidates, orphan, overran,
                        overbooked>>
         /\ resetBy' = {} => resetBy = {}
  <1>1. UNCHANGED <<inflight, overdue, dlq, workerVars, candidates, orphan, overran>>
    BY DEF Checks, CheckerStep, ReadActual, ReadRecorded, Correct, Accept
  <1>2. inUse' = inUse /\ (resetBy' = {} => resetBy = {})
    BY DEF Checks, CheckerStep, ReadActual, ReadRecorded, Correct, Accept
  <1> QED
    BY <1>1, <1>2 DEF Checks

\* A checker that resets counts as overbooked what it forgets.
LEMMA SlotCheck ==
  ASSUME NEW i \in Instances, TypeOK, SlotInv, Checks(i)
  PROVE  Keeps \/ Resets
  <1>1. CASE inUse' = inUse
    BY <1>1, CheckKeeps DEF Keeps, Counted, HeldJobs, Holders
  <1>2. CASE inUse' # inUse
    <2>1. resetBy' # {}
      BY <1>2, CheckKeeps
    <2>2. Counted' = Counted
      <3>1. UNCHANGED <<inflight, workerVars>>
        BY DEF Checks, CheckerStep, ReadActual, ReadRecorded, Correct, Accept
      <3> QED
        BY <3>1 DEF Counted, HeldJobs, Holders
    <2>3. Cardinality(Counted) \in Nat /\ overbooked \in Nat
      BY CountedCount DEF TypeOK, LeaseWatcherTypeOK
    <2>4. inUse' \in Int
      BY TypeCheck DEF TypeOK, SharedTypeOK
    <2>5. overbooked' = IF Cardinality(Counted) - inUse' > overbooked
                        THEN Cardinality(Counted) - inUse' ELSE overbooked
      BY <1>2 DEF Checks
    <2> QED
      BY <2>1, <2>2, <2>3, <2>4, <2>5 DEF Resets
  <1> QED
    BY <1>1, <1>2

\* What checkers have read stays within the capacity until one of them resets.
LEMMA RecordedBound ==
  ASSUME TypeOK, SlotInv, Next, resetBy' = {}
  PROVE  resetBy = {} /\ \A k \in Instances : recorded'[k] <= MaxConcurrency
  <1> USE ConstantsAssumption DEF TypeOK, IntegrityTypeOK, SlotInv, SlotsAccounted, CheckerIdles
  <1>1. ASSUME NEW i \in Instances, Checks(i)
        PROVE  resetBy = {} /\ \A k \in Instances : recorded'[k] <= MaxConcurrency
    <2>1. resetBy = {}
      BY <1>1, CheckKeeps
    <2> QED
      BY <1>1, <2>1 DEF Checks, CheckerStep, ReadActual, ReadRecorded, Correct, Accept
  <1>2. ASSUME NEW i \in Instances, Crash(i) \/ Stop(i)
        PROVE  resetBy = {} /\ \A k \in Instances : recorded'[k] <= MaxConcurrency
    BY <1>2 DEF Crash, Stop
  <1>3. CASE UNCHANGED checkerVars
    BY <1>3
  <1> QED
    BY <1>1, <1>2, <1>3
    DEF Next, Step, AdmitSteps, CancelSteps, TimePasses, Works, Winds, Answers, Watches, Restart

\* The counted jobs are finitely many.
LEMMA CountedFinite == TypeOK => IsFiniteSet(Counted) /\ Cardinality(Counted) \in Nat
  <1> SUFFICES ASSUME TypeOK PROVE IsFiniteSet(Counted) /\ Cardinality(Counted) \in Nat
    OBVIOUS
  <1>1. Counted \subseteq Jobs
    BY DEF TypeOK, SharedTypeOK, DispatcherTypeOK, Counted, HeldJobs, Holders, Working
  <1> QED
    BY <1>1, ConstantsAssumption, FS_Subset, FS_CardinalityType

\* SlotInv is preserved.
LEMMA SlotNext ==
  ASSUME TypeOK, JobInv, SlotInv, [Next]_vars
  PROVE  SlotInv'
  <1>1. CASE UNCHANGED vars
    BY <1>1 DEF vars, SlotInv, SlotsAccounted, Counted, HeldJobs, Holders
  <1>2. CASE Next
    <2>1. Keeps \/ Takes \/ Gives \/ Overbooks \/ Resets
      BY <1>2, SlotApi, SlotWork, SlotWatch, SlotCheck, SlotProcess DEF Next, Step
    <2>2. IsFiniteSet(Counted) /\ Cardinality(Counted) \in Nat
      BY CountedFinite
    <2>3. /\ Cardinality(Counted) <= inUse + overbooked
          /\ Cardinality(Counted) <= MaxConcurrency + overbooked
          /\ resetBy' = {} => inUse <= MaxConcurrency
          /\ inUse \in Int /\ overbooked \in Nat /\ MaxConcurrency \in Nat
      BY <1>2, RecordedBound, ConstantsAssumption
      DEF SlotInv, SlotsAccounted, TypeOK, SharedTypeOK, LeaseWatcherTypeOK
    <2>4. inUse' \in Int /\ overbooked' \in Nat
      BY TypeNext DEF TypeOK, SharedTypeOK, LeaseWatcherTypeOK
    <2>5. resetBy' = {} => \A k \in Instances : recorded'[k] <= MaxConcurrency
      BY <1>2, RecordedBound
    <2>6. SUFFICES /\ Cardinality(Counted') <= inUse' + overbooked'
                   /\ Cardinality(Counted') <= MaxConcurrency + overbooked'
                   /\ resetBy' = {} => inUse' <= MaxConcurrency
      BY <2>5 DEF SlotInv, SlotsAccounted
    <2>7. CASE Keeps
      <3>1. Cardinality(Counted') <= Cardinality(Counted) /\ Cardinality(Counted') \in Nat
        BY <2>2, <2>7, FS_Subset, FS_CardinalityType DEF Keeps
      <3> QED
        BY <2>2, <2>3, <2>7, <3>1 DEF Keeps
    <2>8. CASE Takes
      <3>1. PICK j \in Jobs : Counted' \subseteq Counted \cup {j}
        BY <2>8 DEF Takes
      <3>2. /\ IsFiniteSet(Counted \cup {j})
            /\ \/ Cardinality(Counted \cup {j}) = Cardinality(Counted)
               \/ Cardinality(Counted \cup {j}) = Cardinality(Counted) + 1
        BY <2>2, FS_AddElement
      <3>3. /\ Cardinality(Counted') <= Cardinality(Counted \cup {j})
            /\ Cardinality(Counted') \in Nat
        BY <3>1, <3>2, FS_Subset, FS_CardinalityType
      <3> QED
        BY <2>2, <2>3, <2>8, <3>2, <3>3 DEF Takes
    <2>9. CASE Gives
      <3>1. PICK j \in Counted : Counted' \subseteq Counted \ {j}
        BY <2>9 DEF Gives
      <3>2. IsFiniteSet(Counted \ {j}) /\ Cardinality(Counted \ {j}) = Cardinality(Counted) - 1
        BY <2>2, FS_RemoveElement
      <3>3. /\ Cardinality(Counted') <= Cardinality(Counted \ {j})
            /\ Cardinality(Counted') \in Nat
        BY <3>1, <3>2, FS_Subset, FS_CardinalityType
      <3> QED
        BY <2>2, <2>3, <2>9, <3>2, <3>3 DEF Gives
    <2>10. CASE Overbooks
      <3>1. Cardinality(Counted') <= Cardinality(Counted) /\ Cardinality(Counted') \in Nat
        BY <2>2, <2>10, FS_Subset, FS_CardinalityType DEF Overbooks
      <3> QED
        BY <2>2, <2>3, <2>10, <3>1 DEF Overbooks
    <2>11. CASE Resets
      BY <2>2, <2>3, <2>4, <2>11 DEF Resets
    <2> QED
      BY <2>1, <2>7, <2>8, <2>9, <2>10, <2>11
  <1> QED
    BY <1>1, <1>2

------------------------------------------------------------------------------
(***************************************************************************)
(* ReclaimInv: what watchers overbook.                                     *)
(***************************************************************************)

\* The sets that ReclaimInv counts are finite.
LEMMA ReclaimFinite ==
  ASSUME TypeOK
  PROVE  /\ IsFiniteSet(Instances) /\ Cardinality(Instances) \in Nat
         /\ IsFiniteSet(dlq) /\ Cardinality(dlq) \in Nat
         /\ IsFiniteSet(dlq \ overran) /\ Cardinality(dlq \ overran) \in Nat
         /\ IsFiniteSet(Again) /\ Cardinality(Again) \in Nat
  <1>1. IsFiniteSet(Instances) /\ IsFiniteSet(dlq)
    BY ConstantsAssumption, FS_Subset DEF TypeOK, SharedTypeOK
  <1>2. IsFiniteSet(dlq \ overran)
    BY <1>1, FS_Subset
  <1>3. IsFiniteSet(Instances \X dlq)
    BY <1>1, FS_Product
  <1>4. IsFiniteSet(Again)
    <2>1. Again \subseteq Instances \X dlq
      BY DEF Again
    <2> QED
      BY <1>3, <2>1, FS_Subset
  <1> QED
    BY <1>1, <1>2, <1>4, FS_CardinalityType

\* A step that reclaims nothing makes no watcher refer to a reclaimed job.
Calmer == /\ UNCHANGED <<overbooked, dlq>>
          /\ Again' \subseteq Again
          /\ overran \subseteq overran'
          /\ resetBy' = {} => resetBy = {}

\* Such a step preserves ReclaimInv.
LEMMA CalmerKeeps ==
  ASSUME TypeOK, ReclaimInv, Calmer, overbooked \in Nat
  PROVE  ReclaimInv'
  <1> SUFFICES ASSUME resetBy' = {}
               PROVE  overbooked' + Cardinality(Again') + Cardinality(dlq' \ overran')
                        <= Cardinality(Instances) * Cardinality(dlq')
    BY DEF ReclaimInv
  <1>1. Cardinality(Again') <= Cardinality(Again) /\ Cardinality(Again') \in Nat
    BY ReclaimFinite, FS_Subset, FS_CardinalityType DEF Calmer
  <1>2. dlq' \ overran' \subseteq dlq \ overran
    BY DEF Calmer
  <1>3. /\ Cardinality(dlq' \ overran') <= Cardinality(dlq \ overran)
        /\ Cardinality(dlq' \ overran') \in Nat
    BY <1>2, ReclaimFinite, FS_Subset, FS_CardinalityType
  <1>4. overbooked + Cardinality(Again) + Cardinality(dlq \ overran)
            <= Cardinality(Instances) * Cardinality(dlq)
    BY DEF Calmer, ReclaimInv
  <1>5. PICK m \in Nat : m = Cardinality(Instances) * Cardinality(dlq)
    BY ReclaimFinite
  <1>6. /\ overbooked' = overbooked
        /\ m = Cardinality(Instances) * Cardinality(dlq')
    BY <1>5 DEF Calmer
  <1> QED
    BY <1>1, <1>3, <1>4, <1>5, <1>6, ReclaimFinite

\* A watcher that reclaims a job again is one watcher less that refers to it.
LEMMA ReclaimAgain ==
  ASSUME NEW i \in Instances, NEW r \in Reply, TypeOK, OrphanInv, ReclaimInv,
         Reclaim(i, r), Executed(r), orphan[i] \in dlq, UNCHANGED checkerVars
  PROVE  ReclaimInv'
  <1> SUFFICES ASSUME resetBy = {}
               PROVE  overbooked' + Cardinality(Again') + Cardinality(dlq' \ overran')
                        <= Cardinality(Instances) * Cardinality(dlq')
    BY DEF ReclaimInv
  <1>1. orphan[i] # NoJob /\ orphan[i] \notin candidates[i] /\ orphan[i] \notin inflight
    BY DEF OrphanInv, Reclaim
  <1>2. dlq' = dlq /\ overran' = overran /\ overbooked' = overbooked + 1
    BY <1>1 DEF Reclaim
  <1>3. <<i, orphan[i]>> \in Again
    BY DEF Again, Refers
  <1>4. Again' \subseteq Again \ {<<i, orphan[i]>>}
    <2>1. candidates' = candidates /\ orphan' = [orphan EXCEPT ![i] = NoJob]
      BY DEF Reclaim
    <2> QED
      BY <1>1, <1>2, <2>1, ConstantsAssumption
      DEF Again, Refers, TypeOK, SharedTypeOK, LeaseWatcherTypeOK
  <1>5. /\ IsFiniteSet(Again \ {<<i, orphan[i]>>})
        /\ Cardinality(Again \ {<<i, orphan[i]>>}) = Cardinality(Again) - 1
    BY <1>3, ReclaimFinite, FS_RemoveElement
  <1>6. Cardinality(Again') <= Cardinality(Again) - 1 /\ Cardinality(Again') \in Nat
    BY <1>4, <1>5, FS_Subset, FS_CardinalityType
  <1>7. overbooked + Cardinality(Again) + Cardinality(dlq \ overran)
            <= Cardinality(Instances) * Cardinality(dlq)
    BY DEF ReclaimInv
  <1>8. PICK m \in Nat : m = Cardinality(Instances) * Cardinality(dlq)
    BY ReclaimFinite
  <1>9. overbooked \in Nat
    BY DEF TypeOK, LeaseWatcherTypeOK
  <1> QED
    BY <1>2, <1>6, <1>7, <1>8, <1>9, ReclaimFinite

\* The first reclaim of a job overbooks only if the job outlasted its lease, and
\* leaves it to at most all the other watchers.
LEMMA ReclaimFirst ==
  ASSUME NEW i \in Instances, NEW r \in Reply, TypeOK, OrphanInv, ReclaimInv,
         Reclaim(i, r), Executed(r), orphan[i] \notin dlq, UNCHANGED checkerVars
  PROVE  ReclaimInv'
  <1> SUFFICES ASSUME resetBy = {}
               PROVE  overbooked' + Cardinality(Again') + Cardinality(dlq' \ overran')
                        <= Cardinality(Instances) * Cardinality(dlq')
    BY DEF ReclaimInv
  <1>1. PICK j \in Jobs : j = orphan[i] /\ j # NoJob /\ j \notin candidates[i] /\ j \notin dlq
    BY DEF OrphanInv, Reclaim, TypeOK, LeaseWatcherTypeOK
  <1>2. dlq' = dlq \cup {j} /\ overran' = overran
    BY <1>1 DEF Reclaim
  <1>3. \/ overbooked' = overbooked + 1 /\ j \in overran
        \/ overbooked' = overbooked
    <2>1. CASE j \in overran
      BY <1>1, <2>1 DEF Reclaim
    <2>2. CASE j \notin overran
      <3>1. j \in overdue
        BY <1>1, <2>2 DEF OrphanInv, Refers
      <3>2. j \in inflight
        BY <3>1 DEF OrphanInv
      <3>3. j \notin HeldJobs
        BY <2>2, <3>1 DEF OrphanInv, HeldJobs, Holders
      <3> QED
        BY <1>1, <3>2, <3>3 DEF Reclaim
    <2> QED
      BY <2>1, <2>2
  <1> DEFINE others == (Instances \ {i}) \X {j}
  <1>4. Again' \subseteq Again \cup others
    <2>1. candidates' = candidates /\ orphan' = [orphan EXCEPT ![i] = NoJob]
      BY DEF Reclaim
    <2> QED
      BY <1>1, <1>2, <2>1, ConstantsAssumption
      DEF Again, Refers, TypeOK, SharedTypeOK, LeaseWatcherTypeOK
  <1>5. IsFiniteSet(others) /\ Cardinality(others) = Cardinality(Instances) - 1
    <2>1. /\ IsFiniteSet(Instances \ {i})
          /\ Cardinality(Instances \ {i}) = Cardinality(Instances) - 1
          /\ Cardinality(Instances \ {i}) \in Nat
      BY ReclaimFinite, FS_RemoveElement, FS_CardinalityType
    <2>2. IsFiniteSet({j}) /\ Cardinality({j}) = 1
      BY FS_Singleton
    <2>3. /\ IsFiniteSet(others)
          /\ Cardinality(others) = Cardinality(Instances \ {i}) * Cardinality({j})
      BY <2>1, <2>2, FS_Product
    <2> QED
      BY <2>1, <2>2, <2>3
  <1> HIDE DEF others
  <1>6. /\ Cardinality(Again') <= Cardinality(Again) + Cardinality(Instances) - 1
        /\ Cardinality(Again') \in Nat
    <2>1. IsFiniteSet(Again) /\ IsFiniteSet(others)
      BY <1>5, ReclaimFinite
    <2>2. /\ IsFiniteSet(Again \cup others)
          /\ Cardinality(Again \cup others)
                = Cardinality(Again) + Cardinality(others) - Cardinality(Again \cap others)
      BY <2>1, FS_Union
    <2>3. Cardinality(Again \cap others) \in Nat
      BY <2>1, FS_Intersection, FS_CardinalityType
    <2>4. Cardinality(Again') <= Cardinality(Again \cup others) /\ Cardinality(Again') \in Nat
      BY <1>4, <2>2, FS_Subset, FS_CardinalityType
    <2>5. Cardinality(Again \cup others) \in Nat
      BY <2>2, FS_CardinalityType
    <2> QED
      BY <1>5, <2>2, <2>3, <2>4, <2>5, ReclaimFinite
  <1>7. \/ /\ Cardinality(dlq' \ overran') = Cardinality(dlq \ overran) + 1
           /\ overbooked' = overbooked
        \/ /\ Cardinality(dlq' \ overran') = Cardinality(dlq \ overran)
           /\ overbooked' = overbooked \/ overbooked' = overbooked + 1
    <2>1. CASE j \in overran
      <3>1. dlq' \ overran' = dlq \ overran
        BY <1>2, <2>1
      <3> QED
        BY <1>3, <3>1
    <2>2. CASE j \notin overran
      <3>1. dlq' \ overran' = (dlq \ overran) \cup {j} /\ j \notin dlq \ overran
        BY <1>1, <1>2, <2>2
      <3>2. Cardinality((dlq \ overran) \cup {j}) = Cardinality(dlq \ overran) + 1
        BY <3>1, ReclaimFinite, FS_AddElement
      <3> QED
        BY <1>3, <2>2, <3>1, <3>2
    <2> QED
      BY <2>1, <2>2
  <1>8. Cardinality(dlq') = Cardinality(dlq) + 1
    BY <1>1, <1>2, ReclaimFinite, FS_AddElement
  <1>9. overbooked + Cardinality(Again) + Cardinality(dlq \ overran)
            <= Cardinality(Instances) * Cardinality(dlq)
    BY DEF ReclaimInv
  <1>10. overbooked \in Nat
    BY DEF TypeOK, LeaseWatcherTypeOK
  <1>11. PICK m \in Nat : m = Cardinality(Instances) * Cardinality(dlq)
    BY ReclaimFinite
  <1>12. Cardinality(Instances) * Cardinality(dlq') = m + Cardinality(Instances)
    BY <1>8, <1>11, ReclaimFinite
  <1> QED
    BY <1>6, <1>7, <1>9, <1>10, <1>11, <1>12, ReclaimFinite

\* Every other step reclaims nothing; a scan finds no job that was reclaimed.
LEMMA OthersCalmer ==
  ASSUME TypeOK, OrphanInv, Next,
         ~ \E i \in Instances, r \in Reply : Reclaim(i, r) /\ Executed(r),
         resetBy' = {}
  PROVE  Calmer
  <1> USE ConstantsAssumption
      DEF TypeOK, SharedTypeOK, LeaseWatcherTypeOK, Calmer, Again, Refers, Scanning
  <1>1. CASE AdmitSteps \/ CancelSteps
    BY <1>1, SMTT(60) DEF AdmitSteps, AdmissionNext, Receive, Reject, Enqueue, RecordKey, StorePayload,
                CancelSteps, CancelNext, CancelRead, CancelScript, CancelExpire, CancelMark
  <1>2. CASE TimePasses
    BY <1>2 DEF TimePasses, LeaseTime, BecomesOverdue, LeaseExpires
  <1>3. ASSUME NEW i \in Instances, Works(i) \/ Winds(i) \/ Answers(i) PROVE Calmer
    <2>1. UNCHANGED <<dlq, watcherVars, checkerVars>>
      BY <1>3 DEF Works, WorkerStep, Winds, WorkerStopping, Answers, BackendStep, Bzpopmin,
                  BzpopminStopping, Claim, ClaimStop, StopCancel, SetLease, Fetch, FetchMalformed,
                  BackendReturns, Mark, Cleanup, Release
    <2> QED
      BY <2>1
  <1>4. ASSUME NEW i \in Instances, Watches(i) PROVE Calmer
    <2>1. UNCHANGED checkerVars
      BY <1>4 DEF Watches
    <2>2. CASE Scan(i)
      BY <2>1, <2>2 DEF Scan, OrphanInv
    <2>3. ASSUME NEW j \in Jobs, NEW r \in Reply, Check(i, j, r) PROVE Calmer
      BY <2>1, <2>3 DEF Check
    <2>4. ASSUME NEW r \in Reply, Reclaim(i, r) PROVE Calmer
      BY <2>1, <2>4, ZenonT(40) DEF Reclaim
    <2> QED
      BY <1>4, <2>2, <2>3, <2>4 DEF Watches, WatcherStep
  <1>5. ASSUME NEW i \in Instances, Checks(i) PROVE Calmer
    BY <1>5, CheckKeeps
  <1>6. ASSUME NEW i \in Instances, Crash(i) \/ Stop(i) \/ Restart(i) PROVE Calmer
    BY <1>6 DEF Crash, Stop, Restart, WatcherDies
  <1> QED
    BY <1>1, <1>2, <1>3, <1>4, <1>5, <1>6 DEF Next, Step

\* ReclaimInv is preserved.
LEMMA ReclaimNext ==
  ASSUME TypeOK, OrphanInv, ReclaimInv, [Next]_vars
  PROVE  ReclaimInv'
  <1>1. CASE UNCHANGED vars
    BY <1>1 DEF vars, ReclaimInv, Again, Refers
  <1>2. ASSUME Next, NEW i \in Instances, NEW r \in Reply, Reclaim(i, r), Executed(r)
        PROVE  ReclaimInv'
    <2>1. UNCHANGED checkerVars
      <3>1. orphan' # orphan /\ inUse' # inUse
        BY <1>2 DEF Reclaim, TypeOK, SharedTypeOK, LeaseWatcherTypeOK
      <3>2. ASSUME NEW k \in Instances, Crash(k) \/ Stop(k) \/ Checks(k) PROVE FALSE
        BY <3>1, <3>2 DEF Crash, Stop, Checks
      <3> QED
        BY <1>2, <3>2 DEF Next, Step, AdmitSteps, CancelSteps, TimePasses, Works, Winds, Answers,
                          Watches, Restart
    <2> QED
      BY <1>2, <2>1, ReclaimAgain, ReclaimFirst
  <1>3. ASSUME Next, ~ \E i \in Instances, r \in Reply : Reclaim(i, r) /\ Executed(r)
        PROVE  ReclaimInv'
    <2>1. CASE resetBy' = {}
      BY <1>3, <2>1, OthersCalmer, CalmerKeeps DEF TypeOK, LeaseWatcherTypeOK
    <2>2. CASE resetBy' # {}
      BY <2>2 DEF ReclaimInv
    <2> QED
      BY <2>1, <2>2
  <1> QED
    BY <1>1, <1>2, <1>3

------------------------------------------------------------------------------
(***************************************************************************)
(* What holds under every fault.                                           *)
(***************************************************************************)

\* Initially no slot is taken.
LEMMA SlotInit == Init => SlotInv /\ ReclaimInv
  <1> SUFFICES ASSUME Init PROVE SlotInv /\ ReclaimInv
    OBVIOUS
  <1>1. Counted = {} /\ inUse = 0 /\ overbooked = 0 /\ dlq = {}
    BY DEF Init, SharedInit, DispatcherInit, LeaseWatcherInit, Counted, HeldJobs, Holders, Holding
  <1>2. \A i \in Instances : recorded[i] = 0
    BY DEF Init, IntegrityInit
  <1>3. SlotInv
    BY <1>1, <1>2, FS_EmptySet, ConstantsAssumption DEF SlotInv, SlotsAccounted
  <1>4. Again = {} /\ dlq \ overran = {}
    BY <1>1 DEF Again
  <1>5. Cardinality(Instances) \in Nat
    BY ConstantsAssumption, FS_CardinalityType
  <1>6. ReclaimInv
    BY <1>1, <1>4, <1>5, FS_EmptySet DEF ReclaimInv
  <1> QED
    BY <1>3, <1>6

\* The invariants that hold under every fault; together they are inductive.
AllInv == TypeOK /\ JobInv /\ OrphanInv /\ SlotInv /\ ReclaimInv

\* They are preserved together.
LEMMA AllInvNext == AllInv /\ [Next]_vars => AllInv'
  BY TypeNext, JobNext, OrphanNext, SlotNext, ReclaimNext DEF AllInv

\* Everything the slot properties rest on holds in every reachable state.
THEOREM AllHolds == Spec => []AllInv
  <1>1. Init => AllInv
    BY TypeInit, JobInit, OrphanInit, SlotInit DEF AllInv
  <1> QED
    BY <1>1, AllInvNext, PTL DEF Spec

\* slots:{model}:in_use counts every job that a worker holds a slot for or that
\* inflight:{model} lists, but for the slots that a reclaim or a reset gave away:
\* the claim and release pipelines may leak slots, and never give one twice.
\* Until a checker resets in_use it stays within the capacity.
THEOREM SlotsNeverGivenTwice == Spec => []SlotsAccounted
  <1>1. AllInv => SlotsAccounted
    BY DEF AllInv, SlotInv
  <1> QED
    BY <1>1, AllHolds, PTL

\* LeaseWatcher._reclaim_if_orphaned gives away, in a whole behaviour, at most one
\* slot for every reclaimed job that had outlasted its lease and, for every
\* reclaimed job, one for each process beside the first: no process reclaims the
\* same job twice.
THEOREM OverbookingIsBounded == Spec => []OverbookingBounded
  <1>1. AllInv => OverbookingBounded
    <2> SUFFICES ASSUME AllInv, resetBy = {}
                 PROVE  overbooked <= Cardinality(overran \cap dlq)
                                        + (Cardinality(Instances) - 1) * Cardinality(dlq)
      BY DEF OverbookingBounded
    <2>1. TypeOK /\ overbooked \in Nat
      BY DEF AllInv, TypeOK, LeaseWatcherTypeOK
    <2>2. overbooked + Cardinality(Again) + Cardinality(dlq \ overran)
            <= Cardinality(Instances) * Cardinality(dlq)
      BY DEF AllInv, ReclaimInv
    <2>3. Cardinality(dlq \ overran) = Cardinality(dlq) - Cardinality(dlq \cap overran)
      BY <2>1, ReclaimFinite, FS_Difference
    <2>4. dlq \cap overran = overran \cap dlq
      OBVIOUS
    <2>5. Cardinality(overran \cap dlq) \in Nat
      BY <2>1, ReclaimFinite, FS_Intersection, FS_CardinalityType
    <2>6. PICK m \in Nat : m = Cardinality(Instances) * Cardinality(dlq)
      BY <2>1, ReclaimFinite
    <2>7. (Cardinality(Instances) - 1) * Cardinality(dlq) = m - Cardinality(dlq)
      BY <2>1, <2>6, ReclaimFinite
    <2>8. Cardinality(Again) \in Nat /\ Cardinality(dlq) \in Nat
      BY <2>1, ReclaimFinite
    <2>9. m \in Nat /\ overbooked + Cardinality(Again) + Cardinality(dlq \ overran) <= m
      BY <2>2, <2>6
    <2>10. Cardinality(dlq \ overran) = Cardinality(dlq) - Cardinality(overran \cap dlq)
      BY <2>3, <2>4
    <2>11. overbooked <= Cardinality(overran \cap dlq) + (m - Cardinality(dlq))
      BY <2>1, <2>5, <2>8, <2>9, <2>10
    <2> QED
      BY <2>7, <2>11
  <1> QED
    BY <1>1, AllHolds, PTL

\* IntegrityChecker._check_model never finds a drift when the capacity is within
\* its tolerance, however many slots have leaked: the leaks are never repaired.
THEOREM CheckerNeverActs ==
  ASSUME MaxConcurrency <= Tolerance PROVE Spec => []CheckerDormant
  <1>1. AllInv /\ resetBy = {} => CheckerDormant
    BY ConstantsAssumption, IntegrityAssumption
    DEF AllInv, SlotInv, TypeOK, IntegrityTypeOK, CheckerDormant, Drifted
  <1>2. AllInv /\ resetBy = {} /\ [Next]_vars => (resetBy = {})'
    <2> SUFFICES ASSUME AllInv, resetBy = {}, [Next]_vars PROVE resetBy' = {}
      OBVIOUS
    <2>1. ASSUME NEW i \in Instances, Checks(i) PROVE resetBy' = {}
      <3>1. seen[i] = {"actual", "recorded"} => ~Drifted(i)
        BY <1>1 DEF CheckerDormant
      <3> QED
        BY <2>1, <3>1 DEF Checks, CheckerStep, ReadActual, ReadRecorded, Correct, Accept
    <2>2. CASE UNCHANGED resetBy
      BY <2>2
    <2> QED
      BY <2>1, <2>2
      DEF Next, Step, vars, AdmitSteps, CancelSteps, TimePasses, Works, Winds, Answers, Watches,
          Crash, Stop, Restart
  <1>3. Init => resetBy = {}
    BY DEF Init, IntegrityInit
  <1> QED
    BY <1>1, <1>2, <1>3, AllHolds, PTL DEF Spec

\* Workers that are at the backend have different jobs, all of them counted.
LEMMA ForwardingCounted ==
  ASSUME AllInv
  PROVE  /\ IsFiniteSet(Forwarding)
         /\ Cardinality(Forwarding) <= Cardinality(Counted)
  <1> DEFINE f == [i \in Forwarding |-> wjob[i]]
  <1>1. f \in [Forwarding -> Counted]
    BY DEF Counted, HeldJobs, Holders, Holding, Forwarding
  <1>2. \A i, k \in Forwarding : f[i] = f[k] => i = k
    BY DEF AllInv, TypeOK, DispatcherTypeOK, JobInv, JobOwners, Forwarding, Working, Holding
  <1>3. f \in Injection(Forwarding, Counted)
    BY <1>1, <1>2 DEF Injection, IsInjective
  <1> HIDE DEF f
  <1>4. IsFiniteSet(Counted)
    BY CountedFinite DEF AllInv
  <1> QED
    BY <1>3, <1>4, FS_Injection

\* The backend never works on more requests of the model than max_concurrency and
\* what is overbooked, for any number of scheduler processes.
THEOREM BackendNeverOverloaded == Spec => []ConcurrencyBound
  <1>1. AllInv => ConcurrencyBound
    <2> SUFFICES ASSUME AllInv PROVE ConcurrencyBound
      OBVIOUS
    <2>1. Cardinality(Forwarding) <= Cardinality(Counted) /\ Cardinality(Forwarding) \in Nat
      BY ForwardingCounted, FS_CardinalityType
    <2>2. Cardinality(Counted) \in Nat
      BY CountedFinite DEF AllInv
    <2>3. Cardinality(Counted) <= MaxConcurrency + overbooked /\ overbooked \in Nat
      BY DEF AllInv, SlotInv, TypeOK, LeaseWatcherTypeOK
    <2> QED
      BY <2>1, <2>2, <2>3, ConstantsAssumption DEF ConcurrencyBound
  <1> QED
    BY <1>1, AllHolds, PTL

------------------------------------------------------------------------------
(***************************************************************************)
(* Refinement: the scheduler implements SlotPool.                          *)
(***************************************************************************)

Running == {wjob[i] : i \in Forwarding}
Started == {j \in Jobs : forwarded[j] > 0}

\* A step that the backend does not see, and one that overbooks slots.
Unseen == Running' = Running /\ Started' = Started /\ overbooked' = overbooked
Widens == Running' = Running /\ Started' = Started
            /\ (overbooked' = overbooked \/ Pool!Overbook)

\* The backend sees nothing of handlers, watchers and checkers but what they
\* overbook.
LEMMA PoolApi ==
  ASSUME AllInv,
         AdmitSteps \/ CancelSteps \/ TimePasses \/ \E i \in Instances : Watches(i) \/ Checks(i)
  PROVE  Widens
  <1>1. UNCHANGED workerVars
    BY DEF AdmitSteps, CancelSteps, TimePasses, LeaseTime, BecomesOverdue, LeaseExpires,
           Watches, WatcherStep, Scan, Check, Reclaim, Checks
  <1>2. Running' = Running /\ Started' = Started
    BY <1>1 DEF Running, Started, Forwarding
  <1>3. overbooked \in Nat /\ overbooked' \in Nat
    BY AllInvNext, TypeAdmit, TypeCancel, TypeWatch, TypeCheck
    DEF AllInv, TypeOK, LeaseWatcherTypeOK
  <1>4. overbooked' = overbooked \/ overbooked' > overbooked
    <2>1. CASE AdmitSteps \/ CancelSteps \/ TimePasses
      BY <2>1 DEF AdmitSteps, CancelSteps, TimePasses, LeaseTime, BecomesOverdue, LeaseExpires
    <2>2. ASSUME NEW i \in Instances, Watches(i)
          PROVE  overbooked' = overbooked \/ overbooked' > overbooked
      BY <1>3, <2>2 DEF Watches, WatcherStep, Scan, Check, Reclaim
    <2>3. ASSUME NEW i \in Instances, Checks(i)
          PROVE  overbooked' = overbooked \/ overbooked' > overbooked
      BY <1>3, <2>3 DEF Checks
    <2> QED
      BY <2>1, <2>2, <2>3
  <1> QED
    BY <1>2, <1>3, <1>4 DEF Widens, Pool!Overbook, Running, Started

\* A worker that leaves the backend call.
LEMMA PoolFinish ==
  ASSUME AllInv, NEW i \in Instances, UNCHANGED <<forwarded, overbooked>>,
         NEW pc, pc # "forward", wpc' = [wpc EXCEPT ![i] = pc],
         \A k \in Instances \ {i} : wjob'[k] = wjob[k]
  PROVE  Unseen \/ Pool!Next
  <1> USE DEF AllInv, TypeOK, DispatcherTypeOK, JobInv, JobOwners, Working, Holding, Forwarding
  <1>1. Started' = Started
    BY DEF Started
  <1>2. CASE wpc[i] = "forward"
    <2>1. Running' = Running \ {wjob[i]}
      BY <1>2 DEF Running
    <2>2. wjob[i] \in Running /\ wjob[i] \in Jobs
      BY <1>2 DEF Running
    <2> QED
      BY <1>1, <2>1, <2>2 DEF Pool!Next, Pool!Finish, Running, Started
  <1>3. CASE wpc[i] # "forward"
    BY <1>1, <1>3 DEF Running, Unseen
  <1> QED
    BY <1>2, <1>3

\* A worker that sends its job to the backend has a slot that nobody else at
\* the backend has.
LEMMA PoolStart ==
  ASSUME AllInv, NEW i \in Instances, Fetch(i, "ok"), overbooked' = overbooked
  PROVE  Pool!Next
  <1> USE DEF AllInv, TypeOK, DispatcherTypeOK, JobInv, JobOwners, Working, Holding, Forwarding
  <1>1. wpc[i] = "fetch" /\ wjob[i] \in Jobs /\ wjob[i] \in Counted
    BY DEF Fetch, Counted, HeldJobs, Holders
  <1>2. wjob[i] \notin Started
    BY <1>1 DEF Started
  <1>3. Started' = Started \cup {wjob[i]}
    BY <1>1 DEF Started, Fetch
  <1>4. Running' = Running \cup {wjob[i]}
    BY <1>1 DEF Running, Fetch, WGoto
  <1>5. Cardinality(Running) < MaxConcurrency + overbooked
    <2>1. Running \subseteq Counted \ {wjob[i]}
      BY <1>1 DEF Running, Counted, HeldJobs, Holders
    <2>2. IsFiniteSet(Counted) /\ Cardinality(Counted) \in Nat
      BY CountedFinite
    <2>3. /\ IsFiniteSet(Counted \ {wjob[i]})
          /\ Cardinality(Counted \ {wjob[i]}) = Cardinality(Counted) - 1
      BY <1>1, <2>2, FS_RemoveElement
    <2>4. Cardinality(Running) <= Cardinality(Counted) - 1 /\ Cardinality(Running) \in Nat
      BY <2>1, <2>3, FS_Subset, FS_CardinalityType
    <2>5. Cardinality(Counted) <= MaxConcurrency + overbooked /\ overbooked \in Nat
      BY DEF SlotInv, LeaseWatcherTypeOK
    <2> QED
      BY <2>2, <2>4, <2>5, ConstantsAssumption
  <1>6. Pool!Cardinality(Running) = Cardinality(Running)
    BY DEF Pool!Cardinality, Cardinality
  <1> QED
    BY <1>1, <1>2, <1>3, <1>4, <1>5, <1>6 DEF Pool!Next, Pool!Start, Running, Started

\* A worker's step starts, ends or leaves alone a backend call.
LEMMA PoolWork ==
  ASSUME AllInv, NEW i \in Instances, Works(i) \/ Winds(i) \/ Answers(i)
  PROVE  Unseen \/ Pool!Next
  <1>0. overbooked' = overbooked
    BY DEF Works, Winds, Answers
  <1>1. ASSUME NEW r \in Reply, Fetch(i, r)
        PROVE  Unseen \/ Pool!Next
    <2>1. CASE r = "ok"
      BY <1>0, <1>1, <2>1, PoolStart
    <2>2. CASE r # "ok"
      BY <1>0, <1>1, <2>2, PoolFinish DEF Fetch, WGoto
    <2> QED
      BY <2>1, <2>2
  <1>2. CASE UNCHANGED <<wpc, wjob, forwarded>>
    BY <1>0, <1>2 DEF Unseen, Running, Started, Forwarding
  <1>3. ASSUME ~ UNCHANGED <<wpc, wjob, forwarded>>,
               \A r \in Reply : ~Fetch(i, r)
        PROVE  Unseen \/ Pool!Next
    <2>1. forwarded' = forwarded
      BY <1>3 DEF Works, Winds, Answers, WorkerStep, WorkerStopping, BackendStep, Bzpopmin,
                  BzpopminStopping, Claim, ClaimStop, StopCancel, SetLease, FetchMalformed,
                  BackendReturns, Mark, Cleanup, Release
    <2>2. wjob' = wjob \/ \E j \in Jobs \cup {NoJob} : wjob' = [wjob EXCEPT ![i] = j]
      BY <1>3 DEF Works, Winds, Answers, WorkerStep, WorkerStopping, BackendStep, Bzpopmin,
                  BzpopminStopping, Claim, ClaimStop, StopCancel, SetLease, FetchMalformed,
                  BackendReturns, Mark, Cleanup, Release, LoopTop, WorkerEnds
    <2>3. \A k \in Instances \ {i} : wjob'[k] = wjob[k]
      BY <2>2 DEF AllInv, TypeOK, DispatcherTypeOK
    <2>4. \/ wpc' = wpc /\ wpc[i] = "mark"
          \/ \E pc \in {"idle", "off", "claim", "lease", "fetch", "mark", "release"} :
                wpc' = [wpc EXCEPT ![i] = pc]
      BY <1>3 DEF Works, Winds, Answers, WorkerStep, WorkerStopping, BackendStep, Bzpopmin,
                  BzpopminStopping, Claim, ClaimStop, StopCancel, SetLease, FetchMalformed,
                  BackendReturns, Mark, Cleanup, Release, LoopTop, WorkerEnds, WGoto
    <2>5. wpc' = wpc => wpc' = [wpc EXCEPT ![i] = wpc[i]]
      BY DEF AllInv, TypeOK, DispatcherTypeOK
    <2> QED
      BY <1>0, <2>1, <2>3, <2>4, <2>5, PoolFinish
  <1> QED
    BY <1>1, <1>2, <1>3

\* A crash ends a backend call; stops and restarts do not touch any.
LEMMA PoolProcess ==
  ASSUME AllInv, NEW i \in Instances, Crash(i) \/ Stop(i) \/ Restart(i)
  PROVE  Unseen \/ Pool!Next
  <1>1. CASE Stop(i)
    BY <1>1 DEF Stop, WatcherDies, Unseen, Running, Started, Forwarding
  <1>2. CASE Crash(i)
    <2>1. /\ UNCHANGED <<forwarded, overbooked>>
          /\ wpc' = [wpc EXCEPT ![i] = "off"]
          /\ wjob' = [wjob EXCEPT ![i] = NoJob]
      BY <1>2 DEF Crash, WorkerDies, WorkerEnds, WGoto, WatcherDies
    <2>2. \A k \in Instances \ {i} : wjob'[k] = wjob[k]
      BY <2>1 DEF AllInv, TypeOK, DispatcherTypeOK
    <2> QED
      BY <2>1, <2>2, PoolFinish
  <1>3. CASE Restart(i)
    BY <1>3, PoolFinish DEF Restart, WorkerStarts, WGoto
  <1> QED
    BY <1>1, <1>2, <1>3

\* Every step of the scheduler is a step of the pool or a stutter.
LEMMA PoolNext ==
  ASSUME AllInv, [Next]_vars
  PROVE  [Pool!Next]_<<Running, Started, overbooked>>
  <1>2. CASE UNCHANGED vars
    BY <1>2 DEF vars, Running, Started, Forwarding
  <1>3. CASE Next
    BY <1>3, PoolApi, PoolWork, PoolProcess DEF Next, Step, Unseen, Widens, Pool!Next
  <1> QED
    BY <1>2, <1>3

\* The scheduler implements SlotPool: what the backend sees of it, under any
\* crashes, restarts, lost calls, late workers and resets, is a pool of
\* max_concurrency slots, widened by what is overbooked, that never repeats a
\* piece of work.
THEOREM SchedulerImplementsPool == Spec => ImplementsPool
  <1>1. Init => Pool!Init
    BY DEF Init, DispatcherInit, LeaseWatcherInit, Forwarding, Pool!Init
  <1>2. AllInv /\ [Next]_vars =>
           [Pool!Next]_<<{wjob[i] : i \in Forwarding}, {j \in Jobs : forwarded[j] > 0}, overbooked>>
    BY PoolNext DEF Running, Started
  <1> QED
    BY <1>1, <1>2, AllHolds, PTL DEF Spec, ImplementsPool, Pool!Spec

------------------------------------------------------------------------------
(***************************************************************************)
(* Before the first fault: in_use is exact and no accepted job is lost.    *)
(***************************************************************************)

\* The count of failed calls only grows, by one at a time.
LEMMA ErrorsGrow ==
  ASSUME TypeOK, [Next]_vars
  PROVE  redisErrors' = redisErrors \/ redisErrors' = redisErrors + 1
  <1>1. CASE AdmitSteps
    BY <1>1 DEF AdmitSteps, AdmissionNext, Receive, Reject, Enqueue, RecordKey, StorePayload, Call
  <1>2. CASE CancelSteps
    BY <1>2 DEF CancelSteps, CancelNext, CancelRead, CancelScript, CancelExpire, CancelMark, Call
  <1>3. CASE TimePasses
    BY <1>3 DEF TimePasses, LeaseTime, BecomesOverdue, LeaseExpires
  <1>4. ASSUME NEW i \in Instances, Works(i)
        PROVE  redisErrors' = redisErrors \/ redisErrors' = redisErrors + 1
    BY <1>4 DEF Works, WorkerStep, Bzpopmin, Claim, SetLease, Fetch, FetchMalformed, Mark,
                Cleanup, Release, Call
  <1>5. ASSUME NEW i \in Instances, Winds(i) \/ Answers(i) PROVE redisErrors' = redisErrors
    BY <1>5 DEF Winds, Answers, WorkerStopping, BackendStep, BzpopminStopping, ClaimStop,
                StopCancel, BackendReturns
  <1>6. ASSUME NEW i \in Instances, Watches(i) \/ Checks(i)
        PROVE  redisErrors' = redisErrors \/ redisErrors' = redisErrors + 1
    BY <1>6 DEF Watches, WatcherStep, Scan, Check, Reclaim, Checks, CheckerStep, ReadActual,
                ReadRecorded, Correct, Accept, Call
  <1>7. ASSUME NEW i \in Instances, Crash(i) \/ Stop(i) \/ Restart(i)
        PROVE  redisErrors' = redisErrors
    BY <1>7 DEF Crash, Stop, Restart
  <1> QED
    BY <1>1, <1>2, <1>3, <1>4, <1>5, <1>6, <1>7 DEF Next, Step, vars

\* A step that leaves the behaviour calm started in a calm state.
LEMMA CalmBefore ==
  ASSUME TypeOK, [Next]_vars, Calm'
  PROVE  Calm
  <1>1. /\ crashes' = crashes \/ crashes' = crashes + 1
        /\ stops' = stops \/ stops' = stops + 1
    BY DEF Next, Step, vars, AdmitSteps, CancelSteps, TimePasses, Works, Winds, Answers, Watches,
           Checks, Crash, Stop, Restart
  <1>2. overran \subseteq overran' /\ resetBy \subseteq resetBy'
    <2>1. ASSUME NEW i \in Instances, Watches(i) PROVE UNCHANGED <<overran, resetBy>>
      BY <2>1 DEF Watches, WatcherStep, Scan, Check, Reclaim
    <2>2. ASSUME NEW i \in Instances, Checks(i)
          PROVE  overran' = overran /\ resetBy \subseteq resetBy'
      BY <2>2 DEF Checks, CheckerStep, ReadActual, ReadRecorded, Correct, Accept
    <2>3. CASE TimePasses
      BY <2>3 DEF TimePasses, LeaseTime, BecomesOverdue, LeaseExpires
    <2>4. ASSUME NEW i \in Instances, Crash(i) \/ Stop(i) PROVE UNCHANGED <<overran, resetBy>>
      BY <2>4 DEF Crash, Stop, WatcherDies
    <2> QED
      BY <2>1, <2>2, <2>3, <2>4
      DEF Next, Step, vars, AdmitSteps, CancelSteps, Works, Winds, Answers, Restart
  <1> QED
    BY <1>1, <1>2, ErrorsGrow, SchedulerAssumption, ConstantsAssumption DEF TypeOK, SharedTypeOK, Calm

\* In a calm behaviour the parts do only what they do when every call succeeds.
CalmStep ==
    \/ AdmitSteps
    \/ CancelSteps
    \/ TimePasses
    \/ \E i \in Instances :
        \/ Works(i)
        \/ Answers(i)
        \/ Watches(i)
        \/ Checks(i)

\* No process winds down, dies or restarts.
LEMMA CalmSteps ==
  ASSUME TypeOK, Next, Calm, Calm', CalmSlots
  PROVE  CalmStep
  <1> USE DEF TypeOK, SharedTypeOK, Calm, CalmSlots
  <1>1. ASSUME NEW i \in Instances, Winds(i) PROVE FALSE
    BY <1>1 DEF Winds, WorkerStopping, BzpopminStopping, ClaimStop, StopCancel
  <1>2. ASSUME NEW i \in Instances, Crash(i) \/ Stop(i) \/ Restart(i) PROVE FALSE
    BY <1>2 DEF Crash, Stop, Restart
  <1> QED
    BY <1>1, <1>2 DEF Next, Step, CalmStep

\* How a step of a calm behaviour moves slots: not at all, from the pool to a
\* worker, back from a worker or from an abandoned job, back once more when a
\* second watcher reclaims that job, or from the worker that ends to the job that
\* it abandons.
Even == UNCHANGED <<inUse, overbooked, Holders, Abandoned>>
Claimed == \E i \in Instances \ Holders :
    inUse' = inUse + 1 /\ Holders' = Holders \cup {i} /\ UNCHANGED <<overbooked, Abandoned>>
Released == \E i \in Holders :
    inUse' = inUse - 1 /\ Holders' = Holders \ {i} /\ UNCHANGED <<overbooked, Abandoned>>
Reclaimed == \E j \in Abandoned :
    inUse' = inUse - 1 /\ Abandoned' = Abandoned \ {j} /\ UNCHANGED <<overbooked, Holders>>
Doubled ==
    inUse' = inUse - 1 /\ overbooked' = overbooked + 1 /\ UNCHANGED <<Holders, Abandoned>>
Handed == \E i \in Holders, j \in Jobs \ Abandoned :
    Holders' = Holders \ {i} /\ Abandoned' = Abandoned \cup {j} /\ UNCHANGED <<inUse, overbooked>>

\* Each of them keeps in_use equal to the workers that hold a slot and the jobs
\* that were abandoned with one, less what is overbooked.
LEMMA SlotsMove ==
  ASSUME TypeOK, SlotsExact, Even \/ Claimed \/ Released \/ Reclaimed \/ Doubled \/ Handed
  PROVE  SlotsExact'
  <1>1. IsFiniteSet(Holders) /\ Cardinality(Holders) \in Nat
    BY ConstantsAssumption, FS_Subset, FS_CardinalityType DEF Holders
  <1>2. IsFiniteSet(Abandoned) /\ Cardinality(Abandoned) \in Nat
    <2>1. Abandoned \subseteq Jobs
      BY DEF Abandoned, TypeOK, SharedTypeOK
    <2> QED
      BY <2>1, ConstantsAssumption, FS_Subset, FS_CardinalityType
  <1>3. inUse = Cardinality(Holders) + Cardinality(Abandoned) - overbooked /\ overbooked \in Nat
    BY DEF SlotsExact, TypeOK, LeaseWatcherTypeOK
  <1>4. SUFFICES inUse' = Cardinality(Holders') + Cardinality(Abandoned') - overbooked'
    BY DEF SlotsExact
  <1>5. CASE Even
    BY <1>3, <1>5 DEF Even
  <1>6. CASE Claimed
    <2>1. PICK i \in Instances \ Holders :
             inUse' = inUse + 1 /\ Holders' = Holders \cup {i} /\ UNCHANGED <<overbooked, Abandoned>>
      BY <1>6 DEF Claimed
    <2>2. Cardinality(Holders \cup {i}) = Cardinality(Holders) + 1
      BY <1>1, <2>1, FS_AddElement
    <2> QED
      BY <1>1, <1>2, <1>3, <2>1, <2>2
  <1>7. CASE Released
    <2>1. PICK i \in Holders :
             inUse' = inUse - 1 /\ Holders' = Holders \ {i} /\ UNCHANGED <<overbooked, Abandoned>>
      BY <1>7 DEF Released
    <2>2. Cardinality(Holders \ {i}) = Cardinality(Holders) - 1
      BY <1>1, <2>1, FS_RemoveElement
    <2> QED
      BY <1>1, <1>2, <1>3, <2>1, <2>2
  <1>8. CASE Reclaimed
    <2>1. PICK j \in Abandoned :
             inUse' = inUse - 1 /\ Abandoned' = Abandoned \ {j} /\ UNCHANGED <<overbooked, Holders>>
      BY <1>8 DEF Reclaimed
    <2>2. Cardinality(Abandoned \ {j}) = Cardinality(Abandoned) - 1
      BY <1>2, <2>1, FS_RemoveElement
    <2> QED
      BY <1>1, <1>2, <1>3, <2>1, <2>2
  <1>10. CASE Doubled
    BY <1>1, <1>2, <1>3, <1>10 DEF Doubled
  <1>9. CASE Handed
    <2>1. PICK i \in Holders, j \in Jobs \ Abandoned :
             Holders' = Holders \ {i} /\ Abandoned' = Abandoned \cup {j} /\ UNCHANGED <<inUse, overbooked>>
      BY <1>9 DEF Handed
    <2>2. Cardinality(Holders \ {i}) = Cardinality(Holders) - 1
      BY <1>1, <2>1, FS_RemoveElement
    <2>3. Cardinality(Abandoned \cup {j}) = Cardinality(Abandoned) + 1
      BY <1>2, <2>1, FS_AddElement
    <2> QED
      BY <1>1, <1>2, <1>3, <2>1, <2>2, <2>3
  <1> QED
    BY <1>5, <1>6, <1>7, <1>8, <1>9, <1>10

\* Handlers move no slot; they enqueue a job or answer for one that is gone.
LEMMA CalmApi ==
  ASSUME TypeOK, JobInv, CalmSlots, NoLostJob, Calm', AdmitSteps \/ CancelSteps
  PROVE  Even /\ CalmSlots' /\ NoLostJob'
  <1> USE ConstantsAssumption
      DEF TypeOK, SharedTypeOK, DispatcherTypeOK, CancelTypeOK, AdmissionTypeOK,
          JobInv, JobLife, JobOwners, JobClients, Gone, Fresh
  <1>1. UNCHANGED <<slotVars, workerVars, overbooked, proc>>
    BY DEF AdmitSteps, AdmissionNext, Receive, Reject, Enqueue, RecordKey, StorePayload,
           CancelSteps, CancelNext, CancelRead, CancelScript, CancelExpire, CancelMark
  <1>2. Even /\ Abandoned' = Abandoned
    BY <1>1 DEF Even, Holders, Abandoned
  <1>3. \/ UNCHANGED <<queue, status>>
        \/ \E j \in Jobs, s \in Scores : Fresh(j) /\ EnqueueJob(j, s)
        \/ \E j \in Queued : CancelQueued(j)
        \/ \E j \in Jobs : /\ Gone(j)
                          /\ queue' = queue
                          /\ status' = [status EXCEPT ![j] = "cancelling"]
    <2>1. CASE AdmitSteps
      BY <2>1 DEF AdmitSteps, AdmissionNext, Receive, Reject, Enqueue, RecordKey, StorePayload
    <2>2. CASE CancelSteps
      BY <2>2 DEF CancelSteps, CancelNext, CancelRead, CancelScript, CancelExpire, CancelMark
    <2> QED
      BY <2>1, <2>2
  <1>4. CalmSlots'
    BY <1>1, <1>3 DEF CalmSlots, EnqueueJob, CancelQueued, HeldJobs, Holders, Queued, Holding,
                      Working
  <1>5. NoLostJob'
    BY <1>1, <1>2, <1>3 DEF NoLostJob, EnqueueJob, CancelQueued, Queued
  <1> QED
    BY <1>2, <1>4, <1>5

\* Time and watchers: what is reclaimed was abandoned, or reclaimed before.
LEMMA CalmWatch ==
  ASSUME TypeOK, OrphanInv, CalmSlots, NoLostJob, Calm, Calm',
         TimePasses \/ \E i \in Instances : Watches(i)
  PROVE  (Even \/ Reclaimed \/ Doubled) /\ CalmSlots' /\ NoLostJob'
  <1> USE ConstantsAssumption DEF TypeOK, SharedTypeOK, DispatcherTypeOK, LeaseWatcherTypeOK
  <1>1. CASE \E i \in Instances, r \in Reply : Reclaim(i, r)
    <2>1. PICK i \in Instances, r \in Reply : Reclaim(i, r)
      BY <1>1
    <2>2. r = "ok"
      BY <2>1 DEF Reclaim, Call, Calm
    <2>3. PICK j \in Jobs : j = orphan[i]
      BY <2>1 DEF Reclaim
    <2>4. /\ UNCHANGED <<queue, workerVars, proc>>
          /\ status' = [status EXCEPT ![j] = "failed"]
          /\ inflight' = inflight \ {j}
          /\ inUse' = inUse - 1
          /\ overbooked' = IF j \in inflight \ HeldJobs THEN overbooked ELSE overbooked + 1
      BY <2>1, <2>2, <2>3 DEF Reclaim, Executed
    <2>5. j \in overdue \cup dlq
      BY <2>1, <2>3 DEF Reclaim, OrphanInv, Refers, Calm
    <2>6. \A k \in Instances : wjob[k] # j
      BY <2>5 DEF OrphanInv, Calm
    <2>7. Abandoned' = Abandoned \ {j} /\ Holders' = Holders
      BY <2>4 DEF Abandoned, Holders
    <2>8. CalmSlots'
      BY <2>4, <2>6 DEF CalmSlots, HeldJobs, Holders, Holding
    <2>9. NoLostJob'
      BY <2>4, <2>7 DEF NoLostJob, Queued
    <2>10. CASE j \in inflight
      <3>1. j \in Abandoned /\ j \notin HeldJobs
        BY <2>6, <2>10 DEF Abandoned, CalmSlots, HeldJobs, Holders
      <3> QED
        BY <2>4, <2>7, <2>8, <2>9, <2>10, <3>1 DEF Reclaimed
    <2>11. CASE j \notin inflight
      <3>1. j \notin Abandoned
        BY <2>11 DEF Abandoned
      <3> QED
        BY <2>4, <2>7, <2>8, <2>9, <2>11, <3>1 DEF Doubled
    <2> QED
      BY <2>10, <2>11
  <1>2. CASE ~ \E i \in Instances, r \in Reply : Reclaim(i, r)
    <2>1. UNCHANGED <<queue, status, inUse, inflight, overbooked, workerVars, proc>>
      BY <1>2 DEF TimePasses, LeaseTime, BecomesOverdue, LeaseExpires, Watches, WatcherStep,
                  Scan, Check
    <2> QED
      BY <2>1 DEF Even, Holders, Abandoned, CalmSlots, HeldJobs, NoLostJob, Queued
  <1> QED
    BY <1>1, <1>2

\* A checker that does not reset changes nothing.
LEMMA CalmCheck ==
  ASSUME NEW i \in Instances, TypeOK, CalmSlots, NoLostJob, Calm', Checks(i)
  PROVE  Even /\ CalmSlots' /\ NoLostJob'
  <1>1. UNCHANGED <<inUse, inflight, workerVars, overbooked>>
    BY CheckKeeps DEF Calm
  <1>2. UNCHANGED <<queue, status, proc>>
    BY DEF Checks, CheckerStep, ReadActual, ReadRecorded, Correct, Accept
  <1> QED
    BY <1>1, <1>2 DEF Even, Holders, Abandoned, CalmSlots, HeldJobs, NoLostJob, Queued

\* A worker takes a slot in Claim, gives it back in Release, and leaves it to
\* its job when the job is malformed.
LEMMA CalmWork ==
  ASSUME NEW i \in Instances, TypeOK, JobInv, OrphanInv, CalmSlots, NoLostJob, Calm, Calm',
         Works(i) \/ Answers(i)
  PROVE  (Even \/ Claimed \/ Released \/ Handed) /\ CalmSlots' /\ NoLostJob'
  <1> DEFINE Goal == (Even \/ Claimed \/ Released \/ Handed) /\ CalmSlots' /\ NoLostJob'
  <1> USE ConstantsAssumption
      DEF TypeOK, SharedTypeOK, DispatcherTypeOK, JobInv, JobLife, JobOwners, Gone,
          Working, Holding, WGoto, WorkerEnds, Queued, Calm, Call, Executed, Terminal
  <1>0. overbooked' = overbooked
    BY DEF Works, Answers
  <1>1. ASSUME NEW j \in Jobs, NEW r \in Reply, Bzpopmin(i, j, r) PROVE Goal
    <2>1. r = "ok"
      BY <1>1 DEF Bzpopmin
    <2>2. Holders' = Holders
      BY <1>1, <2>1 DEF Bzpopmin, Holders
    <2>3. j \notin inflight
      BY <1>1 DEF Bzpopmin, MostUrgent
    <2>4. Abandoned' = Abandoned
      BY <1>1, <2>1, <2>3 DEF Bzpopmin, Abandoned
    <2>5. Even
      BY <1>0, <1>1, <2>2, <2>4 DEF Bzpopmin, Even
    <2>6. CalmSlots'
      BY <1>1, <2>1, <2>2 DEF Bzpopmin, CalmSlots, HeldJobs, Holders
    <2>7. NoLostJob'
      BY <1>1, <2>1, <2>4 DEF Bzpopmin, NoLostJob
    <2> QED
      BY <2>5, <2>6, <2>7
  <1>2. ASSUME NEW r \in Reply, Claim(i, r) PROVE Goal
    <2>1. r = "ok"
      BY <1>2 DEF Claim
    <2>2. Holders' = Holders \cup {i} /\ i \notin Holders
      BY <1>2, <2>1 DEF Claim, Holders
    <2>3. Abandoned' = Abandoned
      BY <1>2, <2>1 DEF Claim, Abandoned
    <2>4. Claimed
      BY <1>0, <1>2, <2>1, <2>2, <2>3 DEF Claim, ClaimSlot, Claimed
    <2>5. CalmSlots'
      BY <1>2, <2>1, <2>2 DEF Claim, ClaimSlot, CalmSlots, HeldJobs, Holders
    <2>6. NoLostJob'
      BY <1>2, <2>1, <2>3 DEF Claim, ClaimSlot, NoLostJob
    <2> QED
      BY <2>4, <2>5, <2>6
  <1>3. ASSUME NEW r \in Reply, SetLease(i, r) PROVE Goal
    <2>1. r = "ok"
      BY <1>3 DEF SetLease
    <2>2. Holders' = Holders /\ i \in Holders
      BY <1>3 DEF SetLease, Holders
    <2>3. Abandoned' = Abandoned
      BY <1>3, <2>1 DEF SetLease, Abandoned
    <2>4. Even
      BY <1>0, <1>3, <2>2, <2>3 DEF SetLease, Even
    <2>5. CalmSlots'
      BY <1>3, <2>1, <2>2 DEF SetLease, CalmSlots, HeldJobs, Holders
    <2>6. NoLostJob'
      BY <1>3, <2>3 DEF SetLease, NoLostJob
    <2> QED
      BY <2>4, <2>5, <2>6
  <1>4. ASSUME NEW r \in Reply, Fetch(i, r) PROVE Goal
    <2>1. r = "ok"
      BY <1>4 DEF Fetch
    <2>2. Holders' = Holders /\ i \in Holders
      BY <1>4, <2>1 DEF Fetch, Holders
    <2>3. Even /\ Abandoned' = Abandoned
      BY <1>0, <1>4, <2>2 DEF Fetch, Even, Abandoned
    <2>4. CalmSlots'
      BY <1>4, <2>1, <2>2 DEF Fetch, CalmSlots, HeldJobs, Holders
    <2>5. NoLostJob'
      BY <1>4, <2>3 DEF Fetch, NoLostJob
    <2> QED
      BY <2>3, <2>4, <2>5
  <1>5. CASE FetchMalformed(i)
    <2>1. Holders' = Holders \ {i} /\ i \in Holders
      BY <1>5 DEF FetchMalformed, Holders
    <2>2. wjob[i] \in inflight \cap Malformed /\ wjob[i] \in Jobs
      BY <1>5 DEF FetchMalformed, CalmSlots
    <2>3. Abandoned' = Abandoned \cup {wjob[i]} /\ wjob[i] \notin Abandoned
      BY <1>5, <2>2 DEF FetchMalformed, Abandoned
    <2>4. Handed
      BY <1>0, <1>5, <2>1, <2>2, <2>3 DEF FetchMalformed, Handed
    <2>5. CalmSlots'
      BY <1>5, <2>1, <2>2 DEF FetchMalformed, CalmSlots, HeldJobs, Holders
    <2>6. NoLostJob'
      BY <1>5, <2>3 DEF FetchMalformed, NoLostJob
    <2> QED
      BY <2>4, <2>5, <2>6
  <1>6. ASSUME NEW out \in {"completed", "failed"}, BackendReturns(i, out) PROVE Goal
    <2>1. Holders' = Holders /\ i \in Holders
      BY <1>6 DEF BackendReturns, Holders
    <2>2. Even /\ Abandoned' = Abandoned
      BY <1>0, <1>6, <2>1 DEF BackendReturns, Even, Abandoned
    <2>3. CalmSlots'
      BY <1>6, <2>1 DEF BackendReturns, CalmSlots, HeldJobs, Holders
    <2>4. NoLostJob'
      BY <1>6, <2>2 DEF BackendReturns, NoLostJob
    <2> QED
      BY <2>2, <2>3, <2>4
  <1>7. ASSUME NEW r \in Reply, Mark(i, r) PROVE Goal
    <2>1. r = "ok"
      BY <1>7 DEF Mark
    <2>2. Holders' = Holders /\ i \in Holders
      BY <1>7 DEF Mark, Holders
    <2>3. Even /\ Abandoned' = Abandoned
      BY <1>0, <1>7, <2>2 DEF Mark, Even, Abandoned
    <2>4. CalmSlots'
      BY <1>7, <2>1, <2>2 DEF Mark, CalmSlots, HeldJobs, Holders
    <2>5. NoLostJob'
      BY <1>7, <2>1, <2>3 DEF Mark, NoLostJob
    <2> QED
      BY <2>3, <2>4, <2>5
  <1>8. ASSUME NEW r \in Reply, Cleanup(i, r) PROVE Goal
    BY <1>8 DEF Cleanup, CalmSlots
  <1>9. ASSUME NEW r \in Reply, Release(i, r) PROVE Goal
    <2>1. r = "ok"
      BY <1>9 DEF Release
    <2>2. Holders' = Holders \ {i} /\ i \in Holders
      BY <1>9 DEF Release, LoopTop, Holders
    <2>3. wjob[i] \in Jobs /\ \A k \in Instances : wjob[k] = wjob[i] => k = i
      BY <1>9 DEF Release
    <2>4. Abandoned' = Abandoned
      BY <1>9, <2>1, <2>3 DEF Release, ReleaseSlot, LoopTop, Abandoned
    <2>5. Released
      BY <1>0, <1>9, <2>1, <2>2, <2>4 DEF Release, ReleaseSlot, Released
    <2>6. CalmSlots'
      BY <1>9, <2>1, <2>2, <2>3 DEF Release, ReleaseSlot, LoopTop, CalmSlots, HeldJobs, Holders
    <2>7. NoLostJob'
      BY <1>9, <2>3, <2>4 DEF Release, LoopTop, CalmSlots, NoLostJob
    <2> QED
      BY <2>5, <2>6, <2>7
  <1> HIDE DEF TypeOK, JobInv, Calm, Queued, Call, WGoto, WorkerEnds
  <1>10. CASE Works(i)
    BY <1>1, <1>2, <1>3, <1>4, <1>5, <1>7, <1>8, <1>9, <1>10 DEF Works, WorkerStep
  <1>11. CASE Answers(i)
    BY <1>6, <1>11 DEF Answers, BackendStep
  <1> QED
    BY <1>10, <1>11

\* CalmInv is preserved: SlotsExact and NoLostJob with what they rest on.
LEMMA CalmNext ==
  ASSUME AllInv, CalmInv, [Next]_vars
  PROVE  CalmInv'
  <1> SUFFICES ASSUME Calm' PROVE (CalmSlots /\ SlotsExact /\ NoLostJob)'
    BY DEF CalmInv
  <1>1. Calm /\ CalmSlots /\ SlotsExact /\ NoLostJob /\ TypeOK /\ JobInv /\ OrphanInv
    BY CalmBefore DEF CalmInv, AllInv
  <1>2. (Even \/ Claimed \/ Released \/ Reclaimed \/ Doubled \/ Handed) /\ CalmSlots' /\ NoLostJob'
    <2>1. CASE UNCHANGED vars
      BY <1>1, <2>1 DEF vars, Even, Holders, Abandoned, CalmSlots, HeldJobs, NoLostJob, Queued
    <2>2. CASE Next
      <3>1. CalmStep
        BY <1>1, <2>2, CalmSteps
      <3> QED
        BY <1>1, <3>1, CalmApi, CalmWatch, CalmCheck, CalmWork DEF CalmStep
    <2> QED
      BY <2>1, <2>2
  <1>3. SlotsExact'
    BY <1>1, <1>2, SlotsMove
  <1> QED
    BY <1>2, <1>3

\* Initially no slot is taken and no job is accepted.
LEMMA CalmInit == Init => CalmInv
  <1> SUFFICES ASSUME Init PROVE CalmSlots /\ SlotsExact /\ NoLostJob
    BY DEF CalmInv
  <1>1. Holders = {} /\ Abandoned = {} /\ inUse = 0 /\ overbooked = 0
    BY DEF Init, SharedInit, DispatcherInit, LeaseWatcherInit, Holders, Holding, Abandoned
  <1>2. SlotsExact
    BY <1>1, FS_EmptySet DEF SlotsExact
  <1>3. CalmSlots /\ NoLostJob
    BY DEF Init, SharedInit, DispatcherInit, CalmSlots, NoLostJob, Holding
  <1> QED
    BY <1>2, <1>3

------------------------------------------------------------------------------
(***************************************************************************)
(* Before the first fault: outcomes.                                       *)
(***************************************************************************)

\* What a step may do to outcomes: a job that is done stays done, and only a
\* cancel request or a second reclaim still writes to it; a job that gets an
\* outcome is done, and one that is reclaimed has failed.
Settles ==
    /\ \A j \in Jobs : Done(j) =>
        /\ Done(j)'
        /\ \/ status'[j] \in {status[j], "cancelling"}
           \/ j \in dlq /\ status'[j] = "failed"
    /\ \A j \in Jobs : status'[j] \in Terminal /\ status'[j] # status[j] => Done(j)'
    /\ \A j \in dlq' \ dlq : Done(j)' /\ status'[j] = "failed"

\* Handlers write to fresh, to queued and, when cancelling, to gone jobs.
LEMMA SettlesApi ==
  ASSUME TypeOK, JobInv, AdmitSteps \/ CancelSteps
  PROVE  Settles
  <1> USE ConstantsAssumption
      DEF TypeOK, SharedTypeOK, DispatcherTypeOK, CancelTypeOK, AdmissionTypeOK,
          JobInv, JobLife, JobOwners, JobClients, Gone, Fresh, Handling
  <1>1. UNCHANGED <<slotVars, workerVars>>
    BY SMTT(60) DEF AdmitSteps, AdmissionNext, Receive, Reject, Enqueue, RecordKey, StorePayload,
           CancelSteps, CancelNext, CancelRead, CancelScript, CancelExpire, CancelMark
  <1>2. Abandoned' = Abandoned
    BY <1>1 DEF Abandoned
  <1>3. \/ UNCHANGED <<queue, status>>
        \/ \E j \in Jobs, s \in Scores : Fresh(j) /\ EnqueueJob(j, s)
        \/ CancelSteps /\ \E j \in Queued : CancelQueued(j)
        \/ CancelSteps /\ \E j \in Jobs : Gone(j) /\ queue' = queue
                                         /\ status' = [status EXCEPT ![j] = "cancelling"]
    <2>1. CASE AdmitSteps
      BY <2>1, SMTT(60) DEF AdmitSteps, AdmissionNext, Receive, Reject, Enqueue, RecordKey, StorePayload
    <2>2. CASE CancelSteps
      <3>1. PICK c \in Cancels, r \in Reply :
               \/ \E i \in Instances, j \in Jobs : CancelRead(c, i, j, r)
               \/ CancelScript(c, r)
               \/ CancelExpire(c, r)
               \/ CancelMark(c, r)
        BY <2>2 DEF CancelSteps, CancelNext
      <3>2. CASE CancelScript(c, r)
        BY <2>2, <3>2 DEF CancelScript
      <3>3. CASE CancelMark(c, r)
        BY <2>2, <3>3 DEF CancelMark
      <3> QED
        BY <3>1, <3>2, <3>3 DEF CancelRead, CancelExpire
    <2> QED
      BY <2>1, <2>2
  <1>4. \A j \in Jobs : ~Fresh(j) => ~Fresh(j)'
    <2>1. CASE AdmitSteps
      BY <2>1, SMTT(60) DEF AdmitSteps, AdmissionNext, Receive, Reject, Enqueue, RecordKey, StorePayload,
                  Goto, Respond
    <2>2. CASE CancelSteps
      BY <2>2 DEF CancelSteps, CancelNext, CancelRead, CancelScript, CancelExpire, CancelMark
    <2> QED
      BY <2>1, <2>2
  <1>5. ASSUME NEW j \in Jobs, Done(j)
        PROVE  Done(j)' /\ status'[j] \in {status[j], "cancelling"}
    BY <1>1, <1>2, <1>3, <1>4, <1>5 DEF Done, EnqueueJob, CancelQueued, Queued
  <1>6. ASSUME NEW j \in Jobs, status'[j] \in Terminal, status'[j] # status[j]
        PROVE  Done(j)'
    <2>1. j \in Queued /\ CancelQueued(j)
      BY <1>3, <1>6 DEF EnqueueJob, CancelQueued, Queued, Terminal
    <2>2. Gone(j)'
      BY <1>4, <2>1 DEF CancelQueued, Queued
    <2>3. j \notin Abandoned /\ \A i \in Instances : wjob[i] # j
      BY <2>1, ConstantsAssumption DEF Abandoned, Queued
    <2> QED
      BY <1>1, <1>2, <2>1, <2>2, <2>3 DEF Done
  <1> QED
    BY <1>1, <1>5, <1>6 DEF Settles

\* A watcher fails jobs that nobody has in hand: abandoned ones, and ones that
\* were reclaimed before.
LEMMA SettlesWatch ==
  ASSUME TypeOK, JobInv, OrphanInv, CalmSlots, Settled, Calm, Calm',
         TimePasses \/ \E i \in Instances : Watches(i)
  PROVE  Settles
  <1> USE DEF TypeOK, SharedTypeOK, DispatcherTypeOK, LeaseWatcherTypeOK, Gone, Fresh
  <1>1. UNCHANGED <<queue, reqVars, workerVars>>
    BY DEF TimePasses, LeaseTime, BecomesOverdue, LeaseExpires, Watches, WatcherStep, Scan,
           Check, Reclaim
  <1>2. CASE \E i \in Instances, r \in Reply : Reclaim(i, r)
    <2>1. PICK i \in Instances, r \in Reply : Reclaim(i, r)
      BY <1>2
    <2>2. r = "ok"
      BY <2>1, ConstantsAssumption DEF Reclaim, Call, Calm
    <2>3. PICK j \in Jobs : j = orphan[i]
      BY <2>1 DEF Reclaim
    <2>4. /\ status' = [status EXCEPT ![j] = "failed"]
          /\ inflight' = inflight \ {j}
          /\ dlq' = dlq \cup {j}
      BY <2>1, <2>2, <2>3 DEF Reclaim, Executed
    <2>5. j \in overdue \cup dlq
      BY <2>1, <2>3 DEF Reclaim, OrphanInv, Refers, Calm
    <2>6. \A k \in Instances : wjob[k] # j
      BY <2>5 DEF OrphanInv, Calm
    <2>7. Gone(j)
      BY <2>5 DEF JobInv, JobLife
    <2>8. Abandoned' = Abandoned \ {j}
      BY <1>1, <2>4 DEF Abandoned
    <2>9. Done(j)'
      BY <1>1, <2>6, <2>7, <2>8 DEF Done
    <2>10. \A k \in Jobs : Done(k) => Done(k)'
      BY <1>1, <2>8 DEF Done
    <2>11. Done(j) => j \in dlq
      <3>1. j \in overdue => j \in Abandoned
        BY <2>6 DEF OrphanInv, Abandoned, CalmSlots, HeldJobs, Holders
      <3> QED
        BY <2>5, <3>1 DEF Done
    <2> QED
      BY <2>4, <2>9, <2>10, <2>11 DEF Settles
  <1>3. CASE ~ \E i \in Instances, r \in Reply : Reclaim(i, r)
    <2>1. UNCHANGED <<status, inflight, dlq>>
      BY <1>3 DEF TimePasses, LeaseTime, BecomesOverdue, LeaseExpires, Watches, WatcherStep,
                  Scan, Check
    <2> QED
      BY <1>1, <2>1 DEF Settles, Done, Abandoned
  <1> QED
    BY <1>2, <1>3

\* A worker writes one outcome, on its way to the release of its slot.
LEMMA SettlesWork ==
  ASSUME NEW i \in Instances, TypeOK, JobInv, OrphanInv, CalmSlots, Calm, Calm',
         Works(i) \/ Answers(i)
  PROVE  Settles
  <1> USE ConstantsAssumption
      DEF TypeOK, SharedTypeOK, DispatcherTypeOK, JobInv, JobLife, JobOwners, Gone, Fresh,
          Working, Holding, WGoto, WorkerEnds, Queued, Calm, Call, Executed
  <1>0. UNCHANGED <<reqVars, dlq>>
    BY DEF Works, WorkerStep, Answers, BackendStep, Bzpopmin, Claim, SetLease, Fetch,
           FetchMalformed, BackendReturns, Mark, Cleanup, Release
  <1>1. ASSUME NEW j \in Jobs, NEW r \in Reply, Bzpopmin(i, j, r) PROVE Settles
    <2>1. r = "ok"
      BY <1>1 DEF Bzpopmin
    <2>2. Abandoned' \subseteq Abandoned
      BY <1>1, <2>1 DEF Bzpopmin, Abandoned, MostUrgent
    <2> QED
      BY <1>0, <1>1, <2>1, <2>2 DEF Bzpopmin, MostUrgent, Settles, Done
  <1>2. ASSUME NEW r \in Reply, Claim(i, r) PROVE Settles
    <2>1. r = "ok"
      BY <1>2 DEF Claim
    <2>2. Abandoned' = Abandoned
      BY <1>2, <2>1 DEF Claim, Abandoned
    <2> QED
      BY <1>0, <1>2, <2>1, <2>2 DEF Claim, ClaimSlot, Settles, Done, Terminal
  <1>3. ASSUME NEW r \in Reply, SetLease(i, r) PROVE Settles
    <2>1. Abandoned' = Abandoned
      BY <1>3 DEF SetLease, Abandoned
    <2> QED
      BY <1>0, <1>3, <2>1 DEF SetLease, Settles, Done
  <1>4. ASSUME NEW r \in Reply, Fetch(i, r) PROVE Settles
    <2>1. Abandoned' = Abandoned
      BY <1>4 DEF Fetch, Abandoned
    <2> QED
      BY <1>0, <1>4, <2>1 DEF Fetch, Settles, Done
  <1>5. CASE FetchMalformed(i)
    <2>1. Abandoned' \subseteq Abandoned \cup {wjob[i]} /\ wjob[i] \in Jobs
      BY <1>5 DEF FetchMalformed, Abandoned
    <2>2. ~Done(wjob[i])
      BY <1>5 DEF FetchMalformed, Done
    <2> QED
      BY <1>0, <1>5, <2>1, <2>2 DEF FetchMalformed, Settles, Done
  <1>6. ASSUME NEW out \in {"completed", "failed"}, BackendReturns(i, out) PROVE Settles
    <2>1. Abandoned' = Abandoned
      BY <1>6 DEF BackendReturns, Abandoned
    <2> QED
      BY <1>0, <1>6, <2>1 DEF BackendReturns, Settles, Done
  <1>7. ASSUME NEW r \in Reply, Mark(i, r) PROVE Settles
    <2>1. r = "ok"
      BY <1>7 DEF Mark
    <2>2. Abandoned' = Abandoned /\ wjob[i] \notin Abandoned
      BY <1>7 DEF Mark, Abandoned
    <2>3. wjob[i] \in Jobs /\ Gone(wjob[i]) /\ \A k \in Instances : wjob[k] = wjob[i] => k = i
      BY <1>7 DEF Mark
    <2>4. /\ UNCHANGED <<queue, wjob>>
          /\ status' = [status EXCEPT ![wjob[i]] = wout[i]]
          /\ wpc[i] = "mark" /\ wpc' = [wpc EXCEPT ![i] = "release"]
      BY <1>7, <2>1 DEF Mark
    <2>5. Done(wjob[i])' /\ ~Done(wjob[i])
      BY <1>0, <2>2, <2>3, <2>4 DEF Done
    <2>6. \A k \in Jobs : Done(k) => Done(k)' /\ status'[k] = status[k]
      BY <1>0, <2>2, <2>4, <2>5 DEF Done
    <2>7. \A k \in Jobs : status'[k] # status[k] => k = wjob[i]
      BY <2>4
    <2> QED
      BY <1>0, <2>4, <2>5, <2>6, <2>7 DEF Settles
  <1>8. ASSUME NEW r \in Reply, Cleanup(i, r) PROVE Settles
    BY <1>8 DEF Cleanup, CalmSlots
  <1>9. ASSUME NEW r \in Reply, Release(i, r) PROVE Settles
    <2>1. r = "ok"
      BY <1>9 DEF Release
    <2>2. Abandoned' \subseteq Abandoned
      BY <1>9, <2>1 DEF Release, ReleaseSlot, LoopTop, Abandoned
    <2> QED
      BY <1>0, <1>9, <2>2 DEF Release, LoopTop, Settles, Done
  <1> HIDE DEF TypeOK, JobInv, Calm, Queued, Call, WGoto, WorkerEnds
  <1>10. CASE Works(i)
    BY <1>1, <1>2, <1>3, <1>4, <1>5, <1>7, <1>8, <1>9, <1>10 DEF Works, WorkerStep
  <1>11. CASE Answers(i)
    BY <1>6, <1>11 DEF Answers, BackendStep
  <1> QED
    BY <1>10, <1>11

\* No step of a calm behaviour does more.
LEMMA SettlesNext ==
  ASSUME AllInv, CalmInv, OutcomeInv, Calm', [Next]_vars
  PROVE  Settles
  <1>1. Calm /\ CalmSlots /\ Settled /\ TypeOK /\ JobInv /\ OrphanInv
    BY CalmBefore DEF CalmInv, OutcomeInv, AllInv
  <1>2. CASE UNCHANGED vars
    BY <1>2 DEF vars, Settles, Done, Gone, Fresh, Abandoned
  <1>3. CASE Next
    <2>1. CalmStep
      BY <1>1, <1>3, CalmSteps
    <2>2. ASSUME NEW i \in Instances, Checks(i) PROVE Settles
      <3>1. UNCHANGED <<jobVars, inflight, dlq, workerVars, reqVars>>
        BY <2>2 DEF Checks, CheckerStep, ReadActual, ReadRecorded, Correct, Accept
      <3> QED
        BY <3>1 DEF Settles, Done, Gone, Fresh, Abandoned
    <2> QED
      BY <1>1, <2>1, <2>2, SettlesApi, SettlesWatch, SettlesWork DEF CalmStep
  <1> QED
    BY <1>2, <1>3

\* OutcomeInv is preserved, and no outcome is replaced by another one.
LEMMA OutcomeNext ==
  ASSUME AllInv, CalmInv, OutcomeInv, [Next]_vars
  PROVE  /\ OutcomeInv'
         /\ Calm' => \A j \in Jobs : status[j] \in Terminal =>
                        status'[j] \in {status[j], "cancelling"}
  <1> SUFFICES ASSUME Calm'
               PROVE  /\ Settled'
                      /\ \A j \in Jobs : status[j] \in Terminal =>
                            status'[j] \in {status[j], "cancelling"}
    BY DEF OutcomeInv
  <1>1. TypeOK /\ Settles /\ Settled
    BY CalmBefore, SettlesNext DEF OutcomeInv, AllInv
  <1>2. ASSUME NEW j \in Jobs, status'[j] \in Terminal PROVE Done(j)'
    BY <1>1, <1>2 DEF Settles, Settled
  <1>3. ASSUME NEW j \in dlq' PROVE Done(j)' /\ status'[j] \in {"failed", "cancelling"}
    BY <1>1, <1>3 DEF Settles, Settled, TypeOK, SharedTypeOK
  <1>4. ASSUME NEW j \in Jobs, status[j] \in Terminal
        PROVE  status'[j] \in {status[j], "cancelling"}
    BY <1>1, <1>4 DEF Settles, Settled, Terminal
  <1> QED
    BY <1>2, <1>3, <1>4 DEF Settled

\* All of it together: what holds under faults, and before the first one.
CoreInv == AllInv /\ CalmInv /\ OutcomeInv

\* CoreInv is preserved.
LEMMA CoreNext == CoreInv /\ [Next]_vars => CoreInv'
  BY AllInvNext, CalmNext, OutcomeNext DEF CoreInv

\* Initially nothing has an outcome.
LEMMA CoreInit == Init => CoreInv
  <1>1. Init => OutcomeInv
    BY DEF Init, SharedInit, Terminal, OutcomeInv, Settled
  <1> QED
    BY <1>1, TypeInit, JobInit, OrphanInit, SlotInit, CalmInit DEF CoreInv, AllInv

\* CoreInv is inductive.
THEOREM CoreHolds == Spec => []CoreInv
  BY CoreInit, CoreNext, PTL DEF Spec

\* As long as no Redis call has failed, no process has crashed or stopped, no job
\* has outlasted its lease and no checker has reset it, slots:{model}:in_use is
\* exactly the number of workers between the claim script and _release_slot plus
\* the jobs whose malformed priority ended their worker, less the slots of those
\* that several watchers reclaimed at the same time.
THEOREM SlotsAreExact == Spec => [](Calm => SlotsExact)
  <1>1. CoreInv => (Calm => SlotsExact)
    BY DEF CoreInv, CalmInv
  <1> QED
    BY <1>1, CoreHolds, PTL

\* Under the same premise a job that was accepted and has no outcome is in the
\* queue, in a worker's hands or in the inflight set where a watcher finds it,
\* whatever is cancelled.
THEOREM NothingForgotten == Spec => [](Calm => NoLostJob)
  <1>1. CoreInv => (Calm => NoLostJob)
    BY DEF CoreInv, CalmInv
  <1> QED
    BY <1>1, CoreHolds, PTL

\* Under the same premise no outcome is replaced by another one: worker, watchers
\* and the cancel script never write two outcomes of one job.  What may replace an
\* outcome is the "cancelling" of a cancel request that comes late.
THEOREM OutcomesAreKept == Spec => OutcomeKept
  <1>1. CoreInv /\ [Next]_vars =>
          [Calm' => \A j \in Jobs : status[j] \in Terminal =>
                      status'[j] \in {status[j], "cancelling"}]_vars
    BY OutcomeNext DEF CoreInv
  <1> QED
    BY <1>1, CoreHolds, PTL DEF Spec, OutcomeKept

==============================================================================
