---------------------------- MODULE SchedulerProofs ----------------------------
(***************************************************************************)
(* Type correctness of Scheduler, for every value of the constants.        *)
(***************************************************************************)
EXTENDS Scheduler, FiniteSetTheorems, TLAPS

\* The variable groups and the set of replies are expanded everywhere.
USE DEF Reply, sharedVars, jobVars, slotVars, reqVars, workerVars, watcherVars,
        checkerVars, cancelVars, restVars, redisVars

------------------------------------------------------------------------------
(***************************************************************************)
(* Types.                                                                  *)
(***************************************************************************)

\* ZCARD inflight:{model} is a number.
LEMMA InflightCount == TypeOK => Cardinality(inflight) \in Nat
  <1> SUFFICES ASSUME TypeOK PROVE Cardinality(inflight) \in Nat
    OBVIOUS
  <1>1. IsFiniteSet(Jobs) /\ inflight \subseteq Jobs
    BY ConstantsAssumption DEF TypeOK, SharedTypeOK
  <1> QED
    BY <1>1, FS_Subset, FS_CardinalityType

\* So is the number of jobs that must be counted.
LEMMA CountedCount == TypeOK => Cardinality(Counted) \in Nat
  <1> SUFFICES ASSUME TypeOK PROVE Cardinality(Counted) \in Nat
    OBVIOUS
  <1>1. HeldJobs \subseteq Jobs
    BY DEF TypeOK, DispatcherTypeOK, HeldJobs, Holders, Working
  <1>2. IsFiniteSet(Jobs) /\ Counted \subseteq Jobs
    BY <1>1, ConstantsAssumption DEF TypeOK, SharedTypeOK, Counted
  <1> QED
    BY <1>2, FS_Subset, FS_CardinalityType

\* The initial state is typed.
LEMMA TypeInit == Init => TypeOK
  BY ConstantsAssumption, SchedulerAssumption, LeaseWatcherAssumption, FS_EmptySet
  DEF Init, SharedInit, AdmissionInit, DispatcherInit, LeaseWatcherInit, IntegrityInit,
      CancelInit, TypeOK, SharedTypeOK, AdmissionTypeOK, DispatcherTypeOK, LeaseWatcherTypeOK,
          IntegrityTypeOK, CancelTypeOK, Statuses, ProcStates, Terminal, Handling, Working, Holding,
      Cancelling

\* One lemma per part: its steps keep the types.
LEMMA TypeAdmit == TypeOK /\ AdmitSteps => TypeOK'
  <1> SUFFICES ASSUME TypeOK, AdmitSteps PROVE TypeOK'
    OBVIOUS
  <1> USE ConstantsAssumption
      DEF TypeOK, SharedTypeOK, AdmissionTypeOK, DispatcherTypeOK, LeaseWatcherTypeOK,
          IntegrityTypeOK, CancelTypeOK, Handling, Call, Goto, Respond
  <1>1. PICK j \in Jobs, r \in Reply :
           \/ \E i \in Instances : Receive(i, j, r)
           \/ Reject(j, r)
           \/ \E s \in Scores : Enqueue(j, s, r)
           \/ RecordKey(j, r)
           \/ StorePayload(j, r)
    BY DEF AdmitSteps, AdmissionNext
  <1>2. UNCHANGED <<workerVars, watcherVars, checkerVars, cancelVars, restVars>>
    BY DEF AdmitSteps
  <1>3. ASSUME NEW i \in Instances, Receive(i, j, r) PROVE TypeOK'
    <2>1. SharedTypeOK'
      BY <1>3 DEF Receive
    <2>2. AdmissionTypeOK'
      BY <1>3, SMTT(30) DEF Receive
    <2> QED
      BY <1>2, <1>3, <2>1, <2>2 DEF Receive
  <1>4. CASE Reject(j, r)
    BY <1>2, <1>4 DEF Reject
  <1>5. ASSUME NEW s \in Scores, Enqueue(j, s, r) PROVE TypeOK'
    BY <1>2, <1>5, SMTT(30) DEF Enqueue, EnqueueJob, Executed, Statuses
  <1>6. CASE RecordKey(j, r)
    BY <1>2, <1>6 DEF RecordKey
  <1>7. CASE StorePayload(j, r)
    BY <1>2, <1>7 DEF StorePayload
  <1> QED
    BY <1>1, <1>3, <1>4, <1>5, <1>6, <1>7

LEMMA TypeCancel == TypeOK /\ CancelSteps => TypeOK'
  <1> SUFFICES ASSUME TypeOK, CancelSteps PROVE TypeOK'
    OBVIOUS
  <1> USE ConstantsAssumption
      DEF TypeOK, SharedTypeOK, AdmissionTypeOK, DispatcherTypeOK, LeaseWatcherTypeOK,
          IntegrityTypeOK, CancelTypeOK, Cancelling, Call, CanGoto
  <1>1. PICK c \in Cancels, r \in Reply :
           \/ \E i \in Instances, j \in Jobs : CancelRead(c, i, j, r)
           \/ CancelScript(c, r)
           \/ CancelExpire(c, r)
           \/ CancelMark(c, r)
    BY DEF CancelSteps, CancelNext
  <1>2. UNCHANGED <<workerVars, watcherVars, checkerVars, restVars>>
    BY DEF CancelSteps
  <1>3. ASSUME NEW i \in Instances, NEW j \in Jobs, CancelRead(c, i, j, r) PROVE TypeOK'
    BY <1>2, <1>3, SMTT(30) DEF CancelRead
  <1>4. CASE CancelScript(c, r)
    <2>1. SharedTypeOK'
      BY <1>4 DEF CancelScript, CancelQueued, Executed, Statuses, Terminal
    <2>2. CancelTypeOK'
      BY <1>4 DEF CancelScript
    <2> QED
      BY <1>2, <1>4, <2>1, <2>2 DEF CancelScript
  <1>5. CASE CancelExpire(c, r)
    BY <1>2, <1>5 DEF CancelExpire
  <1>6. CASE CancelMark(c, r)
    BY <1>2, <1>6 DEF CancelMark, Statuses
  <1> QED
    BY <1>1, <1>3, <1>4, <1>5, <1>6

LEMMA TypeWork == ASSUME NEW i \in Instances PROVE TypeOK /\ Works(i) => TypeOK'
  <1> SUFFICES ASSUME TypeOK, Works(i) PROVE TypeOK'
    OBVIOUS
  <1> USE ConstantsAssumption
      DEF TypeOK, SharedTypeOK, AdmissionTypeOK, DispatcherTypeOK, LeaseWatcherTypeOK,
          IntegrityTypeOK, CancelTypeOK, Call, WGoto, Working, Holding
  <1>1. PICK r \in Reply :
           \/ \E j \in Jobs : Bzpopmin(i, j, r)
           \/ Claim(i, r)
           \/ SetLease(i, r)
           \/ Fetch(i, r)
           \/ Mark(i, r)
           \/ Cleanup(i, r)
           \/ Release(i, r)
           \/ FetchMalformed(i)
    BY DEF Works, WorkerStep, Reply
  <1>2. UNCHANGED <<reqVars, watcherVars, checkerVars, cancelVars, restVars>>
    BY DEF Works
  <1>3. ASSUME NEW j \in Jobs, Bzpopmin(i, j, r) PROVE TypeOK'
    <2>1. SharedTypeOK'
      BY <1>3 DEF Bzpopmin
    <2>2. DispatcherTypeOK'
      BY <1>3, SMTT(30) DEF Bzpopmin
    <2> QED
      BY <1>2, <2>1, <2>2
  <1>4. CASE Claim(i, r)
    <2>1. SharedTypeOK'
      BY <1>4 DEF Claim, ClaimSlot, Executed, Statuses
    <2>2. wpc[i] \in Working /\ wjob[i] # NoJob
      BY <1>4 DEF Claim
    <2>3. r = "ok" => DispatcherTypeOK'
      BY <1>4, <2>2 DEF Claim
    <2>4. r # "ok" => \/ UNCHANGED workerVars
                      \/ WorkerEnds(i) /\ UNCHANGED <<forwarded, sentEmpty>>
      BY <1>4 DEF Claim
    <2>5. UNCHANGED workerVars => DispatcherTypeOK'
      BY DEF workerVars
    <2>6. WorkerEnds(i) /\ UNCHANGED <<forwarded, sentEmpty>> => DispatcherTypeOK'
      BY DEF WorkerEnds
    <2> QED
      BY <1>2, <2>1, <2>3, <2>4, <2>5, <2>6
  <1>5. CASE SetLease(i, r)
    <2>1. SharedTypeOK'
      BY <1>5 DEF SetLease
    <2>2. DispatcherTypeOK'
      BY <1>5 DEF SetLease
    <2> QED
      BY <1>2, <2>1, <2>2
  <1>6. CASE Fetch(i, r)
    <2>1. SharedTypeOK'
      BY <1>6 DEF Fetch
    <2>2. DispatcherTypeOK'
      BY <1>6 DEF Fetch
    <2> QED
      BY <1>2, <2>1, <2>2
  <1>7. CASE Mark(i, r)
    BY <1>2, <1>7 DEF Mark, Statuses
  <1>8. CASE Cleanup(i, r)
    BY <1>2, <1>8 DEF Cleanup, Statuses, Terminal
  <1>9. CASE Release(i, r)
    BY <1>2, <1>9 DEF Release, ReleaseSlot, LoopTop
  <1>10. CASE FetchMalformed(i)
    BY <1>2, <1>10 DEF FetchMalformed, WorkerEnds
  <1> QED
    BY <1>1, <1>3, <1>4, <1>5, <1>6, <1>7, <1>8, <1>9, <1>10

LEMMA TypeWind == ASSUME NEW i \in Instances
                  PROVE TypeOK /\ (Winds(i) \/ Answers(i)) => TypeOK'
  <1> SUFFICES ASSUME TypeOK, Winds(i) \/ Answers(i) PROVE TypeOK'
    OBVIOUS
  <1> USE ConstantsAssumption
      DEF TypeOK, SharedTypeOK, AdmissionTypeOK, DispatcherTypeOK, LeaseWatcherTypeOK,
          IntegrityTypeOK, CancelTypeOK, WGoto, Working, Holding, WorkerEnds
  <1>1. UNCHANGED <<reqVars, watcherVars, checkerVars, cancelVars, restVars>>
    BY DEF Winds, Answers
  <1>2. ASSUME NEW j \in Jobs, BzpopminStopping(i, j) PROVE TypeOK'
    BY <1>1, <1>2 DEF BzpopminStopping
  <1>3. CASE ClaimStop(i)
    BY <1>1, <1>3 DEF ClaimStop
  <1>4. CASE StopCancel(i)
    <2>1. SharedTypeOK'
      BY <1>4 DEF StopCancel, Statuses, Terminal, ProcStates
    <2>2. CASE WorkerEnds(i)
      BY <1>1, <1>4, <2>1, <2>2 DEF StopCancel
    <2>3. CASE wpc' = [wpc EXCEPT ![i] = "mark"] /\ wjob' = wjob
               /\ wout' = [wout EXCEPT ![i] = "cancelled"]
      BY <1>1, <1>4, <2>1, <2>3 DEF StopCancel, Terminal
    <2>4. CASE wpc' = [wpc EXCEPT ![i] = "release"] /\ UNCHANGED <<wjob, wout>>
      BY <1>1, <1>4, <2>1, <2>4 DEF StopCancel
    <2> QED
      BY <1>4, <2>2, <2>3, <2>4 DEF StopCancel
  <1>5. ASSUME NEW out \in {"completed", "failed"}, BackendReturns(i, out) PROVE TypeOK'
    BY <1>1, <1>5 DEF BackendReturns, Terminal
  <1> QED
    BY <1>2, <1>3, <1>4, <1>5 DEF Winds, Answers, WorkerStopping, BackendStep

LEMMA TypeWatch == TypeOK /\ (TimePasses \/ \E i \in Instances : Watches(i)) => TypeOK'
  <1> SUFFICES ASSUME TypeOK, TimePasses \/ \E i \in Instances : Watches(i) PROVE TypeOK'
    OBVIOUS
  <1> USE ConstantsAssumption
      DEF TypeOK, SharedTypeOK, AdmissionTypeOK, DispatcherTypeOK, LeaseWatcherTypeOK,
          IntegrityTypeOK, CancelTypeOK, Call
  <1>1. UNCHANGED <<reqVars, checkerVars, cancelVars, restVars>>
    BY DEF TimePasses, Watches
  <1>2. ASSUME NEW j \in Jobs, BecomesOverdue(j) \/ LeaseExpires(j) PROVE TypeOK'
    BY <1>1, <1>2 DEF BecomesOverdue, LeaseExpires
  <1>3. ASSUME NEW i \in Instances, Scan(i) PROVE TypeOK'
    BY <1>1, <1>3 DEF Scan
  <1>4. ASSUME NEW i \in Instances, NEW j \in Jobs, NEW r \in Reply, Check(i, j, r)
        PROVE TypeOK'
    BY <1>1, <1>4 DEF Check
  <1>5. ASSUME NEW i \in Instances, NEW r \in Reply, Reclaim(i, r) PROVE TypeOK'
    <2>4. orphan[i] \in Jobs
      BY <1>5 DEF Reclaim
    <2>5. ASSUME Executed(r) PROVE SharedTypeOK'
      <3>1. status' = [status EXCEPT ![orphan[i]] = "failed"] /\ inUse' = inUse - 1
        BY <1>5, <2>5 DEF Reclaim
      <3> QED
        BY <1>5, <2>4, <2>5, <3>1 DEF Reclaim, Statuses, Terminal
    <2>6. ASSUME ~Executed(r) PROVE SharedTypeOK'
      BY <1>5, <2>6 DEF Reclaim
    <2>1. SharedTypeOK'
      BY <2>5, <2>6
    <2>2. overbooked' = overbooked \/ overbooked' = overbooked + 1
      BY <1>5 DEF Reclaim
    <2>3. LeaseWatcherTypeOK' /\ DispatcherTypeOK'
      BY <1>5, <2>2 DEF Reclaim
    <2> QED
      BY <1>1, <2>1, <2>3
  <1> HIDE DEF TypeOK
  <1>6. CASE TimePasses
    BY <1>2, <1>6 DEF TimePasses, LeaseTime
  <1>7. ASSUME NEW i \in Instances, Watches(i) PROVE TypeOK'
    <2>1. \/ Scan(i)
          \/ \E j \in Jobs, r \in Reply : Check(i, j, r)
          \/ \E r \in Reply : Reclaim(i, r)
      BY <1>7 DEF Watches, WatcherStep
    <2> QED
      BY <1>3, <1>4, <1>5, <2>1
  <1> QED
    BY <1>6, <1>7

LEMMA TypeCheck == ASSUME NEW i \in Instances PROVE TypeOK /\ Checks(i) => TypeOK'
  <1> SUFFICES ASSUME TypeOK, Checks(i) PROVE TypeOK'
    OBVIOUS
  <1>1. Cardinality(inflight) \in Nat
    BY InflightCount
  <1> USE ConstantsAssumption
      DEF TypeOK, SharedTypeOK, AdmissionTypeOK, DispatcherTypeOK, LeaseWatcherTypeOK,
          IntegrityTypeOK, CancelTypeOK, Call, CheckerIdles
  <1>2. UNCHANGED <<reqVars, workerVars, candidates, orphan, overran, cancelVars, restVars>>
    BY DEF Checks
  <1>7. inUse' \in Int
    <2>1. inUse' = inUse \/ inUse' = actual[i]
      BY DEF Checks, CheckerStep, ReadActual, ReadRecorded, Accept, Correct
    <2> QED
      BY <2>1
  <1>8. overbooked' \in Nat
    <2>1. Cardinality(Counted) \in Nat
      BY CountedCount
    <2> QED
      BY <1>7, <2>1 DEF Checks
  <1>3. CASE ReadActual(i)
    BY <1>1, <1>2, <1>3, <1>8 DEF ReadActual
  <1>4. CASE ReadRecorded(i)
    BY <1>2, <1>4, <1>8 DEF ReadRecorded
  <1>5. ASSUME NEW r \in Reply, Correct(i, r) PROVE TypeOK'
    BY <1>2, <1>5, <1>7, <1>8 DEF Correct
  <1>6. CASE Accept(i)
    BY <1>2, <1>6, <1>8 DEF Accept
  <1> QED
    BY <1>3, <1>4, <1>5, <1>6, ZenonT(40) DEF Checks, CheckerStep

LEMMA TypeProcess == ASSUME NEW i \in Instances
                     PROVE TypeOK /\ (Crash(i) \/ Stop(i) \/ Restart(i)) => TypeOK'
  <1> SUFFICES ASSUME TypeOK, Crash(i) \/ Stop(i) \/ Restart(i) PROVE TypeOK'
    OBVIOUS
  <1> USE ConstantsAssumption, SchedulerAssumption
      DEF TypeOK, SharedTypeOK, AdmissionTypeOK, DispatcherTypeOK, LeaseWatcherTypeOK,
          IntegrityTypeOK, CancelTypeOK, ProcStates
  <1>1. CASE Crash(i)
    <2>1. SharedTypeOK' /\ crashes' \in 0..MaxCrashes /\ stops' \in 0..MaxStops
      BY <1>1 DEF Crash
    <2>2. AdmissionTypeOK' /\ CancelTypeOK'
      BY <1>1 DEF Crash, RequestsDie, CancelsDie, Handling, Cancelling
    <2>3. DispatcherTypeOK'
      BY <1>1 DEF Crash, WorkerDies, WorkerEnds, WGoto, Working, Holding
    <2>4. LeaseWatcherTypeOK' /\ IntegrityTypeOK'
      BY <1>1 DEF Crash, WatcherDies, CheckerIdles
    <2> QED
      BY <2>1, <2>2, <2>3, <2>4
  <1>2. CASE Stop(i)
    BY <1>2 DEF Stop, WatcherDies, CheckerIdles
  <1>3. CASE Restart(i)
    BY <1>3 DEF Restart, WorkerStarts, WGoto, Working, Holding
  <1> QED
    BY <1>1, <1>2, <1>3

\* Every step keeps the types, also beyond the bound on faults.
LEMMA TypeStep == TypeOK /\ [Step]_vars => TypeOK'
  <1> SUFFICES ASSUME TypeOK, [Step]_vars PROVE TypeOK'
    OBVIOUS
  <1>1. CASE UNCHANGED vars
    BY <1>1 DEF vars, TypeOK, SharedTypeOK, AdmissionTypeOK, DispatcherTypeOK, LeaseWatcherTypeOK,
          IntegrityTypeOK, CancelTypeOK
  <1>2. CASE Step
    BY <1>2, TypeAdmit, TypeCancel, TypeWork, TypeWind, TypeWatch, TypeCheck, TypeProcess
    DEF Step
  <1> QED
    BY <1>1, <1>2

\* TypeOK is inductive.
LEMMA TypeNext == TypeOK /\ [Next]_vars => TypeOK'
  BY TypeStep DEF Next

\* The number of faults is a number.
LEMMA FaultsCount == TypeOK => Faults \in Nat
  <1> SUFFICES ASSUME TypeOK PROVE Faults \in Nat
    OBVIOUS
  <1>1. Cardinality(overran) \in Nat
    BY ConstantsAssumption, FS_Subset, FS_CardinalityType DEF TypeOK, LeaseWatcherTypeOK
  <1>2. redisErrors \in Nat /\ crashes \in Nat /\ stops \in Nat
    BY ConstantsAssumption, SchedulerAssumption DEF TypeOK, SharedTypeOK
  <1> QED
    BY <1>1, <1>2 DEF Faults

\* ... also after a step.
LEMMA FaultsCountNext == (TypeOK => Faults \in Nat)'
  BY FaultsCount, PTL

\* Types: under every fault the model allows, every key of Redis and every
\* local variable of a handler or task keeps a value of its type; in particular
\* a worker that writes an outcome (_mark_completed and the like) has one.
THEOREM TypeCorrect == Spec => []TypeOK
  BY TypeInit, TypeNext, PTL DEF Spec
==============================================================================
