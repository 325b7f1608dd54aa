----------------------------- MODULE ResultProofs ------------------------------
(***************************************************************************)
(* Publishes, waiters and readers add nothing to what the scheduler does   *)
(* to its jobs: ResultApi implements Scheduler, so that everything proved  *)
(* of Scheduler holds of it.  What clients are told is true: "completed"   *)
(* comes with a result, and answers agree with the hash.                   *)
(***************************************************************************)
EXTENDS ResultApi, SlotProofs

USE DEF Reply, sharedVars, jobVars, slotVars, reqVars, workerVars, watcherVars,
        checkerVars, cancelVars, restVars, redisVars, waitVars, readVars

\* Every step of ResultApi is a step of Scheduler or leaves its state alone.
LEMMA StepOfScheduler == [ApiNext]_allVars => [Step]_vars
  <1> SUFFICES ASSUME [ApiNext]_allVars PROVE [Step]_vars
    OBVIOUS
  <1>1. CASE UNCHANGED allVars
    BY <1>1 DEF allVars
  <1>2. CASE Admits
    BY <1>2 DEF Admits, Step
  <1>3. CASE Cancelled
    BY <1>3 DEF Cancelled, Step
  <1>4. CASE Others
    BY <1>4 DEF Others, Step
  <1>5. ASSUME NEW i \in Instances, WorkerRuns(i) \/ WatcherRuns(i) \/ ProcessDies(i)
        PROVE Step
    BY <1>5 DEF WorkerRuns, WatcherRuns, ProcessDies, Step
  <1>6. ASSUME NEW p \in pubs, NEW r \in Reply, Publish(p, r) PROVE UNCHANGED vars
    BY <1>6 DEF Publish
  <1>7. ASSUME NEW j \in Jobs, Deadline(j) PROVE UNCHANGED vars
    BY <1>7 DEF Deadline
  <1>8. ASSUME NEW j \in Jobs, NEW r \in Reply, WaiterCall(j, r) PROVE UNCHANGED vars
    BY <1>8 DEF WaiterCall, Subscribe, Listen, Poll, LoadBlob
  <1>9. ASSUME NEW g \in Readers, ReadBlob(g) \/ \E j \in Jobs : ReadHash(g, j)
        PROVE UNCHANGED vars
    BY <1>9 DEF ReadBlob, ReadHash
  <1> QED
    BY <1>1, <1>2, <1>3, <1>4, <1>5, <1>6, <1>7, <1>8, <1>9 DEF ApiNext, ApiStep

------------------------------------------------------------------------------
(***************************************************************************)
(* Types.                                                                  *)
(***************************************************************************)

\* The steps of ResultApi that are no steps of Scheduler.
Aside ==
    \/ \E p \in pubs, r \in Reply : Publish(p, r)
    \/ \E j \in Jobs : Deadline(j) \/ \E r \in Reply : WaiterCall(j, r)
    \/ \E g \in Readers : ReadBlob(g) \/ \E j \in Jobs : ReadHash(g, j)

PubRecords == [by : Actors, job : Jobs, status : Terminal]

\* The step by which a worker announces an outcome is _mark_completed or
\* _mark_failed.
LEMMA AnnouncedByMark ==
  ASSUME NEW i \in Instances, TypeOK, Works(i) \/ Answers(i), Announced(i)
  PROVE  \E r \in Reply : Mark(i, r)
  BY DEF TypeOK, DispatcherTypeOK, Announced, Works, Answers, WorkerStep, BackendStep, Bzpopmin,
         Claim, SetLease, Fetch, FetchMalformed, Cleanup, Release, BackendReturns

\* What a step of the scheduler makes due is a publish of one of its parts.
LEMMA WorkerPubsType ==
  ASSUME NEW i \in Instances, TypeOK, Works(i) \/ Answers(i)
  PROVE  WorkerPubs(i) \subseteq PubRecords
  <1> USE DEF TypeOK, DispatcherTypeOK, Due, Actors, Working, Holding, PubRecords
  <1>1. CASE Announced(i)
    <2>1. wjob[i] \in Jobs /\ wout'[i] \in Terminal
      BY <1>1, AnnouncedByMark DEF Announced, Mark
    <2> QED
      BY <1>1, <2>1 DEF WorkerPubs
  <1>2. CASE ~Announced(i) /\ CleanedUp(i)
    BY <1>2 DEF WorkerPubs, CleanedUp, Terminal
  <1> QED
    BY <1>1, <1>2 DEF WorkerPubs

\* ... and the same of watchers and cancel requests.
LEMMA OtherPubsType ==
  ASSUME TypeOK
  PROVE  CancelPubs \subseteq PubRecords /\ \A i \in Instances : WatcherPubs(i) \subseteq PubRecords
  BY DEF TypeOK, LeaseWatcherTypeOK, CancelTypeOK, Due, Actors, Terminal, PubRecords, CancelPubs,
         WatcherPubs

\* The scheduler's steps keep the types of what clients see.
LEMMA ApiTypeCore ==
  ASSUME TypeOK, ApiTypeOK,
         \/ Admits \/ Cancelled \/ Others
         \/ \E i \in Instances : WorkerRuns(i) \/ WatcherRuns(i) \/ ProcessDies(i)
  PROVE  ApiTypeOK'
  <1> USE DEF ApiTypeOK, PubRecords
  <1>1. CASE Admits
    BY <1>1 DEF Admits, Pending, Responses
  <1>2. CASE Cancelled
    BY <1>2, OtherPubsType DEF Cancelled
  <1>3. CASE Others
    BY <1>3 DEF Others, apiVars
  <1>4. ASSUME NEW i \in Instances, WorkerRuns(i) PROVE ApiTypeOK'
    <2>1. blob' \subseteq Jobs
      BY <1>4 DEF WorkerRuns, BlobAfter, TypeOK, DispatcherTypeOK, Working, Holding
    <2> QED
      BY <1>4, <2>1, WorkerPubsType DEF WorkerRuns
  <1>5. ASSUME NEW i \in Instances, WatcherRuns(i) PROVE ApiTypeOK'
    BY <1>5, OtherPubsType DEF WatcherRuns
  <1>6. ASSUME NEW i \in Instances, ProcessDies(i) PROVE ApiTypeOK'
    BY <1>6 DEF ProcessDies
  <1> QED
    BY <1>1, <1>2, <1>3, <1>4, <1>5, <1>6

Labels == Responses \cup Pending \cup {"no", "error"}
Words == Terminal \cup {"subscribed"}

\* Publishes, waiters and readers keep the types, but for the bound on faults.
LEMMA ApiTypeAside ==
  ASSUME TypeOK, ApiTypeOK, Aside
  PROVE  /\ waiting' \in [Jobs -> Labels]
         /\ inbox' \in [Jobs -> Seq(Words)]
         /\ blob' \subseteq Jobs
         /\ pubs' \subseteq PubRecords
         /\ reading' \in [Readers -> {"idle", "load", "empty"}]
         /\ readJob' \in [Readers -> Jobs \cup {NoJob}]
         /\ \A g \in Readers : reading'[g] = "load" => readJob'[g] \in Jobs
         /\ apiErrors' \in Nat
  <1> USE DEF ApiTypeOK, PubRecords, Labels, Words
  <1>1. ASSUME NEW p \in pubs, NEW r \in Reply, Publish(p, r)
        PROVE  inbox' \in [Jobs -> Seq(Words)] /\ UNCHANGED <<waiting, readVars, blob>>
               /\ pubs' \subseteq pubs /\ apiErrors' \in Nat
    <2>1. p.status \in Words /\ p.job \in Jobs
      OBVIOUS
    <2>2. Append(inbox[p.job], p.status) \in Seq(Words)
      BY <2>1
    <2> QED
      BY <1>1, <2>1, <2>2, ResultAssumption DEF Publish, ApiCall
  <1>2. ASSUME NEW j \in Jobs, NEW r \in Reply, WaiterCall(j, r)
        PROVE  inbox' \in [Jobs -> Seq(Words)] /\ UNCHANGED <<readVars, blob, pubs>>
               /\ waiting' \in [Jobs -> Labels] /\ apiErrors' \in Nat
    <2>0. UNCHANGED <<readVars, blob, pubs>> /\ apiErrors' \in Nat
      BY <1>2, ResultAssumption DEF WaiterCall, Subscribe, Listen, Poll, LoadBlob, ApiCall
    <2>1. CASE Subscribe(j, r)
      <3>1. <<"subscribed">> \in Seq(Words) /\ <<>> \in Seq(Words)
        OBVIOUS
      <3> QED
        BY <2>0, <2>1, <3>1 DEF Subscribe, WaitGoto, Pending, Responses
    <2>2. ASSUME NEW s \in Terminal PROVE Outcome(s) \in Labels
      BY <2>2 DEF Outcome, Terminal, Pending, Responses
    <2>3. CASE Listen(j, r)
      <3>1. inbox[j] # <<>> => Tail(inbox[j]) \in Seq(Words) /\ Head(inbox[j]) \in Words
        OBVIOUS
      <3>2. PICK l \in Labels : waiting' = [waiting EXCEPT ![j] = l]
        BY <2>2, <2>3, <3>1 DEF Listen, WaitGoto, Pending
      <3> QED
        BY <2>0, <2>3, <3>1, <3>2 DEF Listen
    <2>4. CASE Poll(j, r)
      <3>1. PICK l \in Labels : waiting' = [waiting EXCEPT ![j] = l]
        BY <2>2, <2>4 DEF Poll, WaitGoto, Pending
      <3> QED
        BY <2>0, <2>4, <3>1 DEF Poll
    <2>5. CASE LoadBlob(j, r)
      BY <2>0, <2>5 DEF LoadBlob, WaitGoto, Pending, Responses
    <2> QED
      BY <1>2, <2>1, <2>3, <2>4, <2>5 DEF WaiterCall
  <1>3. ASSUME NEW j \in Jobs, Deadline(j)
        PROVE  waiting' \in [Jobs -> Labels] /\ UNCHANGED <<inbox, readVars, blob, pubs, apiErrors>>
    BY <1>3 DEF Deadline, WaitGoto, Responses
  <1>4. ASSUME NEW g \in Readers, ReadBlob(g) \/ \E j \in Jobs : ReadHash(g, j)
        PROVE  /\ reading' \in [Readers -> {"idle", "load", "empty"}]
               /\ readJob' \in [Readers -> Jobs \cup {NoJob}]
               /\ \A h \in Readers : reading'[h] = "load" => readJob'[h] \in Jobs
               /\ UNCHANGED <<waitVars, blob, pubs, apiErrors>>
    BY <1>4, ZenonT(40) DEF ReadBlob, ReadHash
  <1>5. apiErrors \in Nat
    BY ResultAssumption
  <1> QED
    BY <1>1, <1>2, <1>3, <1>4, <1>5 DEF Aside

\* A step of ResultApi is one of the scheduler or of a client.
LEMMA StepKinds ==
  ApiStep => \/ Admits \/ Cancelled \/ Others
             \/ \E i \in Instances : WorkerRuns(i) \/ WatcherRuns(i) \/ ProcessDies(i)
             \/ Aside
  BY DEF ApiStep, Aside

\* The types are preserved.
LEMMA ApiTypeNext == TypeOK /\ ApiTypeOK /\ [ApiNext]_allVars => (TypeOK /\ ApiTypeOK)'
  <1> SUFFICES ASSUME TypeOK, ApiTypeOK, [ApiNext]_allVars PROVE TypeOK' /\ ApiTypeOK'
    OBVIOUS
  <1>1. TypeOK'
    BY StepOfScheduler, TypeStep
  <1>2. CASE UNCHANGED allVars
    BY <1>1, <1>2 DEF allVars, apiVars, ApiTypeOK
  <1>3. CASE ApiNext
    <2>1. ASSUME apiErrors' \in Nat PROVE apiErrors' \in 0..MaxFaults
      <3>1. Faults' \in Nat
        BY <1>1, FaultsCountNext
      <3>2. Faults' + apiErrors' <= MaxFaults
        BY <1>3 DEF ApiNext
      <3>3. MaxFaults \in Nat
        BY ConstantsAssumption, SchedulerAssumption
      <3>4. PICK f \in Nat : f = Faults'
        BY <3>1
      <3>5. PICK e \in Nat : e = apiErrors'
        BY <2>1
      <3>6. f + e <= MaxFaults
        BY <3>2, <3>4, <3>5
      <3>7. e \in 0..MaxFaults
        BY <3>3, <3>6
      <3> QED
        BY <3>5, <3>7
    <2>2. CASE Aside
      BY <1>1, <2>1, <2>2, ApiTypeAside DEF ApiTypeOK, Labels, Words, PubRecords
    <2> QED
      BY <1>1, <1>3, <2>2, StepKinds, ApiTypeCore DEF ApiNext
  <1> QED
    BY <1>2, <1>3

\* The initial state is typed.
LEMMA ApiTypeInit == ApiInit => TypeOK /\ ApiTypeOK
  BY TypeInit, SchedulerAssumption DEF ApiInit, ApiTypeOK, Pending, Responses

\* The types of what clients see: no publish without a job, no answer that the
\* routes do not give, no reader that loads a result of nothing.
THEOREM ApiTypeCorrect == ApiSpec => []ApiTypeOK
  BY ApiTypeInit, ApiTypeNext, PTL DEF ApiSpec

------------------------------------------------------------------------------
(***************************************************************************)
(* Refinement: ResultApi implements Scheduler.                             *)
(***************************************************************************)

\* A step of ResultApi keeps within the scheduler's bound on faults.
LEMMA StepRefines == TypeOK /\ ApiTypeOK /\ [ApiNext]_allVars => [Next]_vars
  <1> SUFFICES ASSUME TypeOK, ApiTypeOK, [ApiNext]_allVars PROVE [Next]_vars
    OBVIOUS
  <1>1. CASE UNCHANGED allVars
    BY <1>1 DEF allVars
  <1>2. CASE ApiNext
    <2>1. (TypeOK /\ ApiTypeOK)'
      BY ApiTypeNext
    <2>2. Faults' \in Nat
      BY <2>1, FaultsCountNext
    <2>3. apiErrors' \in Nat
      BY <2>1, SchedulerAssumption DEF ApiTypeOK
    <2>4. Faults' + apiErrors' <= MaxFaults /\ MaxFaults \in Nat
      BY <1>2, ConstantsAssumption, SchedulerAssumption DEF ApiNext
    <2>5. PICK f \in Nat : f = Faults'
      BY <2>2
    <2>6. PICK e \in Nat : e = apiErrors'
      BY <2>3
    <2>7. f <= MaxFaults
      <3>1. f + e <= MaxFaults
        BY <2>4, <2>5, <2>6
      <3> QED
        BY <2>4, <3>1
    <2>8. Faults' <= MaxFaults
      BY <2>5, <2>7
    <2> QED
      BY <2>8, StepOfScheduler DEF Next
  <1> QED
    BY <1>1, <1>2

\* The composition with publishes, synchronous clients and readers implements
\* the scheduler: none of them changes what happens to a job.
THEOREM ApiImplementsScheduler == ApiSpec => Spec
  <1>1. ApiInit => Init
    BY DEF ApiInit
  <1> QED
    BY <1>1, ApiTypeInit, ApiTypeNext, StepRefines, PTL DEF ApiSpec, Spec

\* So clients that wait and read see a scheduler that never runs a job it
\* reported as cancelled, and whose queue holds untouched jobs only.
THEOREM ApiKeepsPromises == ApiSpec => [](CancelHonoured /\ QueuedIsUntouched)
  BY ApiImplementsScheduler, CancelsHold, QueueUntouched, PTL

------------------------------------------------------------------------------
(***************************************************************************)
(* What publishes, waiters and readers learn.                              *)
(***************************************************************************)

Elements(s) == {s[k] : k \in 1..Len(s)}

\* The messages in a queue that one more is appended to.
LEMMA AppendElements ==
  ASSUME NEW S, NEW s \in Seq(S), NEW e \in S
  PROVE  Elements(Append(s, e)) \subseteq Elements(s) \cup {e}
  BY DEF Elements

\* The messages in a queue whose head is taken.
LEMMA TailElements ==
  ASSUME NEW S, NEW s \in Seq(S), s # <<>>
  PROVE  Elements(Tail(s)) \subseteq Elements(s) /\ Head(s) \in Elements(s)
  BY DEF Elements

\* The outcomes of j that its waiter can learn of next: from its inbox or from
\* the hash.
Learnable(j) == (Messages(j) \ {"subscribed"}) \cup ({status[j]} \cap Terminal)

\* The only things that reach an inbox are publishes, and a waiter acts on what
\* it can learn.
LEMMA AsideLearns ==
  ASSUME TypeOK, ApiTypeOK, Aside, NEW j \in Jobs
  PROVE  /\ UNCHANGED <<vars, blob>>
         /\ pubs' \subseteq pubs
         /\ Messages(j)' \subseteq Messages(j) \cup {"subscribed"}
                                     \cup {p.status : p \in {x \in pubs : x.job = j}}
         /\ \/ waiting'[j] = waiting[j]
            \/ waiting'[j] \in {"listen", "poll", "error", "504"}
            \/ \E s \in Learnable(j) : s \in Terminal /\ waiting'[j] = Outcome(s)
            \/ waiting[j] = "load" /\ waiting'[j] = IF j \in blob THEN "200" ELSE "500"
  <1> USE DEF ApiTypeOK, Words
  <1>1. ASSUME NEW p \in pubs, NEW r \in Reply, Publish(p, r)
        PROVE  /\ UNCHANGED <<vars, blob, waiting>>
               /\ pubs' \subseteq pubs
               /\ Messages(j)' \subseteq Messages(j) \cup {q.status : q \in {x \in pubs : x.job = j}}
    <2>1. CASE inbox'[j] = inbox[j]
      BY <1>1, <2>1 DEF Publish, Messages
    <2>2. CASE p.job = j /\ inbox'[j] = Append(inbox[j], p.status)
      <3>1. p.status \in Terminal \cup {"subscribed"}
        OBVIOUS
      <3>2. Elements(Append(inbox[j], p.status)) \subseteq Elements(inbox[j]) \cup {p.status}
        BY <3>1, AppendElements
      <3> QED
        BY <1>1, <2>2, <3>2 DEF Publish, Messages, Elements
    <2>3. inbox'[j] = inbox[j] \/ (p.job = j /\ inbox'[j] = Append(inbox[j], p.status))
      BY <1>1 DEF Publish
    <2> QED
      BY <2>1, <2>2, <2>3
  <1>2. ASSUME NEW k \in Jobs, NEW r \in Reply, WaiterCall(k, r)
        PROVE  /\ UNCHANGED <<vars, blob, pubs>>
               /\ Messages(j)' \subseteq Messages(j) \cup {"subscribed"}
               /\ \/ waiting'[j] = waiting[j]
                  \/ waiting'[j] \in {"listen", "poll", "error", "504"}
                  \/ \E s \in Learnable(j) : s \in Terminal /\ waiting'[j] = Outcome(s)
                  \/ waiting[j] = "load" /\ waiting'[j] = IF j \in blob THEN "200" ELSE "500"
    <2>0. UNCHANGED <<vars, blob, pubs>>
      BY <1>2 DEF WaiterCall, Subscribe, Listen, Poll, LoadBlob
    <2>1. CASE k # j
      <3>1. waiting'[j] = waiting[j] /\ inbox'[j] = inbox[j]
        BY <1>2, <2>1 DEF WaiterCall, Subscribe, Listen, Poll, LoadBlob, WaitGoto
      <3> QED
        BY <2>0, <3>1 DEF Messages
    <2>2. CASE k = j /\ Subscribe(j, r)
      <3>1. inbox'[j] \in {<<"subscribed">>, <<>>} /\ waiting'[j] \in {"listen", "error"}
        BY <2>2 DEF Subscribe, WaitGoto
      <3>2. Messages(j)' \subseteq {"subscribed"}
        BY <3>1 DEF Messages
      <3> QED
        BY <2>0, <3>1, <3>2
    <2>3. CASE k = j /\ Listen(j, r)
      <3>1. CASE inbox'[j] = inbox[j]
        <4>1. waiting'[j] \in {"error", "poll"} \/ inbox[j] # <<>>
          BY <2>3 DEF Listen, WaitGoto
        <4>2. inbox[j] # <<>> => Tail(inbox[j]) # inbox[j]
          <5> SUFFICES ASSUME inbox[j] # <<>> PROVE Len(Tail(inbox[j])) # Len(inbox[j])
            OBVIOUS
          <5>1. inbox[j] \in Seq(Words)
            OBVIOUS
          <5> QED
            BY <5>1
        <4>3. waiting'[j] \in {"error", "poll"}
          BY <2>3, <3>1, <4>1, <4>2 DEF Listen, WaitGoto
        <4> QED
          BY <2>0, <3>1, <4>3 DEF Messages
      <3>2. CASE inbox'[j] # inbox[j]
        <4>1. /\ inbox[j] # <<>>
              /\ inbox'[j] = Tail(inbox[j])
              /\ waiting'[j] = IF Head(inbox[j]) = "subscribed" THEN "poll"
                                                                ELSE Outcome(Head(inbox[j]))
          BY <2>3, <3>2 DEF Listen, WaitGoto
        <4>2. Elements(Tail(inbox[j])) \subseteq Elements(inbox[j]) /\ Head(inbox[j]) \in Elements(inbox[j])
          BY <4>1, TailElements
        <4>3. Head(inbox[j]) \in Terminal \cup {"subscribed"}
          BY <4>1
        <4>4. Messages(j)' \subseteq Messages(j) /\ Head(inbox[j]) \in Messages(j)
          BY <4>1, <4>2 DEF Messages, Elements
        <4> QED
          BY <2>0, <4>1, <4>3, <4>4 DEF Learnable
      <3> QED
        BY <3>1, <3>2
    <2>4. CASE k = j /\ Poll(j, r)
      <3>1. inbox'[j] = inbox[j]
        BY <2>4 DEF Poll
      <3>2. \/ waiting'[j] \in {"listen", "error"}
            \/ status[j] \in Terminal /\ waiting'[j] = Outcome(status[j])
        BY <2>4 DEF Poll, WaitGoto
      <3> QED
        BY <2>0, <3>1, <3>2 DEF Messages, Learnable
    <2>5. CASE k = j /\ LoadBlob(j, r)
      <3>1. inbox'[j] = inbox[j] /\ waiting[j] = "load"
        BY <2>5 DEF LoadBlob
      <3>2. waiting'[j] = "error" \/ waiting'[j] = IF j \in blob THEN "200" ELSE "500"
        BY <2>5 DEF LoadBlob, WaitGoto
      <3> QED
        BY <2>0, <3>1, <3>2 DEF Messages
    <2> QED
      BY <1>2, <2>1, <2>2, <2>3, <2>4, <2>5 DEF WaiterCall
  <1>3. ASSUME NEW k \in Jobs, Deadline(k)
        PROVE  /\ UNCHANGED <<vars, blob, pubs, inbox>>
               /\ waiting'[j] = waiting[j] \/ waiting'[j] = "504"
    BY <1>3 DEF Deadline, WaitGoto
  <1>4. ASSUME NEW g \in Readers, ReadBlob(g) \/ \E k \in Jobs : ReadHash(g, k)
        PROVE  UNCHANGED <<vars, blob, pubs, inbox, waiting>>
    BY <1>4 DEF ReadBlob, ReadHash
  <1>5. UNCHANGED inbox => Messages(j)' = Messages(j)
    BY DEF Messages
  <1> HIDE DEF ApiTypeOK
  <1> QED
    BY <1>1, <1>2, <1>3, <1>4, <1>5 DEF Aside

------------------------------------------------------------------------------
(***************************************************************************)
(* "Completed" comes with a result.                                        *)
(***************************************************************************)

\* Only a worker writes "completed", with the blob in the same command.
LEMMA BlobWorker ==
  ASSUME NEW i \in Instances, TypeOK, WorkerRuns(i), redisErrors = 0, redisErrors' = 0,
         \A j \in Jobs : status[j] = "completed" => j \in blob
  PROVE  /\ \A j \in Jobs : status'[j] = "completed" => j \in blob'
         /\ blob \subseteq blob'
         /\ \A p \in pubs' \ pubs : p.status = "completed" => p.job \in blob'
  <1> USE DEF TypeOK, SharedTypeOK, DispatcherTypeOK, Working, Holding
  <1>1. blob \subseteq blob'
    BY DEF WorkerRuns, BlobAfter
  <1>2. CASE \E r \in Reply : Mark(i, r)
    <2>1. PICK r \in Reply : Mark(i, r)
      BY <1>2
    <2>2. r = "ok"
      BY <2>1 DEF Mark, Call
    <2>3. PICK j \in Jobs : j = wjob[i]
      BY <2>1 DEF Mark
    <2>4. /\ wpc[i] = "mark" /\ wout' = wout
          /\ status' = [status EXCEPT ![j] = wout[i]]
      BY <2>1, <2>2, <2>3 DEF Mark, Executed
    <2>5. blob' = IF status # status' /\ status'[j] = "completed" THEN blob \cup {j} ELSE blob
      BY <2>3, <2>4 DEF WorkerRuns, BlobAfter
    <2>6. \A k \in Jobs : status'[k] = "completed" => k \in blob'
      BY <2>4, <2>5
    <2>7. \A p \in pubs' \ pubs : p.job = j /\ p.status = wout[i]
      BY <2>1, <2>3, <2>4 DEF WorkerRuns, WorkerPubs, Announced, Mark, WGoto, Due
    <2> QED
      BY <1>1, <2>4, <2>6, <2>7
  <1>3. CASE ~ \E r \in Reply : Mark(i, r)
    <2>1. \A j \in Jobs : status'[j] = "completed" => status[j] = "completed"
      BY <1>3 DEF WorkerRuns, Works, Answers, WorkerStep, BackendStep, Bzpopmin, Claim, ClaimSlot,
                  SetLease, Fetch, FetchMalformed, Cleanup, Release, BackendReturns
    <2>2. \A p \in pubs' \ pubs : p.status = "failed"
      BY <1>3, AnnouncedByMark DEF WorkerRuns, WorkerPubs, Due
    <2> QED
      BY <1>1, <2>1, <2>2
  <1> QED
    BY <1>2, <1>3

\* The other parts never write it.
LEMMA BlobOthers ==
  ASSUME TypeOK,
         \/ Admits \/ Cancelled \/ Others
         \/ \E i \in Instances : WatcherRuns(i) \/ ProcessDies(i)
  PROVE  /\ \A j \in Jobs : status'[j] = "completed" => status[j] = "completed"
         /\ blob' = blob
         /\ \A p \in pubs' \ pubs : p.status # "completed"
  <1> USE DEF TypeOK, SharedTypeOK
  <1>1. CASE Admits
    BY <1>1 DEF Admits, AdmitSteps, AdmissionNext, Receive, Reject, Enqueue, EnqueueJob, RecordKey,
                StorePayload
  <1>2. CASE Cancelled
    <2>1. \A j \in Jobs : status'[j] = "completed" => status[j] = "completed"
      BY <1>2 DEF Cancelled, CancelSteps, CancelNext, CancelRead, CancelScript, CancelQueued,
                  CancelExpire, CancelMark
    <2> QED
      BY <1>2, <2>1 DEF Cancelled, CancelPubs, Due
  <1>3. CASE Others
    BY <1>3 DEF Others, apiVars, TimePasses, LeaseTime, BecomesOverdue, LeaseExpires, Restart
  <1>4. ASSUME NEW i \in Instances, WatcherRuns(i)
        PROVE  /\ \A j \in Jobs : status'[j] = "completed" => status[j] = "completed"
               /\ blob' = blob
               /\ \A p \in pubs' \ pubs : p.status # "completed"
    BY <1>4 DEF WatcherRuns, Watches, WatcherStep, Scan, Check, Reclaim, WatcherPubs, Due
  <1>5. ASSUME NEW i \in Instances, ProcessDies(i)
        PROVE  UNCHANGED <<status, blob>> /\ pubs' \subseteq pubs
    BY <1>5 DEF ProcessDies, Crash
  <1> QED
    BY <1>1, <1>2, <1>3, <1>4, <1>5

\* The scheduler's steps answer no client.
LEMMA CoreAnswersNobody ==
  ASSUME ApiTypeOK,
         \/ Admits \/ Cancelled \/ Others
         \/ \E i \in Instances : WorkerRuns(i) \/ WatcherRuns(i) \/ ProcessDies(i)
  PROVE  /\ UNCHANGED <<inbox, readVars>>
         /\ \A j \in Jobs : Messages(j)' = Messages(j)
         /\ \A j \in Jobs : waiting'[j] = waiting[j] \/ waiting'[j] \in {"subscribe", "error"}
  <1>1. UNCHANGED <<inbox, readVars>>
    BY DEF Admits, Cancelled, Others, WorkerRuns, WatcherRuns, ProcessDies, apiVars
  <1>2. \A j \in Jobs : waiting'[j] = waiting[j] \/ waiting'[j] \in {"subscribe", "error"}
    BY DEF Admits, Cancelled, Others, WorkerRuns, WatcherRuns, ProcessDies, apiVars
  <1> QED
    BY <1>1, <1>2 DEF Messages

\* BlobInv is preserved.
LEMMA BlobNext ==
  ASSUME TypeOK, ApiTypeOK, BlobInv, [ApiNext]_allVars
  PROVE  BlobInv'
  <1> SUFFICES ASSUME redisErrors' = 0 PROVE BlobInv'
    BY DEF BlobInv
  <1>1. redisErrors = 0
    BY StepRefines, ErrorsGrow, ConstantsAssumption DEF TypeOK, SharedTypeOK
  <1>2. CASE UNCHANGED allVars
    BY <1>2 DEF allVars, apiVars, vars, BlobInv, Messages
  <1>3. CASE \/ Admits \/ Cancelled \/ Others
             \/ \E i \in Instances : WorkerRuns(i) \/ WatcherRuns(i) \/ ProcessDies(i)
    <2>1. /\ \A j \in Jobs : status'[j] = "completed" => j \in blob'
          /\ blob \subseteq blob'
          /\ \A p \in pubs' \ pubs : p.status = "completed" => p.job \in blob'
      BY <1>1, <1>3, BlobWorker, BlobOthers DEF BlobInv
    <2> QED
      BY <1>1, <1>3, <2>1, CoreAnswersNobody DEF BlobInv
  <1>4. CASE Aside
    <2>1. UNCHANGED <<status, blob>> /\ pubs' \subseteq pubs
      BY <1>4, ZenonT(40) DEF Aside, Publish, Deadline, WaiterCall, Subscribe, Listen, Poll, LoadBlob, ReadBlob,
                  ReadHash, vars
    <2>2. ASSUME NEW j \in Jobs
          PROVE  /\ status'[j] = "completed" \/ "completed" \in Messages(j)' \/ waiting'[j] = "load"
                        => j \in blob'
                 /\ waiting'[j] # "500"
      <3>1. "completed" \in Messages(j)' => j \in blob
        BY <1>1, <1>4, AsideLearns DEF BlobInv
      <3>2. "completed" \in Learnable(j) => j \in blob
        BY <1>1 DEF BlobInv, Learnable
      <3>3. \A s \in Terminal : /\ Outcome(s) = "load" => s = "completed"
                                /\ Outcome(s) # "500"
        BY DEF Outcome, Terminal
      <3>4. waiting'[j] = "load" => j \in blob
        BY <1>1, <1>4, <3>2, <3>3, AsideLearns DEF BlobInv
      <3>5. waiting'[j] # "500"
        BY <1>1, <1>4, <3>3, AsideLearns DEF BlobInv
      <3> QED
        BY <1>1, <2>1, <3>1, <3>4, <3>5 DEF BlobInv
    <2>3. ASSUME NEW g \in Readers
          PROVE  (reading'[g] = "load" => readJob'[g] \in blob) /\ reading'[g] # "empty"
      BY <1>1, <1>4 DEF Aside, Publish, Deadline, WaiterCall, Subscribe, Listen, Poll, LoadBlob,
                        ReadBlob, ReadHash, BlobInv, ApiTypeOK
    <2> QED
      BY <1>1, <2>1, <2>2, <2>3 DEF BlobInv
  <1> QED
    BY <1>2, <1>3, <1>4, StepKinds DEF ApiNext

\* "Completed" is never a phantom: as long as the writes of outcomes succeed, no
\* synchronous client gets 500 for a missing result and no GET /jobs/{id} shows
\* an empty one, for any number of clients, crashes and lost publishes.
THEOREM CompletedHasResult == ApiSpec => []NoPhantomCompletion
  <1> DEFINE Inv == TypeOK /\ ApiTypeOK /\ BlobInv
  <1>1. ApiInit => Inv
    <2>1. ApiInit => BlobInv
      BY DEF ApiInit, Init, SharedInit, BlobInv, Messages
    <2> QED
      BY <2>1, ApiTypeInit, TypeInit DEF ApiInit
  <1>2. Inv /\ [ApiNext]_allVars => Inv'
    BY ApiTypeNext, StepRefines, BlobNext
  <1>3. Inv => NoPhantomCompletion
    BY ResultAssumption DEF BlobInv, NoPhantomCompletion
  <1> QED
    BY <1>1, <1>2, <1>3, PTL DEF ApiSpec

------------------------------------------------------------------------------
(***************************************************************************)
(* Answers agree with the hash.                                            *)
(***************************************************************************)

\* A cancel request never takes back for which job it was sent.
LEMMA CancelsStay ==
  ASSUME TypeOK, CalmStep, NEW c \in Cancels, canPc[c] # "new"
  PROVE  canPc'[c] # "new" /\ canJob'[c] = canJob[c]
         /\ (canPc[c] \in {"expire", "removed"} => canPc'[c] \in {"expire", "removed", "aborted"})
  <1> USE DEF TypeOK, CancelTypeOK
  <1>1. CASE CancelSteps
    BY <1>1 DEF CancelSteps, CancelNext, CancelRead, CancelScript, CancelExpire, CancelMark, CanGoto
  <1>2. CASE UNCHANGED cancelVars
    BY <1>2
  <1> QED
    BY <1>1, <1>2 DEF CalmStep, AdmitSteps, TimePasses, Works, Answers, Watches, Checks

\* The cancel request that overwrites an outcome is none that removed its job.
LEMMA OverwritesCancelled ==
  ASSUME TypeOK, Outcomes, CancelSteps, NEW j \in Jobs, status[j] = "cancelled",
         status'[j] = "cancelling"
  PROVE  Recancelled(j)'
  <1> USE DEF TypeOK, CancelTypeOK, SharedTypeOK
  <1>1. PICK c \in Cancels : canJob[c] = j /\ canPc[c] \in {"expire", "removed"}
    BY DEF Outcomes
  <1>2. PICK d \in Cancels, r \in Reply : CancelMark(d, r) /\ canJob[d] = j
    BY DEF CancelSteps, CancelNext, CancelRead, CancelScript, CancelQueued, CancelExpire, CancelMark
  <1>3. c # d /\ canPc[d] = "mark"
    BY <1>1, <1>2 DEF CancelMark
  <1>4. canJob' = canJob /\ canPc'[c] = canPc[c] /\ canPc'[d] # "new"
    BY <1>2, <1>3 DEF CancelMark, CanGoto
  <1> QED
    BY <1>1, <1>2, <1>3, <1>4 DEF Recancelled

\* Nobody but a cancel request writes "cancelling".
LEMMA CancellingByCancel ==
  ASSUME TypeOK, CalmStep, NEW j \in Jobs, status'[j] = "cancelling", status[j] # "cancelling"
  PROVE  CancelSteps
  <1> USE DEF TypeOK, SharedTypeOK, DispatcherTypeOK
  <1>1. CASE AdmitSteps
    BY <1>1 DEF AdmitSteps, AdmissionNext, Receive, Reject, Enqueue, EnqueueJob, RecordKey,
                StorePayload
  <1>2. ASSUME NEW i \in Instances, Works(i) \/ Answers(i) PROVE FALSE
    BY <1>2 DEF Works, Answers, WorkerStep, BackendStep, Bzpopmin, Claim, ClaimSlot, SetLease, Fetch,
                FetchMalformed, Mark, Cleanup, Release, BackendReturns, Terminal
  <1>3. ASSUME TimePasses \/ \E i \in Instances : Watches(i) \/ Checks(i) PROVE FALSE
    BY <1>3 DEF TimePasses, LeaseTime, BecomesOverdue, LeaseExpires, Watches, WatcherStep, Scan,
                Check, Reclaim, Checks, CheckerStep, ReadActual, ReadRecorded, Correct, Accept
  <1> QED
    BY <1>1, <1>2, <1>3 DEF CalmStep

\* What has been concluded stays so.
LEMMA ConcludedStays ==
  ASSUME AllInv, CalmInv, OutcomeInv, Calm', Outcomes, [Next]_vars,
         NEW j \in Jobs, NEW s, Concluded(j, s)
  PROVE  Concluded(j, s)'
  <1>1. TypeOK /\ Calm /\ CalmSlots
    BY CalmBefore DEF AllInv, CalmInv
  <1>2. /\ Done(j)'
        /\ status'[j] \in {status[j], "cancelling"} \/ (j \in dlq /\ status'[j] = "failed")
        /\ j \in dlq' => j \in dlq \/ status'[j] = "failed"
    BY SettlesNext DEF Settles, Concluded
  <1>3. j \in dlq' => s = "failed"
    BY <1>2 DEF Concluded
  <1>4. ASSUME Next PROVE CalmStep
    BY <1>1, <1>4, CalmSteps
  <1>5. Recancelled(j) => Recancelled(j)'
    <2>1. CASE UNCHANGED vars
      BY <2>1 DEF vars, Recancelled
    <2>2. CASE Next
      BY <1>1, <1>4, <2>2, CancelsStay DEF Recancelled
    <2> QED
      BY <2>1, <2>2
  <1>6. CASE status'[j] = status[j] \/ (j \in dlq /\ status'[j] = "failed")
    BY <1>2, <1>3, <1>5, <1>6 DEF Concluded
  <1>7. CASE status'[j] = "cancelling" /\ status[j] # "cancelling"
    <2>1. CancelSteps
      BY <1>1, <1>4, <1>7, CancellingByCancel DEF vars
    <2>2. s = "cancelled" => Recancelled(j)'
      BY <1>1, <1>7, <2>1, OverwritesCancelled DEF Concluded
    <2> QED
      BY <1>2, <1>3, <1>7, <2>2 DEF Concluded
  <1> QED
    BY <1>2, <1>6, <1>7

\* Workers write what they are left with, cancel requests "cancelled".
LEMMA OutcomesNext ==
  ASSUME CoreInv, CoreInv', Calm', Outcomes, [Next]_vars
  PROVE  Outcomes'
  <1>1. TypeOK /\ TypeOK' /\ Calm /\ CalmSlots /\ AllInv /\ CalmInv /\ OutcomeInv /\ Settled'
    BY CalmBefore DEF CoreInv, AllInv, CalmInv, OutcomeInv
  <1> USE DEF TypeOK, SharedTypeOK, DispatcherTypeOK, CancelTypeOK
  <1>2. CASE UNCHANGED vars
    BY <1>2 DEF vars, Outcomes, Concluded, Done, Gone, Fresh, Abandoned, Recancelled
  <1>3. CASE Next
    <2>1. CalmStep
      BY <1>1, <1>3, CalmSteps
    <2>2. \A i \in Instances : wout'[i] # "cancelled" /\ (wpc'[i] = "release" => wout'[i] # "none")
      <3>1. CASE UNCHANGED workerVars
        BY <3>1 DEF Outcomes
      <3>2. ASSUME NEW i \in Instances, Works(i) \/ Answers(i)
            PROVE  \A k \in Instances : wout'[k] # "cancelled" /\ (wpc'[k] = "release" => wout'[k] # "none")
        BY <1>1, <3>2 DEF Works, Answers, WorkerStep, BackendStep, Bzpopmin, Claim, SetLease, Fetch,
                    FetchMalformed, Mark, Cleanup, Release, BackendReturns, LoopTop, WorkerEnds, WGoto,
                    Outcomes, CalmSlots, Terminal
      <3> QED
        BY <2>1, <3>1, <3>2 DEF CalmStep, AdmitSteps, CancelSteps, TimePasses, LeaseTime,
                                BecomesOverdue, LeaseExpires, Watches, WatcherStep, Scan, Check,
                                Reclaim, Checks
    <2>3. ASSUME NEW c \in Cancels, canPc[c] \in {"expire", "removed"}
          PROVE  canPc'[c] \in {"expire", "removed"} /\ canJob'[c] = canJob[c]
      <3>1. CASE CancelSteps
        BY <1>1, <2>3, <3>1, ConstantsAssumption
        DEF CancelSteps, CancelNext, CancelRead, CancelScript, CancelExpire, CancelMark, CanGoto,
            Call, Calm
      <3>2. CASE UNCHANGED cancelVars
        BY <2>3, <3>2
      <3> QED
        BY <2>1, <3>1, <3>2 DEF CalmStep, AdmitSteps, TimePasses, Works, Answers, Watches, Checks
    <2>4. ASSUME NEW c \in Cancels, canPc'[c] \in {"expire", "removed"},
                 canPc[c] \notin {"expire", "removed"}
          PROVE  canJob'[c] \in Jobs /\ status'[canJob'[c]] = "cancelled"
      <3>1. CASE CancelSteps
        <4>1. PICK r \in Reply : CancelScript(c, r) /\ r = "ok" /\ canJob[c] \in Queued
          BY <1>1, <2>4, <3>1
          DEF CancelSteps, CancelNext, CancelRead, CancelScript, CancelExpire, CancelMark, CanGoto
        <4> QED
          BY <1>1, <4>1 DEF CancelScript, CancelQueued, Executed, Queued
      <3>2. CASE UNCHANGED cancelVars
        BY <2>4, <3>2
      <3> QED
        BY <2>1, <3>1, <3>2 DEF CalmStep, AdmitSteps, TimePasses, Works, Answers, Watches, Checks
    <2>5. ASSUME NEW j \in Jobs, status'[j] = "cancelled", status[j] # "cancelled"
          PROVE  \E c \in Cancels : canJob'[c] = j /\ canPc'[c] \in {"expire", "removed"}
      <3>1. CASE CancelSteps
        <4>1. PICK c \in Cancels, r \in Reply :
                 CancelScript(c, r) /\ canJob[c] = j /\ canJob[c] \in Queued
          BY <1>1, <2>5, <3>1
          DEF CancelSteps, CancelNext, CancelRead, CancelScript, CancelQueued, CancelExpire,
              CancelMark, Queued
        <4>2. r = "ok"
          BY <1>1, <4>1, ConstantsAssumption DEF CancelScript, Call, Calm
        <4> QED
          BY <1>1, <4>1, <4>2 DEF CancelScript, CanGoto
      <3>2. CASE AdmitSteps
        BY <1>1, <2>5, <3>2 DEF AdmitSteps, AdmissionNext, Receive, Reject, Enqueue, EnqueueJob, RecordKey,
                          StorePayload
      <3>3. ASSUME NEW i \in Instances, Works(i) \/ Answers(i) PROVE FALSE
        BY <1>1, <2>5, <3>3 DEF Works, Answers, WorkerStep, BackendStep, Bzpopmin, Claim, ClaimSlot, SetLease,
                          Fetch, FetchMalformed, Mark, Cleanup, Release, BackendReturns, Outcomes
      <3>4. ASSUME TimePasses \/ \E i \in Instances : Watches(i) \/ Checks(i) PROVE FALSE
        BY <1>1, <2>5, <3>4 DEF TimePasses, LeaseTime, BecomesOverdue, LeaseExpires, Watches, WatcherStep,
                          Scan, Check, Reclaim, Checks, CheckerStep, ReadActual, ReadRecorded,
                          Correct, Accept
      <3> QED
        BY <2>1, <3>1, <3>2, <3>3, <3>4 DEF CalmStep
    <2>6. \A j \in Jobs : status'[j] = "cancelled" =>
             \E c \in Cancels : canJob'[c] = j /\ canPc'[c] \in {"expire", "removed"}
      BY <2>3, <2>5 DEF Outcomes
    <2>7. ASSUME NEW c \in Cancels, canPc'[c] \in {"expire", "removed"}
          PROVE  Concluded(canJob[c], "cancelled")'
      <3>1. PICK j \in Jobs : j = canJob'[c]
        BY <1>1, <2>7
      <3>2. CASE canPc[c] \in {"expire", "removed"}
        <4>1. Concluded(j, "cancelled")
          BY <2>3, <3>1, <3>2 DEF Outcomes
        <4>2. Concluded(j, "cancelled")'
          BY <1>1, <4>1, ConcludedStays
        <4> QED
          BY <3>1, <4>2
      <3>3. CASE canPc[c] \notin {"expire", "removed"}
        <4>1. status'[j] = "cancelled"
          BY <2>4, <2>7, <3>1, <3>3
        <4>2. Done(j)' /\ j \notin dlq'
          BY <1>1, <4>1 DEF Settled, Terminal
        <4>3. Concluded(j, "cancelled")'
          BY <4>1, <4>2 DEF Concluded
        <4> QED
          BY <3>1, <4>3
      <3> QED
        BY <3>2, <3>3
    <2> QED
      BY <2>2, <2>6, <2>7 DEF Outcomes
  <1> QED
    BY <1>2, <1>3

\* A publish that falls due announces what has just been written, or what a
\* cancel request wrote before it set the TTL.
LEMMA DueIsTrue ==
  ASSUME CoreInv, CoreInv', Calm', Outcomes, Outcomes', ApiTypeOK,
         \/ Admits \/ Cancelled \/ Others
         \/ \E i \in Instances : WorkerRuns(i) \/ WatcherRuns(i) \/ ProcessDies(i),
         [Next]_vars, NEW p \in pubs' \ pubs
  PROVE  p.job \in Jobs /\ Concluded(p.job, p.status)'
  <1>1. TypeOK /\ Calm /\ CalmSlots /\ OrphanInv /\ Settled' /\ TypeOK'
    BY CalmBefore DEF CoreInv, AllInv, CalmInv, OutcomeInv
  <1> USE DEF TypeOK, SharedTypeOK, DispatcherTypeOK, CancelTypeOK, LeaseWatcherTypeOK, Due
  <1>2. ASSUME NEW j \in Jobs, NEW s \in Terminal, p.job = j, p.status = s, status'[j] = s
        PROVE  p.job \in Jobs /\ Concluded(p.job, p.status)'
    <2>1. Done(j)' /\ (j \in dlq' => s = "failed")
      BY <1>1, <1>2 DEF Settled, Terminal
    <2> QED
      BY <1>2, <2>1 DEF Concluded
  <1>3. ASSUME NEW i \in Instances, WorkerRuns(i)
        PROVE  \E j \in Jobs, s \in Terminal : p.job = j /\ p.status = s /\ status'[j] = s
    <2>1. Works(i) \/ Answers(i)
      BY <1>3 DEF WorkerRuns
    <2>2. p \in WorkerPubs(i) /\ ~CleanedUp(i)
      BY <1>1, <1>3 DEF WorkerRuns, CleanedUp, Outcomes
    <2>3. Announced(i) /\ p = Due("worker", i, wjob[i], wout'[i])
      BY <2>2 DEF WorkerPubs
    <2>4. PICK r \in Reply : Mark(i, r)
      BY <1>1, <2>1, <2>3, AnnouncedByMark
    <2>5. r = "ok"
      BY <1>1, <2>4, ConstantsAssumption DEF Mark, Call, Calm
    <2> QED
      BY <1>1, <2>3, <2>4, <2>5 DEF Mark, Executed, Working, Holding
  <1>4. ASSUME NEW i \in Instances, WatcherRuns(i)
        PROVE  \E j \in Jobs, s \in Terminal : p.job = j /\ p.status = s /\ status'[j] = s
    <2>1. p = Due("watcher", i, orphan[i], "failed") /\ orphan[i] # NoJob
      BY <1>4 DEF WatcherRuns, WatcherPubs
    <2>2. PICK r \in Reply : Reclaim(i, r)
      BY <1>4, <2>1 DEF WatcherRuns, Watches, WatcherStep, Scan, Scanning, Check
    <2>3. r = "ok"
      BY <1>1, <2>2, ConstantsAssumption DEF Reclaim, Call, Calm
    <2> QED
      BY <1>1, <2>1, <2>2, <2>3 DEF Reclaim, Executed, Terminal
  <1>5. CASE Cancelled
    <2>1. PICK c \in Cancels : /\ p = Due("cancel", c, canJob[c], "cancelled")
                               /\ canPc[c] = "expire" /\ canPc'[c] = "removed"
      BY <1>5 DEF Cancelled, CancelPubs
    <2>2. canJob'[c] = canJob[c] /\ canJob[c] \in Jobs
      BY <1>1, <1>5, <2>1 DEF Cancelled, CancelSteps, CancelNext, CancelRead, CancelScript,
                              CancelExpire, CancelMark, CanGoto
    <2>3. Concluded(canJob[c], "cancelled")'
      BY <2>1 DEF Outcomes
    <2>4. PICK j \in Jobs : j = canJob[c] /\ j = canJob'[c]
      BY <2>2
    <2>5. Concluded(j, "cancelled")'
      BY <2>3, <2>4
    <2>6. p.job = j /\ p.status = "cancelled"
      BY <2>1, <2>4
    <2> QED
      BY <2>5, <2>6
  <1>6. CASE Admits \/ Others \/ \E i \in Instances : ProcessDies(i)
    BY <1>6 DEF Admits, Others, ProcessDies, apiVars
  <1> QED
    BY <1>2, <1>3, <1>4, <1>5, <1>6

\* Truthful is preserved.
LEMMA TruthfulNext ==
  ASSUME CoreInv, CoreInv', Calm', Outcomes, Outcomes', ApiTypeOK, Truthful,
         [ApiNext]_allVars
  PROVE  Truthful'
  <1>a. TypeOK /\ AllInv /\ CalmInv /\ OutcomeInv
    BY DEF CoreInv, AllInv
  <1>b. [Next]_vars
    BY <1>a, StepRefines
  <1>1. Calm /\ Settled /\ Settled'
    BY <1>a, <1>b, CalmBefore DEF CoreInv, OutcomeInv
  <1>2. \A j \in Jobs : \A s \in Terminal : Concluded(j, s) => Concluded(j, s)'
    BY <1>a, <1>b, ConcludedStays
  <1>3. \A p \in pubs : p.job \in Jobs /\ p.status \in Terminal
    BY DEF ApiTypeOK
  <1>4. \A p \in pubs : Concluded(p.job, p.status)'
    BY <1>2, <1>3 DEF Truthful
  <1>5. \A j \in Jobs : Messages(j) \subseteq Terminal \cup {"subscribed"}
    BY DEF ApiTypeOK, Messages
  <1>6. CASE UNCHANGED allVars
    BY <1>6 DEF allVars, apiVars, vars, Truthful, Messages, Concluded, Done, Gone, Fresh, Abandoned,
                Recancelled
  <1>7. CASE \/ Admits \/ Cancelled \/ Others
             \/ \E i \in Instances : WorkerRuns(i) \/ WatcherRuns(i) \/ ProcessDies(i)
    <2>1. \A p \in pubs' : Concluded(p.job, p.status)'
      BY <1>1, <1>b, <1>4, <1>7, DueIsTrue
    <2>2. ASSUME NEW j \in Jobs
          PROVE  /\ \A s \in Messages(j)' \ {"subscribed"} : Concluded(j, s)'
                 /\ waiting'[j] \in {"load", "200"} => Concluded(j, "completed")'
                 /\ waiting'[j] = "409" => Concluded(j, "cancelled")'
                 /\ waiting'[j] = "502" => Concluded(j, "failed")'
      BY <1>2, <1>5, <1>7, CoreAnswersNobody DEF Truthful, Terminal
    <2> QED
      BY <2>1, <2>2 DEF Truthful
  <1>8. CASE Aside
    <2>1. ASSUME NEW j \in Jobs
          PROVE  /\ \A s \in Messages(j)' \ {"subscribed"} : Concluded(j, s)'
                 /\ waiting'[j] \in {"load", "200"} => Concluded(j, "completed")'
                 /\ waiting'[j] = "409" => Concluded(j, "cancelled")'
                 /\ waiting'[j] = "502" => Concluded(j, "failed")'
      <3>1. \A s \in Learnable(j) : s \in Terminal /\ Concluded(j, s)
        BY <1>1, <1>5 DEF Learnable, Truthful, Concluded, Settled, Terminal
      <3>2. \A s \in Messages(j)' \ {"subscribed"} : s \in Terminal /\ Concluded(j, s)
        BY <1>a, <1>1, <1>3, <1>5, <1>8, AsideLearns DEF Truthful
      <3>3. \A s \in Terminal : /\ Outcome(s) \in {"load", "200"} => s = "completed"
                                /\ Outcome(s) = "409" => s = "cancelled"
                                /\ Outcome(s) = "502" => s = "failed"
        BY DEF Outcome, Terminal
      <3>4. /\ waiting'[j] \in {"load", "200"} => Concluded(j, "completed")
            /\ waiting'[j] = "409" => Concluded(j, "cancelled")
            /\ waiting'[j] = "502" => Concluded(j, "failed")
        BY <1>a, <1>1, <1>8, <3>1, <3>3, AsideLearns DEF Truthful
      <3> QED
        BY <1>2, <3>2, <3>4 DEF Terminal
    <2>2. pubs' \subseteq pubs
      BY <1>8 DEF Aside, Publish, Deadline, WaiterCall, Subscribe, Listen, Poll, LoadBlob, ReadBlob,
                  ReadHash
    <2> QED
      BY <1>4, <2>1, <2>2 DEF Truthful
  <1> QED
    BY <1>6, <1>7, <1>8, StepKinds DEF ApiNext

\* Nobody is stopped here, and no checker runs.
LEMMA NoStops == TypeOK /\ [ApiNext]_allVars => stops' = stops /\ (resetBy = {} => resetBy' = {})
  <1> SUFFICES ASSUME TypeOK, [ApiNext]_allVars PROVE stops' = stops /\ (resetBy = {} => resetBy' = {})
    OBVIOUS
  <1>1. stops' = stops
    BY ZenonT(40) DEF ApiNext, ApiStep, Admits, AdmitSteps, Cancelled, CancelSteps, Others, TimePasses, Restart,
           WorkerRuns, Works, Answers, WatcherRuns, Watches, ProcessDies, Crash, Publish, Deadline,
           WaiterCall, Subscribe, Listen, Poll, LoadBlob, ReadBlob, ReadHash, vars, allVars
  <1>2. resetBy' = resetBy
    BY ZenonT(40) DEF ApiNext, ApiStep, Admits, AdmitSteps, Cancelled, CancelSteps, Others, TimePasses, Restart,
           WorkerRuns, Works, Answers, WatcherRuns, Watches, ProcessDies, Crash, CheckerIdles, Publish,
           Deadline, WaiterCall, Subscribe, Listen, Poll, LoadBlob, ReadBlob, ReadHash, vars, allVars
  <1> QED
    BY <1>1, <1>2

\* AnswerInv is preserved.
LEMMA AnswerNext ==
  ASSUME CoreInv, ApiTypeOK, AnswerInv, [ApiNext]_allVars
  PROVE  AnswerInv'
  <1>1. [Next]_vars /\ TypeOK /\ CoreInv' /\ stops' = 0 /\ resetBy' = {}
    BY StepRefines, CoreNext, NoStops DEF CoreInv, AllInv, AnswerInv
  <1>2. ASSUME Calm' PROVE Outcomes' /\ Truthful'
    <2>1. Calm /\ Outcomes /\ Truthful
      BY <1>1, <1>2, CalmBefore DEF AnswerInv
    <2>2. Outcomes'
      BY <1>1, <1>2, <2>1, OutcomesNext
    <2> QED
      BY <1>1, <1>2, <2>1, <2>2, TruthfulNext
  <1> QED
    BY <1>1, <1>2 DEF AnswerInv

\* The answer of a synchronous client is what the hash says, and stays so until
\* a cancel request overwrites it: whichever of PUBLISH and HGET it learned the
\* outcome from, whenever it subscribed, and however publishes are lost or late.
THEOREM AnswersAreTrue == ApiSpec => []AnswersAgree
  <1> DEFINE Inv == CoreInv /\ ApiTypeOK /\ AnswerInv
  <1>1. ApiInit => Inv
    <2>1. ApiInit => AnswerInv
      BY DEF ApiInit, Init, SharedInit, DispatcherInit, CancelInit, IntegrityInit, AnswerInv, Outcomes, Truthful,
             Messages
    <2> QED
      BY <2>1, ApiTypeInit, CoreInit DEF ApiInit
  <1>2. Inv /\ [ApiNext]_allVars => Inv'
    <2> SUFFICES ASSUME Inv, [ApiNext]_allVars PROVE Inv'
      OBVIOUS
    <2>1. CoreInv'
      BY StepRefines, CoreNext DEF CoreInv, AllInv
    <2>2. ApiTypeOK'
      BY <2>1, ApiTypeNext DEF CoreInv, AllInv
    <2> QED
      BY <2>1, <2>2, AnswerNext
  <1>3. Inv => AnswersAgree
    BY ResultAssumption DEF AnswerInv, Calm, Truthful, Concluded, AnswersAgree
  <1> QED
    BY <1>1, <1>2, <1>3, PTL DEF ApiSpec

==============================================================================
