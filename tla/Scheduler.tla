------------------------------- MODULE Scheduler -------------------------------
(***************************************************************************)
(* The whole scheduler for one model alias: submit and cancel handlers,    *)
(* dispatcher workers, lease watchers and integrity checkers of all        *)
(* processes, interleaved over one Redis, with process crashes, graceful   *)
(* stops, restarts and failing Redis calls.                                *)
(***************************************************************************)
EXTENDS CancelApi, LeaseWatcher, IntegrityChecker

CONSTANTS
    MaxCrashes,   \* bound: process crashes in one behaviour
    MaxStops,     \* bound: graceful shutdowns in one behaviour
    MaxFaults     \* bound: all of these faults together, with those of the parts

ASSUME SchedulerAssumption == MaxCrashes \in Nat /\ MaxStops \in Nat /\ MaxFaults \in Nat

VARIABLES
    crashes,  \* process crashes so far
    stops     \* graceful shutdowns so far

vars == <<sharedVars, reqVars, workerVars, watcherVars, checkerVars, cancelVars,
          crashes, stops>>

TypeOK ==
    /\ SharedTypeOK
    /\ AdmissionTypeOK
    /\ DispatcherTypeOK
    /\ LeaseWatcherTypeOK
    /\ IntegrityTypeOK
    /\ CancelTypeOK
    /\ crashes \in 0..MaxCrashes
    /\ stops \in 0..MaxStops

Init ==
    /\ SharedInit
    /\ AdmissionInit
    /\ DispatcherInit
    /\ LeaseWatcherInit
    /\ IntegrityInit
    /\ CancelInit
    /\ crashes = 0
    /\ stops = 0

redisVars == <<jobVars, slotVars, idem, redisErrors>>

\* The process dies (kill, OOM, power): only Redis survives.
Crash(i) ==
    /\ proc[i] # "down"
    /\ proc[i] = "up" \/ wpc[i] # "off"
    /\ crashes < MaxCrashes
    /\ crashes' = crashes + 1
    /\ proc' = [proc EXCEPT ![i] = "down"]
    /\ RequestsDie(i)
    /\ CancelsDie(i)
    /\ WorkerDies(i)
    /\ WatcherDies(i)
    /\ CheckerIdles(i)
    /\ UNCHANGED <<redisVars, stops, resetBy>>

\* _shutdown: the server has drained its request handlers; the checker and
\* the watcher are stopped first, then the worker's stop event is set.
Stop(i) ==
    /\ proc[i] = "up"
    /\ NoRequestIn(i)
    /\ NoCancelIn(i)
    /\ stops < MaxStops
    /\ stops' = stops + 1
    /\ proc' = [proc EXCEPT ![i] = "stopping"]
    /\ WatcherDies(i)
    /\ CheckerIdles(i)
    /\ UNCHANGED <<redisVars, reqVars, workerVars, cancelVars, crashes, resetBy>>

\* _startup: capacity is rewritten, in_use is kept (SETNX), new tasks start.
Restart(i) ==
    /\ wpc[i] = "off"
    /\ proc[i] # "up"
    /\ proc' = [proc EXCEPT ![i] = "up"]
    /\ WorkerStarts(i)
    /\ UNCHANGED <<redisVars, reqVars, watcherVars, checkerVars, cancelVars,
                   crashes, stops>>

restVars == <<crashes, stops>>

AdmitSteps == AdmissionNext /\ UNCHANGED <<workerVars, watcherVars, checkerVars, cancelVars, restVars>>
CancelSteps == CancelNext /\ UNCHANGED <<workerVars, watcherVars, checkerVars, restVars>>
Works(i)   == WorkerStep(i) /\ UNCHANGED <<reqVars, watcherVars, checkerVars, cancelVars, restVars>>
Winds(i)   == WorkerStopping(i) /\ UNCHANGED <<reqVars, watcherVars, checkerVars, cancelVars, restVars>>
Answers(i) == BackendStep(i) /\ UNCHANGED <<reqVars, watcherVars, checkerVars, cancelVars, restVars>>
Watches(i) == WatcherStep(i) /\ UNCHANGED <<reqVars, checkerVars, cancelVars, restVars>>
TimePasses == LeaseTime /\ UNCHANGED <<reqVars, checkerVars, cancelVars, restVars>>

\* Jobs that a worker holds a slot for or that inflight:{model} lists.
Counted == HeldJobs \cup inflight

\* A reset forgets the jobs that in_use had counted and the inflight set, as it
\* was read, had not.
Checks(i) ==
    /\ CheckerStep(i)
    /\ overbooked' = LET forgotten == Cardinality(Counted) - inUse'
                     IN IF inUse' # inUse /\ forgotten > overbooked THEN forgotten ELSE overbooked
    /\ UNCHANGED <<reqVars, workerVars, candidates, orphan, overran, cancelVars, restVars>>

Step ==
    \/ AdmitSteps
    \/ CancelSteps
    \/ TimePasses
    \/ \E i \in Instances :
        \/ Works(i)
        \/ Winds(i)
        \/ Answers(i)
        \/ Watches(i)
        \/ Checks(i)
        \/ Crash(i)
        \/ Stop(i)
        \/ Restart(i)

Faults == redisErrors + crashes + stops + Cardinality(overran)

Next == Step /\ Faults' <= MaxFaults

Spec == Init /\ [][Next]_vars

(***************************************************************************)
(* Fairness: the event loop runs every ready task, Redis and LiteLLM       *)
(* answer (or time out), keys expire and a supervisor restarts a process   *)
(* that went down.  Nothing obliges clients to send requests.  (MaxFaults  *)
(* must not exclude what TimePasses allows, or these would contradict it:  *)
(* the instances with fairness have no job that outlasts its lease.)       *)
(***************************************************************************)
Fairness ==
    /\ WF_vars(TimePasses)
    /\ \A i \in Instances :
        /\ WF_vars(Works(i))
        /\ WF_vars(Winds(i))
        /\ WF_vars(Answers(i))
        /\ WF_vars(Watches(i))
        /\ WF_vars(Checks(i))
        /\ WF_vars(Restart(i))

FairSpec == Spec /\ Fairness

------------------------------------------------------------------------------
(***************************************************************************)
(* Safety under every fault.                                               *)
(***************************************************************************)

\* The queue never holds more than max_queue_depth jobs, however many
\* handlers pass the depth check of enqueue_job at the same time.
QueueBounded == Cardinality(Queued) <= MaxQueueDepth

\* A job in the queue is a job nobody has touched: its hash says "queued",
\* no worker has it, it holds no slot and the backend has not seen it.
QueuedIsUntouched ==
    \A j \in Queued :
        /\ status[j] = "queued"
        /\ forwarded[j] = 0
        /\ j \notin inflight \cup dlq
        /\ \A i \in Instances : wjob[i] # j

\* The backend is never sent the same job twice: not by two workers, not after
\* a crash and restart, not after a lost reply.
AtMostOnce == \A j \in Jobs : forwarded[j] <= 1

\* A client that is told "cancelled" because the cancel script removed the
\* job can rely on it: the backend never sees that job.
CancelHonoured ==
    \A c \in Cancels : canPc[c] \in {"expire", "removed"} =>
        /\ forwarded[canJob[c]] = 0
        /\ canJob[c] \notin Queued
        /\ \A i \in Instances : wjob[i] # canJob[c]

\* Retries of an answered request are deduplicated: once a request with a key
\* is answered the key is recorded, and every request that finds it recorded
\* gets that one job id, then and later.
RetriesDeduplicated ==
    \A q \in Jobs : KeyOf[q] # NoKey =>
        /\ reqPc[q] = "answered" => idem[KeyOf[q]] # NoJob
        /\ reqPc[q] = "hit" => /\ answer[q] = idem[KeyOf[q]]
                               /\ status[answer[q]] # "absent"

(***************************************************************************)
(* Slots, for any number of processes, crashes, stops, Redis errors, slow  *)
(* workers, overlapping scans and resets.  overbooked counts the slots     *)
(* that lease_watcher.py and integrity.py give away while they are taken.  *)
(***************************************************************************)

\* Every job that a live worker holds a slot for, or that inflight:{model}
\* lists, is counted in in_use, except for the slots that a reclaim or a reset
\* gave away: claim, lease, release, crash and stop may leak a slot in whatever
\* order they fail, and never give one twice.  Before the first reset in_use
\* stays within the capacity.
SlotsAccounted ==
    /\ Cardinality(Counted) <= inUse + overbooked
    /\ resetBy = {} => inUse <= MaxConcurrency

\* The backend has at most max_concurrency requests of the model, and one more
\* for every slot that was overbooked.
ConcurrencyBound == Cardinality(Forwarding) <= MaxConcurrency + overbooked

\* How far reclaims overbook, before the first reset: a job that outlasted its
\* lease costs its slot once, and every reclaimed job may be reclaimed by each
\* of the other processes too.  One process whose workers finish within their
\* lease overbooks nothing, however calls fail and watchers are restarted.
OverbookingBounded ==
    resetBy = {} =>
        overbooked <= Cardinality(overran \cap dlq)
                        + (Cardinality(Instances) - 1) * Cardinality(dlq)

\* With a capacity up to the tolerance the integrity checker never finds a
\* drift, whatever slots have leaked: in_use cannot exceed the capacity.
CheckerDormant ==
    \A i \in Instances : seen[i] = {"actual", "recorded"} => ~Drifted(i)

Pool == INSTANCE SlotPool WITH
    Work <- Jobs,
    Capacity <- MaxConcurrency,
    running <- {wjob[i] : i \in Forwarding},
    started <- {j \in Jobs : forwarded[j] > 0},
    extra <- overbooked

\* The scheduler implements the slot pool: its backend traffic is that of a
\* pool of max_concurrency slots, widened by what is overbooked, that never
\* repeats a piece of work.
ImplementsPool == Pool!Spec

(***************************************************************************)
(* Without crashes, stops, Redis errors, jobs that outlast their lease and *)
(* resets, whatever is cancelled.                                          *)
(***************************************************************************)

\* No fault so far.
Calm == redisErrors = 0 /\ crashes = 0 /\ stops = 0 /\ overran = {} /\ resetBy = {}

\* Jobs whose priority ended the worker that had claimed them; a watcher finds
\* them in the inflight set.
Abandoned == {j \in inflight \cap Malformed : \A i \in Instances : wjob[i] # j}

\* in_use is exactly the number of workers between claim and release and of
\* abandoned jobs that no watcher has reclaimed yet, less the slots of those
\* that a second watcher has reclaimed again.
SlotsExact == inUse = Cardinality(Holders) + Cardinality(Abandoned) - overbooked

\* A job whose hash says "queued" or "dispatched" is in the queue, in the hands
\* of a live worker, or abandoned in the inflight set: nothing that was accepted
\* is forgotten.
NoLostJob ==
    \A j \in Jobs : status[j] \in {"queued", "dispatched"} =>
        j \in Queued \cup Abandoned \/ \E i \in Instances : wjob[i] = j

\* No outcome is replaced by another one, by no worker, watcher or cancel request
\* in whatever order they write.  The status itself is not final: a cancel request
\* that read it before the job ended still writes "cancelling" over the outcome
\* (routes.py, against the "no-op" of architecture.md, section 7).
OutcomeKept ==
    [][Calm' => \A j \in Jobs : status[j] \in Terminal =>
                    status'[j] \in {status[j], "cancelling"}]_vars

(***************************************************************************)
(* Liveness.                                                               *)
(***************************************************************************)

\* Every job that is enqueued reaches a terminal status, also one whose priority
\* ends the worker that takes it, and the jobs behind it, while another process
\* still has a worker.
JobsFinish ==
    \A j \in Jobs : status[j] = "queued" ~> status[j] \in Terminal

\* Every inflight entry is removed, by its worker or by a watcher.
InflightDrains ==
    \A j \in Jobs : j \in inflight ~> j \notin inflight

\* A drift beyond the tolerance is corrected.
DriftCorrected ==
    (inUse > Cardinality(inflight) + Tolerance)
        ~> (inUse <= Cardinality(inflight) + Tolerance)

------------------------------------------------------------------------------
(***************************************************************************)
(* Inductive invariants.                                                   *)
(***************************************************************************)

\* The handler of j has not run the enqueue script yet.
Fresh(j) == reqPc[j] \in {"new", "admit"}

\* j has left the queue; nothing ever puts it back.
Gone(j) == queue[j] = 0 /\ ~Fresh(j)

\* The life of a job: fresh, then queued, then gone; only then is it forwarded,
\* in flight or in the dead-letter set.
JobLife ==
    /\ \A j \in Jobs : Fresh(j) => queue[j] = 0
    /\ \A j \in Jobs : queue[j] # 0 => status[j] = "queued"
    /\ \A j \in Jobs : ~Gone(j) => forwarded[j] = 0
    /\ \A j \in Jobs : forwarded[j] <= 1
    /\ \A j \in inflight \cup overdue \cup overran \cup dlq : Gone(j)

\* A worker's job is gone, is no other worker's, and is not forwarded before
\* the worker reaches the backend; a watcher's jobs are gone.
JobOwners ==
    \A i \in Instances :
        /\ wjob[i] # NoJob => Gone(wjob[i])
        /\ wpc[i] \in {"claim", "lease", "fetch"} => forwarded[wjob[i]] = 0
        /\ \A k \in Instances : wjob[i] = wjob[k] /\ wjob[i] # NoJob => i = k
        /\ \A j \in candidates[i] : Gone(j)
        /\ orphan[i] # NoJob => Gone(orphan[i])

\* Ids that were given away are not fresh; a cancel writes to gone jobs, and
\* one that removed its job did so before any worker had it.
JobClients ==
    /\ \A q \in Jobs : answer[q] # NoJob => ~Fresh(answer[q])
    /\ \A k \in Keys : idem[k] # NoJob => ~Fresh(idem[k])
    /\ \A c \in Cancels :
        /\ canPc[c] # "new" => ~Fresh(canJob[c])
        /\ canPc[c] \in {"expire", "removed", "mark"} => Gone(canJob[c])
        /\ canPc[c] \in {"expire", "removed"} =>
            /\ forwarded[canJob[c]] = 0
            /\ \A i \in Instances : wjob[i] # canJob[c]

JobInv == JobLife /\ JobOwners /\ JobClients

\* A key is recorded before its request is answered and is never recorded
\* again; the job it names was enqueued before.
RetryInv ==
    /\ \A k \in Keys : idem[k] # NoJob => status[idem[k]] # "absent"
    /\ \A q \in Jobs :
        /\ reqPc[q] = "record" => status[q] # "absent"
        /\ reqPc[q] \in {"store", "answered"} /\ KeyOf[q] # NoKey => idem[KeyOf[q]] # NoJob
        /\ reqPc[q] = "hit" /\ KeyOf[q] # NoKey =>
            idem[KeyOf[q]] # NoJob /\ answer[q] = idem[KeyOf[q]]

\* The watcher of process i is going to examine or reclaim j.
Refers(i, j) == j \in candidates[i] \/ orphan[i] = j

\* A job is overdue, or reclaimed, only in nobody's hands or after it outlasted
\* its lease, and a watcher refers to nothing else; a job that was reclaimed is
\* not in flight again.
OrphanInv ==
    /\ overdue \subseteq inflight
    /\ inflight \cap dlq = {}
    /\ \A i \in Instances :
        /\ wjob[i] \in overdue \cup dlq => wjob[i] \in overran
        /\ wpc[i] \in {"claim", "lease"} => wjob[i] \notin inflight \cup dlq \cup overran
        /\ \A j \in Jobs : Refers(i, j) => j \in overdue \cup dlq \cup overran
        /\ orphan[i] # NoJob => orphan[i] \notin candidates[i]

\* The jobs that must be counted fit into the capacity and what is overbooked,
\* and no checker has read more than the capacity before the first reset.
SlotInv ==
    /\ SlotsAccounted
    /\ Cardinality(Counted) <= MaxConcurrency + overbooked
    /\ resetBy = {} => \A i \in Instances : recorded[i] <= MaxConcurrency

\* Watchers that refer to a job that was already reclaimed.
Again == {p \in Instances \X dlq : Refers(p[1], p[2])}

\* A reclaim overbooks when it is not the first one of its job, or when the job
\* outlasted its lease; every process reclaims a job at most once.
ReclaimInv ==
    resetBy = {} =>
        overbooked + Cardinality(Again) + Cardinality(dlq \ overran)
            <= Cardinality(Instances) * Cardinality(dlq)

\* Without a fault a job is in the inflight set from its lease to its release,
\* nothing else is in it but abandoned jobs, and the outcome of a job is written
\* when its slot is about to be released.
CalmSlots ==
    /\ \A i \in Instances :
        /\ proc[i] = "up"
        /\ wpc[i] # "cleanup"
        /\ wpc[i] \in Holding \ {"lease"} => wjob[i] \in inflight
        /\ wpc[i] = "release" => status[wjob[i]] \notin {"queued", "dispatched"}
    /\ inflight \subseteq HeldJobs \cup Malformed

CalmInv == Calm => CalmSlots /\ SlotsExact /\ NoLostJob

\* j is out of everybody's hands, except those of a worker that is about to
\* release its slot.
Done(j) ==
    /\ Gone(j)
    /\ j \notin Abandoned
    /\ \A i \in Instances : wjob[i] = j => wpc[i] = "release"

\* Without a fault only such jobs have an outcome, and that of a reclaimed job
\* is "failed".
Settled ==
    /\ \A j \in Jobs : status[j] \in Terminal => Done(j)
    /\ \A j \in dlq : Done(j) /\ status[j] \in {"failed", "cancelling"}

OutcomeInv == Calm => Settled

------------------------------------------------------------------------------
(***************************************************************************)
(* What comments and documents of the repository say and the code does not *)
(* do; each is refuted by a run of its own.                                *)
(***************************************************************************)

\* dispatcher.py: "The full request payload is in 'payload_json' field" of the
\* hash the worker reads.
PayloadForwarded == sentEmpty = {}

\* architecture.md, section 3: "if exists, return cached job_id": two answered
\* requests with one idempotency key got the same job.
OneJobPerKey ==
    \A q1, q2 \in Jobs :
        reqPc[q1] = "answered" /\ reqPc[q2] = "answered" /\ KeyOf[q1] = KeyOf[q2]
            /\ KeyOf[q1] # NoKey => answer[q1] = answer[q2]

==============================================================================
