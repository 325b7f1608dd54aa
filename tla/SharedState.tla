------------------------------ MODULE SharedState ------------------------------
(***************************************************************************)
(* What every part of the scheduler shares for one model alias: the keys   *)
(* in Redis (app/storage/redis_keys.py), the three Lua scripts that change *)
(* several of them atomically (app/storage/redis_lua.py), what a call to   *)
(* Redis can do to its caller, and which scheduler processes run.          *)
(*                                                                         *)
(* Models are independent of each other in the code (every key carries the *)
(* model's name), so one model alias stands for any of them.               *)
(***************************************************************************)
EXTENDS Integers, FiniteSets

CONSTANTS
    Jobs,            \* job ids; a job id also names the request that creates it
    Instances,       \* scheduler processes that share one Redis
    Scores,          \* composite priority scores a job may be given
    Keys,            \* idempotency keys
    KeyOf,           \* the key each request carries, or NoKey
    NoKey,
    Malformed,       \* requests whose metadata.priority is no integer (2.5, say)
    NoJob,
    NoInstance,
    MaxConcurrency,  \* slots:{model}:capacity
    MaxQueueDepth,   \* max_queue_depth of the model
    MaxRedisErrors   \* bound: Redis calls that fail in one behaviour

ASSUME ConstantsAssumption ==
    /\ IsFiniteSet(Jobs)
    /\ IsFiniteSet(Instances)
    /\ Scores \subseteq Nat \ {0}
    /\ KeyOf \in [Jobs -> Keys \cup {NoKey}]
    /\ NoKey \notin Keys
    /\ Malformed \subseteq Jobs
    /\ NoJob \notin Jobs
    /\ NoInstance \notin Instances
    /\ MaxConcurrency \in Nat \ {0}
    /\ MaxQueueDepth \in Nat \ {0}
    /\ MaxRedisErrors \in Nat

VARIABLES
    queue,        \* queue:{model}, a ZSET: the score of a member, 0 of a non-member
    status,       \* field status of job:{id}, "absent" while there is no hash
    payload,      \* jobs whose hash has the field payload_json
    expiring,     \* jobs whose hash has been given its TTL
    inUse,        \* slots:{model}:in_use
    inflight,     \* members of inflight:{model}
    overdue,      \* members of inflight whose score is below a watcher's cutoff
    lease,        \* jobs whose lease:{id} exists
    dlq,          \* members of dlq:{model}
    idem,         \* idem:{sha256(key)}: the job recorded for a key, or NoJob
    redisErrors,  \* failed Redis calls so far (bounded by MaxRedisErrors)
    proc          \* what each scheduler process is doing

jobVars  == <<queue, status, payload, expiring>>
slotVars == <<inUse, inflight, overdue, lease, dlq>>
sharedVars == <<jobVars, slotVars, idem, redisErrors, proc>>

\* JobStatus as far as the code ever writes it to Redis: "admitted", "timeout"
\* and "rejected" are declared in app/state.py and never stored.
Terminal == {"completed", "failed", "cancelled"}
Statuses == {"absent", "queued", "dispatched", "cancelling"} \cup Terminal

\* "stopping": the stop events are set; "cancelled": the five seconds of
\* DispatcherWorker.stop ran out and the worker task was cancelled.
ProcStates == {"up", "stopping", "cancelled", "down"}

Queued == {j \in Jobs : queue[j] # 0}

SharedTypeOK ==
    /\ queue \in [Jobs -> Scores \cup {0}]
    /\ status \in [Jobs -> Statuses]
    /\ payload \subseteq Jobs
    /\ expiring \subseteq Jobs
    /\ inUse \in Int
    /\ inflight \subseteq Jobs
    /\ overdue \subseteq Jobs
    /\ lease \subseteq Jobs
    /\ dlq \subseteq Jobs
    /\ idem \in [Keys -> Jobs \cup {NoJob}]
    /\ redisErrors \in 0..MaxRedisErrors
    /\ proc \in [Instances -> ProcStates]

\* _startup: capacity is written, in_use is created with SETNX.
SharedInit ==
    /\ queue = [j \in Jobs |-> 0]
    /\ status = [j \in Jobs |-> "absent"]
    /\ payload = {}
    /\ expiring = {}
    /\ inUse = 0
    /\ inflight = {}
    /\ overdue = {}
    /\ lease = {}
    /\ dlq = {}
    /\ idem = [k \in Keys |-> NoJob]
    /\ redisErrors = 0
    /\ proc = [i \in Instances |-> "up"]

------------------------------------------------------------------------------
(***************************************************************************)
(* A call to Redis.  The client of _startup has a 5 s socket timeout and   *)
(* no retries, so a call either succeeds, fails before the server executes *)
(* it, or fails after the server has executed it.                          *)
(***************************************************************************)
Reply == {"ok", "lostRequest", "lostReply"}

Executed(r) == r # "lostRequest"

\* Every action that calls Redis has Call(r) as a conjunct.
Call(r) ==
    /\ r # "ok" => redisErrors < MaxRedisErrors
    /\ redisErrors' = IF r = "ok" THEN redisErrors ELSE redisErrors + 1

------------------------------------------------------------------------------
(***************************************************************************)
(* The Lua scripts: what each one changes when it takes effect.            *)
(***************************************************************************)

\* BUG: the depth check admits one job too many.
EnqueueRoomOffByOne == Cardinality(Queued) <= MaxQueueDepth

EnqueueRoom == Cardinality(Queued) < MaxQueueDepth

EnqueueJob(j, s) ==
    /\ queue' = [queue EXCEPT ![j] = s]
    /\ status' = [status EXCEPT ![j] = "queued"]

\* BUG: in_use <= capacity in the claim script.
ClaimRoomOffByOne == inUse <= MaxConcurrency

ClaimRoom == inUse < MaxConcurrency

\* BUG: the claim script marks the job and forgets INCR.
ClaimSlotNoIncr(j) ==
    /\ inUse' = inUse
    /\ status' = [status EXCEPT ![j] = "dispatched"]

ClaimSlot(j) ==
    /\ inUse' = inUse + 1
    /\ status' = [status EXCEPT ![j] = "dispatched"]

\* BUG: the cancel script marks the job and forgets ZREM.
CancelQueuedNoZrem(j) ==
    /\ queue' = queue
    /\ status' = [status EXCEPT ![j] = "cancelled"]

CancelQueued(j) ==
    /\ queue' = [queue EXCEPT ![j] = 0]
    /\ status' = [status EXCEPT ![j] = "cancelled"]

==============================================================================
