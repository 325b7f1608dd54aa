----------------------------- MODULE LeaseWatcher ------------------------------
(***************************************************************************)
(* LeaseWatcher: each process scans inflight:{model} for jobs dispatched   *)
(* longer ago than the lease, checks whether the lease key still exists    *)
(* and, if not, fails the job and gives its slot back.  The scan, the      *)
(* check and the reclaim are separate calls to Redis.                      *)
(*                                                                         *)
(* Time appears as two steps of the environment: an inflight entry becomes *)
(* older than a watcher's cutoff, and then its lease key expires.  Both    *)
(* periods are max(sync_timeout_seconds, 60) + 30 s, counted from the same *)
(* pipeline of the worker.  Nothing renews a lease, so that this may       *)
(* happen to a job whose worker is alive and slow, and nothing keeps two   *)
(* processes from scanning at the same time.                               *)
(***************************************************************************)
EXTENDS Dispatcher

CONSTANT MaxOverruns  \* bound: jobs that outlast their lease in one behaviour

ASSUME LeaseWatcherAssumption == MaxOverruns \in Nat

VARIABLES
    candidates,  \* jobs of the current scan not yet examined
    orphan,      \* a job found without lease, about to be reclaimed, or NoJob
    overran,     \* ghost: jobs that became overdue in the hands of a live worker
    overbooked   \* ghost: slots that were given back while still taken, or twice

watcherVars == <<candidates, orphan, overran, overbooked>>

LeaseWatcherTypeOK ==
    /\ candidates \in [Instances -> SUBSET Jobs]
    /\ orphan \in [Instances -> Jobs \cup {NoJob}]
    /\ overran \subseteq Jobs
    /\ Cardinality(overran) <= MaxOverruns
    /\ overbooked \in Nat

LeaseWatcherInit ==
    /\ candidates = [i \in Instances |-> {}]
    /\ orphan = [i \in Instances |-> NoJob]
    /\ overran = {}
    /\ overbooked = 0

Scanning(i) == candidates[i] # {} \/ orphan[i] # NoJob

\* _scan_model: ZRANGEBYSCORE.  A scan that fails or finds nothing changes
\* nothing.
Scan(i) ==
    /\ proc[i] = "up"
    /\ ~Scanning(i)
    /\ overdue # {}
    /\ candidates' = [candidates EXCEPT ![i] = overdue]
    /\ UNCHANGED <<sharedVars, workerVars, orphan, overran, overbooked>>

\* _reclaim_if_orphaned up to line 124: EXISTS lease.
Check(i, j, r) ==
    /\ j \in candidates[i]
    /\ orphan[i] = NoJob
    /\ Call(r)
    /\ r # "lostReply"
    /\ candidates' = [candidates EXCEPT ![i] = @ \ {j}]
    /\ orphan' = [orphan EXCEPT ![i] = IF r = "ok" /\ j \notin lease THEN j ELSE NoJob]
    /\ UNCHANGED <<jobVars, slotVars, idem, proc, workerVars, overran, overbooked>>

\* BUG: the reclaim pipeline is built and never executed.
ReclaimNotExecuted(i, r) ==
    /\ orphan[i] # NoJob
    /\ Call(r)
    /\ orphan' = [orphan EXCEPT ![i] = NoJob]
    /\ UNCHANGED <<jobVars, slotVars, idem, proc, workerVars, candidates, overran, overbooked>>

\* BUG: on an error the reclaim is retried at once, without a new check.
ReclaimRetries(i, r) ==
    /\ orphan[i] # NoJob
    /\ Call(r)
    /\ IF Executed(r)
       THEN /\ status' = [status EXCEPT ![orphan[i]] = "failed"]
            /\ expiring' = expiring \cup {orphan[i]}
            /\ inUse' = inUse - 1
            /\ inflight' = inflight \ {orphan[i]}
            /\ overdue' = overdue \ {orphan[i]}
            /\ dlq' = dlq \cup {orphan[i]}
            /\ overbooked' = IF orphan[i] \in inflight \ HeldJobs THEN overbooked
                                                                 ELSE overbooked + 1
       ELSE UNCHANGED <<status, expiring, inUse, inflight, overdue, dlq, overbooked>>
    /\ orphan' = IF r = "ok" THEN [orphan EXCEPT ![i] = NoJob] ELSE orphan
    /\ UNCHANGED <<queue, payload, lease, idem, proc, workerVars, candidates, overran>>

\* MULTI: HSET failed, EXPIRE, DECR, ZREM, SADD dlq; then PUBLISH.  On an
\* error the job is left to a later scan.  The DECR does not depend on the ZREM:
\* a job that somebody else has reclaimed or released since the check, or that
\* its worker still has, costs a slot.
Reclaim(i, r) ==
    /\ orphan[i] # NoJob
    /\ Call(r)
    /\ IF Executed(r)
       THEN /\ status' = [status EXCEPT ![orphan[i]] = "failed"]
            /\ expiring' = expiring \cup {orphan[i]}
            /\ inUse' = inUse - 1
            /\ inflight' = inflight \ {orphan[i]}
            /\ overdue' = overdue \ {orphan[i]}
            /\ dlq' = dlq \cup {orphan[i]}
            /\ overbooked' = IF orphan[i] \in inflight \ HeldJobs THEN overbooked
                                                                 ELSE overbooked + 1
       ELSE UNCHANGED <<status, expiring, inUse, inflight, overdue, dlq, overbooked>>
    /\ orphan' = [orphan EXCEPT ![i] = NoJob]
    /\ UNCHANGED <<queue, payload, lease, idem, proc, workerVars, candidates, overran>>

\* Time passes: the inflight entry of j falls below the watchers' cutoff.  It
\* may do so while a live worker has j, in up to MaxOverruns cases.
BecomesOverdue(j) ==
    /\ j \in inflight \ overdue
    /\ overdue' = overdue \cup {j}
    /\ overran' = IF j \in HeldJobs THEN overran \cup {j} ELSE overran
    /\ Cardinality(overran') <= MaxOverruns
    /\ UNCHANGED <<jobVars, inUse, inflight, lease, dlq, idem, redisErrors, proc,
                   workerVars, candidates, orphan, overbooked>>

\* Time passes: Redis drops the lease key of j.
LeaseExpires(j) ==
    /\ j \in lease \cap overdue
    /\ lease' = lease \ {j}
    /\ UNCHANGED <<jobVars, inUse, inflight, overdue, dlq, idem, redisErrors, proc,
                   workerVars, watcherVars>>

WatcherDies(i) ==
    /\ candidates' = [candidates EXCEPT ![i] = {}]
    /\ orphan' = [orphan EXCEPT ![i] = NoJob]
    /\ UNCHANGED <<overran, overbooked>>

WatcherStep(i) ==
    \/ Scan(i)
    \/ \E r \in Reply : \/ \E j \in Jobs : Check(i, j, r)
                        \/ Reclaim(i, r)

LeaseTime == \E j \in Jobs : BecomesOverdue(j) \/ LeaseExpires(j)

LeaseWatcherNext == LeaseTime \/ \E i \in Instances : WatcherStep(i)

==============================================================================
