------------------------------ MODULE Dispatcher -------------------------------
(***************************************************************************)
(* DispatcherWorker: each process runs one worker per model, a sequential  *)
(* loop that pops a job, claims a slot, sets the lease, reads the hash,    *)
(* forwards the payload to LiteLLM, writes the outcome and releases the    *)
(* slot.  Every stage is one call (or one MULTI/EXEC pipeline) to Redis,   *)
(* or the HTTP call to the backend; a stop may cancel the task in any of   *)
(* them.                                                                   *)
(*                                                                         *)
(* wpc[i] is the stage the worker of process i is about to perform:        *)
(*   "idle"     BZPOPMIN                                                   *)
(*   "claim"    the claim script, in a loop                                *)
(*   "lease"    SETEX lease + ZADD inflight                                *)
(*   "fetch"    HGETALL of the job hash                                    *)
(*   "forward"  the backend is working on the job                          *)
(*   "mark"     _mark_completed, _mark_failed or _mark_cancelled_dispatched*)
(*   "cleanup"  the HSET of _cleanup_slot                                  *)
(*   "release"  _release_slot                                              *)
(*   "off"      the task has ended                                         *)
(***************************************************************************)
EXTENDS SharedState

VARIABLES
    wpc,        \* see above
    wjob,       \* the job the worker works on, or NoJob
    wout,       \* the outcome it is about to write, or "none"
    forwarded,  \* ghost: how often the backend was sent each job
    sentEmpty   \* ghost: jobs the backend was sent as {} instead of their payload

workerVars == <<wpc, wjob, wout, forwarded, sentEmpty>>

Holding == {"lease", "fetch", "forward", "mark", "cleanup", "release"}
Working == {"claim"} \cup Holding

DispatcherTypeOK ==
    /\ wpc \in [Instances -> {"idle", "off"} \cup Working]
    /\ wjob \in [Instances -> Jobs \cup {NoJob}]
    /\ wout \in [Instances -> Terminal \cup {"none"}]
    /\ \A i \in Instances : /\ wpc[i] \in Working <=> wjob[i] # NoJob
                            /\ wpc[i] = "mark" => wout[i] \in Terminal
    /\ forwarded \in [Jobs -> Nat]
    /\ sentEmpty \subseteq Jobs

DispatcherInit ==
    /\ wpc = [i \in Instances |-> "idle"]
    /\ wjob = [i \in Instances |-> NoJob]
    /\ wout = [i \in Instances |-> "none"]
    /\ forwarded = [j \in Jobs |-> 0]
    /\ sentEmpty = {}

\* Processes whose worker has claimed a slot and not released it.
Holders == {i \in Instances : wpc[i] \in Holding}
HeldJobs == {wjob[i] : i \in Holders}
Forwarding == {i \in Instances : wpc[i] = "forward"}

WGoto(i, pc) == wpc' = [wpc EXCEPT ![i] = pc]

\* The worker is done with its job: next iteration of run(), or its end when
\* the stop event is set.
LoopTop(i) ==
    /\ WGoto(i, IF proc[i] = "up" THEN "idle" ELSE "off")
    /\ wjob' = [wjob EXCEPT ![i] = NoJob]
    /\ wout' = [wout EXCEPT ![i] = "none"]

\* The task ends where it stands.
WorkerEnds(i) ==
    /\ WGoto(i, "off")
    /\ wjob' = [wjob EXCEPT ![i] = NoJob]
    /\ wout' = [wout EXCEPT ![i] = "none"]

MostUrgent(j) == j \in Queued /\ \A k \in Queued : queue[j] <= queue[k]

\* BUG: the job is read with ZRANGE and never removed from the queue.
BzpopminPeeks(i, j, r) ==
    /\ wpc[i] = "idle"
    /\ proc[i] = "up"
    /\ MostUrgent(j)
    /\ Call(r)
    /\ r # "lostRequest"
    /\ queue' = queue
    /\ IF r = "ok"
       THEN WGoto(i, "claim") /\ wjob' = [wjob EXCEPT ![i] = j]
       ELSE UNCHANGED <<wpc, wjob>>
    /\ UNCHANGED <<status, payload, expiring, slotVars, idem, proc,
                   wout, forwarded, sentEmpty>>

\* A pop whose reply is lost leaves the worker idle and the job in no queue.
\* (A request that never reaches Redis changes nothing and is left out.)
Bzpopmin(i, j, r) ==
    /\ wpc[i] = "idle"
    /\ proc[i] = "up"
    /\ MostUrgent(j)
    /\ Call(r)
    /\ r # "lostRequest"
    /\ queue' = [queue EXCEPT ![j] = 0]
    /\ IF r = "ok"
       THEN WGoto(i, "claim") /\ wjob' = [wjob EXCEPT ![i] = j]
       ELSE UNCHANGED <<wpc, wjob>>
    /\ UNCHANGED <<status, payload, expiring, slotVars, idem, proc,
                   wout, forwarded, sentEmpty>>

\* The worker was blocked in BZPOPMIN when the stop event was set: it still
\* receives a job, finds the claim loop's condition false and returns.
BzpopminStopping(i, j) ==
    /\ wpc[i] = "idle"
    /\ proc[i] = "stopping"
    /\ MostUrgent(j)
    /\ queue' = [queue EXCEPT ![j] = 0]
    /\ WorkerEnds(i)
    /\ UNCHANGED <<status, payload, expiring, slotVars, idem, redisErrors, proc,
                   forwarded, sentEmpty>>

\* BUG: an error of the claim script is taken for a claim.
ClaimBlind(i, r) ==
    /\ wpc[i] = "claim"
    /\ Call(r)
    /\ ClaimRoom
    /\ IF Executed(r) THEN ClaimSlot(wjob[i]) ELSE UNCHANGED <<inUse, status>>
    /\ WGoto(i, "lease")
    /\ UNCHANGED <<queue, payload, expiring, inflight, overdue, lease, dlq, idem, proc,
                   wjob, wout, forwarded, sentEmpty>>

\* BUG: the worker gives the job up when all slots are taken.
ClaimGivesUp(i, r) ==
    /\ wpc[i] = "claim"
    /\ Call(r)
    /\ IF ClaimRoom
       THEN ClaimSlot(wjob[i]) /\ WGoto(i, "lease") /\ UNCHANGED <<wjob, wout>>
       ELSE LoopTop(i) /\ UNCHANGED <<inUse, status>>
    /\ UNCHANGED <<queue, payload, expiring, inflight, overdue, lease, dlq, idem, proc,
                   forwarded, sentEmpty>>

\* One iteration of the claim loop that finds a free slot; at capacity the
\* loop sleeps and retries.  A claim whose reply is lost is claimed again.
\* The call may still be under way when the stop event is set.
Claim(i, r) ==
    /\ wpc[i] = "claim"
    /\ Call(r)
    /\ ClaimRoom
    /\ IF Executed(r) THEN ClaimSlot(wjob[i]) ELSE UNCHANGED <<inUse, status>>
    /\ \/ r = "ok" /\ WGoto(i, "lease") /\ UNCHANGED <<wjob, wout>>
       \/ r # "ok" /\ proc[i] = "up" /\ UNCHANGED <<wpc, wjob, wout>>
       \/ r # "ok" /\ proc[i] = "stopping" /\ WorkerEnds(i)
    /\ UNCHANGED <<queue, payload, expiring, inflight, overdue, lease, dlq, idem, proc,
                   forwarded, sentEmpty>>

\* BUG: the finally clause covers the claim loop too and releases what was not claimed.
ClaimStopReleases(i) ==
    /\ wpc[i] = "claim"
    /\ proc[i] = "stopping"
    /\ WGoto(i, "release")
    /\ UNCHANGED <<sharedVars, wjob, wout, forwarded, sentEmpty>>

\* The claim loop ends because the stop event is set: the job is dropped.
ClaimStop(i) ==
    /\ wpc[i] = "claim"
    /\ proc[i] = "stopping"
    /\ WorkerEnds(i)
    /\ UNCHANGED <<sharedVars, forwarded, sentEmpty>>

\* MULTI: SETEX lease, ZADD inflight.  An error is only counted.
SetLease(i, r) ==
    /\ wpc[i] = "lease"
    /\ Call(r)
    /\ IF Executed(r)
       THEN lease' = lease \cup {wjob[i]} /\ inflight' = inflight \cup {wjob[i]}
       ELSE UNCHANGED <<lease, inflight>>
    /\ WGoto(i, "fetch")
    /\ UNCHANGED <<jobVars, inUse, overdue, dlq, idem, proc,
                   wjob, wout, forwarded, sentEmpty>>

\* HGETALL, then the request to the backend: the payload is whatever the hash
\* holds at this moment.
Fetch(i, r) ==
    /\ wpc[i] = "fetch"
    /\ Call(r)
    /\ r # "lostReply"
    /\ r = "ok" => wjob[i] \notin Malformed
    /\ IF r = "ok"
       THEN /\ WGoto(i, "forward")
            /\ forwarded' = [forwarded EXCEPT ![wjob[i]] = @ + 1]
            /\ sentEmpty' = IF wjob[i] \in payload THEN sentEmpty
                                                   ELSE sentEmpty \cup {wjob[i]}
       ELSE WGoto(i, "cleanup") /\ UNCHANGED <<forwarded, sentEmpty>>
    /\ UNCHANGED <<jobVars, slotVars, idem, proc, wjob, wout>>

\* int() of the priority in the hash raises ValueError, outside every try: the
\* task ends with the slot, the lease and the inflight entry left behind, and
\* the process goes on without a worker for the model.
FetchMalformed(i) ==
    /\ wpc[i] = "fetch"
    /\ wjob[i] \in Malformed
    /\ WorkerEnds(i)
    /\ UNCHANGED <<sharedVars, forwarded, sentEmpty>>

\* BUG: the outcome is not kept for the handler that writes it.
BackendReturnsNothing(i, out) ==
    /\ wpc[i] = "forward"
    /\ out \in {"completed", "failed"}
    /\ WGoto(i, "mark")
    /\ UNCHANGED <<sharedVars, wjob, wout, forwarded, sentEmpty>>

\* LiteLLM answers, or the HTTP call fails or times out (external).
BackendReturns(i, out) ==
    /\ wpc[i] = "forward"
    /\ out \in {"completed", "failed"}
    /\ WGoto(i, "mark")
    /\ wout' = [wout EXCEPT ![i] = out]
    /\ UNCHANGED <<sharedVars, wjob, forwarded, sentEmpty>>

\* MULTI: HSET status, EXPIRE.  An error is only counted; then PUBLISH.
Mark(i, r) ==
    /\ wpc[i] = "mark"
    /\ Call(r)
    /\ IF Executed(r)
       THEN /\ status' = [status EXCEPT ![wjob[i]] = wout[i]]
            /\ expiring' = expiring \cup {wjob[i]}
       ELSE UNCHANGED <<status, expiring>>
    /\ WGoto(i, "release")
    /\ UNCHANGED <<queue, payload, slotVars, idem, proc, wjob, wout, forwarded, sentEmpty>>

\* _cleanup_slot: HSET failed, without an EXPIRE.
Cleanup(i, r) ==
    /\ wpc[i] = "cleanup"
    /\ Call(r)
    /\ status' = IF Executed(r) THEN [status EXCEPT ![wjob[i]] = "failed"] ELSE status
    /\ WGoto(i, "release")
    /\ UNCHANGED <<queue, payload, expiring, slotVars, idem, proc,
                   wjob, wout, forwarded, sentEmpty>>

\* BUG: the pipeline of _release_slot forgets DECR.
ReleaseSlotNoDecr(j) ==
    /\ inUse' = inUse
    /\ inflight' = inflight \ {j}
    /\ overdue' = overdue \ {j}
    /\ lease' = lease \ {j}

\* What the pipeline of _release_slot does.
ReleaseSlot(j) ==
    /\ inUse' = inUse - 1
    /\ inflight' = inflight \ {j}
    /\ overdue' = overdue \ {j}
    /\ lease' = lease \ {j}

\* BUG: _release_slot is retried on an error, and may so run twice.
ReleaseRetries(i, r) ==
    /\ wpc[i] = "release"
    /\ Call(r)
    /\ IF Executed(r) THEN ReleaseSlot(wjob[i])
                      ELSE UNCHANGED <<inUse, inflight, overdue, lease>>
    /\ IF r = "ok" THEN LoopTop(i) ELSE UNCHANGED <<wpc, wjob, wout>>
    /\ UNCHANGED <<jobVars, dlq, idem, proc, forwarded, sentEmpty>>

\* MULTI: DECR, ZREM inflight, DEL lease.  An error is only counted.
Release(i, r) ==
    /\ wpc[i] = "release"
    /\ Call(r)
    /\ IF Executed(r) THEN ReleaseSlot(wjob[i])
                      ELSE UNCHANGED <<inUse, inflight, overdue, lease>>
    /\ LoopTop(i)
    /\ UNCHANGED <<jobVars, dlq, idem, proc, forwarded, sentEmpty>>

(***************************************************************************)
(* DispatcherWorker.stop gives the task five seconds and then cancels it.  *)
(* Only the backend call and _mark_completed are inside the try block that *)
(* turns CancelledError into _mark_cancelled_dispatched; inside the other  *)
(* handlers the finally clause still releases the slot; before the try     *)
(* block, and inside _release_slot, the task ends where it stands.  An     *)
(* idle worker whose BZPOPMIN times out empty ends here too.               *)
(***************************************************************************)
StopCancel(i) ==
    /\ proc[i] = "stopping"
    /\ proc' = [proc EXCEPT ![i] = "cancelled"]
    /\ \/ /\ wpc[i] \in {"idle", "claim", "lease", "fetch", "cleanup", "release"}
          /\ WorkerEnds(i)
          /\ UNCHANGED <<status, expiring>>
       \/ /\ wpc[i] = "forward"
          /\ WGoto(i, "mark")
          /\ wout' = [wout EXCEPT ![i] = "cancelled"]
          /\ UNCHANGED <<wjob, status, expiring>>
       \/ \* inside _mark_completed, before or after its pipeline took effect
          /\ wpc[i] = "mark"
          /\ wout[i] = "completed"
          /\ wout' = [wout EXCEPT ![i] = "cancelled"]
          /\ \/ /\ status' = [status EXCEPT ![wjob[i]] = "completed"]
                /\ expiring' = expiring \cup {wjob[i]}
             \/ UNCHANGED <<status, expiring>>
          /\ UNCHANGED <<wpc, wjob>>
       \/ \* inside _mark_failed, before its pipeline took effect
          /\ wpc[i] = "mark"
          /\ wout[i] = "failed"
          /\ WGoto(i, "release")
          /\ UNCHANGED <<wjob, wout, status, expiring>>
    /\ UNCHANGED <<queue, payload, slotVars, idem, redisErrors, forwarded, sentEmpty>>

WorkerDies(i) ==
    /\ WorkerEnds(i)
    /\ UNCHANGED <<forwarded, sentEmpty>>

WorkerStarts(i) ==
    /\ WGoto(i, "idle")
    /\ UNCHANGED <<wjob, wout, forwarded, sentEmpty>>

WorkerStep(i) ==
    \/ FetchMalformed(i)
    \/ \E r \in Reply :
        \/ \E j \in Jobs : Bzpopmin(i, j, r)
        \/ Claim(i, r)
        \/ SetLease(i, r)
        \/ Fetch(i, r)
        \/ Mark(i, r)
        \/ Cleanup(i, r)
        \/ Release(i, r)

WorkerStopping(i) ==
    \/ \E j \in Jobs : BzpopminStopping(i, j)
    \/ ClaimStop(i)
    \/ StopCancel(i)

BackendStep(i) == \E out \in {"completed", "failed"} : BackendReturns(i, out)

DispatcherNext ==
    \E i \in Instances : WorkerStep(i) \/ WorkerStopping(i) \/ BackendStep(i)

==============================================================================
