------------------------------- MODULE CancelApi -------------------------------
(***************************************************************************)
(* POST /jobs/{id}/cancel (cancel_job).  The handler reads the job hash,   *)
(* decides on the status it read, and writes in a later call.              *)
(*                                                                         *)
(* canPc[c] is where cancel request c stands:                              *)
(*   "new"      not received                                               *)
(*   "script"   read "queued", about to run the cancel script              *)
(*   "expire"   the script removed the job, about to set the TTL           *)
(*   "mark"     about to write "cancelling"                                *)
(*   "noop", "removed", "marked"   answered with the status read, with     *)
(*              "cancelled" and with "cancelling"                          *)
(*   "aborted"  a RedisError escaped (HTTP 500) or the process died        *)
(***************************************************************************)
EXTENDS Admission

CONSTANT Cancels  \* cancel requests

VARIABLES canPc, canJob, canInst

cancelVars == <<canPc, canJob, canInst>>

Cancelling == {"script", "expire", "mark"}

CancelTypeOK ==
    /\ canPc \in [Cancels -> {"new", "noop", "removed", "marked", "aborted"} \cup Cancelling]
    /\ canJob \in [Cancels -> Jobs \cup {NoJob}]
    /\ \A c \in Cancels : canPc[c] # "new" => canJob[c] \in Jobs
    /\ canInst \in [Cancels -> Instances \cup {NoInstance}]

CancelInit ==
    /\ canPc = [c \in Cancels |-> "new"]
    /\ canJob = [c \in Cancels |-> NoJob]
    /\ canInst = [c \in Cancels |-> NoInstance]

CanGoto(c, pc) == canPc' = [canPc EXCEPT ![c] = pc]

\* HGETALL and the decision taken on what it returned.
CancelRead(c, i, j, r) ==
    /\ proc[i] = "up"
    /\ canPc[c] = "new"
    /\ Known(j)
    /\ Call(r)
    /\ canJob' = [canJob EXCEPT ![c] = j]
    /\ canInst' = [canInst EXCEPT ![c] = i]
    /\ \/ r # "ok" /\ CanGoto(c, "aborted")
       \/ r = "ok" /\ status[j] \in Terminal /\ CanGoto(c, "noop")
       \/ r = "ok" /\ status[j] = "queued" /\ CanGoto(c, "script")
       \/ r = "ok" /\ status[j] \in {"dispatched", "cancelling"} /\ CanGoto(c, "mark")
    /\ UNCHANGED <<jobVars, slotVars, idem, proc, reqVars>>

\* BUG: the job is marked cancelled although ZREM found nothing.
CancelScriptUnconditional(c, r) ==
    /\ canPc[c] = "script"
    /\ Call(r)
    /\ IF Executed(r) THEN CancelQueued(canJob[c]) ELSE UNCHANGED <<queue, status>>
    /\ CanGoto(c, IF r = "ok" THEN "expire" ELSE "aborted")
    /\ UNCHANGED <<payload, expiring, slotVars, idem, proc, reqVars, canJob, canInst>>

\* The cancel script; when the job has left the queue since the read, the
\* handler falls through to "cancelling".
CancelScript(c, r) ==
    /\ canPc[c] = "script"
    /\ Call(r)
    /\ IF Executed(r) /\ canJob[c] \in Queued
       THEN CancelQueued(canJob[c]) ELSE UNCHANGED <<queue, status>>
    /\ \/ r # "ok" /\ CanGoto(c, "aborted")
       \/ r = "ok" /\ CanGoto(c, IF canJob[c] \in Queued THEN "expire" ELSE "mark")
    /\ UNCHANGED <<payload, expiring, slotVars, idem, proc, reqVars, canJob, canInst>>

\* EXPIRE, then PUBLISH.
CancelExpire(c, r) ==
    /\ canPc[c] = "expire"
    /\ Call(r)
    /\ expiring' = IF Executed(r) THEN expiring \cup {canJob[c]} ELSE expiring
    /\ CanGoto(c, IF r = "ok" THEN "removed" ELSE "aborted")
    /\ UNCHANGED <<queue, status, payload, slotVars, idem, proc, reqVars, canJob, canInst>>

\* HSET status cancelling, whatever the status is by now.
CancelMark(c, r) ==
    /\ canPc[c] = "mark"
    /\ Call(r)
    /\ status' = IF Executed(r) THEN [status EXCEPT ![canJob[c]] = "cancelling"] ELSE status
    /\ CanGoto(c, IF r = "ok" THEN "marked" ELSE "aborted")
    /\ UNCHANGED <<queue, payload, expiring, slotVars, idem, proc, reqVars, canJob, canInst>>

CancelsDie(i) ==
    /\ canPc' = [c \in Cancels |-> IF canPc[c] \in Cancelling /\ canInst[c] = i
                                   THEN "aborted" ELSE canPc[c]]
    /\ UNCHANGED <<canJob, canInst>>

NoCancelIn(i) == \A c \in Cancels : ~(canPc[c] \in Cancelling /\ canInst[c] = i)

CancelNext ==
    \E c \in Cancels, r \in Reply :
        \/ \E i \in Instances, j \in Jobs : CancelRead(c, i, j, r)
        \/ CancelScript(c, r)
        \/ CancelExpire(c, r)
        \/ CancelMark(c, r)

==============================================================================
