------------------------------- MODULE ResultApi -------------------------------
(***************************************************************************)
(* How a result reaches a client: PUBLISH on job_done:{id}, the            *)
(* synchronous half of chat_completions that waits for it                  *)
(* (_wait_for_completion, _load_response_blob) and GET /jobs/{id}.  Every  *)
(* step is a step of Scheduler, with the publishes and the response blob   *)
(* that go with it, or a step of a waiter, a reader or a publisher between *)
(* two of them.  Graceful stops and the integrity checker are left out.    *)
(*                                                                         *)
(* A publish is a call of its own, after the write it announces; the actor *)
(* that makes it does nothing else before.  Redis delivers it to whoever   *)
(* is subscribed at that moment and keeps nothing.                         *)
(*                                                                         *)
(* waiting[j] is where the handler of the synchronous request j stands:    *)
(*   "no"         not admitted yet, or not synchronous                     *)
(*   "subscribe"  about to subscribe                                       *)
(*   "listen"     at the top of the loop, about to take a message          *)
(*   "poll"       about to read the status from the hash                   *)
(*   "load"       learned "completed", about to read the blob              *)
(*   "200", "409", "502", "504"   responded with that code                 *)
(*   "500"        responded: "completed" without a blob                    *)
(*   "error"      a RedisError escaped, or the process died                *)
(***************************************************************************)
EXTENDS Scheduler, Sequences

CONSTANTS
    Sync,          \* requests that wait for their result
    Readers        \* GET /jobs/{id} requests

ASSUME ResultAssumption == Sync \subseteq Jobs

VARIABLES
    waiting,    \* see above
    inbox,      \* messages of the waiter's subscription
    blob,       \* jobs whose hash has the field response_blob
    pubs,       \* publishes that are due: by whom, of which job, with what status
    reading,    \* per reader: "idle", "load", or "empty": told "completed", given nothing
    readJob,    \* the job whose result it is about to load
    apiErrors   \* calls of publishers and waiters that failed

waitVars == <<waiting, inbox>>
readVars == <<reading, readJob>>
apiVars  == <<waitVars, readVars, blob, pubs, apiErrors>>
allVars  == <<vars, apiVars>>

Responses == {"200", "409", "502", "504", "500"}
Pending   == {"subscribe", "listen", "poll", "load"}
Actors    == ({"worker", "watcher"} \X Instances) \cup ({"cancel"} \X Cancels)

ApiTypeOK ==
    /\ waiting \in [Jobs -> Responses \cup Pending \cup {"no", "error"}]
    /\ inbox \in [Jobs -> Seq(Terminal \cup {"subscribed"})]
    /\ blob \subseteq Jobs
    /\ pubs \subseteq [by : Actors, job : Jobs, status : Terminal]
    /\ reading \in [Readers -> {"idle", "load", "empty"}]
    /\ readJob \in [Readers -> Jobs \cup {NoJob}]
    /\ \A g \in Readers : reading[g] = "load" => readJob[g] \in Jobs
    /\ apiErrors \in 0..MaxFaults

ApiInit ==
    /\ Init
    /\ waiting = [j \in Jobs |-> "no"]
    /\ inbox = [j \in Jobs |-> <<>>]
    /\ blob = {}
    /\ pubs = {}
    /\ reading = [g \in Readers |-> "idle"]
    /\ readJob = [g \in Readers |-> NoJob]
    /\ apiErrors = 0

ApiCall(r) == apiErrors' = IF r = "ok" THEN apiErrors ELSE apiErrors + 1

WaitGoto(j, label) == waiting' = [waiting EXCEPT ![j] = label]

------------------------------------------------------------------------------
(***************************************************************************)
(* Publishing.                                                             *)
(***************************************************************************)
Due(kind, a, j, s) == [by |-> <<kind, a>>, job |-> j, status |-> s]

Busy(kind, a) == \E p \in pubs : p.by = <<kind, a>>

\* BUG: the outcome is announced before it is written.
AnnouncedEarly(i) == wpc[i] # "mark" /\ wpc'[i] = "mark"

\* The worker has been through the pipeline of _mark_completed or _mark_failed,
\* whether or not it took effect.
Announced(i) == wpc[i] = "mark" /\ wpc'[i] = "release"

\* _cleanup_slot publishes after it has released the slot.
CleanedUp(i) == wpc[i] = "release" /\ wout[i] = "none"

\* BUG: _cleanup_slot publishes the outcome of a backend call it never made.
WorkerPubsNoOutcome(i) ==
    IF Announced(i) \/ CleanedUp(i) THEN {Due("worker", i, wjob[i], wout[i])} ELSE {}

\* What the step of worker i makes due.
WorkerPubs(i) ==
    IF Announced(i) THEN {Due("worker", i, wjob[i], wout'[i])}
    ELSE IF CleanedUp(i) THEN {Due("worker", i, wjob[i], "failed")} ELSE {}

\* A reclaim that raised no error is announced.
WatcherPubs(i) ==
    IF orphan[i] # NoJob /\ redisErrors' = redisErrors
    THEN {Due("watcher", i, orphan[i], "failed")} ELSE {}

CancelPubs ==
    {Due("cancel", c, canJob[c], "cancelled") :
        c \in {d \in Cancels : canPc[d] = "expire" /\ canPc'[d] = "removed"}}

\* BUG: the response is not stored with the status.
BlobForgotten(i) == blob

\* HSET of status and response_blob are one command.
BlobAfter(i) ==
    IF wpc[i] = "mark" /\ status # status' /\ status'[wjob[i]] = "completed"
    THEN blob \cup {wjob[i]} ELSE blob

Listening(j) == waiting[j] \in {"listen", "poll"}

\* PUBLISH, to the waiter that is subscribed now.  An error is only counted
\* (the cancel route answers it with 500).
Publish(p, r) ==
    /\ p \in pubs
    /\ ApiCall(r)
    /\ pubs' = pubs \ {p}
    /\ inbox' = IF Executed(r) /\ Listening(p.job)
                THEN [inbox EXCEPT ![p.job] = Append(@, p.status)] ELSE inbox
    /\ UNCHANGED <<vars, waiting, readVars, blob>>

------------------------------------------------------------------------------
(***************************************************************************)
(* The steps of Scheduler, with what they mean here.                       *)
(***************************************************************************)

\* A synchronous request starts to wait when its payload has been stored.
Admits ==
    /\ AdmitSteps
    /\ waiting' = [j \in Jobs |->
           IF j \in Sync /\ reqPc[j] = "store" /\ reqPc'[j] = "answered"
           THEN "subscribe" ELSE waiting[j]]
    /\ UNCHANGED <<inbox, readVars, blob, pubs, apiErrors>>

\* Ids that were told to a client: a synchronous one learns its own when it is
\* answered.
Told(j) ==
    \E q \in Jobs : answer[q] = j /\ (q \notin Sync \/ reqPc[q] = "hit" \/ waiting[q] \in Responses)

Cancelled ==
    /\ CancelSteps
    /\ \A c \in Cancels : canPc[c] = "new" /\ canPc'[c] # "new" => Told(canJob'[c])
    /\ pubs' = pubs \cup CancelPubs
    /\ UNCHANGED <<waitVars, readVars, blob, apiErrors>>

WorkerRuns(i) ==
    /\ Works(i) \/ Answers(i)
    /\ ~Busy("worker", i)
    /\ pubs' = pubs \cup WorkerPubs(i)
    /\ blob' = BlobAfter(i)
    /\ UNCHANGED <<waitVars, readVars, apiErrors>>

WatcherRuns(i) ==
    /\ Watches(i)
    /\ ~Busy("watcher", i)
    /\ pubs' = pubs \cup WatcherPubs(i)
    /\ UNCHANGED <<waitVars, readVars, blob, apiErrors>>

\* Whatever a process was about to publish, and its waiters, die with it.
ProcessDies(i) ==
    /\ Crash(i)
    /\ waiting' = [j \in Jobs |-> IF waiting[j] \in Pending /\ reqInst[j] = i
                                  THEN "error" ELSE waiting[j]]
    /\ pubs' = {p \in pubs : /\ p.by \notin {"worker", "watcher"} \X {i}
                             /\ \A c \in Cancels : p.by = <<"cancel", c>> => canInst[c] # i}
    /\ UNCHANGED <<inbox, readVars, blob, apiErrors>>

Others ==
    /\ TimePasses \/ \E i \in Instances : Restart(i)
    /\ UNCHANGED apiVars

------------------------------------------------------------------------------
(***************************************************************************)
(* The synchronous client.                                                 *)
(***************************************************************************)

\* SUBSCRIBE.  Its confirmation is the first thing in the inbox.
Subscribe(j, r) ==
    /\ waiting[j] = "subscribe"
    /\ ApiCall(r)
    /\ WaitGoto(j, IF r = "ok" THEN "listen" ELSE "error")
    /\ inbox' = [inbox EXCEPT ![j] = IF r = "ok" THEN <<"subscribed">> ELSE <<>>]
    /\ UNCHANGED <<vars, readVars, blob, pubs>>

\* _status_to_http, and chat_completions for "completed".
Outcome(s) ==
    CASE s = "completed" -> "load"
      [] s = "failed"    -> "502"
      [] s = "cancelled" -> "409"

\* BUG: the handler waits for a message only.
ListenOnly(j, r) ==
    /\ waiting[j] = "listen"
    /\ ApiCall(r)
    /\ \/ r # "ok" /\ WaitGoto(j, "error") /\ UNCHANGED inbox
       \/ /\ r = "ok"
          /\ inbox[j] # <<>>
          /\ WaitGoto(j, IF Head(inbox[j]) = "subscribed" THEN "listen" ELSE Outcome(Head(inbox[j])))
          /\ inbox' = [inbox EXCEPT ![j] = Tail(@)]
    /\ UNCHANGED <<vars, readVars, blob, pubs>>

\* get_message: a message is the answer; on the confirmation of SUBSCRIBE, or
\* nothing within a second, the hash is polled.
Listen(j, r) ==
    /\ waiting[j] = "listen"
    /\ ApiCall(r)
    /\ \/ r # "ok" /\ WaitGoto(j, "error") /\ UNCHANGED inbox
       \/ r = "ok" /\ inbox[j] = <<>> /\ WaitGoto(j, "poll") /\ UNCHANGED inbox
       \/ /\ r = "ok"
          /\ inbox[j] # <<>>
          /\ WaitGoto(j, IF Head(inbox[j]) = "subscribed" THEN "poll" ELSE Outcome(Head(inbox[j])))
          /\ inbox' = [inbox EXCEPT ![j] = Tail(@)]
    /\ UNCHANGED <<vars, readVars, blob, pubs>>

\* HGET status: the job may have ended before the subscription.
Poll(j, r) ==
    /\ waiting[j] = "poll"
    /\ ApiCall(r)
    /\ \/ r # "ok" /\ WaitGoto(j, "error")
       \/ r = "ok" /\ WaitGoto(j, IF status[j] \in Terminal THEN Outcome(status[j]) ELSE "listen")
    /\ UNCHANGED <<vars, inbox, readVars, blob, pubs>>

\* _load_response_blob.
LoadBlob(j, r) ==
    /\ waiting[j] = "load"
    /\ ApiCall(r)
    /\ WaitGoto(j, IF r # "ok" THEN "error" ELSE IF j \in blob THEN "200" ELSE "500")
    /\ UNCHANGED <<vars, inbox, readVars, blob, pubs>>

\* The sync timeout has passed when the loop comes round.
Deadline(j) ==
    /\ waiting[j] = "listen"
    /\ WaitGoto(j, "504")
    /\ UNCHANGED <<vars, inbox, readVars, blob, pubs, apiErrors>>

WaiterCall(j, r) == Subscribe(j, r) \/ Listen(j, r) \/ Poll(j, r) \/ LoadBlob(j, r)

------------------------------------------------------------------------------
(***************************************************************************)
(* GET /jobs/{id}.                                                         *)
(***************************************************************************)

\* HGETALL; only for a completed job does the handler go on to the blob,
\* otherwise it shows the status.  A client may read as often as it likes.  A
\* call that fails is answered with 500 and shows nothing.
ReadHash(g, j) ==
    /\ reading[g] = "idle"
    /\ Told(j)
    /\ status[j] = "completed"
    /\ reading' = [reading EXCEPT ![g] = "load"]
    /\ readJob' = [readJob EXCEPT ![g] = j]
    /\ UNCHANGED <<vars, waitVars, blob, pubs, apiErrors>>

\* _load_response_blob: a missing field is shown as a result of None.
ReadBlob(g) ==
    /\ reading[g] = "load"
    /\ reading' = [reading EXCEPT ![g] = IF readJob[g] \in blob THEN "idle" ELSE "empty"]
    /\ readJob' = [readJob EXCEPT ![g] = NoJob]
    /\ UNCHANGED <<vars, waitVars, blob, pubs, apiErrors>>

------------------------------------------------------------------------------
ApiStep ==
    \/ Admits
    \/ Cancelled
    \/ Others
    \/ \E i \in Instances : WorkerRuns(i) \/ WatcherRuns(i) \/ ProcessDies(i)
    \/ \E p \in pubs, r \in Reply : Publish(p, r)
    \/ \E j \in Jobs : Deadline(j) \/ \E r \in Reply : WaiterCall(j, r)
    \/ \E g \in Readers : ReadBlob(g) \/ \E j \in Jobs : ReadHash(g, j)

ApiNext == ApiStep /\ Faults' + apiErrors' <= MaxFaults

ApiSpec == ApiInit /\ [][ApiNext]_allVars

\* The event loop runs the handlers and Redis answers a call that does not
\* fail.  The deadline is not fair: nothing here depends on it.
ApiFairSpec == ApiSpec /\ \A j \in Sync : WF_allVars(WaiterCall(j, "ok"))

------------------------------------------------------------------------------
\* Two cancel requests were sent for j.
Recancelled(j) ==
    \E c, d \in Cancels : c # d /\ \A e \in {c, d} : canPc[e] # "new" /\ canJob[e] = j

\* The answer of the synchronous client is what the hash says, whichever of the
\* publishers and polls it came from: as long as no write of an outcome fails,
\* no job outlasts its lease and no process dies between writing an outcome and
\* releasing the slot, a client that was told an outcome is told the same by
\* every later read, until a cancel request overwrites it; for "cancelled" that
\* takes a second cancel request.
AnswersAgree ==
    redisErrors = 0 /\ crashes = 0 /\ overran = {} =>
        \A j \in Sync :
            /\ waiting[j] = "200" => status[j] \in {"completed", "cancelling"}
            /\ waiting[j] = "409" => \/ status[j] = "cancelled"
                                     \/ status[j] = "cancelling" /\ Recancelled(j)
            /\ waiting[j] = "502" => status[j] \in {"failed", "cancelling"}

\* "Completed" comes with its result: neither a synchronous client nor a
\* reader is told so and given nothing, unless the write of the outcome failed.
NoPhantomCompletion ==
    redisErrors = 0 =>
        /\ \A j \in Sync : waiting[j] # "500"
        /\ \A g \in Readers : reading[g] # "empty"

\* A synchronous client whose job has ended is answered without having to wait
\* for its deadline, though the publish was missed, lost or never sent.
ResultReachesCaller ==
    \A j \in Sync :
        (waiting[j] \in Pending /\ status[j] \in Terminal)
            ~> (waiting[j] \notin Pending \/ status[j] = "cancelling")

------------------------------------------------------------------------------
(***************************************************************************)
(* Inductive invariants.                                                   *)
(***************************************************************************)

Messages(j) == {inbox[j][k] : k \in 1..Len(inbox[j])}

\* Wherever "completed" is written, announced or about to be acted upon, the
\* blob is already in the hash.
BlobInv ==
    redisErrors = 0 =>
        /\ \A j \in Jobs :
            /\ status[j] = "completed" \/ "completed" \in Messages(j) \/ waiting[j] = "load" => j \in blob
            /\ waiting[j] # "500"
        /\ \A p \in pubs : p.status = "completed" => p.job \in blob
        /\ \A g \in Readers :
            /\ reading[g] = "load" => readJob[g] \in blob
            /\ reading[g] # "empty"

\* j has ended with outcome s, which at most a cancel request has overwritten; a
\* job that a watcher reclaimed has failed.
Concluded(j, s) ==
    /\ Done(j)
    /\ j \in dlq => s = "failed"
    /\ \/ status[j] = s
       \/ status[j] = "cancelling" /\ (s = "cancelled" => Recancelled(j))

\* What is announced, in an inbox or answered has happened.
Truthful ==
    /\ \A p \in pubs : Concluded(p.job, p.status)
    /\ \A j \in Jobs :
        /\ \A s \in Messages(j) \ {"subscribed"} : Concluded(j, s)
        /\ waiting[j] \in {"load", "200"} => Concluded(j, "completed")
        /\ waiting[j] = "409" => Concluded(j, "cancelled")
        /\ waiting[j] = "502" => Concluded(j, "failed")

\* Without a stop, workers write "completed" and "failed" only, and cancel
\* requests "cancelled".
Outcomes ==
    /\ \A i \in Instances :
        /\ wout[i] # "cancelled"
        /\ wpc[i] = "release" => wout[i] # "none"
    /\ \A j \in Jobs : status[j] = "cancelled" =>
        \E c \in Cancels : canJob[c] = j /\ canPc[c] \in {"expire", "removed"}
    /\ \A c \in Cancels : canPc[c] \in {"expire", "removed"} => Concluded(canJob[c], "cancelled")

AnswerInv == stops = 0 /\ resetBy = {} /\ (Calm => Outcomes /\ Truthful)

==============================================================================
