------------------------------- MODULE Admission -------------------------------
(***************************************************************************)
(* AdmissionController.admit and the part of the two submit routes         *)
(* (chat_completions, submit_job) that runs around it.  One request makes  *)
(* several calls to Redis; between two of them every other task and every  *)
(* other process can run.                                                  *)
(*                                                                         *)
(* reqPc[j] is where the handler of request j stands:                      *)
(*   "new"     not received                                                *)
(*   "admit"   no job is recorded for its key, about to enqueue            *)
(*   "record"  enqueued, about to record the idempotency key               *)
(*   "store"   about to store the payload in the job hash                  *)
(*   "answered", "hit", "rejected"   responded                             *)
(*   "aborted" a RedisError escaped (HTTP 500) or the process died         *)
(***************************************************************************)
EXTENDS SharedState

VARIABLES
    reqPc,    \* see above
    reqInst,  \* the process that handles the request, once received
    answer    \* the job id that was returned to the client

reqVars == <<reqPc, reqInst, answer>>

Handling == {"admit", "record", "store"}

AdmissionTypeOK ==
    /\ reqPc \in [Jobs -> {"new", "answered", "hit", "rejected", "aborted"} \cup Handling]
    /\ reqInst \in [Jobs -> Instances \cup {NoInstance}]
    /\ answer \in [Jobs -> Jobs \cup {NoJob}]

AdmissionInit ==
    /\ reqPc = [j \in Jobs |-> "new"]
    /\ reqInst = [j \in Jobs |-> NoInstance]
    /\ answer = [j \in Jobs |-> NoJob]

\* Ids a client can know: they were returned to some caller.
Known(j) == \E q \in Jobs : answer[q] = j

Goto(j, pc) == reqPc' = [reqPc EXCEPT ![j] = pc]

Respond(j, pc, id) ==
    /\ Goto(j, pc)
    /\ answer' = [answer EXCEPT ![j] = id]

(***************************************************************************)
(* The request arrives at process i: the idempotency check, a GET on       *)
(* idem:{hash}.  A GET that fails aborts the request.                      *)
(***************************************************************************)
Receive(i, j, r) ==
    /\ proc[i] = "up"
    /\ reqPc[j] = "new"
    /\ Call(r)
    /\ reqInst' = [reqInst EXCEPT ![j] = i]
    /\ LET known == IF KeyOf[j] = NoKey THEN NoJob ELSE idem[KeyOf[j]]
       IN \/ r # "ok" /\ Goto(j, "aborted") /\ UNCHANGED answer
          \/ r = "ok" /\ known # NoJob /\ Respond(j, "hit", known)
          \/ r = "ok" /\ known = NoJob /\ Goto(j, "admit") /\ UNCHANGED answer
    /\ UNCHANGED <<jobVars, slotVars, idem, proc>>

\* The queue is full: the request is answered with 429 and leaves no trace.
Reject(j, r) ==
    /\ reqPc[j] = "admit"
    /\ Call(r)
    /\ ~EnqueueRoom
    /\ Goto(j, IF r = "ok" THEN "rejected" ELSE "aborted")
    /\ UNCHANGED <<jobVars, slotVars, idem, proc, reqInst, answer>>

\* INCR seq:{model} and the enqueue script.  When the script's reply is lost
\* the job stays queued although its client gets an error.
Enqueue(j, s, r) ==
    /\ reqPc[j] = "admit"
    /\ Call(r)
    /\ EnqueueRoom
    /\ IF Executed(r) THEN EnqueueJob(j, s) ELSE UNCHANGED <<queue, status>>
    /\ Goto(j, IF r = "ok" THEN "record" ELSE "aborted")
    /\ UNCHANGED <<payload, expiring, slotVars, idem, proc, reqInst, answer>>

\* BUG: an error of SET is only counted, and the request goes on.
RecordKeyIgnoresError(j, r) ==
    /\ reqPc[j] = "record"
    /\ Call(r)
    /\ idem' = IF KeyOf[j] # NoKey /\ Executed(r) /\ idem[KeyOf[j]] = NoJob
               THEN [idem EXCEPT ![KeyOf[j]] = j] ELSE idem
    /\ Goto(j, "store")
    /\ UNCHANGED <<jobVars, slotVars, proc, reqInst, answer>>

\* SET idem:{hash} NX EX, then ZRANK and ZCARD for the response: a failure of
\* any of them leaves a queued job that never gets its payload.
RecordKey(j, r) ==
    /\ reqPc[j] = "record"
    /\ Call(r)
    /\ idem' = IF KeyOf[j] # NoKey /\ Executed(r) /\ idem[KeyOf[j]] = NoJob
               THEN [idem EXCEPT ![KeyOf[j]] = j] ELSE idem
    /\ Goto(j, IF r = "ok" THEN "store" ELSE "aborted")
    /\ UNCHANGED <<jobVars, slotVars, proc, reqInst, answer>>

\* _store_payload: a RedisError is swallowed and the request still answered.
StorePayload(j, r) ==
    /\ reqPc[j] = "store"
    /\ Call(r)
    /\ payload' = IF Executed(r) THEN payload \cup {j} ELSE payload
    /\ Respond(j, "answered", j)
    /\ UNCHANGED <<queue, status, expiring, slotVars, idem, proc, reqInst>>

\* The handlers that run in process i die with it.
RequestsDie(i) ==
    /\ reqPc' = [j \in Jobs |-> IF reqPc[j] \in Handling /\ reqInst[j] = i
                                THEN "aborted" ELSE reqPc[j]]
    /\ UNCHANGED <<reqInst, answer>>

NoRequestIn(i) == \A j \in Jobs : ~(reqPc[j] \in Handling /\ reqInst[j] = i)

AdmissionNext ==
    \E j \in Jobs, r \in Reply :
        \/ \E i \in Instances : Receive(i, j, r)
        \/ Reject(j, r)
        \/ \E s \in Scores : Enqueue(j, s, r)
        \/ RecordKey(j, r)
        \/ StorePayload(j, r)

==============================================================================
