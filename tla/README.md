# A TLA+ model of the LLM admission scheduler

The repository holds two programs. The scheduler (`app/`) sits between callers and
a LiteLLM proxy. For each model alias it keeps a priority queue, a number of
concurrency slots and a set of jobs in flight, all in Redis. The orchestrator
(`orchestrator/`) is a loop that lets three agents (triage, backend, CEO) work on
the issues and pull requests of a GitHub repository; its calls to an LLM go
through the scheduler. This project models both, checks them with TLC and proves
their main safety properties with TLAPS for any number of jobs, processes,
heartbeats, crashes and failing calls.

## 1. Inventory

| Component | State | Operations |
|---|---|---|
| Redis data model, Lua scripts (`app/storage`) | `queue:{m}`, `job:{id}`, `slots:{m}:in_use/capacity`, `inflight:{m}`, `lease:{id}`, `dlq:{m}`, `idem:{h}`, `seq:{m}` | claim, enqueue, cancel scripts; single commands and MULTI pipelines |
| Admission and submit routes (`core/admission.py`, `api/routes.py`) | none but the locals of each handler | idempotency check, enqueue, record key, store payload, score, answer; subscribe, poll and time out for a synchronous request |
| Dispatcher worker (`core/dispatcher.py`), one per model and process | popped job, outcome, stop event | pop, claim, lease, read, forward, mark, publish, release; stop |
| Lease watcher (`core/lease_watcher.py`), one per process | candidates of a scan | scan, check lease, reclaim, publish |
| Integrity checker (`core/integrity.py`), one per process | two values read | read, compare, reset `in_use` |
| Cancel route (`api/routes.py`) | status read | read, cancel script, expire, publish, mark |
| Life cycle (`app/main.py`) | tasks and clients | startup, shutdown |
| LiteLLM forwarder (`backend/`) | HTTP client | one POST with a timeout per phase |
| Status route (`api/routes.py`) | status read | read the hash, read the response blob |
| Event log (`observability/jsonl_logger.py`) | bounded queue, open file | emit, write a line, rotate, stop |
| Queue, metrics and health routes; metrics; uuid7; job store; configuration | see `PROJECT.json` | read only |
| Heartbeat loop (`orchestrator/main.py`) | the heartbeat it awaits | start a heartbeat of every agent and gather them; sleep |
| Triage agent (`roles/triage.py`) | none between heartbeats | list issues, ask the LLM, replace an issue's labels |
| Backend agent (`roles/backend.py`, `worktree.py`) | worktrees and local branches | claim an issue, worktree, generate, test, push, open a pull request; or block the issue |
| CEO agent (`roles/ceo.py`) | none between heartbeats | list pull requests, read files and checks; close, merge or flag |
| GitHub client (`github_app.py`) | installation token | one HTTP call per operation |
| Budget and LLM client (`budget.py`, `llm.py`) | one token counter per role and day in Redis | reserve, roll back, call with fallback, commit |
| Audit, configuration of the orchestrator | see `PROJECT.json` | output and constants |

**Interaction.** The scheduler's parts never call each other. They share Redis, and every
`await` on a Redis call is a point where any other task of any process may run.
Lua scripts and MULTI pipelines are atomic; everything else (check then enqueue
then record then store; claim then lease; read then reset; read then mark) is
not. A process may die between any two calls, and a call may fail before or after
the server executed it, because the client has a 5 s socket timeout and no
retries. The agents never call each other either: they share the labels of issues
and the pull requests, which each of them lists once per heartbeat and acts on
later. `asyncio.gather` runs the three side by side; when one raises, the loop
goes on to the next heartbeat while the other two are still at work.

**What is hard.** The window between a job leaving the queue and having a lease;
claims and releases whose replies are lost; watchers that judge a worker by a
key's absence; a checker that compares two values read at two moments; cancels
that act on a status read earlier; retries that overlap the request they repeat;
a graceful stop that cancels a task in any stage; a publish that nobody is subscribed
to, or that no longer is true; a score whose time wraps round; an event log that is
full, or torn by a disk error, when the process stops. In the orchestrator: a triage
that replaces all labels by a set computed from a list that is minutes old; a
block that fails halfway and leaves an issue neither claimed nor blocked; a merge
that names no commit, of a head read two calls earlier; heartbeats that overlap
after an exception; a token counter that is reserved on one day and settled on the
next. `PROJECT.json` lists each hazard at its line.

**What makes it correct.** The backend gets each job at most once and at most
`max_concurrency` jobs at a time, with known exceptions; slots are not given twice
and, after faults, come back; accepted jobs finish; a job cancelled in the queue is
not run; an answered retry gets the same job; the queue respects its bound; an
outcome is not replaced by another; urgent tiers go first; a client that waits is told what the hash says.
No event is lost uncounted. An issue is worked on once and gets one pull request; a claim ends;
what is labelled as worked has a pull request; what is merged was reviewed; a role
does not exceed its daily tokens.

## 2. Modules

| Module | Models | State |
|---|---|---|
| `SharedState` | Redis keys of one model alias, the scripts, what a call may do (`Reply`, `Call`), process states | `queue status payload expiring inUse inflight overdue lease dlq idem redisErrors proc` |
| `Admission` | `AdmissionController.admit` and the submit routes around it | `reqPc reqInst answer` |
| `CancelApi` | `cancel_job` | `canPc canJob canInst` |
| `Dispatcher` | `DispatcherWorker` | `wpc wjob wout`, ghosts `forwarded sentEmpty` |
| `LeaseWatcher` | `LeaseWatcher`, the passage of lease time | `candidates orphan`, ghosts `overran overbooked` |
| `IntegrityChecker` | `IntegrityChecker` | `seen actual recorded`, ghost `resetBy` |
| `Scheduler` | composition of all, `Crash`, `Stop`, `Restart`; every property and inductive invariant | `crashes stops` |
| `ResultApi` | composition of `Scheduler` with the publishes, the synchronous clients and the readers of results | `waiting inbox blob pubs reading readJob apiErrors` |
| `EventLog` | `JSONLLogger` and the order of `_shutdown` | `q writer handle files errors ...` |
| `PriorityOrder` | the score and the order of the queue | `clock seq pc tier number score`, ghost `stamp` |
| `SlotPool` | abstract specification: a pool of slots, some of them overbooked, that never repeats work | `running started extra` |
| `MCScheduler`, `MCResult` | constants and symmetry for TLC | |
| `SchedulerProofs`, `JobProofs`, `SlotProofs`, `ResultProofs`, `PriorityProofs`, `LogProofs` | theorems and proofs | |
| `TeamState` | issues, labels, pull requests, checks, what a GitHub call may do, `gather` | `labels issueOpen pr prLabels content ci ghErrors current failed`, ghost `opened` |
| `TriageAgent` | `TriageAgent` | `tListing tTodo tIssue tNew`, ghost `hasty` |
| `BackendAgent` | `BackendAgent`, git worktrees and branches | `bPc bIssue bRed worktree branch`, ghosts `picks leftover` |
| `CeoAgent` | `CEOAgent` | `cPc cTodo cPr cGrade cLabels` |
| `Team` | `main.loop` over the three agents; every property and inductive invariant of them | |
| `Budget` | `TokenBudget` around the calls of `LLMClient` | `pc key total charge counter today`, ghost `used` |
| `MCTeam` | the answers of the LLM, for TLC | |
| `TeamProofs`, `BudgetProofs` | theorems and proofs | |

### Scheduler

One action is one Redis call (or one atomic script or pipeline) together with the
code up to the next one; the program counters `reqPc`, `canPc` and `wpc` name the
call that comes next. Model aliases do not share keys, so one alias is modelled.
A job id also names the request that creates it.

Every action that calls Redis takes a reply `r`: `"ok"`, `"lostRequest"` (failed,
not executed) or `"lostReply"` (failed, executed). Where the two failures are the
same to the caller and the server (reads), one of them is left out.

Time is abstract. `inflight` scores and lease keys both measure
`max(sync_timeout_seconds, 60) + 30` s from the same pipeline, so time is two
steps: an inflight entry falls below a watcher's cutoff (`BecomesOverdue`), then
its lease key expires (`LeaseExpires`).

Nothing keeps this from happening to a job whose worker is alive: the HTTP timeout
bounds each phase of the call and not the whole of it, and nothing renews a lease.
Nor does anything keep watchers of two processes from scanning at the same time.
Both are in the model. Three ghosts say what comes of it:

* `overran`: jobs that became overdue in the hands of a live worker (at most
  `MaxOverruns`).
* `overbooked`: slots that were given away while they were taken. `Reclaim` gives one
  away when the job is still in a worker's hands, or when somebody else has reclaimed
  or released it since the check: its DECR does not depend on its ZREM. A reset of the
  integrity checker gives away what it forgets, the counted jobs that the inflight set,
  as it was read, did not list.
* `resetBy`: processes whose checker has reset `in_use`.

The slot properties are stated relative to `overbooked`, and `OverbookingBounded` says
how large it gets before a reset: one for each reclaimed job that outlasted its lease,
and one for each reclaimed job and *other* process. So one process (the shipped
Dockerfile) whose backend answers within the lease never overbooks, whatever fails and
however often it is restarted. The Dockerfile warns of several processes because of
races on the queue; the model shows that the queue is safe with any number of them
(`AtMostOnce`, proved) and that the reclaim is what is not.

`Tolerance` is 2 in the code. `CheckersRun` says whether a checker's round falls into
the behaviour at all; it runs once a minute. FALSE shrinks a run that is not about it.
The proofs cover both, and any capacity: the shipped models have 4 to 6 slots, the
default is 3. Above the tolerance a checker may reset `in_use` below the slots that are
held (two lost claim replies and a worker between claim and lease), which `overbooked`
counts.

`Malformed` names requests whose `metadata.priority` is a number but no integer. The
chat route does not validate it, admission computes a score with it, and `int()`
rejects it when the dispatcher reads it back, outside every `try`: the worker task
ends with its slot taken, and the process serves no further job of the model until
it is restarted. The proofs cover such jobs. `JobsFinish` holds with them as long as
one process keeps its worker (`core`); one per process refutes it for the next
job.

Bounds: `MaxRedisErrors`, `MaxCrashes`, `MaxStops`, `MaxOverruns`, and `MaxFaults` for
all of them together. Each lives in the guards of the faults it limits and the proofs
hold for any value.

**ResultApi.** A `PUBLISH` is a call of its own after the write it announces, so a
crash, a lost call or another actor's write may come between. Redis hands it to
whoever is subscribed at that moment. The synchronous handler subscribes only after
the job was enqueued and its payload stored, by when the job may be over; it polls
the hash whenever a second passes without a message. Every step of the module is a
step of `Scheduler`, with what it makes due to be published, or a step of a client
that leaves `Scheduler` alone; `ResultProofs` proves that. Graceful stops and the
integrity checker are left out of it.

**EventLog.** One event loop: `Queue.get` does not yield while the queue has items
and `_write_event` never awaits, so the writer, once awake, drains the queue before
any other task runs. An `OSError` in open, write or flush gives the event up, counts
it, and leaves in the file nothing of the line, a part of it without newline, or all
of it. `ShutdownOrder` is that of uvicorn and `_shutdown`. `LoggerStops` leaves out that
the 5 s which `stop` grants the writer run out and the writer is cancelled
(`jsonl_logger.py:45-48`): the writer never awaits between two events, so this takes a
disk that blocks the event loop for that long.

**PriorityOrder.** A handler takes its sequence number, reads the clock and adds the
job in three steps, with other handlers in between; the processes share one clock.
The module is about the order only, and `Scheduler` takes scores as given.

### Orchestrator

One action is one GitHub call, one git or LLM stage, or two calls of which the
first only comments. A pull request is named by the issue it closes, because
the branch name is made of the issue number. Every GitHub call takes a
reply: `"ok"`, `"refused"` (the client raises `GitHubAppError`), `"lostRequest"` and
`"lostReply"` (httpx raises, before or after GitHub executed the call). The
difference matters: many handlers catch only `GitHubAppError`, and an exception
that nobody catches leaves the heartbeat (`Escapes`). The verdict of the charter on
a branch head is data that nature chooses (`Grades`), kept apart from what the CEO
read of it (`cGrade`). The LLM is nature too: it answers anything in `Answers`, or
nothing usable.

`_work_one` has two `try` statements. The first, around the setup of the worktree,
catches `WorktreeError` only: an `OSError` (no `git`, a `mkdir` that fails) leaves the
heartbeat with the claim in place (`Setup`, outcomes `"early"` and `"late"`). In the
second, a `_block` that the code calls itself is the stage `"block"`, and an exception
of it, or of anything else, leads to the `_block` of the except clause,
`"blockAgain"`; an exception of that one leaves the heartbeat after the cleanup. The
cleanup may fail to remove the worktree, which is only logged (`leftover`). `log_event`,
which appends to a local file, is taken not to raise.

Three constants name assumptions:

* `Answers`: what the triage LLM may answer, any subset of areas and kinds with any
  verdict. The code drops invalid areas and kinds. An issue that is made ready without
  both (`hasty`) is listed again as not triaged; it may be claimed by then and lose the
  claim when the triage writes the labels it listed earlier. `PickedOnce` and `ClaimEnds`
  except these issues, and TLC refutes both without the exception. The proofs hold
  for any set of answers.
* `ClaimWithinInterval`: a list and the claim after it take at most two calls of 30 s,
  the pause between heartbeats is 300 s by default.
* `Beats`: heartbeats that can be under way together. The loop starts a new one only
  when the last one is over or has failed.

`MaxGitHubErrors` bounds the failed calls and sits in the guard of `GhCall`; the
proofs hold for any value.

**Budget** stands for one role, whose counters no other role touches. Its calls
overlap when two daemons run, or when a failed heartbeat left agents behind (see
`one_issue`). A failed or timed-out call is settled with what was expected, an
error of Redis at the reservation lets the call through uncounted, and an answer
without choices raises an `IndexError` that no caller catches, after which the
reservation stays. `NeverUndercounts` is about the calls whose reservation was accepted:
the ones let through uncounted may leave the counter below the real use. Two assumptions: `UsageReported`, that answers carry
`usage.total_tokens` (one that does not is committed as 0 tokens, which refutes
`NeverUndercounts`), and that a refused connection or a 5xx consumed nothing before the
fallback is tried.

## 3. Runs

Passing:

| Run | Instance | Shows |
|---|---|---|
| `core` | 2 processes, 2 jobs, one of them malformed, 1 cancel, 1 slot, queue of 1, scores 1 and 2, no other fault, fair (112 thousand states) | `QueueBounded`, `SlotsExact`, `NoLostJob`, `OutcomeKept`, `JobsFinish` |
| `sync` | 1 process, a synchronous and an asynchronous request of one key, 1 cancel, 1 reader, 1 fault (a failing call of anyone, or a crash), fair clients (877 thousand) | `ApiTypeOK`, `AnswersAgree`, `NoPhantomCompletion`, `QueuedIsUntouched`, `RetriesDeduplicated`, `CancelHonoured`, `ResultReachesCaller` |
| `faults` | 2 processes whose scans overlap, 2 jobs, 1 slot, any two of a crash, a Redis error and a job that outlasts its lease (894 thousand) | `TypeOK`, `AtMostOnce`, `SlotsAccounted`, `ConcurrencyBound`, `OverbookingBounded`, `ImplementsPool` |
| `recovery` | 1 process, 1 job, 4 slots, any four of 3 Redis errors, a crash and a graceful stop, checker on, fair (74 thousand) | `SlotsAccounted`, `InflightDrains`, `DriftCorrected` |
| `log` | 4 events, queue of 2, 2 disk errors, 2 days, a shutdown, fair | `LogTypeOK`, `NoSilentLoss`, `DamageBounded`, `InOrder`, `FiledByDay`, `Flushed`, `ShutdownCompletes` |
| `order` | 3 jobs, tiers 1 and 3, multiplier 4, modulus 2, 8 ticks | `TierFirst`, `FifoWithinEpoch` |
| `budget` | 3 calls of 2 tokens against a cap of 5, usage 1 or 3, 1 Redis error, 2 days | `BudgetTypeOK`, `CounterExact`, `CapHolds`, `NeverUndercounts` |
| `team` | 1 issue, 1 heartbeat at a time, 2 failed GitHub calls, answers with and without a kind, fair (1.1 million) | `TypeOK`, `OnePrPerIssue`, `MergedIsReviewed`, `PickedOnce`, `WorkedHasPr`, `ClaimEnds` |

Why these bounds. One slot and two processes make every claim contended and let a
crashed process's job meet a live worker and its watcher; with a queue of one the
second request can be refused by the depth check or, after a pop, be accepted. In
`sync` the request that waits and the one that retries it can be admitted in either
order, cancelled in the queue or later, and the one fault can hit any call. Three
Redis errors are what it takes to leak three slots of one job and pass the
tolerance. Two faults of different kinds suffice for the safety runs because each property
is already broken by them when the code is mutated, and the proofs remove the bound.
Graceful stops are in `recovery`, where a stop may cancel the worker in any stage, before
or after the faults; the proofs have them everywhere.
In the runs with fairness `MaxOverruns` is 0: they assume that a live worker is done
before its lease ends.
Four events overflow a queue of two; two disk errors can tear two lines in a row or
apart. Two calls fit under the cap and the third does not. Eight ticks of a clock
with period 4 contain stamps of one period and of two.

In `team` the heartbeats repeat for ever, so one issue meets every stage of several
of them. One heartbeat at a time loses nothing for the properties that speak of
behaviours in which no heartbeat has failed, all but `WorkedHasPr`:
heartbeats overlap only after a failure. `ReadyAnswers` has the answers after which an
issue is ready, with a kind or without; others only leave it alone. `WorkedHasPr` speaks of all behaviours and
is proved for any number of heartbeats. Two failed calls are what it takes to make
an issue that already has a pull request a candidate again (the removal of the claim
succeeds, marking it as worked and then as blocked fails), so that `OnePrPerIssue`
rests on git's refusal to create a branch twice. Deadlock is checked.

What the premises leave out, each of it a behaviour of the code:

* `SlotsExact`, `NoLostJob` and `OutcomeKept` are properties of the program without
  faults (`Calm`), with any cancels. They hold with a malformed job, whose slot
  and inflight entry stay until a watcher reclaims them (`Abandoned`); two watchers may
  both do so, which `SlotsExact` subtracts. With faults they fail, for reasons the
  code accepts or overlooks: a lost claim reply leaks a slot, a crash after the pop
  loses the job, and a crash between writing the outcome and releasing the slot lets the
  watcher turn `completed` into `failed`. After a failing read `_cleanup_slot`, and the
  cancel route after a failing EXPIRE, leave a terminal hash without a TTL.
* A terminal *status* is not final, without any fault: a cancel request that read the
  status before the job finished writes `cancelling` over the `completed` written
  since (`api/routes.py:350`), where `docs/architecture.md:189` calls a cancel of a
  terminal job a no-op. `OutcomeKept` says that this is the only way to lose an outcome.
* `ConcurrencyBound` is the capacity plus what is overbooked; the capacity alone is
  exceeded when a lease ends early, when two watchers reclaim one job, and after a
  reset.
* `OnePrPerIssue` and `MergedIsReviewed` except issues whose worktree was once not
  removed: a later heartbeat that picks such an issue again works in the old worktree
  and pushes to the branch of its pull request. TLC refutes both without the exception.
* `ClaimEnds` excuses failed GitHub calls and failed heartbeats. A claim call whose reply
  is lost, and an `OSError` in the setup of the worktree, leave the claim for ever.
* `DriftCorrected` speaks of a drift beyond the tolerance. A smaller one is never
  repaired: with a capacity of at most 2 the checker never acts at all
  (`CheckerNeverActs`), and a leaked slot is lost until an operator resets it.
* `AnswersAgree` assumes that no write of an outcome fails and no process dies. A client
  that was told `cancelled` may later read `cancelling`, but only when two cancel
  requests were sent: the second one read `queued` before the first removed the job,
  falls through its script and overwrites the status. After a write that failed the worker publishes the outcome all the same: a waiting client
  hears `completed`, finds no blob and is answered 500, while the hash says
  `dispatched` (this is also the premise of `NoPhantomCompletion`).
  After a crash the watcher may change the outcome that a client was told.
* A `RedisError` in a route is not handled: the client gets a 500 where
  `docs/architecture.md` announces a 503 for an unreachable Redis.
* `DamageBounded` counts two events per error, and not one: the torn line that an
  error leaves swallows the line that follows it, which nothing counts.
* `FifoWithinEpoch` ends where the period of 1000 s does: a job stamped just before the
  wrap has a higher score than every later one of its tier stamped after it, and
  waits for all of them. Within a period stamps less than 1000 ns apart may be
  swapped, since up to 999 is added for the sequence number; the comment calls it a
  "tie-breaker within the same nanosecond" (`core/admission.py:111`).
* `TierFirst` is about tiers at least 2 apart, as the documented ones 1, 3, 5, 7, 9
  are: the sequence number can carry a score into the next tier.

Violations, each refuting a sentence of the repository (quoted under `findings`):

| Run | Property | What TLC finds |
|---|---|---|
| `stop_loses_job` | `NoLostJob` | the stopping worker returns where its comment says "Re-queue" |
| `payload_race` | `PayloadForwarded` | the worker reads the hash before the route stores the payload, and forwards `{}` |
| `concurrent_retries` | `OneJobPerKey` | two requests pass the GET before either SETs the key, and are answered with two job ids |
| `one_issue` | `OneIssueAtATime` | the CEO's list raises, the loop goes on, and the next heartbeat's backend agent takes a second issue while the first is in work |

`CHECK_DEADLOCK` is off except in `team`: the scheduler rests when no request is left,
the log after its shutdown, the budget when its calls are over.

**Fairness** of the scheduler (`FairSpec`): weak fairness of every worker, watcher and checker, of
the backend's answer, of the passage of time and of restarts. The event loop runs
every ready task; Redis calls end within the socket timeout; the backend call ends
by its timeouts; keys expire; compose restarts a dead process
(`restart: unless-stopped`). Weak fairness of `Works(i)` says that an *enabled*
worker moves; in `core` two workers poll for one slot and `JobsFinish` holds
although a worker may lose the race for a while, because the other one's job ends.
Nothing obliges clients to submit or to cancel, and no fairness is put on handlers.

`ApiFairSpec` asks only that the waiting handlers go on and that their calls do not
fail for ever (weak fairness of `WaiterCall(j, "ok")`). The deadline is not fair, so
`ResultReachesCaller` shows that a client is answered without it. `LogFairSpec`: the
event loop runs the writer and the coroutine of `_shutdown`, and the stop of each
part returns (each has a timeout or cancels its task).

Fairness of the orchestrator (`FairSpec` of `Team`): weak fairness of the backend agent of
each heartbeat under way, all that `ClaimEnds` needs. GitHub calls have a timeout of 30 s
and the LLM has one per role. The code waits for git and
the tests without a timeout (`worktree._run`), so that these subprocesses end is an
assumption: a hung one keeps its claim, and the loop, waiting for ever.

## 4. Proofs

All proofs are by TLAPS, for every value of the constants that satisfies the named
assumptions (`ConstantsAssumption`, `SchedulerAssumption`, `IntegrityAssumption`:
finite sets of jobs and processes, positive capacity and depth, natural bounds).

* `SchedulerProofs`: `TypeCorrect`. `TypeOK` is inductive. It carries two relations
  the other proofs use: a worker has a job exactly in the stages that work on one,
  and a worker in `"mark"` has an outcome.
* `JobProofs`, no further assumption. `JobInv` is the life of a job: *fresh* (its
  handler has not run the enqueue script), *queued*, *gone*. Its three parts say
  that only gone jobs are forwarded, in flight or dead (`JobLife`), that a worker's
  job is gone, its own, and not forwarded before the backend stage (`JobOwners`),
  and that ids in clients' hands are not fresh and a cancel writes to gone jobs
  (`JobClients`). None of the properties is inductive alone: `AtMostOnce` needs
  that no two workers have a job, which needs that a popped job never returns to
  the queue, which needs that only the job's own handler enqueues it. Theorems:
  `NeverTwice`, `QueueUntouched`, `CancelsHold`, `QueueNeverOverflows`.
  `RetriesAgree` needs `RetryInv` besides: a handler past recording its key finds it
  recorded, and a recorded key names a job that was enqueued; it is inductive because
  `SET NX` never replaces a key.
* `SlotProofs`, no further assumption. `SlotsAccounted` compares the cardinality of the
  jobs that must be counted with `in_use` and `overbooked`. Every step keeps both, takes a
  slot or gives one back; a reclaim or reset that gives back one that is taken pays with
  `overbooked`. That a release gives back a slot that is counted needs that no two
  workers have a job (`JobInv`). Theorems: `SlotsNeverGivenTwice`, `BackendNeverOverloaded`
  (workers at the backend inject into the counted jobs) and `SchedulerImplementsPool`
  (the refinement of `SlotPool`, step by step).

  `OverbookingIsBounded` needs `OrphanInv`, that what a watcher refers to is overdue, was
  reclaimed or outlasted its lease, and `ReclaimInv`, which counts the
  pairs of a process and a reclaimed job: each reclaim that overbooks uses one up,
  because a reclaimed job is never in flight again and a process that has reclaimed it
  finds it in no later scan. `CheckerNeverActs` assumes `MaxConcurrency <= Tolerance`
  and shows what this means: the integrity checker can never act, and a leaked slot stays
  leaked.

  The properties of `core` are proved of every behaviour up to its first fault
  (`Calm`: no failed Redis call, crash, stop, reset or job that outlasted its lease so
  far), so that they also say in which state a fault finds the system. `SlotsAreExact` and
  `NothingForgotten` follow from
  `CalmInv`: nothing is in flight but what a worker holds and what a malformed job left
  behind, and a worker writes the outcome before it gives the slot back
  (`CalmSlots`). Each step leaves `in_use` and the holders alone or moves both by one,
  and a malformed job passes from the holders to `Abandoned`. `OutcomesAreKept`, an
  action property, needs that only jobs out of everybody's hands
  have an outcome (`Settled`, in `OutcomeInv`), so no worker writes a second
  one and a second watcher writes the same.
* `ResultProofs`: `ApiImplementsScheduler`. Every step of `ResultApi` is one of
  `Scheduler` or leaves its variables alone, so what is proved of `Scheduler` holds
  of the composition (`ApiKeepsPromises`). `ApiTypeCorrect`: its types.
  `CompletedHasResult` needs no assumption: wherever `completed` is written, announced,
  in an inbox or about to be acted upon, the blob is in the hash already (`BlobInv`),
  and no step removes a blob. `AnswersAreTrue` carries the
  same idea for all outcomes: what is about to be published, is in an inbox or was
  answered has happened to a job that is in nobody's hands any more (`Truthful`,
  `Concluded`), and workers and cancel requests write different outcomes (`Outcomes`).
  With `Settled` nothing but a cancel request can overwrite it. The proof attempt showed
  that a second cancel request can also overwrite `cancelled`, which the run with one
  cancel cannot reach; `AnswersAgree` says so (`Recancelled`).
* `PriorityProofs`, from `PriorityAssumption` only (any tiers, multiplier and modulus
  not above it). `OrderCorrect`: the types, and that a score in the queue is computed
  from its job's tier, stamp and number (`OrderInv`). `ScoreRange` bounds a score
  by its tier, `TiersApart` separates tiers two apart; `TiersServedFirst` and
  `FifoHolds` follow because a pop takes a lowest score.
* `TeamProofs`, from `TeamStateAssumption`, `TriageAssumption` and `TeamAssumption`
  only: any set of issues, any number of heartbeats, failed calls and answers.
  `TeamTypeCorrect`: `TypeOK` is inductive. `WorkedMeansPr`: `WorkedHasPr` is not
  inductive because a triage may write labels from an old list; `WorkedInv` says
  the same of every list, of every set about to be written, and of a backend agent
  past opening its pull request, and holds because no pull request becomes "none"
  again. `NeverTwoPrs` and `MergesOnlyReviewed` follow from `OrderlyInv`: without a
  failed heartbeat only the current one is under way (`SoloInv`); a pull request implies a
  branch, and a worktree only until the heartbeat that opened it is over, unless its
  removal failed (`BranchInv`), so the setup of a later one is refused and nobody pushes to a
  head under review; hence what the CEO read is still true when it merges
  (`ReviewInv`). That the merge names no commit is harmless for this reason alone.
  `PickedOnlyOnce` follows from `OnceInv`, for any answers: only one heartbeat is under
  way; an issue that is ready and not `hasty` is triaged, and what the triage agent is
  about to write of such issues concerns only those that are not triaged yet
  (`FreshInv`), so it never overwrites a claim; and a picked issue carries a label of the
  backend agent except between two label calls of the heartbeat that picked it (`PickInv`).
* `BudgetProofs`, from `BudgetAssumption`. `BudgetTypeCorrect`: a call that touches a
  counter has the key of its own reservation. A sum over calls is stated as the
  number of their tokens (`TokenCount`, the cardinality of pairs of a call and a number),
  because a fold over a set of unknown size cannot be unfolded by the provers while
  cardinalities can be compared; the lemmas on it say what one call's change does to the sum.
  `CounterIsExact` needs only that a step changes the share of one call and its
  counter by the same amount. `CapIsKept` needs `PotentialInv`: the total that
  `INCRBY` returned and the call compared with the cap covered everything the others
  may still consume. `CounterCoversUsage` holds under failing Redis calls, where the
  counter is no longer exact; `FloorInv` says what each call is sure to have left on
  it. The last two assume `UsageReported`.
* `LogProofs`, from `EventLogAssumption`. `OrderInv`: the queue is sorted and newer than the
  files (`QueueInv`), the sentinel comes after every event and the writer ends with it
  (`StopInv`), and nothing is filed under a day to come (`DayInv`). It gives
  `LogTypeCorrect`, `FilesInOrder`, `FilesByDay` and `ShutdownFlushes`.
  `LossesAreCounted` and `DamageIsBounded` add `LossInv`, which compares cardinalities
  step by step; `DamageBounded` is inductive only with the debt of a torn last line
  (`DamageInv`): its error is counted, the line it will swallow is not lost yet.

Each inductive invariant was checked by TLC on the instances of section 3 before it was
proved.

**Only model-checked**: liveness (`JobsFinish`, `InflightDrains`, `DriftCorrected`,
`ClaimEnds`, `ResultReachesCaller`, `ShutdownCompletes`), which needs fairness and
`ENABLED`. Every invariant and every other action property of the passing runs is
proved. The violations are TLC's counterexamples.

## 5. Not modelled

* Expiry of terminal job hashes and of idempotency keys (`expiring` records only
  that the TTL was set), and with it the answer for a job that is gone: the code
  gives 404, for a key that outlives its job too (410, which the documents announce,
  only when the hash expires between two calls of the status route).
* The branch for an empty job hash: the claim script has just written fields of it,
  so it cannot be empty there.
* Empty script cache after a restart of Redis (NOSCRIPT), loss of Redis data, models
  without a worker, `max_wait_seconds` (no code enforces it), a failing start-up.
* Clients that cancel ids they were not given (404), and the routes that only report.
* Metrics, uuid7, job store, benchmarks: see `components`.
* Orchestrator: death of the daemon (after which a claim stays on the issue for
  ever), humans who change labels or pull requests, the text of comments,
  installation tokens, the pause switches, and the audit file.

## 6. Plan

Done: `SharedState`, `Dispatcher`, `Admission`, `CancelApi`, `LeaseWatcher`,
`IntegrityChecker`, `SlotPool`, `Scheduler`; the clients (`ResultApi`); the order of
the queue (`PriorityOrder`); the event log (`EventLog`); the label protocol of the
three agents (`Team`) and their budget (`Budget`); the proofs above. Next, in order:

1. Proofs: a bound on what a reset of the checker overbooks; an abstract specification of
   the log that `EventLog` implements.
2. Expiry of job hashes and idempotency keys, and what a retry is told afterwards.
3. Restart of Redis: the script cache, `in_use` and what survives.
4. In `Team`: death and restart of the daemon, and pull requests with red tests, which
   the backend agent flags for a human and the CEO agent may merge all the same. The
   installation token and its refresh under a lock.
