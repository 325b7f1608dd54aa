-------------------------------- MODULE EventLog -------------------------------
(***************************************************************************)
(* JSONLLogger (app/observability/jsonl_logger.py) and the order in which  *)
(* _shutdown (app/main.py) stops the tasks that emit events and then the   *)
(* logger itself.                                                          *)
(*                                                                         *)
(* Everything runs in one event loop.  Queue.get returns without giving up *)
(* the loop while the queue is not empty, and _write_event never awaits:   *)
(* once the writer has woken up it drains the queue, and no other task     *)
(* runs before it is empty.  The clock and the disk do what they like in   *)
(* the meantime.                                                           *)
(*                                                                         *)
(* Events are numbered in the order of the calls of emit.                  *)
(***************************************************************************)
EXTENDS Integers, Sequences, FiniteSets

CONSTANTS
    QueueSize,      \* maxsize of the asyncio queue
    MaxEvents,      \* bound: calls of emit
    MaxDiskErrors,  \* bound: OSErrors of the disk
    LastDay         \* bound: UTC days of a behaviour

ASSUME EventLogAssumption ==
    /\ QueueSize \in Nat \ {0}
    /\ MaxEvents \in Nat
    /\ MaxDiskErrors \in Nat
    /\ LastDay \in Nat \ {0}

VARIABLES
    emitted,    \* calls of emit so far
    emitDay,    \* ghost: the day on which each event was emitted
    q,          \* _queue: event numbers, Sentinel for None
    writer,     \* the writer task: "waiting" in get, "draining" or "ended"
    handle,     \* the day whose file _fh has open, or NoHandle
    files,      \* per day, what its file holds: whole lines and torn ones
    errors,     \* log_write_errors_total
    diskErrors, \* OSErrors so far (bounded by MaxDiskErrors)
    today,      \* the UTC date
    stopping    \* how far _shutdown got: 0 not begun, k busy with its k-th part

logVars == <<emitted, emitDay, q, writer, handle, files, errors, diskErrors, today, stopping>>

Sentinel == 0
NoHandle == 0
Days     == 1..LastDay

\* BUG: the logger is stopped before the workers have ended.
LoggerStopsEarly == <<"handlers", "integrity", "watcher", "logger", "workers">>

\* uvicorn drains its handlers, then _shutdown stops one part after the other;
\* the stop of a part returns when its tasks have ended.
ShutdownOrder == <<"handlers", "integrity", "watcher", "workers", "logger">>

Ended == Len(ShutdownOrder) + 1

\* The part may still emit: it is not stopped yet, or is being stopped.
Emitting(part) ==
    \E k \in 1..Len(ShutdownOrder) : ShutdownOrder[k] = part /\ stopping <= k

Emitters == {"handlers", "integrity", "watcher", "workers"}

Lines == [event : 1..MaxEvents, whole : BOOLEAN]

LogTypeOK ==
    /\ emitted \in 0..MaxEvents
    /\ emitDay \in [1..MaxEvents -> Days \cup {0}]
    /\ q \in Seq(0..MaxEvents)
    /\ Len(q) <= QueueSize
    /\ writer \in {"waiting", "draining", "ended"}
    /\ handle \in Days \cup {NoHandle}
    /\ files \in [Days -> Seq(Lines)]
    /\ errors \in Nat
    /\ diskErrors \in 0..MaxDiskErrors
    /\ today \in Days
    /\ stopping \in 0..Ended

\* start.
LogInit ==
    /\ emitted = 0
    /\ emitDay = [e \in 1..MaxEvents |-> 0]
    /\ q = <<>>
    /\ writer = "waiting"
    /\ handle = NoHandle
    /\ files = [d \in Days |-> <<>>]
    /\ errors = 0
    /\ diskErrors = 0
    /\ today = 1
    /\ stopping = 0

\* The event loop is free to run another task than the writer.
LoopFree == writer # "draining"

------------------------------------------------------------------------------
\* BUG: the event is dropped without being counted.
EmitUncounted(part) ==
    /\ LoopFree
    /\ Emitting(part)
    /\ emitted < MaxEvents
    /\ emitted' = emitted + 1
    /\ emitDay' = [emitDay EXCEPT ![emitted'] = today]
    /\ q' = IF Len(q) < QueueSize THEN Append(q, emitted') ELSE q
    /\ UNCHANGED <<writer, handle, files, errors, diskErrors, today, stopping>>

\* BUG: a queue without maxsize.
EmitUnbounded(part) ==
    /\ LoopFree
    /\ Emitting(part)
    /\ emitted < MaxEvents
    /\ emitted' = emitted + 1
    /\ emitDay' = [emitDay EXCEPT ![emitted'] = today]
    /\ q' = Append(q, emitted')
    /\ UNCHANGED <<writer, handle, files, errors, diskErrors, today, stopping>>

\* put_nowait; QueueFull drops the event and counts it.
Emit(part) ==
    /\ LoopFree
    /\ Emitting(part)
    /\ emitted < MaxEvents
    /\ emitted' = emitted + 1
    /\ emitDay' = [emitDay EXCEPT ![emitted'] = today]
    /\ \/ Len(q) < QueueSize /\ q' = Append(q, emitted') /\ UNCHANGED errors
       \/ Len(q) >= QueueSize /\ errors' = errors + 1 /\ UNCHANGED q
    /\ UNCHANGED <<writer, handle, files, diskErrors, today, stopping>>

\* BUG: an open handle is kept whatever the date.
NeverRotates == IF handle # NoHandle THEN handle ELSE today

\* _ensure_file_open: a handle is kept while its date is today's, and else
\* replaced by one on today's file.
EnsureFileOpen == IF handle # NoHandle /\ handle = today THEN handle ELSE today

Line(e, whole) == [event |-> e, whole |-> whole]

\* The writer goes on draining while the queue is not empty.
Drained == writer' = IF Tail(q) = <<>> THEN "waiting" ELSE "draining"

HasEvent == q # <<>> /\ Head(q) # Sentinel /\ writer # "ended"

\* BUG: the line is written without its newline.
WriteEventNoNewline ==
    /\ HasEvent
    /\ q' = Tail(q)
    /\ Drained
    /\ handle' = EnsureFileOpen
    /\ files' = [files EXCEPT ![handle'] = Append(@, Line(Head(q), FALSE))]
    /\ UNCHANGED <<emitted, emitDay, errors, diskErrors, today, stopping>>

\* _write_event on a disk that works: one line, flushed.
WriteEvent ==
    /\ HasEvent
    /\ q' = Tail(q)
    /\ Drained
    /\ handle' = EnsureFileOpen
    /\ files' = [files EXCEPT ![handle'] = Append(@, Line(Head(q), TRUE))]
    /\ UNCHANGED <<emitted, emitDay, errors, diskErrors, today, stopping>>

\* What an OSError leaves of the line in the file: nothing, a part without its
\* newline, or all of it (the buffer goes out when the handle is dropped).
Leaves(file, e) == {file, Append(file, Line(e, FALSE)), Append(file, Line(e, TRUE))}

\* BUG: the event goes back to the queue to be retried later.
WriteFailsRetry ==
    /\ HasEvent
    /\ diskErrors < MaxDiskErrors
    /\ diskErrors' = diskErrors + 1
    /\ q' = Append(Tail(q), Head(q))
    /\ writer' = "draining"
    /\ errors' = errors + 1
    /\ handle' = NoHandle
    /\ \E f \in Leaves(files[today], Head(q)) : files' = [files EXCEPT ![today] = f]
    /\ UNCHANGED <<emitted, emitDay, today, stopping>>

\* _write_event that meets an OSError in open, write or flush: the event is
\* counted and given up, the handle is dropped.
WriteFails ==
    /\ HasEvent
    /\ diskErrors < MaxDiskErrors
    /\ diskErrors' = diskErrors + 1
    /\ q' = Tail(q)
    /\ Drained
    /\ errors' = errors + 1
    /\ handle' = NoHandle
    /\ \E f \in Leaves(files[today], Head(q)) : files' = [files EXCEPT ![today] = f]
    /\ UNCHANGED <<emitted, emitDay, today, stopping>>

\* BUG: continue in the place of break.
WriterIgnoresSentinel ==
    /\ q # <<>>
    /\ Head(q) = Sentinel
    /\ writer # "ended"
    /\ q' = Tail(q)
    /\ writer' = "waiting"
    /\ UNCHANGED <<emitted, emitDay, handle, files, errors, diskErrors, today, stopping>>

\* The writer takes the sentinel and ends.
WriterEnds ==
    /\ q # <<>>
    /\ Head(q) = Sentinel
    /\ writer # "ended"
    /\ q' = Tail(q)
    /\ writer' = "ended"
    /\ UNCHANGED <<emitted, emitDay, handle, files, errors, diskErrors, today, stopping>>

Writer == WriteEvent \/ WriteFails \/ WriterEnds

------------------------------------------------------------------------------
\* The part that _shutdown is busy with.
Stops(part) == stopping \in 1..Len(ShutdownOrder) /\ ShutdownOrder[stopping] = part

ShutdownBegins ==
    /\ LoopFree
    /\ stopping = 0
    /\ stopping' = 1
    /\ UNCHANGED <<emitted, emitDay, q, writer, handle, files, errors, diskErrors, today>>

\* The stop of a part other than the logger returns.
PartStops ==
    /\ LoopFree
    /\ \E part \in Emitters : Stops(part)
    /\ stopping' = stopping + 1
    /\ UNCHANGED <<emitted, emitDay, q, writer, handle, files, errors, diskErrors, today>>

\* JSONLLogger.stop: put(None), which waits while the queue is full.
PutSentinel ==
    /\ LoopFree
    /\ Stops("logger")
    /\ writer # "ended"
    /\ \A k \in 1..Len(q) : q[k] # Sentinel
    /\ Len(q) < QueueSize
    /\ q' = Append(q, Sentinel)
    /\ UNCHANGED <<emitted, emitDay, writer, handle, files, errors, diskErrors, today, stopping>>

\* ... then wait for the writer and close the file.  Left out: that the five
\* seconds of the wait run out, and the writer is cancelled.  The writer needs
\* the loop only once and never awaits while it writes, so that this takes a disk
\* that blocks the whole event loop for as long.
LoggerStops ==
    /\ Stops("logger")
    /\ writer = "ended"
    /\ handle' = NoHandle
    /\ stopping' = stopping + 1
    /\ UNCHANGED <<emitted, emitDay, q, writer, files, errors, diskErrors, today>>

\* UTC midnight (external).
Midnight ==
    /\ today < LastDay
    /\ today' = today + 1
    /\ UNCHANGED <<emitted, emitDay, q, writer, handle, files, errors, diskErrors, stopping>>

LogNext ==
    \/ \E part \in Emitters : Emit(part)
    \/ Writer
    \/ ShutdownBegins
    \/ PartStops
    \/ PutSentinel
    \/ LoggerStops
    \/ Midnight

LogSpec == LogInit /\ [][LogNext]_logVars

\* The event loop runs every ready task; nothing obliges anyone to emit, to
\* shut down, or the disk to fail.
LogFairSpec ==
    /\ LogSpec
    /\ WF_logVars(Writer)
    /\ WF_logVars(PartStops)
    /\ WF_logVars(PutSentinel)
    /\ WF_logVars(LoggerStops)

------------------------------------------------------------------------------
Waiting == {q[k] : k \in 1..Len(q)}
Written == UNION {{files[d][k].event : k \in 1..Len(files[d])} : d \in Days}

\* A reader can parse line k of day d: it is whole and starts on a line of its
\* own, not behind the rest of a torn one.
Readable(d, k) == files[d][k].whole /\ (k = 1 \/ files[d][k - 1].whole)

Parsed == UNION {{files[d][k].event : k \in {n \in 1..Len(files[d]) : Readable(d, n)}} : d \in Days}

\* The events that are over, and of which a reader of the files finds nothing
\* at all, or nothing that can be parsed.
Lost       == ((1..emitted) \ Waiting) \ Written
Unreadable == ((1..emitted) \ Waiting) \ Parsed

\* No event disappears silently: the events that are in no file and no longer
\* in the queue are at most as many as log_write_errors_total counts, through a
\* full queue, a failing disk, a rotation and a shutdown.
NoSilentLoss == Cardinality(Lost) <= errors

\* One failed write can cost two events, never more: the torn line it leaves
\* swallows the line that follows it, which nothing counts.
DamageBounded == Cardinality(Unreadable) <= 2 * errors

\* Read day after day the files list the events in the order in which they
\* were emitted, none of them twice.
InOrder ==
    \A c, d \in Days : \A j \in 1..Len(files[c]), k \in 1..Len(files[d]) :
        c < d \/ (c = d /\ j < k) => files[c][j].event < files[d][k].event

\* An event is filed under the day of its emission or, when midnight passed
\* while it was queued, a later one: the file of a day that is over no longer
\* grows by events of the next.
FiledByDay ==
    \A d \in Days : \A k \in 1..Len(files[d]) : emitDay[files[d][k].event] <= d

\* A graceful shutdown leaves no event behind in memory: whatever the workers,
\* the watcher or the checker emitted while they were being stopped is flushed.
Flushed == stopping = Ended => Waiting = {}

\* A shutdown that has begun comes to its end: the sentinel finds room even if
\* the queue was full.
ShutdownCompletes == (stopping > 0) ~> (stopping = Ended)

------------------------------------------------------------------------------
(***************************************************************************)
(* The inductive invariants behind these properties (see LogProofs).       *)
(***************************************************************************)
\* The events are queued in the order of their numbers, all of them newer than
\* what the files hold.
QueueInv ==
    /\ \A i, j \in 1..Len(q) : i < j => q[i] # Sentinel /\ (q[j] = Sentinel \/ q[i] < q[j])
    /\ \A i \in 1..Len(q) : q[i] <= emitted
    /\ \A i \in 1..Len(q), d \in Days : \A k \in 1..Len(files[d]) :
            q[i] = Sentinel \/ files[d][k].event < q[i]

\* The sentinel comes when nothing emits any more, and the writer ends with it.
StopInv ==
    /\ (\E i \in 1..Len(q) : q[i] = Sentinel) => Stops("logger")
    /\ writer = "ended" => q = <<>> /\ stopping >= Len(ShutdownOrder)
    /\ stopping = Ended => writer = "ended"

\* Nothing is filed under a day to come, or emitted on one.
DayInv ==
    /\ \A d \in Days : d > today => files[d] = <<>>
    /\ \A d \in Days : \A k \in 1..Len(files[d]) : files[d][k].event <= emitted
    /\ \A e \in 1..MaxEvents : emitDay[e] <= today

OrderInv == LogTypeOK /\ QueueInv /\ StopInv /\ DayInv /\ InOrder /\ FiledByDay

\* Today's file ends in a torn line: the next event will be unreadable.
Torn == files[today] # <<>> /\ ~files[today][Len(files[today])].whole

\* A torn line at the end has been paid for, but has not swallowed a line yet.
DamageInv ==
    /\ DamageBounded
    /\ Torn => Cardinality(Unreadable) + 1 <= 2 * errors

LossInv == NoSilentLoss /\ DamageInv

==============================================================================
