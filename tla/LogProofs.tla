------------------------------- MODULE LogProofs -------------------------------
(***************************************************************************)
(* The safety properties of EventLog, for any size of the queue and any    *)
(* number of events, disk errors and days.                                 *)
(***************************************************************************)
EXTENDS EventLog, FiniteSetTheorems, SequenceTheorems, TLAPS

\* The places of the parts in the order in which _shutdown stops them.
LEMMA ShutdownPlaces ==
  /\ Len(ShutdownOrder) = 5 /\ Ended = 6
  /\ Stops("logger") <=> stopping = 5
  /\ \A part \in Emitters : /\ stopping \in Nat /\ Emitting(part) => stopping <= 4
                            /\ Stops(part) => stopping \in 1..4
  BY DEF ShutdownOrder, Ended, Stops, Emitting, Emitters

\* The head of the queue is an event of its own, and the tail what comes after.
LEMMA Heads ==
  ASSUME LogTypeOK, q # <<>>
  PROVE  /\ Head(q) = q[1] /\ q[1] \in 0..MaxEvents /\ 1 \in 1..Len(q)
         /\ Tail(q) \in Seq(0..MaxEvents) /\ Len(Tail(q)) = Len(q) - 1
         /\ \A i \in 1..Len(Tail(q)) : Tail(q)[i] = q[i + 1] /\ i + 1 \in 1..Len(q)
  <1>1. q \in Seq(0..MaxEvents) /\ Len(q) \in Nat
    BY LenProperties DEF LogTypeOK
  <1>2. Head(q) \in 0..MaxEvents /\ Tail(q) \in Seq(0..MaxEvents)
    BY <1>1, HeadTailProperties
  <1>3. Head(q) = q[1] /\ Len(Tail(q)) = Len(q) - 1 /\ Len(q) >= 1
    BY <1>1
  <1>4. \A i \in 1..Len(Tail(q)) : Tail(q)[i] = q[i + 1]
    BY <1>1, <1>3
  <1> QED
    BY <1>1, <1>2, <1>3, <1>4

\* What a write leaves in today's file: the lines it held, and then perhaps one
\* of the event, torn or whole.
LEMMA Left ==
  ASSUME LogTypeOK, NEW e \in 1..MaxEvents, NEW f \in Leaves(files[today], e)
  PROVE  /\ f \in Seq(Lines)
         /\ Len(f) \in Nat
         /\ Len(f) = Len(files[today]) \/ Len(f) = Len(files[today]) + 1
         /\ \A k \in 1..Len(files[today]) : f[k] = files[today][k]
         /\ Len(f) = Len(files[today]) + 1 => f[Len(f)].event = e
  <1>1. files[today] \in Seq(Lines)
    BY DEF LogTypeOK
  <1>2. Line(e, TRUE) \in Lines /\ Line(e, FALSE) \in Lines
    BY DEF Line, Lines
  <1>3. Line(e, TRUE).event = e /\ Line(e, FALSE).event = e
    BY DEF Line
  <1>4. CASE f = files[today]
    BY <1>1, <1>4, LenProperties
  <1>5. ASSUME NEW l \in Lines, l.event = e, f = Append(files[today], l)
        PROVE  /\ f \in Seq(Lines) /\ Len(f) = Len(files[today]) + 1 /\ Len(f) \in Nat
               /\ \A k \in 1..Len(files[today]) : f[k] = files[today][k]
               /\ f[Len(f)].event = e
    BY <1>1, <1>5, AppendProperties, LenProperties
  <1>6. f = files[today] \/ f = Append(files[today], Line(e, TRUE)) \/ f = Append(files[today], Line(e, FALSE))
    BY DEF Leaves
  <1> QED
    BY <1>2, <1>3, <1>4, <1>5, <1>6

\* A write, whatever becomes of it, is of this form.
Write(f) ==
    /\ HasEvent
    /\ f \in Leaves(files[today], Head(q))
    /\ files' = [files EXCEPT ![today] = f]
    /\ q' = Tail(q)
    /\ Drained
    /\ handle' \in {today, NoHandle}
    /\ UNCHANGED <<emitted, emitDay, today, stopping>>

LEMMA Writes ==
  /\ WriteEvent => Write(Append(files[today], Line(Head(q), TRUE))) /\ UNCHANGED <<errors, diskErrors>>
  /\ WriteFails => /\ \E f \in Leaves(files[today], Head(q)) : Write(f)
                   /\ errors' = errors + 1
                   /\ diskErrors < MaxDiskErrors /\ diskErrors' = diskErrors + 1
  BY DEF Write, WriteEvent, WriteFails, Leaves, EnsureFileOpen

------------------------------------------------------------------------------
LEMMA TypeInit == LogInit => LogTypeOK
  BY EventLogAssumption, ShutdownPlaces DEF LogInit, LogTypeOK, Days, NoHandle

LEMMA TypeWrite ==
  ASSUME LogTypeOK, NEW f, Write(f), errors' \in Nat, diskErrors' \in 0..MaxDiskErrors
  PROVE  LogTypeOK'
  <1>0. q # <<>> /\ Head(q) # 0 /\ q' = Tail(q)
    BY DEF Write, HasEvent, Sentinel
  <1>1. Head(q) \in 1..MaxEvents /\ q' \in Seq(0..MaxEvents) /\ Len(q') <= QueueSize
    <2>1. Len(q) \in Nat /\ Len(q) <= QueueSize
      BY LenProperties DEF LogTypeOK
    <2> QED
      BY <1>0, <2>1, Heads, EventLogAssumption
  <1>2. files' \in [Days -> Seq(Lines)]
    BY <1>1, Left DEF Write, LogTypeOK
  <1>3. writer' \in {"waiting", "draining", "ended"}
    BY DEF Write, Drained
  <1> QED
    BY <1>1, <1>2, <1>3 DEF Write, LogTypeOK

LEMMA TypeEmit ==
  ASSUME LogTypeOK, NEW part \in Emitters, Emit(part)
  PROVE  LogTypeOK'
  <1> USE EventLogAssumption
  <1>1. emitted' \in 1..MaxEvents
    BY DEF Emit, LogTypeOK
  <1>2. emitDay' \in [1..MaxEvents -> Days \cup {0}]
    BY <1>1 DEF Emit, LogTypeOK
  <1>3. q' \in Seq(0..MaxEvents) /\ Len(q') <= QueueSize
    <2>1. q \in Seq(0..MaxEvents) /\ Len(q) \in Nat /\ Len(q) <= QueueSize
      BY LenProperties DEF LogTypeOK
    <2>2. emitted' \in 0..MaxEvents
      BY <1>1
    <2>3. \/ Len(q) < QueueSize /\ q' = Append(q, emitted')
          \/ q' = q
      BY DEF Emit
    <2> QED
      BY <2>1, <2>2, <2>3, AppendProperties
  <1>4. errors' \in Nat
    BY DEF Emit, LogTypeOK
  <1> QED
    BY <1>1, <1>2, <1>3, <1>4 DEF Emit, LogTypeOK

LEMMA TypeNext == LogTypeOK /\ [LogNext]_logVars => LogTypeOK'
  <1> SUFFICES ASSUME LogTypeOK, [LogNext]_logVars PROVE LogTypeOK'
    OBVIOUS
  <1> USE EventLogAssumption
  <1>1. ASSUME NEW part \in Emitters, Emit(part) PROVE LogTypeOK'
    BY <1>1, TypeEmit
  <1>2. CASE WriteEvent
    BY <1>2, Writes, TypeWrite DEF LogTypeOK
  <1>3. CASE WriteFails
    <2>1. errors' \in Nat /\ diskErrors' \in 0..MaxDiskErrors
      BY <1>3, Writes DEF LogTypeOK
    <2> QED
      BY <1>3, <2>1, Writes, TypeWrite
  <1>4. CASE WriterEnds
    BY <1>4, Heads DEF WriterEnds, LogTypeOK
  <1>5. CASE ShutdownBegins
    BY <1>5, ShutdownPlaces DEF ShutdownBegins, LogTypeOK
  <1>6. CASE PartStops
    <2>1. stopping' \in 0..Ended
      BY <1>6, ShutdownPlaces DEF PartStops
    <2> QED
      BY <1>6, <2>1 DEF PartStops, LogTypeOK
  <1>7. CASE PutSentinel
    BY <1>7 DEF PutSentinel, LogTypeOK, Sentinel
  <1>8. CASE LoggerStops
    BY <1>8, ShutdownPlaces DEF LoggerStops, LogTypeOK
  <1>9. CASE Midnight
    BY <1>9 DEF Midnight, LogTypeOK, Days
  <1>10. CASE UNCHANGED logVars
    BY <1>10 DEF logVars, LogTypeOK
  <1> QED
    BY <1>1, <1>2, <1>3, <1>4, <1>5, <1>6, <1>7, <1>8, <1>9, <1>10 DEF LogNext, Writer

\* The types of the logger.  The queue never outgrows its maxsize, and there are
\* files for the days of the behaviour only.
THEOREM LogTypeCorrect == LogSpec => []LogTypeOK
  BY TypeInit, TypeNext, PTL DEF LogSpec

------------------------------------------------------------------------------
(***************************************************************************)
(* The order of the queue and of the files.                                *)
(***************************************************************************)
LEMMA OrderInit == LogInit => QueueInv /\ StopInv /\ DayInv /\ InOrder /\ FiledByDay
  <1> SUFFICES ASSUME LogInit PROVE QueueInv /\ StopInv /\ DayInv /\ InOrder /\ FiledByDay
    OBVIOUS
  <1>1. q = <<>> /\ Len(q) = 0 /\ \A d \in Days : files[d] = <<>> /\ Len(files[d]) = 0
    BY DEF LogInit
  <1>2. QueueInv /\ InOrder /\ FiledByDay
    BY <1>1 DEF QueueInv, InOrder, FiledByDay
  <1>3. StopInv
    BY <1>1, ShutdownPlaces DEF LogInit, StopInv
  <1>4. DayInv
    BY <1>1, EventLogAssumption DEF LogInit, DayInv, Days
  <1> QED
    BY <1>2, <1>3, <1>4

\* The numbers on the lines and in the queue are numbers.
LEMMA Numbers ==
  ASSUME LogTypeOK
  PROVE  /\ q \in Seq(0..MaxEvents) /\ Len(q) \in Nat
         /\ \A i \in 1..Len(q) : q[i] \in Nat
         /\ \A d \in Days : /\ files[d] \in Seq(Lines) /\ Len(files[d]) \in Nat /\ d \in Nat
                            /\ \A k \in 1..Len(files[d]) : /\ files[d][k] \in Lines
                                                           /\ files[d][k].event \in 1..MaxEvents
         /\ \A e \in 1..MaxEvents : emitDay[e] \in Nat
         /\ emitted \in Nat /\ today \in Nat /\ stopping \in Nat /\ MaxEvents \in Nat
  <1> USE EventLogAssumption
  <1>1. q \in Seq(0..MaxEvents) /\ Len(q) \in Nat /\ \A i \in 1..Len(q) : q[i] \in Nat
    BY LenProperties, ElementOfSeq DEF LogTypeOK
  <1>2. \A d \in Days : files[d] \in Seq(Lines) /\ Len(files[d]) \in Nat /\ d \in Nat
    BY LenProperties DEF LogTypeOK, Days
  <1>3. \A d \in Days : \A k \in 1..Len(files[d]) : files[d][k] \in Lines
    BY <1>2, ElementOfSeq
  <1>4. \A l \in Lines : l.event \in 1..MaxEvents
    BY DEF Lines
  <1>5. \A e \in 1..MaxEvents : emitDay[e] \in Nat
    BY DEF LogTypeOK, Days
  <1>6. emitted \in Nat /\ today \in Nat /\ stopping \in Nat
    BY DEF LogTypeOK, Days
  <1> QED
    BY <1>1, <1>2, <1>3, <1>4, <1>5, <1>6

\* A new event goes behind the others; no sentinel is in its way.
LEMMA OrderEmit ==
  ASSUME OrderInv, NEW part \in Emitters, Emit(part)
  PROVE  QueueInv' /\ StopInv' /\ DayInv' /\ InOrder' /\ FiledByDay'
  <1> USE DEF OrderInv
  <1>0. /\ emitted \in Nat /\ Len(q) \in Nat
        /\ \A i \in 1..Len(q) : q[i] \in Nat
        /\ \A d \in Days : /\ Len(files[d]) \in Nat
                           /\ \A k \in 1..Len(files[d]) : files[d][k].event \in 1..MaxEvents
    BY Numbers
  <1>1. /\ emitted' = emitted + 1 /\ emitted' \in 1..MaxEvents
        /\ emitDay' = [emitDay EXCEPT ![emitted'] = today]
        /\ UNCHANGED <<files, today, stopping, writer>>
    BY Numbers, EventLogAssumption, SMTT(30) DEF Emit, LogTypeOK
  <1>2. stopping <= 4
    BY ShutdownPlaces, Numbers DEF Emit
  <1>3. \A i \in 1..Len(q) : q[i] # Sentinel
    BY <1>2, Numbers, ShutdownPlaces DEF StopInv
  <1>4. /\ Len(q') \in Nat
        /\ \A i \in 1..Len(q') : \/ i \in 1..Len(q) /\ q'[i] = q[i]
                                 \/ i = Len(q) + 1 /\ q'[i] = emitted'
    <2>1. emitted' \in 0..MaxEvents
      BY <1>1, Numbers
    <2>2. q' = q \/ q' = Append(q, emitted')
      BY DEF Emit
    <2>3. q \in Seq(0..MaxEvents)
      BY Numbers
    <2>4. CASE q' = q
      BY <1>0, <2>4
    <2>5. CASE q' = Append(q, emitted')
      BY <1>0, <2>1, <2>3, <2>5, AppendProperties
    <2> QED
      BY <2>2, <2>4, <2>5
  <1>5. QueueInv'
    <2>1. ASSUME NEW i \in 1..Len(q'), NEW j \in 1..Len(q'), i < j
          PROVE  q'[i] # Sentinel /\ q'[i] < q'[j]
      <3>1. /\ i \in 1..Len(q) /\ q'[i] = q[i]
            /\ q[i] # Sentinel /\ q[i] \in Nat /\ q[i] <= emitted
        BY <2>1, <1>0, <1>3, <1>4 DEF QueueInv
      <3>2. CASE j \in 1..Len(q) /\ q'[j] = q[j]
        BY <2>1, <3>1, <3>2, <1>3 DEF QueueInv
      <3>3. CASE q'[j] = emitted'
        BY <3>1, <3>3, <1>0, <1>1
      <3> QED
        BY <1>4, <3>1, <3>2, <3>3
    <2>2. \A i \in 1..Len(q') : q'[i] <= emitted'
      BY <1>1, <1>4, <1>0 DEF QueueInv
    <2>3. ASSUME NEW i \in 1..Len(q'), NEW d \in Days, NEW k \in 1..Len(files[d])
          PROVE  files[d][k].event < q'[i]
      <3>1. files[d][k].event \in Nat /\ files[d][k].event <= emitted
        BY <1>0 DEF DayInv
      <3>2. CASE i \in 1..Len(q) /\ q'[i] = q[i]
        BY <1>3, <3>2 DEF QueueInv
      <3>3. CASE q'[i] = emitted'
        BY <1>0, <1>1, <3>1, <3>3
      <3> QED
        BY <1>4, <3>2, <3>3
    <2> QED
      BY <1>1, <2>1, <2>2, <2>3 DEF QueueInv
  <1>6. StopInv'
    <2>1. writer # "ended" /\ stopping # Ended
      BY <1>2, Numbers, ShutdownPlaces DEF StopInv
    <2>2. \A i \in 1..Len(q') : q'[i] # Sentinel
      BY <1>0, <1>1, <1>3, <1>4 DEF Sentinel
    <2> QED
      BY <1>1, <2>1, <2>2 DEF StopInv
  <1>7. emitDay' \in [1..MaxEvents -> Days \cup {0}] /\ \A e \in 1..MaxEvents : e <= emitted => emitDay'[e] = emitDay[e]
    BY <1>1, Numbers DEF LogTypeOK
  <1>8. DayInv'
    <2>1. \A e \in 1..MaxEvents : emitDay'[e] <= today
      BY <1>1, Numbers DEF DayInv, LogTypeOK
    <2>2. \A d \in Days : \A k \in 1..Len(files[d]) : files[d][k].event <= emitted'
      BY <1>0, <1>1 DEF DayInv
    <2> QED
      BY <1>1, <2>1, <2>2 DEF DayInv
  <1>9. FiledByDay'
    <2>1. \A d \in Days : \A k \in 1..Len(files[d]) : emitDay'[files[d][k].event] <= d
      BY <1>7, Numbers DEF DayInv, FiledByDay
    <2> QED
      BY <1>1, <2>1 DEF FiledByDay
  <1>10. InOrder'
    BY <1>1 DEF InOrder
  <1> QED
    BY <1>5, <1>6, <1>8, <1>9, <1>10

\* The head of the queue is newer than all that is written, older than the rest
\* of the queue, and goes to the end of the last file that holds anything.
LEMMA OrderWrite ==
  ASSUME OrderInv, NEW f, Write(f)
  PROVE  QueueInv' /\ StopInv' /\ DayInv' /\ InOrder' /\ FiledByDay'
  <1> USE DEF OrderInv
  <1> DEFINE h == Head(q)
  <1>1. /\ h = q[1] /\ h \in 1..MaxEvents /\ h <= emitted /\ 1 \in 1..Len(q)
        /\ Len(q') \in Nat /\ Len(q') = Len(q) - 1
        /\ \A i \in 1..Len(q') : q'[i] = q[i + 1] /\ i + 1 \in 1..Len(q) /\ 1 < i + 1
    BY Heads, Numbers DEF Write, HasEvent, Sentinel, QueueInv
  <1>2. UNCHANGED <<emitted, emitDay, today, stopping>> /\ writer' # "ended" /\ writer # "ended"
    BY DEF Write, Drained, HasEvent
  <1>3. /\ today \in Days /\ Len(f) \in Nat
        /\ files' = [files EXCEPT ![today] = f] /\ files \in [Days -> Seq(Lines)]
        /\ \A k \in 1..Len(f) : \/ k \in 1..Len(files[today]) /\ f[k] = files[today][k]
                                \/ k = Len(files[today]) + 1 /\ f[k].event = h
    <2>1. f \in Leaves(files[today], h)
      BY DEF Write
    <2>2. today \in Days /\ files' = [files EXCEPT ![today] = f] /\ files \in [Days -> Seq(Lines)]
      BY DEF Write, LogTypeOK
    <2> HIDE DEF h
    <2>3. Len(f) \in Nat /\ Len(files[today]) \in Nat
      BY <1>1, <2>1, <2>2, Left, Numbers
    <2>4. /\ Len(f) = Len(files[today]) \/ Len(f) = Len(files[today]) + 1
          /\ \A k \in 1..Len(files[today]) : f[k] = files[today][k]
          /\ Len(f) = Len(files[today]) + 1 => f[Len(f)].event = h
      BY <1>1, <2>1, Left
    <2> QED
      BY <2>2, <2>3, <2>4
  <1> HIDE DEF h
  \* Every line of the new files is a line of the old ones or the new one.
  <1>4. \A d \in Days : \A k \in 1..Len(files'[d]) :
          \/ k \in 1..Len(files[d]) /\ files'[d][k] = files[d][k]
          \/ d = today /\ k = Len(files[d]) + 1 /\ files'[d][k].event = h
    BY <1>3
  <1>5. \A d \in Days : Len(files'[d]) \in Nat
    BY <1>3, Numbers
  <1>6. \A d \in Days : \A k \in 1..Len(files[d]) : files[d][k].event < h
    BY <1>1 DEF QueueInv, Sentinel
  <1>7. QueueInv'
    <2>1. \A i, j \in 1..Len(q') : i < j => q'[i] # Sentinel /\ (q'[j] = Sentinel \/ q'[i] < q'[j])
      <3>1. \A i, j \in 1..Len(q') : i < j => i + 1 < j + 1
        BY <1>1
      <3> QED
        BY <1>1, <3>1 DEF QueueInv
    <2>2. \A i \in 1..Len(q') : q'[i] <= emitted'
      BY <1>1, <1>2 DEF QueueInv
    <2>3. \A i \in 1..Len(q') : q'[i] = Sentinel \/ h < q'[i]
      BY <1>1 DEF QueueInv
    <2>4. ASSUME NEW i \in 1..Len(q'), NEW d \in Days, NEW k \in 1..Len(files'[d]), q'[i] # Sentinel
          PROVE  files'[d][k].event < q'[i]
      BY <1>1, <1>4, <2>3, <2>4 DEF QueueInv
    <2> QED
      BY <2>1, <2>2, <2>4 DEF QueueInv
  <1>8. StopInv'
    <2>1. (\E i \in 1..Len(q') : q'[i] = Sentinel) => Stops("logger")
      BY <1>1 DEF StopInv
    <2> QED
      BY <1>2, <2>1, ShutdownPlaces DEF StopInv, Stops
  <1>9. DayInv'
    <2>1. \A d \in Days : d > today => files'[d] = <<>>
      BY <1>3, Numbers DEF DayInv
    <2>2. \A d \in Days : \A k \in 1..Len(files'[d]) : files'[d][k].event <= emitted
      BY <1>1, <1>4 DEF DayInv
    <2> QED
      BY <1>2, <2>1, <2>2 DEF DayInv
  <1>10. FiledByDay'
    <2>1. \A d \in Days : \A k \in 1..Len(files'[d]) : emitDay[files'[d][k].event] <= d
      BY <1>1, <1>4 DEF FiledByDay, DayInv
    <2> QED
      BY <1>2, <2>1 DEF FiledByDay
  <1>11. InOrder'
    <2> SUFFICES ASSUME NEW c \in Days, NEW d \in Days,
                        NEW j \in 1..Len(files'[c]), NEW k \in 1..Len(files'[d]),
                        c < d \/ (c = d /\ j < k)
                 PROVE  files'[c][j].event < files'[d][k].event
      BY DEF InOrder
    <2>1. CASE k \in 1..Len(files[d]) /\ files'[d][k] = files[d][k]
      <3>1. j \in 1..Len(files[c]) /\ files'[c][j] = files[c][j]
        <4>1. c # today \/ c = d
          BY <2>1, Numbers DEF DayInv
        <4> QED
          BY <1>4, <2>1, <4>1, <1>5, Numbers, SMTT(30)
      <3> QED
        BY <2>1, <3>1 DEF InOrder
    <2>2. CASE d = today /\ k = Len(files[d]) + 1 /\ files'[d][k].event = h
      <3>1. j \in 1..Len(files[c]) /\ files'[c][j] = files[c][j]
        <4>1. Len(files[c]) \in Nat /\ c \in Nat /\ d \in Nat
          BY Numbers
        <4>2. ~(c = today /\ j = Len(files[c]) + 1)
          BY <1>5, <2>2, <4>1
        <4> QED
          BY <1>4, <4>2
      <3> QED
        BY <1>6, <2>2, <3>1
    <2> QED
      BY <1>4, <2>1, <2>2
  <1> QED
    BY <1>7, <1>8, <1>9, <1>10, <1>11

LEMMA OrderNext == OrderInv /\ [LogNext]_logVars => OrderInv'
  <1> SUFFICES ASSUME OrderInv, [LogNext]_logVars
               PROVE  QueueInv' /\ StopInv' /\ DayInv' /\ InOrder' /\ FiledByDay'
    BY TypeNext DEF OrderInv
  <1>1. ASSUME NEW part \in Emitters, Emit(part)
        PROVE  QueueInv' /\ StopInv' /\ DayInv' /\ InOrder' /\ FiledByDay'
    BY <1>1, OrderEmit
  <1>2. CASE WriteEvent \/ WriteFails
    BY <1>2, Writes, OrderWrite
  <1> USE DEF OrderInv
  \* The other steps leave the files and the days of the events alone.
  <1>3. ASSUME UNCHANGED <<emitted, emitDay, files, today>>
        PROVE  DayInv' /\ InOrder' /\ FiledByDay'
    BY <1>3 DEF DayInv, InOrder, FiledByDay
  <1>4. CASE WriterEnds
    <2>1. /\ q # <<>> /\ q' = Tail(q) /\ writer' = "ended"
          /\ UNCHANGED <<emitted, emitDay, files, today, stopping>>
      BY <1>4 DEF WriterEnds
    <2>2. 1 \in 1..Len(q) /\ q[1] = Sentinel
      BY <1>4, Heads DEF WriterEnds
    <2>3. stopping = 5 /\ Len(q) = 1
      <3>1. stopping = 5
        BY <2>2, ShutdownPlaces DEF StopInv
      <3>2. ~(Len(q) > 1)
        <4> SUFFICES ASSUME Len(q) > 1 PROVE FALSE
          OBVIOUS
        <4>1. 2 \in 1..Len(q)
          BY Numbers
        <4> QED
          BY <2>2, <4>1 DEF QueueInv
      <3>3. Len(q) \in Nat /\ Len(q) >= 1
        <4>1. Len(q) \in Nat
          BY Numbers
        <4> QED
          BY <2>2, <4>1
      <3>4. \A n \in Nat : n >= 1 /\ ~(n > 1) => n = 1
        OBVIOUS
      <3>5. Len(q) = 1
        BY <3>2, <3>3, <3>4
      <3> QED
        BY <3>1, <3>5
    <2>4. q' = <<>> /\ Len(q') = 0
      BY <2>1, <2>3, Heads, EmptySeq
    <2>5. QueueInv'
      BY <2>4 DEF QueueInv
    <2>6. StopInv'
      <3>1. \A i \in 1..Len(q') : q'[i] # Sentinel
        BY <2>4
      <3>2. stopping' >= Len(ShutdownOrder)
        BY <2>1, <2>3, ShutdownPlaces
      <3> QED
        BY <2>1, <2>4, <3>1, <3>2 DEF StopInv
    <2> QED
      BY <1>3, <2>1, <2>5, <2>6
  <1>5. CASE ShutdownBegins \/ PartStops
    <2>1. UNCHANGED <<emitted, emitDay, q, files, today, writer>> /\ stopping \in 0..4 /\ stopping' = stopping + 1
      BY <1>5, ShutdownPlaces DEF ShutdownBegins, PartStops
    <2>2. writer # "ended" /\ \A i \in 1..Len(q) : q[i] # Sentinel
      BY <2>1, ShutdownPlaces DEF StopInv
    <2>3. StopInv'
      BY <2>1, <2>2, ShutdownPlaces DEF StopInv
    <2> QED
      BY <1>3, <2>1, <2>3 DEF QueueInv
  <1>6. CASE PutSentinel
    <2>1. UNCHANGED <<emitted, emitDay, files, today, writer, stopping>> /\ writer # "ended" /\ stopping = 5
      BY <1>6, ShutdownPlaces DEF PutSentinel
    <2>2. \A i \in 1..Len(q) : q[i] # Sentinel
      BY <1>6 DEF PutSentinel
    <2>3. /\ Len(q') = Len(q) + 1
          /\ \A i \in 1..Len(q') : IF i = Len(q) + 1 THEN q'[i] = Sentinel
                                                     ELSE i \in 1..Len(q) /\ q'[i] = q[i]
      <3>1. q' = Append(q, Sentinel) /\ Sentinel \in 0..MaxEvents
        BY <1>6, EventLogAssumption DEF PutSentinel, Sentinel
      <3>2. q \in Seq(0..MaxEvents) /\ Len(q) \in Nat
        BY Numbers
      <3> QED
        BY <3>1, <3>2, AppendProperties
    <2>4. QueueInv'
      <3>1. Len(q) \in Nat /\ emitted \in Nat
        BY Numbers
      <3>2. \A i, j \in 1..Len(q') : i < j => q'[i] # Sentinel /\ (q'[j] = Sentinel \/ q'[i] < q'[j])
        BY <2>2, <2>3, <3>1 DEF QueueInv
      <3>3. \A i \in 1..Len(q') : q'[i] <= emitted
        BY <2>3, <3>1 DEF QueueInv, Sentinel
      <3>4. \A i \in 1..Len(q'), d \in Days : \A k \in 1..Len(files[d]) :
              q'[i] = Sentinel \/ files[d][k].event < q'[i]
        BY <2>3 DEF QueueInv
      <3> QED
        BY <2>1, <3>2, <3>3, <3>4 DEF QueueInv
    <2>5. StopInv'
      BY <2>1, ShutdownPlaces DEF StopInv, Stops
    <2> QED
      BY <1>3, <2>1, <2>4, <2>5
  <1>7. CASE LoggerStops
    <2>1. /\ UNCHANGED <<emitted, emitDay, q, files, today, writer>>
          /\ writer = "ended" /\ stopping = 5 /\ stopping' = 6
      BY <1>7, ShutdownPlaces DEF LoggerStops
    <2>2. q = <<>> /\ Len(q) = 0
      BY <2>1 DEF StopInv
    <2>3. StopInv'
      BY <2>1, <2>2, ShutdownPlaces DEF StopInv
    <2> QED
      BY <1>3, <2>1, <2>3 DEF QueueInv
  <1>8. CASE Midnight
    <2>1. UNCHANGED <<emitted, emitDay, q, files, writer, stopping>> /\ today' = today + 1
      BY <1>8 DEF Midnight
    <2>2. DayInv'
      <3>1. \A d \in Days : d > today + 1 => d > today
        BY Numbers
      <3>2. \A e \in 1..MaxEvents : emitDay[e] <= today + 1
        BY Numbers DEF DayInv
      <3> QED
        BY <2>1, <3>1, <3>2 DEF DayInv
    <2> QED
      BY <2>1, <2>2 DEF QueueInv, StopInv, Stops, InOrder, FiledByDay
  <1>9. CASE UNCHANGED logVars
    BY <1>9 DEF logVars, QueueInv, StopInv, Stops, DayInv, InOrder, FiledByDay
  <1> QED
    BY <1>1, <1>2, <1>4, <1>5, <1>6, <1>7, <1>8, <1>9 DEF LogNext, Writer

LEMMA OrderHolds == LogSpec => []OrderInv
  <1>1. LogInit => OrderInv
    BY TypeInit, OrderInit DEF OrderInv
  <1> QED
    BY <1>1, OrderNext, PTL DEF LogSpec

\* Read day after day the files list the events in the order in which they were
\* emitted, through rotations, failed writes and a full queue.
THEOREM FilesInOrder == LogSpec => []InOrder
  <1>1. OrderInv => InOrder
    BY DEF OrderInv
  <1> QED
    BY <1>1, OrderHolds, PTL

\* No event is filed under a day before the one of its emission.
THEOREM FilesByDay == LogSpec => []FiledByDay
  <1>1. OrderInv => FiledByDay
    BY DEF OrderInv
  <1> QED
    BY <1>1, OrderHolds, PTL

\* A shutdown that has returned left no event in the queue: the sentinel is put
\* when nothing emits any more, and the writer ends only behind the last event.
THEOREM ShutdownFlushes == LogSpec => []Flushed
  <1>1. OrderInv => Flushed
    <2> SUFFICES ASSUME OrderInv, stopping = Ended PROVE Waiting = {}
      BY DEF Flushed
    <2>1. Len(q) = 0
      BY DEF OrderInv, StopInv
    <2> QED
      BY <2>1 DEF Waiting
  <1> QED
    BY <1>1, OrderHolds, PTL

------------------------------------------------------------------------------
(***************************************************************************)
(* What is lost, and what cannot be read.                                  *)
(***************************************************************************)
LEMMA SetsOfEvents ==
  ASSUME NEW e
  PROVE  /\ e \in Waiting <=> \E i \in 1..Len(q) : q[i] = e
         /\ e \in Written <=> \E d \in Days : \E k \in 1..Len(files[d]) : files[d][k].event = e
         /\ e \in Parsed <=> \E d \in Days : \E k \in 1..Len(files[d]) :
                                Readable(d, k) /\ files[d][k].event = e
  BY DEF Waiting, Written, Parsed

LEMMA FiniteLosses ==
  ASSUME LogTypeOK
  PROVE  /\ IsFiniteSet(Lost) /\ Cardinality(Lost) \in Nat
         /\ IsFiniteSet(Unreadable) /\ Cardinality(Unreadable) \in Nat
  <1>1. IsFiniteSet(1..emitted)
    BY FS_Interval DEF LogTypeOK
  <1>2. Lost \subseteq 1..emitted /\ Unreadable \subseteq 1..emitted
    BY DEF Lost, Unreadable
  <1> QED
    BY <1>1, <1>2, FS_Subset, FS_CardinalityType

\* One more element, or none, in a finite set.
LEMMA OneMore ==
  ASSUME NEW S, IsFiniteSet(S), NEW T, NEW e
  PROVE  /\ T \subseteq S => Cardinality(T) \in Nat /\ Cardinality(T) <= Cardinality(S)
         /\ T \subseteq S \cup {e} => Cardinality(T) \in Nat /\ Cardinality(T) <= Cardinality(S) + 1
  <1>1. /\ IsFiniteSet(S \cup {e})
        /\ Cardinality(S) \in Nat /\ Cardinality(S \cup {e}) <= Cardinality(S) + 1
    <2>1. Cardinality(S) \in Nat
      BY FS_CardinalityType
    <2>2. /\ IsFiniteSet(S \cup {e})
          /\ Cardinality(S \cup {e}) = IF e \in S THEN Cardinality(S) ELSE Cardinality(S) + 1
      BY FS_AddElement
    <2> QED
      BY <2>1, <2>2
  <1>2. \A U : IsFiniteSet(U) /\ T \subseteq U
               => Cardinality(T) \in Nat /\ Cardinality(U) \in Nat /\ Cardinality(T) <= Cardinality(U)
    BY FS_Subset, FS_CardinalityType
  <1> QED
    BY <1>1, <1>2

\* A write keeps what was written and readable, and takes one event out of the
\* queue.
LEMMA LossOfWrite ==
  ASSUME LogTypeOK, NEW f, Write(f)
  PROVE  Lost' \subseteq Lost \cup {Head(q)} /\ Unreadable' \subseteq Unreadable \cup {Head(q)}
  <1>1. /\ emitted' = emitted /\ q # <<>> /\ q' = Tail(q) /\ today \in Days
        /\ files' = [files EXCEPT ![today] = f] /\ files \in [Days -> Seq(Lines)]
    BY DEF Write, HasEvent, LogTypeOK
  <1>2. Head(q) \in 1..MaxEvents
    BY Heads DEF Write, HasEvent, Sentinel
  <1>3. \A d \in Days : \A k \in 1..Len(files[d]) : k \in 1..Len(files'[d]) /\ files'[d][k] = files[d][k]
    <2>1. \A k \in 1..Len(files[today]) : k \in 1..Len(f) /\ f[k] = files[today][k]
      <3>1. f \in Leaves(files[today], Head(q))
        BY DEF Write
      <3>2. /\ Len(f) = Len(files[today]) \/ Len(f) = Len(files[today]) + 1
            /\ \A k \in 1..Len(files[today]) : f[k] = files[today][k]
        BY <1>2, <3>1, Left
      <3>3. Len(files[today]) \in Nat
        BY <1>1, Numbers
      <3> QED
        BY <3>2, <3>3
    <2> QED
      BY <1>1, <2>1
  <1>4. ASSUME NEW e \in Waiting, e # Head(q) PROVE e \in Waiting'
    <2>1. PICK i \in 1..Len(q) : q[i] = e
      BY SetsOfEvents
    <2>2. i # 1 /\ Len(q) \in Nat /\ Len(q') = Len(q) - 1
      BY <1>1, <1>4, <2>1, Heads, Numbers
    <2>3. i - 1 \in 1..Len(q')
      BY <2>2
    <2>4. q'[i - 1] = e
      BY <1>1, <2>1, <2>3, Heads
    <2> QED
      BY <2>3, <2>4 DEF Waiting
  <1>5. ASSUME NEW e \in Written PROVE e \in Written'
    <2>1. PICK d \in Days : \E k \in 1..Len(files[d]) : files[d][k].event = e
      BY SetsOfEvents
    <2>2. PICK k \in 1..Len(files[d]) : files[d][k].event = e
      BY <2>1
    <2>3. k \in 1..Len(files'[d]) /\ files'[d][k].event = e
      BY <1>3, <2>2
    <2> QED
      BY <2>3 DEF Written
  <1>6. ASSUME NEW e \in Parsed PROVE e \in Parsed'
    <2>1. PICK d \in Days : \E k \in 1..Len(files[d]) : Readable(d, k) /\ files[d][k].event = e
      BY SetsOfEvents
    <2>2. PICK k \in 1..Len(files[d]) : Readable(d, k) /\ files[d][k].event = e
      BY <2>1
    <2>3. k \in 1..Len(files'[d]) /\ files'[d][k] = files[d][k] /\ files'[d][k].event = e
      BY <1>3, <2>2
    <2>4. k = 1 \/ files'[d][k - 1] = files[d][k - 1]
      <3>1. k = 1 \/ k - 1 \in 1..Len(files[d])
        BY Numbers
      <3> QED
        BY <1>3, <3>1
    <2>5. Readable(d, k)'
      BY <2>2, <2>3, <2>4 DEF Readable
    <2> QED
      BY <2>3, <2>5 DEF Parsed
  <1> QED
    BY <1>1, <1>4, <1>5, <1>6 DEF Lost, Unreadable

\* The line of a write that succeeds is in the file, and readable unless it
\* follows a torn one.
LEMMA LossOfEvent ==
  ASSUME LogTypeOK, WriteEvent
  PROVE  Lost' \subseteq Lost /\ (~Torn => Unreadable' \subseteq Unreadable) /\ ~Torn'
  <1> DEFINE l == Line(Head(q), TRUE)
             f == Append(files[today], l)
  <1>1. Write(f)
    BY Writes
  <1>2. q # <<>> /\ today' = today /\ today \in Days /\ files'[today] = f
    BY <1>1 DEF Write, HasEvent, LogTypeOK
  <1>3. Head(q) \in 1..MaxEvents
    BY <1>1, Heads DEF Write, HasEvent, Sentinel
  <1>4. l \in Lines /\ l.event = Head(q) /\ l.whole
    BY <1>3 DEF Line, Lines
  <1>5. /\ Len(files[today]) \in Nat /\ Len(f) = Len(files[today]) + 1
        /\ f # <<>> /\ f[Len(f)] = l
        /\ \A k \in 1..Len(files[today]) : f[k] = files[today][k]
    <2>1. files[today] \in Seq(Lines) /\ Len(files[today]) \in Nat
      BY <1>2, Numbers
    <2> HIDE DEF l
    <2> QED
      BY <1>4, <2>1, AppendProperties
  <1> HIDE DEF f, l
  <1>6. Len(f) \in 1..Len(f)
    BY <1>5
  <1>7. ~Torn'
    BY <1>2, <1>4, <1>5 DEF Torn
  <1>8. PICK n \in 1..Len(f), d \in Days : n = Len(f) /\ d = today
    BY <1>2, <1>6
  <1>9. Head(q) \in Written'
    BY <1>2, <1>4, <1>5, <1>8 DEF Written
  <1>10. ASSUME ~Torn PROVE Head(q) \in Parsed'
    <2>1. Len(f) = 1 \/ f[Len(f) - 1].whole
      <3>1. CASE files[today] = <<>>
        BY <1>5, <3>1, EmptySeq
      <3>2. CASE files[today] # <<>>
        <4>1. files[today][Len(files[today])].whole
          BY <1>10, <3>2 DEF Torn
        <4>2. Len(files[today]) \in 1..Len(files[today])
          BY <1>2, <1>5, <3>2, EmptySeq, Numbers
        <4> QED
          BY <1>5, <4>1, <4>2
      <3> QED
        BY <3>1, <3>2
    <2>2. Readable(d, n)'
      BY <1>2, <1>4, <1>5, <1>8, <2>1 DEF Readable
    <2> QED
      BY <1>2, <1>4, <1>5, <1>8, <2>2 DEF Parsed
  <1> QED
    BY <1>1, <1>7, <1>9, <1>10, LossOfWrite DEF Lost, Unreadable

\* A step that counts an error may cost one event, and leave a torn line; one
\* that counts none may cost an event only by writing behind a torn line.
LEMMA LossStep ==
  ASSUME LogTypeOK, LossInv, LogTypeOK', NEW e,
         \/ /\ errors' = errors + 1
            /\ Lost' \subseteq Lost \cup {e} /\ Unreadable' \subseteq Unreadable \cup {e}
         \/ /\ errors' = errors /\ (Torn' => Torn)
            /\ Lost' \subseteq Lost /\ Unreadable' \subseteq Unreadable
         \/ /\ errors' = errors /\ Torn /\ ~Torn'
            /\ Lost' \subseteq Lost /\ Unreadable' \subseteq Unreadable \cup {e}
  PROVE  LossInv'
  <1>1. /\ IsFiniteSet(Lost) /\ Cardinality(Lost) \in Nat /\ Cardinality(Lost) <= errors
        /\ IsFiniteSet(Unreadable) /\ Cardinality(Unreadable) \in Nat
        /\ Cardinality(Unreadable) <= 2 * errors
        /\ Torn => Cardinality(Unreadable) + 1 <= 2 * errors
        /\ errors \in Nat
    BY FiniteLosses DEF LogTypeOK, LossInv, NoSilentLoss, DamageInv, DamageBounded
  <1>2. CASE /\ errors' = errors + 1
             /\ Lost' \subseteq Lost \cup {e} /\ Unreadable' \subseteq Unreadable \cup {e}
    <2>1. Cardinality(Lost') \in Nat /\ Cardinality(Lost') <= Cardinality(Lost) + 1
      BY <1>1, <1>2, OneMore
    <2>2. Cardinality(Unreadable') \in Nat /\ Cardinality(Unreadable') <= Cardinality(Unreadable) + 1
      BY <1>1, <1>2, OneMore
    <2> QED
      BY <1>1, <1>2, <2>1, <2>2 DEF LossInv, NoSilentLoss, DamageInv, DamageBounded
  <1>3. CASE /\ errors' = errors /\ (Torn' => Torn)
             /\ Lost' \subseteq Lost /\ Unreadable' \subseteq Unreadable
    <2>1. Cardinality(Lost') \in Nat /\ Cardinality(Lost') <= Cardinality(Lost)
      BY <1>1, <1>3, OneMore
    <2>2. Cardinality(Unreadable') \in Nat /\ Cardinality(Unreadable') <= Cardinality(Unreadable)
      BY <1>1, <1>3, OneMore
    <2> QED
      BY <1>1, <1>3, <2>1, <2>2 DEF LossInv, NoSilentLoss, DamageInv, DamageBounded
  <1>4. CASE /\ errors' = errors /\ Torn /\ ~Torn'
             /\ Lost' \subseteq Lost /\ Unreadable' \subseteq Unreadable \cup {e}
    <2>1. Cardinality(Lost') \in Nat /\ Cardinality(Lost') <= Cardinality(Lost)
      BY <1>1, <1>4, OneMore
    <2>2. Cardinality(Unreadable') \in Nat /\ Cardinality(Unreadable') <= Cardinality(Unreadable) + 1
      BY <1>1, <1>4, OneMore
    <2> QED
      BY <1>1, <1>4, <2>1, <2>2 DEF LossInv, NoSilentLoss, DamageInv, DamageBounded
  <1> QED
    BY <1>2, <1>3, <1>4

\* Steps that leave the files and the emitters alone, and keep the events in
\* the queue.
LEMMA NoLoss ==
  ASSUME UNCHANGED <<emitted, files, errors>>, Waiting \ {Sentinel} \subseteq Waiting'
  PROVE  Lost' \subseteq Lost /\ Unreadable' \subseteq Unreadable
  BY DEF Lost, Unreadable, Written, Parsed, Readable, Sentinel

LEMMA LossNext == OrderInv /\ LossInv /\ [LogNext]_logVars => LossInv'
  <1> SUFFICES ASSUME OrderInv, LossInv, [LogNext]_logVars PROVE LossInv'
    OBVIOUS
  <1>0. LogTypeOK /\ LogTypeOK'
    BY TypeNext DEF OrderInv
  <1>1. ASSUME NEW part \in Emitters, Emit(part) PROVE LossInv'
    <2>1. /\ emitted' = emitted + 1 /\ emitted \in Nat /\ UNCHANGED <<files, today>>
          /\ q \in Seq(0..MaxEvents) /\ Len(q) \in Nat /\ emitted' \in 0..MaxEvents
      BY <1>0, <1>1, Numbers, EventLogAssumption DEF Emit, LogTypeOK
    <2>2. Written' = Written /\ Parsed' = Parsed /\ Torn' = Torn
      BY <2>1 DEF Written, Parsed, Readable, Torn
    <2>3. PICK e \in Nat : e = emitted + 1
      BY <2>1
    <2>4. \A x \in 1..(emitted + 1) : x \in 1..emitted \/ x = e
      BY <2>1, <2>3
    <2>5. CASE q' = q /\ errors' = errors + 1
      <3>1. Waiting' = Waiting
        BY <2>5 DEF Waiting
      <3>2. Lost' \subseteq Lost \cup {e} /\ Unreadable' \subseteq Unreadable \cup {e}
        BY <2>1, <2>2, <2>4, <3>1 DEF Lost, Unreadable
      <3> QED
        BY <1>0, <2>5, <3>2, LossStep
    <2>6. CASE q' = Append(q, emitted') /\ errors' = errors
      <3>1. Len(q') = Len(q) + 1 /\ q'[Len(q) + 1] = e /\ \A i \in 1..Len(q) : q'[i] = q[i]
        BY <2>1, <2>3, <2>6, AppendProperties
      <3>2. Waiting \subseteq Waiting' /\ e \in Waiting'
        <4>1. \A i \in 1..Len(q) : i \in 1..Len(q')
          BY <2>1, <3>1
        <4>2. Len(q) + 1 \in 1..Len(q')
          BY <2>1, <3>1
        <4> QED
          BY <3>1, <4>1, <4>2 DEF Waiting
      <3>3. Lost' \subseteq Lost /\ Unreadable' \subseteq Unreadable
        BY <2>1, <2>2, <2>4, <3>2 DEF Lost, Unreadable
      <3> QED
        BY <1>0, <2>2, <2>6, <3>3, LossStep
    <2> QED
      BY <1>1, <2>5, <2>6 DEF Emit
  <1>2. CASE WriteEvent
    <2>1. PICK e : e = Head(q)
      OBVIOUS
    <2>2. errors' = errors
      BY <1>2 DEF WriteEvent
    <2>3. Unreadable' \subseteq Unreadable \cup {e}
      BY <1>0, <1>2, <2>1, Writes, LossOfWrite
    <2>4. Lost' \subseteq Lost /\ (~Torn => Unreadable' \subseteq Unreadable) /\ ~Torn'
      BY <1>0, <1>2, LossOfEvent
    <2> QED
      BY <1>0, <2>2, <2>3, <2>4, LossStep
  <1>3. CASE WriteFails
    <2>1. PICK e : e = Head(q)
      OBVIOUS
    <2>2. errors' = errors + 1
      BY <1>3 DEF WriteFails
    <2>3. Lost' \subseteq Lost \cup {e} /\ Unreadable' \subseteq Unreadable \cup {e}
      BY <1>0, <1>3, <2>1, Writes, LossOfWrite
    <2> QED
      BY <1>0, <2>2, <2>3, LossStep
  \* The other steps keep the files, and the events in the queue.
  <1>4. ASSUME UNCHANGED <<emitted, files, errors>>, Torn' => Torn, Waiting \ {Sentinel} \subseteq Waiting'
        PROVE  LossInv'
    BY <1>0, <1>4, NoLoss, LossStep
  <1>5. CASE WriterEnds
    <2>1. UNCHANGED <<emitted, files, errors, today>> /\ q # <<>> /\ q' = Tail(q) /\ Head(q) = Sentinel
      BY <1>5 DEF WriterEnds
    <2>2. ASSUME NEW e \in Waiting, e # Sentinel PROVE e \in Waiting'
      <3>1. PICK i \in 1..Len(q) : q[i] = e
        BY SetsOfEvents
      <3>2. i # 1 /\ Len(q) \in Nat /\ Len(q') = Len(q) - 1
        BY <1>0, <2>1, <2>2, <3>1, Heads, Numbers
      <3>3. i - 1 \in 1..Len(q')
        BY <3>2
      <3>4. q'[i - 1] = e
        BY <1>0, <2>1, <3>1, <3>3, Heads
      <3> QED
        BY <3>3, <3>4 DEF Waiting
    <2>3. Torn' => Torn
      BY <2>1 DEF Torn
    <2> QED
      BY <1>4, <2>1, <2>2, <2>3
  <1>6. CASE PutSentinel
    <2>1. UNCHANGED <<emitted, files, errors, today>> /\ q' = Append(q, 0) /\ 0 \in 0..MaxEvents
      BY <1>6, EventLogAssumption DEF PutSentinel, Sentinel
    <2>2. q \in Seq(0..MaxEvents) /\ Len(q) \in Nat
      BY <1>0, Numbers
    <2>3. \A i \in 1..Len(q) : i \in 1..Len(q') /\ q'[i] = q[i]
      BY <2>1, <2>2, AppendProperties
    <2>4. Waiting \subseteq Waiting'
      BY <2>3 DEF Waiting
    <2>5. Torn' => Torn
      BY <2>1 DEF Torn
    <2> QED
      BY <1>4, <2>1, <2>4, <2>5
  <1>7. CASE ShutdownBegins \/ PartStops \/ LoggerStops \/ UNCHANGED logVars
    <2>1. UNCHANGED <<emitted, files, errors, today, q>>
      BY <1>7 DEF ShutdownBegins, PartStops, LoggerStops, logVars
    <2>2. Waiting' = Waiting /\ (Torn' => Torn)
      BY <2>1 DEF Waiting, Torn
    <2> QED
      BY <1>4, <2>1, <2>2
  \* At midnight a torn line falls behind: the next event opens a new file.
  <1>8. CASE Midnight
    <2>1. UNCHANGED <<emitted, files, errors, q>> /\ today' = today + 1 /\ today' \in Days
      BY <1>0, <1>8 DEF Midnight, LogTypeOK
    <2>2. files[today'] = <<>>
      BY <1>0, <2>1, Numbers DEF OrderInv, DayInv
    <2>3. Waiting' = Waiting /\ ~Torn'
      BY <2>1, <2>2 DEF Waiting, Torn
    <2> QED
      BY <1>4, <2>1, <2>3
  <1> QED
    BY <1>1, <1>2, <1>3, <1>5, <1>6, <1>7, <1>8 DEF LogNext, Writer

LEMMA LossInit == LogInit => LossInv
  <1> SUFFICES ASSUME LogInit PROVE LossInv
    OBVIOUS
  <1>1. errors = 0 /\ emitted = 0 /\ files[today] = <<>>
    BY EventLogAssumption DEF LogInit, Days
  <1>2. Lost = {} /\ Unreadable = {} /\ ~Torn
    BY <1>1 DEF Lost, Unreadable, Torn
  <1> QED
    BY <1>1, <1>2, FS_EmptySet DEF LossInv, NoSilentLoss, DamageInv, DamageBounded

LEMMA LossHolds == LogSpec => []LossInv
  BY LossInit, LossNext, OrderHolds, PTL DEF LogSpec

\* Every event that is in no file and no longer in the queue has been counted by
\* log_write_errors_total.
THEOREM LossesAreCounted == LogSpec => []NoSilentLoss
  <1>1. LossInv => NoSilentLoss
    BY DEF LossInv
  <1> QED
    BY <1>1, LossHolds, PTL

\* A failed write costs a reader of the files at most two events.
THEOREM DamageIsBounded == LogSpec => []DamageBounded
  <1>1. LossInv => DamageBounded
    BY DEF LossInv, DamageInv
  <1> QED
    BY <1>1, LossHolds, PTL

==============================================================================
