--------------------------- MODULE IntegrityChecker ----------------------------
(***************************************************************************)
(* IntegrityChecker: each process periodically compares in_use with the    *)
(* number of inflight jobs and overwrites in_use when it is too high.  The *)
(* two reads run concurrently on two connections (asyncio.gather), in      *)
(* either order, and the SET is a third call.                              *)
(***************************************************************************)
EXTENDS SharedState

CONSTANTS
    Tolerance,   \* drift the checker ignores; 2 in the code
    CheckersRun  \* FALSE: no round of the checker falls into the behaviour

ASSUME IntegrityAssumption ==
    /\ Tolerance \in Nat
    /\ CheckersRun \in BOOLEAN

VARIABLES
    seen,      \* which of the two reads each checker has done
    actual,    \* ZCARD inflight as read
    recorded,  \* in_use as read
    resetBy    \* ghost: processes whose checker has overwritten in_use

checkerVars == <<seen, actual, recorded, resetBy>>

IntegrityTypeOK ==
    /\ seen \in [Instances -> SUBSET {"actual", "recorded"}]
    /\ actual \in [Instances -> Nat]
    /\ recorded \in [Instances -> Int]
    /\ resetBy \subseteq Instances

IntegrityInit ==
    /\ seen = [i \in Instances |-> {}]
    /\ actual = [i \in Instances |-> 0]
    /\ recorded = [i \in Instances |-> 0]
    /\ resetBy = {}

ReadActual(i) ==
    /\ CheckersRun
    /\ proc[i] = "up"
    /\ "actual" \notin seen[i]
    /\ seen' = [seen EXCEPT ![i] = @ \cup {"actual"}]
    /\ actual' = [actual EXCEPT ![i] = Cardinality(inflight)]
    /\ UNCHANGED <<sharedVars, recorded, resetBy>>

ReadRecorded(i) ==
    /\ CheckersRun
    /\ proc[i] = "up"
    /\ "recorded" \notin seen[i]
    /\ seen' = [seen EXCEPT ![i] = @ \cup {"recorded"}]
    /\ recorded' = [recorded EXCEPT ![i] = inUse]
    /\ UNCHANGED <<sharedVars, actual, resetBy>>

CheckerIdles(i) ==
    /\ seen' = [seen EXCEPT ![i] = {}]
    /\ actual' = [actual EXCEPT ![i] = 0]
    /\ recorded' = [recorded EXCEPT ![i] = 0]

Drifted(i) == recorded[i] > actual[i] + Tolerance

\* BUG: the reset is logged and the SET is forgotten.
CorrectOnlyLogs(i, r) ==
    /\ seen[i] = {"actual", "recorded"}
    /\ Call(r)
    /\ Drifted(i)
    /\ inUse' = inUse
    /\ CheckerIdles(i)
    /\ UNCHANGED <<jobVars, inflight, overdue, lease, dlq, idem, proc, resetBy>>

\* SET in_use to the inflight count as read.
Correct(i, r) ==
    /\ seen[i] = {"actual", "recorded"}
    /\ Call(r)
    /\ Drifted(i)
    /\ inUse' = IF Executed(r) THEN actual[i] ELSE inUse
    /\ resetBy' = IF Executed(r) THEN resetBy \cup {i} ELSE resetBy
    /\ CheckerIdles(i)
    /\ UNCHANGED <<jobVars, inflight, overdue, lease, dlq, idem, proc>>

\* No drift, or a read that failed: the round ends.
Accept(i) ==
    /\ seen[i] = {"actual", "recorded"}
    /\ ~Drifted(i)
    /\ CheckerIdles(i)
    /\ UNCHANGED <<sharedVars, resetBy>>

CheckerStep(i) ==
    \/ ReadActual(i)
    \/ ReadRecorded(i)
    \/ \E r \in Reply : Correct(i, r)
    \/ Accept(i)

IntegrityNext == \E i \in Instances : CheckerStep(i)

==============================================================================
