----------------------------- MODULE PriorityOrder -----------------------------
(***************************************************************************)
(* In which order the queue of one model gives its jobs back: the          *)
(* composite score that AdmissionController.admit computes and BZPOPMIN    *)
(* orders by.  A handler takes a sequence number from Redis, reads its     *)
(* clock, and adds the job in a later call, so other handlers, of this or  *)
(* another process, come in between.  The processes share one clock.       *)
(*                                                                         *)
(* The scores stay below 2^53, so that the doubles of Redis are exact.     *)
(***************************************************************************)
EXTENDS Integers

CONSTANTS
    Jobs,         \* requests
    Tiers,        \* priority tiers in use; 1, 3, 5, 7 and 9 are the documented ones
    Multiplier,   \* PRIORITY_MULTIPLIER: 10^12 ns, 1000 s
    SeqModulus,   \* the sequence number counts modulo this: 1000
    MaxTime       \* bound: the clock

ASSUME PriorityAssumption ==
    /\ Tiers \subseteq Nat
    /\ Multiplier \in Nat \ {0}
    /\ SeqModulus \in 1..Multiplier
    /\ MaxTime \in Nat

VARIABLES
    clock,   \* time.time_ns()
    seq,     \* seq:{model}
    pc,      \* per job: "new", "numbered", "stamped", "queued" or "popped"
    tier,    \* its effective priority
    number,  \* the sequence number it took
    stamp,   \* ghost: the time its handler read
    score    \* its score in queue:{model}

orderVars == <<clock, seq, pc, tier, number, stamp, score>>

OrderTypeOK ==
    /\ clock \in 0..MaxTime
    /\ seq \in Nat
    /\ pc \in [Jobs -> {"new", "numbered", "stamped", "queued", "popped"}]
    /\ tier \in [Jobs -> Tiers]
    /\ number \in [Jobs -> Nat]
    /\ stamp \in [Jobs -> Nat]
    /\ score \in [Jobs -> Nat]

OrderInit ==
    /\ clock = 0
    /\ seq = 0
    /\ pc = [j \in Jobs |-> "new"]
    /\ tier \in [Jobs -> Tiers]
    /\ number = [j \in Jobs |-> 0]
    /\ stamp = [j \in Jobs |-> 0]
    /\ score = [j \in Jobs |-> 0]

\* BUG: the score of the design document, with the time not reduced.
ScoreRawTime(p, t, n) == p * Multiplier + t + (n % SeqModulus)

\* BUG: the sequence number weighs as much as the time.
ScoreSeqHeavy(p, t, n) == p * Multiplier + (t % Multiplier) + (n % SeqModulus) * SeqModulus

\* The composite score: lower is more urgent.
Score(p, t, n) == p * Multiplier + (t % Multiplier) + (n % SeqModulus)

Goto(j, label) == pc' = [pc EXCEPT ![j] = label]

\* INCR seq:{model}.
TakeNumber(j) ==
    /\ pc[j] = "new"
    /\ seq' = seq + 1
    /\ number' = [number EXCEPT ![j] = seq']
    /\ Goto(j, "numbered")
    /\ UNCHANGED <<clock, tier, stamp, score>>

\* The handler goes on: it reads the clock and computes the score.
Stamp(j) ==
    /\ pc[j] = "numbered"
    /\ stamp' = [stamp EXCEPT ![j] = clock]
    /\ score' = [score EXCEPT ![j] = Score(tier[j], clock, number[j])]
    /\ Goto(j, "stamped")
    /\ UNCHANGED <<clock, seq, tier, number>>

\* ZADD in the enqueue script.
Add(j) ==
    /\ pc[j] = "stamped"
    /\ Goto(j, "queued")
    /\ UNCHANGED <<clock, seq, tier, number, stamp, score>>

Waiting == {j \in Jobs : pc[j] = "queued"}

\* BZPOPMIN: a job of the lowest score (of equal scores, the lowest id; ids
\* are random within a millisecond, so either).
Pop(j) ==
    /\ j \in Waiting
    /\ \A k \in Waiting : score[j] <= score[k]
    /\ Goto(j, "popped")
    /\ UNCHANGED <<clock, seq, tier, number, stamp, score>>

Tick ==
    /\ clock < MaxTime
    /\ clock' = clock + 1
    /\ UNCHANGED <<seq, pc, tier, number, stamp, score>>

OrderNext ==
    \/ Tick
    \/ \E j \in Jobs : TakeNumber(j) \/ Stamp(j) \/ Add(j) \/ Pop(j)

OrderSpec == OrderInit /\ [][OrderNext]_orderVars

------------------------------------------------------------------------------
Popped(j) == pc[j] = "queued" /\ pc'[j] = "popped"

\* No job is taken while one of a more urgent documented tier waits, whatever
\* the clock and the sequence number are: the time and the tie-breaker never
\* reach into the tier after the next.
TierFirst ==
    [][\A j \in Jobs : Popped(j) => \A k \in Waiting : tier[j] < tier[k] + 2]_orderVars

Epoch(t) == t \div Multiplier

\* Within a tier, and within one period of the clock, jobs are taken in the
\* order of their time stamps when these lie at least SeqModulus apart.  (It
\* holds for no closer stamps, and not across two periods: see the README.)
FifoWithinEpoch ==
    [][\A j \in Jobs : Popped(j) =>
        \A k \in Waiting :
            tier[k] = tier[j] /\ Epoch(stamp[k]) = Epoch(stamp[j])
                => stamp[j] < stamp[k] + SeqModulus]_orderVars

\* A score is computed from the tier, the stamp and the number of its job.
ScoresFaithful ==
    \A j \in Jobs : pc[j] \in {"stamped", "queued"} =>
        score[j] = Score(tier[j], stamp[j], number[j])

==============================================================================
