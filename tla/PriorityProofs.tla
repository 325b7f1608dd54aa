---------------------------- MODULE PriorityProofs -----------------------------
(***************************************************************************)
(* The order of the queue, for every set of tiers, every multiplier and    *)
(* every modulus of the tie-breaker that does not exceed it.               *)
(***************************************************************************)
EXTENDS PriorityOrder, TLAPS

\* Division with remainder.
LEMMA Remainder ==
  ASSUME NEW t \in Nat, NEW m \in Nat \ {0}
  PROVE  /\ t % m \in 0..(m - 1)
         /\ t \div m \in Nat
         /\ t = m * (t \div m) + (t % m)
  BY Z3

\* A score lies in the range of its tier or of the next.
LEMMA ScoreRange ==
  ASSUME NEW p \in Nat, NEW t \in Nat, NEW n \in Nat
  PROVE  /\ Score(p, t, n) \in Nat
         /\ p * Multiplier <= Score(p, t, n)
         /\ Score(p, t, n) < p * Multiplier + 2 * Multiplier
  <1>1. p * Multiplier \in Nat
    BY PriorityAssumption
  <1>2. t % Multiplier \in 0..(Multiplier - 1)
    BY Remainder, PriorityAssumption
  <1>3. n % SeqModulus \in 0..(SeqModulus - 1)
    BY Remainder, PriorityAssumption
  <1> HIDE DEF Score
  <1> DEFINE b == p * Multiplier
             u == t % Multiplier
             v == n % SeqModulus
  <1>4. Score(p, t, n) = b + u + v
    BY DEF Score
  <1> HIDE DEF b, u, v
  <1>5. b \in Nat /\ u \in 0..(Multiplier - 1) /\ v \in 0..(SeqModulus - 1)
    BY <1>1, <1>2, <1>3 DEF b, u, v
  <1>6. Score(p, t, n) \in Nat /\ b <= Score(p, t, n) /\ Score(p, t, n) < b + 2 * Multiplier
    BY <1>4, <1>5, PriorityAssumption
  <1> QED
    BY <1>6 DEF b

\* Two tiers apart, the scores are apart.
LEMMA TiersApart ==
  ASSUME NEW p \in Nat, NEW q \in Nat, q + 2 <= p
  PROVE  q * Multiplier + 2 * Multiplier <= p * Multiplier
  <1> DEFINE d == p - (q + 2)
  <1>1. d \in Nat /\ p = q + 2 + d
    OBVIOUS
  <1> HIDE DEF d
  <1>2. (q + 2 + d) * Multiplier = q * Multiplier + 2 * Multiplier + d * Multiplier
    BY <1>1, PriorityAssumption
  <1>3. d * Multiplier \in Nat /\ q * Multiplier \in Nat
    BY <1>1, PriorityAssumption
  <1> QED
    BY <1>1, <1>2, <1>3, PriorityAssumption

OrderInv == OrderTypeOK /\ ScoresFaithful

\* The state is well typed and every score is the one of its job.
THEOREM OrderCorrect == OrderSpec => []OrderInv
  <1> USE PriorityAssumption DEF OrderInv, OrderTypeOK, ScoresFaithful
  <1>1. OrderInit => OrderInv
    BY DEF OrderInit
  <1>2. OrderInv /\ [OrderNext]_orderVars => OrderInv'
    <2> SUFFICES ASSUME OrderInv, [OrderNext]_orderVars PROVE OrderInv'
      OBVIOUS
    <2>1. CASE Tick
      BY <2>1 DEF Tick
    <2>2. ASSUME NEW j \in Jobs, TakeNumber(j) PROVE OrderInv'
      BY <2>2 DEF TakeNumber, Goto
    <2>3. ASSUME NEW j \in Jobs, Stamp(j) PROVE OrderInv'
      <3>1. tier[j] \in Nat /\ clock \in Nat /\ number[j] \in Nat
        <4>1. tier[j] \in Tiers /\ number[j] \in Nat
          OBVIOUS
        <4>2. clock \in Nat
          OBVIOUS
        <4>3. \A p \in Tiers : p \in Nat
          OBVIOUS
        <4> QED
          BY <4>1, <4>2, <4>3
      <3>2. Score(tier[j], clock, number[j]) \in Nat
        BY <3>1, ScoreRange, Zenon
      <3> QED
        BY <2>3, <3>2 DEF Stamp, Goto
    <2>4. ASSUME NEW j \in Jobs, Add(j) PROVE OrderInv'
      BY <2>4 DEF Add, Goto
    <2>5. ASSUME NEW j \in Jobs, Pop(j) PROVE OrderInv'
      BY <2>5 DEF Pop, Goto
    <2>6. CASE UNCHANGED orderVars
      BY <2>6 DEF orderVars
    <2> QED
      BY <2>1, <2>2, <2>3, <2>4, <2>5, <2>6 DEF OrderNext
  <1> QED
    BY <1>1, <1>2, PTL DEF OrderSpec

\* A pop takes a job of the lowest score.
LEMMA PopsLowest ==
  ASSUME OrderInv, [OrderNext]_orderVars, NEW j \in Jobs, Popped(j), NEW k \in Waiting
  PROVE  score[j] <= score[k] /\ j \in Waiting
  <1>1. ASSUME NEW l \in Jobs, TakeNumber(l) \/ Stamp(l) \/ Add(l) PROVE ~Popped(j)
    BY <1>1 DEF TakeNumber, Stamp, Add, Goto, Popped, OrderInv, OrderTypeOK
  <1>2. ~Tick /\ ~UNCHANGED orderVars
    BY DEF Tick, Popped, orderVars
  <1>3. PICK l \in Jobs : Pop(l)
    BY <1>1, <1>2 DEF OrderNext
  <1>4. l = j
    BY <1>3 DEF Pop, Goto, Popped, OrderInv, OrderTypeOK
  <1> QED
    BY <1>3, <1>4 DEF Pop

\* No job is popped while one waits whose tier is more urgent by two or more,
\* as every documented tier is.
THEOREM TiersServedFirst == OrderSpec => TierFirst
  <1>1. OrderInv /\ [OrderNext]_orderVars =>
           [\A j \in Jobs : Popped(j) => \A k \in Waiting : tier[j] < tier[k] + 2]_orderVars
    <2> SUFFICES ASSUME OrderInv, [OrderNext]_orderVars, NEW j \in Jobs, Popped(j),
                        NEW k \in Waiting
                 PROVE  tier[j] < tier[k] + 2
      OBVIOUS
    <2>1. score[j] <= score[k] /\ j \in Waiting /\ k \in Jobs
      BY PopsLowest DEF Waiting
    <2>2. /\ tier[j] \in Nat /\ tier[k] \in Nat
          /\ stamp[j] \in Nat /\ stamp[k] \in Nat
          /\ number[j] \in Nat /\ number[k] \in Nat
      BY <2>1, PriorityAssumption DEF OrderInv, OrderTypeOK
    <2>3. /\ score[j] = Score(tier[j], stamp[j], number[j])
          /\ score[k] = Score(tier[k], stamp[k], number[k])
      BY <2>1 DEF OrderInv, ScoresFaithful, Waiting
    <2>4. SUFFICES ASSUME tier[k] + 2 <= tier[j] PROVE FALSE
      BY <2>2
    <2>5. tier[k] * Multiplier + 2 * Multiplier <= tier[j] * Multiplier
      BY <2>2, <2>4, TiersApart
    <2>6. /\ score[j] \in Nat /\ score[k] \in Nat
          /\ tier[j] * Multiplier <= score[j]
          /\ score[k] < tier[k] * Multiplier + 2 * Multiplier
      <3>1. /\ Score(tier[j], stamp[j], number[j]) \in Nat
            /\ tier[j] * Multiplier <= Score(tier[j], stamp[j], number[j])
        BY <2>2, ScoreRange, Zenon
      <3>2. /\ Score(tier[k], stamp[k], number[k]) \in Nat
            /\ Score(tier[k], stamp[k], number[k]) < tier[k] * Multiplier + 2 * Multiplier
        BY <2>2, ScoreRange, Zenon
      <3> QED
        BY <2>3, <3>1, <3>2, Zenon
    <2>7. tier[j] * Multiplier \in Nat /\ tier[k] * Multiplier \in Nat /\ 2 * Multiplier \in Nat
      BY <2>2, PriorityAssumption
    <2> QED
      BY <2>1, <2>5, <2>6, <2>7
  <1> QED
    BY <1>1, OrderCorrect, PTL DEF OrderSpec, TierFirst

\* Within a tier and one period of the clock, a job is never popped before one
\* that was stamped SeqModulus or more earlier.
THEOREM FifoHolds == OrderSpec => FifoWithinEpoch
  <1>1. OrderInv /\ [OrderNext]_orderVars =>
           [\A j \in Jobs : Popped(j) =>
              \A k \in Waiting :
                tier[k] = tier[j] /\ Epoch(stamp[k]) = Epoch(stamp[j])
                  => stamp[j] < stamp[k] + SeqModulus]_orderVars
    <2> SUFFICES ASSUME OrderInv, [OrderNext]_orderVars, NEW j \in Jobs, Popped(j),
                        NEW k \in Waiting,
                        tier[k] = tier[j], Epoch(stamp[k]) = Epoch(stamp[j])
                 PROVE  stamp[j] < stamp[k] + SeqModulus
      OBVIOUS
    <2>1. score[j] <= score[k] /\ j \in Waiting /\ k \in Jobs
      BY PopsLowest DEF Waiting
    <2>2. /\ tier[j] \in Nat
          /\ stamp[j] \in Nat /\ stamp[k] \in Nat
          /\ number[j] \in Nat /\ number[k] \in Nat
      BY <2>1, PriorityAssumption DEF OrderInv, OrderTypeOK
    <2> DEFINE b  == tier[j] * Multiplier
               e  == Multiplier * (stamp[j] \div Multiplier)
               mj == stamp[j] % Multiplier
               mk == stamp[k] % Multiplier
               nj == number[j] % SeqModulus
               nk == number[k] % SeqModulus
    <2>3. score[j] = b + mj + nj /\ score[k] = b + mk + nk
      BY <2>1 DEF OrderInv, ScoresFaithful, Waiting, Score
    <2>4. Multiplier \in Nat \ {0} /\ SeqModulus \in Nat \ {0}
      BY PriorityAssumption
    <2>5. mj \in 0..(Multiplier - 1) /\ mk \in 0..(Multiplier - 1)
      BY <2>2, <2>4, Remainder, Zenon
    <2>6. nj \in 0..(SeqModulus - 1) /\ nk \in 0..(SeqModulus - 1)
      BY <2>2, <2>4, Remainder, Zenon
    <2>7. stamp[j] = e + mj
      BY <2>2, <2>4, Remainder, Zenon
    <2>8. stamp[k] = e + mk
      <3>1. stamp[k] = Multiplier * (stamp[k] \div Multiplier) + mk
        BY <2>2, <2>4, Remainder, Zenon
      <3> QED
        BY <3>1, Zenon DEF Epoch
    <2>9. b \in Nat /\ e \in Nat
      <3>1. stamp[j] \div Multiplier \in Nat
        BY <2>2, <2>4, Remainder, Zenon
      <3> QED
        BY <2>2, <2>4, <3>1
    <2> HIDE DEF b, e, mj, mk, nj, nk
    <2> QED
      BY <2>1, <2>3, <2>4, <2>5, <2>6, <2>7, <2>8, <2>9, PriorityAssumption
  <1> QED
    BY <1>1, OrderCorrect, PTL DEF OrderSpec, FifoWithinEpoch

==============================================================================
