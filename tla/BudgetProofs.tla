----------------------------- MODULE BudgetProofs ------------------------------
(***************************************************************************)
(* The safety properties of Budget, for any calls, cap, usage, number of   *)
(* failing Redis calls and days.                                           *)
(***************************************************************************)
EXTENDS Budget, FiniteSetTheorems, TLAPS

Labels ==
    {"new", "expire", "rollback", "primary", "fallback", "commit", "done", "refused", "dead"}

\* What INCRBY does to the counters, whether or not Redis executes it.
LEMMA IncrbyType ==
  ASSUME BudgetTypeOK, NEW d \in Days, NEW n \in Int, NEW r \in Reply, Incrby(d, n, r)
  PROVE  counter' \in [Days -> Int] /\ redisErrors' \in 0..MaxRedisErrors
  BY BudgetAssumption DEF BudgetTypeOK, Incrby, Reply

\* Settling a call commits a natural number, and only where it has a key.
LEMMA SettleType ==
  ASSUME BudgetTypeOK, NEW c \in Calls, NEW n \in Nat, Settle(c, n)
  PROVE  /\ charge' \in [Calls -> Nat]
         /\ pc' \in [Calls -> Labels]
         /\ \A b \in Calls : pc'[b] \in {"expire", "rollback", "commit"} => key[b] \in Days
  <1>1. charge' \in [Calls -> Nat]
    BY DEF BudgetTypeOK, Settle
  <1>2. PICK l \in {"done", "commit"} : pc' = [pc EXCEPT ![c] = l] /\ (l = "commit" => key[c] # NoKey)
    BY DEF Settle, Goto
  <1>3. key[c] \in Days \cup {NoKey}
    BY DEF BudgetTypeOK
  <1> QED
    BY <1>1, <1>2, <1>3 DEF BudgetTypeOK, Labels

\* An LLM call, whatever comes of it, keeps the types of the call's variables.
LEMMA LlmCallType ==
  ASSUME BudgetTypeOK, NEW c \in Calls, NEW u \in Usage, Primary(c, u) \/ Fallback(c, u)
  PROVE  BudgetTypeOK'
  <1> USE BudgetAssumption
  <1>0. UNCHANGED <<key, total, counter, today, redisErrors>>
    BY DEF Primary, Fallback
  <1>1. CASE Answered(c, u)
    <2>1. PICK n \in Nat : Settle(c, n)
      BY <1>1 DEF Answered
    <2>2. used' \in [Calls -> Nat]
      BY <1>1 DEF Answered, Consume, BudgetTypeOK
    <2> QED
      BY <1>0, <2>1, <2>2, SettleType DEF BudgetTypeOK, Labels
  <1>2. CASE Failed(c, u)
    <2>1. Settle(c, Expected)
      BY <1>2 DEF Failed
    <2>2. used' \in [Calls -> Nat]
      BY <1>2 DEF Failed, Consume, BudgetTypeOK
    <2> QED
      BY <1>0, <2>1, <2>2, SettleType DEF BudgetTypeOK, Labels
  <1>3. CASE Escapes(c, u)
    BY <1>0, <1>3 DEF Escapes, Consume, Goto, BudgetTypeOK
  <1>4. CASE Goto(c, "fallback") /\ UNCHANGED <<charge, used>>
    BY <1>0, <1>4 DEF Goto, BudgetTypeOK
  <1> QED
    BY <1>1, <1>2, <1>3, <1>4 DEF Primary, Fallback

\* A Redis call of check_and_reserve or commit.
LEMMA RedisCallType ==
  ASSUME BudgetTypeOK, NEW c \in Calls, NEW r \in Reply,
         Reserve(c, r) \/ ExpireAndCompare(c, r) \/ Rollback(c, r) \/ Commit(c, r)
  PROVE  BudgetTypeOK'
  <1> USE BudgetAssumption
  <1>1. CASE Reserve(c, r)
    <2>1. counter' \in [Days -> Int] /\ redisErrors' \in 0..MaxRedisErrors
      BY <1>1, IncrbyType DEF Reserve, BudgetTypeOK
    <2> QED
      BY <1>1, <2>1 DEF Reserve, Goto, BudgetTypeOK
  <1>2. CASE ExpireAndCompare(c, r)
    <2>1. counter' \in [Days -> Int] /\ redisErrors' \in 0..MaxRedisErrors
      BY <1>2, IncrbyType DEF ExpireAndCompare, BudgetTypeOK
    <2> QED
      BY <1>2, <2>1 DEF ExpireAndCompare, Goto, BudgetTypeOK
  <1>3. CASE Rollback(c, r)
    <2>1. counter' \in [Days -> Int] /\ redisErrors' \in 0..MaxRedisErrors
      BY <1>3, IncrbyType DEF Rollback, BudgetTypeOK
    <2> QED
      BY <1>3, <2>1 DEF Rollback, Goto, BudgetTypeOK
  <1>4. CASE Commit(c, r)
    <2>1. charge[c] - Expected \in Int
      BY DEF BudgetTypeOK
    <2>2. counter' \in [Days -> Int] /\ redisErrors' \in 0..MaxRedisErrors
      BY <1>4, <2>1, IncrbyType DEF Commit, BudgetTypeOK
    <2> QED
      BY <1>4, <2>2 DEF Commit, Goto, BudgetTypeOK
  <1> QED
    BY <1>1, <1>2, <1>3, <1>4

LEMMA BudgetTypeNext == BudgetTypeOK /\ [BudgetNext]_budgetVars => BudgetTypeOK'
  <1> SUFFICES ASSUME BudgetTypeOK, [BudgetNext]_budgetVars PROVE BudgetTypeOK'
    OBVIOUS
  <1>1. CASE Midnight
    BY <1>1, BudgetAssumption DEF Midnight, BudgetTypeOK, Days
  <1>2. ASSUME NEW c \in Calls, Dies(c) PROVE BudgetTypeOK'
    BY <1>2 DEF Dies, Goto, BudgetTypeOK
  <1>3. ASSUME NEW c \in Calls, NEW r \in Reply,
               Reserve(c, r) \/ ExpireAndCompare(c, r) \/ Rollback(c, r) \/ Commit(c, r)
        PROVE  BudgetTypeOK'
    BY <1>3, RedisCallType
  <1>4. ASSUME NEW c \in Calls, NEW u \in Usage, Primary(c, u) \/ Fallback(c, u)
        PROVE  BudgetTypeOK'
    BY <1>4, LlmCallType
  <1>5. CASE UNCHANGED budgetVars
    BY <1>5 DEF budgetVars, BudgetTypeOK
  <1> QED
    BY <1>1, <1>2, <1>3, <1>4, <1>5 DEF BudgetNext

\* The types of the budget.  A call that is about to touch its counter has the
\* key of one, so that no INCRBY of TokenBudget goes astray.
THEOREM BudgetTypeCorrect == BudgetSpec => []BudgetTypeOK
  <1>1. BudgetInit => BudgetTypeOK
    BY BudgetAssumption DEF BudgetInit, BudgetTypeOK, Days, NoKey
  <1> QED
    BY <1>1, BudgetTypeNext, PTL DEF BudgetSpec

------------------------------------------------------------------------------
(***************************************************************************)
(* Sums over calls.                                                        *)
(***************************************************************************)
\* The tokens of finitely many calls are finitely many.
LEMMA CountType ==
  ASSUME NEW f \in [Calls -> Nat], NEW S \in SUBSET Calls
  PROVE  IsFiniteSet(Tokens(f, S)) /\ TokenCount(f, S) \in Nat
  <1> DEFINE T == {{c} \X (1..f[c]) : c \in S}
             g == [c \in S |-> {c} \X (1..f[c])]
  <1>1. IsFiniteSet(S)
    BY BudgetAssumption, FS_Subset
  <1>2. g \in Surjection(S, T)
    BY DEF Surjection
  <1>3. IsFiniteSet(T)
    <2> HIDE DEF T, g
    <2> QED
      BY <1>1, <1>2, FS_Surjection
  <1>4. ASSUME NEW t \in T PROVE IsFiniteSet(t)
    <2>1. PICK c \in S : t = {c} \X (1..f[c])
      OBVIOUS
    <2>2. f[c] \in Int /\ 1 \in Int
      OBVIOUS
    <2>3. IsFiniteSet({c}) /\ IsFiniteSet(1..f[c])
      BY <2>2, FS_Singleton, FS_Interval
    <2> QED
      BY <2>1, <2>3, FS_Product
  <1>5. IsFiniteSet(UNION T)
    <2> HIDE DEF T
    <2> QED
      BY <1>3, <1>4, FS_UNION
  <1> QED
    BY <1>5, FS_CardinalityType DEF Tokens, TokenCount

\* One more call.
LEMMA CountAdd ==
  ASSUME NEW f \in [Calls -> Nat], NEW S \in SUBSET Calls, NEW c \in Calls \ S
  PROVE  TokenCount(f, S \cup {c}) = TokenCount(f, S) + f[c]
  <1> DEFINE A == Tokens(f, S)
             B == {c} \X (1..f[c])
  <1>1. IsFiniteSet(A) /\ Cardinality(A) \in Nat
    BY CountType DEF TokenCount
  <1>2. IsFiniteSet(B) /\ Cardinality(B) = f[c]
    <2>1. IsFiniteSet({c}) /\ Cardinality({c}) = 1
      BY FS_Singleton
    <2>2. f[c] \in Nat
      OBVIOUS
    <2>3. IsFiniteSet(1..f[c]) /\ Cardinality(1..f[c]) = f[c]
      BY <2>2, FS_Interval
    <2>4. IsFiniteSet(B) /\ Cardinality(B) = 1 * Cardinality(1..f[c])
      BY <2>1, <2>3, FS_Product
    <2> QED
      BY <2>2, <2>3, <2>4
  <1>3. Tokens(f, S \cup {c}) = A \cup B
    BY DEF Tokens
  <1>4. A \cap B = {}
    BY DEF Tokens
  <1> HIDE DEF A, B
  <1>5. Cardinality(A \cup B) = Cardinality(A) + Cardinality(B) - Cardinality(A \cap B)
    BY <1>1, <1>2, FS_Union
  <1>6. Cardinality(A \cup B) = Cardinality(A) + f[c]
    <2>1. Cardinality(A \cap B) = 0 /\ f[c] \in Nat
      BY <1>4, FS_EmptySet
    <2> QED
      BY <1>1, <1>2, <1>5, <2>1
  <1> QED
    BY <1>3, <1>6 DEF TokenCount, A

\* Functions that agree on the calls have the same sum.
LEMMA CountSame ==
  ASSUME NEW f \in [Calls -> Nat], NEW g \in [Calls -> Nat], NEW S \in SUBSET Calls,
         \A c \in S : f[c] = g[c]
  PROVE  TokenCount(f, S) = TokenCount(g, S)
  BY DEF Tokens, TokenCount

\* A sum grows with its terms and with its calls.
LEMMA CountMonotone ==
  ASSUME NEW f \in [Calls -> Nat], NEW g \in [Calls -> Nat],
         NEW S \in SUBSET Calls, NEW T \in SUBSET Calls,
         S \subseteq T, \A c \in S : f[c] <= g[c]
  PROVE  TokenCount(f, S) <= TokenCount(g, T)
  <1>1. \A c \in S : 1..f[c] \subseteq 1..g[c]
    OBVIOUS
  <1>2. Tokens(f, S) \subseteq Tokens(g, T)
    BY <1>1 DEF Tokens
  <1> QED
    BY <1>2, CountType, FS_Subset DEF TokenCount

\* What call c has in the sum of f over S.
Part(f, S, c) == IF c \in S THEN f[c] ELSE 0

\* When nothing changes but call c, the sum changes by what c has in it.
LEMMA CountStep ==
  ASSUME NEW f \in [Calls -> Nat], NEW g \in [Calls -> Nat],
         NEW S \in SUBSET Calls, NEW T \in SUBSET Calls, NEW c \in Calls,
         \A b \in Calls \ {c} : f[b] = g[b] /\ (b \in S <=> b \in T)
  PROVE  /\ TokenCount(f, S) \in Nat /\ TokenCount(g, T) \in Nat
         /\ Part(f, S, c) \in Nat /\ Part(g, T, c) \in Nat
         /\ TokenCount(g, T) - Part(g, T, c) = TokenCount(f, S) - Part(f, S, c)
  <1> DEFINE R == S \ {c}
  <1>1. \A h \in [Calls -> Nat], U \in SUBSET Calls :
          U \ {c} = R => TokenCount(h, U) = TokenCount(h, R) + Part(h, U, c)
    <2> SUFFICES ASSUME NEW h \in [Calls -> Nat], NEW U \in SUBSET Calls, U \ {c} = R
                 PROVE  TokenCount(h, U) = TokenCount(h, R) + Part(h, U, c)
      OBVIOUS
    <2>1. TokenCount(h, R) \in Nat /\ h[c] \in Nat
      BY CountType
    <2>2. CASE c \in U
      <3>1. U = R \cup {c} /\ c \in Calls \ R
        BY <2>2
      <3>2. TokenCount(h, R \cup {c}) = TokenCount(h, R) + h[c]
        BY CountAdd
      <3> QED
        BY <2>2, <3>1, <3>2 DEF Part
    <2>3. CASE c \notin U
      <3>1. U = R /\ Part(h, U, c) = 0
        BY <2>3 DEF Part
      <3> QED
        BY <2>1, <3>1
    <2> QED
      BY <2>2, <2>3
  <1>2. T \ {c} = R /\ S \ {c} = R
    OBVIOUS
  <1>3. TokenCount(f, R) = TokenCount(g, R)
    BY CountSame
  <1>4. TokenCount(f, R) \in Nat /\ Part(f, S, c) \in Nat /\ Part(g, T, c) \in Nat
    BY CountType DEF Part
  <1>5. TokenCount(f, S) \in Nat /\ TokenCount(g, T) \in Nat
    BY CountType
  <1> HIDE DEF R
  <1>6. /\ TokenCount(f, S) = TokenCount(f, R) + Part(f, S, c)
        /\ TokenCount(g, T) = TokenCount(g, R) + Part(g, T, c)
    BY <1>1, <1>2
  <1> QED
    BY <1>3, <1>4, <1>5, <1>6

------------------------------------------------------------------------------
(***************************************************************************)
(* One step of one call.                                                   *)
(***************************************************************************)
\* The other calls stay where they are.
Others(c) ==
    \A b \in Calls \ {c} : /\ pc'[b] = pc[b] /\ key'[b] = key[b] /\ total'[b] = total[b]
                           /\ charge'[b] = charge[b] /\ used'[b] = used[b]

CallStep(c) ==
    \/ Dies(c)
    \/ \E r \in Reply : Reserve(c, r) \/ ExpireAndCompare(c, r) \/ Rollback(c, r) \/ Commit(c, r)
    \/ \E u \in Usage : Primary(c, u) \/ Fallback(c, u)

LEMMA OneCall ==
  ASSUME BudgetTypeOK, NEW c \in Calls, CallStep(c)
  PROVE  Others(c) /\ today' = today
  <1>1. ASSUME Dies(c) PROVE Others(c) /\ today' = today
    BY <1>1 DEF Others, Dies, Goto, BudgetTypeOK
  <1>2. ASSUME NEW r \in Reply, Reserve(c, r) PROVE Others(c) /\ today' = today
    BY <1>2 DEF Others, Reserve, Goto, BudgetTypeOK
  <1>3. ASSUME NEW r \in Reply, ExpireAndCompare(c, r) PROVE Others(c) /\ today' = today
    BY <1>3 DEF Others, ExpireAndCompare, Goto, BudgetTypeOK
  <1>4. ASSUME NEW r \in Reply, Rollback(c, r) \/ Commit(c, r) PROVE Others(c) /\ today' = today
    BY <1>4 DEF Others, Rollback, Commit, Goto, BudgetTypeOK
  <1>5. ASSUME NEW u \in Usage, Primary(c, u) \/ Fallback(c, u) PROVE Others(c) /\ today' = today
    BY <1>5 DEF Others, Primary, Fallback, Answered, Failed, Escapes, Consume, Settle, Goto, BudgetTypeOK
  <1> QED
    BY <1>1, <1>2, <1>3, <1>4, <1>5 DEF CallStep

\* What an LLM call does to call c: it ends with a commit, without one for want
\* of a key, or dead, or it goes to the fallback.
LEMMA LlmCall ==
  ASSUME BudgetTypeOK, NEW c \in Calls, NEW u \in Usage, Primary(c, u) \/ Fallback(c, u)
  PROVE  /\ pc[c] \in {"primary", "fallback"} /\ UNCHANGED <<key, total, counter, redisErrors>>
         /\ \/ /\ pc'[c] = IF key[c] = NoKey THEN "done" ELSE "commit"
               /\ used'[c] = u
               /\ charge'[c] \in {u, Expected} \/ ~UsageReported
            \/ pc'[c] = "dead"
            \/ pc'[c] = "fallback" /\ UNCHANGED <<charge, used>>
  <1>1. UNCHANGED <<key, total, counter, redisErrors>> /\ pc[c] \in {"primary", "fallback"}
    BY DEF Primary, Fallback
  <1>2. CASE Answered(c, u) \/ Failed(c, u)
    BY <1>1, <1>2 DEF Answered, Failed, Consume, Settle, Goto, BudgetTypeOK
  <1>3. CASE Escapes(c, u)
    BY <1>1, <1>3 DEF Escapes, Goto, BudgetTypeOK
  <1>4. CASE Goto(c, "fallback") /\ UNCHANGED <<charge, used>>
    BY <1>1, <1>4 DEF Goto, BudgetTypeOK
  <1> QED
    BY <1>2, <1>3, <1>4 DEF Primary, Fallback

\* An INCRBY, seen from the counter of any day.
LEMMA Counted ==
  ASSUME BudgetTypeOK, NEW e \in Days, NEW n \in Int, NEW r \in Reply, Incrby(e, n, r), NEW d \in Days
  PROVE  /\ counter[d] \in Int
         /\ counter'[d] = IF d = e /\ r # "lostRequest" THEN counter[d] + n ELSE counter[d]
         /\ redisErrors' = 0 => r = "ok" /\ redisErrors = 0
         /\ r = "ok" => redisErrors' = redisErrors
  BY BudgetAssumption DEF Incrby, Reply, BudgetTypeOK

\* Whatever happens to another call, a call stays sound.
LEMMA OthersSound ==
  ASSUME CallInv, NEW c \in Calls, Others(c), Sound(c)', redisErrors' = 0 => redisErrors = 0
  PROVE  CallInv'
  <1>1. ASSUME NEW b \in Calls, b # c PROVE Sound(b)'
    BY <1>1 DEF CallInv, Sound, Others, Covered
  <1> QED
    BY <1>1 DEF CallInv

LEMMA CallInvStep ==
  ASSUME BudgetTypeOK, BudgetTypeOK', CallInv, NEW c \in Calls, CallStep(c)
  PROVE  CallInv'
  <1> USE BudgetAssumption
  <1>1. Others(c) /\ Sound(c) /\ key[c] \in Days \cup {NoKey}
    BY OneCall DEF CallInv, BudgetTypeOK
  <1>2. CASE Dies(c)
    <2>1. Sound(c)' /\ redisErrors' = redisErrors
      BY <1>2 DEF Dies, Goto, Sound, BudgetTypeOK
    <2> QED
      BY <1>1, <2>1, OthersSound
  <1>3. ASSUME NEW r \in Reply, Reserve(c, r) PROVE CallInv'
    <2>1. pc[c] = "new" /\ Incrby(today, Expected, r) /\ today \in Days
      BY <1>3 DEF Reserve, BudgetTypeOK
    <2>2. redisErrors' = 0 => r = "ok" /\ redisErrors = 0
      BY <2>1, Counted, SMTT(30)
    <2>3. Sound(c)'
      BY <1>1, <1>3, <2>1, <2>2, SMTT(30) DEF Reserve, Goto, Sound, BudgetTypeOK, Days, NoKey
    <2> QED
      BY <1>1, <2>2, <2>3, OthersSound
  <1>4. ASSUME NEW r \in Reply, ExpireAndCompare(c, r) PROVE CallInv'
    <2>1. pc[c] = "expire" /\ Incrby(key[c], 0, r) /\ key[c] \in Days
      BY <1>4 DEF ExpireAndCompare, BudgetTypeOK
    <2>2. redisErrors' = 0 => r = "ok" /\ redisErrors = 0
      <3>1. 0 \in Int
        OBVIOUS
      <3> QED
        BY <2>1, <3>1, Counted
    <2>3. total[c] \in Int
      BY DEF BudgetTypeOK
    <2>4. Sound(c)'
      BY <1>1, <1>4, <2>1, <2>2, <2>3 DEF ExpireAndCompare, OverCap, Goto, Sound, BudgetTypeOK
    <2> QED
      BY <1>1, <2>2, <2>4, OthersSound
  <1>5. ASSUME NEW r \in Reply, Rollback(c, r) PROVE CallInv'
    <2>1. pc[c] = "rollback" /\ Incrby(key[c], -Expected, r) /\ key[c] \in Days
      BY <1>5 DEF Rollback, BudgetTypeOK
    <2>2. redisErrors' = 0 => r = "ok" /\ redisErrors = 0
      BY <2>1, Counted
    <2>3. Sound(c)'
      BY <1>1, <1>5, <2>1, <2>2 DEF Rollback, Goto, Sound, BudgetTypeOK
    <2> QED
      BY <1>1, <2>2, <2>3, OthersSound
  <1>6. ASSUME NEW r \in Reply, Commit(c, r) PROVE CallInv'
    <2>1. pc[c] = "commit" /\ Incrby(key[c], charge[c] - Expected, r) /\ key[c] \in Days
      BY <1>6 DEF Commit, BudgetTypeOK
    <2>2. charge[c] - Expected \in Int
      BY DEF BudgetTypeOK
    <2>3. redisErrors' = 0 => r = "ok" /\ redisErrors = 0
      BY <2>1, <2>2, Counted
    <2>4. Sound(c)'
      BY <1>1, <1>6, <2>1, <2>3 DEF Commit, Goto, Sound, Covered, BudgetTypeOK
    <2> QED
      BY <1>1, <2>3, <2>4, OthersSound
  <1>7. ASSUME NEW u \in Usage, Primary(c, u) \/ Fallback(c, u) PROVE CallInv'
    <2>1. u \in Nat /\ charge'[c] \in Nat /\ UNCHANGED <<key, total, redisErrors>>
      BY <1>7, LlmCall DEF BudgetTypeOK
    <2>2. Sound(c)'
      BY <1>1, <1>7, <2>1, LlmCall DEF Sound, Covered
    <2> QED
      BY <1>1, <2>1, <2>2, OthersSound
  <1> QED
    BY <1>2, <1>3, <1>4, <1>5, <1>6, <1>7 DEF CallStep

------------------------------------------------------------------------------
(***************************************************************************)
(* How a step of a call moves the sums of a day.                           *)
(***************************************************************************)
SumOfShares(d)     == TokenCount([c \in Calls |-> Share(c)], Sharing(d))
SumOfFloors(d)     == TokenCount([c \in Calls |-> Floor(c)], Sharing(d))
SumOfPotentials(d) == TokenCount([c \in Calls |-> Potential(c)], Sharing(d))

\* What a call whose key is k adds to the sum of day d.
On(k, d, n) == IF k = d THEN n ELSE 0

LEMMA SharesMove ==
  ASSUME BudgetTypeOK, BudgetTypeOK', NEW c \in Calls, Others(c), NEW d \in Days
  PROVE  /\ SumOfShares(d) \in Nat /\ SumOfShares(d)' \in Nat
         /\ Share(c) \in Nat /\ Share(c)' \in Nat
         /\ SumOfShares(d)' = SumOfShares(d) + On(key'[c], d, Share(c)') - On(key[c], d, Share(c))
  <1>1. \A b \in Calls : Share(b) \in Nat /\ Share(b)' \in Nat
    BY BudgetAssumption DEF BudgetTypeOK, Share
  <1>2. PICK f \in [Calls -> Nat] : f = [b \in Calls |-> Share(b)]
    BY <1>1
  <1>3. PICK g \in [Calls -> Nat] : g = [b \in Calls |-> Share(b)']
    BY <1>1
  <1>4. PICK S \in SUBSET Calls, T \in SUBSET Calls : S = Sharing(d) /\ T = Sharing(d)'
    BY DEF Sharing
  <1>5. \A b \in Calls \ {c} : Share(b)' = Share(b)
    BY DEF Others, Share
  <1>6. \A b \in Calls \ {c} : f[b] = g[b] /\ (b \in S <=> b \in T)
    BY <1>2, <1>3, <1>4, <1>5 DEF Others, Sharing
  <1>7. SumOfShares(d) = TokenCount(f, S) /\ SumOfShares(d)' = TokenCount(g, T)
    BY <1>2, <1>3, <1>4 DEF SumOfShares
  <1>8. Part(f, S, c) = On(key[c], d, Share(c)) /\ Part(g, T, c) = On(key'[c], d, Share(c)')
    BY <1>2, <1>3, <1>4 DEF Part, On, Sharing
  <1>9. /\ TokenCount(f, S) \in Nat /\ TokenCount(g, T) \in Nat
        /\ Part(f, S, c) \in Nat /\ Part(g, T, c) \in Nat
        /\ TokenCount(g, T) - Part(g, T, c) = TokenCount(f, S) - Part(f, S, c)
    BY <1>6, CountStep
  <1> QED
    BY <1>1, <1>7, <1>8, <1>9

LEMMA FloorsMove ==
  ASSUME BudgetTypeOK, BudgetTypeOK', NEW c \in Calls, Others(c), NEW d \in Days
  PROVE  /\ SumOfFloors(d) \in Nat /\ SumOfFloors(d)' \in Nat
         /\ Floor(c) \in Nat /\ Floor(c)' \in Nat
         /\ SumOfFloors(d)' = SumOfFloors(d) + On(key'[c], d, Floor(c)') - On(key[c], d, Floor(c))
  <1>1. \A b \in Calls : Floor(b) \in Nat /\ Floor(b)' \in Nat
    BY BudgetAssumption DEF BudgetTypeOK, Floor, Share
  <1>2. PICK f \in [Calls -> Nat] : f = [b \in Calls |-> Floor(b)]
    BY <1>1
  <1>3. PICK g \in [Calls -> Nat] : g = [b \in Calls |-> Floor(b)']
    BY <1>1
  <1>4. PICK S \in SUBSET Calls, T \in SUBSET Calls : S = Sharing(d) /\ T = Sharing(d)'
    BY DEF Sharing
  <1>5. \A b \in Calls \ {c} : Floor(b)' = Floor(b)
    BY DEF Others, Floor, Share
  <1>6. \A b \in Calls \ {c} : f[b] = g[b] /\ (b \in S <=> b \in T)
    BY <1>2, <1>3, <1>4, <1>5 DEF Others, Sharing
  <1>7. SumOfFloors(d) = TokenCount(f, S) /\ SumOfFloors(d)' = TokenCount(g, T)
    BY <1>2, <1>3, <1>4 DEF SumOfFloors
  <1>8. Part(f, S, c) = On(key[c], d, Floor(c)) /\ Part(g, T, c) = On(key'[c], d, Floor(c)')
    BY <1>2, <1>3, <1>4 DEF Part, On, Sharing
  <1>9. /\ TokenCount(f, S) \in Nat /\ TokenCount(g, T) \in Nat
        /\ Part(f, S, c) \in Nat /\ Part(g, T, c) \in Nat
        /\ TokenCount(g, T) - Part(g, T, c) = TokenCount(f, S) - Part(f, S, c)
    BY <1>6, CountStep
  <1> QED
    BY <1>1, <1>7, <1>8, <1>9

LEMMA PotentialsMove ==
  ASSUME BudgetTypeOK, BudgetTypeOK', NEW c \in Calls, Others(c), NEW d \in Days
  PROVE  /\ SumOfPotentials(d) \in Nat /\ SumOfPotentials(d)' \in Nat
         /\ Potential(c) \in Nat /\ Potential(c)' \in Nat
         /\ SumOfPotentials(d)' = SumOfPotentials(d) + On(key'[c], d, Potential(c)') - On(key[c], d, Potential(c))
  <1>1. \A b \in Calls : Potential(b) \in Nat /\ Potential(b)' \in Nat
    BY BudgetAssumption DEF BudgetTypeOK, Potential, Covered
  <1>2. PICK f \in [Calls -> Nat] : f = [b \in Calls |-> Potential(b)]
    BY <1>1
  <1>3. PICK g \in [Calls -> Nat] : g = [b \in Calls |-> Potential(b)']
    BY <1>1
  <1>4. PICK S \in SUBSET Calls, T \in SUBSET Calls : S = Sharing(d) /\ T = Sharing(d)'
    BY DEF Sharing
  <1>5. \A b \in Calls \ {c} : Potential(b)' = Potential(b)
    BY DEF Others, Potential, Covered
  <1>6. \A b \in Calls \ {c} : f[b] = g[b] /\ (b \in S <=> b \in T)
    BY <1>2, <1>3, <1>4, <1>5 DEF Others, Sharing
  <1>7. SumOfPotentials(d) = TokenCount(f, S) /\ SumOfPotentials(d)' = TokenCount(g, T)
    BY <1>2, <1>3, <1>4 DEF SumOfPotentials
  <1>8. Part(f, S, c) = On(key[c], d, Potential(c)) /\ Part(g, T, c) = On(key'[c], d, Potential(c)')
    BY <1>2, <1>3, <1>4 DEF Part, On, Sharing
  <1>9. /\ TokenCount(f, S) \in Nat /\ TokenCount(g, T) \in Nat
        /\ Part(f, S, c) \in Nat /\ Part(g, T, c) \in Nat
        /\ TokenCount(g, T) - Part(g, T, c) = TokenCount(f, S) - Part(f, S, c)
    BY <1>6, CountStep
  <1> QED
    BY <1>1, <1>7, <1>8, <1>9

------------------------------------------------------------------------------
(***************************************************************************)
(* The counters.                                                           *)
(***************************************************************************)
\* As long as Redis answers, a call changes the counter of a day by as much as
\* it changes its share in it.
LEMMA ExactStep ==
  ASSUME BudgetTypeOK, BudgetTypeOK', CallInv, CounterExact, NEW c \in Calls, CallStep(c)
  PROVE  CounterExact'
  <1> USE BudgetAssumption
  <1> SUFFICES ASSUME NEW d \in Days, redisErrors' = 0
               PROVE  counter'[d] = SumOfShares(d)'
    BY DEF CounterExact, SumOfShares
  <1>1. Others(c) /\ Sound(c) /\ counter[d] \in Int /\ d # NoKey
    <2>1. Others(c) /\ Sound(c)
      BY OneCall DEF CallInv
    <2>2. counter[d] \in Int
      BY DEF BudgetTypeOK
    <2>3. d # NoKey
      BY DEF Days, NoKey
    <2> QED
      BY <2>1, <2>2, <2>3
  <1>2. ASSUME redisErrors = 0,
               counter'[d] = counter[d] + On(key'[c], d, Share(c)') - On(key[c], d, Share(c))
        PROVE  counter'[d] = SumOfShares(d)'
    <2>1. counter[d] = SumOfShares(d)
      BY <1>2 DEF CounterExact, SumOfShares
    <2> QED
      BY <1>1, <1>2, <2>1, SharesMove
  <1>3. CASE Dies(c)
    <2>1. redisErrors = 0 /\ counter' = counter /\ key' = key /\ Share(c)' = Share(c)
      BY <1>3 DEF Dies, Goto, Share, BudgetTypeOK
    <2>2. On(key[c], d, Share(c)) \in Int
      BY <1>1, SharesMove DEF On
    <2> QED
      BY <1>1, <1>2, <2>1, <2>2
  <1>4. ASSUME NEW r \in Reply, Reserve(c, r) PROVE counter'[d] = SumOfShares(d)'
    <2>1. pc[c] = "new" /\ key[c] = NoKey /\ Incrby(today, Expected, r) /\ today \in Days /\ Expected \in Int
      BY <1>1, <1>4 DEF Reserve, BudgetTypeOK, Sound
    <2>2. /\ r = "ok" /\ redisErrors = 0
          /\ counter'[d] = IF d = today THEN counter[d] + Expected ELSE counter[d]
      BY <2>1, Counted
    <2>3. key'[c] = today /\ Share(c)' = Expected
      BY <1>4, <2>2 DEF Reserve, Goto, Share, BudgetTypeOK
    <2> QED
      BY <1>1, <1>2, <2>1, <2>2, <2>3 DEF On
  <1>5. ASSUME NEW r \in Reply, ExpireAndCompare(c, r) PROVE counter'[d] = SumOfShares(d)'
    <2>1. pc[c] = "expire" /\ Incrby(key[c], 0, r) /\ key[c] \in Days /\ 0 \in Int
      BY <1>5 DEF ExpireAndCompare, BudgetTypeOK
    <2>2. r = "ok" /\ redisErrors = 0 /\ counter'[d] = counter[d]
      BY <1>1, <2>1, Counted
    <2>3. key' = key /\ Share(c)' = Expected /\ Share(c) = Expected
      BY <1>5, <2>1, <2>2 DEF ExpireAndCompare, Goto, Share, BudgetTypeOK
    <2> QED
      BY <1>1, <1>2, <2>2, <2>3 DEF On
  <1>6. ASSUME NEW r \in Reply, Rollback(c, r) PROVE counter'[d] = SumOfShares(d)'
    <2>1. pc[c] = "rollback" /\ Incrby(key[c], -Expected, r) /\ key[c] \in Days /\ -Expected \in Int
      BY <1>6 DEF Rollback, BudgetTypeOK
    <2>2. /\ redisErrors = 0 /\ r = "ok"
          /\ counter'[d] = IF d = key[c] THEN counter[d] + -Expected ELSE counter[d]
      BY <2>1, Counted
    <2>3. key' = key /\ Share(c)' = 0 /\ Share(c) = Expected
      BY <1>6, <2>1 DEF Rollback, Goto, Share, BudgetTypeOK
    <2> QED
      BY <1>1, <1>2, <2>2, <2>3 DEF On
  <1>7. ASSUME NEW r \in Reply, Commit(c, r) PROVE counter'[d] = SumOfShares(d)'
    <2>1. pc[c] = "commit" /\ Incrby(key[c], charge[c] - Expected, r) /\ key[c] \in Days
      BY <1>7 DEF Commit, BudgetTypeOK
    <2>2. charge[c] \in Nat /\ charge[c] - Expected \in Int
      BY DEF BudgetTypeOK
    <2>3. /\ redisErrors = 0 /\ r = "ok"
          /\ counter'[d] = IF d = key[c] THEN counter[d] + (charge[c] - Expected) ELSE counter[d]
      BY <2>1, <2>2, Counted
    <2>4. key' = key /\ Share(c)' = charge[c] /\ Share(c) = Expected
      BY <1>7, <2>1 DEF Commit, Goto, Share, BudgetTypeOK
    <2> QED
      BY <1>1, <1>2, <2>2, <2>3, <2>4 DEF On
  <1>8. ASSUME NEW u \in Usage, Primary(c, u) \/ Fallback(c, u) PROVE counter'[d] = SumOfShares(d)'
    <2>1. counter' = counter /\ key' = key /\ redisErrors = 0 /\ pc[c] \in {"primary", "fallback"}
      BY <1>8, LlmCall
    <2>2. pc'[c] \in {"commit", "dead", "fallback"}
      BY <1>1, <1>8, <2>1, LlmCall DEF Sound
    <2>3. Share(c)' = Expected /\ Share(c) = Expected
      BY <2>1, <2>2 DEF Share
    <2> QED
      BY <1>1, <1>2, <2>1, <2>3 DEF On
  <1> QED
    BY <1>3, <1>4, <1>5, <1>6, <1>7, <1>8 DEF CallStep

\* Whatever fails, the counter of a day covers the floors of its calls.
LEMMA FloorStep ==
  ASSUME BudgetTypeOK, BudgetTypeOK', CallInv, FloorInv, NEW c \in Calls, CallStep(c)
  PROVE  FloorInv'
  <1> USE BudgetAssumption
  <1> SUFFICES ASSUME NEW d \in Days
               PROVE  SumOfFloors(d)' <= counter'[d]
    BY DEF FloorInv, SumOfFloors
  <1>1. Others(c) /\ Sound(c) /\ counter[d] \in Int /\ counter'[d] \in Int /\ d # NoKey
    <2>1. Others(c) /\ Sound(c)
      BY OneCall DEF CallInv
    <2>2. counter[d] \in Int /\ counter'[d] \in Int
      BY DEF BudgetTypeOK
    <2>3. d # NoKey
      BY DEF Days, NoKey
    <2> QED
      BY <2>1, <2>2, <2>3
  <1>2. ASSUME counter'[d] >= counter[d] + On(key'[c], d, Floor(c)') - On(key[c], d, Floor(c))
        PROVE  SumOfFloors(d)' <= counter'[d]
    <2>1. SumOfFloors(d) <= counter[d]
      BY DEF FloorInv, SumOfFloors
    <2>2. On(key'[c], d, Floor(c)') \in Nat /\ On(key[c], d, Floor(c)) \in Nat
      BY <1>1, FloorsMove DEF On
    <2>3. /\ SumOfFloors(d) \in Nat /\ SumOfFloors(d)' \in Nat
          /\ SumOfFloors(d)' = SumOfFloors(d) + On(key'[c], d, Floor(c)') - On(key[c], d, Floor(c))
      BY <1>1, FloorsMove
    <2> QED
      BY <1>1, <1>2, <2>1, <2>2, <2>3
  <1>3. CASE Dies(c)
    <2>1. counter' = counter /\ key' = key /\ Floor(c)' = Floor(c)
      BY <1>3 DEF Dies, Goto, Floor, Share, BudgetTypeOK
    <2>2. On(key[c], d, Floor(c)) \in Int
      BY <1>1, FloorsMove DEF On
    <2> QED
      BY <1>1, <1>2, <2>1, <2>2
  <1>4. ASSUME NEW r \in Reply, Reserve(c, r) PROVE SumOfFloors(d)' <= counter'[d]
    <2>1. pc[c] = "new" /\ key[c] = NoKey /\ Incrby(today, Expected, r) /\ today \in Days /\ Expected \in Int
      BY <1>1, <1>4 DEF Reserve, BudgetTypeOK, Sound
    <2>2. counter'[d] = IF d = today /\ r # "lostRequest" THEN counter[d] + Expected ELSE counter[d]
      BY <2>1, Counted
    <2>3. IF r = "ok" THEN key'[c] = today /\ Floor(c)' = Expected ELSE key'[c] = NoKey
      BY <1>4, <2>1 DEF Reserve, Goto, Floor, Share, BudgetTypeOK
    <2> QED
      BY <1>1, <1>2, <2>1, <2>2, <2>3 DEF On
  <1>5. ASSUME NEW r \in Reply, ExpireAndCompare(c, r) PROVE SumOfFloors(d)' <= counter'[d]
    <2>1. pc[c] = "expire" /\ Incrby(key[c], 0, r) /\ key[c] \in Days /\ 0 \in Int
      BY <1>5 DEF ExpireAndCompare, BudgetTypeOK
    <2>2. counter'[d] = counter[d]
      BY <1>1, <2>1, Counted
    <2>3. Floor(c)' = Expected /\ Floor(c) = Expected /\ key'[c] \in {key[c], NoKey}
      BY <1>5, <2>1 DEF ExpireAndCompare, Goto, Floor, Share, BudgetTypeOK
    <2> QED
      BY <1>1, <1>2, <2>2, <2>3 DEF On
  <1>6. ASSUME NEW r \in Reply, Rollback(c, r) PROVE SumOfFloors(d)' <= counter'[d]
    <2>1. pc[c] = "rollback" /\ Incrby(key[c], -Expected, r) /\ key[c] \in Days /\ -Expected \in Int
      BY <1>6 DEF Rollback, BudgetTypeOK
    <2>2. counter'[d] = IF d = key[c] /\ r # "lostRequest" THEN counter[d] + -Expected ELSE counter[d]
      BY <2>1, Counted
    <2>3. key' = key /\ Floor(c)' = 0 /\ Floor(c) = Expected
      BY <1>6, <2>1 DEF Rollback, Goto, Floor, Share, BudgetTypeOK
    <2> QED
      BY <1>1, <1>2, <2>2, <2>3 DEF On
  <1>7. ASSUME NEW r \in Reply, Commit(c, r) PROVE SumOfFloors(d)' <= counter'[d]
    <2>1. pc[c] = "commit" /\ Incrby(key[c], charge[c] - Expected, r) /\ key[c] \in Days
      BY <1>7 DEF Commit, BudgetTypeOK
    <2>2. charge[c] \in Nat /\ charge[c] - Expected \in Int
      BY DEF BudgetTypeOK
    <2>3. counter'[d] = IF d = key[c] /\ r # "lostRequest"
                        THEN counter[d] + (charge[c] - Expected) ELSE counter[d]
      BY <2>1, <2>2, Counted
    <2>4. /\ key' = key /\ Floor(c) = Expected
          /\ Floor(c)' = IF charge[c] > Expected THEN Expected ELSE charge[c]
      BY <1>7, <2>1 DEF Commit, Goto, Floor, Share, BudgetTypeOK
    <2> QED
      BY <1>1, <1>2, <2>2, <2>3, <2>4 DEF On
  <1>8. ASSUME NEW u \in Usage, Primary(c, u) \/ Fallback(c, u) PROVE SumOfFloors(d)' <= counter'[d]
    <2>1. counter' = counter /\ key' = key /\ pc[c] \in {"primary", "fallback"}
      BY <1>8, LlmCall
    <2>2. pc'[c] \in {"commit", "dead", "fallback"} \/ key[c] = NoKey
      BY <1>8, LlmCall
    <2>3. Floor(c) = Expected /\ (Floor(c)' = Expected \/ key[c] = NoKey)
      BY <2>1, <2>2 DEF Floor, Share
    <2> QED
      BY <1>1, <1>2, <2>1, <2>3 DEF On
  <1> QED
    BY <1>3, <1>4, <1>5, <1>6, <1>7, <1>8 DEF CallStep

\* A call may not consume more within its reservation than it has on the counter.
LEMMA PotentialShared ==
  BudgetTypeOK /\ CallInv /\ UsageReported => \A d \in Days : SumOfPotentials(d) <= SumOfShares(d)
  <1> SUFFICES ASSUME BudgetTypeOK, CallInv, UsageReported, NEW d \in Days
               PROVE  SumOfPotentials(d) <= SumOfShares(d)
    OBVIOUS
  <1> USE BudgetAssumption
  <1>1. \A c \in Calls : Potential(c) \in Nat /\ Share(c) \in Nat
    BY DEF BudgetTypeOK, Potential, Covered, Share
  <1>2. ASSUME NEW c \in Sharing(d) PROVE Potential(c) <= Share(c)
    <2>1. c \in Calls /\ key[c] # NoKey /\ Sound(c) /\ used[c] \in Nat /\ pc[c] \in Labels /\ charge[c] \in Nat
      BY DEF Sharing, CallInv, Days, NoKey, BudgetTypeOK, Labels
    <2> QED
      BY <2>1 DEF Potential, Covered, Share, Sound, Labels
  <1>3. PICK f \in [Calls -> Nat] : f = [b \in Calls |-> Potential(b)]
    BY <1>1
  <1>4. PICK g \in [Calls -> Nat] : g = [b \in Calls |-> Share(b)]
    BY <1>1
  <1>5. Sharing(d) \in SUBSET Calls /\ \A c \in Sharing(d) : f[c] <= g[c]
    BY <1>2, <1>3, <1>4 DEF Sharing
  <1>6. TokenCount(f, Sharing(d)) <= TokenCount(g, Sharing(d))
    BY <1>5, CountMonotone
  <1> QED
    BY <1>3, <1>4, <1>6 DEF SumOfPotentials, SumOfShares

LEMMA PotentialSharedNext ==
  BudgetTypeOK' /\ CallInv' /\ UsageReported => \A d \in Days : SumOfPotentials(d)' <= SumOfShares(d)'
  <1>1. (BudgetTypeOK /\ CallInv /\ UsageReported => \A d \in Days : SumOfPotentials(d) <= SumOfShares(d))'
    BY PotentialShared, PTL
  <1> QED
    BY <1>1

\* A call that reserves is compared with a counter that holds the potential of
\* all the others; no other step adds to the potential of a day.
LEMMA PotentialStep ==
  ASSUME BudgetTypeOK, BudgetTypeOK', CallInv, CallInv', CounterExact', UsageReported, PotentialInv,
         NEW c \in Calls, CallStep(c)
  PROVE  PotentialInv'
  <1> USE BudgetAssumption
  <1> SUFFICES ASSUME NEW d \in Days, redisErrors' = 0
               PROVE  SumOfPotentials(d)' <= Cap
    BY DEF PotentialInv, SumOfPotentials
  <1>1. Others(c) /\ Sound(c) /\ d # NoKey
    <2>1. Others(c) /\ Sound(c)
      BY OneCall DEF CallInv
    <2>2. d # NoKey
      BY DEF Days, NoKey
    <2> QED
      BY <2>1, <2>2
  <1>2. ASSUME redisErrors = 0,
               On(key'[c], d, Potential(c)') <= On(key[c], d, Potential(c))
        PROVE  SumOfPotentials(d)' <= Cap
    <2>1. SumOfPotentials(d) <= Cap
      BY <1>2 DEF PotentialInv, SumOfPotentials
    <2>2. On(key'[c], d, Potential(c)') \in Nat /\ On(key[c], d, Potential(c)) \in Nat
      BY <1>1, PotentialsMove DEF On
    <2>3. /\ SumOfPotentials(d) \in Nat /\ SumOfPotentials(d)' \in Nat
          /\ SumOfPotentials(d)' = SumOfPotentials(d) + On(key'[c], d, Potential(c)') - On(key[c], d, Potential(c))
      BY <1>1, PotentialsMove
    <2> QED
      BY <1>2, <2>1, <2>2, <2>3
  <1>3. /\ Potential(c) \in Nat /\ Potential(c)' \in Nat
        /\ used[c] \in Nat /\ used'[c] \in Nat /\ total[c] \in Int
        /\ Covered(c) \in Nat /\ Covered(c) <= Expected /\ (used[c] = 0 => Covered(c) = 0)
    <2>1. used[c] \in Nat /\ used'[c] \in Nat /\ total[c] \in Int
      BY DEF BudgetTypeOK
    <2>2. Covered(c) \in Nat /\ Covered(c) <= Expected /\ (used[c] = 0 => Covered(c) = 0)
      BY <2>1 DEF Covered
    <2> QED
      BY <1>1, <2>1, <2>2, PotentialsMove
  <1>4. ASSUME redisErrors = 0, key'[c] = key[c], Potential(c)' <= Potential(c)
        PROVE  SumOfPotentials(d)' <= Cap
    BY <1>2, <1>3, <1>4 DEF On
  <1>5. CASE Dies(c)
    <2>1. redisErrors = 0 /\ key' = key /\ pc'[c] = "dead" /\ total' = total /\ used' = used
      BY <1>5 DEF Dies, Goto, BudgetTypeOK
    <2>2. Potential(c)' = Covered(c)
      BY <2>1 DEF Potential, Covered
    <2>3. Covered(c) <= Potential(c)
      BY <1>3 DEF Potential
    <2> QED
      BY <1>4, <2>1, <2>2, <2>3
  <1>6. ASSUME NEW r \in Reply, Reserve(c, r) PROVE SumOfPotentials(d)' <= Cap
    <2>1. /\ pc[c] = "new" /\ key[c] = NoKey /\ used[c] = 0
          /\ Incrby(today, Expected, r) /\ today \in Days /\ Expected \in Int
      BY <1>1, <1>6 DEF Reserve, BudgetTypeOK, Sound
    <2>2. r = "ok" /\ redisErrors = 0
      BY <2>1, Counted
    <2>3. key'[c] = today /\ pc'[c] = "expire" /\ used'[c] = 0 /\ total'[c] = counter'[today]
      BY <1>6, <2>1, <2>2 DEF Reserve, Goto, BudgetTypeOK
    <2>4. CASE d # today
      BY <1>1, <1>2, <2>1, <2>2, <2>3, <2>4 DEF On
    <2>5. CASE d = today /\ counter'[today] > Cap
      <3>1. Potential(c)' = 0
        BY <2>3, <2>5 DEF Potential, Covered, BudgetTypeOK
      <3> QED
        BY <1>1, <1>2, <2>1, <2>2, <2>3, <3>1 DEF On
    <2>6. CASE d = today /\ counter'[today] <= Cap
      <3>1. SumOfPotentials(d)' <= SumOfShares(d)'
        BY PotentialSharedNext
      <3>2. counter'[d] = SumOfShares(d)'
        BY DEF CounterExact, SumOfShares
      <3>3. counter'[d] \in Int /\ SumOfPotentials(d)' \in Nat
        BY <1>1, PotentialsMove DEF BudgetTypeOK
      <3> QED
        BY <2>6, <3>1, <3>2, <3>3
    <2>7. counter'[today] \in Int
      BY <2>1 DEF BudgetTypeOK
    <2> QED
      BY <2>4, <2>5, <2>6, <2>7
  <1>7. ASSUME NEW r \in Reply, ExpireAndCompare(c, r) PROVE SumOfPotentials(d)' <= Cap
    <2>1. pc[c] = "expire" /\ Incrby(key[c], 0, r) /\ key[c] \in Days /\ 0 \in Int
      BY <1>7 DEF ExpireAndCompare, BudgetTypeOK
    <2>2. r = "ok" /\ redisErrors = 0
      BY <2>1, Counted
    <2>3. /\ key' = key /\ total' = total /\ used' = used
          /\ \/ pc'[c] = "rollback" /\ total[c] > Cap
             \/ pc'[c] = "primary" /\ ~(total[c] > Cap)
      BY <1>7, <2>2 DEF ExpireAndCompare, OverCap, Goto, BudgetTypeOK
    <2>4. Potential(c)' = Potential(c)
      BY <1>3, <2>1, <2>3 DEF Potential, Covered
    <2> QED
      BY <1>3, <1>4, <2>2, <2>3, <2>4
  <1>8. ASSUME NEW r \in Reply, Rollback(c, r) PROVE SumOfPotentials(d)' <= Cap
    <2>1. pc[c] = "rollback" /\ Incrby(key[c], -Expected, r) /\ key[c] \in Days /\ -Expected \in Int
      BY <1>8 DEF Rollback, BudgetTypeOK
    <2>2. redisErrors = 0
      BY <2>1, Counted
    <2>3. key' = key /\ used' = used /\ pc'[c] = "refused"
      BY <1>8 DEF Rollback, Goto, BudgetTypeOK
    <2>4. Potential(c)' = Potential(c)
      BY <2>1, <2>3 DEF Potential, Covered
    <2> QED
      BY <1>3, <1>4, <2>2, <2>3, <2>4
  <1>9. ASSUME NEW r \in Reply, Commit(c, r) PROVE SumOfPotentials(d)' <= Cap
    <2>1. pc[c] = "commit" /\ Incrby(key[c], charge[c] - Expected, r) /\ key[c] \in Days
      BY <1>9 DEF Commit, BudgetTypeOK
    <2>2. charge[c] \in Nat /\ charge[c] - Expected \in Int
      BY DEF BudgetTypeOK
    <2>3. redisErrors = 0
      BY <2>1, <2>2, Counted
    <2>4. key' = key /\ used' = used /\ pc'[c] = "done"
      BY <1>9 DEF Commit, Goto, BudgetTypeOK
    <2>5. Potential(c)' = Covered(c) /\ Covered(c) <= Potential(c)
      BY <1>3, <2>4 DEF Potential, Covered
    <2> QED
      BY <1>4, <2>3, <2>4, <2>5
  <1>10. ASSUME NEW u \in Usage, Primary(c, u) \/ Fallback(c, u) PROVE SumOfPotentials(d)' <= Cap
    <2>1. key' = key /\ redisErrors = 0 /\ total' = total /\ pc[c] \in {"primary", "fallback"}
      BY <1>10, LlmCall
    <2>2. Potential(c) = Expected
      BY <1>1, <2>1 DEF Potential, Sound
    <2>3. Potential(c)' <= Expected
      BY <1>3 DEF Potential, Covered
    <2> QED
      BY <1>4, <2>1, <2>2, <2>3
  <1> QED
    BY <1>5, <1>6, <1>7, <1>8, <1>9, <1>10 DEF CallStep

------------------------------------------------------------------------------
CountInv == BudgetTypeOK /\ CallInv /\ CounterExact /\ FloorInv /\ (UsageReported => PotentialInv)

LEMMA NothingCounted ==
  ASSUME NEW f
  PROVE  TokenCount(f, {}) = 0
  BY FS_EmptySet DEF TokenCount, Tokens

LEMMA CountInit == BudgetInit => CountInv
  <1> SUFFICES ASSUME BudgetInit PROVE CountInv
    OBVIOUS
  <1> USE BudgetAssumption
  <1>1. BudgetTypeOK
    BY DEF BudgetInit, BudgetTypeOK, Days, NoKey
  <1>2. CallInv
    BY DEF BudgetInit, CallInv, Sound
  <1>3. \A d \in Days : Sharing(d) = {} /\ counter[d] = 0
    BY DEF BudgetInit, Sharing, Days, NoKey
  <1> QED
    BY <1>1, <1>2, <1>3, NothingCounted DEF CountInv, CounterExact, FloorInv, PotentialInv

LEMMA CountNext == CountInv /\ [BudgetNext]_budgetVars => CountInv'
  <1> SUFFICES ASSUME CountInv, [BudgetNext]_budgetVars PROVE CountInv'
    OBVIOUS
  <1>1. BudgetTypeOK'
    BY BudgetTypeNext DEF CountInv
  <1>2. ASSUME NEW c \in Calls, CallStep(c) PROVE CountInv'
    <2>1. CallInv'
      BY <1>1, <1>2, CallInvStep DEF CountInv
    <2>2. CounterExact'
      BY <1>1, <1>2, ExactStep DEF CountInv
    <2>3. FloorInv'
      BY <1>1, <1>2, FloorStep DEF CountInv
    <2>4. UsageReported => PotentialInv'
      BY <1>1, <1>2, <2>1, <2>2, PotentialStep DEF CountInv
    <2> QED
      BY <1>1, <2>1, <2>2, <2>3, <2>4 DEF CountInv
  <1>3. CASE Midnight \/ UNCHANGED budgetVars
    <2>1. UNCHANGED <<pc, key, total, charge, used, counter, redisErrors>>
      BY <1>3 DEF Midnight, budgetVars
    <2>2. CallInv'
      BY <2>1 DEF CountInv, CallInv, Sound, Covered
    <2>3. CounterExact'
      BY <2>1 DEF CountInv, CounterExact, Share, Sharing
    <2>4. FloorInv'
      BY <2>1 DEF CountInv, FloorInv, Floor, Share, Sharing
    <2>5. UsageReported => PotentialInv'
      BY <2>1 DEF CountInv, PotentialInv, Potential, Covered, Sharing
    <2> QED
      BY <1>1, <2>2, <2>3, <2>4, <2>5 DEF CountInv
  <1> QED
    BY <1>2, <1>3 DEF BudgetNext, CallStep

LEMMA CountHolds == BudgetSpec => []CountInv
  BY CountInit, CountNext, PTL DEF BudgetSpec

\* As long as Redis answers, the counter of a day is the sum of what its calls
\* have consumed or hold in reserve, for any number of overlapping calls.
THEOREM CounterIsExact == BudgetSpec => []CounterExact
  <1>1. CountInv => CounterExact
    BY DEF CountInv
  <1> QED
    BY <1>1, CountHolds, PTL

\* With usage reported and Redis answering, calls that reserve at the same time
\* do not consume more of their reservations together than the daily cap.
THEOREM CapIsKept ==
  ASSUME UsageReported
  PROVE  BudgetSpec => []CapHolds
  <1>1. CountInv => CapHolds
    <2> SUFFICES ASSUME CountInv, redisErrors = 0, NEW d \in Days
                 PROVE  TokenCount([c \in Calls |-> Covered(c)], Sharing(d)) <= Cap
      BY DEF CapHolds
    <2> USE BudgetAssumption
    <2>1. \A c \in Calls : Covered(c) \in Nat /\ Potential(c) \in Nat /\ Covered(c) <= Potential(c)
      BY DEF CountInv, BudgetTypeOK, Covered, Potential
    <2>2. PICK f \in [Calls -> Nat] : f = [c \in Calls |-> Covered(c)]
      BY <2>1
    <2>3. PICK g \in [Calls -> Nat] : g = [c \in Calls |-> Potential(c)]
      BY <2>1
    <2>4. Sharing(d) \in SUBSET Calls /\ \A c \in Sharing(d) : f[c] <= g[c]
      BY <2>1, <2>2, <2>3 DEF Sharing
    <2>5. TokenCount(f, Sharing(d)) <= TokenCount(g, Sharing(d))
      BY <2>4, CountMonotone
    <2>6. TokenCount(g, Sharing(d)) <= Cap
      BY <2>3 DEF CountInv, PotentialInv
    <2>7. TokenCount(f, Sharing(d)) \in Nat /\ TokenCount(g, Sharing(d)) \in Nat
      BY <2>4, CountType
    <2> QED
      BY <2>2, <2>5, <2>6, <2>7
  <1> QED
    BY <1>1, CountHolds, PTL

\* With usage reported, no failure of Redis and no death of the daemon brings
\* the counter of a day below what its accepted calls have consumed within
\* their reservations.
THEOREM CounterCoversUsage ==
  ASSUME UsageReported
  PROVE  BudgetSpec => []NeverUndercounts
  <1>1. CountInv => NeverUndercounts
    <2> SUFFICES ASSUME CountInv, NEW d \in Days
                 PROVE  TokenCount([c \in Calls |-> Covered(c)], Accepted(d)) <= counter[d]
      BY DEF NeverUndercounts
    <2> USE BudgetAssumption
    <2>1. \A c \in Calls : Covered(c) \in Nat /\ Floor(c) \in Nat
      BY DEF CountInv, BudgetTypeOK, Covered, Floor, Share
    <2>2. PICK f \in [Calls -> Nat] : f = [c \in Calls |-> Covered(c)]
      BY <2>1
    <2>3. PICK g \in [Calls -> Nat] : g = [c \in Calls |-> Floor(c)]
      BY <2>1
    <2>4. ASSUME NEW c \in Accepted(d) PROVE Covered(c) <= Floor(c)
      <3>1. /\ c \in Calls /\ key[c] # NoKey /\ pc[c] # "refused" /\ Sound(c)
            /\ used[c] \in Nat /\ charge[c] \in Nat
        BY DEF Accepted, Sharing, CountInv, CallInv, Days, NoKey, BudgetTypeOK
      <3> QED
        BY <3>1 DEF Sound, Covered, Floor, Share
    <2>5. Accepted(d) \in SUBSET Calls /\ Sharing(d) \in SUBSET Calls /\ Accepted(d) \subseteq Sharing(d)
      BY DEF Accepted, Sharing
    <2>6. \A c \in Accepted(d) : f[c] <= g[c]
      BY <2>2, <2>3, <2>4, <2>5
    <2>7. TokenCount(f, Accepted(d)) <= TokenCount(g, Sharing(d))
      BY <2>5, <2>6, CountMonotone
    <2>8. TokenCount(g, Sharing(d)) <= counter[d] /\ counter[d] \in Int
      BY <2>3 DEF CountInv, FloorInv, BudgetTypeOK
    <2>9. TokenCount(f, Accepted(d)) \in Nat /\ TokenCount(g, Sharing(d)) \in Nat
      BY <2>5, CountType
    <2> QED
      BY <2>2, <2>7, <2>8, <2>9
  <1> QED
    BY <1>1, CountHolds, PTL

==============================================================================
