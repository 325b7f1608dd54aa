--------------------------------- MODULE Budget --------------------------------
(***************************************************************************)
(* The daily token budget of one role of the orchestrator                  *)
(* (orchestrator/budget.py) around its LLM calls (orchestrator/llm.py), as *)
(* TriageAgent._triage_one and the two generators of BackendAgent make     *)
(* them.  Roles have keys of their own, so one role stands for any.        *)
(*                                                                         *)
(* Calls of one role overlap when two daemons run, or when a heartbeat     *)
(* that failed left agents of its tick behind.                             *)
(*                                                                         *)
(* pc[c] is where call c stands:                                           *)
(*   "new"       about to reserve                                          *)
(*   "expire"    reserved, about to set the TTL and to compare             *)
(*   "rollback"  over the cap, about to give the reservation back          *)
(*   "primary", "fallback"   waiting for an LLM                            *)
(*   "commit"    about to replace the reservation by what was consumed     *)
(*   "done", "refused"       over                                          *)
(*   "dead"      an exception nobody handles, or the daemon died           *)
(***************************************************************************)
EXTENDS Integers, FiniteSets

CONSTANTS
    Calls,           \* LLM calls of the role
    Cap,             \* daily_token_cap
    Expected,        \* tokens reserved for a call
    Usage,           \* tokens a call may consume
    HasFallback,     \* fallback_alias is not None
    UsageReported,   \* the answers carry usage.total_tokens
    MaxRedisErrors,  \* bound: Redis calls that fail in one behaviour
    LastDay          \* bound: days of a behaviour

ASSUME BudgetAssumption ==
    /\ IsFiniteSet(Calls)
    /\ Cap \in Nat
    /\ Expected \in Nat
    /\ Usage \subseteq Nat
    /\ HasFallback \in BOOLEAN
    /\ UsageReported \in BOOLEAN
    /\ MaxRedisErrors \in Nat
    /\ LastDay \in Nat \ {0}

VARIABLES
    pc,           \* see above
    key,          \* the day in the key of the call's reservation, or NoKey
    total,        \* new_total: what INCRBY returned to the call
    charge,       \* the tokens the call commits
    used,         \* ghost: the tokens the call has consumed
    counter,      \* kola:tokens:{role}:{day}, per day
    today,        \* dt.date.today()
    redisErrors   \* failed Redis calls so far (bounded by MaxRedisErrors)

budgetVars == <<pc, key, total, charge, used, counter, today, redisErrors>>

NoKey == 0
Days  == 1..LastDay

BudgetTypeOK ==
    /\ pc \in [Calls -> {"new", "expire", "rollback", "primary", "fallback", "commit",
                         "done", "refused", "dead"}]
    /\ key \in [Calls -> Days \cup {NoKey}]
    /\ \A c \in Calls : pc[c] \in {"expire", "rollback", "commit"} => key[c] \in Days
    /\ total \in [Calls -> Int]
    /\ charge \in [Calls -> Nat]
    /\ used \in [Calls -> Nat]
    /\ counter \in [Days -> Int]
    /\ today \in Days
    /\ redisErrors \in 0..MaxRedisErrors

BudgetInit ==
    /\ pc = [c \in Calls |-> "new"]
    /\ key = [c \in Calls |-> NoKey]
    /\ total = [c \in Calls |-> 0]
    /\ charge = [c \in Calls |-> 0]
    /\ used = [c \in Calls |-> 0]
    /\ counter = [d \in Days |-> 0]
    /\ today = 1
    /\ redisErrors = 0

\* A Redis call succeeds, fails before the server executes it, or after.
Reply == {"ok", "lostRequest", "lostReply"}

\* INCRBY on the counter of day d.
Incrby(d, n, r) ==
    /\ r # "ok" => redisErrors < MaxRedisErrors
    /\ redisErrors' = IF r = "ok" THEN redisErrors ELSE redisErrors + 1
    /\ counter' = IF r = "lostRequest" THEN counter ELSE [counter EXCEPT ![d] = @ + n]

Goto(c, label) == pc' = [pc EXCEPT ![c] = label]

------------------------------------------------------------------------------
\* check_and_reserve: INCRBY.  An error is BudgetUnavailable: the call goes on
\* without a reservation, even if its tokens were counted.
Reserve(c, r) ==
    /\ pc[c] = "new"
    /\ Incrby(today, Expected, r)
    /\ \/ /\ r = "ok"
          /\ key' = [key EXCEPT ![c] = today]
          /\ total' = [total EXCEPT ![c] = counter'[today]]
          /\ Goto(c, "expire")
       \/ /\ r # "ok"
          /\ Goto(c, "primary")
          /\ UNCHANGED <<key, total>>
    /\ UNCHANGED <<charge, used, today>>

\* BUG: the total before the reservation is compared.
OverCapBefore(c) == total[c] - Expected > Cap

OverCap(c) == total[c] > Cap

\* EXPIRE, which changes no value, then the comparison.  An error is
\* BudgetUnavailable here too.
ExpireAndCompare(c, r) ==
    /\ pc[c] = "expire"
    /\ Incrby(key[c], 0, r)
    /\ \/ r = "ok" /\ OverCap(c) /\ Goto(c, "rollback") /\ UNCHANGED key
       \/ r = "ok" /\ ~OverCap(c) /\ Goto(c, "primary") /\ UNCHANGED key
       \/ r # "ok" /\ Goto(c, "primary") /\ key' = [key EXCEPT ![c] = NoKey]
    /\ UNCHANGED <<total, charge, used, today>>

\* INCRBY -expected; an error is ignored.  BudgetExceeded ends the call.
Rollback(c, r) ==
    /\ pc[c] = "rollback"
    /\ Incrby(key[c], -Expected, r)
    /\ Goto(c, "refused")
    /\ UNCHANGED <<key, total, charge, used, today>>

\* BUG: the difference is computed by the caller, and again by commit.
SettleDifference(c, tokens) ==
    /\ charge' = [charge EXCEPT ![c] = tokens - Expected]
    /\ Goto(c, IF key[c] = NoKey THEN "done" ELSE "commit")

\* The caller commits only what it has reserved.
Settle(c, tokens) ==
    /\ charge' = [charge EXCEPT ![c] = tokens]
    /\ Goto(c, IF key[c] = NoKey THEN "done" ELSE "commit")

Consume(c, u) == used' = [used EXCEPT ![c] = u]

\* An LLM answers; total_tokens is 0 when the answer has no usage.
Answered(c, u) ==
    /\ Consume(c, u)
    /\ \/ Settle(c, u)
       \/ ~UsageReported /\ Settle(c, 0)

\* LLMTimeout or LLMError, with u tokens consumed that nobody is told of: the
\* caller commits what it expected.
Failed(c, u) ==
    /\ Consume(c, u)
    /\ Settle(c, Expected)

\* An answer without choices raises IndexError, which _try_one does not catch,
\* and neither do the callers.
Escapes(c, u) ==
    /\ Consume(c, u)
    /\ Goto(c, "dead")
    /\ UNCHANGED charge

\* call, first half: the primary alias.  Only a refused connection or a 5xx,
\* which are taken to consume nothing, go to the fallback; without one they are
\* an LLMError.
Primary(c, u) ==
    /\ pc[c] = "primary"
    /\ \/ Answered(c, u)
       \/ Failed(c, u)
       \/ Escapes(c, u)
       \/ HasFallback /\ Goto(c, "fallback") /\ UNCHANGED <<charge, used>>
    /\ UNCHANGED <<key, total, counter, today, redisErrors>>

\* call, second half: the fallback alias.
Fallback(c, u) ==
    /\ pc[c] = "fallback"
    /\ Answered(c, u) \/ Failed(c, u) \/ Escapes(c, u)
    /\ UNCHANGED <<key, total, counter, today, redisErrors>>

\* BUG: the key is computed again at the commit.
CommitToday(c, r) ==
    /\ pc[c] = "commit"
    /\ Incrby(today, charge[c] - Expected, r)
    /\ Goto(c, "done")
    /\ UNCHANGED <<key, total, charge, used, today>>

\* BUG: a commit that failed is repeated.
CommitRetries(c, r) ==
    /\ pc[c] = "commit"
    /\ Incrby(key[c], charge[c] - Expected, r)
    /\ Goto(c, IF r = "ok" THEN "done" ELSE "commit")
    /\ UNCHANGED <<key, total, charge, used, today>>

\* commit: INCRBY of the difference on the key of the reservation, no call at
\* all when there is none; an error is only logged.
Commit(c, r) ==
    /\ pc[c] = "commit"
    /\ charge[c] = Expected => r = "ok"
    /\ Incrby(key[c], charge[c] - Expected, r)
    /\ Goto(c, "done")
    /\ UNCHANGED <<key, total, charge, used, today>>

\* The daemon dies with the call under way.
Dies(c) ==
    /\ pc[c] \in {"expire", "rollback", "primary", "fallback", "commit"}
    /\ Goto(c, "dead")
    /\ UNCHANGED <<key, total, charge, used, counter, today, redisErrors>>

\* The date changes (external).
Midnight ==
    /\ today < LastDay
    /\ today' = today + 1
    /\ UNCHANGED <<pc, key, total, charge, used, counter, redisErrors>>

BudgetNext ==
    \/ Midnight
    \/ \E c \in Calls :
        \/ Dies(c)
        \/ \E r \in Reply :
            \/ Reserve(c, r)
            \/ ExpireAndCompare(c, r)
            \/ Rollback(c, r)
            \/ Commit(c, r)
        \/ \E u \in Usage : Primary(c, u) \/ Fallback(c, u)

BudgetSpec == BudgetInit /\ [][BudgetNext]_budgetVars

------------------------------------------------------------------------------
\* The sum of f[c] over the calls of S, as the number of tokens they have
\* together.
Tokens(f, S) == UNION {{c} \X (1..f[c]) : c \in S}
TokenCount(f, S) == Cardinality(Tokens(f, S))

\* What a call must have on the counter of its day.
Share(c) ==
    CASE pc[c] \in {"new", "refused"} -> 0
      [] pc[c] = "done"               -> charge[c]
      [] OTHER                        -> Expected

Sharing(d) == {c \in Calls : key[c] = d}

\* As long as Redis answers, the counter of a day is the sum of what its
\* reserved calls have consumed or still hold in reserve: nothing of a refused
\* call sticks, and a call that ends after midnight settles its own day.
CounterExact ==
    redisErrors = 0 =>
        \A d \in Days : counter[d] = TokenCount([c \in Calls |-> Share(c)], Sharing(d))

\* The part of a call's consumption that its reservation covers.
Covered(c) == IF used[c] < Expected THEN used[c] ELSE Expected

\* As long as Redis answers and usage is reported, the calls of a day consume
\* no more than the cap, not counting what a call consumes beyond its
\* reservation, however many reserve at the same time.
CapHolds ==
    redisErrors = 0 => \A d \in Days : TokenCount([c \in Calls |-> Covered(c)], Sharing(d)) <= Cap

Accepted(d) == {c \in Sharing(d) : pc[c] # "refused"}

\* Whatever Redis calls fail, and wherever the daemon dies, the counter never
\* drops below what the calls whose reservation was accepted have consumed within
\* it.  Not counted are the calls that go on without a reservation because INCRBY
\* failed (BudgetUnavailable): they may leave the counter below the real use.
NeverUndercounts ==
    \A d \in Days : TokenCount([c \in Calls |-> Covered(c)], Accepted(d)) <= counter[d]

------------------------------------------------------------------------------
(***************************************************************************)
(* The inductive invariants behind these properties (see BudgetProofs).    *)
(***************************************************************************)
\* A call consumes nothing before an LLM answers, then commits at least what it
\* consumed within its reservation; only an error lets it go on above the cap
\* or without a key.
Sound(c) ==
    /\ pc[c] = "new" => key[c] = NoKey
    /\ pc[c] \in {"new", "expire", "rollback", "primary", "fallback", "refused"} => used[c] = 0
    /\ pc[c] \in {"commit", "done"} /\ UsageReported => Covered(c) <= charge[c]
    /\ pc[c] \in {"primary", "fallback", "commit"} /\ redisErrors = 0 => total[c] <= Cap
    /\ pc[c] \notin {"new", "dead"} /\ redisErrors = 0 => key[c] # NoKey

CallInv == \A c \in Calls : Sound(c)

\* The most a call will have consumed within its reservation.
Potential(c) ==
    IF pc[c] \in {"expire", "primary", "fallback", "commit"} /\ total[c] <= Cap
    THEN Expected
    ELSE Covered(c)

\* The compare of a call that reserves looks at all that the others may consume.
PotentialInv ==
    redisErrors = 0 => \A d \in Days : TokenCount([c \in Calls |-> Potential(c)], Sharing(d)) <= Cap

\* What a call still has on the counter if its commit, or any other, failed.
Floor(c) == IF pc[c] = "done" /\ charge[c] > Expected THEN Expected ELSE Share(c)

FloorInv ==
    \A d \in Days : TokenCount([c \in Calls |-> Floor(c)], Sharing(d)) <= counter[d]

==============================================================================
