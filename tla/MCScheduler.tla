----------------------------- MODULE MCScheduler -------------------------------
EXTENDS Scheduler, TLC

\* No request carries an idempotency key.
WithoutKeys == [j \in Jobs |-> NoKey]

\* All requests carry the same key, as retries of one client do.
SameKey == [j \in Jobs |-> CHOOSE k \in Keys : TRUE]

\* Requests that differ in nothing, and processes, are interchangeable.
Symmetry == Permutations(Jobs) \cup Permutations(Instances)

==============================================================================
