------------------------------- MODULE MCResult --------------------------------
EXTENDS ResultApi

\* All requests carry the same key, as retries of one client do.
SameKey == [j \in Jobs |-> CHOOSE k \in Keys : TRUE]

==============================================================================
