--------------------------------- MODULE MCTeam ---------------------------------
EXTENDS Team, TLC

\* The triage LLM names a valid area and a valid kind.
CompleteAnswers ==
    {[labels |-> {a, "kind/bug"}, ready |-> y, missing |-> ~y] : a \in Area, y \in BOOLEAN}

\* The issue is ready; the kind of the answer may be invalid.
ReadyAnswers ==
    {[labels |-> {"area/api"} \cup k, ready |-> TRUE, missing |-> FALSE] : k \in SUBSET Kind}

Symmetry == Permutations(Beats)
==============================================================================
