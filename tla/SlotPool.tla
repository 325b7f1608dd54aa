------------------------------- MODULE SlotPool --------------------------------
(***************************************************************************)
(* What the scheduler promises about the backend, without Redis, leases or *)
(* processes: the backend works on at most Capacity pieces of work at a    *)
(* time, and on one more for every slot that was overbooked, and never     *)
(* gets the same piece of work twice.                                      *)
(***************************************************************************)
EXTENDS Integers, FiniteSets

CONSTANTS
    Work,      \* pieces of work
    Capacity   \* how many the backend may have at a time

VARIABLES
    running,   \* work the backend has
    started,   \* work the backend has or had
    extra      \* slots that were overbooked so far

Init == running = {} /\ started = {} /\ extra = 0

Start(w) ==
    /\ w \notin started
    /\ Cardinality(running) < Capacity + extra
    /\ running' = running \cup {w}
    /\ started' = started \cup {w}
    /\ UNCHANGED extra

Finish(w) ==
    /\ w \in running
    /\ running' = running \ {w}
    /\ UNCHANGED <<started, extra>>

\* Slots are given away while their work goes on.
Overbook ==
    /\ extra' \in Nat
    /\ extra' > extra
    /\ UNCHANGED <<running, started>>

Next == Overbook \/ \E w \in Work : Start(w) \/ Finish(w)

Spec == Init /\ [][Next]_<<running, started, extra>>
==============================================================================
