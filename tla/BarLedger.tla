------------------------------ MODULE BarLedger ------------------------------
(***************************************************************************)
(* What the bar cache promises its readers about one series: a ledger of   *)
(* closed bars that only grows, by windows that reach its newest bar or go *)
(* beyond it, and whose last entry is always known.                        *)
(***************************************************************************)
EXTENDS Integers

VARIABLES
    clock,    \* the bar that is forming
    stored,   \* times of the bars in the ledger
    last      \* the newest of them, -1 while it is empty

Init == clock = 0 /\ stored = {} /\ last = -1

Pass == clock' = clock + 1 /\ UNCHANGED <<stored, last>>

\* A window of closed bars is added, or rewritten where it was there before.
Publish ==
    \E newest \in 0..clock - 1 : \E first \in 0..newest :
        /\ newest >= last
        /\ stored' = stored \cup first..newest
        /\ last' = newest
        /\ UNCHANGED clock

Next == Pass \/ Publish

Spec == Init /\ [][Next]_<<clock, stored, last>>
=============================================================================
