------------------------------- MODULE MCSlot -------------------------------
(***************************************************************************)
(* The instance of SeedSlot for TLC, in units of 15 s and of 12 orders.    *)
(***************************************************************************)
EXTENDS SeedSlot

\* 429 at 0, 2, 6, 14 and 30 s, given up after 60 s: at two instants of the clock.
TwoSleeps == [k \in 0..2 |-> 2 * k]

Nothing == [k \in Kinds |-> 0]
SlotBudgets ==
    {[Nothing EXCEPT !["slow"] = 84],
     [Nothing EXCEPT !["slow"] = 4, !["lost"] = 2],
     [Nothing EXCEPT !["rival"] = 4, !["refused"] = 1],
     [Nothing EXCEPT !["missed"] = 3, !["lost"] = 1]}

\* The hypotheses of the theorems about the batch hold of this instance.
ASSUME SlotIsSchedulable == LimitKeepsPace /\ WatchComesLate
=============================================================================
