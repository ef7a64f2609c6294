------------------------------ MODULE SeedSlot ------------------------------
(***************************************************************************)
(* A seeding slot: the batch is sent, its rows go through the dispatch and *)
(* its recovery, the script judges its own batch, and raw_pending_watch    *)
(* looks at raw a fixed time after the start of the slot.                  *)
(***************************************************************************)
EXTENDS Seeder

CONSTANT CheckOffset  \* CHECK_OFFSET_MINUTES; nothing later is looked at

ASSUME SlotAssumption == CheckOffset \in Nat

vars == <<rowVars, seederVars>>

Init == RowInit /\ SeederInit

\* Both clocks are the same one; it stops when neither the script nor the row
\* goes on.
Tick ==
    /\ elapsed < CheckOffset
    /\ Running \/ Followed
    /\ RowTick /\ SeederTick

Next ==
    \/ SeederStep \/ RivalPosts
    \/ RowStep /\ UNCHANGED seederVars
    \/ Tick

Spec == Init /\ [][Next]_vars
-----------------------------------------------------------------------------
(* What the numbers of a deployment should satisfy: hypotheses of the      *)
(* theorems about the batch, and true of the instance that TLC checks.     *)

\* A window that has filled up, and the sleep after a 429 that outlasts it, take no
\* longer than the pace takes for as many orders: the limit does not slow the batch
\* down.  The last sleep of an order is an exception, as it is given up after it.
LimitKeepsPace ==
    /\ Window <= Limit * Pace
    /\ \A k \in 1..(MaxRetries - 1) : Window + Slept[k] - Slept[k - 1] <= Limit * Pace + 1

LastSleep == Slept[MaxRetries] - Slept[MaxRetries - 1]

\* How far an order that is given up sets the batch back.
SetBack == Larger(0, Window + LastSleep - 1 - Limit * Pace)

\* A row that lands as late as rivals, a stall of a window and orders given up may make
\* it, is over the threshold by the time of the check, if nobody takes it.
WatchComesLate ==
    \A landed \in 0..CheckOffset, given \in 0..Orders, n \in {0} \cup {b["rival"] : b \in Budgets} :
        /\ given * Slept[MaxRetries] <= landed
        /\ landed <= (FollowedOrder - 1 + n) * Pace + Larger(0, Window - Pace) + given * SetBack
        => landed + DerivedThreshold < CheckOffset

-----------------------------------------------------------------------------
\* Every variable has its type.
TypeOK == RowTypeOK /\ SeederTypeOK

\* The recovery path is what the threshold measures: with a single fault the row
\* is claimed again within it, so that a pending row past it means an outage.
HealedInTime ==
    status = "pending" /\ ~outage => age <= DerivedThreshold - Margin

\* Ticks that slow and lost answers have held up the batch.
Stall == mishaps["slow"] + Patience * mishaps["lost"]

\* raw_pending_watch: by the time of the check the verdict is binary: a row of the
\* batch is over the threshold exactly if the dispatch path is down.  The offset,
\* the length of a batch and the three periods of the recovery decide it.  A batch
\* that was held up for long may land too late for its outage to be seen.
WatchIsBinary ==
    elapsed = CheckOffset /\ status # "absent" =>
        /\ OverThreshold => outage
        /\ outage /\ Stall <= Window => OverThreshold

\* Neither lost answers nor 429s put more rows into raw than the slot has orders.
SlotIsNotDoubled == raws <= Orders

\* A slot whose rows nobody processes is not green, although every POST was
\* answered with "pending".
OutageIsRed == outage => phase # "green"

\* The pace stays under the limit: without another sender only a batch that was
\* held up for long gives up orders.  What it catches up with must fill the limit so
\* early in a window that all attempts of an order fit into the rest of it.
OnlyStallsDropOrders ==
    dropped > 0 => \/ mishaps["rival"] > 0
                   \/ Stall + Window > (Limit + 1) * Pace + Slept[MaxRetries - 1]
=============================================================================
