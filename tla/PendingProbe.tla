---------------------------- MODULE PendingProbe ----------------------------
(***************************************************************************)
(* The timing of the self-healing path and of the probe that watches it:   *)
(* check_raw_pending.py raises an alarm when a Raw row has been pending    *)
(* for longer than a threshold derived from the recovery path's own        *)
(* periods.  One row is followed from its commit; time is discrete, and    *)
(* every step the code takes at once happens before the next tick.  The    *)
(* faults on the way are those the probe's documentation names.            *)
(***************************************************************************)
EXTENDS Integers

CONSTANTS
    Grace,     \* PENDING_GRACE_SECONDS
    Stale,     \* STALE_PROCESSING_MINUTES
    Interval,  \* scan_interval_seconds
    Margin,    \* SAFETY_MARGIN_SECONDS
    Faults     \* BOUND: faults the row meets on its way

ASSUME ProbeAssumption ==
    /\ {Grace, Stale, Interval, Margin, Faults} \subseteq Nat
    /\ Interval > 0

VARIABLES
    outage,    \* broker, workers or Beat are down, and stay down
    status,    \* raw.status; "absent" before the commit
    age,       \* now - received_at
    running,   \* now - processing_started_at
    queued,    \* a message for the row is in the broker
    dead,      \* the worker that claimed it died
    nextScan,  \* time to the next Beat tick
    faults     \* faults still to come

rowVars == <<outage, status, age, running, queued, dead, nextScan, faults>>

Larger(a, b) == IF a > b THEN a ELSE b

\* Mutant of DerivedThreshold: the stale path is forgotten.
DispatchThreshold == Grace + Interval + Margin

\* derive_threshold_seconds.
DerivedThreshold == Larger(Grace + Interval, Stale + Interval) + Margin

\* Mutant of OverThreshold: rows that a worker has are counted with the waiting ones.
OverThresholdUnfinished == status \in {"pending", "processing"} /\ age > DerivedThreshold

\* inspect_pending, and so exit code 1.
OverThreshold == status = "pending" /\ age > DerivedThreshold

\* A fault, or none.
MayFail(bad, good) ==
    \/ faults > 0 /\ bad /\ faults' = faults - 1
    \/ good /\ UNCHANGED faults

RowInit ==
    /\ outage \in BOOLEAN
    /\ status = "absent"
    /\ age = 0 /\ running = 0
    /\ queued = FALSE /\ dead = FALSE
    /\ nextScan = Interval
    /\ faults = Faults

\* The row is committed at any phase of Beat's cycle; _enqueue may fail.
Land ==
    /\ status = "absent"
    /\ status' = "pending"
    /\ nextScan' \in 1..Interval
    /\ IF outage
       THEN UNCHANGED <<queued, faults>>
       ELSE MayFail(queued' = FALSE, queued' = TRUE)
    /\ UNCHANGED <<outage, age, running, dead>>

Claim ==
    /\ queued
    /\ queued' = FALSE
    /\ IF status = "pending"
       THEN status' = "processing" /\ running' = 0
       ELSE UNCHANGED <<status, running>>
    /\ MayFail(dead' = TRUE, dead' = FALSE)
    /\ UNCHANGED <<outage, age, nextScan>>

\* A live worker reaches a terminal status before it is taken for dead.
Settle ==
    /\ status = "processing" /\ ~dead
    /\ status' = "settled"
    /\ UNCHANGED <<outage, age, running, queued, dead, nextScan, faults>>

\* scan_and_recover and its dispatch; the reset leaves received_at alone.
Scan ==
    /\ nextScan = 0
    /\ nextScan' = Interval
    /\ LET reset == status = "processing" /\ running > Stale
           found == (status = "pending" \/ reset) /\ age > Grace /\ ~outage
       IN  /\ status' = IF reset THEN "pending" ELSE status
           /\ queued' = (queued \/ found)
    /\ UNCHANGED <<outage, age, running, dead, faults>>

RowStep == Claim \/ Settle \/ Scan

\* Nothing about the row is due before the clock moves on.
RowRests ==
    /\ ~queued
    /\ nextScan > 0
    /\ (status = "processing" /\ ~dead) => running < Stale

\* A row that is settled is followed no further.
Followed == status \in {"pending", "processing"}

\* Mutant of RowTick: Beat may be late.
RowTickPastScan ==
    /\ ~queued
    /\ (status = "processing" /\ ~dead) => running < Stale
    /\ age' = IF Followed THEN age + 1 ELSE age
    /\ running' = IF status = "processing" THEN running + 1 ELSE running
    /\ nextScan' = IF Followed THEN nextScan - 1 ELSE nextScan
    /\ UNCHANGED <<outage, status, queued, dead, faults>>

RowTick ==
    /\ RowRests
    /\ age' = IF Followed THEN age + 1 ELSE age
    /\ running' = IF status = "processing" THEN running + 1 ELSE running
    /\ nextScan' = IF Followed THEN nextScan - 1 ELSE nextScan
    /\ UNCHANGED <<outage, status, queued, dead, faults>>
-----------------------------------------------------------------------------
RowTypeOK ==
    /\ outage \in BOOLEAN
    /\ status \in {"absent", "pending", "processing", "settled"}
    /\ age \in Nat /\ running \in Nat
    /\ queued \in BOOLEAN /\ dead \in BOOLEAN
    /\ nextScan \in 0..Interval
    /\ faults \in 0..Faults
=============================================================================
