----------------------------- MODULE MCIngestion -----------------------------
(***************************************************************************)
(* Instances of Ingestion for TLC: which Raws carry which order and which  *)
(* payload, and which faults the environment may inject.                   *)
(***************************************************************************)
EXTENDS Ingestion, TLC

Symmetry == Permutations(Workers) \cup Permutations(Scans)

NoFaults == [f \in Faults |-> 0]
Once(S) == [f \in Faults |-> IF f \in S THEN 1 ELSE 0]

\* One Raw: its payload lands, or cannot.
OneRaw == {1}
OneOrder == [r \in OneRaw |-> "o1"]
OneClean == [r \in OneRaw |-> "clean"]

\* Two Raws of two orders: one the database refuses on every attempt.
TwoRaws == 1..2
OwnOrder == [r \in TwoRaws |-> IF r = 1 THEN "o1" ELSE "o2"]
OnePoison == [r \in TwoRaws |-> IF r = 1 THEN "unstorable" ELSE "dirty"]

\* Three Raws of the same order: one the database cannot store, and two that can
\* be told apart by their verdicts.
ThreeRaws == 1..3
SameOrder == [r \in ThreeRaws |-> "o1"]
OneUnstorable == [r \in ThreeRaws |-> IF r = 1 THEN "unstorable" ELSE IF r = 2 THEN "clean" ELSE "dirty"]

\* Budgets: each named fault once.
ClaimFaults == Once({"lostAck", "slowWorker"})
LockFaults == Once({"slowWorker", "lockError", "lockExpiry"})
ExclusiveFaults == Once({"dbError", "crash", "procError", "replay", "loseQueue", "publish", "redeliver"})
LockBudgets == {ClaimFaults, LockFaults, ExclusiveFaults}
RaceBudgets == {Once({"lostAck", "redeliver", "procError"})}
LiveBudgets == {Once({f}) : f \in {"crash", "lostAck", "procError", "dbError"}}
LockErrorBudgets == {Once({"crash", "lockError"})}
ReplayBudgets == {[NoFaults EXCEPT !["procError"] = 1, !["replay"] = 2]}
=============================================================================
