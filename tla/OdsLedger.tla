------------------------------ MODULE OdsLedger ------------------------------
(***************************************************************************)
(* What the ingestion path promises about the ods and quality_events       *)
(* tables: first write wins (ADR-0005).  An order enters the ledger once,  *)
(* by one Raw, together with exactly one initial_evaluation event; nothing *)
(* in the ledger is ever changed or removed.                               *)
(***************************************************************************)
EXTENDS Naturals

CONSTANTS Raws, OrderOf, PayloadOf

VARIABLES ods, verdicts
ledger == <<ods, verdicts>>

Verdict(r) == IF PayloadOf[r] = "dirty" THEN "quarantined" ELSE "clean"

Init ==
    /\ ods = {}
    /\ verdicts = [r \in Raws |-> [v \in {"clean", "quarantined"} |-> 0]]

Record(r) ==
    /\ PayloadOf[r] \in {"clean", "dirty"}
    /\ \A s \in ods : OrderOf[s] # OrderOf[r]
    /\ ods' = ods \cup {r}
    /\ verdicts' = [verdicts EXCEPT ![r][Verdict(r)] = @ + 1]

Next == \E r \in Raws : Record(r)

Spec == Init /\ [][Next]_ledger
=============================================================================
