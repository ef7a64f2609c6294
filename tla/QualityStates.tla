--------------------------- MODULE QualityStates ---------------------------
(***************************************************************************)
(* The quality state of every row, as design/data-quality.md draws it:     *)
(* judged once at ingestion, promoted and quarantined again by new rules,  *)
(* permanently_rejected by a human and then final.  A re-evaluation moves  *)
(* several rows in one step.                                               *)
(***************************************************************************)
CONSTANT Raws

VARIABLE state

Edges == {<<"none", "clean">>,
          <<"none", "quarantined">>,
          <<"quarantined", "promoted">>,
          <<"promoted", "re_quarantined">>,
          <<"re_quarantined", "promoted">>,
          <<"quarantined", "permanently_rejected">>,
          <<"re_quarantined", "permanently_rejected">>}

Init == state = [r \in Raws |-> "none"]

Next ==
    /\ DOMAIN state' = Raws
    /\ \A r \in Raws : state'[r] # state[r] => <<state[r], state'[r]>> \in Edges

Spec == Init /\ [][Next]_state
=============================================================================
