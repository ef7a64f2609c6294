---------------------------- MODULE RawLifecycle ----------------------------
(***************************************************************************)
(* raw.status as docs/en/design/ingestion.md draws it: pending,            *)
(* processing, then one of three terminal states; stale processing falls   *)
(* back to pending; error and duplicate, but never processed, are replayed.*)
(* One transaction may move several rows (the reset of a page).            *)
(***************************************************************************)
CONSTANT Raws

VARIABLE status

Arrows == {<<"absent", "pending">>,
           <<"pending", "processing">>,
           <<"processing", "processed">>,
           <<"processing", "error">>,
           <<"processing", "duplicate">>,
           <<"processing", "pending">>,
           <<"error", "pending">>,
           <<"duplicate", "pending">>}

States == {"absent", "pending", "processing", "processed", "error", "duplicate"}

Init == status = [r \in Raws |-> "absent"]

Next ==
    /\ status' \in [Raws -> States]
    /\ \A r \in Raws :
         status'[r] # status[r] => <<status[r], status'[r]>> \in Arrows

Spec == Init /\ [][Next]_status
=============================================================================
