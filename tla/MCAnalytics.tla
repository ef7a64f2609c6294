---------------------------- MODULE MCAnalytics ----------------------------
(***************************************************************************)
(* Instances of Analytics for TLC.                                         *)
(***************************************************************************)
EXTENDS Analytics

NoEvents == [b \in Budgeted |-> 0]

OneRow == {1}
TwoRows == {1, 2}
Strict == [r \in OneRow |-> "strictOnly"]
StrictAndClean == [r \in TwoRows |-> IF r = 1 THEN "strictOnly" ELSE "clean"]
StrictAndNormalised == [r \in TwoRows |-> IF r = 1 THEN "strictOnly" ELSE "normalised"]

QualityBudgets ==
    {[NoEvents EXCEPT !["deploy"] = 2, !["reevaluate"] = 2],
     [NoEvents EXCEPT !["deploy"] = 1, !["reevaluate"] = 1, !["reject"] = 1, !["jobFails"] = 1]}
WindowBudgets == {[NoEvents EXCEPT !["runFails"] = 1, !["late"] = 1]}
RejectBudgets == {[NoEvents EXCEPT !["deploy"] = 1, !["reject"] = 1, !["reevaluate"] = 1]}
DoubleBudgets == {[NoEvents EXCEPT !["deploy"] = 2, !["reevaluate"] = 2, !["runFails"] = 1]}
=============================================================================
