-------------------------- MODULE MCSupervisedApply --------------------------
(* SupervisedApply with two plans of one intent, and a second intent that  *)
(* asks for nothing.                                                       *)
EXTENDS SupervisedApply

CONSTANTS mash, boil, heat, pump, c1, c2

OneConfirm == {c1}
TwoConfirms == {c1, c2}
TwoIntents == {mash, boil}
TwoActions == {heat, pump}
TwoPlans   == {<<mash, heat>>, <<mash, pump>>}
TwoTargets == {18, 20}
=============================================================================
