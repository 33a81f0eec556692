-------------------------- MODULE MCUsageAccounting --------------------------
(* A small instance of UsageAccounting.                                      *)
EXTENDS UsageAccounting

CONSTANTS m1, m2, b1, b2

(* A request that names its model and must not be counted, one that names    *)
(* nothing, and a message that asks for no response and names some setting.  *)
TheCreates == {<<m2, FALSE, TRUE>>, <<NoModel, FALSE, FALSE>>}
TheControls == {<<NoModel, TRUE, FALSE>>}

(* The bridge, whose records reach the table one after another, or two       *)
(* bodies, whose records race.                                               *)
TheTogether == {{"bridge"}, {b1, b2}}
=============================================================================
