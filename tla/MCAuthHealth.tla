---------------------------- MODULE MCAuthHealth ----------------------------
(* AuthHealth for TLC: one credential with everything that can happen to   *)
(* it.                                                                     *)
EXTENDS AuthHealth

CONSTANTS a1, c1, c2, m1, m2

OneAuth  == {a1}
TwoCreds == {c1, c2}
TwoModels    == {m1, m2}
TwoDeadlines == {2, 3}
=============================================================================
