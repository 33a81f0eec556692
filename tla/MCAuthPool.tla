----------------------------- MODULE MCAuthPool -----------------------------
(* AuthPool with interchangeable callers and a directory that starts with    *)
(* enabled files; any other content comes with an edit.                      *)
EXTENDS AuthPool, TLC

EnabledFiles ==
  [account : Accounts \cup {NoAccount}, token : {1}, disabled : {FALSE}] \cup {Absent}

PoolSymmetry == Permutations(Callers)
=============================================================================
