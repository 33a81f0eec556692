----------------------------- MODULE MCUserStore -----------------------------
(* UserStore with interchangeable requests, users and names.                 *)
EXTENDS UserStore, TLC

UserSymmetry == Permutations(Requests) \cup Permutations(Users) \cup Permutations(Names)
=============================================================================
