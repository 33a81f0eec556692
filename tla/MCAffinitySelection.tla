------------------------- MODULE MCAffinitySelection -------------------------
(* AffinitySelection with interchangeable requests and auths.                *)
EXTENDS AffinitySelection, TLC

SelectionSymmetry == Permutations(Requests) \cup Permutations(Auths)
=============================================================================
