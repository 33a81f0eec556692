-------------------------- MODULE MCSessionAffinity --------------------------
(* SessionAffinity with the auths as interchangeable model values.           *)
EXTENDS SessionAffinity, TLC

AuthSymmetry == Permutations(Auths)
=============================================================================
