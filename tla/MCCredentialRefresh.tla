------------------------ MODULE MCCredentialRefresh ------------------------
(* A small instance of CredentialRefresh: two calls for one credential,    *)
(* around which everything may happen, where the second may also be for    *)
(* another credential, which shares the lock with the first.               *)
EXTENDS CredentialRefresh

CONSTANTS c1, c2, a1, a2

MCAsks ==
  {<<c1, a1, "prepare">>, <<c1, a1, "force">>, <<c2, a1, "repair">>,
   <<c2, a2, "repair">>}
=============================================================================
