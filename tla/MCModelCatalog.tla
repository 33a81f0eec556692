--------------------------- MODULE MCModelCatalog ---------------------------
(* ModelCatalog with interchangeable versions, auths, callers, tasks and     *)
(* entries.  A new entry and a new task are chosen among those that nothing  *)
(* refers to, so that any choice leads to the same states up to symmetry.    *)
EXTENDS ModelCatalog

CatalogSymmetry ==
  Permutations(Versions) \cup Permutations(Auths) \cup Permutations(Callers)
    \cup Permutations(Tasks) \cup Permutations(Entries)
=============================================================================
