--------------------------- MODULE SigningKeysMC ---------------------------
(* SigningKeys for TLC: replicas are interchangeable, and so are requests.  *)
EXTENDS SigningKeys, TLC

Symmetry == Permutations(Replicas) \union Permutations(Requests)
=============================================================================
