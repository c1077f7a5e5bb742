-------------------------- MODULE IdentityOutboxMC --------------------------
(* IdentityOutbox for TLC: accounts and workers are interchangeable (not in *)
(* runs that check liveness).                                               *)
EXTENDS IdentityOutbox, TLC

Symmetry == Permutations(Users) \union Permutations(Workers)
=============================================================================
