----------------------------- MODULE SessionsMC -----------------------------
(* Sessions for TLC: the requests are interchangeable. *)
EXTENDS Sessions, TLC

ProcSymmetry == Permutations(Procs)
=============================================================================
