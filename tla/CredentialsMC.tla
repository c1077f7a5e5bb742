---------------------------- MODULE CredentialsMC ----------------------------
(* Credentials for TLC: the requests are interchangeable.                    *)
EXTENDS Credentials, TLC

ProcSymmetry == Permutations(Procs)
=============================================================================
