----------------------------- MODULE MCRelease -----------------------------
(* A small instance of Release: a few runs of commits with two migration heads. *)
EXTENDS Release, TLC

CONSTANTS d1, d2

Heads == (d1 :> 1) @@ (d2 :> 2)

Symmetry == Permutations(RunIds)
=============================================================================
