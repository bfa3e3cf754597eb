---------------------------- MODULE MCMembership ----------------------------
(* A small instance of Membership: one address with two spellings. *)
EXTENDS Membership, TLC

Lower == [e \in Spellings |-> IF e = "Ada@x" THEN "ada@x" ELSE e]

Symmetry ==
    Permutations(Users) \cup Permutations(Organizations) \cup Permutations(Slugs)
    \cup Permutations(Requests)
=============================================================================
