---------------------------- MODULE MCClassification ----------------------------
\* Two racing requests of two actors; inputs that can be classified, that lack
\* context and that are too large.
EXTENDS Classification, TLC

CONSTANTS r1, r2, a1, a2, c1, full, empty, huge

RequestSymmetry == Permutations(Requests) \cup Permutations(Actors)
=================================================================================
