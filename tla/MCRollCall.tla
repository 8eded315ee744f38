----------------------------- MODULE MCRollCall -----------------------------
EXTENDS RollCall, TLC

CONSTANTS s1, s2, s3, w1, w2, r1, r2

Interchangeable == Permutations(Sites) \cup Permutations(Workers)
Concurrent == Interchangeable \cup Permutations(Requests)
=============================================================================
