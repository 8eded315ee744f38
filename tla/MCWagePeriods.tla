--------------------------- MODULE MCWagePeriods ---------------------------
EXTENDS WagePeriods, TLC

CONSTANTS w1, w2, p1, p2, a1, a2, r1, r2

Windows1 == {{1}, {1, 2}}
Windows2 == {{1}}
Interchangeable == Permutations(Workers) \cup Permutations(Periods) \cup Permutations(Advances)
Concurrent == Permutations(Advances) \cup Permutations(Requests)
=============================================================================
