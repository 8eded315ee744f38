-------------------------- MODULE MCChangeOrders ---------------------------
(* An instance of ChangeOrders: two orders over two cost codes, an addition to both and a credit *)
(* that is more than one of them has left, and two requests at a time.                            *)
EXTENDS ChangeOrders, TLC

CONSTANTS o1, o2, a1, a2, r1, r2

AddedAndCredited == {[lines |-> <<1, 1>>, price |-> 2], [lines |-> <<-2, 0>>, price |-> 1], [lines |-> <<0, 1>>, price |-> 1]}
Interchangeable == Permutations(Orders) \cup Permutations(Approvals) \cup Permutations(Requests)
WithoutLocks == {"submit", "return", "implement", "cancel", "decide"}
=============================================================================
