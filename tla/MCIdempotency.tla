---------------------------- MODULE MCIdempotency ----------------------------
(* An instance of Idempotency: four calls under one key, for two different requests. *)
EXTENDS Idempotency, TLC

CONSTANTS a1, a2, a3, a4, expense, otherExpense

Symmetry == Permutations({a1, a2, a3, a4}) \cup Permutations({expense, otherExpense})
=============================================================================
