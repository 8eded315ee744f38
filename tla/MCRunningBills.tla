--------------------------- MODULE MCRunningBills ---------------------------
(* An instance of RunningBills: one line let, one a variation adds, two sets of price terms, the *)
(* second with a rate that leaves halves to round and a retention that drifts if rounded by bill. *)
EXTENDS RunningBills, TLC

CONSTANTS slab, extra

Plain ==
  [retentionBp |-> 1000, recoveryBp |-> 0, taxBp |-> 0, advance |-> 0,
   quantity |-> slab :> 2000 @@ extra :> 1000, rate |-> slab :> 10 @@ extra :> 5]
Awkward ==
  [retentionBp |-> 1500, recoveryBp |-> 2500, taxBp |-> 1800, advance |-> 3,
   quantity |-> slab :> 2000 @@ extra :> 1000, rate |-> slab :> 7 @@ extra :> 5]
TwoTerms == {Plain, Awkward}
=============================================================================
