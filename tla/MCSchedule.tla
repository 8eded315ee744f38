----------------------------- MODULE MCSchedule -----------------------------
(* An instance of Schedule: three tasks and one write at a time; every type of link, one of them *)
(* with a lag and one with a lead.  PlainKind keeps an instance small in which two writes overlap. *)
EXTENDS Schedule, TLC

CONSTANTS slab, walls, roof, r1, r2

AllKinds == {<<"FS", 0>>, <<"FS", -1>>, <<"SS", 1>>, <<"FF", 0>>, <<"SF", 1>>}
PlainKind == {<<"FS", 0>>}
Alike == Permutations(Filed) \cup Permutations(Requests)
=============================================================================
