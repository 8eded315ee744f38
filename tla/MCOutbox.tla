------------------------------ MODULE MCOutbox ------------------------------
(* An instance of Outbox: the roll calls are 1 and its correction 2; the post is an *)
(* indent.                                                                            *)
EXTENDS Outbox

CONSTANT indent

TwoRollCalls == {1, 2}
=============================================================================
