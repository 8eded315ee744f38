------------------------- MODULE SubcontractAccount -------------------------
(***************************************************************************)
(* The account of one subcontractor, as setStatus describes the end of it  *)
(* ("Closing is the account settled"): four pots, between which money      *)
(* moves and never appears or vanishes.  RunningBills, whose statement is  *)
(* summed from bills, releases and payments, implements it.                *)
(***************************************************************************)
EXTENDS Integers

VARIABLES owed,     \* certified or released, and not paid yet
          held,     \* retention kept back
          lent,     \* advance not recovered yet
          spent,    \* everything handed over
          worth,    \* what the certified work has earned, with its tax, less the back-charges
          closed

pots == <<owed, held, lent, spent, worth, closed>>

Init == owed = 0 /\ held = 0 /\ lent = 0 /\ spent = 0 /\ worth = 0 /\ ~closed

Sound == owed >= 0 /\ held >= 0 /\ lent >= 0

(* What a bill earns is owed, kept back, or set against the advance. *)
Certify ==
  /\ ~closed /\ Sound'
  /\ owed' >= owed /\ held' >= held /\ lent' <= lent
  /\ worth' - worth = (owed' - owed) + (held' - held) + (lent - lent')
  /\ UNCHANGED <<spent, closed>>

Release ==
  /\ ~closed /\ Sound'
  /\ held' < held /\ owed' - owed = held - held'
  /\ UNCHANGED <<lent, spent, worth, closed>>

Pay ==
  /\ Sound'
  /\ owed' < owed /\ spent' - spent = owed - owed'
  /\ UNCHANGED <<held, lent, worth, closed>>

Lend ==
  /\ lent' > lent /\ spent' - spent = lent' - lent
  /\ UNCHANGED <<owed, held, worth, closed>>

Close ==
  /\ owed = 0 /\ held = 0 /\ ~closed /\ closed'
  /\ UNCHANGED <<owed, held, lent, spent, worth>>

Next == Certify \/ Release \/ Pay \/ Lend \/ Close

Spec == Init /\ [][Next]_pots

(* What follows: the books balance, and a closed account has nothing left to settle. *)
Balanced == spent + owed + held = worth + lent
Settled == Sound /\ (closed => owed = 0 /\ held = 0)
=============================================================================
