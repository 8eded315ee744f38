--------------------------- MODULE PurchaseOrder ---------------------------
(***************************************************************************)
(* One purchase order, the indent behind it, and the supplier's invoices   *)
(* for it (PurchaseOrdersService, PurchaseInvoicesService): raised, sent   *)
(* back and edited, approved within somebody's limit, delivered in parts,  *)
(* matched three ways against its invoices, billed into expenses.  Each    *)
(* action is one request, one transaction.  Quantities are whole units;    *)
(* tax, and what a receipt adds to the store, are left out.                *)
(***************************************************************************)
EXTENDS Integers, FiniteSets, Functions, FiniteSetsExt

CONSTANTS Items,         \* what may be ordered
          Rate,          \* the agreed rate of each
          MaxQuantity,   \* bound on a quantity
          Users, Limit,  \* who may approve orders, and up to how much
          Invoices, Bills, \* the supplier's invoice numbers; the quantities one may bill
          Markups,       \* what it may charge above the agreed rate
          Tolerances     \* the settings of the match, in basis points

ASSUME PurchaseOrderAssumption ==
  /\ IsFiniteSet(Items) /\ IsFiniteSet(Invoices)
  /\ Rate \in [Items -> Nat] /\ Limit \in [Users -> Nat] /\ MaxQuantity \in Nat
  /\ Bills \subseteq [Items -> 0..MaxQuantity] /\ Markups \subseteq Nat /\ Tolerances \subseteq Nat

Quantities == [Items -> 0..MaxQuantity]
Nothing == [l \in Items |-> 0]

Binding == {"approved", "sent", "partially_received", "received", "closed"}
Receivable == {"approved", "sent", "partially_received"}

OrderMoves ==
  [draft |-> {"pending_approval", "approved", "cancelled"},
   pending_approval |-> {"approved", "draft", "cancelled"},
   approved |-> {"sent", "cancelled", "closed"}, sent |-> {"cancelled", "closed"},
   partially_received |-> {"closed"}, received |-> {"closed"},
   none |-> {}, closed |-> {}, cancelled |-> {}]

VARIABLES order,       \* its status; none before it is raised
          ordered, received,   \* quantity per line; a line of quantity 0 is not on the order
          total, approver,     \* of the order as stored
          indent,      \* status of the indent behind it
          invoice      \* per number: status, quantities, markup, tolerance, whether the match flagged it

orderVars == <<order, ordered, received, total, approver, indent, invoice>>

NoInvoice == [status |-> "none", quantity |-> Nothing, markup |-> 0, tolerance |-> 0, flagged |-> FALSE]
Nobody == "nobody"

OrderTypeOK ==
  /\ order \in {"none", "draft", "pending_approval", "cancelled"} \cup Binding
  /\ ordered \in Quantities /\ received \in Quantities
  /\ approver \in Users \cup {Nobody}
  /\ indent \in {"approved", "ordered", "received", "rejected"}
  /\ invoice \in [Invoices -> [status : {"none", "matched", "mismatch", "approved", "rejected"},
                               quantity : Bills \cup {Nothing}, markup : Markups \cup {0},
                               tolerance : Tolerances \cup {0}, flagged : BOOLEAN]]

Worth(quantity) == SumFunction([l \in Items |-> quantity[l] * Rate[l]])

OrderInit ==
  /\ order = "none" /\ ordered = Nothing /\ received = Nothing /\ total = 0 /\ approver = Nobody
  /\ indent \in {"approved", "ordered"}
  /\ invoice = [i \in Invoices |-> NoInvoice]

-----------------------------------------------------------------------------
(* Raising it. *)

CreateDraft(quantity) ==
  /\ order = "none" /\ indent \in {"approved", "ordered"}
  /\ order' = "draft" /\ ordered' = quantity /\ total' = Worth(quantity)
  /\ UNCHANGED <<received, approver, indent, invoice>>

UpdateUntilSent(quantity) ==
  /\ order \in {"draft", "approved"}
  /\ ordered' = quantity /\ total' = Worth(quantity)
  /\ UNCHANGED <<order, received, approver, indent, invoice>>

Update(quantity) ==
  /\ order = "draft"
  /\ ordered' = quantity /\ total' = Worth(quantity)
  /\ UNCHANGED <<order, received, approver, indent, invoice>>

(* The order is agreed, and an indent still waiting moves on with it (onApproved). *)
Approved(user) ==
  /\ order' = "approved" /\ approver' = user
  /\ indent' = IF indent = "approved" THEN "ordered" ELSE indent
  /\ UNCHANGED <<ordered, received, total, invoice>>

(* Within the requester's own limit it is approved there and then; somebody who may not approve *)
(* at all is one of no limit.                                                                    *)
Submit(user) ==
  /\ "pending_approval" \in OrderMoves[order]
  /\ \/ user \in Users /\ total <= Limit[user] /\ Approved(user)
     \/ /\ user \in Users => total > Limit[user]
        /\ order' = "pending_approval"
        /\ UNCHANGED <<ordered, received, total, approver, indent, invoice>>

ApproveWithoutIndent(user) ==
  /\ order = "pending_approval"
  /\ total <= Limit[user]
  /\ order' = "approved" /\ approver' = user
  /\ UNCHANGED <<ordered, received, total, indent, invoice>>

Approve(user) ==
  /\ order = "pending_approval"
  /\ total <= Limit[user]
  /\ Approved(user)

Reject ==
  /\ order = "pending_approval"
  /\ order' = "draft" /\ approver' = Nobody
  /\ UNCHANGED <<ordered, received, total, indent, invoice>>

(* Sent, cancelled or closed on request. *)
Move(to) ==
  /\ to \in OrderMoves[order]
  /\ order' = to
  /\ UNCHANGED <<ordered, received, total, approver, indent, invoice>>

-----------------------------------------------------------------------------
(* Goods received. *)

Complete(now) == \A l \in Items : now[l] >= ordered[l]

(* No more than is still to come on each line; the indent behind a complete order is received. *)
Receive(quantity) ==
  LET now == [l \in Items |-> received[l] + quantity[l]]
  IN /\ order \in Receivable /\ quantity # Nothing
     /\ \A l \in Items : quantity[l] <= ordered[l] - received[l]
     /\ received' = now
     /\ order' = IF Complete(now) THEN "received" ELSE "partially_received"
     /\ indent' = IF Complete(now) /\ indent \in {"approved", "ordered"} THEN "received" ELSE indent
     /\ UNCHANGED <<ordered, total, approver, invoice>>

(* The site or the office moves the indent by itself (IndentsService.updateStatus). *)
IndentMoves(to) ==
  /\ \/ indent = "approved" /\ to \in {"ordered", "received", "rejected"}
     \/ indent = "ordered" /\ to = "received"
  /\ indent' = to
  /\ UNCHANGED <<order, ordered, received, total, approver, invoice>>

-----------------------------------------------------------------------------
(* The three-way match (matchInvoice). *)

NotAbove(value, limit, tolerance) == value * 10000 <= limit * (10000 + tolerance)
WithinTolerance(above, target, tolerance) == above * 10000 <= target * tolerance

Billed(l, numbers) == SumFunction([i \in numbers |-> invoice[i].quantity[l]])

(* Billed on every other invoice that still stands, approved or not. *)
BilledElsewhere(i, l) == Billed(l, {j \in Invoices \ {i} : invoice[j].status \notin {"none", "rejected"}})

FlagsEachAlone(i, quantity, markup, tolerance) ==
  \E l \in Items : quantity[l] > 0 /\
    \/ ~NotAbove(quantity[l], ordered[l], tolerance)
    \/ ~NotAbove(quantity[l], received[l], tolerance)
    \/ ~WithinTolerance(markup, Rate[l], tolerance)

FlagsOrderedOnly(i, quantity, markup, tolerance) ==
  \E l \in Items : quantity[l] > 0 /\
    \/ ~NotAbove(BilledElsewhere(i, l) + quantity[l], ordered[l], tolerance)
    \/ ~WithinTolerance(markup, Rate[l], tolerance)

Flags(i, quantity, markup, tolerance) ==
  \E l \in Items : quantity[l] > 0 /\
    \/ ~NotAbove(BilledElsewhere(i, l) + quantity[l], ordered[l], tolerance)
    \/ ~NotAbove(BilledElsewhere(i, l) + quantity[l], received[l], tolerance)
    \/ ~WithinTolerance(markup, Rate[l], tolerance)

Invoiced(i, record) ==
  /\ invoice' = [invoice EXCEPT ![i] = record]
  /\ UNCHANGED <<order, ordered, received, total, approver, indent>>

Record(i, quantity, markup, tolerance) ==
  LET flagged == Flags(i, quantity, markup, tolerance)
  IN /\ order \in Binding /\ invoice[i].status = "none"
     /\ quantity # Nothing /\ \A l \in Items : quantity[l] > 0 => ordered[l] > 0
     /\ Invoiced(i, [status |-> IF flagged THEN "mismatch" ELSE "matched", quantity |-> quantity,
                     markup |-> markup, tolerance |-> tolerance, flagged |-> flagged])

(* Matched again first; a difference that is still there has to be accepted.  The expenses are *)
(* written in the same transaction.                                                            *)
ApproveInvoice(i, accept) ==
  LET flagged == Flags(i, invoice[i].quantity, invoice[i].markup, invoice[i].tolerance)
  IN /\ invoice[i].status \in {"matched", "mismatch"}
     /\ flagged => accept
     /\ Invoiced(i, [invoice[i] EXCEPT !.status = "approved", !.flagged = flagged])

RejectInvoice(i) ==
  /\ invoice[i].status \in {"matched", "mismatch"}
  /\ Invoiced(i, [invoice[i] EXCEPT !.status = "rejected"])

RemoveInvoice(i) ==
  /\ invoice[i].status \in {"matched", "mismatch", "rejected"}
  /\ Invoiced(i, NoInvoice)

OrderNext ==
  \/ \E quantity \in Quantities \ {Nothing} : CreateDraft(quantity) \/ Update(quantity) \/ Receive(quantity)
  \/ \E user \in Users \cup {Nobody} : Submit(user)
  \/ \E user \in Users : Approve(user)
  \/ Reject
  \/ \E to \in {"sent", "cancelled", "closed"} : Move(to)
  \/ \E to \in {"ordered", "received", "rejected"} : IndentMoves(to)
  \/ \E i \in Invoices :
       \/ \E quantity \in Bills, markup \in Markups, tolerance \in Tolerances :
            Record(i, quantity, markup, tolerance)
       \/ \E accept \in BOOLEAN : ApproveInvoice(i, accept)
       \/ RejectInvoice(i) \/ RemoveInvoice(i)

OrderSpec == OrderInit /\ [][OrderNext]_orderVars

-----------------------------------------------------------------------------
(* What the order promises. *)

Approval == {i \in Invoices : invoice[i].status = "approved"}
Unquestioned == {i \in Approval : ~invoice[i].flagged}
LineCharged(i, l) == invoice[i].quantity[l] * (Rate[l] + invoice[i].markup)
Charged(i) == SumFunction([l \in Items |-> LineCharged(i, l)])

(* "A limit that can be ignored by clicking anyway is not a limit": what an order commits, as its *)
(* lines are now, somebody approved whose limit covers it, however often it was sent back before. *)
WithinLimit ==
  order \in Binding =>
    approver \in Users /\ total = Worth(ordered) /\ Worth(ordered) <= Limit[approver]

(* An order goods came against is not cancelled, none brings more than was ordered, and one that *)
(* is complete says so, until it is closed; so does the indent behind it, and nobody finds that  *)
(* indent still waiting to be ordered.                                                            *)
WhatCameFits ==
  /\ \A l \in Items : received[l] <= ordered[l]
  /\ order \in {"none", "draft", "pending_approval", "cancelled", "approved", "sent"} => received = Nothing
  /\ order = "received" => Complete(received) /\ indent \in {"received", "rejected"}
  /\ order = "partially_received" => ~Complete(received)
  /\ order \in Binding => indent # "approved"

(* Nobody pays for goods that did not come: the invoices approved without a question bill, of each *)
(* line, no more than was signed for, with the widest of their tolerances.                         *)
PaidForWhatCame ==
  Unquestioned # {} =>
    LET widest == Max({invoice[i].tolerance : i \in Unquestioned})
    IN \A l \in Items :
         NotAbove(Billed(l, Unquestioned), received[l], widest)

(* The order in the cost report: what it still promises, and what its invoices have become. *)
LineOutstanding(l) ==
  LET promised == Rate[l] * (IF order = "closed" THEN received[l] ELSE ordered[l])
      charged == SumFunction([i \in Approval |-> LineCharged(i, l)])
  IN IF promised > charged THEN promised - charged ELSE 0
Outstanding == IF order \notin Binding THEN 0 ELSE SumFunction([l \in Items |-> LineOutstanding(l)])
Expensed == SumFunction([i \in Approval |-> Charged(i)])

(* "Never counted in both, never in neither": as long as no difference was accepted or tolerated, *)
(* the two add up to the value of the order, or, once it is closed, of what came.                 *)
MoneyInOnePlace ==
  order \in Binding /\ (\A i \in Approval : i \in Unquestioned /\ invoice[i].tolerance = 0) =>
    Outstanding + Expensed = Worth(IF order = "closed" THEN received ELSE ordered)
=============================================================================
