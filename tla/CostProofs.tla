----------------------------- MODULE CostProofs ------------------------------
(***************************************************************************)
(* What is promised and what has become cost, the two sources of the cost   *)
(* report, for any number of lines, invoices and bills.                     *)
(*                                                                          *)
(* The purchase order: what it commits was approved by somebody whose limit *)
(* covers it (CommittedWithinLimit), as the stored total is that of the     *)
(* stored lines whatever its status; deliveries fit the order and the indent *)
(* (DeliveriesFit); what is approved without a question was delivered       *)
(* (PaidOnlyForWhatCame, by PaidInv: the rate billed is within tolerance    *)
(* too); and no unit is counted twice or not at all (EachUnitOnce).         *)
(*                                                                          *)
(* The subcontract: figures that add up to those worked out once            *)
(* (RoundingNeverDrifts), a promise and a cost that together are the        *)
(* contract less the back-charges (TheTwoAreTheContract: what the report    *)
(* books of a bill stays its gross), certified bills that stay              *)
(* (CertifiedIsFrozen), and the statement as an account of four pots        *)
(* (StatementIsAnAccount).  They rest on BillsInv: each bill states no less *)
(* than those before it, and what the settled bills add up to is what the   *)
(* last of them says to date.                                               *)
(***************************************************************************)
EXTENDS PurchaseOrder, RunningBills, Sums, SequenceTheorems, TLAPS

(* The purchase order. *)

InvoiceRecord ==
  [status : {"none", "matched", "mismatch", "approved", "rejected"},
   quantity : Bills \cup {Nothing}, markup : Markups \cup {0},
   tolerance : Tolerances \cup {0}, flagged : BOOLEAN]

(* What an invoice handler writes is an invoice, and nothing of the order. *)
LEMMA InvoicedTypes ==
  ASSUME OrderTypeOK, NEW i \in Invoices, NEW record \in InvoiceRecord, Invoiced(i, record)
  PROVE  OrderTypeOK'
<1>1. invoice' \in [Invoices -> InvoiceRecord]
  BY DEF Invoiced, OrderTypeOK, InvoiceRecord
<1> QED BY <1>1 DEF Invoiced, OrderTypeOK, InvoiceRecord

LEMMA FlagsIsBoolean ==
  ASSUME NEW i, NEW quantity, NEW markup, NEW tolerance
  PROVE  Flags(i, quantity, markup, tolerance) \in BOOLEAN
BY DEF Flags

(* An invoice handler leaves the order as it is. *)
LEMMA InvoicesKeepTypes ==
  ASSUME OrderTypeOK, NEW i \in Invoices,
         \/ \E quantity \in Bills, markup \in Markups, tolerance \in Tolerances : Record(i, quantity, markup, tolerance)
         \/ \E accept \in BOOLEAN : ApproveInvoice(i, accept)
         \/ RejectInvoice(i) \/ RemoveInvoice(i)
  PROVE  OrderTypeOK' /\ UNCHANGED <<order, ordered, received, total, approver, indent>>
<1> invoice[i] \in InvoiceRecord
  BY DEF OrderTypeOK, InvoiceRecord
<1>1. ASSUME NEW quantity \in Bills, NEW markup \in Markups, NEW tolerance \in Tolerances,
             Record(i, quantity, markup, tolerance)
      PROVE  \E record \in InvoiceRecord : Invoiced(i, record)
  <2> DEFINE flagged == Flags(i, quantity, markup, tolerance)
             record == [status |-> IF flagged THEN "mismatch" ELSE "matched", quantity |-> quantity,
                        markup |-> markup, tolerance |-> tolerance, flagged |-> flagged]
  <2>1. flagged \in BOOLEAN
    BY FlagsIsBoolean
  <2>2. record \in InvoiceRecord
    <3> HIDE DEF flagged
    <3> QED BY <2>1 DEF InvoiceRecord
  <2> QED BY <1>1, <2>2 DEF Record
<1>2. ASSUME NEW accept \in BOOLEAN, ApproveInvoice(i, accept)
      PROVE  \E record \in InvoiceRecord : Invoiced(i, record)
  <2> DEFINE flagged == Flags(i, invoice[i].quantity, invoice[i].markup, invoice[i].tolerance)
             record == [invoice[i] EXCEPT !.status = "approved", !.flagged = flagged]
  <2>1. flagged \in BOOLEAN
    BY FlagsIsBoolean
  <2>2. record \in InvoiceRecord
    <3> HIDE DEF flagged
    <3> QED BY <2>1 DEF InvoiceRecord
  <2> QED BY <1>2, <2>2 DEF ApproveInvoice
<1>3. ASSUME RejectInvoice(i) PROVE \E record \in InvoiceRecord : Invoiced(i, record)
  <2>1. [invoice[i] EXCEPT !.status = "rejected"] \in InvoiceRecord
    BY DEF InvoiceRecord
  <2> QED BY <1>3, <2>1 DEF RejectInvoice
<1>4. ASSUME RemoveInvoice(i) PROVE \E record \in InvoiceRecord : Invoiced(i, record)
  <2>1. NoInvoice \in InvoiceRecord
    BY DEF NoInvoice, InvoiceRecord
  <2> QED BY <1>4, <2>1 DEF RemoveInvoice
<1>5. PICK record \in InvoiceRecord : Invoiced(i, record)
  BY <1>1, <1>2, <1>3, <1>4
<1> QED BY <1>5, InvoicedTypes DEF Invoiced

LEMMA NothingIsQuantity == Nothing \in Quantities
BY PurchaseOrderAssumption DEF Nothing, Quantities

LEMMA ReceiveTypes ==
  ASSUME OrderTypeOK, NEW quantity \in Quantities, Receive(quantity)
  PROVE  /\ OrderTypeOK' /\ order' \in {"partially_received", "received"}
         /\ \A l \in Items : received'[l] <= ordered[l]
         /\ order' = "received" <=> Complete(received')
<1>1. \A l \in Items : /\ received[l] \in Nat /\ quantity[l] \in Nat /\ ordered[l] \in 0..MaxQuantity
                       /\ received[l] + quantity[l] <= ordered[l]
  BY PurchaseOrderAssumption DEF Receive, OrderTypeOK, Quantities
<1>2. received' = [l \in Items |-> received[l] + quantity[l]]
  BY DEF Receive
<1>3. \A l \in Items : received'[l] \in 0..MaxQuantity /\ received'[l] <= ordered[l]
  BY <1>1, <1>2, PurchaseOrderAssumption
<1>4. received' \in Quantities
  BY <1>2, <1>3 DEF Quantities
<1>5. order' = (IF Complete(received') THEN "received" ELSE "partially_received")
  BY <1>2 DEF Receive
<1>6. indent' \in {"approved", "ordered", "received", "rejected"}
  BY DEF Receive, OrderTypeOK
<1>7. order' \in {"none", "draft", "pending_approval", "cancelled"} \cup Binding
  BY <1>5 DEF Binding
<1>8. OrderTypeOK'
  BY <1>4, <1>6, <1>7 DEF Receive, OrderTypeOK
<1> QED BY <1>3, <1>5, <1>8

LEMMA TypeStep == OrderTypeOK /\ [OrderNext]_orderVars => OrderTypeOK'
<1> SUFFICES ASSUME OrderTypeOK, [OrderNext]_orderVars PROVE OrderTypeOK'
  OBVIOUS
<1>1. ASSUME NEW quantity \in Quantities, CreateDraft(quantity) \/ Update(quantity) PROVE OrderTypeOK'
  BY <1>1 DEF CreateDraft, Update, OrderTypeOK
<1>2. ASSUME NEW quantity \in Quantities, Receive(quantity) PROVE OrderTypeOK'
  BY <1>2, ReceiveTypes
<1>3. ASSUME NEW user, Submit(user) PROVE OrderTypeOK'
  BY <1>3 DEF Submit, Approved, Binding, OrderTypeOK
<1>4. ASSUME NEW user \in Users, Approve(user) PROVE OrderTypeOK'
  BY <1>4 DEF Approve, Approved, Binding, OrderTypeOK
<1>5. CASE Reject
  BY <1>5 DEF Reject, OrderTypeOK
<1>6. ASSUME NEW to \in {"sent", "cancelled", "closed"}, Move(to) PROVE OrderTypeOK'
  BY <1>6 DEF Move, Binding, OrderTypeOK
<1>7. ASSUME NEW to \in {"ordered", "received", "rejected"}, IndentMoves(to) PROVE OrderTypeOK'
  BY <1>7 DEF IndentMoves, OrderTypeOK
<1>8. ASSUME NEW i \in Invoices,
             \/ \E quantity \in Bills, markup \in Markups, tolerance \in Tolerances : Record(i, quantity, markup, tolerance)
             \/ \E accept \in BOOLEAN : ApproveInvoice(i, accept)
             \/ RejectInvoice(i) \/ RemoveInvoice(i)
      PROVE  OrderTypeOK'
  BY <1>8, InvoicesKeepTypes
<1>9. CASE UNCHANGED orderVars
  BY <1>9 DEF orderVars, OrderTypeOK
<1> QED BY <1>1, <1>2, <1>3, <1>4, <1>5, <1>6, <1>7, <1>8, <1>9 DEF OrderNext

(* Types of the order, its indent and its invoices, for every value of the constants. *)
THEOREM OrderTypes == OrderSpec => []OrderTypeOK
<1>1. OrderInit => OrderTypeOK
  BY NothingIsQuantity DEF OrderInit, OrderTypeOK, NoInvoice
<1>2. OrderTypeOK /\ [OrderNext]_orderVars => OrderTypeOK'
  BY TypeStep
<1> QED BY <1>1, <1>2, PTL DEF OrderSpec

-----------------------------------------------------------------------------
(* Only a draft is edited, and every edit stores the new total; so the total that the limit was *)
(* held against is that of the lines the order has when it is committed.                         *)
LimitInv == (order # "none" => total = Worth(ordered)) /\ WithinLimit

LEMMA LimitStep == OrderTypeOK /\ LimitInv /\ [OrderNext]_orderVars => LimitInv'
<1> SUFFICES ASSUME OrderTypeOK, LimitInv, [OrderNext]_orderVars PROVE LimitInv'
  OBVIOUS
<1> USE DEF Binding
<1>1. ASSUME NEW quantity, CreateDraft(quantity) \/ Update(quantity) PROVE LimitInv'
  <2>1. order' = "draft" /\ ordered' = quantity /\ total' = Worth(quantity)
    BY <1>1 DEF CreateDraft, Update
  <2>2. Worth(quantity) = Worth(ordered)'
    BY <2>1 DEF Worth
  <2> QED BY <2>1, <2>2 DEF LimitInv, WithinLimit
<1>2. ASSUME UNCHANGED <<ordered, total>> PROVE Worth(ordered)' = Worth(ordered)
  BY <1>2 DEF Worth
<1>3. ASSUME NEW quantity \in Quantities, Receive(quantity) PROVE LimitInv'
  <2>1. UNCHANGED <<ordered, total, approver>> /\ order \in Binding
    BY <1>3 DEF Receive, Receivable
  <2>2. Worth(ordered)' = Worth(ordered)
    BY <1>2, <2>1
  <2>3. total = Worth(ordered) /\ approver \in Users /\ Worth(ordered) <= Limit[approver]
    BY <2>1 DEF LimitInv, WithinLimit
  <2> QED BY <2>1, <2>2, <2>3 DEF LimitInv, WithinLimit
<1>4. ASSUME NEW user \in Users, order # "none", total <= Limit[user], Approved(user) PROVE LimitInv'
  <2>1. UNCHANGED <<ordered, total>> /\ approver' = user
    BY <1>4 DEF Approved
  <2> QED BY <1>2, <1>4, <2>1 DEF LimitInv, WithinLimit
<1>5. ASSUME NEW user, Submit(user) PROVE LimitInv'
  <2> order # "none"
    BY <1>5 DEF Submit, OrderMoves
  <2>1. CASE user \in Users /\ total <= Limit[user] /\ Approved(user)
    BY <1>4, <2>1
  <2>2. CASE order' = "pending_approval" /\ UNCHANGED <<ordered, received, total, approver, indent, invoice>>
    BY <1>2, <2>2 DEF LimitInv, WithinLimit
  <2> QED BY <1>5, <2>1, <2>2 DEF Submit
<1>6. ASSUME NEW user \in Users, Approve(user) PROVE LimitInv'
  BY <1>4, <1>6 DEF Approve
<1>7. CASE Reject
  BY <1>2, <1>7 DEF Reject, LimitInv, WithinLimit
<1>8. ASSUME NEW to \in {"sent", "cancelled", "closed"}, Move(to) PROVE LimitInv'
  <2>1. order # "none" /\ (to \in Binding => order \in Binding)
    BY <1>8 DEF Move, OrderMoves, OrderTypeOK
  <2> QED BY <1>2, <1>8, <2>1 DEF Move, LimitInv, WithinLimit
<1>9. ASSUME NEW to, IndentMoves(to) PROVE LimitInv'
  BY <1>2, <1>9 DEF IndentMoves, LimitInv, WithinLimit
<1>10. ASSUME UNCHANGED <<order, ordered, received, total, approver, indent>> PROVE LimitInv'
  BY <1>2, <1>10 DEF LimitInv, WithinLimit
<1>11. CASE UNCHANGED orderVars
  BY <1>10, <1>11 DEF orderVars
<1> QED BY <1>1, <1>3, <1>5, <1>6, <1>7, <1>8, <1>9, <1>10, <1>11, InvoicesKeepTypes DEF OrderNext

(* WithinLimit: no way of sending an order back, editing and submitting it again commits more *)
(* than somebody with the limit for it approved.                                              *)
THEOREM CommittedWithinLimit == OrderSpec => []WithinLimit
<1>1. OrderInit => LimitInv
  BY DEF OrderInit, LimitInv, WithinLimit, Binding
<1>2. OrderTypeOK /\ LimitInv /\ [OrderNext]_orderVars => LimitInv'
  BY LimitStep
<1>3. LimitInv => WithinLimit
  BY DEF LimitInv
<1> QED BY <1>1, <1>2, <1>3, OrderTypes, PTL DEF OrderSpec

-----------------------------------------------------------------------------
LEMMA FitsStep == OrderTypeOK /\ WhatCameFits /\ [OrderNext]_orderVars => WhatCameFits'
<1> SUFFICES ASSUME OrderTypeOK, WhatCameFits, [OrderNext]_orderVars PROVE WhatCameFits'
  OBVIOUS
<1> USE DEF Binding
<1>1. ASSUME UNCHANGED <<ordered, received>> PROVE Complete(received)' <=> Complete(received)
  BY <1>1 DEF Complete
<1>2. ASSUME NEW quantity \in Quantities, CreateDraft(quantity) \/ Update(quantity) PROVE WhatCameFits'
  <2>1. order' = "draft" /\ received' = Nothing /\ ordered' = quantity
    BY <1>2 DEF CreateDraft, Update, WhatCameFits
  <2>2. \A l \in Items : received'[l] <= ordered'[l]
    BY <2>1, PurchaseOrderAssumption DEF Nothing, Quantities
  <2> QED BY <2>1, <2>2 DEF WhatCameFits
<1>3. ASSUME NEW quantity \in Quantities, Receive(quantity) PROVE WhatCameFits'
  <2>1. /\ \A l \in Items : received'[l] <= ordered[l]
        /\ order' \in {"partially_received", "received"}
        /\ order' = "received" <=> Complete(received')
    BY <1>3, ReceiveTypes
  <2>2. ordered' = ordered /\ indent # "approved"
    BY <1>3 DEF Receive, Receivable, WhatCameFits
  <2>3. Complete(received)' <=> Complete(received')
    BY <2>2 DEF Complete
  <2>4. indent' # "approved" /\ (Complete(received') => indent' \in {"received", "rejected"})
    BY <1>3, <2>2 DEF Receive, OrderTypeOK
  <2> QED BY <2>1, <2>2, <2>3, <2>4 DEF WhatCameFits
<1>4. ASSUME NEW user, order \in {"draft", "pending_approval"}, Approved(user) PROVE WhatCameFits'
  <2>1. received' = Nothing /\ order' = "approved" /\ indent' # "approved"
    BY <1>4 DEF Approved, WhatCameFits
  <2> QED BY <1>4, <2>1 DEF Approved, WhatCameFits
<1>5. ASSUME NEW user, Submit(user) PROVE WhatCameFits'
  <2>1. order = "draft"
    BY <1>5 DEF Submit, OrderMoves, OrderTypeOK
  <2>2. CASE Approved(user)
    BY <1>4, <2>1, <2>2
  <2>3. CASE order' = "pending_approval" /\ UNCHANGED <<ordered, received, total, approver, indent, invoice>>
    BY <2>1, <2>3 DEF WhatCameFits
  <2> QED BY <1>5, <2>2, <2>3 DEF Submit
<1>6. ASSUME NEW user \in Users, Approve(user) PROVE WhatCameFits'
  BY <1>4, <1>6 DEF Approve
<1>7. CASE Reject
  BY <1>7 DEF Reject, WhatCameFits
<1>8. ASSUME NEW to \in {"sent", "cancelled", "closed"}, Move(to) PROVE WhatCameFits'
  <2>1. /\ to \in {"sent", "cancelled"} => order \in {"draft", "pending_approval", "approved", "sent"}
        /\ to \in Binding => order \in Binding
    BY <1>8 DEF Move, OrderMoves, OrderTypeOK
  <2> QED BY <1>8, <2>1 DEF Move, WhatCameFits
<1>9. ASSUME NEW to \in {"ordered", "received", "rejected"}, IndentMoves(to) PROVE WhatCameFits'
  BY <1>1, <1>9 DEF IndentMoves, WhatCameFits
<1>10. ASSUME UNCHANGED <<order, ordered, received, total, approver, indent>> PROVE WhatCameFits'
  BY <1>1, <1>10 DEF WhatCameFits
<1>11. CASE UNCHANGED orderVars
  BY <1>10, <1>11 DEF orderVars
<1> QED BY <1>2, <1>3, <1>5, <1>6, <1>7, <1>8, <1>9, <1>10, <1>11, InvoicesKeepTypes DEF OrderNext

(* WhatCameFits: an order goods came against is not cancelled, nothing beyond the order is signed *)
(* for, and the order and the indent behind it say together when all has come.                     *)
THEOREM DeliveriesFit == OrderSpec => []WhatCameFits
<1>1. OrderInit => WhatCameFits
  BY PurchaseOrderAssumption DEF OrderInit, WhatCameFits, Binding, Nothing
<1>2. OrderTypeOK /\ WhatCameFits /\ [OrderNext]_orderVars => WhatCameFits'
  BY FitsStep
<1> QED BY <1>1, <1>2, OrderTypes, PTL DEF OrderSpec

-----------------------------------------------------------------------------
(* Products in the match: a larger limit under a larger tolerance lets a smaller value pass. *)
LEMMA NotAboveMonotone ==
  ASSUME NEW v \in Nat, NEW w \in Nat, NEW limit \in Nat, NEW more \in Nat,
         NEW tolerance \in Nat, NEW wider \in Nat,
         v <= w, limit <= more, tolerance <= wider, NotAbove(w, limit, tolerance)
  PROVE  NotAbove(v, more, wider)
<1>1. limit * (10000 + tolerance) <= limit * (10000 + wider)
  OBVIOUS
<1>2. limit * (10000 + wider) <= more * (10000 + wider)
  OBVIOUS
<1>3. /\ limit * (10000 + tolerance) \in Nat /\ limit * (10000 + wider) \in Nat
      /\ more * (10000 + wider) \in Nat
  OBVIOUS
<1>4. QED BY <1>1, <1>2, <1>3 DEF NotAbove

Quantity(l) == [i \in Invoices |-> invoice[i].quantity[l]]

LEMMA InvoiceNumbers ==
  ASSUME OrderTypeOK
  PROVE  /\ \A i \in Invoices : invoice[i].markup \in Nat /\ invoice[i].tolerance \in Nat
         /\ \A l \in Items : Quantity(l) \in [Invoices -> Nat] /\ ordered[l] \in Nat /\ received[l] \in Nat
<1>1. Bills \cup {Nothing} \subseteq [Items -> Nat]
  BY PurchaseOrderAssumption DEF Nothing, Quantities
<1>2. \A i \in Invoices : invoice[i] \in InvoiceRecord
  BY DEF OrderTypeOK, InvoiceRecord
<1>3. \A i \in Invoices : invoice[i].quantity \in [Items -> Nat]
  BY <1>1, <1>2 DEF InvoiceRecord
<1>4. \A i \in Invoices : invoice[i].markup \in Nat /\ invoice[i].tolerance \in Nat
  <2>1. Markups \cup {0} \subseteq Nat /\ Tolerances \cup {0} \subseteq Nat
    BY PurchaseOrderAssumption
  <2>2. \A i \in Invoices : invoice[i].markup \in Markups \cup {0} /\ invoice[i].tolerance \in Tolerances \cup {0}
    BY <1>2 DEF InvoiceRecord
  <2>3. QED BY <2>1, <2>2
<1>5. ordered \in [Items -> Nat] /\ received \in [Items -> Nat]
  BY PurchaseOrderAssumption DEF OrderTypeOK, Quantities
<1>6. QED BY <1>3, <1>4, <1>5 DEF Quantity

LEMMA BilledFacts ==
  ASSUME OrderTypeOK, NEW l \in Items, NEW numbers \in SUBSET Invoices
  PROVE  /\ Billed(l, numbers) = SumFunctionOnSet(Quantity(l), numbers)
         /\ Billed(l, numbers) \in Nat /\ IsFiniteSet(numbers)
         /\ \A fewer \in SUBSET numbers : Billed(l, fewer) <= Billed(l, numbers)
         /\ \A i \in numbers : Billed(l, numbers) = invoice[i].quantity[l] + Billed(l, numbers \ {i})
<1>1. Quantity(l) \in [Invoices -> Nat] /\ IsFiniteSet(Invoices)
  BY InvoiceNumbers, PurchaseOrderAssumption
<1>2. IsFiniteSet(numbers)
  BY <1>1, FS_Subset
<1>3. Quantity(l) \in [Invoices -> Int]
  BY <1>1
<1>4. ASSUME NEW some \in SUBSET Invoices PROVE Billed(l, some) = SumFunctionOnSet(Quantity(l), some)
  <2>1. [i \in some |-> Quantity(l)[i]] = [i \in some |-> invoice[i].quantity[l]]
    BY DEF Quantity
  <2>2. SumFunction([i \in some |-> Quantity(l)[i]]) = SumFunctionOnSet(Quantity(l), some)
    BY <1>1, <1>3, TotalOnSet
  <2>3. QED BY <2>1, <2>2 DEF Billed
<1>5. Billed(l, numbers) \in Nat /\ \A fewer \in SUBSET numbers : Billed(l, fewer) <= Billed(l, numbers)
  BY <1>1, <1>2, <1>4, SumPart
<1>6. ASSUME NEW i \in numbers PROVE Billed(l, numbers) = invoice[i].quantity[l] + Billed(l, numbers \ {i})
  <2>1. Quantity(l)[i] = invoice[i].quantity[l]
    BY DEF Quantity
  <2>2. QED BY <1>2, <1>3, <1>4, <2>1, SumRemove
<1>7. QED BY <1>2, <1>4, <1>5, <1>6

(* The widest tolerance of the invoices approved without a question is that of one of them. *)
Widest == Max({invoice[i].tolerance : i \in Unquestioned})

LEMMA WidestFacts ==
  ASSUME OrderTypeOK, Unquestioned # {}
  PROVE  /\ Widest \in Nat /\ \A i \in Unquestioned : invoice[i].tolerance <= Widest
         /\ \E w \in Unquestioned : invoice[w].tolerance = Widest
<1> DEFINE tolerance == [i \in Invoices |-> invoice[i].tolerance]
           all == {invoice[i].tolerance : i \in Unquestioned}
<1>1. IsFiniteSet(Unquestioned) /\ Unquestioned \subseteq Invoices
  <2>1. Unquestioned \subseteq Invoices
    BY DEF Unquestioned, Approval
  <2>2. QED BY <2>1, PurchaseOrderAssumption, FS_Subset
<1>2. \A i \in Unquestioned : tolerance[i] = invoice[i].tolerance /\ tolerance[i] \in Nat
  BY <1>1, InvoiceNumbers
<1>3. PICK w \in Unquestioned : \A i \in Unquestioned : tolerance[i] <= tolerance[w]
  <2> HIDE DEF tolerance
  <2>1. QED BY <1>1, <1>2, Largest
<1>4. invoice[w].tolerance \in all /\ \A t \in all : t <= invoice[w].tolerance
  BY <1>2, <1>3
<1>5. Widest \in all /\ \A t \in all : t <= Widest
  BY <1>2, <1>4 DEF Widest, Max
<1>6. QED BY <1>2, <1>5

Paid(l) == NotAbove(Billed(l, Unquestioned), received[l], Widest)

LEMMA PaidIs == PaidForWhatCame <=> (Unquestioned # {} => \A l \in Items : Paid(l))
BY DEF PaidForWhatCame, Paid, Widest

PaidNumbers ==
  /\ \A l \in Items : received[l] \in Nat /\ Billed(l, Unquestioned) \in Nat
  /\ Unquestioned # {} => Widest \in Nat

LEMMA PaidNumbersHere == OrderTypeOK => PaidNumbers
BY WidestFacts, InvoiceNumbers, BilledFacts DEF Unquestioned, Approval, PaidNumbers

LEMMA PaidNumbersNext == OrderTypeOK' => PaidNumbers'
BY PaidNumbersHere, PTL

WidestCovers == \A i \in Unquestioned : invoice[i].tolerance <= Widest

LEMMA WidestHere == OrderTypeOK => WidestCovers
BY WidestFacts DEF WidestCovers

LEMMA WidestNext == OrderTypeOK' => WidestCovers'
BY WidestHere, PTL

LEMMA WidestIsOne ==
  ASSUME OrderTypeOK, Unquestioned # {}
  PROVE  \E w \in Unquestioned : invoice[w].tolerance = Widest
BY WidestFacts

(* The same quantities, and no fewer goods, under no narrower a tolerance. *)
LEMMA PaidMore ==
  ASSUME OrderTypeOK, OrderTypeOK', PaidForWhatCame, Unquestioned # {}, NEW l \in Items,
         Billed(l, Unquestioned)' <= Billed(l, Unquestioned),
         received[l] <= received'[l], Unquestioned' # {}, Widest <= Widest'
  PROVE  Paid(l)'
<1>1. Paid(l)
  BY PaidIs
<1>2. PaidNumbers /\ PaidNumbers'
  BY PaidNumbersHere, PaidNumbersNext
<1>3. /\ received[l] \in Nat /\ Billed(l, Unquestioned) \in Nat /\ Widest \in Nat
      /\ received'[l] \in Nat /\ Billed(l, Unquestioned)' \in Nat /\ Widest' \in Nat
  BY <1>2 DEF PaidNumbers
<1> DEFINE v == Billed(l, Unquestioned)'
           w == Widest'
<1>4. NotAbove(v, received'[l], w)
  <2>1. v \in Nat /\ w \in Nat /\ v <= Billed(l, Unquestioned) /\ Widest <= w
    BY <1>3
  <2> HIDE DEF v, w
  <2>2. QED BY <1>1, <1>3, <2>1, NotAboveMonotone DEF Paid
<1>5. QED BY <1>4 DEF Paid

(* What the match leaves unflagged was within reason: every line billed, the price included. *)
FairlyPriced ==
  \A i \in Unquestioned, l \in Items :
    invoice[i].quantity[l] > 0 => WithinTolerance(invoice[i].markup, Rate[l], invoice[i].tolerance)

PaidInv == PaidForWhatCame /\ FairlyPriced

(* A step that leaves the invoices approved without a question as they are. *)
LEMMA PaidKept ==
  ASSUME OrderTypeOK, OrderTypeOK', PaidInv, Unquestioned' = Unquestioned,
         \A i \in Unquestioned : invoice'[i] = invoice[i],
         \A l \in Items : received[l] <= received'[l]
  PROVE  PaidInv'
<1>1. FairlyPriced'
  BY DEF PaidInv, FairlyPriced
<1>2. ASSUME Unquestioned # {} PROVE Widest' = Widest
  <2>1. {invoice'[i].tolerance : i \in Unquestioned} = {invoice[i].tolerance : i \in Unquestioned}
    OBVIOUS
  <2>2. QED BY <2>1 DEF Widest
<1>3. ASSUME NEW l \in Items PROVE Billed(l, Unquestioned)' = Billed(l, Unquestioned)
  <2>1. [i \in Unquestioned |-> invoice'[i].quantity[l]] = [i \in Unquestioned |-> invoice[i].quantity[l]]
    OBVIOUS
  <2>2. QED BY <2>1 DEF Billed
<1>4. PaidNumbers
  BY PaidNumbersHere
<1>5. ASSUME Unquestioned # {}, NEW l \in Items PROVE Paid(l)'
  BY <1>2, <1>3, <1>4, <1>5, PaidMore DEF PaidInv, PaidNumbers
<1>6. (Unquestioned # {} => \A l \in Items : Paid(l))'
  BY <1>5
<1>7. PaidForWhatCame'
  BY <1>2, <1>6 DEF PaidForWhatCame, Paid, Widest
<1>8. QED BY <1>1, <1>7 DEF PaidInv

(* The one that adds to them: an invoice the match lets pass as it is approved.  What it bills of a *)
(* line was held, with everything billed elsewhere, against what had come by then.                   *)
LEMMA PaidApproved ==
  ASSUME OrderTypeOK, OrderTypeOK', PaidInv, NEW i \in Invoices, UNCHANGED received,
         invoice[i].status \in {"matched", "mismatch"},
         ~Flags(i, invoice[i].quantity, invoice[i].markup, invoice[i].tolerance),
         invoice' = [invoice EXCEPT ![i] = [invoice[i] EXCEPT !.status = "approved", !.flagged = FALSE]]
  PROVE  PaidInv'
<1> DEFINE others == {j \in Invoices \ {i} : invoice[j].status \notin {"none", "rejected"}}
           q(l) == invoice[i].quantity[l]
<1>1. /\ \A j \in Invoices \ {i} : invoice'[j] = invoice[j]
      /\ invoice'[i].quantity = invoice[i].quantity /\ invoice'[i].markup = invoice[i].markup
      /\ invoice'[i].tolerance = invoice[i].tolerance
      /\ invoice'[i].status = "approved" /\ invoice'[i].flagged = FALSE
  BY DEF OrderTypeOK
<1>2. Unquestioned' = Unquestioned \cup {i} /\ i \notin Unquestioned /\ Unquestioned \subseteq others
  BY <1>1 DEF Unquestioned, Approval
<1>3. \A j \in Unquestioned' : invoice'[j].quantity = invoice[j].quantity /\ invoice'[j].tolerance = invoice[j].tolerance
  BY <1>1, <1>2 DEF Unquestioned, Approval
<1>4. \A l \in Items : q(l) > 0 => /\ NotAbove(Billed(l, others) + q(l), received[l], invoice[i].tolerance)
                                   /\ WithinTolerance(invoice[i].markup, Rate[l], invoice[i].tolerance)
  BY DEF Flags, BilledElsewhere
<1>5. FairlyPriced'
  BY <1>1, <1>2, <1>4 DEF PaidInv, FairlyPriced, Unquestioned, Approval
<1>6. PaidNumbers /\ PaidNumbers'
  BY PaidNumbersHere, PaidNumbersNext
<1>7. invoice[i].tolerance <= Widest' /\ Widest' \in Nat /\ invoice[i].tolerance \in Nat
  <2>1. WidestCovers'
    BY WidestNext
  <2>2. invoice'[i].tolerance <= Widest'
    BY <1>2, <2>1 DEF WidestCovers
  <2>3. QED BY <1>1, <1>2, <1>6, <2>2, InvoiceNumbers DEF PaidNumbers
<1>8. Unquestioned # {} => Widest <= Widest'
  <2>1. ASSUME Unquestioned # {} PROVE Widest <= Widest'
    <3>1. PICK w \in Unquestioned : invoice[w].tolerance = Widest
      BY <2>1, WidestIsOne
    <3>2. invoice'[w].tolerance <= Widest'
      BY <1>2, WidestNext DEF WidestCovers
    <3>3. QED BY <1>2, <1>3, <3>1, <3>2
  <2>2. QED BY <2>1
<1>9. ASSUME NEW l \in Items
      PROVE  Billed(l, Unquestioned)' = q(l) + Billed(l, Unquestioned) /\ Billed(l, Unquestioned) <= Billed(l, others)
  <2>1. others \subseteq Invoices /\ Unquestioned \cup {i} \subseteq Invoices
    BY DEF Unquestioned, Approval
  <2>2. [j \in Unquestioned' |-> invoice'[j].quantity[l]] = [j \in Unquestioned \cup {i} |-> invoice[j].quantity[l]]
    BY <1>2, <1>3
  <2>3. Billed(l, Unquestioned)' = Billed(l, Unquestioned \cup {i})
    BY <2>2 DEF Billed
  <2>4. (Unquestioned \cup {i}) \ {i} = Unquestioned
    BY <1>2
  <2>5. Billed(l, Unquestioned \cup {i}) = q(l) + Billed(l, Unquestioned)
    BY <2>1, <2>4, BilledFacts
  <2>6. Billed(l, Unquestioned) <= Billed(l, others)
    <3> HIDE DEF others
    <3>1. QED BY <1>2, <2>1, BilledFacts
  <2>7. QED BY <2>3, <2>5, <2>6
<1>10. ASSUME NEW l \in Items PROVE Paid(l)'
  <2>1. /\ received[l] \in Nat /\ q(l) \in Nat /\ Billed(l, Unquestioned) \in Nat
        /\ Billed(l, Unquestioned)' \in Nat /\ Billed(l, others) \in Nat
    <3>1. q(l) \in Nat
      BY InvoiceNumbers DEF Quantity
    <3>2. Billed(l, others) \in Nat
      <4>1. others \subseteq Invoices
        OBVIOUS
      <4> HIDE DEF others
      <4>2. QED BY <4>1, BilledFacts
    <3>3. QED BY <1>6, <3>1, <3>2, InvoiceNumbers DEF PaidNumbers
  <2>2. CASE q(l) > 0
    <3>1. Billed(l, Unquestioned)' <= Billed(l, others) + q(l)
      BY <1>9, <2>1
    <3>2. NotAbove(Billed(l, Unquestioned)', received[l], Widest')
      <4> DEFINE v == Billed(l, Unquestioned)'
                 w == Billed(l, others) + q(l)
                 t == invoice[i].tolerance
                 came == received[l]
                 wider == Widest'
      <4>1. /\ v \in Nat /\ w \in Nat /\ v <= w /\ t \in Nat /\ wider \in Nat /\ t <= wider
            /\ NotAbove(w, came, t) /\ came \in Nat /\ came <= came
        BY <1>4, <1>7, <2>1, <2>2, <3>1
      <4> HIDE DEF v, w, t, came, wider
      <4>2. NotAbove(v, came, wider)
        BY <4>1, NotAboveMonotone
      <4>3. QED BY <4>2 DEF v, came, wider
    <3>3. QED BY <3>2 DEF Paid
  <2>3. CASE q(l) = 0
    <3>1. Billed(l, Unquestioned)' = Billed(l, Unquestioned)
      BY <1>9, <2>1, <2>3
    <3>2. CASE Unquestioned # {}
      <4>1. Billed(l, Unquestioned)' <= Billed(l, Unquestioned) /\ received[l] <= received'[l]
        BY <2>1, <3>1
      <4>2. Unquestioned' # {} /\ Widest <= Widest' /\ PaidForWhatCame
        BY <1>2, <1>8, <3>2 DEF PaidInv
      <4>3. QED BY <3>2, <4>1, <4>2, PaidMore
    <3>3. CASE Unquestioned = {}
      <4>1. Billed(l, Unquestioned) = 0
        BY <3>3, TotalNothing DEF Billed
      <4> DEFINE wider == Widest'
      <4>2. wider \in Nat
        BY <1>7
      <4> HIDE DEF wider
      <4>3. 0 * 10000 <= received[l] * (10000 + wider)
        BY <2>1, <4>2
      <4>4. QED BY <3>1, <4>1, <4>3 DEF Paid, NotAbove, wider
    <3>4. QED BY <3>2, <3>3
  <2>4. QED BY <2>1, <2>2, <2>3
<1>11. PaidForWhatCame'
  BY <1>10 DEF PaidForWhatCame, Paid, Widest
<1>12. QED BY <1>5, <1>11 DEF PaidInv

LEMMA PaidStep == OrderTypeOK /\ OrderTypeOK' /\ PaidInv /\ [OrderNext]_orderVars => PaidInv'
<1> SUFFICES ASSUME OrderTypeOK, OrderTypeOK', PaidInv, [OrderNext]_orderVars PROVE PaidInv'
  OBVIOUS
<1>0. \A l \in Items : received[l] \in Nat
  BY InvoiceNumbers
<1>1. ASSUME UNCHANGED invoice, \A l \in Items : received[l] <= received'[l] PROVE PaidInv'
  BY <1>1, PaidKept DEF Unquestioned, Approval
<1>2. ASSUME UNCHANGED <<received, invoice>> PROVE PaidInv'
  BY <1>0, <1>1, <1>2
<1>3. ASSUME NEW i \in Invoices, i \notin Unquestioned, NEW record, UNCHANGED received, ~(record.status = "approved" /\ ~record.flagged),
             invoice' = [invoice EXCEPT ![i] = record]
      PROVE  PaidInv'
  <2>1. /\ \A j \in Invoices \ {i} : invoice'[j] = invoice[j]
        /\ invoice'[i] = record
    BY <1>3 DEF OrderTypeOK
  <2>2. Unquestioned' = Unquestioned /\ \A j \in Unquestioned : invoice'[j] = invoice[j]
    BY <1>3, <2>1 DEF Unquestioned, Approval
  <2>3. QED BY <1>0, <1>3, <2>2, PaidKept
<1>4. ASSUME NEW quantity \in Quantities, Receive(quantity) PROVE PaidInv'
  <2>1. \A l \in Items : received[l] <= received'[l]
    BY <1>0, <1>4 DEF Receive, Quantities
  <2>2. QED BY <1>1, <1>4, <2>1 DEF Receive
<1>5. ASSUME NEW i \in Invoices, NEW accept, ApproveInvoice(i, accept) PROVE PaidInv'
  <2> DEFINE flagged == Flags(i, invoice[i].quantity, invoice[i].markup, invoice[i].tolerance)
             record == [invoice[i] EXCEPT !.status = "approved", !.flagged = flagged]
  <2>1. /\ i \notin Unquestioned /\ UNCHANGED received /\ invoice[i].status \in {"matched", "mismatch"}
        /\ invoice' = [invoice EXCEPT ![i] = record]
    BY <1>5 DEF ApproveInvoice, Invoiced, Unquestioned, Approval
  <2>2. CASE flagged
    <3>1. record.flagged
      <4> HIDE DEF flagged
      <4>1. invoice[i] \in InvoiceRecord
        BY DEF OrderTypeOK, InvoiceRecord
      <4>2. QED BY <2>2, <4>1 DEF InvoiceRecord
    <3> HIDE DEF record, flagged
    <3>2. QED BY <1>3, <2>1, <3>1
  <2>3. CASE ~flagged
    <3>1. record = [invoice[i] EXCEPT !.status = "approved", !.flagged = FALSE]
      <4>1. flagged = FALSE
        BY <2>3, FlagsIsBoolean
      <4> HIDE DEF flagged
      <4>2. QED BY <4>1
    <3>2. QED BY <2>1, <2>3, <3>1, PaidApproved
  <2>4. QED BY <2>2, <2>3
<1>6. ASSUME NEW i \in Invoices, NEW quantity \in Bills, NEW markup, NEW tolerance, Record(i, quantity, markup, tolerance)
      PROVE  PaidInv'
  <2>1. PICK record : record.status # "approved" /\ Invoiced(i, record) /\ invoice[i].status = "none"
    BY <1>6 DEF Record
  <2>2. QED BY <1>3, <2>1 DEF Invoiced, Unquestioned, Approval
<1>7. ASSUME NEW i \in Invoices, RejectInvoice(i) \/ RemoveInvoice(i) PROVE PaidInv'
  <2>1. invoice[i].status # "approved" /\ UNCHANGED received
    BY <1>7 DEF RejectInvoice, RemoveInvoice, Invoiced
  <2>2. i \notin Unquestioned
    BY <2>1 DEF Unquestioned, Approval
  <2>3. PICK record : record.status # "approved" /\ invoice' = [invoice EXCEPT ![i] = record]
    <3>1. [invoice[i] EXCEPT !.status = "rejected"].status = "rejected"
      BY DEF OrderTypeOK
    <3>2. NoInvoice.status = "none"
      BY DEF NoInvoice
    <3>3. QED BY <1>7, <3>1, <3>2 DEF RejectInvoice, RemoveInvoice, Invoiced
  <2>4. QED BY <1>3, <2>1, <2>2, <2>3
<1>8. ASSUME NEW quantity, CreateDraft(quantity) \/ Update(quantity) PROVE PaidInv'
  BY <1>2, <1>8 DEF CreateDraft, Update
<1>9. ASSUME NEW user, Submit(user) \/ Approve(user) PROVE PaidInv'
  BY <1>2, <1>9 DEF Submit, Approve, Approved
<1>10. CASE Reject
  BY <1>2, <1>10 DEF Reject
<1>11. ASSUME NEW to, Move(to) \/ IndentMoves(to) PROVE PaidInv'
  BY <1>2, <1>11 DEF Move, IndentMoves
<1>12. CASE UNCHANGED orderVars
  BY <1>2, <1>12 DEF orderVars
<1>13. QED BY <1>4, <1>5, <1>6, <1>7, <1>8, <1>9, <1>10, <1>11, <1>12 DEF OrderNext

LEMMA PaidHolds == OrderSpec => []PaidInv
<1>1. OrderInit => PaidInv
  BY DEF OrderInit, PaidInv, PaidForWhatCame, FairlyPriced, Unquestioned, Approval, NoInvoice
<1>2. OrderTypeOK /\ OrderTypeOK' /\ PaidInv /\ [OrderNext]_orderVars => PaidInv'
  BY PaidStep
<1>3. QED BY <1>1, <1>2, OrderTypes, PTL DEF OrderSpec

(* PaidForWhatCame: in whatever order goods come and invoices are recorded, changed and approved, what *)
(* is paid without a question is, of each line, no more than came.                                      *)
THEOREM PaidOnlyForWhatCame == OrderSpec => []PaidForWhatCame
<1>1. PaidInv => PaidForWhatCame
  BY DEF PaidInv
<1>2. QED BY <1>1, PaidHolds, PTL

-----------------------------------------------------------------------------
(* The lines of an order of which every invoice passed an exact match: what is charged for one is its *)
(* rate for each unit billed, no more than came, and the rest is outstanding.                          *)
Exact == \A i \in Approval : i \in Unquestioned /\ invoice[i].tolerance = 0

Promised(l) == Rate[l] * (IF order = "closed" THEN received[l] ELSE ordered[l])
LineTotal(l) == SumFunction([i \in Approval |-> LineCharged(i, l)])

LEMMA ExactLine ==
  ASSUME OrderTypeOK, PaidInv, WhatCameFits, Exact, NEW l \in Items
  PROVE  /\ \A i \in Approval : LineCharged(i, l) \in Nat
         /\ Promised(l) \in Nat /\ LineTotal(l) \in Nat /\ LineOutstanding(l) \in Nat
         /\ LineOutstanding(l) + LineTotal(l) = Promised(l)
<1>1. Approval = Unquestioned /\ Approval \subseteq Invoices /\ IsFiniteSet(Approval)
  <2>1. Approval = Unquestioned /\ Approval \subseteq Invoices
    BY DEF Exact, Unquestioned, Approval
  <2>2. QED BY <2>1, BilledFacts
<1>2. /\ Rate[l] \in Nat /\ ordered[l] \in Nat /\ received[l] \in Nat
      /\ \A i \in Approval : invoice[i].quantity[l] \in Nat /\ invoice[i].markup \in Nat
  BY <1>1, InvoiceNumbers, PurchaseOrderAssumption DEF Quantity
<1>3. ASSUME NEW i \in Approval PROVE LineCharged(i, l) = Rate[l] * invoice[i].quantity[l]
  <2>1. CASE invoice[i].quantity[l] = 0
    BY <1>2, <2>1 DEF LineCharged
  <2>2. CASE invoice[i].quantity[l] > 0
    <3>1. WithinTolerance(invoice[i].markup, Rate[l], 0)
      BY <1>1, <2>2 DEF PaidInv, FairlyPriced, Exact
    <3>2. invoice[i].markup = 0
      BY <1>2, <3>1 DEF WithinTolerance
    <3>3. QED BY <1>2, <3>2 DEF LineCharged
  <2>3. QED BY <1>2, <2>1, <2>2
<1>4. LineTotal(l) = Rate[l] * Billed(l, Approval)
  <2> DEFINE q == [i \in Approval |-> invoice[i].quantity[l]]
  <2>1. q \in [Approval -> Int]
    BY <1>2
  <2>2. [i \in Approval |-> LineCharged(i, l)] = [i \in Approval |-> Rate[l] * q[i]]
    BY <1>3
  <2>3. SumFunction(q) = Billed(l, Approval)
    BY DEF Billed
  <2> HIDE DEF q
  <2>4. SumFunction([i \in Approval |-> Rate[l] * q[i]]) = Rate[l] * SumFunction(q)
    BY <1>1, <1>2, <2>1, TotalScale
  <2>5. QED BY <2>2, <2>3, <2>4 DEF LineTotal
<1>5. Billed(l, Approval) \in Nat /\ Billed(l, Approval) <= received[l]
  <2>1. Billed(l, Approval) \in Nat
    BY <1>1, BilledFacts
  <2>2. CASE Approval = {}
    <3>1. Billed(l, Approval) = 0
      BY <2>2, TotalNothing DEF Billed
    <3>2. QED BY <1>2, <3>1
  <2>3. CASE Approval # {}
    <3>1. Widest = 0
      BY <1>1, <2>3, WidestIsOne DEF Exact
    <3>2. NotAbove(Billed(l, Approval), received[l], 0)
      BY <1>1, <2>3, <3>1, PaidIs DEF PaidInv, Paid
    <3>3. QED BY <1>2, <2>1, <3>2 DEF NotAbove
  <2>4. QED BY <2>1, <2>2, <2>3
<1>6. received[l] <= ordered[l]
  BY DEF WhatCameFits
<1>7. Rate[l] * Billed(l, Approval) <= Rate[l] * received[l] /\ Rate[l] * received[l] <= Rate[l] * ordered[l]
  BY <1>2, <1>5, <1>6
<1>8. LineTotal(l) \in Nat /\ Promised(l) \in Nat /\ LineTotal(l) <= Promised(l)
  <2>1. Rate[l] * Billed(l, Approval) \in Nat /\ Rate[l] * received[l] \in Nat /\ Rate[l] * ordered[l] \in Nat
    BY <1>2, <1>5
  <2>2. QED BY <1>4, <1>7, <2>1 DEF Promised
<1>9. LineOutstanding(l) = IF Promised(l) > LineTotal(l) THEN Promised(l) - LineTotal(l) ELSE 0
  BY DEF LineOutstanding, Promised, LineTotal
<1>10. \A i \in Approval : LineCharged(i, l) \in Nat
  BY <1>2, <1>3
<1>11. QED BY <1>8, <1>9, <1>10

(* What each invoice comes to is what its lines come to, by invoice or by line. *)
LEMMA ActualByLine ==
  ASSUME \A i \in Approval, l \in Items : LineCharged(i, l) \in Int
  PROVE  Expensed = SumFunction([l \in Items |-> LineTotal(l)])
<1> DEFINE table == [i \in Approval |-> [l \in Items |-> LineCharged(i, l)]]
<1>1. IsFiniteSet(Items) /\ IsFiniteSet(Approval)
  <2>1. Approval \subseteq Invoices
    BY DEF Approval
  <2>2. QED BY <2>1, PurchaseOrderAssumption, FS_Subset
<1>2. table \in [Approval -> [Items -> Int]]
  OBVIOUS
<1>3. [i \in Approval |-> SumFunction(table[i])] = [i \in Approval |-> Charged(i)]
  BY DEF Charged
<1>4. ASSUME NEW l \in Items PROVE SumFunction([i \in Approval |-> table[i][l]]) = LineTotal(l)
  <2>1. [i \in Approval |-> table[i][l]] = [i \in Approval |-> LineCharged(i, l)]
    OBVIOUS
  <2>2. QED BY <2>1 DEF LineTotal
<1> HIDE DEF table
<1>5. SumFunction([i \in Approval |-> SumFunction(table[i])])
        = SumFunction([l \in Items |-> SumFunction([i \in Approval |-> table[i][l]])])
  BY <1>1, <1>2, TotalSwap
<1>6. [l \in Items |-> SumFunction([i \in Approval |-> table[i][l]])] = [l \in Items |-> LineTotal(l)]
  BY <1>4
<1>7. QED BY <1>3, <1>5, <1>6 DEF Expensed

LEMMA MoneyAddsUp == OrderTypeOK /\ PaidInv /\ WhatCameFits => MoneyInOnePlace
<1> SUFFICES ASSUME OrderTypeOK, PaidInv, WhatCameFits, order \in Binding, Exact
             PROVE  Outstanding + Expensed = Worth(IF order = "closed" THEN received ELSE ordered)
  BY DEF MoneyInOnePlace, Exact
<1> DEFINE rest == [l \in Items |-> LineOutstanding(l)]
           charged == [l \in Items |-> LineTotal(l)]
           promised == [l \in Items |-> Promised(l)]
<1>1. IsFiniteSet(Items)
  BY PurchaseOrderAssumption
<1>2. rest \in [Items -> Int] /\ charged \in [Items -> Int]
  BY ExactLine
<1>3. [l \in Items |-> rest[l] + charged[l]] = promised
  BY ExactLine
<1>4. Expensed = SumFunction(charged)
  BY ExactLine, ActualByLine
<1>5. Outstanding = SumFunction(rest)
  BY DEF Outstanding
<1>6. promised = [l \in Items |-> (IF order = "closed" THEN received ELSE ordered)[l] * Rate[l]]
  <2>1. ASSUME NEW l \in Items
        PROVE  Promised(l) = (IF order = "closed" THEN received ELSE ordered)[l] * Rate[l]
    <3>1. Rate[l] \in Nat /\ received[l] \in Nat /\ ordered[l] \in Nat
      BY InvoiceNumbers, PurchaseOrderAssumption
    <3>2. QED BY <3>1 DEF Promised
  <2>2. QED BY <2>1
<1> HIDE DEF rest, charged
<1>7. SumFunction([l \in Items |-> rest[l] + charged[l]]) = SumFunction(rest) + SumFunction(charged)
  BY <1>1, <1>2, TotalAdd
<1>8. QED BY <1>3, <1>4, <1>5, <1>6, <1>7 DEF Worth

(* MoneyInOnePlace: no unit of money of the order is in the cost report twice, as a promise and as a  *)
(* cost, and none is left out.                                                                         *)
THEOREM EachUnitOnce == OrderSpec => []MoneyInOnePlace
<1>1. QED BY MoneyAddsUp, PaidHolds, DeliveriesFit, OrderTypes, PTL

-----------------------------------------------------------------------------
(* The subcontract and its bills.  First, money. *)
LEMMA ProductNat == ASSUME NEW a \in Nat, NEW b \in Nat PROVE a * b \in Nat
OBVIOUS

LEMMA ProductGrows == ASSUME NEW a \in Nat, NEW b \in Nat, NEW k \in Nat, a <= b PROVE a * k <= b * k
<1>1. (b - a) * k \in Nat
  BY ProductNat
<1>2. b * k = a * k + (b - a) * k
  OBVIOUS
<1>3. QED BY <1>1, <1>2

LEMMA LineAmountNat == ASSUME NEW q \in Nat, NEW rate \in Nat PROVE LineAmount(q, rate) \in Nat
<1>1. q * rate \in Nat
  BY ProductNat
<1>2. \A x \in Nat : RoundedDivide(x, 1000) \in Nat
  BY DEF RoundedDivide
<1>3. QED BY <1>1, <1>2 DEF LineAmount

LEMMA LineAmountGrows ==
  ASSUME NEW p \in Nat, NEW q \in Nat, NEW rate \in Nat, p <= q
  PROVE  LineAmount(p, rate) <= LineAmount(q, rate)
<1>1. p * rate \in Nat /\ q * rate \in Nat /\ p * rate <= q * rate
  BY ProductNat, ProductGrows
<1>2. \A x, y \in Nat : x <= y => RoundedDivide(x, 1000) <= RoundedDivide(y, 1000)
  BY DEF RoundedDivide
<1>3. QED BY <1>1, <1>2 DEF LineAmount

LEMMA LineAmountZero == ASSUME NEW rate \in Nat PROVE LineAmount(0, rate) = 0
<1>1. 0 * rate = 0
  OBVIOUS
<1>2. RoundedDivide(0, 1000) = 0
  BY DEF RoundedDivide
<1>3. QED BY <1>1, <1>2 DEF LineAmount

LEMMA ShareNat == ASSUME NEW amount \in Nat, NEW bp \in Nat PROVE BasisPointsOf(amount, bp) \in Nat
<1>1. amount * bp \in Nat
  BY ProductNat
<1>2. \A x \in Nat : RoundedDivide(x, 10000) \in Nat
  BY DEF RoundedDivide
<1>3. QED BY <1>1, <1>2 DEF BasisPointsOf

LEMMA ShareGrows ==
  ASSUME NEW a \in Nat, NEW b \in Nat, NEW bp \in Nat, a <= b
  PROVE  BasisPointsOf(a, bp) <= BasisPointsOf(b, bp)
<1>1. a * bp \in Nat /\ b * bp \in Nat /\ a * bp <= b * bp
  BY ProductNat, ProductGrows
<1>2. \A x, y \in Nat : x <= y => RoundedDivide(x, 10000) <= RoundedDivide(y, 10000)
  BY DEF RoundedDivide
<1>3. QED BY <1>1, <1>2 DEF BasisPointsOf

LEMMA ShareZero == ASSUME NEW bp \in Nat PROVE BasisPointsOf(0, bp) = 0
<1>1. 0 * bp = 0
  OBVIOUS
<1>2. RoundedDivide(0, 10000) = 0
  BY DEF RoundedDivide
<1>3. QED BY <1>1, <1>2 DEF BasisPointsOf

-----------------------------------------------------------------------------
(* Largest and smallest. *)
LEMMA MaxIs == ASSUME NEW S, S \subseteq Int, NEW m \in S, \A x \in S : x <= m PROVE Max(S) = m
<1>1. Max(S) \in S /\ \A x \in S : x <= Max(S)
  <2>1. \E x \in S : \A y \in S : x >= y
    BY SMT
  <2>2. QED BY <2>1 DEF Max
<1>2. Max(S) \in Int /\ m \in Int /\ m <= Max(S) /\ Max(S) <= m
  BY <1>1
<1>3. QED BY <1>2

LEMMA MinIs == ASSUME NEW S, S \subseteq Int, NEW m \in S, \A x \in S : m <= x PROVE Min(S) = m
<1>1. Min(S) \in S /\ \A x \in S : Min(S) <= x
  BY DEF Min
<1>2. Min(S) \in Int /\ m \in Int /\ m <= Min(S) /\ Min(S) <= m
  BY <1>1
<1>3. QED BY <1>2

LEMMA MaxOfTwo == ASSUME NEW a \in Int, NEW b \in Int PROVE Max({a, b}) = IF a <= b THEN b ELSE a
<1>1. CASE a <= b
  BY <1>1, MaxIs
<1>2. CASE ~(a <= b)
  BY <1>2, MaxIs
<1>3. QED BY <1>1, <1>2

LEMMA MinOfTwo == ASSUME NEW a \in Int, NEW b \in Int PROVE Min({a, b}) = IF a <= b THEN a ELSE b
<1>1. CASE a <= b
  BY <1>1, MinIs
<1>2. CASE ~(a <= b)
  BY <1>2, MinIs
<1>3. QED BY <1>1, <1>2

-----------------------------------------------------------------------------
(* The bills, in the order of their numbers. *)
LEMMA SeqInto == ASSUME NEW S, NEW T, NEW s \in Seq(S), \A n \in 1..Len(s) : s[n] \in T PROVE s \in Seq(T)
<1>1. Len(s) \in Nat /\ s \in [1..Len(s) -> T]
  OBVIOUS
<1>2. QED BY <1>1, SeqDef

LEMMA BillTyped ==
  ASSUME TypeOK, NEW n \in DOMAIN bills
  PROVE  /\ DOMAIN bills = 1..Len(bills) /\ Len(bills) \in Nat
         /\ bills[n] \in BillRecord(DOMAIN bills[n].quantity) /\ DOMAIN bills[n].quantity \subseteq Lines
         /\ bills[n].quantity \in [DOMAIN bills[n].quantity -> Nat]
         /\ bills[n].figures \in FigureRecord /\ bills[n].paid \in Nat
         /\ bills[n].status \in {"draft", "submitted"} \cup Settled
<1>1. PICK given \in SUBSET Lines : bills[n] \in BillRecord(given)
  BY DEF TypeOK
<1>2. bills[n].quantity \in [given -> Nat]
  BY <1>1 DEF BillRecord
<1>3. DOMAIN bills[n].quantity = given
  BY <1>2
<1>4. DOMAIN bills = 1..Len(bills) /\ Len(bills) \in Nat
  BY DEF TypeOK
<1>5. QED BY <1>1, <1>2, <1>3, <1>4 DEF BillRecord

LEMMA TermsTyped ==
  ASSUME TypeOK
  PROVE  /\ terms.retentionBp \in Nat /\ terms.recoveryBp \in Nat /\ terms.taxBp \in Nat /\ terms.advance \in Nat
         /\ terms.quantity \in [Lines -> Nat] /\ terms.rate \in [Lines -> Nat]
BY RunningBillsAssumption DEF TypeOK

(* All bills are settled but for the last one, which may be open. *)
SettledCount == IF \E n \in DOMAIN bills : bills[n].status \notin Settled THEN Len(bills) - 1 ELSE Len(bills)

LEMMA SettledAre ==
  ASSUME TypeOK
  PROVE  /\ SettledCount \in Nat /\ SettledCount <= Len(bills) /\ Len(bills) <= SettledCount + 1 /\ Len(bills) \in Nat
         /\ SettledBills = 1..SettledCount
         /\ OpenBills = {n \in DOMAIN bills : bills[n].status \notin Settled}
         /\ DOMAIN bills = 1..Len(bills)
         /\ \A n \in DOMAIN bills : bills[n].status \notin Settled => /\ n = Len(bills) /\ SettledCount = n - 1
                                                                    /\ SettledBefore(n) = 1..n - 1
         /\ OpenBills = {} => SettledCount = Len(bills)
<1>1. DOMAIN bills = 1..Len(bills) /\ Len(bills) \in Nat
  BY DEF TypeOK
<1>2. \A n \in DOMAIN bills : bills[n].status \notin Settled => n = Len(bills)
  BY DEF TypeOK
<1>3. SettledBills = {n \in DOMAIN bills : bills[n].status \in Settled}
  BY <1>1 DEF SettledBills, SettledBefore
<1>4. SettledCount \in Nat /\ SettledCount <= Len(bills) /\ Len(bills) <= SettledCount + 1
  BY <1>1 DEF SettledCount
<1>5. SettledBills = 1..SettledCount
  BY <1>1, <1>2, <1>3 DEF SettledCount
<1>6. ASSUME NEW n \in DOMAIN bills, bills[n].status \notin Settled
      PROVE  n = Len(bills) /\ SettledCount = n - 1 /\ SettledBefore(n) = 1..n - 1
  BY <1>1, <1>2, <1>6 DEF SettledCount, SettledBefore
<1>7. OpenBills = {n \in DOMAIN bills : bills[n].status \notin Settled}
  BY <1>3 DEF OpenBills
<1>8. QED BY <1>1, <1>4, <1>5, <1>6, <1>7 DEF SettledCount

-----------------------------------------------------------------------------
(* The inductive invariant.  Each bill states, of lines of the contract, no less than the bills before it *)
(* and no more than the contract; only a contract in force is billed; the settled bills' shares add up to *)
(* the last one's figures to date, and those are worked out on its quantities; no bill is overpaid, and   *)
(* no more is released than is kept back, nor paid out of the releases than was released.                 *)
LastQuantity == bills[SettledCount].quantity
Latest == LastFigures(Len(bills) + 1)

Grows ==
  \A n \in DOMAIN bills :
    /\ DOMAIN bills[n].quantity \subseteq Billable
    /\ \A l \in DOMAIN bills[n].quantity : bills[n].quantity[l] <= terms.quantity[l]
    /\ \A m \in 1..n - 1 : \A l \in DOMAIN bills[m].quantity :
         l \in DOMAIN bills[n].quantity /\ bills[m].quantity[l] <= bills[n].quantity[l]

InForce == /\ bills # <<>> => status # "draft"
           /\ OpenBills # {} => status \in {"active", "completed"}

ToDateAddsUp ==
  /\ GrossCertified = Latest.grossToDate /\ Retained = Latest.retentionToDate /\ Recovered = Latest.recoveredToDate
  /\ SettledCount > 0 => /\ Latest.grossToDate = Value(LastQuantity)
                         /\ Latest.retentionToDate = BasisPointsOf(Latest.grossToDate, terms.retentionBp)
  /\ Latest.recoveredToDate <= advance

NotOverpaid ==
  \A n \in SettledBills :
    bills[n].paid <= bills[n].figures.net /\ (bills[n].status = "paid" <=> bills[n].paid = bills[n].figures.net)

PotsHold == released <= Retained /\ retentionPaid <= released

BillsInv == Grows /\ InForce /\ ToDateAddsUp /\ NotOverpaid /\ PotsHold

-----------------------------------------------------------------------------
(* What a bill that follows the settled ones reads. *)
AfterSettled(n) == SettledBefore(n) = 1..SettledCount
Stated(l) == IF SettledCount > 0 /\ l \in DOMAIN LastQuantity THEN LastQuantity[l] ELSE 0

LEMMA EndFollows == TypeOK => AfterSettled(Len(bills) + 1)
BY SettledAre DEF AfterSettled, SettledBills

LEMMA LastBill ==
  ASSUME TypeOK, Grows, SettledCount > 0
  PROVE  /\ SettledCount \in DOMAIN bills /\ SettledCount \in SettledBills /\ DOMAIN LastQuantity \subseteq Billable
         /\ LastQuantity \in [DOMAIN LastQuantity -> Nat]
         /\ \A l \in DOMAIN LastQuantity : LastQuantity[l] <= terms.quantity[l]
         /\ bills[SettledCount].figures \in FigureRecord
BY SettledAre, BillTyped DEF Grows, LastQuantity

LEMMA PreviousIs ==
  ASSUME TypeOK, Grows, NEW n, AfterSettled(n), NEW l
  PROVE  Previous(n, l) = Stated(l)
<1> DEFINE on == {m \in SettledBefore(n) : l \in DOMAIN bills[m].quantity}
           k == SettledCount
<1>1. k \in Nat /\ k <= Len(bills) /\ SettledBefore(n) = 1..k /\ DOMAIN bills = 1..Len(bills) /\ Len(bills) \in Nat
  BY SettledAre DEF AfterSettled
<1>2. CASE k > 0 /\ l \in DOMAIN bills[k].quantity
  <2>1. on \subseteq Int /\ k \in on /\ \A x \in on : x <= k
    BY <1>1, <1>2
  <2>2. Max(on) = k
    BY <2>1, MaxIs
  <2>3. QED BY <1>2, <2>1, <2>2 DEF Previous, Stated, LastQuantity
<1>3. CASE ~(k > 0 /\ l \in DOMAIN bills[k].quantity)
  <2>1. ASSUME NEW m \in 1..k, l \in DOMAIN bills[m].quantity PROVE FALSE
    <3>1. k \in DOMAIN bills /\ k > 0 /\ l \notin DOMAIN bills[k].quantity
      BY <1>1, <1>3
    <3>2. m # k /\ m \in 1..k - 1
      BY <1>1, <2>1, <3>1
    <3>3. QED BY <2>1, <3>1, <3>2 DEF Grows
  <2>2. on = {}
    BY <1>1, <2>1
  <2>3. QED BY <1>3, <2>2 DEF Previous, Stated, LastQuantity
<1>4. QED BY <1>2, <1>3

LEMMA LatestIs ==
  ASSUME TypeOK, NEW n, AfterSettled(n)
  PROVE  /\ LastFigures(n) = Latest
         /\ Latest = IF SettledCount = 0 THEN Unbilled ELSE bills[SettledCount].figures
<1> DEFINE k == SettledCount
<1>1. k \in Nat
  BY SettledAre
<1>2. ASSUME NEW x, AfterSettled(x) PROVE LastFigures(x) = IF k = 0 THEN Unbilled ELSE bills[k].figures
  <2>1. CASE k = 0
    BY <1>2, <2>1 DEF AfterSettled, LastFigures
  <2>2. CASE k # 0
    <3>1. SettledBefore(x) \subseteq Int /\ k \in SettledBefore(x) /\ \A y \in SettledBefore(x) : y <= k
      BY <1>1, <1>2, <2>2 DEF AfterSettled
    <3>2. Max(SettledBefore(x)) = k
      BY <3>1, MaxIs
    <3>3. QED BY <2>2, <3>1, <3>2 DEF LastFigures
  <2>3. QED BY <2>1, <2>2
<1>3. AfterSettled(Len(bills) + 1)
  BY EndFollows
<1>4. QED BY <1>2, <1>3 DEF Latest

LEMMA LatestTyped ==
  ASSUME TypeOK, Grows
  PROVE  /\ Latest.grossToDate \in Nat /\ Latest.retentionToDate \in Nat /\ Latest.recoveredToDate \in Nat
<1>1. Latest = Unbilled \/ (SettledCount > 0 /\ Latest = bills[SettledCount].figures)
  BY EndFollows, LatestIs, SettledAre
<1>2. QED BY <1>1, LastBill DEF Unbilled, FigureRecord

(* A line that is stated at nothing adds nothing. *)
LEMMA ValueExtends ==
  ASSUME TypeOK, NEW D, NEW S, D \subseteq S, S \subseteq Lines, NEW q \in [D -> Nat], NEW e \in [S -> Nat],
         \A l \in S : e[l] = IF l \in D THEN q[l] ELSE 0
  PROVE  Value(e) = Value(q) /\ Value(q) \in Nat
<1> DEFINE f == [l \in S |-> LineAmount(e[l], terms.rate[l])]
           g == [l \in D |-> LineAmount(q[l], terms.rate[l])]
<1>1. IsFiniteSet(S) /\ IsFiniteSet(D) /\ IsFiniteSet(S \ D)
  BY RunningBillsAssumption, FS_Subset
<1>2. \A l \in S : terms.rate[l] \in Nat
  BY TermsTyped
<1>3. f \in [S -> Nat] /\ \A l \in S : f[l] \in Int
  <2>1. \A l \in S : LineAmount(e[l], terms.rate[l]) \in Nat
    <3>1. SUFFICES ASSUME NEW l \in S PROVE LineAmount(e[l], terms.rate[l]) \in Nat
      OBVIOUS
    <3>2. e[l] \in Nat /\ terms.rate[l] \in Nat
      BY <1>2
    <3>3. QED BY <3>2, LineAmountNat
  <2>2. QED BY <2>1
<1>4. \A l \in D : g[l] = f[l] /\ g[l] \in Nat
  <2>1. \A l \in D : g[l] = f[l] /\ f[l] \in Nat
    <3>1. SUFFICES ASSUME NEW l \in D PROVE g[l] = f[l] /\ f[l] \in Nat
      OBVIOUS
    <3>2. l \in S /\ e[l] = q[l] /\ f[l] \in Nat
      BY <1>3
    <3>3. QED BY <3>2
  <2> HIDE DEF f, g
  <2>2. QED BY <2>1
<1>5. \A l \in S \ D : f[l] = 0
  BY <1>2, LineAmountZero
<1>6. Value(e) = SumFunctionOnSet(f, S) /\ Value(q) = SumFunctionOnSet(g, D)
  <2>1. DOMAIN e = S /\ DOMAIN q = D /\ DOMAIN f = S /\ DOMAIN g = D
    OBVIOUS
  <2>2. QED BY <2>1 DEF Value, SumFunction
<1> HIDE DEF f, g
<1>7. SumFunctionOnSet(f, S) = SumFunctionOnSet(f, D) + SumFunctionOnSet(f, S \ D)
  BY <1>1, <1>3, SumSplit
<1>8. SumFunctionOnSet(f, S \ D) = 0 /\ SumFunctionOnSet(g, D) = SumFunctionOnSet(f, D)
  BY <1>1, <1>4, <1>5, SumZero, SumSame
<1>9. SumFunctionOnSet(g, D) \in Nat
  BY <1>1, <1>4, SumNat
<1>10. QED BY <1>6, <1>7, <1>8, <1>9

LEMMA ValueGrows ==
  ASSUME TypeOK, NEW S, S \subseteq Lines, NEW p \in [S -> Nat], NEW q \in [S -> Nat], \A l \in S : p[l] <= q[l]
  PROVE  Value(p) <= Value(q)
<1> DEFINE f == [l \in S |-> LineAmount(p[l], terms.rate[l])]
           g == [l \in S |-> LineAmount(q[l], terms.rate[l])]
<1>1. \A l \in S : terms.rate[l] \in Nat
  BY TermsTyped
<1>2. \A l \in S : f[l] \in Int /\ g[l] \in Int /\ f[l] <= g[l]
  <2>1. SUFFICES ASSUME NEW l \in S PROVE f[l] \in Int /\ g[l] \in Int /\ f[l] <= g[l]
    OBVIOUS
  <2>2. p[l] \in Nat /\ q[l] \in Nat /\ terms.rate[l] \in Nat /\ p[l] <= q[l]
    BY <1>1
  <2>3. /\ LineAmount(p[l], terms.rate[l]) \in Nat /\ LineAmount(q[l], terms.rate[l]) \in Nat
        /\ LineAmount(p[l], terms.rate[l]) <= LineAmount(q[l], terms.rate[l])
    BY <2>2, LineAmountNat, LineAmountGrows
  <2>4. QED BY <2>3
<1>3. Value(p) = SumFunctionOnSet(f, S) /\ Value(q) = SumFunctionOnSet(g, S)
  <2>1. DOMAIN p = S /\ DOMAIN q = S /\ DOMAIN f = S /\ DOMAIN g = S
    OBVIOUS
  <2>2. QED BY <2>1 DEF Value, SumFunction
<1>4. IsFiniteSet(S)
  BY RunningBillsAssumption, FS_Subset
<1> HIDE DEF f, g
<1>5. QED BY <1>2, <1>3, <1>4, SumMonotone

-----------------------------------------------------------------------------
(* The figures of a bill that may follow. *)
Follows(q) ==
  /\ DOMAIN q \subseteq Billable /\ q \in [DOMAIN q -> Nat]
  /\ \A l \in DOMAIN q : Stated(l) <= q[l] /\ q[l] <= terms.quantity[l]
  /\ SettledCount > 0 => DOMAIN LastQuantity \subseteq DOMAIN q

LEMMA BillableLines == Billable \subseteq Lines
BY DEF Billable, Lines

LEMMA StatedNat == ASSUME TypeOK, Grows, NEW l PROVE Stated(l) \in Nat
BY LastBill DEF Stated

LEMMA BeforeIs ==
  ASSUME TypeOK, Grows, ToDateAddsUp, NEW n, AfterSettled(n)
  PROVE  /\ Before(n) \in [Billable -> Nat] /\ Before(n) = [l \in Billable |-> Stated(l)]
         /\ Value(Before(n)) = Latest.grossToDate
         /\ Latest.retentionToDate = BasisPointsOf(Latest.grossToDate, terms.retentionBp)
<1>1. Before(n) = [l \in Billable |-> Stated(l)]
  BY PreviousIs DEF Before
<1>2. \A l \in Billable : Stated(l) \in Nat
  BY StatedNat
<1>3. Before(n) \in [Billable -> Nat] /\ \A l \in Billable : Before(n)[l] = Stated(l)
  BY <1>1, <1>2
<1>4. CASE SettledCount > 0
  <2>1. /\ DOMAIN LastQuantity \subseteq Billable /\ LastQuantity \in [DOMAIN LastQuantity -> Nat]
        /\ \A l \in Billable : Before(n)[l] = IF l \in DOMAIN LastQuantity THEN LastQuantity[l] ELSE 0
    BY <1>3, <1>4, LastBill DEF Stated
  <2>2. Value(Before(n)) = Value(LastQuantity)
    BY <1>3, <2>1, BillableLines, ValueExtends
  <2>3. QED BY <1>1, <1>3, <1>4, <2>2 DEF ToDateAddsUp
<1>5. CASE ~(SettledCount > 0)
  <2> DEFINE none == [l \in {} |-> 0]
  <2>1. SettledCount = 0
    BY <1>5, SettledAre
  <2>2. Latest = Unbilled
    BY <2>1, EndFollows, LatestIs
  <2>3. \A l \in Billable : Before(n)[l] = 0
    BY <1>3, <1>5 DEF Stated
  <2>4. Value(none) = 0
    <3>1. DOMAIN none = {}
      OBVIOUS
    <3> HIDE DEF none
    <3>2. DOMAIN [l \in DOMAIN none |-> LineAmount(none[l], terms.rate[l])] = {}
      BY <3>1
    <3>3. QED BY <3>2, TotalNothing DEF Value
  <2>5. none \in [{} -> Nat]
    OBVIOUS
  <2> HIDE DEF none
  <2>6. Value(Before(n)) = Value(none)
    <3>1. ASSUME NEW D, D = {} PROVE Value(Before(n)) = Value(none)
      <4>1. D \subseteq Billable /\ none \in [D -> Nat]
        BY <2>5, <3>1
      <4>2. \A l \in Billable : Before(n)[l] = IF l \in D THEN none[l] ELSE 0
        BY <2>3, <3>1
      <4>3. Before(n) \in [Billable -> Nat] /\ Billable \subseteq Lines
        BY <1>3, BillableLines
      <4>4. QED BY <4>1, <4>2, <4>3, ValueExtends
    <3>2. QED BY <3>1
  <2>7. Latest.grossToDate = 0 /\ Latest.retentionToDate = 0
    BY <2>2 DEF Unbilled
  <2>8. BasisPointsOf(0, terms.retentionBp) = 0
    BY TermsTyped, ShareZero
  <2>9. QED BY <1>1, <1>3, <2>4, <2>6, <2>7, <2>8
<1>6. QED BY <1>4, <1>5

LEMMA ToDateIs ==
  ASSUME TypeOK, Grows, NEW n, AfterSettled(n), NEW q, Follows(q)
  PROVE  /\ ToDate(n, q) \in [Billable -> Nat] /\ Value(ToDate(n, q)) = Value(q) /\ Value(q) \in Nat
         /\ \A l \in Billable : Stated(l) <= ToDate(n, q)[l]
<1>1. ASSUME NEW l \in Billable, l \notin DOMAIN q PROVE Stated(l) = 0
  BY <1>1 DEF Follows, Stated
<1>2. \A l \in Billable : ToDate(n, q)[l] = IF l \in DOMAIN q THEN q[l] ELSE 0
  BY <1>1, PreviousIs DEF ToDate
<1>3. q \in [DOMAIN q -> Nat] /\ DOMAIN q \subseteq Billable /\ \A l \in DOMAIN q : Stated(l) <= q[l]
  BY DEF Follows
<1>4. ToDate(n, q) \in [Billable -> Nat]
  <2>1. \A l \in Billable : ToDate(n, q)[l] \in Nat
    BY <1>2, <1>3
  <2>2. QED BY <2>1 DEF ToDate
<1>5. Value(ToDate(n, q)) = Value(q) /\ Value(q) \in Nat
  BY <1>2, <1>3, <1>4, BillableLines, ValueExtends
<1>6. \A l \in Billable : Stated(l) <= ToDate(n, q)[l]
  BY <1>1, <1>2, <1>3
<1>7. QED BY <1>4, <1>5, <1>6

FiguresFollow(f, q, back) ==
  /\ f \in FigureRecord
  /\ f.grossToDate = Value(q) /\ f.gross = f.grossToDate - Latest.grossToDate
  /\ f.retentionToDate = BasisPointsOf(f.grossToDate, terms.retentionBp)
  /\ f.retention = f.retentionToDate - Latest.retentionToDate
  /\ f.recovery = f.recoveredToDate - Latest.recoveredToDate /\ f.recoveredToDate <= advance
  /\ f.deductions = back /\ f.net = f.gross + f.tax - f.retention - f.recovery - back

LEMMA FiguresAre ==
  ASSUME TypeOK, Grows, ToDateAddsUp, NEW n, AfterSettled(n), NEW q, Follows(q), NEW back \in Nat
  PROVE  FiguresFollow(Figures(n, q, back), q, back)
<1> DEFINE grossToDate == Value(ToDate(n, q))
           gross == grossToDate - Value(Before(n))
           last == LastFigures(n)
           retentionToDate == BasisPointsOf(grossToDate, terms.retentionBp)
           retention == retentionToDate - last.retentionToDate
           share == BasisPointsOf(grossToDate, terms.recoveryBp)
           recoveredToDate == Max({last.recoveredToDate, Min({share, advance})})
           recovery == recoveredToDate - last.recoveredToDate
           tax == IF gross > 0 THEN BasisPointsOf(gross, terms.taxBp) ELSE 0
           net == gross + tax - retention - recovery - back
<1>1. last = Latest /\ last.grossToDate \in Nat /\ last.retentionToDate \in Nat /\ last.recoveredToDate \in Nat
  BY LatestIs, LatestTyped
<1>2. grossToDate = Value(q) /\ grossToDate \in Nat /\ Value(Before(n)) = last.grossToDate
  BY <1>1, ToDateIs, BeforeIs
<1>3. Value(Before(n)) <= grossToDate
  <2>1. Before(n) \in [Billable -> Nat] /\ ToDate(n, q) \in [Billable -> Nat]
    BY BeforeIs, ToDateIs
  <2>2. \A l \in Billable : Before(n)[l] <= ToDate(n, q)[l]
    BY BeforeIs, ToDateIs
  <2>3. QED BY <2>1, <2>2, BillableLines, ValueGrows
<1>4. gross \in Nat /\ gross = grossToDate - last.grossToDate
  BY <1>1, <1>2, <1>3
<1>5. retentionToDate \in Nat /\ retention \in Nat
  <2>1. last.retentionToDate = BasisPointsOf(last.grossToDate, terms.retentionBp)
    BY <1>1, BeforeIs
  <2>2. BasisPointsOf(last.grossToDate, terms.retentionBp) <= retentionToDate /\ retentionToDate \in Nat
    BY <1>1, <1>2, <1>3, TermsTyped, ShareNat, ShareGrows
  <2>3. QED BY <1>1, <2>1, <2>2
<1>6. recoveredToDate \in Nat /\ recoveredToDate <= advance /\ recovery \in Nat
  <2>1. share \in Nat /\ advance \in Nat /\ last.recoveredToDate <= advance
    BY <1>1, <1>2, TermsTyped, ShareNat DEF ToDateAddsUp, TypeOK
  <2>2. Min({share, advance}) = IF share <= advance THEN share ELSE advance
    BY <2>1, MinOfTwo
  <2>3. Min({share, advance}) \in Nat /\ Min({share, advance}) <= advance
    BY <2>1, <2>2
  <2>4. recoveredToDate = IF last.recoveredToDate <= Min({share, advance}) THEN Min({share, advance})
                                                                          ELSE last.recoveredToDate
    BY <1>1, <2>3, MaxOfTwo
  <2> HIDE DEF share, recoveredToDate
  <2>5. QED BY <1>1, <2>1, <2>3, <2>4
<1>7. tax \in Nat
  BY <1>4, TermsTyped, ShareNat
<1>8. Figures(n, q, back) =
        [grossToDate |-> grossToDate, gross |-> gross, retentionToDate |-> retentionToDate,
         retention |-> retention, recoveredToDate |-> recoveredToDate, recovery |-> recovery,
         tax |-> tax, deductions |-> back, net |-> net]
  BY DEF Figures
<1>9. net \in Int
  <2> HIDE DEF gross, tax, retention, recovery
  <2>1. QED BY <1>4, <1>5, <1>6, <1>7
<1>10. /\ retention = retentionToDate - Latest.retentionToDate /\ recovery = recoveredToDate - Latest.recoveredToDate
       /\ net = gross + tax - retention - recovery - back /\ gross = grossToDate - Latest.grossToDate
       /\ retentionToDate = BasisPointsOf(grossToDate, terms.retentionBp)
  BY <1>1, <1>4
<1> HIDE DEF grossToDate, gross, last, retentionToDate, retention, recoveredToDate, recovery, tax, net
<1>11. QED BY <1>2, <1>4, <1>5, <1>6, <1>7, <1>8, <1>9, <1>10 DEF FiguresFollow, FigureRecord

-----------------------------------------------------------------------------
(* A step that leaves the settled bills as they were leaves the sums over them. *)
SettledFacts ==
  /\ SettledCount \in Nat /\ SettledCount <= Len(bills) /\ Len(bills) <= SettledCount + 1 /\ Len(bills) \in Nat
  /\ SettledBills = 1..SettledCount
  /\ OpenBills = {n \in DOMAIN bills : bills[n].status \notin Settled}
  /\ DOMAIN bills = 1..Len(bills)
  /\ Latest = IF SettledCount = 0 THEN Unbilled ELSE bills[SettledCount].figures
  /\ \A n \in DOMAIN bills :
       /\ bills[n].quantity \in [DOMAIN bills[n].quantity -> Nat] /\ bills[n].figures \in FigureRecord
       /\ bills[n].paid \in Nat

LEMMA SettledFactsHold == TypeOK => SettledFacts
BY SettledAre, EndFollows, LatestIs, BillTyped DEF SettledFacts

LEMMA SettledFactsNext == TypeOK' => SettledFacts'
BY SettledFactsHold, PTL

LEMMA SameSettled ==
  ASSUME TypeOK, TypeOK', SettledCount' = SettledCount,
         \A m \in 1..SettledCount : bills'[m].figures = bills[m].figures /\ bills'[m].quantity = bills[m].quantity
  PROVE  /\ SettledBills' = SettledBills /\ Latest' = Latest
         /\ GrossCertified' = GrossCertified /\ Retained' = Retained /\ Recovered' = Recovered /\ NetCertified' = NetCertified
         /\ TaxLessBackCharges' = TaxLessBackCharges
         /\ SettledCount > 0 => LastQuantity' = LastQuantity
         /\ (\A m \in 1..SettledCount : bills'[m].paid = bills[m].paid) => PaidOnBills' = PaidOnBills
<1>0. SettledFacts /\ SettledFacts'
  BY SettledFactsHold, SettledFactsNext
<1>1. SettledBills' = SettledBills /\ SettledBills = 1..SettledCount
  BY <1>0 DEF SettledFacts
<1>2. Latest' = Latest
  BY <1>0 DEF SettledFacts
<1>3. GrossCertified' = GrossCertified
  BY <1>1 DEF GrossCertified
<1>4. Retained' = Retained
  BY <1>1 DEF Retained
<1>5. Recovered' = Recovered
  BY <1>1 DEF Recovered
<1>6. NetCertified' = NetCertified
  BY <1>1 DEF NetCertified
<1>7. TaxLessBackCharges' = TaxLessBackCharges
  BY <1>1 DEF TaxLessBackCharges
<1>8. SettledCount > 0 => LastQuantity' = LastQuantity
  BY <1>0 DEF LastQuantity, SettledFacts
<1>9. ASSUME \A m \in 1..SettledCount : bills'[m].paid = bills[m].paid PROVE PaidOnBills' = PaidOnBills
  BY <1>1, <1>9 DEF PaidOnBills
<1>10. QED BY <1>1, <1>2, <1>3, <1>4, <1>5, <1>6, <1>7, <1>8, <1>9

-----------------------------------------------------------------------------
(* A step that writes the bill after the settled ones. *)
BillPut(n, b) ==
  /\ n = SettledCount + 1 /\ n <= MaxBills
  /\ bills' \in Seq(Range(bills')) /\ Len(bills') = n /\ DOMAIN bills' = 1..n
  /\ bills'[n] = b /\ \A m \in 1..n - 1 : bills'[m] = bills[m]
  /\ UNCHANGED <<contract, money>>

LEMMA PutTyped ==
  ASSUME TypeOK, NEW n, NEW b, BillPut(n, b), \E given \in SUBSET Lines : b \in BillRecord(given),
         IF b.status \in Settled THEN b.figures.net >= 0 ELSE b.paid = 0
  PROVE  TypeOK'
<1>1. SettledCount \in Nat /\ n \in Nat /\ SettledCount <= Len(bills) /\ DOMAIN bills = 1..Len(bills) /\ Len(bills) \in Nat
  BY SettledAre DEF BillPut
<1>2. ASSUME NEW m \in 1..n - 1 PROVE m \in DOMAIN bills /\ bills[m].status \in Settled
  <2>1. n = SettledCount + 1
    BY DEF BillPut
  <2>2. m \in Nat /\ m <= SettledCount /\ m \in DOMAIN bills
    BY <1>1, <2>1
  <2>3. ASSUME bills[m].status \notin Settled PROVE FALSE
    <3>1. SettledCount = m - 1
      BY <2>2, <2>3, SettledAre
    <3>2. QED BY <1>1, <2>2, <3>1
  <2>4. QED BY <2>2, <2>3
<1>3. ASSUME NEW m \in DOMAIN bills'
      PROVE  /\ \E given \in SUBSET Lines : bills'[m] \in BillRecord(given)
             /\ IF bills'[m].status \in Settled THEN bills'[m].figures.net >= 0
                                                ELSE m = Len(bills') /\ bills'[m].paid = 0
  <2>1. CASE m = n
    BY <2>1 DEF BillPut
  <2>2. CASE m # n
    <3>1. m \in 1..n - 1 /\ bills'[m] = bills[m]
      BY <1>1, <2>2 DEF BillPut
    <3>2. QED BY <1>2, <3>1 DEF TypeOK
  <2>3. QED BY <2>1, <2>2
<1>4. /\ status' \in DOMAIN Transitions /\ terms' \in Terms
      /\ variation' \in [Variations -> {"none", "pending", "approved", "rejected"}]
      /\ advance' \in Nat /\ released' \in Nat /\ retentionPaid' \in Nat
  BY DEF BillPut, contract, money, TypeOK
<1>5. bills' \in Seq(Range(bills')) /\ Len(bills') <= MaxBills
  BY DEF BillPut
<1>6. QED BY <1>3, <1>4, <1>5 DEF TypeOK

LEMMA PutGrows ==
  ASSUME TypeOK, Grows, NEW n, NEW b, BillPut(n, b), Follows(b.quantity)
  PROVE  Grows'
<1>1. SettledCount \in Nat /\ n = SettledCount + 1 /\ SettledCount <= Len(bills) /\ DOMAIN bills = 1..Len(bills)
      /\ Len(bills) \in Nat /\ DOMAIN bills' = 1..n /\ bills'[n] = b /\ \A m \in 1..n - 1 : bills'[m] = bills[m]
  BY SettledAre DEF BillPut
<1>2. Billable' = Billable /\ terms' = terms
  BY DEF BillPut, contract, Billable
<1>3. ASSUME NEW k \in DOMAIN bills'
      PROVE  /\ DOMAIN bills'[k].quantity \subseteq Billable
             /\ \A l \in DOMAIN bills'[k].quantity : bills'[k].quantity[l] <= terms.quantity[l]
             /\ \A m \in 1..k - 1 : \A l \in DOMAIN bills'[m].quantity :
                  l \in DOMAIN bills'[k].quantity /\ bills'[m].quantity[l] <= bills'[k].quantity[l]
  <2>1. CASE k = n
    <3>1. bills'[k].quantity = b.quantity
      BY <1>1, <2>1
    <3>2. DOMAIN b.quantity \subseteq Billable /\ \A l \in DOMAIN b.quantity : b.quantity[l] <= terms.quantity[l]
      BY DEF Follows
    <3>3. ASSUME NEW m \in 1..k - 1, NEW l \in DOMAIN bills'[m].quantity
          PROVE  l \in DOMAIN b.quantity /\ bills'[m].quantity[l] <= b.quantity[l]
      <4>1. bills'[m] = bills[m] /\ m \in 1..SettledCount /\ SettledCount > 0
        BY <1>1, <2>1
      <4>2. l \in DOMAIN LastQuantity /\ bills[m].quantity[l] <= LastQuantity[l] /\ bills[m].quantity[l] \in Nat
        <5>1. SettledCount \in DOMAIN bills /\ m \in DOMAIN bills
          BY <1>1, <4>1
        <5>2. bills[m].quantity[l] \in Nat
          BY <3>3, <4>1, <5>1, BillTyped
        <5>3. CASE m = SettledCount
          BY <3>3, <4>1, <5>2, <5>3 DEF LastQuantity
        <5>4. CASE m # SettledCount
          <6>1. m \in 1..SettledCount - 1
            BY <1>1, <4>1, <5>4
          <6>2. QED BY <3>3, <4>1, <5>1, <5>2, <6>1 DEF Grows, LastQuantity
        <5>5. QED BY <5>3, <5>4
      <4>3. l \in DOMAIN b.quantity /\ LastQuantity[l] <= b.quantity[l] /\ b.quantity[l] \in Nat
        BY <4>1, <4>2 DEF Follows, Stated
      <4>4. LastQuantity[l] \in Nat
        BY <4>1, <4>2, LastBill
      <4>5. QED BY <4>1, <4>2, <4>3, <4>4
    <3>4. QED BY <3>1, <3>2, <3>3
  <2>2. CASE k # n
    <3>1. k \in 1..n - 1 /\ k \in DOMAIN bills /\ bills'[k] = bills[k] /\ \A m \in 1..k - 1 : bills'[m] = bills[m]
      BY <1>1, <2>2
    <3>2. QED BY <3>1 DEF Grows
  <2>3. QED BY <2>1, <2>2
<1>4. QED BY <1>2, <1>3 DEF Grows

(* An open bill changes none of the sums. *)
StatementStays ==
  /\ SettledBills' = SettledBills /\ GrossCertified' = GrossCertified /\ Retained' = Retained /\ Recovered' = Recovered
  /\ NetCertified' = NetCertified /\ TaxLessBackCharges' = TaxLessBackCharges

LEMMA OpenPut ==
  ASSUME TypeOK, BillsInv, NEW n, NEW b, BillPut(n, b), \E given \in SUBSET Lines : b \in BillRecord(given),
         b.status \notin Settled, b.paid = 0, Follows(b.quantity), status \in {"active", "completed"}
  PROVE  TypeOK' /\ BillsInv' /\ StatementStays /\ PaidOnBills' = PaidOnBills
         /\ \A m \in SettledBills : m \in DOMAIN bills' /\ bills'[m] = bills[m]
<1>1. TypeOK'
  BY PutTyped
<1>2. Grows'
  BY PutGrows DEF BillsInv
<1>3. SettledCount \in Nat /\ SettledBills = 1..SettledCount
  BY SettledAre
<1>4. SettledCount' = SettledCount
  BY <1>3 DEF SettledCount, BillPut
<1>5. \A m \in 1..SettledCount : bills'[m] = bills[m] /\ m \in DOMAIN bills'
  BY <1>3 DEF BillPut
<1>6. StatementStays /\ PaidOnBills' = PaidOnBills /\ Latest' = Latest /\ (SettledCount > 0 => LastQuantity' = LastQuantity)
  BY <1>1, <1>4, <1>5, SameSettled DEF StatementStays
<1>7. terms' = terms /\ advance' = advance /\ released' = released /\ retentionPaid' = retentionPaid /\ status' = status
  BY DEF BillPut, contract, money
<1>8. ToDateAddsUp'
  BY <1>4, <1>6, <1>7 DEF BillsInv, ToDateAddsUp, StatementStays, Value
<1>9. InForce'
  BY <1>7 DEF InForce
<1>10. NotOverpaid'
  BY <1>3, <1>5, <1>6 DEF BillsInv, NotOverpaid, StatementStays
<1>11. PotsHold'
  BY <1>6, <1>7 DEF BillsInv, PotsHold, StatementStays
<1>12. QED BY <1>1, <1>2, <1>3, <1>5, <1>6, <1>8, <1>9, <1>10, <1>11 DEF BillsInv

LEMMA NextTotal ==
  ASSUME NEW k \in Nat, NEW f \in [1..k -> Int], NEW g \in [1..k + 1 -> Int], \A m \in 1..k : g[m] = f[m]
  PROVE  SumFunction(g) = SumFunction(f) + g[k + 1] /\ SumFunction(f) \in Int
<1>1. IsFiniteSet(1..k) /\ IsFiniteSet(1..k + 1) /\ k + 1 \in 1..k + 1
  BY FS_Interval
<1>2. SumFunction(g) = g[k + 1] + SumFunction([m \in (1..k + 1) \ {k + 1} |-> g[m]])
  BY <1>1, TotalRemove, ZenonT(60)
<1>3. (1..k + 1) \ {k + 1} = 1..k
  OBVIOUS
<1>4. [m \in (1..k + 1) \ {k + 1} |-> g[m]] = f
  BY <1>3
<1>5. SumFunction(f) \in Int
  BY <1>1, TotalInt
<1>6. g[k + 1] \in Int
  OBVIOUS
<1>7. QED BY <1>2, <1>4, <1>5, <1>6

(* Every settled bill has its share of each sum. *)
LEMMA SettledPut ==
  ASSUME TypeOK, TypeOK', NEW n, NEW b, BillPut(n, b), b.status \in Settled
  PROVE  /\ SettledCount' = n /\ SettledBills = 1..n - 1 /\ SettledBills' = 1..n /\ n \in Nat
         /\ Latest' = b.figures /\ LastQuantity' = b.quantity
         /\ GrossCertified' = GrossCertified + b.figures.gross /\ Retained' = Retained + b.figures.retention
         /\ Recovered' = Recovered + b.figures.recovery /\ NetCertified' = NetCertified + b.figures.net
         /\ TaxLessBackCharges' = TaxLessBackCharges + (b.figures.tax - b.figures.deductions)
         /\ PaidOnBills' = PaidOnBills + b.paid
         /\ GrossCertified \in Int /\ Retained \in Int /\ Recovered \in Int /\ NetCertified \in Int
         /\ TaxLessBackCharges \in Int /\ PaidOnBills \in Int
<1> DEFINE k == SettledCount
<1>0. SettledFacts /\ SettledFacts'
  BY SettledFactsHold, SettledFactsNext
<1>1. k \in Nat /\ n = k + 1 /\ k <= Len(bills) /\ DOMAIN bills = 1..Len(bills) /\ Len(bills) \in Nat
      /\ DOMAIN bills' = 1..n /\ Len(bills') = n /\ bills'[n] = b /\ \A m \in 1..k : bills'[m] = bills[m]
  BY <1>0 DEF BillPut, SettledFacts
<1>2. \A m \in DOMAIN bills' : bills'[m].status \in Settled
  <2>1. \A m \in 1..k : m \in DOMAIN bills /\ m \in SettledBills
    BY <1>0, <1>1 DEF SettledFacts
  <2>2. \A m \in 1..k : bills[m].status \in Settled
    BY <2>1 DEF SettledBills, SettledBefore
  <2>3. QED BY <1>1, <2>2
<1>3. SettledCount' = n
  BY <1>1, <1>2 DEF SettledCount
<1>4. SettledBills = 1..k /\ SettledBills' = 1..k + 1 /\ n \in Nat /\ n # 0
  BY <1>0, <1>1, <1>3 DEF SettledFacts
<1>5. Latest' = b.figures /\ LastQuantity' = b.quantity
  BY <1>0, <1>1, <1>3, <1>4 DEF SettledFacts, LastQuantity
<1>6. \A m \in 1..k : bills[m].figures \in FigureRecord /\ bills[m].paid \in Nat
  BY <1>0, <1>1 DEF SettledFacts
<1>7. \A m \in 1..k + 1 : bills'[m].figures \in FigureRecord /\ bills'[m].paid \in Nat
  BY <1>0, <1>1 DEF SettledFacts
<1> HIDE DEF k
<1>8. GrossCertified' = GrossCertified + b.figures.gross /\ GrossCertified \in Int
  <2> DEFINE f == [m \in 1..k |-> bills[m].figures.gross]
             g == [m \in 1..k + 1 |-> bills'[m].figures.gross]
  <2>1. f \in [1..k -> Int] /\ g \in [1..k + 1 -> Int] /\ (\A m \in 1..k : g[m] = f[m]) /\ g[k + 1] = b.figures.gross
    BY <1>1, <1>6, <1>7, SMTT(30) DEF FigureRecord
  <2>2. GrossCertified = SumFunction(f) /\ GrossCertified' = SumFunction(g)
    BY <1>4 DEF GrossCertified
  <2> HIDE DEF f, g
  <2>3. QED BY <1>1, <2>1, <2>2, NextTotal
<1>9. Retained' = Retained + b.figures.retention /\ Retained \in Int
  <2> DEFINE f == [m \in 1..k |-> bills[m].figures.retention]
             g == [m \in 1..k + 1 |-> bills'[m].figures.retention]
  <2>1. f \in [1..k -> Int] /\ g \in [1..k + 1 -> Int] /\ (\A m \in 1..k : g[m] = f[m]) /\ g[k + 1] = b.figures.retention
    BY <1>1, <1>6, <1>7 DEF FigureRecord
  <2>2. Retained = SumFunction(f) /\ Retained' = SumFunction(g)
    BY <1>4 DEF Retained
  <2> HIDE DEF f, g
  <2>3. QED BY <1>1, <2>1, <2>2, NextTotal
<1>10. Recovered' = Recovered + b.figures.recovery /\ Recovered \in Int
  <2> DEFINE f == [m \in 1..k |-> bills[m].figures.recovery]
             g == [m \in 1..k + 1 |-> bills'[m].figures.recovery]
  <2>1. f \in [1..k -> Int] /\ g \in [1..k + 1 -> Int] /\ (\A m \in 1..k : g[m] = f[m]) /\ g[k + 1] = b.figures.recovery
    BY <1>1, <1>6, <1>7 DEF FigureRecord
  <2>2. Recovered = SumFunction(f) /\ Recovered' = SumFunction(g)
    BY <1>4 DEF Recovered
  <2> HIDE DEF f, g
  <2>3. QED BY <1>1, <2>1, <2>2, NextTotal
<1>11. NetCertified' = NetCertified + b.figures.net /\ NetCertified \in Int
  <2> DEFINE f == [m \in 1..k |-> bills[m].figures.net]
             g == [m \in 1..k + 1 |-> bills'[m].figures.net]
  <2>1. f \in [1..k -> Int] /\ g \in [1..k + 1 -> Int] /\ (\A m \in 1..k : g[m] = f[m]) /\ g[k + 1] = b.figures.net
    BY <1>1, <1>6, <1>7 DEF FigureRecord
  <2>2. NetCertified = SumFunction(f) /\ NetCertified' = SumFunction(g)
    BY <1>4 DEF NetCertified
  <2> HIDE DEF f, g
  <2>3. QED BY <1>1, <2>1, <2>2, NextTotal
<1>12. TaxLessBackCharges' = TaxLessBackCharges + (b.figures.tax - b.figures.deductions) /\ TaxLessBackCharges \in Int
  <2> DEFINE f == [m \in 1..k |-> bills[m].figures.tax - bills[m].figures.deductions]
             g == [m \in 1..k + 1 |-> bills'[m].figures.tax - bills'[m].figures.deductions]
  <2>1. f \in [1..k -> Int] /\ g \in [1..k + 1 -> Int] /\ (\A m \in 1..k : g[m] = f[m]) /\ g[k + 1] = (b.figures.tax - b.figures.deductions)
    BY <1>1, <1>6, <1>7, SMTT(30) DEF FigureRecord
  <2>2. TaxLessBackCharges = SumFunction(f) /\ TaxLessBackCharges' = SumFunction(g)
    BY <1>4 DEF TaxLessBackCharges
  <2> HIDE DEF f, g
  <2>3. QED BY <1>1, <2>1, <2>2, NextTotal
<1>13. PaidOnBills' = PaidOnBills + b.paid /\ PaidOnBills \in Int
  <2> DEFINE f == [m \in 1..k |-> bills[m].paid]
             g == [m \in 1..k + 1 |-> bills'[m].paid]
  <2>1. f \in [1..k -> Int] /\ g \in [1..k + 1 -> Int] /\ (\A m \in 1..k : g[m] = f[m]) /\ g[k + 1] = b.paid
    BY <1>1, <1>6, <1>7 DEF FigureRecord
  <2>2. PaidOnBills = SumFunction(f) /\ PaidOnBills' = SumFunction(g)
    BY <1>4 DEF PaidOnBills
  <2> HIDE DEF f, g
  <2>3. QED BY <1>1, <2>1, <2>2, NextTotal
<1>14. SettledBills = 1..n - 1 /\ SettledBills' = 1..n
  BY <1>1, <1>4
<1>15. QED BY <1>3, <1>4, <1>5, <1>8, <1>9, <1>10, <1>11, <1>12, <1>13, <1>14

LEMMA CertifiedPut ==
  ASSUME TypeOK, BillsInv, NEW n, NEW b, BillPut(n, b), \E given \in SUBSET Lines : b \in BillRecord(given),
         b.status \in Settled, b.paid = 0, b.figures.net >= 0, b.status = "paid" <=> b.figures.net = 0,
         Follows(b.quantity), FiguresFollow(b.figures, b.quantity, b.figures.deductions),
         status \in {"active", "completed"}
  PROVE  TypeOK' /\ BillsInv'
<1>1. TypeOK'
  BY PutTyped
<1>2. Grows'
  BY PutGrows DEF BillsInv
<1>3. /\ SettledCount' = n /\ SettledBills = 1..n - 1 /\ SettledBills' = 1..n /\ n \in Nat
      /\ Latest' = b.figures /\ LastQuantity' = b.quantity
      /\ GrossCertified' = GrossCertified + b.figures.gross /\ Retained' = Retained + b.figures.retention
      /\ Recovered' = Recovered + b.figures.recovery
  BY <1>1, SettledPut
<1>4. terms' = terms /\ advance' = advance /\ released' = released /\ retentionPaid' = retentionPaid /\ status' = status
  BY DEF BillPut, contract, money
<1>5. /\ b.figures \in FigureRecord
      /\ b.figures.grossToDate = Value(b.quantity) /\ b.figures.gross = b.figures.grossToDate - Latest.grossToDate
      /\ b.figures.retentionToDate = BasisPointsOf(b.figures.grossToDate, terms.retentionBp)
      /\ b.figures.retention = b.figures.retentionToDate - Latest.retentionToDate
      /\ b.figures.recovery = b.figures.recoveredToDate - Latest.recoveredToDate
      /\ b.figures.recoveredToDate <= advance
  BY DEF FiguresFollow
<1>6. /\ GrossCertified = Latest.grossToDate /\ Retained = Latest.retentionToDate /\ Recovered = Latest.recoveredToDate
      /\ Latest.grossToDate \in Nat /\ Latest.retentionToDate \in Nat /\ Latest.recoveredToDate \in Nat
  BY LatestTyped DEF BillsInv, ToDateAddsUp
<1>7. /\ b.figures.grossToDate \in Nat /\ b.figures.retentionToDate \in Nat /\ b.figures.recoveredToDate \in Nat
      /\ b.figures.retention \in Nat
  BY <1>5 DEF FigureRecord
<1>8. GrossCertified' = b.figures.grossToDate /\ Retained' = b.figures.retentionToDate /\ Recovered' = b.figures.recoveredToDate
  BY <1>3, <1>5, <1>6, <1>7, SMTT(30)
<1>9. Value(b.quantity)' = Value(b.quantity) /\ (Value(LastQuantity))' = Value(b.quantity)
  BY <1>3, <1>4 DEF Value
<1>10. ToDateAddsUp'
  BY <1>3, <1>4, <1>5, <1>8, <1>9 DEF ToDateAddsUp
<1>11. InForce'
  BY <1>4 DEF InForce
<1>12. NotOverpaid'
  <2>1. ASSUME NEW m \in 1..n
        PROVE  /\ bills'[m].paid <= bills'[m].figures.net
               /\ bills'[m].status = "paid" <=> bills'[m].paid = bills'[m].figures.net
    <3>1. CASE m = n
      <4>1. bills'[m] = b /\ b.figures.net \in Int
        BY <1>5, <3>1 DEF BillPut, FigureRecord
      <4>2. QED BY <4>1
    <3>2. CASE m # n
      <4>1. m \in 1..n - 1 /\ bills'[m] = bills[m] /\ m \in SettledBills
        BY <1>3, <3>2 DEF BillPut
      <4>2. QED BY <4>1 DEF BillsInv, NotOverpaid
    <3>3. QED BY <3>1, <3>2
  <2>2. QED BY <1>3, <2>1 DEF NotOverpaid
<1>13. PotsHold'
  <2>1. Retained \in Nat /\ Retained' >= Retained
    BY <1>3, <1>6, <1>7
  <2>2. released \in Nat /\ retentionPaid \in Nat
    BY DEF TypeOK
  <2>3. Retained' \in Nat
    BY <1>7, <1>8
  <2>4. QED BY <1>4, <2>1, <2>2, <2>3 DEF BillsInv, PotsHold
<1>14. QED BY <1>1, <1>2, <1>10, <1>11, <1>12, <1>13 DEF BillsInv

-----------------------------------------------------------------------------
(* The contract's own steps leave the bills alone. *)
LEMMA SameBills ==
  ASSUME TypeOK, TypeOK', bills' = bills
  PROVE  /\ SettledCount' = SettledCount /\ OpenBills' = OpenBills /\ StatementStays /\ Latest' = Latest
         /\ PaidOnBills' = PaidOnBills /\ (SettledCount > 0 => LastQuantity' = LastQuantity)
<1>1. SettledCount' = SettledCount
  BY DEF SettledCount
<1>2. OpenBills' = OpenBills
  BY DEF OpenBills, SettledBills, SettledBefore
<1>3. QED BY <1>1, <1>2, SameSettled DEF StatementStays

LEMMA ContractStep ==
  ASSUME TypeOK, BillsInv, TypeOK', bills' = bills, Billable \subseteq Billable',
         terms' = terms \/ bills = <<>>, advance' >= advance, InForce', PotsHold'
  PROVE  BillsInv'
<1>1. /\ SettledCount' = SettledCount /\ StatementStays /\ Latest' = Latest
      /\ (SettledCount > 0 => LastQuantity' = LastQuantity) /\ SettledBills' = SettledBills
  BY SameBills DEF StatementStays
<1>2. Grows'
  <2>1. CASE terms' = terms
    BY <2>1 DEF BillsInv, Grows
  <2>2. CASE bills = <<>>
    BY <2>2 DEF Grows
  <2>3. QED BY <2>1, <2>2
<1>3. ToDateAddsUp'
  <2>1. Latest.recoveredToDate \in Nat /\ advance \in Nat /\ advance' \in Nat
    BY LatestTyped DEF BillsInv, TypeOK
  <2>2. Latest'.recoveredToDate <= advance'
    BY <1>1, <2>1 DEF BillsInv, ToDateAddsUp
  <2>3. CASE terms' = terms
    BY <1>1, <2>2, <2>3 DEF BillsInv, ToDateAddsUp, StatementStays, Value
  <2>4. CASE bills = <<>>
    <3>1. SettledCount = 0
      BY <2>4, SettledAre
    <3>2. QED BY <1>1, <2>2, <3>1 DEF BillsInv, ToDateAddsUp, StatementStays
  <2>5. QED BY <2>3, <2>4
<1>4. NotOverpaid'
  BY <1>1 DEF BillsInv, NotOverpaid
<1>5. QED BY <1>2, <1>3, <1>4 DEF BillsInv

LEMMA HeldInt == ASSUME TypeOK, BillsInv PROVE Retained \in Nat /\ Held \in Nat
<1>1. Retained \in Nat
  BY LatestTyped DEF BillsInv, ToDateAddsUp
<1>2. QED BY <1>1 DEF BillsInv, PotsHold, Held, TypeOK

LEMMA EditTermsKeeps ==
  ASSUME TypeOK, BillsInv, NEW t \in Terms, EditTerms(t) PROVE TypeOK' /\ BillsInv'
<1>1. bills = <<>>
  BY DEF EditTerms, BillsInv, InForce
<1>2. /\ status' = status /\ terms' = t /\ variation' = variation /\ bills' = bills
      /\ advance' = advance /\ released' = released /\ retentionPaid' = retentionPaid
  BY DEF EditTerms, money
<1>3. TypeOK'
  BY <1>2 DEF TypeOK
<1>4. Billable' = Billable /\ advance' >= advance
  BY <1>2 DEF Billable, TypeOK
<1>5. OpenBills' = OpenBills /\ Retained' = Retained
  BY <1>2, <1>3, SameBills DEF StatementStays
<1>6. InForce' /\ PotsHold'
  BY <1>2, <1>5 DEF BillsInv, InForce, PotsHold
<1>7. QED BY <1>1, <1>2, <1>3, <1>4, <1>6, ContractStep

LEMMA SetStatusKeeps ==
  ASSUME TypeOK, BillsInv, NEW to \in {"active", "completed", "closed", "terminated"}, SetStatus(to)
  PROVE  TypeOK' /\ BillsInv' /\ status # "closed"
<1>1. /\ status' = to /\ terms' = terms /\ variation' = variation /\ bills' = bills
      /\ advance' = advance /\ released' = released /\ retentionPaid' = retentionPaid
  BY DEF SetStatus, money
<1>2. TypeOK'
  BY <1>1 DEF TypeOK, Transitions
<1>3. Billable' = Billable /\ advance' >= advance
  BY <1>1 DEF Billable, TypeOK
<1>4. OpenBills' = OpenBills /\ Retained' = Retained
  BY <1>1, <1>2, SameBills DEF StatementStays
<1>5. InForce'
  BY <1>1, <1>4 DEF InForce, SetStatus
<1>6. PotsHold'
  BY <1>1, <1>4 DEF BillsInv, PotsHold
<1>7. status # "closed"
  BY DEF SetStatus, Transitions
<1>8. QED BY <1>1, <1>2, <1>3, <1>5, <1>6, <1>7, ContractStep

LEMMA VariationKeeps ==
  ASSUME TypeOK, BillsInv, NEW v \in Variations, NEW to \in {"pending", "approved", "rejected"},
         variation[v] # "approved", variation' = [variation EXCEPT ![v] = to],
         UNCHANGED <<status, terms, bills, money>>
  PROVE  TypeOK' /\ BillsInv'
<1>1. /\ status' = status /\ terms' = terms /\ bills' = bills
      /\ advance' = advance /\ released' = released /\ retentionPaid' = retentionPaid
  BY DEF money
<1>2. TypeOK'
  BY <1>1 DEF TypeOK
<1>3. Billable \subseteq Billable' /\ advance' >= advance
  BY <1>1 DEF Billable, TypeOK
<1>4. OpenBills' = OpenBills /\ Retained' = Retained
  BY <1>1, <1>2, SameBills DEF StatementStays
<1>5. InForce' /\ PotsHold'
  BY <1>1, <1>4 DEF BillsInv, InForce, PotsHold
<1>6. QED BY <1>1, <1>2, <1>3, <1>5, ContractStep

LEMMA MoneyKeeps ==
  ASSUME TypeOK, BillsInv, UNCHANGED <<contract, bills>>, status # "draft",
         advance' \in Nat, advance' >= advance, released' \in Nat, released' <= Retained,
         retentionPaid' \in Nat, retentionPaid' <= released'
  PROVE  TypeOK' /\ BillsInv'
<1>1. status' = status /\ terms' = terms /\ variation' = variation /\ bills' = bills
  BY DEF contract
<1>2. TypeOK'
  BY <1>1 DEF TypeOK
<1>3. Billable' = Billable
  BY <1>1 DEF Billable
<1>4. OpenBills' = OpenBills /\ Retained' = Retained
  BY <1>1, <1>2, SameBills DEF StatementStays
<1>5. InForce' /\ PotsHold'
  BY <1>1, <1>4 DEF BillsInv, InForce, PotsHold
<1>6. QED BY <1>1, <1>2, <1>3, <1>5, ContractStep

LEMMA ReleaseRetentionKeeps ==
  ASSUME TypeOK, BillsInv, NEW amount \in Payments \cup {Held}, ReleaseRetention(amount)
  PROVE  TypeOK' /\ BillsInv' /\ amount \in Int
<1>1. amount \in Int /\ amount > 0 /\ amount <= Held /\ Held = Retained - released /\ Retained \in Nat
      /\ advance \in Nat /\ released \in Nat /\ retentionPaid \in Nat /\ retentionPaid <= released
  BY RunningBillsAssumption, HeldInt DEF ReleaseRetention, Held, TypeOK, BillsInv, PotsHold
<1>2. released' = released + amount /\ advance' = advance /\ retentionPaid' = retentionPaid
      /\ UNCHANGED <<contract, bills>> /\ status # "draft"
  BY DEF ReleaseRetention
<1>3. /\ advance' \in Nat /\ advance' >= advance /\ released' \in Nat /\ released' <= Retained
      /\ retentionPaid' \in Nat /\ retentionPaid' <= released'
  BY <1>1, <1>2
<1>4. QED BY <1>1, <1>2, <1>3, MoneyKeeps

LEMMA PayAdvanceKeeps ==
  ASSUME TypeOK, BillsInv, NEW amount \in Payments \cup {terms.advance - advance}, PayAdvance(amount)
  PROVE  TypeOK' /\ BillsInv' /\ amount \in Int
<1>1. amount \in Int /\ amount > 0 /\ Retained \in Nat
      /\ advance \in Nat /\ released \in Nat /\ retentionPaid \in Nat /\ retentionPaid <= released /\ released <= Retained
  BY RunningBillsAssumption, HeldInt, TermsTyped DEF PayAdvance, TypeOK, BillsInv, PotsHold
<1>2. advance' = advance + amount /\ released' = released /\ retentionPaid' = retentionPaid
      /\ UNCHANGED <<contract, bills>> /\ status # "draft"
  BY DEF PayAdvance
<1>3. /\ advance' \in Nat /\ advance' >= advance /\ released' \in Nat /\ released' <= Retained
      /\ retentionPaid' \in Nat /\ retentionPaid' <= released'
  BY <1>1, <1>2
<1>4. QED BY <1>1, <1>2, <1>3, MoneyKeeps

LEMMA PayRetentionKeeps ==
  ASSUME TypeOK, BillsInv, NEW amount \in Payments \cup {released - retentionPaid}, PayRetention(amount)
  PROVE  TypeOK' /\ BillsInv' /\ amount \in Int
<1>1. amount \in Int /\ amount > 0 /\ amount <= released - retentionPaid /\ Retained \in Nat
      /\ advance \in Nat /\ released \in Nat /\ retentionPaid \in Nat /\ released <= Retained
  <2>1. advance \in Nat /\ released \in Nat /\ retentionPaid \in Nat
    BY DEF TypeOK
  <2>2. Retained \in Nat /\ released <= Retained
    BY HeldInt DEF BillsInv, PotsHold
  <2>3. amount \in Int
    BY <2>1, RunningBillsAssumption
  <2>4. QED BY <2>1, <2>2, <2>3 DEF PayRetention
<1>2. advance' = advance /\ released' = released /\ retentionPaid' = retentionPaid + amount
      /\ UNCHANGED <<contract, bills>> /\ status # "draft"
  BY DEF PayRetention
<1>3. /\ advance' \in Nat /\ advance' >= advance /\ released' \in Nat /\ released' <= Retained
      /\ retentionPaid' \in Nat /\ retentionPaid' <= released'
  BY <1>1, <1>2
<1>4. QED BY <1>1, <1>2, <1>3, MoneyKeeps

-----------------------------------------------------------------------------
(* Writing one bill. *)
LEMMA OneChanges ==
  ASSUME NEW S, IsFiniteSet(S), NEW f \in [S -> Int], NEW g \in [S -> Int], NEW a \in S,
         \A x \in S : x # a => g[x] = f[x]
  PROVE  SumFunction(g) = SumFunction(f) + (g[a] - f[a]) /\ SumFunction(f) \in Int
<1>0. IsFiniteSet(S) /\ f \in [S -> Int] /\ g \in [S -> Int] /\ a \in S
  OBVIOUS
<1>1. SumFunction(f) = f[a] + SumFunction([x \in S \ {a} |-> f[x]])
  BY ONLY <1>0, TotalRemove, ZenonT(60)
<1>2. SumFunction(g) = g[a] + SumFunction([x \in S \ {a} |-> g[x]])
  BY ONLY <1>0, TotalRemove, ZenonT(60)
<1>3. [x \in S \ {a} |-> g[x]] = [x \in S \ {a} |-> f[x]]
  OBVIOUS
<1>4. SumFunction(f) \in Int
  BY TotalInt
<1>5. SumFunction([x \in S \ {a} |-> f[x]]) \in Int
  <2>1. IsFiniteSet(S \ {a}) /\ [x \in S \ {a} |-> f[x]] \in [S \ {a} -> Int]
    BY FS_Subset
  <2>2. QED BY <2>1, TotalInt
<1>6. f[a] \in Int /\ g[a] \in Int
  OBVIOUS
<1>7. QED BY <1>1, <1>2, <1>3, <1>4, <1>5, <1>6

LEMMA IntoRange == ASSUME NEW S, NEW s \in Seq(S) PROVE s \in Seq(Range(s))
<1>1. \A n \in 1..Len(s) : s[n] \in Range(s)
  BY DEF Range
<1>2. QED BY <1>1, SeqInto

LEMMA StoredIs ==
  ASSUME TypeOK, NEW n \in DOMAIN bills, NEW b, bills' = Stored(n, b)
  PROVE  /\ bills' \in Seq(Range(bills')) /\ Len(bills') = Len(bills) /\ DOMAIN bills' = DOMAIN bills
         /\ bills'[n] = b /\ \A m \in DOMAIN bills : m # n => bills'[m] = bills[m]
<1>1. bills' \in [1..Len(bills) -> Range(bills) \cup {b}]
  BY DEF Stored, TypeOK
<1>2. Len(bills) \in Nat /\ DOMAIN bills = 1..Len(bills)
  BY DEF TypeOK
<1>3. bills' \in Seq(Range(bills) \cup {b})
  BY <1>1, <1>2, SeqDef
<1>4. DOMAIN bills' = DOMAIN bills
  BY <1>1, <1>2
<1>5. Len(bills') = Len(bills)
  BY <1>2, <1>3, <1>4
<1>6. QED BY <1>2, <1>3, <1>4, <1>5, IntoRange DEF Stored

LEMMA StoredPut ==
  ASSUME TypeOK, NEW n \in DOMAIN bills, bills[n].status \notin Settled, NEW b, bills' = Stored(n, b), KeepContract
  PROVE  BillPut(n, b)
<1>1. n = Len(bills) /\ SettledCount = n - 1 /\ DOMAIN bills = 1..Len(bills) /\ Len(bills) \in Nat
  BY SettledAre
<1>2. Len(bills) <= MaxBills
  BY DEF TypeOK
<1>3. QED BY <1>1, <1>2, StoredIs DEF BillPut, KeepContract

LEMMA AppendPut ==
  ASSUME TypeOK, OpenBills = {}, Len(bills) + 1 <= MaxBills, NEW b, bills' = Append(bills, b), KeepContract
  PROVE  BillPut(Len(bills) + 1, b)
<1>1. SettledCount = Len(bills) /\ Len(bills) \in Nat /\ bills \in Seq(Range(bills))
  BY SettledAre DEF TypeOK
<1>2. bills \in Seq(Range(bills) \cup {b})
  <2>1. \A n \in 1..Len(bills) : bills[n] \in Range(bills) \cup {b}
    BY DEF Range, TypeOK
  <2>2. QED BY <1>1, <2>1, SeqInto
<1>3. bills' \in Seq(Range(bills) \cup {b}) /\ Len(bills') = Len(bills) + 1 /\ bills'[Len(bills) + 1] = b
      /\ \A m \in 1..Len(bills) : bills'[m] = bills[m]
  <2>1. b \in Range(bills) \cup {b}
    OBVIOUS
  <2>2. QED BY <1>2, <2>1
<1>4. bills' \in Seq(Range(bills'))
  BY <1>3, IntoRange
<1>5. QED BY <1>1, <1>3, <1>4 DEF BillPut, KeepContract

LEMMA FrontIs ==
  ASSUME TypeOK, NEW n \in DOMAIN bills, n = Len(bills), bills' = RemoveAt(bills, n)
  PROVE  bills' \in Seq(Range(bills')) /\ Len(bills') = n - 1 /\ \A m \in 1..n - 1 : bills'[m] = bills[m]
<1>1. bills \in Seq(Range(bills)) /\ n \in Nat /\ n > 0 /\ Len(bills) = n
  BY DEF TypeOK
<1>2. bills' = SubSeq(bills, 1, n - 1) \o SubSeq(bills, n + 1, n)
  BY <1>1 DEF RemoveAt
<1>3. SubSeq(bills, n + 1, n) = <<>>
  BY <1>1
<1>4. SubSeq(bills, 1, n - 1) \in Seq(Range(bills)) /\ Len(SubSeq(bills, 1, n - 1)) = n - 1
      /\ \A m \in 1..n - 1 : SubSeq(bills, 1, n - 1)[m] = bills[m]
  BY <1>1
<1>5. bills' = SubSeq(bills, 1, n - 1)
  BY <1>2, <1>3, <1>4
<1>6. QED BY <1>4, <1>5, IntoRange

LEMMA RemoveBillKeeps ==
  ASSUME TypeOK, BillsInv, NEW n \in DOMAIN bills, RemoveBill(n)
  PROVE  TypeOK' /\ BillsInv' /\ StatementStays /\ PaidOnBills' = PaidOnBills
         /\ \A m \in SettledBills : bills'[m] = bills[m]
<1>1. bills[n].status \notin Settled
  BY DEF RemoveBill, Settled
<1>2. n = Len(bills) /\ SettledCount = n - 1 /\ DOMAIN bills = 1..Len(bills) /\ Len(bills) \in Nat
      /\ SettledBills = 1..SettledCount
  BY <1>1, SettledAre
<1>3. bills' \in Seq(Range(bills')) /\ Len(bills') = n - 1 /\ \A m \in 1..n - 1 : bills'[m] = bills[m]
  BY <1>2, FrontIs DEF RemoveBill
<1>4. DOMAIN bills' = 1..n - 1
  BY <1>3
<1>5. status' = status /\ terms' = terms /\ variation' = variation
      /\ advance' = advance /\ released' = released /\ retentionPaid' = retentionPaid
  BY DEF RemoveBill, KeepContract, contract, money
<1>6. \A m \in 1..n - 1 : bills[m].status \in Settled /\ m \in DOMAIN bills
  <2>1. \A m \in 1..n - 1 : m \in SettledBills
    BY <1>2
  <2>2. QED BY <2>1 DEF SettledBills, SettledBefore
<1>7. TypeOK'
  <2>1. \A m \in DOMAIN bills' : /\ \E given \in SUBSET Lines : bills'[m] \in BillRecord(given)
                                 /\ bills'[m].status \in Settled /\ bills'[m].figures.net >= 0
    BY <1>3, <1>4, <1>6 DEF TypeOK
  <2>2. Len(bills') <= MaxBills
    BY <1>2, <1>3, RunningBillsAssumption DEF TypeOK
  <2>3. /\ status' \in DOMAIN Transitions /\ terms' \in Terms
        /\ variation' \in [Variations -> {"none", "pending", "approved", "rejected"}]
        /\ advance' \in Nat /\ released' \in Nat /\ retentionPaid' \in Nat
    BY <1>5 DEF TypeOK
  <2>4. QED BY <1>3, <2>1, <2>2, <2>3 DEF TypeOK
<1>8. SettledCount' = SettledCount
  BY <1>2, <1>3, <1>4, <1>6 DEF SettledCount
<1>9. StatementStays /\ PaidOnBills' = PaidOnBills /\ Latest' = Latest /\ (SettledCount > 0 => LastQuantity' = LastQuantity)
  BY <1>2, <1>3, <1>7, <1>8, SameSettled DEF StatementStays
<1>10. Grows'
  <2>1. Billable' = Billable
    BY <1>5 DEF Billable
  <2>2. \A m \in DOMAIN bills' : m \in DOMAIN bills /\ bills'[m] = bills[m] /\ \A k \in 1..m - 1 : bills'[k] = bills[k]
    BY <1>2, <1>3, <1>4
  <2>3. QED BY <1>5, <2>1, <2>2 DEF BillsInv, Grows
<1>11. ToDateAddsUp'
  BY <1>5, <1>8, <1>9 DEF BillsInv, ToDateAddsUp, StatementStays, Value
<1>12. InForce'
  <2>1. OpenBills' = {}
    BY <1>3, <1>4, <1>6, <1>7, SettledFactsNext DEF SettledFacts
  <2>2. status # "draft"
    BY DEF BillsInv, InForce
  <2>3. QED BY <1>5, <2>1, <2>2 DEF InForce
<1>13. NotOverpaid'
  BY <1>2, <1>3, <1>9 DEF BillsInv, NotOverpaid, StatementStays
<1>14. PotsHold'
  BY <1>5, <1>9 DEF BillsInv, PotsHold, StatementStays
<1>15. QED BY <1>2, <1>3, <1>7, <1>9, <1>10, <1>11, <1>12, <1>13, <1>14 DEF BillsInv

LEMMA PayBillKeeps ==
  ASSUME TypeOK, BillsInv, NEW n \in DOMAIN bills,
         NEW amount \in Payments \cup {bills[n].figures.net - bills[n].paid}, PayBill(n, amount)
  PROVE  /\ TypeOK' /\ BillsInv' /\ StatementStays /\ PaidOnBills' = PaidOnBills + amount
         /\ amount \in Int /\ amount > 0
         /\ \A m \in SettledBills : /\ bills'[m].quantity = bills[m].quantity /\ bills'[m].figures = bills[m].figures
                                    /\ bills'[m].paid >= bills[m].paid
<1> DEFINE owed == bills[n].figures.net - bills[n].paid
           b == [bills[n] EXCEPT !.paid = @ + amount, !.status = IF amount = owed THEN "paid" ELSE "certified"]
<1>1. /\ bills[n] \in BillRecord(DOMAIN bills[n].quantity) /\ DOMAIN bills[n].quantity \subseteq Lines
      /\ bills[n].figures.net \in Int /\ bills[n].paid \in Nat /\ bills[n].status = "certified"
      /\ amount \in Int /\ amount > 0 /\ amount <= owed /\ bills' = Stored(n, b) /\ KeepContract
  BY RunningBillsAssumption, BillTyped DEF PayBill, FigureRecord
<1>2. /\ b.paid = bills[n].paid + amount /\ b.status = (IF amount = owed THEN "paid" ELSE "certified")
      /\ b.quantity = bills[n].quantity /\ b.figures = bills[n].figures /\ b \in BillRecord(DOMAIN bills[n].quantity)
  <2>1. bills[n].paid + amount \in Nat /\ (IF amount = owed THEN "paid" ELSE "certified") \in {"draft", "submitted"} \cup Settled
    BY <1>1 DEF Settled
  <2> DEFINE status1 == IF amount = owed THEN "paid" ELSE "certified"
             paid1 == bills[n].paid + amount
  <2>2. b = [[bills[n] EXCEPT !.paid = paid1] EXCEPT !.status = status1]
    BY <1>1 DEF BillRecord
  <2> HIDE DEF b, owed, status1, paid1
  <2>3. paid1 \in Nat /\ status1 \in {"draft", "submitted"} \cup Settled
    BY <2>1 DEF paid1, status1
  <2>4. /\ b.paid = paid1 /\ b.status = status1 /\ b.quantity = bills[n].quantity /\ b.figures = bills[n].figures
        /\ b \in BillRecord(DOMAIN bills[n].quantity)
    BY <1>1, <2>2, <2>3 DEF BillRecord
  <2>5. QED BY <2>4 DEF paid1, status1
<1>3. b.paid \in Nat /\ b.paid <= b.figures.net /\ (b.status = "paid" <=> b.paid = b.figures.net) /\ b.status \in Settled
      /\ b.paid >= bills[n].paid
  BY <1>1, <1>2 DEF Settled
<1> HIDE DEF b, owed
<1>4. /\ bills' \in Seq(Range(bills')) /\ Len(bills') = Len(bills) /\ DOMAIN bills' = DOMAIN bills
      /\ bills'[n] = b /\ \A m \in DOMAIN bills : m # n => bills'[m] = bills[m]
  BY <1>1, StoredIs
<1>5. status' = status /\ terms' = terms /\ variation' = variation
      /\ advance' = advance /\ released' = released /\ retentionPaid' = retentionPaid
  BY <1>1 DEF KeepContract, contract, money
<1>6. bills[n].status \in Settled /\ bills[n].figures.net >= 0
  BY <1>1 DEF TypeOK, Settled
<1>7. TypeOK'
  <2>1. ASSUME NEW m \in DOMAIN bills'
        PROVE  /\ \E given \in SUBSET Lines : bills'[m] \in BillRecord(given)
               /\ IF bills'[m].status \in Settled THEN bills'[m].figures.net >= 0
                                                  ELSE m = Len(bills') /\ bills'[m].paid = 0
    <3>1. CASE m = n
      BY <1>1, <1>2, <1>3, <1>4, <1>6, <3>1
    <3>2. CASE m # n
      BY <1>4, <3>2 DEF TypeOK
    <3>3. QED BY <3>1, <3>2
  <2>2. /\ status' \in DOMAIN Transitions /\ terms' \in Terms
        /\ variation' \in [Variations -> {"none", "pending", "approved", "rejected"}]
        /\ advance' \in Nat /\ released' \in Nat /\ retentionPaid' \in Nat
    BY <1>5 DEF TypeOK
  <2>3. Len(bills') <= MaxBills
    BY <1>4 DEF TypeOK
  <2>4. QED BY <1>4, <2>1, <2>2, <2>3 DEF TypeOK
<1>8. \A m \in DOMAIN bills : /\ bills'[m].status \in Settled <=> bills[m].status \in Settled
                              /\ bills'[m].quantity = bills[m].quantity /\ bills'[m].figures = bills[m].figures
  BY <1>2, <1>3, <1>4, <1>6
<1>9. SettledCount' = SettledCount
  BY <1>4, <1>8 DEF SettledCount
<1>10. SettledFacts /\ SettledFacts'
  BY <1>7, SettledFactsHold, SettledFactsNext
<1>11. \A m \in 1..SettledCount : m \in DOMAIN bills
  BY <1>10 DEF SettledFacts
<1>12. StatementStays /\ Latest' = Latest /\ (SettledCount > 0 => LastQuantity' = LastQuantity)
  BY <1>7, <1>8, <1>9, <1>11, SameSettled DEF StatementStays
<1>13. n \in SettledBills /\ SettledBills = 1..SettledCount /\ SettledBills' = 1..SettledCount
  <2>1. SettledBills = 1..SettledCount /\ SettledBills' = 1..SettledCount
    BY <1>9, <1>10 DEF SettledFacts
  <2>2. n \in Nat /\ n < Len(bills) + 1 /\ Len(bills) \in Nat
    BY <1>10 DEF SettledFacts
  <2>3. QED BY <1>6, <2>1, <2>2 DEF SettledBills, SettledBefore
<1>14. PaidOnBills' = PaidOnBills + amount
  <2> DEFINE f == [m \in SettledBills |-> bills[m].paid]
             g == [m \in SettledBills |-> bills'[m].paid]
  <2>1. \A m \in SettledBills : bills[m].paid \in Int /\ bills'[m].paid \in Int
    BY <1>4, <1>10, <1>11, <1>13 DEF SettledFacts
  <2>2. f \in [SettledBills -> Int] /\ g \in [SettledBills -> Int]
    BY <2>1
  <2>3. \A m \in SettledBills : m # n => g[m] = f[m]
    BY <1>4, <1>11, <1>13
  <2>4. g[n] = f[n] + amount /\ f[n] \in Int
    BY <1>1, <1>2, <1>4, <1>13
  <2>5. IsFiniteSet(SettledBills)
    BY <1>10, <1>13, FS_Interval DEF SettledFacts
  <2>6. PaidOnBills = SumFunction(f) /\ PaidOnBills' = SumFunction(g)
    BY <1>13 DEF PaidOnBills
  <2> HIDE DEF f, g
  <2>7. SumFunction(g) = SumFunction(f) + (g[n] - f[n]) /\ SumFunction(f) \in Int
    <3>1. n \in SettledBills
      BY <1>13
    <3>2. QED BY ONLY <2>2, <2>3, <2>5, <3>1, OneChanges
  <2>8. QED BY <1>1, <2>4, <2>6, <2>7
<1>15. Grows'
  <2>1. Billable' = Billable
    BY <1>5 DEF Billable
  <2>2. \A m \in DOMAIN bills' : m \in DOMAIN bills /\ bills'[m].quantity = bills[m].quantity
                                 /\ \A k \in 1..m - 1 : bills'[k].quantity = bills[k].quantity
    <3>1. \A m \in DOMAIN bills : \A k \in 1..m - 1 : k \in DOMAIN bills
      BY <1>10 DEF SettledFacts
    <3>2. QED BY <1>4, <1>8, <3>1
  <2>3. QED BY <1>5, <2>1, <2>2 DEF BillsInv, Grows
<1>16. ToDateAddsUp'
  BY <1>5, <1>9, <1>12 DEF BillsInv, ToDateAddsUp, StatementStays, Value
<1>17. InForce'
  <2>1. OpenBills' = OpenBills
    BY <1>4, <1>8, <1>10 DEF SettledFacts
  <2>2. status # "draft"
    BY DEF BillsInv, InForce
  <2>3. QED BY <1>5, <2>1, <2>2 DEF BillsInv, InForce
<1>18. NotOverpaid'
  <2>1. ASSUME NEW m \in SettledBills
        PROVE  /\ bills'[m].paid <= bills'[m].figures.net
               /\ bills'[m].status = "paid" <=> bills'[m].paid = bills'[m].figures.net
    <3>1. CASE m = n
      BY <1>3, <1>4, <3>1
    <3>2. CASE m # n
      BY <1>4, <1>11, <1>13, <3>2 DEF BillsInv, NotOverpaid
    <3>3. QED BY <3>1, <3>2
  <2>2. QED BY <1>13, <2>1 DEF NotOverpaid
<1>19. PotsHold'
  BY <1>5, <1>12 DEF BillsInv, PotsHold, StatementStays
<1>20. \A m \in SettledBills : bills'[m].paid >= bills[m].paid
  <2>1. \A m \in SettledBills : bills[m].paid \in Nat
    BY <1>10, <1>11, <1>13 DEF SettledFacts
  <2>2. QED BY <1>3, <1>4, <1>11, <1>13, <2>1
<1>21. QED BY <1>1, <1>7, <1>8, <1>11, <1>12, <1>13, <1>14, <1>15, <1>16, <1>17, <1>18, <1>19, <1>20 DEF BillsInv

-----------------------------------------------------------------------------
(* The rows that a request writes on a bill. *)
LEMMA LastFits ==
  ASSUME TypeOK, Grows, NEW l \in Billable
  PROVE  Stated(l) \in Nat /\ Stated(l) <= terms.quantity[l]
<1>1. terms.quantity[l] \in Nat
  BY BillableLines, TermsTyped
<1>2. QED BY <1>1, LastBill, StatedNat DEF Stated

(* A row for every line: claimed within the bounds, or as the settled bills left it. *)
LEMMA AllRowsFollow ==
  ASSUME TypeOK, Grows, NEW q, DOMAIN q = Billable,
         \A l \in Billable : q[l] \in Nat /\ Stated(l) <= q[l] /\ q[l] <= terms.quantity[l], q = [l \in Billable |-> q[l]]
  PROVE  Follows(q)
<1>1. q \in [Billable -> Nat]
  OBVIOUS
<1>2. SettledCount > 0 => DOMAIN LastQuantity \subseteq DOMAIN q
  BY LastBill
<1>3. QED BY <1>1, <1>2 DEF Follows

LEMMA OpenFollows ==
  ASSUME TypeOK, Grows, NEW n \in DOMAIN bills, bills[n].status \notin Settled
  PROVE  AfterSettled(n) /\ n = SettledCount + 1 /\ SettledCount \in Nat /\ Follows(bills[n].quantity)
<1>1. n = Len(bills) /\ SettledCount = n - 1 /\ SettledBefore(n) = 1..n - 1 /\ SettledCount \in Nat
      /\ DOMAIN bills = 1..Len(bills) /\ Len(bills) \in Nat
  BY SettledAre
<1>2. AfterSettled(n) /\ n = SettledCount + 1
  BY <1>1 DEF AfterSettled
<1> DEFINE q == bills[n].quantity
<1>3. DOMAIN q \subseteq Billable /\ q \in [DOMAIN q -> Nat] /\ \A l \in DOMAIN q : q[l] <= terms.quantity[l]
  BY BillTyped DEF Grows
<1>4. SettledCount > 0 => \A l \in DOMAIN LastQuantity : l \in DOMAIN q /\ LastQuantity[l] <= q[l]
  <2>1. SettledCount > 0 => SettledCount \in 1..n - 1
    BY <1>1
  <2>2. QED BY <2>1 DEF Grows, LastQuantity
<1>5. \A l \in DOMAIN q : Stated(l) <= q[l]
  BY <1>3, <1>4 DEF Stated
<1>6. QED BY <1>1, <1>2, <1>3, <1>4, <1>5 DEF Follows

LEMMA RequestIs ==
  ASSUME NEW claim \in Requests
  PROVE  DOMAIN claim \subseteq Billable /\ claim \in [DOMAIN claim -> Nat]
<1>1. PICK given \in SUBSET Billable : claim \in [given -> Claims]
  BY DEF Requests
<1>2. QED BY <1>1, RunningBillsAssumption

LEMMA ClaimFits ==
  ASSUME TypeOK, Grows, NEW n, AfterSettled(n), NEW claim, WithinBounds(n, claim)
  PROVE  \A l \in DOMAIN claim : Stated(l) <= claim[l] /\ claim[l] <= terms.quantity[l]
BY PreviousIs DEF WithinBounds

LEMMA CreateRows ==
  ASSUME TypeOK, Grows, NEW n, AfterSettled(n), NEW claim \in Requests, WithinBounds(n, claim)
  PROVE  Follows(ToDate(n, claim))
<1> DEFINE rows == ToDate(n, claim)
<1>1. rows = [l \in Billable |-> IF l \in DOMAIN claim THEN claim[l] ELSE Stated(l)]
  BY PreviousIs DEF ToDate
<1>2. ASSUME NEW l \in Billable PROVE rows[l] \in Nat /\ Stated(l) <= rows[l] /\ rows[l] <= terms.quantity[l]
  <2>1. CASE l \in DOMAIN claim
    BY <1>1, <2>1, RequestIs, ClaimFits
  <2>2. CASE l \notin DOMAIN claim
    BY <1>1, <2>2, LastFits
  <2>3. QED BY <2>1, <2>2
<1>3. DOMAIN rows = Billable /\ rows = [l \in Billable |-> rows[l]]
  BY <1>1
<1> HIDE DEF rows
<1>4. Follows(rows)
  BY <1>2, <1>3, AllRowsFollow
<1>5. QED BY <1>4 DEF rows

UpdatedRows(n, claim) ==
  [l \in DOMAIN bills[n].quantity \cup DOMAIN claim |->
     IF l \in DOMAIN claim THEN claim[l] ELSE bills[n].quantity[l]]

LEMMA UpdateRows ==
  ASSUME TypeOK, Grows, NEW n \in DOMAIN bills, bills[n].status \notin Settled,
         NEW claim \in Requests, WithinBounds(n, claim)
  PROVE  Follows(UpdatedRows(n, claim))
<1> DEFINE q == bills[n].quantity
           rows == UpdatedRows(n, claim)
<1>1. AfterSettled(n) /\ Follows(q)
  BY OpenFollows
<1>2. /\ DOMAIN rows = DOMAIN q \cup DOMAIN claim
      /\ \A l \in DOMAIN rows : rows[l] = IF l \in DOMAIN claim THEN claim[l] ELSE q[l]
      /\ rows = [l \in DOMAIN rows |-> rows[l]]
  BY DEF UpdatedRows
<1> HIDE DEF rows
<1>3. ASSUME NEW l \in DOMAIN rows PROVE rows[l] \in Nat /\ Stated(l) <= rows[l] /\ rows[l] <= terms.quantity[l]
  <2>1. CASE l \in DOMAIN claim
    BY <1>1, <1>2, <2>1, RequestIs, ClaimFits
  <2>2. CASE l \notin DOMAIN claim
    BY <1>1, <1>2, <2>2 DEF Follows
  <2>3. QED BY <2>1, <2>2
<1>4. DOMAIN rows \subseteq Billable /\ (SettledCount > 0 => DOMAIN LastQuantity \subseteq DOMAIN rows)
  BY <1>1, <1>2, RequestIs DEF Follows
<1>5. rows \in [DOMAIN rows -> Nat]
  BY <1>2, <1>3
<1>6. Follows(rows)
  BY <1>3, <1>4, <1>5 DEF Follows
<1>7. QED BY <1>6 DEF rows

CertifiedRows(n, agreed) ==
  [l \in Billable |-> IF l \in DOMAIN agreed THEN agreed[l] ELSE ToDate(n, bills[n].quantity)[l]]

LEMMA CertifyRows ==
  ASSUME TypeOK, Grows, NEW n \in DOMAIN bills, bills[n].status \notin Settled,
         NEW agreed \in Requests, WithinBounds(n, CertifiedRows(n, agreed))
  PROVE  Follows(CertifiedRows(n, agreed))
<1> DEFINE rows == CertifiedRows(n, agreed)
<1>1. AfterSettled(n) /\ Follows(bills[n].quantity)
  BY OpenFollows
<1>2. \A l \in Billable : ToDate(n, bills[n].quantity)[l] \in Nat
  BY <1>1, ToDateIs
<1>3. DOMAIN rows = Billable /\ rows = [l \in Billable |-> rows[l]] /\ \A l \in Billable : rows[l] \in Nat
  BY <1>2, RequestIs DEF CertifiedRows
<1> HIDE DEF rows
<1>4. WithinBounds(n, rows)
  BY DEF rows
<1>5. \A l \in Billable : Stated(l) <= rows[l] /\ rows[l] <= terms.quantity[l]
  BY <1>1, <1>3, <1>4, ClaimFits
<1>6. Follows(rows)
  BY <1>3, <1>5, AllRowsFollow
<1>7. QED BY <1>6 DEF rows

(* A bill written so is a bill. *)
LEMMA RecordIs ==
  ASSUME TypeOK, NEW st \in {"draft", "submitted"} \cup Settled, NEW q, Follows(q), NEW f \in FigureRecord, NEW p \in Nat,
         NEW b, b = [status |-> st, quantity |-> q, figures |-> f, paid |-> p]
  PROVE  /\ \E given \in SUBSET Lines : b \in BillRecord(given)
         /\ b.status = st /\ b.quantity = q /\ b.figures = f /\ b.paid = p
<1>1. DOMAIN q \in SUBSET Lines /\ q \in [DOMAIN q -> Nat]
  BY BillableLines DEF Follows
<1>2. b \in BillRecord(DOMAIN q)
  BY <1>1 DEF BillRecord
<1>3. QED BY <1>1, <1>2

LEMMA OpenRecord ==
  ASSUME TypeOK, NEW n \in DOMAIN bills, bills[n].status \notin Settled
  PROVE  /\ bills[n] = [status |-> bills[n].status, quantity |-> bills[n].quantity, figures |-> bills[n].figures, paid |-> 0]
         /\ bills[n].status \in {"draft", "submitted"} \cup Settled /\ bills[n].figures \in FigureRecord
         /\ bills[n].figures.deductions \in Nat /\ bills[n].paid = 0
<1>1. bills[n] \in BillRecord(DOMAIN bills[n].quantity) /\ bills[n].paid = 0
  BY BillTyped DEF TypeOK
<1>2. QED BY <1>1 DEF BillRecord, FigureRecord

Kept == \A m \in SettledBills : /\ m \in DOMAIN bills' /\ bills'[m].status \in Settled
                                /\ bills'[m].quantity = bills[m].quantity /\ bills'[m].figures = bills[m].figures
                                /\ bills'[m].paid >= bills[m].paid

LEMMA SameKept ==
  ASSUME TypeOK, \A m \in SettledBills : m \in DOMAIN bills' /\ bills'[m] = bills[m]
  PROVE  Kept
<1>1. \A m \in SettledBills : m \in DOMAIN bills /\ bills[m].status \in Settled
  BY DEF SettledBills, SettledBefore
<1>2. \A m \in SettledBills : bills[m].paid \in Nat
  BY <1>1, BillTyped
<1>3. QED BY <1>1, <1>2 DEF Kept

(* What a step that only writes an open bill leaves. *)
Drafted == TypeOK' /\ BillsInv' /\ StatementStays /\ PaidOnBills' = PaidOnBills /\ UNCHANGED <<contract, money>> /\ Kept

LEMMA OpenStored ==
  ASSUME TypeOK, BillsInv, NEW n, NEW st \in {"draft", "submitted"}, NEW q, Follows(q), NEW f \in FigureRecord,
         BillPut(n, [status |-> st, quantity |-> q, figures |-> f, paid |-> 0]), status \in {"active", "completed"}
  PROVE  Drafted
<1> DEFINE b == [status |-> st, quantity |-> q, figures |-> f, paid |-> 0]
<1>1. /\ \E given \in SUBSET Lines : b \in BillRecord(given)
      /\ b.status = st /\ b.quantity = q /\ b.figures = f /\ b.paid = 0
  BY RecordIs
<1>2. BillPut(n, b)
  OBVIOUS
<1> HIDE DEF b
<1>3. b.status \notin Settled /\ b.paid = 0 /\ Follows(b.quantity)
  BY <1>1 DEF Settled
<1>4. TypeOK' /\ BillsInv' /\ StatementStays /\ PaidOnBills' = PaidOnBills
      /\ \A m \in SettledBills : m \in DOMAIN bills' /\ bills'[m] = bills[m]
  BY <1>1, <1>2, <1>3, OpenPut
<1>5. Kept
  BY <1>4, SameKept
<1>6. QED BY <1>2, <1>4, <1>5 DEF Drafted, BillPut

-----------------------------------------------------------------------------
(* The steps that write a bill. *)
LEMMA OpenInForce ==
  ASSUME TypeOK, BillsInv, NEW n \in DOMAIN bills, bills[n].status \notin Settled
  PROVE  status \in {"active", "completed"}
<1>1. n \in OpenBills
  BY SettledAre
<1>2. QED BY <1>1 DEF BillsInv, InForce

LEMMA CreateBillKeeps ==
  ASSUME TypeOK, BillsInv, NEW claim \in Requests, NEW back \in BackCharges, CreateBill(claim, back)
  PROVE  Drafted
<1> DEFINE n == Len(bills) + 1
           rows == ToDate(n, claim)
           f == Figures(n, rows, back)
           b == [status |-> "draft", quantity |-> rows, figures |-> f, paid |-> 0]
<1>1. /\ status \in {"active", "completed"} /\ OpenBills = {} /\ n <= MaxBills /\ WithinBounds(n, claim)
      /\ bills' = Append(bills, b) /\ KeepContract
  BY DEF CreateBill
<1>2. AfterSettled(n) /\ Grows /\ ToDateAddsUp /\ back \in Nat
  BY EndFollows, RunningBillsAssumption DEF BillsInv
<1>3. BillPut(n, b)
  <2> HIDE DEF b
  <2>1. QED BY <1>1, AppendPut
<1> HIDE DEF n
<1>4. Follows(rows)
  BY <1>1, <1>2, CreateRows
<1> HIDE DEF rows
<1>5. f \in FigureRecord
  BY <1>2, <1>4, FiguresAre DEF FiguresFollow
<1> HIDE DEF f
<1>6. QED BY <1>1, <1>3, <1>4, <1>5, OpenStored

LEMMA UpdateBillKeeps ==
  ASSUME TypeOK, BillsInv, NEW n \in DOMAIN bills, NEW claim \in Requests, NEW back \in BackCharges,
         UpdateBill(n, claim, back)
  PROVE  Drafted
<1> DEFINE rows == UpdatedRows(n, claim)
           f == Figures(n, rows, back)
           b == [status |-> "draft", quantity |-> rows, figures |-> f, paid |-> 0]
<1>1. /\ bills[n].status = "draft" /\ WithinBounds(n, claim) /\ KeepContract
      /\ bills' = Stored(n, [bills[n] EXCEPT !.quantity = rows, !.figures = f])
  BY DEF UpdateBill, UpdatedRows
<1>2. bills[n].status \notin Settled
  BY <1>1 DEF Settled
<1>3. Grows /\ ToDateAddsUp /\ back \in Nat /\ AfterSettled(n) /\ status \in {"active", "completed"}
  BY <1>2, OpenFollows, OpenInForce, RunningBillsAssumption DEF BillsInv
<1>4. Follows(rows)
  BY <1>1, <1>2, <1>3, UpdateRows
<1> HIDE DEF rows
<1>5. f \in FigureRecord
  BY <1>3, <1>4, FiguresAre DEF FiguresFollow
<1> HIDE DEF f
<1>6. [bills[n] EXCEPT !.quantity = rows, !.figures = f] = b
  <2> DEFINE r == bills[n]
  <2>1. r = [status |-> r.status, quantity |-> r.quantity, figures |-> r.figures, paid |-> 0] /\ r.status = "draft"
    BY <1>1, <1>2, OpenRecord
  <2> HIDE DEF r
  <2> DEFINE s == [r EXCEPT !.quantity = rows]
             u == [s EXCEPT !.figures = f]
  <2>2. [r EXCEPT !.quantity = rows, !.figures = f] = u
    OBVIOUS
  <2> HIDE DEF u
  <2>3. s = [status |-> r.status, quantity |-> rows, figures |-> r.figures, paid |-> 0]
    BY <2>1 DEF s
  <2> HIDE DEF s
  <2>4. u = [status |-> r.status, quantity |-> rows, figures |-> f, paid |-> 0]
    BY <2>3 DEF u
  <2>5. QED BY <2>1, <2>2, <2>4 DEF r
<1>7. BillPut(n, b)
  <2> HIDE DEF b
  <2>1. QED BY <1>1, <1>2, <1>6, StoredPut
<1>8. QED BY <1>3, <1>4, <1>5, <1>7, OpenStored

LEMMA SubmitBillKeeps ==
  ASSUME TypeOK, BillsInv, NEW n \in DOMAIN bills, SubmitBill(n) PROVE Drafted
<1> DEFINE rows == bills[n].quantity
           f == Figures(n, rows, bills[n].figures.deductions)
           b == [status |-> "submitted", quantity |-> rows, figures |-> f, paid |-> 0]
<1>1. /\ bills[n].status = "draft" /\ KeepContract
      /\ bills' = Stored(n, [bills[n] EXCEPT !.status = "submitted", !.figures = f])
  BY DEF SubmitBill
<1>2. bills[n].status \notin Settled
  BY <1>1 DEF Settled
<1>3. Grows /\ ToDateAddsUp /\ AfterSettled(n) /\ status \in {"active", "completed"} /\ Follows(rows)
  BY <1>2, OpenFollows, OpenInForce DEF BillsInv
<1>4. bills[n].figures.deductions \in Nat
  BY <1>2, OpenRecord
<1>5. f \in FigureRecord
  BY <1>3, <1>4, FiguresAre DEF FiguresFollow
<1> HIDE DEF f
<1>6. [bills[n] EXCEPT !.status = "submitted", !.figures = f] = b
  <2> DEFINE r == bills[n]
  <2>1. r = [status |-> r.status, quantity |-> r.quantity, figures |-> r.figures, paid |-> 0] /\ r.quantity = rows
    BY <1>1, <1>2, OpenRecord
  <2> HIDE DEF r
  <2> DEFINE s == [r EXCEPT !.status = "submitted"]
             u == [s EXCEPT !.figures = f]
  <2>2. [r EXCEPT !.status = "submitted", !.figures = f] = u
    OBVIOUS
  <2> HIDE DEF u
  <2>3. s = [status |-> "submitted", quantity |-> r.quantity, figures |-> r.figures, paid |-> 0]
    BY <2>1 DEF s
  <2> HIDE DEF s
  <2>4. u = [status |-> "submitted", quantity |-> r.quantity, figures |-> f, paid |-> 0]
    BY <2>3 DEF u
  <2>5. QED BY <2>1, <2>2, <2>4 DEF r
<1>7. BillPut(n, b)
  <2> HIDE DEF b
  <2>1. QED BY <1>1, <1>2, <1>6, StoredPut
<1>8. QED BY <1>3, <1>5, <1>7, OpenStored

LEMMA ReturnToDraftKeeps ==
  ASSUME TypeOK, BillsInv, NEW n \in DOMAIN bills, ReturnToDraft(n) PROVE Drafted
<1> DEFINE rows == bills[n].quantity
           f == bills[n].figures
           b == [status |-> "draft", quantity |-> rows, figures |-> f, paid |-> 0]
<1>1. bills[n].status = "submitted" /\ KeepContract /\ bills' = Stored(n, [bills[n] EXCEPT !.status = "draft"])
  BY DEF ReturnToDraft
<1>2. bills[n].status \notin Settled
  BY <1>1 DEF Settled
<1>3. Grows /\ status \in {"active", "completed"} /\ Follows(rows)
  BY <1>2, OpenFollows, OpenInForce DEF BillsInv
<1>4. f \in FigureRecord
  BY <1>2, OpenRecord
<1>5. [bills[n] EXCEPT !.status = "draft"] = b
  BY <1>1, <1>2, OpenRecord
<1>6. BillPut(n, b)
  <2> HIDE DEF b
  <2>1. QED BY <1>1, <1>2, <1>5, StoredPut
<1>7. QED BY <1>3, <1>4, <1>6, OpenStored

(* What a step that certifies a bill with the figures f adds. *)
Adds(f) ==
  /\ f \in FigureRecord /\ f.net >= 0
  /\ f.net = f.gross + f.tax - f.retention - f.recovery - f.deductions
  /\ GrossCertified' = GrossCertified + f.gross /\ Retained' = Retained + f.retention /\ Recovered' = Recovered + f.recovery
  /\ NetCertified' = NetCertified + f.net /\ TaxLessBackCharges' = TaxLessBackCharges + (f.tax - f.deductions)
  /\ PaidOnBills' = PaidOnBills
  /\ GrossCertified \in Int /\ Retained \in Int /\ Recovered \in Int /\ NetCertified \in Int
  /\ TaxLessBackCharges \in Int /\ PaidOnBills \in Int

(* What it says of the bill itself. *)
Settles(n) ==
  /\ n = SettledCount + 1 /\ SettledBills' = 1..n /\ UNCHANGED terms
  /\ bills'[n].quantity \in [Billable -> Nat]
  /\ bills'[n].figures.gross = Value(bills'[n].quantity) - Latest.grossToDate

LEMMA CertifyKeeps ==
  ASSUME TypeOK, BillsInv, NEW n \in DOMAIN bills, NEW agreed \in Requests, NEW back \in BackCharges,
         Certify(n, agreed, back)
  PROVE  /\ TypeOK' /\ BillsInv' /\ UNCHANGED <<contract, money>> /\ Kept /\ status \in {"active", "completed"}
         /\ Settles(n) /\ \E f \in FigureRecord : Adds(f)
<1> DEFINE rows == CertifiedRows(n, agreed)
           f == Figures(n, rows, back)
           st == IF f.net = 0 THEN "paid" ELSE "certified"
           b == [status |-> st, quantity |-> rows, figures |-> f, paid |-> 0]
<1>1. /\ bills[n].status = "submitted" /\ WithinBounds(n, rows) /\ f.net >= 0 /\ KeepContract
      /\ bills' = Stored(n, [bills[n] EXCEPT !.status = st, !.quantity = rows, !.figures = f])
  BY DEF Certify, CertifiedRows
<1>2. bills[n].status \notin Settled
  BY <1>1 DEF Settled
<1>3. Grows /\ ToDateAddsUp /\ back \in Nat /\ AfterSettled(n) /\ status \in {"active", "completed"}
  BY <1>2, OpenFollows, OpenInForce, RunningBillsAssumption DEF BillsInv
<1>4. Follows(rows)
  BY <1>1, <1>2, <1>3, CertifyRows
<1> HIDE DEF rows
<1>5. FiguresFollow(f, rows, back)
  BY <1>3, <1>4, FiguresAre
<1> HIDE DEF f
<1>6. st \in Settled /\ (st = "paid" <=> f.net = 0)
  BY DEF Settled
<1> HIDE DEF st
<1>7. [bills[n] EXCEPT !.status = st, !.quantity = rows, !.figures = f] = b
  <2> DEFINE r == bills[n]
  <2>1. r = [status |-> r.status, quantity |-> r.quantity, figures |-> r.figures, paid |-> 0]
    BY <1>1, <1>2, OpenRecord
  <2> HIDE DEF r
  <2> DEFINE s == [r EXCEPT !.status = st]
             u == [s EXCEPT !.quantity = rows]
             v == [u EXCEPT !.figures = f]
  <2>2. [r EXCEPT !.status = st, !.quantity = rows, !.figures = f] = v
    OBVIOUS
  <2> HIDE DEF u, v
  <2>3. s = [status |-> st, quantity |-> r.quantity, figures |-> r.figures, paid |-> 0]
    BY <2>1 DEF s
  <2> HIDE DEF s
  <2>4. u = [status |-> st, quantity |-> rows, figures |-> r.figures, paid |-> 0]
    BY <2>3 DEF u
  <2>5. v = [status |-> st, quantity |-> rows, figures |-> f, paid |-> 0]
    BY <2>4 DEF v
  <2>6. QED BY <2>1, <2>2, <2>5 DEF r
<1>8. /\ \E given \in SUBSET Lines : b \in BillRecord(given)
      /\ b.status = st /\ b.quantity = rows /\ b.figures = f /\ b.paid = 0
  <2>1. f \in FigureRecord /\ st \in {"draft", "submitted"} \cup Settled
    BY <1>5, <1>6 DEF FiguresFollow
  <2>2. QED BY <1>4, <2>1, RecordIs
<1> HIDE DEF b
<1>9. BillPut(n, b)
  BY <1>1, <1>2, <1>7, StoredPut
<1>10. b.figures.deductions = back
  BY <1>5, <1>8 DEF FiguresFollow
<1>11. TypeOK' /\ BillsInv'
  BY <1>1, <1>3, <1>4, <1>5, <1>6, <1>8, <1>9, <1>10, CertifiedPut
<1>12. Kept
  <2>1. SettledCount = n - 1 /\ SettledBills = 1..SettledCount /\ n \in Nat
    BY <1>2, SettledAre
  <2>2. \A m \in SettledBills : m \in DOMAIN bills' /\ bills'[m] = bills[m]
    BY <1>9, <2>1 DEF BillPut
  <2>3. QED BY <2>2, SameKept
<1>13. Adds(f)
  <2>1. /\ GrossCertified' = GrossCertified + b.figures.gross /\ Retained' = Retained + b.figures.retention
        /\ Recovered' = Recovered + b.figures.recovery /\ NetCertified' = NetCertified + b.figures.net
        /\ TaxLessBackCharges' = TaxLessBackCharges + (b.figures.tax - b.figures.deductions)
        /\ PaidOnBills' = PaidOnBills + b.paid
        /\ GrossCertified \in Int /\ Retained \in Int /\ Recovered \in Int /\ NetCertified \in Int
        /\ TaxLessBackCharges \in Int /\ PaidOnBills \in Int
    BY <1>6, <1>8, <1>9, <1>11, SettledPut
  <2>2. PaidOnBills' = PaidOnBills
    BY <1>8, <2>1
  <2>3. QED BY <1>1, <1>5, <1>8, <2>1, <2>2 DEF Adds, FiguresFollow
<1>14. f \in FigureRecord
  BY <1>5 DEF FiguresFollow
<1>15. Settles(n)
  <2>1. SettledBills' = 1..n
    BY <1>6, <1>8, <1>9, <1>11, SettledPut
  <2>2. n = SettledCount + 1 /\ terms' = terms /\ bills'[n] = b
    BY <1>9 DEF BillPut, contract
  <2>3. rows \in [Billable -> Nat]
    <3>1. DOMAIN rows = Billable
      BY DEF rows, CertifiedRows
    <3>2. QED BY <1>4, <3>1 DEF Follows
  <2>4. b.figures.gross = Value(rows) - Latest.grossToDate
    BY <1>5, <1>8 DEF FiguresFollow
  <2>5. QED BY <1>8, <2>1, <2>2, <2>3, <2>4 DEF Settles
<1>16. QED BY <1>3, <1>9, <1>11, <1>12, <1>13, <1>14, <1>15 DEF BillPut

-----------------------------------------------------------------------------
(* The steps, sorted by what they do to the account. *)
Quiet ==      \* an open bill, a variation, the terms, the status but not the closing
  /\ StatementStays /\ PaidOnBills' = PaidOnBills /\ UNCHANGED money
  /\ (status' = "closed") = (status = "closed")
Closes == StatementStays /\ PaidOnBills' = PaidOnBills /\ UNCHANGED money /\ SetStatus("closed")
Moves(amount) ==
  /\ amount \in Int /\ amount > 0 /\ StatementStays /\ UNCHANGED status
  /\ \/ ReleaseRetention(amount) /\ PaidOnBills' = PaidOnBills
     \/ PayAdvance(amount) /\ PaidOnBills' = PaidOnBills
     \/ PayRetention(amount) /\ PaidOnBills' = PaidOnBills
     \/ UNCHANGED money /\ PaidOnBills' = PaidOnBills + amount
Earns ==
  /\ \E f \in FigureRecord : Adds(f) /\ UNCHANGED <<contract, money>> /\ status \in {"active", "completed"}
  /\ Settles(SettledCount + 1)

LEMMA SameBillsKept == ASSUME TypeOK, bills' = bills PROVE Kept
<1>1. \A m \in SettledBills : m \in DOMAIN bills
  BY DEF SettledBills, SettledBefore
<1>2. QED BY <1>1, SameKept

LEMMA DraftedIs == ASSUME Drafted PROVE TypeOK' /\ BillsInv' /\ Kept /\ Quiet
BY DEF Drafted, Quiet, contract

LEMMA StepIs ==
  ASSUME TypeOK, BillsInv, [Next]_vars
  PROVE  TypeOK' /\ BillsInv' /\ Kept /\ (Quiet \/ Closes \/ Earns \/ \E amount \in Int : Moves(amount))
<1> DEFINE Goal == TypeOK' /\ BillsInv' /\ Kept /\ (Quiet \/ Closes \/ Earns \/ \E amount \in Int : Moves(amount))
<1>1. ASSUME NEW t \in Terms, EditTerms(t) PROVE Goal
  <2>1. TypeOK' /\ BillsInv' /\ bills' = bills /\ UNCHANGED <<status, money>>
    BY <1>1, EditTermsKeeps DEF EditTerms
  <2>2. Kept /\ StatementStays /\ PaidOnBills' = PaidOnBills
    BY <2>1, SameBills, SameBillsKept
  <2>3. QED BY <2>1, <2>2 DEF Quiet
<1>2. ASSUME NEW to \in {"active", "completed", "closed", "terminated"}, SetStatus(to) PROVE Goal
  <2>1. TypeOK' /\ BillsInv' /\ bills' = bills /\ UNCHANGED money /\ status' = to /\ status # "closed"
    BY <1>2, SetStatusKeeps DEF SetStatus
  <2>2. Kept /\ StatementStays /\ PaidOnBills' = PaidOnBills
    BY <2>1, SameBills, SameBillsKept
  <2>3. CASE to = "closed"
    BY <1>2, <2>1, <2>2, <2>3 DEF Closes
  <2>4. CASE to # "closed"
    BY <2>1, <2>2, <2>4 DEF Quiet
  <2>5. QED BY <2>3, <2>4
<1>3. ASSUME NEW v \in Variations, CreateVariation(v) PROVE Goal
  <2>1. TypeOK' /\ BillsInv' /\ bills' = bills /\ UNCHANGED <<status, money>>
    <3>1. variation[v] # "approved" /\ variation' = [variation EXCEPT ![v] = "pending"]
          /\ UNCHANGED <<status, terms, bills, money>>
      BY <1>3 DEF CreateVariation
    <3>2. QED BY <3>1, VariationKeeps
  <2>2. Kept /\ StatementStays /\ PaidOnBills' = PaidOnBills
    BY <2>1, SameBills, SameBillsKept
  <2>3. QED BY <2>1, <2>2 DEF Quiet
<1>4. ASSUME NEW v \in Variations, NEW decision \in {"approved", "rejected"}, DecideVariation(v, decision) PROVE Goal
  <2>1. TypeOK' /\ BillsInv' /\ bills' = bills /\ UNCHANGED <<status, money>>
    <3>1. variation[v] # "approved" /\ variation' = [variation EXCEPT ![v] = decision]
          /\ UNCHANGED <<status, terms, bills, money>>
      BY <1>4 DEF DecideVariation
    <3>2. QED BY <3>1, VariationKeeps
  <2>2. Kept /\ StatementStays /\ PaidOnBills' = PaidOnBills
    BY <2>1, SameBills, SameBillsKept
  <2>3. QED BY <2>1, <2>2 DEF Quiet
<1>5. ASSUME NEW amount \in Payments \cup {Held}, ReleaseRetention(amount) PROVE Goal
  <2>1. TypeOK' /\ BillsInv' /\ amount \in Int /\ amount > 0 /\ bills' = bills /\ status' = status
    BY <1>5, ReleaseRetentionKeeps DEF ReleaseRetention, contract
  <2>2. Kept /\ StatementStays /\ PaidOnBills' = PaidOnBills
    BY <2>1, SameBills, SameBillsKept
  <2>3. QED BY <1>5, <2>1, <2>2 DEF Moves
<1>6. ASSUME NEW amount \in Payments \cup {terms.advance - advance}, PayAdvance(amount) PROVE Goal
  <2>1. TypeOK' /\ BillsInv' /\ amount \in Int /\ amount > 0 /\ bills' = bills /\ status' = status
    BY <1>6, PayAdvanceKeeps DEF PayAdvance, contract
  <2>2. Kept /\ StatementStays /\ PaidOnBills' = PaidOnBills
    BY <2>1, SameBills, SameBillsKept
  <2>3. QED BY <1>6, <2>1, <2>2 DEF Moves
<1>7. ASSUME NEW amount \in Payments \cup {released - retentionPaid}, PayRetention(amount) PROVE Goal
  <2>1. TypeOK' /\ BillsInv' /\ amount \in Int /\ amount > 0 /\ bills' = bills /\ status' = status
    BY <1>7, PayRetentionKeeps DEF PayRetention, contract
  <2>2. Kept /\ StatementStays /\ PaidOnBills' = PaidOnBills
    BY <2>1, SameBills, SameBillsKept
  <2>3. QED BY <1>7, <2>1, <2>2 DEF Moves
<1>8. ASSUME NEW claim \in Requests, NEW back \in BackCharges, CreateBill(claim, back) PROVE Goal
  BY <1>8, CreateBillKeeps, DraftedIs
<1>9. ASSUME NEW n \in DOMAIN bills, RemoveBill(n) PROVE Goal
  <2>1. /\ TypeOK' /\ BillsInv' /\ StatementStays /\ PaidOnBills' = PaidOnBills
        /\ \A m \in SettledBills : bills'[m] = bills[m]
    BY <1>9, RemoveBillKeeps
  <2>2. UNCHANGED <<status, money>>
    BY <1>9 DEF RemoveBill, KeepContract, contract
  <2>3. \A m \in SettledBills : m \in DOMAIN bills'
    BY <2>1 DEF StatementStays, SettledBills, SettledBefore
  <2>4. Kept
    BY <2>1, <2>3, SameKept
  <2>5. QED BY <2>1, <2>2, <2>4 DEF Quiet
<1>10. ASSUME NEW n \in DOMAIN bills, SubmitBill(n) PROVE Goal
  BY <1>10, SubmitBillKeeps, DraftedIs
<1>11. ASSUME NEW n \in DOMAIN bills, ReturnToDraft(n) PROVE Goal
  BY <1>11, ReturnToDraftKeeps, DraftedIs
<1>12. ASSUME NEW n \in DOMAIN bills, NEW claim \in Requests, NEW back \in BackCharges, UpdateBill(n, claim, back)
       PROVE  Goal
  BY <1>12, UpdateBillKeeps, DraftedIs
<1>13. ASSUME NEW n \in DOMAIN bills, NEW claim \in Requests, NEW back \in BackCharges, Certify(n, claim, back)
       PROVE  Goal
  <2>1. /\ TypeOK' /\ BillsInv' /\ UNCHANGED <<contract, money>> /\ Kept /\ status \in {"active", "completed"}
        /\ Settles(n) /\ \E f \in FigureRecord : Adds(f)
    BY <1>13, CertifyKeeps
  <2>2. Settles(SettledCount + 1)
    BY <2>1 DEF Settles
  <2>3. QED BY <2>1, <2>2 DEF Earns
<1>14. ASSUME NEW n \in DOMAIN bills, NEW amount \in Payments \cup {bills[n].figures.net - bills[n].paid},
              PayBill(n, amount)
       PROVE  Goal
  <2>1. /\ TypeOK' /\ BillsInv' /\ StatementStays /\ PaidOnBills' = PaidOnBills + amount
        /\ amount \in Int /\ amount > 0
        /\ \A m \in SettledBills : /\ bills'[m].quantity = bills[m].quantity /\ bills'[m].figures = bills[m].figures
                                   /\ bills'[m].paid >= bills[m].paid
    BY <1>14, PayBillKeeps
  <2>2. \A m \in SettledBills : m \in DOMAIN bills' /\ bills'[m].status \in Settled
    BY <2>1 DEF StatementStays, SettledBills, SettledBefore
  <2>3. UNCHANGED <<status, money>>
    BY <1>14 DEF PayBill, KeepContract, contract
  <2>4. QED BY <2>1, <2>2, <2>3 DEF Kept, Moves
<1>15. ASSUME UNCHANGED vars PROVE Goal
  <2>1. TypeOK' /\ bills' = bills /\ UNCHANGED <<status, money>> /\ terms' = terms /\ variation' = variation
    BY <1>15 DEF vars, TypeOK, money
  <2>2. StatementStays /\ PaidOnBills' = PaidOnBills /\ OpenBills' = OpenBills /\ Kept
    BY <2>1, SameBills, SameBillsKept
  <2>3. Billable' = Billable /\ advance' >= advance
    BY <2>1 DEF Billable, money, TypeOK
  <2>4. InForce' /\ PotsHold'
    BY <2>1, <2>2 DEF BillsInv, InForce, PotsHold, StatementStays, money
  <2>5. BillsInv'
    BY <2>1, <2>3, <2>4, ContractStep
  <2>6. QED BY <2>1, <2>2, <2>5 DEF Quiet
<1> HIDE DEF Goal
<1>16. Goal
  BY <1>1, <1>2, <1>3, <1>4, <1>5, <1>6, <1>7, <1>8, <1>9, <1>10, <1>11, <1>12, <1>13, <1>14, <1>15 DEF Next
<1>17. QED BY <1>16 DEF Goal

-----------------------------------------------------------------------------
(* The theorems. *)
LEMMA InitIs == ASSUME Init PROVE TypeOK /\ BillsInv
<1>1. bills = <<>> /\ Len(bills) = 0 /\ DOMAIN bills = {}
  BY DEF Init
<1>2. bills \in Seq(Range(bills))
  BY <1>1
<1>3. TypeOK
  BY <1>1, <1>2, RunningBillsAssumption DEF Init, TypeOK, Transitions
<1>4. SettledCount = 0 /\ SettledBills = {} /\ OpenBills = {}
  BY <1>1, <1>3, SettledAre
<1>5. Latest = Unbilled
  BY <1>3, <1>4, EndFollows, LatestIs
<1>6. GrossCertified = 0 /\ Retained = 0 /\ Recovered = 0
  BY <1>4, TotalNothing DEF GrossCertified, Retained, Recovered
<1>7. advance = 0 /\ released = 0 /\ retentionPaid = 0
  BY DEF Init
<1>8. Grows /\ InForce
  BY <1>1, <1>4 DEF Grows, InForce
<1>9. ToDateAddsUp /\ PotsHold
  BY <1>4, <1>5, <1>6, <1>7 DEF ToDateAddsUp, PotsHold, Unbilled
<1>10. NotOverpaid
  BY <1>4 DEF NotOverpaid
<1>11. QED BY <1>3, <1>8, <1>9, <1>10 DEF BillsInv

LEMMA BillsHold == Spec => [](TypeOK /\ BillsInv)
<1>1. Init => TypeOK /\ BillsInv
  BY InitIs
<1>2. (TypeOK /\ BillsInv) /\ [Next]_vars => (TypeOK /\ BillsInv)'
  BY StepIs
<1>3. QED BY <1>1, <1>2, PTL DEF Spec

(* Every stored figure is what its type says: no share of a bill and no running total is ever negative. *)
THEOREM BillsAreTyped == Spec => []TypeOK
BY BillsHold, PTL

LEMMA DriftsNot == TypeOK /\ BillsInv => NoDrift
<1> SUFFICES ASSUME TypeOK, BillsInv PROVE NoDrift
  OBVIOUS
<1>1. /\ Value(Before(Len(bills) + 1)) = Latest.grossToDate
      /\ Latest.retentionToDate = BasisPointsOf(Latest.grossToDate, terms.retentionBp)
  BY EndFollows, BeforeIs DEF BillsInv
<1>2. /\ GrossCertified = Latest.grossToDate /\ Retained = Latest.retentionToDate /\ Recovered = Latest.recoveredToDate
      /\ Latest.recoveredToDate <= advance
  BY DEF BillsInv, ToDateAddsUp
<1>3. \A n \in SettledBills : bills[n].figures.recovery >= 0
  <2>1. \A n \in SettledBills : bills[n].figures \in FigureRecord
    BY BillTyped DEF SettledBills, SettledBefore
  <2>2. QED BY <2>1 DEF FigureRecord
<1>4. QED BY <1>1, <1>2, <1>3 DEF NoDrift

(* However the work is split over bills, what they billed, kept back and recovered adds up to what is worked *)
(* out once on all of it: rounding never drifts.                                                             *)
THEOREM RoundingNeverDrifts == Spec => []NoDrift
BY BillsHold, DriftsNot, PTL

-----------------------------------------------------------------------------
(* The cost report books every bill row by row, against the bills before it, as the rows stand now; *)
(* what it books of a bill stays what was certified as its gross.                                   *)
BookedIsGross == \A m \in SettledBills : BookedFor(m) = bills[m].figures.gross

(* The bills before a settled one are settled, and the last of them states all that they do. *)
RowsBefore ==
  \A m \in SettledBills, l \in Lines :
    Previous(m, l) = IF m > 1 /\ l \in DOMAIN bills[m - 1].quantity THEN bills[m - 1].quantity[l] ELSE 0

LEMMA RowsBeforeHold == TypeOK /\ BillsInv => RowsBefore
<1> SUFFICES ASSUME TypeOK, BillsInv, NEW m \in SettledBills, NEW l \in Lines
             PROVE  Previous(m, l) = IF m > 1 /\ l \in DOMAIN bills[m - 1].quantity THEN bills[m - 1].quantity[l] ELSE 0
  BY DEF RowsBefore
<1> DEFINE on == {i \in SettledBefore(m) : l \in DOMAIN bills[i].quantity}
           k == m - 1
<1>1. k \in Nat /\ SettledBefore(m) = 1..k /\ m \in DOMAIN bills /\ m \in Nat
  <2>1. SettledBills = 1..SettledCount /\ SettledCount \in Nat /\ DOMAIN bills = 1..Len(bills) /\ SettledCount <= Len(bills)
        /\ Len(bills) \in Nat
    BY SettledAre
  <2>2. \A i \in 1..SettledCount : bills[i].status \in Settled
    BY <2>1 DEF SettledBills, SettledBefore
  <2>3. QED BY <2>1, <2>2 DEF SettledBefore
<1>2. CASE k > 0 /\ l \in DOMAIN bills[k].quantity
  <2>1. on \subseteq Int /\ k \in on /\ \A x \in on : x <= k
    BY <1>1, <1>2
  <2>2. Max(on) = k
    BY <2>1, MaxIs
  <2>3. m > 1
    BY <1>1, <1>2
  <2>4. QED BY <1>2, <2>1, <2>2, <2>3 DEF Previous
<1>3. CASE ~(k > 0 /\ l \in DOMAIN bills[k].quantity)
  <2>1. ASSUME NEW i \in 1..k, l \in DOMAIN bills[i].quantity PROVE FALSE
    <3>1. k \in DOMAIN bills /\ k > 0 /\ l \notin DOMAIN bills[k].quantity
      <4>1. DOMAIN bills = 1..Len(bills) /\ Len(bills) \in Nat
        BY SettledAre
      <4>2. QED BY <1>1, <1>3, <2>1, <4>1
    <3>2. i # k /\ i \in 1..k - 1
      BY <1>1, <2>1, <3>1
    <3>3. QED BY <2>1, <3>1, <3>2 DEF BillsInv, Grows
  <2>2. on = {}
    BY <1>1, <2>1
  <2>3. ~(m > 1 /\ l \in DOMAIN bills[m - 1].quantity)
    BY <1>1, <1>3
  <2>4. QED BY <2>2, <2>3 DEF Previous
<1>4. QED BY <1>2, <1>3

LEMMA RowsBeforeNext == TypeOK' /\ BillsInv' => RowsBefore'
BY RowsBeforeHold, PTL

LEMMA TermsStay == ASSUME BillsInv, SettledBills # {}, [Next]_vars PROVE terms' = terms
<1>1. bills # <<>>
  BY DEF SettledBills, SettledBefore
<1>2. status # "draft"
  BY <1>1 DEF BillsInv, InForce
<1>3. QED BY <1>2 DEF Next, EditTerms, SetStatus, CreateVariation, DecideVariation, ReleaseRetention, PayAdvance,
                      PayRetention, CreateBill, RemoveBill, SubmitBill, ReturnToDraft, UpdateBill, Certify, PayBill,
                      KeepContract, contract, vars

(* A bill settled before is booked as it was. *)
LEMMA BookedKept ==
  ASSUME TypeOK, BillsInv, TypeOK', BillsInv', Kept, terms' = terms, NEW m \in SettledBills
  PROVE  BookedFor(m)' = BookedFor(m)
<1>1. RowsBefore /\ RowsBefore'
  BY RowsBeforeHold, RowsBeforeNext
<1>2. /\ bills'[m].quantity = bills[m].quantity /\ m \in SettledBills' /\ m \in Nat
      /\ m > 1 => bills'[m - 1].quantity = bills[m - 1].quantity
  <2>1. SettledBills = 1..SettledCount /\ SettledCount \in Nat
    BY SettledAre
  <2>2. m > 1 => m - 1 \in SettledBills
    BY <2>1
  <2>3. m \in SettledBills'
    <3>1. DOMAIN bills' = 1..Len(bills') /\ Len(bills') \in Nat
      BY DEF TypeOK
    <3>2. m \in DOMAIN bills' /\ bills'[m].status \in Settled
      BY DEF Kept
    <3>3. QED BY <3>1, <3>2 DEF SettledBills, SettledBefore
  <2>4. QED BY <2>1, <2>2, <2>3 DEF Kept
<1>3. DOMAIN bills[m].quantity \subseteq Lines
  <2>1. m \in DOMAIN bills
    BY DEF SettledBills, SettledBefore
  <2>2. QED BY <2>1, BillTyped
<1>4. \A l \in DOMAIN bills[m].quantity : Previous(m, l)' = Previous(m, l)
  BY <1>1, <1>2, <1>3 DEF RowsBefore
<1>5. QED BY <1>2, <1>4 DEF BookedFor

(* A bill is booked, when it is certified, at its gross. *)
LEMMA BookedNew ==
  ASSUME TypeOK, BillsInv, TypeOK', BillsInv', Kept, NEW n, Settles(n)
  PROVE  BookedFor(n)' = bills'[n].figures.gross
<1> DEFINE k == SettledCount
           q == bills'[n].quantity
           f == [l \in Billable |-> LineAmount(q[l], terms.rate[l]) - LineAmount(Stated(l), terms.rate[l])]
           g == [l \in Billable |-> LineAmount(Stated(l), terms.rate[l])]
           h == [l \in Billable |-> LineAmount(q[l], terms.rate[l])]
           e == Len(bills) + 1
<1>1. k \in Nat /\ SettledBills = 1..k /\ n = k + 1 /\ SettledBills' = 1..n /\ terms' = terms /\ q \in [Billable -> Nat]
      /\ bills'[n].figures.gross = Value(q) - Latest.grossToDate
  BY SettledAre DEF Settles
<1>2. n \in SettledBills' /\ n > 1 <=> k > 0
  BY <1>1
<1>3. k > 0 => bills'[n - 1].quantity = LastQuantity
  <2>1. k > 0 => k \in SettledBills /\ n - 1 = k
    BY <1>1
  <2>2. QED BY <2>1 DEF Kept, LastQuantity
<1>4. \A l \in Billable : Previous(n, l)' = Stated(l)
  <2>1. RowsBefore'
    BY RowsBeforeNext
  <2>2. ASSUME NEW l \in Billable
        PROVE  Previous(n, l)' = IF n > 1 /\ l \in DOMAIN bills'[n - 1].quantity THEN bills'[n - 1].quantity[l] ELSE 0
    BY <1>1, <2>1, BillableLines DEF RowsBefore
  <2>3. QED BY <1>1, <1>3, <2>2 DEF Stated
<1>5. BookedFor(n)' = SumFunction(f)
  <2>1. DOMAIN q = Billable
    BY <1>1
  <2>2. BookedFor(n)' = SumFunction([l \in DOMAIN q |-> LineAmount(q[l], terms.rate[l]) - LineAmount(Previous(n, l)', terms.rate[l])])
    BY <1>1 DEF BookedFor
  <2> HIDE DEF q
  <2>3. [l \in DOMAIN q |-> LineAmount(q[l], terms.rate[l]) - LineAmount(Previous(n, l)', terms.rate[l])] = f
    BY <1>4, <2>1
  <2>4. QED BY <2>2, <2>3
<1>6. ASSUME NEW l \in Billable PROVE f[l] \in Int /\ g[l] \in Int /\ h[l] = f[l] + g[l]
  <2>1. q[l] \in Nat /\ Stated(l) \in Nat /\ terms.rate[l] \in Nat
    BY <1>1, BillableLines, TermsTyped, StatedNat DEF BillsInv
  <2> HIDE DEF q
  <2>2. LineAmount(q[l], terms.rate[l]) \in Nat /\ LineAmount(Stated(l), terms.rate[l]) \in Nat
    BY <2>1, LineAmountNat
  <2>3. QED BY <2>2
<1>7. IsFiniteSet(Billable)
  BY BillableLines, RunningBillsAssumption, FS_Subset
<1>8. AfterSettled(e) /\ Grows /\ ToDateAddsUp
  BY EndFollows DEF BillsInv
<1>9. Value(Before(e)) = SumFunctionOnSet(g, Billable) /\ Value(Before(e)) = Latest.grossToDate
  <2>1. Before(e) = [l \in Billable |-> Stated(l)] /\ Value(Before(e)) = Latest.grossToDate
    BY <1>8, BeforeIs
  <2> HIDE DEF e
  <2>2. [l \in DOMAIN Before(e) |-> LineAmount(Before(e)[l], terms.rate[l])] = g
    BY <2>1
  <2>3. QED BY <2>1, <2>2 DEF Value, SumFunction
<1>10. Value(q) = SumFunctionOnSet(h, Billable)
  <2>1. DOMAIN q = Billable
    BY <1>1
  <2> HIDE DEF q
  <2>2. [l \in DOMAIN q |-> LineAmount(q[l], terms.rate[l])] = h
    BY <2>1
  <2>3. QED BY <2>2 DEF Value, SumFunction
<1>11. SumFunction(f) = SumFunctionOnSet(f, Billable)
  BY DEF SumFunction
<1> HIDE DEF f, g, h, q, e
<1>12. /\ SumFunctionOnSet(h, Billable) = SumFunctionOnSet(f, Billable) + SumFunctionOnSet(g, Billable)
       /\ SumFunctionOnSet(f, Billable) \in Int /\ SumFunctionOnSet(g, Billable) \in Int
  BY <1>6, <1>7, SumAdd, SumInt
<1>13. bills'[n].figures.gross = SumFunctionOnSet(h, Billable) - SumFunctionOnSet(g, Billable)
  BY <1>1, <1>9, <1>10
<1>14. bills'[n].figures.gross = SumFunctionOnSet(f, Billable)
  BY <1>12, <1>13
<1>15. QED BY <1>5, <1>11, <1>14

LEMMA BookedStep == TypeOK /\ BillsInv /\ BookedIsGross /\ [Next]_vars => BookedIsGross'
<1> SUFFICES ASSUME TypeOK, BillsInv, BookedIsGross, [Next]_vars, NEW m \in SettledBills'
             PROVE  BookedFor(m)' = bills'[m].figures.gross
  BY DEF BookedIsGross
<1>1. TypeOK' /\ BillsInv' /\ Kept /\ (Quiet \/ Closes \/ Earns \/ \E amount \in Int : Moves(amount))
  BY StepIs
<1>2. CASE m \in SettledBills
  <2>1. terms' = terms
    BY <1>2, TermsStay
  <2>2. BookedFor(m) = bills[m].figures.gross /\ bills'[m].figures = bills[m].figures
    BY <1>1, <1>2 DEF BookedIsGross, Kept
  <2>3. QED BY <1>1, <1>2, <2>1, <2>2, BookedKept
<1>3. CASE m \notin SettledBills
  <2>1. SettledBills' # SettledBills
    BY <1>3
  <2>2. Settles(SettledCount + 1)
    BY <1>1, <2>1 DEF Quiet, Closes, Moves, Earns, StatementStays
  <2>3. SettledBills = 1..SettledCount /\ SettledCount \in Nat
    BY SettledAre
  <2>4. m = SettledCount + 1
    BY <1>3, <2>2, <2>3 DEF Settles
  <2>5. QED BY <1>1, <2>2, <2>4, BookedNew
<1>4. QED BY <1>2, <1>3

LEMMA BookedHolds == Spec => []BookedIsGross
<1>1. Init => BookedIsGross
  BY DEF Init, BookedIsGross, SettledBills, SettledBefore
<1>2. (TypeOK /\ BillsInv) /\ BookedIsGross /\ [Next]_vars => BookedIsGross'
  BY BookedStep
<1>3. QED BY <1>1, <1>2, BillsHold, PTL DEF Spec

(* So the cost it reports is what was certified less what was charged back. *)
LEMMA CostIs ==
  ASSUME TypeOK, BookedIsGross
  PROVE  Actual = GrossCertified - BackCharged /\ GrossCertified \in Int /\ BackCharged \in Int
<1> DEFINE f == [n \in SettledBills |-> BookedFor(n) - bills[n].figures.deductions]
           g == [n \in SettledBills |-> bills[n].figures.deductions]
           h == [n \in SettledBills |-> bills[n].figures.gross]
<1>1. IsFiniteSet(SettledBills)
  BY SettledAre, FS_Interval
<1>2. ASSUME NEW n \in SettledBills PROVE f[n] \in Int /\ g[n] \in Int /\ h[n] \in Int /\ h[n] = f[n] + g[n]
  <2>1. n \in DOMAIN bills
    BY DEF SettledBills, SettledBefore
  <2>2. bills[n].figures.gross \in Nat /\ bills[n].figures.deductions \in Nat
    BY <2>1, BillTyped DEF FigureRecord
  <2>3. BookedFor(n) = bills[n].figures.gross
    BY DEF BookedIsGross
  <2>4. QED BY <2>2, <2>3
<1>3. /\ Actual = SumFunctionOnSet(f, SettledBills) /\ BackCharged = SumFunctionOnSet(g, SettledBills)
      /\ GrossCertified = SumFunctionOnSet(h, SettledBills)
  BY DEF Actual, BackCharged, GrossCertified, SumFunction
<1> HIDE DEF f, g, h
<1>4. /\ SumFunctionOnSet(h, SettledBills) = SumFunctionOnSet(f, SettledBills) + SumFunctionOnSet(g, SettledBills)
      /\ SumFunctionOnSet(f, SettledBills) \in Int /\ SumFunctionOnSet(g, SettledBills) \in Int
      /\ SumFunctionOnSet(h, SettledBills) \in Int
  BY <1>1, <1>2, SumAdd, SumInt
<1>5. QED BY <1>3, <1>4

LEMMA TogetherTheContract == TypeOK /\ BillsInv /\ BookedIsGross => CommittedThenActual
<1> SUFFICES ASSUME TypeOK, BillsInv, BookedIsGross, status \in {"active", "completed"}
             PROVE  Committed + Actual = SumFunction([l \in Billable |-> ContractValue(l)]) - BackCharged
  BY DEF CommittedThenActual
<1> DEFINE n == Len(bills) + 1
           f == [l \in Billable |-> Max({0, ContractValue(l) - CertifiedToDate(l)})]
           g == [l \in Billable |-> LineAmount(Before(n)[l], terms.rate[l])]
           h == [l \in Billable |-> ContractValue(l)]
<1>1. AfterSettled(n) /\ Grows /\ ToDateAddsUp
  BY EndFollows DEF BillsInv
<1>2. Before(n) = [l \in Billable |-> Stated(l)] /\ Value(Before(n)) = Latest.grossToDate /\ DOMAIN Before(n) = Billable
  BY <1>1, BeforeIs
<1>3. ASSUME NEW l \in Billable PROVE f[l] \in Int /\ g[l] \in Int /\ h[l] = f[l] + g[l]
  <2>1. Stated(l) \in Nat /\ Stated(l) <= terms.quantity[l] /\ terms.quantity[l] \in Nat /\ terms.rate[l] \in Nat
    BY <1>1, LastFits, BillableLines, TermsTyped
  <2>2. /\ LineAmount(Stated(l), terms.rate[l]) \in Nat /\ LineAmount(terms.quantity[l], terms.rate[l]) \in Nat
        /\ LineAmount(Stated(l), terms.rate[l]) <= LineAmount(terms.quantity[l], terms.rate[l])
    BY <2>1, LineAmountNat, LineAmountGrows
  <2>3. CertifiedToDate(l) = LineAmount(Stated(l), terms.rate[l])
    BY <1>1, PreviousIs DEF CertifiedToDate
  <2>4. g[l] = LineAmount(Stated(l), terms.rate[l])
    BY <1>2
  <2>5. ContractValue(l) - CertifiedToDate(l) \in Nat /\ ContractValue(l) \in Nat /\ CertifiedToDate(l) \in Nat
    BY <2>2, <2>3 DEF ContractValue
  <2>6. Max({0, ContractValue(l) - CertifiedToDate(l)}) = ContractValue(l) - CertifiedToDate(l)
    BY <2>5, MaxOfTwo
  <2>7. f[l] = ContractValue(l) - CertifiedToDate(l) /\ h[l] = ContractValue(l) /\ g[l] = CertifiedToDate(l)
    BY <2>3, <2>4, <2>6
  <2> HIDE DEF f, g, h
  <2>8. QED BY <2>5, <2>7
<1>4. IsFiniteSet(Billable)
  BY BillableLines, RunningBillsAssumption, FS_Subset
<1>5. Committed = SumFunctionOnSet(f, Billable)
  BY DEF Committed, SumFunction
<1>6. Value(Before(n)) = SumFunctionOnSet(g, Billable)
  BY <1>2 DEF Value, SumFunction
<1>7. SumFunction(h) = SumFunctionOnSet(h, Billable)
  BY DEF SumFunction
<1> HIDE DEF f, g, n
<1>8. SumFunctionOnSet(h, Billable) = SumFunctionOnSet(f, Billable) + SumFunctionOnSet(g, Billable)
  <2> HIDE DEF h
  <2>1. QED BY ONLY <1>3, <1>4, SumAdd
<1>9. GrossCertified = Latest.grossToDate /\ Actual = GrossCertified - BackCharged
      /\ GrossCertified \in Int /\ BackCharged \in Int
  BY CostIs DEF BillsInv, ToDateAddsUp
<1>10. SumFunctionOnSet(f, Billable) \in Int /\ SumFunctionOnSet(g, Billable) \in Int
  BY <1>3, <1>4, SumInt
<1>11. GrossCertified = SumFunctionOnSet(g, Billable)
  BY <1>2, <1>6, <1>9
<1>12. Committed + Actual = SumFunctionOnSet(f, Billable) + (SumFunctionOnSet(g, Billable) - BackCharged)
  BY <1>5, <1>9, <1>11
<1>13. Committed + Actual = SumFunctionOnSet(h, Billable) - BackCharged
  BY <1>8, <1>9, <1>10, <1>12
<1>14. QED BY <1>7, <1>13

(* While the contract runs, promised and cost together are its value less what was charged back, *)
(* in every state of its bills.                                                                  *)
THEOREM TheTwoAreTheContract == Spec => []CommittedThenActual
BY BillsHold, BookedHolds, TogetherTheContract, PTL

-----------------------------------------------------------------------------

LEMMA KeptIsFrozen ==
  ASSUME TypeOK', BillsInv', Kept
  PROVE  \A n \in SettledBills :
           /\ n \in DOMAIN bills' /\ bills'[n].status \in Settled
           /\ bills'[n].quantity = bills[n].quantity /\ bills'[n].figures = bills[n].figures
           /\ bills'[n].paid >= bills[n].paid /\ bills'[n].paid <= bills[n].figures.net
           /\ bills'[n].status = "paid" <=> bills'[n].paid = bills[n].figures.net
<1>1. \A n \in DOMAIN bills' : bills'[n].status \in Settled => n \in SettledBills'
  <2>1. DOMAIN bills' = 1..Len(bills') /\ Len(bills') \in Nat
    BY SettledFactsNext DEF SettledFacts
  <2>2. QED BY <2>1 DEF SettledBills, SettledBefore
<1>2. \A n \in SettledBills' :
        /\ bills'[n].paid <= bills'[n].figures.net
        /\ bills'[n].status = "paid" <=> bills'[n].paid = bills'[n].figures.net
  BY DEF BillsInv, NotOverpaid
<1>3. QED BY <1>1, <1>2 DEF Kept

LEMMA FreezeStep ==
  ASSUME TypeOK, BillsInv, [Next]_vars
  PROVE  \A n \in SettledBills :
           /\ n \in DOMAIN bills' /\ bills'[n].status \in Settled
           /\ bills'[n].quantity = bills[n].quantity /\ bills'[n].figures = bills[n].figures
           /\ bills'[n].paid >= bills[n].paid /\ bills'[n].paid <= bills[n].figures.net
           /\ bills'[n].status = "paid" <=> bills'[n].paid = bills[n].figures.net
<1>1. TypeOK' /\ BillsInv' /\ Kept
  BY StepIs
<1>2. QED BY <1>1, KeptIsFrozen

(* Once certified, a bill is only ever paid, in full at the end and never beyond. *)
THEOREM CertifiedIsFrozen == Spec => FiguresFreeze
<1>1. (TypeOK /\ BillsInv) /\ [Next]_vars
        => [\A n \in SettledBills :
              /\ n \in DOMAIN bills' /\ bills'[n].status \in Settled
              /\ bills'[n].quantity = bills[n].quantity /\ bills'[n].figures = bills[n].figures
              /\ bills'[n].paid >= bills[n].paid /\ bills'[n].paid <= bills[n].figures.net
              /\ bills'[n].status = "paid" <=> bills'[n].paid = bills[n].figures.net]_vars
  BY FreezeStep
<1>2. QED BY <1>1, BillsHold, PTL DEF Spec, FiguresFreeze

-----------------------------------------------------------------------------
(* The account. *)
LEMMA PotsAre ==
  ASSUME TypeOK, BillsInv
  PROVE  /\ BalanceDue \in Int /\ BalanceDue >= 0 /\ Held \in Int /\ Held >= 0
         /\ Recovered \in Int /\ advance - Recovered >= 0
         /\ Retained \in Int /\ NetCertified \in Int /\ PaidOnBills \in Int
         /\ advance \in Int /\ released \in Int /\ retentionPaid \in Int
<1> DEFINE f == [n \in SettledBills |-> bills[n].paid]
           g == [n \in SettledBills |-> bills[n].figures.net]
<1>1. IsFiniteSet(SettledBills) /\ \A n \in SettledBills : n \in DOMAIN bills
  <2>1. SettledBills = 1..SettledCount /\ SettledCount \in Int
    BY SettledAre
  <2>2. IsFiniteSet(1..SettledCount)
    BY <2>1, FS_Interval
  <2>3. QED BY <2>1, <2>2 DEF SettledBills, SettledBefore
<1>2. ASSUME NEW n \in SettledBills PROVE f[n] \in Int /\ g[n] \in Int /\ f[n] <= g[n]
  <2>1. bills[n].paid \in Nat /\ bills[n].figures \in FigureRecord /\ bills[n].paid <= bills[n].figures.net
    BY <1>1, BillTyped DEF BillsInv, NotOverpaid
  <2>2. QED BY <2>1 DEF FigureRecord
<1>3. PaidOnBills = SumFunctionOnSet(f, SettledBills) /\ NetCertified = SumFunctionOnSet(g, SettledBills)
  BY DEF PaidOnBills, NetCertified, SumFunction
<1> HIDE DEF f, g
<1>4. PaidOnBills \in Int /\ NetCertified \in Int /\ PaidOnBills <= NetCertified
  BY <1>1, <1>2, <1>3, SumInt, SumMonotone
<1>5. Retained \in Nat /\ Held \in Nat
  BY HeldInt
<1>6. Recovered \in Nat /\ Recovered <= advance
  BY LatestTyped DEF BillsInv, ToDateAddsUp
<1>7. advance \in Nat /\ released \in Nat /\ retentionPaid \in Nat /\ retentionPaid <= released
  BY DEF TypeOK, BillsInv, PotsHold
<1>8. BalanceDue \in Int /\ BalanceDue >= 0
  BY <1>4, <1>7 DEF BalanceDue
<1>9. QED BY <1>4, <1>5, <1>6, <1>7, <1>8

PotsSound == BalanceDue >= 0 /\ Held >= 0 /\ advance - Recovered >= 0

LEMMA PotsNext == TypeOK' /\ BillsInv' => PotsSound'
<1>1. TypeOK /\ BillsInv => PotsSound
  BY PotsAre DEF PotsSound
<1>2. QED BY <1>1, PTL

LEMMA AccountInit == ASSUME Init PROVE Account!Init
<1>1. TypeOK /\ SettledBills = {}
  BY InitIs, SettledAre DEF Init
<1>2. /\ NetCertified = 0 /\ PaidOnBills = 0 /\ Retained = 0 /\ Recovered = 0 /\ GrossCertified = 0
      /\ TaxLessBackCharges = 0
  BY <1>1, TotalNothing DEF NetCertified, PaidOnBills, Retained, Recovered, GrossCertified, TaxLessBackCharges
<1>3. status = "draft" /\ advance = 0 /\ released = 0 /\ retentionPaid = 0
  BY DEF Init
<1>4. QED BY <1>2, <1>3 DEF Account!Init, BalanceDue, Held

LEMMA AccountStep ==
  ASSUME TypeOK, BillsInv, [Next]_vars
  PROVE  [Account!Next]_(Account!pots)
<1>1. TypeOK' /\ BillsInv' /\ (Quiet \/ Closes \/ Earns \/ \E amount \in Int : Moves(amount))
  BY StepIs
<1>2. /\ BalanceDue \in Int /\ BalanceDue >= 0 /\ Held \in Int /\ Held >= 0
      /\ Recovered \in Int /\ advance - Recovered >= 0
      /\ Retained \in Int /\ NetCertified \in Int /\ PaidOnBills \in Int
      /\ advance \in Int /\ released \in Int /\ retentionPaid \in Int
  BY PotsAre
<1>3. BalanceDue' >= 0 /\ Held' >= 0 /\ advance' - Recovered' >= 0
  BY <1>1, PotsNext DEF PotsSound
<1>4. CASE Quiet
  <2>1. /\ BalanceDue' = BalanceDue /\ Held' = Held /\ (advance - Recovered)' = advance - Recovered
        /\ (PaidOnBills + retentionPaid + advance)' = PaidOnBills + retentionPaid + advance
        /\ (GrossCertified + TaxLessBackCharges)' = GrossCertified + TaxLessBackCharges
        /\ (status = "closed")' = (status = "closed")
    BY <1>4 DEF Quiet, StatementStays, money, BalanceDue, Held
  <2>2. QED BY <2>1 DEF Account!pots
<1>5. CASE Closes
  <2>1. /\ BalanceDue' = BalanceDue /\ Held' = Held /\ (advance - Recovered)' = advance - Recovered
        /\ (PaidOnBills + retentionPaid + advance)' = PaidOnBills + retentionPaid + advance
        /\ (GrossCertified + TaxLessBackCharges)' = GrossCertified + TaxLessBackCharges
    BY <1>5 DEF Closes, StatementStays, money, BalanceDue, Held
  <2>2. status # "closed" /\ status' = "closed" /\ Held <= 0 /\ BalanceDue <= 0
    BY <1>5 DEF Closes, SetStatus, Transitions, TypeOK
  <2>3. Held = 0 /\ BalanceDue = 0
    BY <1>2, <2>2
  <2>4. Account!Close
    BY <2>1, <2>2, <2>3 DEF Account!Close
  <2>5. QED BY <2>4 DEF Account!Next
<1>6. CASE Earns
  <2>1. PICK f \in FigureRecord : Adds(f) /\ UNCHANGED <<contract, money>> /\ status \in {"active", "completed"}
    BY <1>6 DEF Earns
  <2>2. /\ f.net \in Int /\ f.gross \in Int /\ f.tax \in Int /\ f.retention \in Int /\ f.recovery \in Int
        /\ f.deductions \in Int /\ f.net >= 0 /\ f.retention >= 0 /\ f.recovery >= 0
        /\ f.net = f.gross + f.tax - f.retention - f.recovery - f.deductions
    BY <2>1 DEF FigureRecord, Adds
  <2>3. /\ GrossCertified' = GrossCertified + f.gross /\ Retained' = Retained + f.retention /\ Recovered' = Recovered + f.recovery
        /\ NetCertified' = NetCertified + f.net /\ TaxLessBackCharges' = TaxLessBackCharges + (f.tax - f.deductions)
        /\ PaidOnBills' = PaidOnBills /\ GrossCertified \in Int /\ TaxLessBackCharges \in Int
    BY <2>1 DEF Adds
  <2>4. advance' = advance /\ released' = released /\ retentionPaid' = retentionPaid /\ status' = status
        /\ status # "closed"
    BY <2>1 DEF contract, money
  <2>5. BalanceDue' = BalanceDue + f.net
    BY <1>2, <2>2, <2>3, <2>4 DEF BalanceDue
  <2>6. Held' = Held + f.retention
    BY <1>2, <2>2, <2>3, <2>4 DEF Held
  <2>7. (advance - Recovered)' = (advance - Recovered) - f.recovery
    BY <1>2, <2>2, <2>3, <2>4
  <2>8. (GrossCertified + TaxLessBackCharges)' = (GrossCertified + TaxLessBackCharges) + f.gross + f.tax - f.deductions
    BY <2>2, <2>3
  <2>9. (PaidOnBills + retentionPaid + advance)' = PaidOnBills + retentionPaid + advance
    BY <2>3, <2>4
  <2> DEFINE worth == GrossCertified + TaxLessBackCharges
             lent == advance - Recovered
  <2>10. worth \in Int /\ lent \in Int
    BY <1>2, <2>3
  <2>11. /\ BalanceDue' >= BalanceDue /\ Held' >= Held /\ lent' <= lent
         /\ worth' - worth = (BalanceDue' - BalanceDue) + (Held' - Held) + (lent - lent')
    <3>1. lent' = lent - f.recovery /\ worth' = worth + f.gross + f.tax - f.deductions
      BY <2>7, <2>8
    <3> HIDE DEF worth, lent
    <3>2. QED BY <1>2, <2>2, <2>5, <2>6, <2>10, <3>1
  <2>12. Account!Certify
    BY <1>3, <2>4, <2>9, <2>11 DEF Account!Certify, Account!Sound
  <2>13. QED BY <2>12 DEF Account!Next
<1>7. ASSUME NEW amount \in Int, Moves(amount) PROVE Account!Next
  <2>1. amount > 0 /\ StatementStays /\ status' = status
    BY <1>7 DEF Moves
  <2>2. /\ Recovered' = Recovered /\ Retained' = Retained /\ NetCertified' = NetCertified
        /\ (GrossCertified + TaxLessBackCharges)' = GrossCertified + TaxLessBackCharges
        /\ (status = "closed")' = (status = "closed")
    BY <2>1 DEF StatementStays
  <2>3. CASE ReleaseRetention(amount) /\ PaidOnBills' = PaidOnBills
    <3>1. /\ released' = released + amount /\ advance' = advance /\ retentionPaid' = retentionPaid /\ status # "closed"
      BY <2>3 DEF ReleaseRetention
    <3>2. BalanceDue' = BalanceDue + amount /\ Held' = Held - amount
      BY <1>2, <2>2, <2>3, <3>1 DEF BalanceDue, Held
    <3>3. Held' < Held /\ BalanceDue' - BalanceDue = Held - Held'
      BY <1>2, <2>1, <3>2
    <3>4. Account!Release
      BY <1>3, <2>2, <2>3, <3>1, <3>3 DEF Account!Release, Account!Sound
    <3>5. QED BY <3>4 DEF Account!Next
  <2>4. CASE PayAdvance(amount) /\ PaidOnBills' = PaidOnBills
    <3>1. released' = released /\ advance' = advance + amount /\ retentionPaid' = retentionPaid
      BY <2>4 DEF PayAdvance
    <3>2. BalanceDue' = BalanceDue /\ Held' = Held
      BY <2>2, <2>4, <3>1 DEF BalanceDue, Held
    <3>3. /\ advance' - Recovered' > advance - Recovered
          /\ (PaidOnBills' + retentionPaid' + advance') - (PaidOnBills + retentionPaid + advance)
               = (advance' - Recovered') - (advance - Recovered)
      BY <1>2, <2>1, <2>2, <2>4, <3>1
    <3>4. Account!Lend
      BY <2>2, <3>2, <3>3 DEF Account!Lend
    <3>5. QED BY <3>4 DEF Account!Next
  <2>5. CASE PayRetention(amount) /\ PaidOnBills' = PaidOnBills
    <3>1. released' = released /\ advance' = advance /\ retentionPaid' = retentionPaid + amount
      BY <2>5 DEF PayRetention
    <3>2. BalanceDue' = BalanceDue - amount /\ Held' = Held
      BY <1>2, <2>2, <2>5, <3>1 DEF BalanceDue, Held
    <3>3. /\ BalanceDue' < BalanceDue
          /\ (PaidOnBills' + retentionPaid' + advance') - (PaidOnBills + retentionPaid + advance)
               = BalanceDue - BalanceDue'
      BY <1>2, <2>1, <2>5, <3>1, <3>2
    <3>4. Account!Pay
      BY <1>3, <2>2, <3>1, <3>2, <3>3 DEF Account!Pay, Account!Sound
    <3>5. QED BY <3>4 DEF Account!Next
  <2>6. CASE UNCHANGED money /\ PaidOnBills' = PaidOnBills + amount
    <3>1. released' = released /\ advance' = advance /\ retentionPaid' = retentionPaid
      BY <2>6 DEF money
    <3>2. BalanceDue' = BalanceDue - amount /\ Held' = Held
      BY <1>2, <2>2, <2>6, <3>1 DEF BalanceDue, Held
    <3>3. /\ BalanceDue' < BalanceDue
          /\ (PaidOnBills' + retentionPaid' + advance') - (PaidOnBills + retentionPaid + advance)
               = BalanceDue - BalanceDue'
      BY <1>2, <2>1, <2>6, <3>1, <3>2
    <3>4. Account!Pay
      BY <1>3, <2>2, <3>1, <3>2, <3>3 DEF Account!Pay, Account!Sound
    <3>5. QED BY <3>4 DEF Account!Next
  <2>7. QED BY <1>7, <2>3, <2>4, <2>5, <2>6 DEF Moves
<1>8. QED BY <1>1, <1>4, <1>5, <1>6, <1>7

(* The bills, the releases and the payments are an account: its four pots stay sound, money only moves between *)
(* them, and it is closed with nothing left to settle.                                                        *)
THEOREM StatementIsAnAccount == Spec => KeepsAnAccount
<1>1. Init => Account!Init
  BY AccountInit
<1>2. (TypeOK /\ BillsInv) /\ [Next]_vars => [Account!Next]_(Account!pots)
  BY AccountStep
<1>3. QED BY <1>1, <1>2, BillsHold, PTL DEF Spec, KeepsAnAccount, Account!Spec

-----------------------------------------------------------------------------
(* What follows from being an account: the books balance, and what is closed is settled. *)
LEMMA PotsAreNumbers ==
  ASSUME TypeOK, BillsInv
  PROVE  /\ BalanceDue \in Int /\ Held \in Int /\ advance - Recovered \in Int
         /\ PaidOnBills + retentionPaid + advance \in Int /\ GrossCertified + TaxLessBackCharges \in Int
<1> DEFINE gross == [n \in SettledBills |-> bills[n].figures.gross]
           rest == [n \in SettledBills |-> bills[n].figures.tax - bills[n].figures.deductions]
<1>1. IsFiniteSet(SettledBills) /\ \A n \in SettledBills : n \in DOMAIN bills
  <2>1. SettledBills = 1..SettledCount /\ SettledCount \in Int
    BY SettledAre
  <2>2. IsFiniteSet(1..SettledCount)
    BY <2>1, FS_Interval
  <2>3. QED BY <2>1, <2>2 DEF SettledBills, SettledBefore
<1>2. \A n \in SettledBills : bills[n].figures \in FigureRecord
  BY <1>1, BillTyped
<1>3. gross \in [SettledBills -> Int] /\ rest \in [SettledBills -> Int]
  BY <1>2 DEF FigureRecord
<1>4. GrossCertified = SumFunction(gross) /\ TaxLessBackCharges = SumFunction(rest)
  BY DEF GrossCertified, TaxLessBackCharges
<1> HIDE DEF gross, rest
<1>5. GrossCertified \in Int /\ TaxLessBackCharges \in Int
  BY <1>1, <1>3, <1>4, TotalInt
<1>6. QED BY <1>5, PotsAre

PotsKnown ==
  /\ BalanceDue \in Int /\ Held \in Int /\ advance - Recovered \in Int
  /\ PaidOnBills + retentionPaid + advance \in Int /\ GrossCertified + TaxLessBackCharges \in Int
  /\ PotsSound

LEMMA PotsKnownNext == (TypeOK /\ BillsInv => PotsKnown) /\ (TypeOK' /\ BillsInv' => PotsKnown')
<1>1. TypeOK /\ BillsInv => PotsKnown
  BY PotsAreNumbers, PotsAre DEF PotsKnown, PotsSound
<1>2. QED BY <1>1, PTL

(* A move takes from one pot what it puts into another; after the closing there is only an advance to move. *)
AccountInv == TypeOK /\ BillsInv /\ Account!Balanced /\ Account!Settled

LEMMA MovesBalance == ASSUME AccountInv, [Next]_vars PROVE AccountInv'
<1> DEFINE due == BalanceDue               due2 == BalanceDue'
           held == Held                    held2 == Held'
           lent == advance - Recovered     lent2 == (advance - Recovered)'
           spent == PaidOnBills + retentionPaid + advance
           spent2 == (PaidOnBills + retentionPaid + advance)'
           worth == GrossCertified + TaxLessBackCharges
           worth2 == (GrossCertified + TaxLessBackCharges)'
           closed == status = "closed"     closed2 == (status = "closed")'
<1>1. TypeOK' /\ BillsInv' /\ [Account!Next]_(Account!pots)
  BY StepIs, AccountStep DEF AccountInv
<1>2. /\ due \in Int /\ held \in Int /\ lent \in Int /\ spent \in Int /\ worth \in Int
      /\ due2 \in Int /\ held2 \in Int /\ lent2 \in Int /\ spent2 \in Int /\ worth2 \in Int
      /\ due2 >= 0 /\ held2 >= 0 /\ lent2 >= 0
  BY <1>1, PotsKnownNext DEF AccountInv, PotsKnown, PotsSound
<1>3. spent + due + held = worth + lent /\ (closed => due = 0 /\ held = 0)
  BY DEF AccountInv, Account!Balanced, Account!Settled
<1>4. \/ due2 = due /\ held2 = held /\ lent2 = lent /\ spent2 = spent /\ worth2 = worth /\ closed2 = closed
      \/ ~closed /\ closed2 = closed /\ spent2 = spent /\ worth2 - worth = (due2 - due) + (held2 - held) + (lent - lent2)
      \/ ~closed /\ closed2 = closed /\ spent2 = spent /\ worth2 = worth /\ lent2 = lent /\ due2 - due = held - held2
      \/ closed2 = closed /\ worth2 = worth /\ lent2 = lent /\ held2 = held /\ due2 < due /\ spent2 - spent = due - due2
      \/ closed2 = closed /\ worth2 = worth /\ due2 = due /\ held2 = held /\ spent2 - spent = lent2 - lent
      \/ due = 0 /\ held = 0 /\ due2 = due /\ held2 = held /\ lent2 = lent /\ spent2 = spent /\ worth2 = worth
  <2>1. CASE UNCHANGED Account!pots
    BY <2>1 DEF Account!pots
  <2>2. CASE Account!Certify
    BY <2>2 DEF Account!Certify
  <2>3. CASE Account!Release
    BY <2>3 DEF Account!Release
  <2>4. CASE Account!Pay
    BY <2>4 DEF Account!Pay
  <2>5. CASE Account!Lend
    BY <2>5 DEF Account!Lend
  <2>6. CASE Account!Close
    BY <2>6 DEF Account!Close
  <2>7. QED BY <1>1, <2>1, <2>2, <2>3, <2>4, <2>5, <2>6 DEF Account!Next
<1>5. spent2 + due2 + held2 = worth2 + lent2 /\ (closed2 => due2 = 0 /\ held2 = 0)
  <2> HIDE DEF due, due2, held, held2, lent, lent2, spent, spent2, worth, worth2, closed, closed2
  <2>1. QED BY <1>2, <1>3, <1>4
<1>6. QED BY <1>1, <1>2, <1>5 DEF AccountInv, Account!Balanced, Account!Settled, Account!Sound

(* The books balance: what was handed over, with what is still owed and held, is what the work has earned and *)
(* the advance not yet recovered; no pot is ever overdrawn, and a closed contract owes and holds nothing.     *)
THEOREM BooksBalance == Spec => [](Account!Balanced /\ Account!Settled)
<1>1. Init => AccountInv
  <2> SUFFICES ASSUME Init PROVE AccountInv
    OBVIOUS
  <2>1. TypeOK /\ BillsInv /\ Account!Init
    BY InitIs, AccountInit
  <2>2. QED BY <2>1 DEF Account!Init, AccountInv, Account!Balanced, Account!Settled, Account!Sound
<1>2. AccountInv /\ [Next]_vars => AccountInv'
  BY MovesBalance
<1>3. AccountInv => Account!Balanced /\ Account!Settled
  BY DEF AccountInv
<1>4. QED BY <1>1, <1>2, <1>3, PTL DEF Spec
=============================================================================
