---------------------------- MODULE RunningBills ----------------------------
(***************************************************************************)
(* One subcontract and its running-account bills (SubcontractsService,     *)
(* RaBillsService): the contract is let, its work is claimed to date on    *)
(* numbered bills, certified, paid; variations add lines; an advance is    *)
(* lent and recovered; retention is kept back and released; the account is *)
(* closed.  Each action is one request, one transaction; two at once on    *)
(* one contract are not modelled here.                                     *)
(***************************************************************************)
EXTENDS Money, SequencesExt

CONSTANTS Original, Variations,   \* the lines let at first, and those a variation would add, one each
          Terms,                  \* the price terms a draft may be given
          Claims,                 \* quantities to date a request may name
          BackCharges,            \* the deductions a request may carry
          Payments,               \* part payments a request may name, besides all that is due
          MaxBills                \* bound on the number of bills

Lines == Original \cup Variations

ASSUME RunningBillsAssumption ==
  /\ IsFiniteSet(Lines) /\ Original \cap Variations = {}
  /\ Terms \subseteq [retentionBp : Nat, recoveryBp : Nat, taxBp : Nat, advance : Nat,
                      quantity : [Lines -> Nat], rate : [Lines -> Nat]]
  /\ Claims \subseteq Nat /\ BackCharges \subseteq Nat /\ Payments \subseteq Int /\ MaxBills \in Nat

Unbilled == [grossToDate |-> 0, gross |-> 0, retentionToDate |-> 0, retention |-> 0,
             recoveredToDate |-> 0, recovery |-> 0, tax |-> 0, deductions |-> 0, net |-> 0]

VARIABLES status,     \* of the contract
          terms,      \* retention, recovery and tax rates, the advance agreed; quantity and rate per line
          variation,  \* of each variation: none, pending, approved or rejected
          bills,      \* the bills in order of their numbers: status, quantity to date per row, figures, paid
          advance,    \* paid as advance so far
          released, retentionPaid

vars == <<status, terms, variation, bills, advance, released, retentionPaid>>
money == <<advance, released, retentionPaid>>
contract == <<status, terms, variation>>

Settled == {"certified", "paid"}            \* bills whose figures are settled

Init ==
  /\ status = "draft" /\ terms \in Terms
  /\ variation = [v \in Variations |-> "none"]
  /\ bills = <<>>
  /\ advance = 0 /\ released = 0 /\ retentionPaid = 0

-----------------------------------------------------------------------------
(* The ledger, worked out from what is stored (subcontract-ledger.ts). *)

Billable == Original \cup {v \in Variations : variation[v] = "approved"}

SettledBefore(n) == {m \in DOMAIN bills : m < n /\ bills[m].status \in Settled}

(* Certified to date on the bills before n: a bill that does not mention a line leaves it as it was. *)
Previous(n, l) ==
  LET on == {m \in SettledBefore(n) : l \in DOMAIN bills[m].quantity}
  IN IF on = {} THEN 0 ELSE bills[Max(on)].quantity[l]

LastFigures(n) == IF SettledBefore(n) = {} THEN Unbilled ELSE bills[Max(SettledBefore(n))].figures

(* What each line of the contract stood at before bill n, and stands at with these quantities. *)
Before(n) == [l \in Billable |-> Previous(n, l)]
ToDate(n, given) == [l \in Billable |-> IF l \in DOMAIN given THEN given[l] ELSE Previous(n, l)]

Value(quantity) == SumFunction([l \in DOMAIN quantity |-> LineAmount(quantity[l], terms.rate[l])])

RoundedEachTime(n, given, back) ==
  LET grossToDate == Value(ToDate(n, given))
      gross == grossToDate - Value(Before(n))
      last == LastFigures(n)
      retention == BasisPointsOf(gross, terms.retentionBp)
      recoveredToDate == Max({last.recoveredToDate,
                              Min({BasisPointsOf(grossToDate, terms.recoveryBp), advance})})
      recovery == recoveredToDate - last.recoveredToDate
      tax == BasisPointsOf(gross, terms.taxBp)
  IN [grossToDate |-> grossToDate, gross |-> gross,
      retentionToDate |-> last.retentionToDate + retention, retention |-> retention,
      recoveredToDate |-> recoveredToDate, recovery |-> recovery,
      tax |-> tax, deductions |-> back, net |-> gross + tax - retention - recovery - back]

(* The figures of bill n for these quantities and back-charges (computeRaBill): everything is *)
(* worked out to date, and the bill's share is the difference from the previous bill's.       *)
Figures(n, given, back) ==
  LET grossToDate == Value(ToDate(n, given))
      gross == grossToDate - Value(Before(n))
      last == LastFigures(n)
      retentionToDate == BasisPointsOf(grossToDate, terms.retentionBp)
      retention == retentionToDate - last.retentionToDate
      recoveredToDate == Max({last.recoveredToDate,
                              Min({BasisPointsOf(grossToDate, terms.recoveryBp), advance})})
      recovery == recoveredToDate - last.recoveredToDate
      tax == IF gross > 0 THEN BasisPointsOf(gross, terms.taxBp) ELSE 0
  IN [grossToDate |-> grossToDate, gross |-> gross,
      retentionToDate |-> retentionToDate, retention |-> retention,
      recoveredToDate |-> recoveredToDate, recovery |-> recovery,
      tax |-> tax, deductions |-> back, net |-> gross + tax - retention - recovery - back]

(* The statement (subcontractStatement). *)
SettledBills == SettledBefore(Len(bills) + 1)
GrossCertified == SumFunction([n \in SettledBills |-> bills[n].figures.gross])
BackCharged == SumFunction([n \in SettledBills |-> bills[n].figures.deductions])
OpenBills == DOMAIN bills \ SettledBills
Retained == SumFunction([n \in SettledBills |-> bills[n].figures.retention])
Held == Retained - released
NetCertified == SumFunction([n \in SettledBills |-> bills[n].figures.net])
PaidOnBills == SumFunction([n \in SettledBills |-> bills[n].paid])
BalanceDue == NetCertified - PaidOnBills + (released - retentionPaid)
Recovered == SumFunction([n \in SettledBills |-> bills[n].figures.recovery])
TaxLessBackCharges == SumFunction([n \in SettledBills |-> bills[n].figures.tax - bills[n].figures.deductions])

(* The cost report (SubcontractCostsService): promised and not certified; certified, less what *)
(* was charged back.                                                                         *)
CertifiedToDate(l) == LineAmount(Previous(Len(bills) + 1, l), terms.rate[l])
ContractValue(l) == LineAmount(terms.quantity[l], terms.rate[l])
Committed ==
  IF status \in {"active", "completed"}
  THEN SumFunction([l \in Billable |-> Max({0, ContractValue(l) - CertifiedToDate(l)})]) ELSE 0
BookedFor(n) ==                              \* row by row, against the settled bills before it
  SumFunction([l \in DOMAIN bills[n].quantity |->
                 LineAmount(bills[n].quantity[l], terms.rate[l]) - LineAmount(Previous(n, l), terms.rate[l])])
Actual == SumFunction([n \in SettledBills |-> BookedFor(n) - bills[n].figures.deductions])

-----------------------------------------------------------------------------
(* The contract. *)

EditTerms(t) ==
  /\ status = "draft"
  /\ terms' = t
  /\ UNCHANGED <<status, variation, bills, money>>

Transitions == [draft |-> {"active"}, active |-> {"completed", "terminated"},
                completed |-> {"closed", "terminated"}, closed |-> {}, terminated |-> {}]

CloseWhenBillsPaid(to) ==
  /\ to \in Transitions[status]
  /\ to \in {"closed", "terminated"} => OpenBills = {}
  /\ to = "closed" => NetCertified <= PaidOnBills /\ Held <= 0
  /\ status' = to
  /\ UNCHANGED <<terms, variation, bills, money>>

SetStatus(to) ==
  /\ to \in Transitions[status]
  /\ to \in {"closed", "terminated"} => OpenBills = {}
  /\ to = "closed" => Held <= 0 /\ BalanceDue <= 0
  /\ status' = to
  /\ UNCHANGED <<terms, variation, bills, money>>

CreateVariation(v) ==
  /\ status = "active" /\ variation[v] = "none"
  /\ variation' = [variation EXCEPT ![v] = "pending"]
  /\ UNCHANGED <<status, terms, bills, money>>

DecideVariation(v, decision) ==
  /\ variation[v] = "pending"
  /\ decision = "approved" => status = "active"
  /\ variation' = [variation EXCEPT ![v] = decision]
  /\ UNCHANGED <<status, terms, bills, money>>

ReleaseRetention(amount) ==
  /\ status \notin {"draft", "closed"}
  /\ amount > 0 /\ amount <= Held
  /\ released' = released + amount
  /\ UNCHANGED <<contract, bills, advance, retentionPaid>>

PayAdvance(amount) ==
  /\ status # "draft"
  /\ amount > 0 /\ amount <= terms.advance - advance
  /\ advance' = advance + amount
  /\ UNCHANGED <<contract, bills, released, retentionPaid>>

(* What is left of the releases, taken together. *)
PayRetention(amount) ==
  /\ status # "draft"
  /\ amount > 0 /\ amount <= released - retentionPaid
  /\ retentionPaid' = retentionPaid + amount
  /\ UNCHANGED <<contract, bills, advance, released>>

-----------------------------------------------------------------------------
(* The bills. *)

Requests == UNION {[given -> Claims] : given \in SUBSET Billable}

OnlyTheContractLimits(n, claim) ==
  \A l \in DOMAIN claim : claim[l] <= terms.quantity[l]
OnlyNoLess(n, claim) ==
  \A l \in DOMAIN claim : Previous(n, l) <= claim[l]

(* Never less than was certified before, never more than the contract (raQuantityProblems). *)
WithinBounds(n, claim) ==
  \A l \in DOMAIN claim : Previous(n, l) <= claim[l] /\ claim[l] <= terms.quantity[l]

Stored(n, bill) == [bills EXCEPT ![n] = bill]
KeepContract == UNCHANGED <<contract, money>>

(* A row for every line the contract has now: claimed, or as the previous bill left it. *)
CreateBill(claim, back) ==
  LET n == Len(bills) + 1
      rows == ToDate(n, claim)
  IN /\ status \in {"active", "completed"} /\ OpenBills = {} /\ n <= MaxBills
     /\ WithinBounds(n, claim)
     /\ bills' = Append(bills, [status |-> "draft", quantity |-> rows,
                                figures |-> Figures(n, rows, back), paid |-> 0])
     /\ KeepContract

UpdateUntilPaid(n, claim, back) ==
  LET rows == [l \in DOMAIN bills[n].quantity \cup DOMAIN claim |->
                 IF l \in DOMAIN claim THEN claim[l] ELSE bills[n].quantity[l]]
  IN /\ bills[n].status # "paid"
     /\ WithinBounds(n, claim)
     /\ bills' = Stored(n, [bills[n] EXCEPT !.quantity = rows, !.figures = Figures(n, rows, back)])
     /\ KeepContract

UpdateBill(n, claim, back) ==
  LET rows == [l \in DOMAIN bills[n].quantity \cup DOMAIN claim |->
                 IF l \in DOMAIN claim THEN claim[l] ELSE bills[n].quantity[l]]
  IN /\ bills[n].status = "draft"
     /\ WithinBounds(n, claim)
     /\ bills' = Stored(n, [bills[n] EXCEPT !.quantity = rows, !.figures = Figures(n, rows, back)])
     /\ KeepContract

RemoveBill(n) ==
  /\ bills[n].status = "draft"
  /\ bills' = RemoveAt(bills, n)
  /\ KeepContract

(* The figures are refreshed first: an advance or a variation may have come since. *)
SubmitBill(n) ==
  LET figures == Figures(n, bills[n].quantity, bills[n].figures.deductions)
  IN /\ bills[n].status = "draft"
     /\ figures.gross # 0 \/ figures.deductions # 0
     /\ bills' = Stored(n, [bills[n] EXCEPT !.status = "submitted", !.figures = figures])
     /\ KeepContract

ReturnToDraft(n) ==
  /\ bills[n].status = "submitted"
  /\ bills' = Stored(n, [bills[n] EXCEPT !.status = "draft"])
  /\ KeepContract

(* What the certifier agrees was done: of every line the contract has now, no more than claimed. *)
Certify(n, agreed, back) ==
  LET claimed == ToDate(n, bills[n].quantity)
      rows == [l \in Billable |-> IF l \in DOMAIN agreed THEN agreed[l] ELSE claimed[l]]
      figures == Figures(n, rows, back)
  IN /\ bills[n].status = "submitted"
     /\ WithinBounds(n, rows) /\ \A l \in Billable : rows[l] <= claimed[l]
     /\ figures.net >= 0
     /\ bills' = Stored(n, [bills[n] EXCEPT !.status = IF figures.net = 0 THEN "paid" ELSE "certified",
                                            !.quantity = rows, !.figures = figures])
     /\ KeepContract

PayBill(n, amount) ==
  LET owed == bills[n].figures.net - bills[n].paid
  IN /\ bills[n].status = "certified"
     /\ amount > 0 /\ amount <= owed
     /\ bills' = Stored(n, [bills[n] EXCEPT !.paid = @ + amount,
                                            !.status = IF amount = owed THEN "paid" ELSE "certified"])
     /\ KeepContract

Next ==
  \/ \E t \in Terms : EditTerms(t)
  \/ \E to \in {"active", "completed", "closed", "terminated"} : SetStatus(to)
  \/ \E v \in Variations :
       CreateVariation(v) \/ \E decision \in {"approved", "rejected"} : DecideVariation(v, decision)
  \/ \E amount \in Payments \cup {Held} : ReleaseRetention(amount)
  \/ \E amount \in Payments \cup {terms.advance - advance} : PayAdvance(amount)
  \/ \E amount \in Payments \cup {released - retentionPaid} : PayRetention(amount)
  \/ \E claim \in Requests, back \in BackCharges : CreateBill(claim, back)
  \/ \E n \in DOMAIN bills :
       \/ RemoveBill(n) \/ SubmitBill(n) \/ ReturnToDraft(n)
       \/ \E claim \in Requests, back \in BackCharges : UpdateBill(n, claim, back) \/ Certify(n, claim, back)
       \/ \E amount \in Payments \cup {bills[n].figures.net - bills[n].paid} : PayBill(n, amount)

Spec == Init /\ [][Next]_vars

-----------------------------------------------------------------------------
(* What the account promises. *)

FigureRecord ==
  [grossToDate : Nat, gross : Nat, retentionToDate : Nat, retention : Nat, recoveredToDate : Nat,
   recovery : Nat, tax : Nat, deductions : Nat, net : Int]
BillRecord(given) ==
  [status : {"draft", "submitted"} \cup Settled, quantity : [given -> Nat], figures : FigureRecord, paid : Nat]

TypeOK ==
  /\ status \in DOMAIN Transitions /\ terms \in Terms
  /\ variation \in [Variations -> {"none", "pending", "approved", "rejected"}]
  /\ bills \in Seq(Range(bills)) /\ Len(bills) <= MaxBills
  /\ \A n \in DOMAIN bills :
       /\ \E given \in SUBSET Lines : bills[n] \in BillRecord(given)
       /\ IF bills[n].status \in Settled THEN bills[n].figures.net >= 0
                                         ELSE n = Len(bills) /\ bills[n].paid = 0
  /\ advance \in Nat /\ released \in Nat /\ retentionPaid \in Nat

(* No rounding drift (the head of packages/shared/src/subcontracts.ts): what the settled bills  *)
(* billed, kept back and recovered, each rounded on its own, adds up to the figure worked out   *)
(* on all the work certified to date; and no more is recovered than was advanced.               *)
NoDrift ==
  LET value == Value(Before(Len(bills) + 1))
  IN /\ GrossCertified = value
     /\ Retained = BasisPointsOf(value, terms.retentionBp)
     /\ Recovered <= advance
     /\ \A n \in SettledBills : bills[n].figures.recovery >= 0

(* "Certifying a bill moves exactly its gross from committed to actual": while the contract runs,  *)
(* what the cost report shows as promised and as cost is its value less what was charged back,     *)
(* however it was billed, though one is worked out per line and the other per row of every bill.   *)
CommittedThenActual ==
  status \in {"active", "completed"} =>
    Committed + Actual = SumFunction([l \in Billable |-> ContractValue(l)]) - BackCharged

(* "The figures freeze here": a certified bill never changes again but for being paid, its number *)
(* and the bills before it stay, and what it owes is never overpaid.                              *)
FiguresFreeze ==
  [][\A n \in SettledBills :
       /\ n \in DOMAIN bills' /\ bills'[n].status \in Settled
       /\ bills'[n].quantity = bills[n].quantity /\ bills'[n].figures = bills[n].figures
       /\ bills'[n].paid >= bills[n].paid /\ bills'[n].paid <= bills[n].figures.net
       /\ bills'[n].status = "paid" <=> bills'[n].paid = bills[n].figures.net]_vars

(* The statement is an account of four pots between which money moves, settled once it is closed. *)
Account == INSTANCE SubcontractAccount
  WITH owed <- BalanceDue, held <- Held, lent <- advance - Recovered,
       spent <- PaidOnBills + retentionPaid + advance,
       worth <- GrossCertified + TaxLessBackCharges,
       closed <- (status = "closed")
KeepsAnAccount == Account!Spec
=============================================================================
