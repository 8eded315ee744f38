---------------------------- MODULE ChangeOrders ----------------------------
(***************************************************************************)
(* The change orders of one site, the approvals its client answers, and    *)
(* the figures an agreed change moves (ChangeOrdersService,                *)
(* ChangeOrderApprovalsService, ApprovalsService).  A handler reads, and   *)
(* then writes and commits, with other requests in between; the client's   *)
(* answer takes its row locks one by one and holds them to its end.        *)
(* Every line has a cost code; tax, the handover date, which moves and is  *)
(* edited as the site's budget is, attachments and suggestions are left    *)
(* out.                                                                    *)
(***************************************************************************)
EXTENDS Integers, Sequences, FiniteSets, Functions, FiniteSetsExt

CONSTANTS Orders, Approvals, Codes, Requests,
          Offers,              \* what an order may ask: an amount per cost code, and a price
          Budgets, Contracts,  \* what somebody may set a budget, and the contract as signed, to
          Racing,              \* the operations that may overlap on one order
          MaxRevision, MaxEdits,  \* bounds on revisions, and on edits of a budget or the contract
          NoOrder, NoApproval

ASSUME ChangeOrdersAssumption ==
  /\ IsFiniteSet(Orders) /\ IsFiniteSet(Codes) /\ Codes \subseteq Nat
  /\ Budgets \subseteq Nat /\ Budgets # {} /\ Contracts \subseteq Nat /\ Contracts # {}
  /\ Offers \subseteq [lines : [Codes -> Int], price : Int] /\ MaxRevision \in Nat /\ MaxEdits \in Nat
  /\ NoOrder \notin Orders /\ NoApproval \notin Approvals

VARIABLES order,      \* change_orders, with their lines and stored price
          approval,   \* approvals; order is the one it was raised for, shown the price in its text
          budget,     \* of each cost code
          siteBudget, contract,   \* of the project: its budget, and the contract as signed
          moved,      \* per cost code, what moved its budget: revisions, and edits by hand
          site,       \* the site revisions
          byHand,     \* what the site's budget was last set to by hand, per number of revisions before
          edits,      \* how often figures were edited by hand
          req         \* what each request in flight is at, and what it has read

vars == <<order, approval, budget, siteBudget, contract, moved, site, byHand, edits, req>>
figures == <<budget, siteBudget, contract, moved, site, byHand, edits>>

Agreed == {"approved", "implemented"}

Transitions ==
  [none |-> {}, draft |-> {"submitted", "cancelled"}, submitted |-> {"draft", "sent", "cancelled"},
   sent |-> {"approved", "rejected", "cancelled"}, approved |-> {"implemented"},
   rejected |-> {"draft", "cancelled"}, implemented |-> {}, cancelled |-> {}]

Blank == [c \in Codes |-> 0]
NotRaised == [status |-> "none", revision |-> 0, seen |-> FALSE, lines |-> Blank, price |-> 0,
              approval |-> NoApproval, applied |-> FALSE]
NotAsked == [state |-> "none", order |-> NoOrder, shown |-> 0, withdrawn |-> FALSE]
Idle == [op |-> "idle", order |-> NoOrder]

Init ==
  /\ order = [o \in Orders |-> NotRaised]
  /\ approval = [a \in Approvals |-> NotAsked]
  /\ budget = [c \in Codes |-> Min(Budgets)] /\ siteBudget = Min(Budgets) /\ contract = Min(Contracts)
  /\ moved = [c \in Codes |-> <<>>] /\ site = <<>> /\ edits = 0
  /\ byHand = [k \in {0} |-> Min(Budgets)]
  /\ req = [r \in Requests |-> Idle]

-----------------------------------------------------------------------------
(* Requests. *)

(* Requests on one order overlap only when both are of a kind that may. *)
MayBegin(r, o, op) ==
  /\ req[r] = Idle
  /\ o # NoOrder =>
       \A s \in Requests : req[s].order = o => op \in Racing /\ req[s].op \in Racing

Begin(r, what) ==
  /\ MayBegin(r, what.order, what.op)
  /\ req' = [req EXCEPT ![r] = what]
  /\ UNCHANGED <<order, approval, figures>>

End(r) == req' = [req EXCEPT ![r] = Idle]
Goes(r, stage) == req' = [req EXCEPT ![r].stage = stage]

ApprovalFree(a) ==
  \A s \in Requests : ~(req[s].op = "decide" /\ req[s].stage # "asked" /\ req[s].approval = a)

CodeFreeAlways(c) == TRUE
CodeFree(c) ==
  \A s \in Requests : ~(req[s].op = "decide" /\ c \in DOMAIN req[s].found)

SiteFreeAlways == TRUE
SiteFree == \A s \in Requests : ~(req[s].op = "decide" /\ req[s].stage = "settling")

AnythingStands(row) == TRUE

(* The database's own rule, change_orders_applied_when_agreed: a row that breaks it is refused, *)
(* and the transaction with it.                                                                  *)
Stands(row) == row.applied <=> row.status \in Agreed

Save(o, row, approvals) ==
  IF Stands(row) THEN order' = [order EXCEPT ![o] = row] /\ approval' = approvals
                 ELSE UNCHANGED <<order, approval>>

-----------------------------------------------------------------------------
(* From a draft to the client. *)

Create(o, offer) ==
  /\ order[o].status = "none"
  /\ order' = [order EXCEPT ![o] = [NotRaised EXCEPT !.status = "draft", !.lines = offer.lines,
                                                 !.price = offer.price]]
  /\ UNCHANGED <<approval, figures, req>>

(* What a handler asks of the order it has loaded. *)
Allows(row, op) ==
  CASE op = "update" -> row.status = "draft"
    [] op = "remove" -> row.status = "draft" /\ row.revision = 0 /\ ~row.seen
    [] op = "submit" -> "submitted" \in Transitions[row.status] /\ row.lines # Blank
    [] op = "return" -> row.status = "submitted"
    [] op = "approve" -> "sent" \in Transitions[row.status]
    [] op = "revise" -> row.status = "rejected" /\ row.revision < MaxRevision
    [] op = "implement" -> "implemented" \in Transitions[row.status]
    [] op = "cancel" -> "cancelled" \in Transitions[row.status]
    [] OTHER -> FALSE

Operations == {"update", "remove", "submit", "return", "approve", "revise", "implement", "cancel"}

Load(r, o, op) ==
  /\ Allows(order[o], op)
  /\ Begin(r, [op |-> op, order |-> o, row |-> order[o],
               pending |-> LET a == order[o].approval
                           IN a # NoApproval /\ approval[a].state = "pending" /\ ~approval[a].withdrawn])

(* The second half: the handler writes its own columns over whatever the row says by now. *)
Writing(r, op) == req[r].op = op /\ End(r) /\ UNCHANGED figures

Update(r, offer) ==
  LET o == req[r].order
  IN /\ Writing(r, "update")
     /\ IF order[o].status = "none" THEN UNCHANGED <<order, approval>>
        ELSE Save(o, [order[o] EXCEPT !.lines = offer.lines, !.price = offer.price], approval)

Remove(r) ==
  /\ Writing(r, "remove")
  /\ order' = [order EXCEPT ![req[r].order] = NotRaised]
  /\ UNCHANGED approval

Status(r, op, to) ==
  LET o == req[r].order
  IN /\ Writing(r, op)
     /\ IF order[o].status = "none" THEN UNCHANGED <<order, approval>>
        ELSE Save(o, [order[o] EXCEPT !.status = to, !.seen = @ \/ to = "submitted"], approval)

Submit(r) == Status(r, "submit", "submitted")
ReturnToDraft(r) == Status(r, "return", "draft")
Implement(r) == Status(r, "implement", "implemented")

(* The internal sign-off asks the client, at the price that was read (sendToClient). *)
Approve(r, a) ==
  LET o == req[r].order
  IN /\ Writing(r, "approve")
     /\ approval[a].state = "none"
     /\ IF order[o].status = "none" THEN UNCHANGED <<order, approval>>
        ELSE Save(o, [order[o] EXCEPT !.status = "sent", !.approval = a],
                  [approval EXCEPT ![a] = [state |-> "pending", order |-> o, shown |-> req[r].row.price,
                                           withdrawn |-> FALSE]])

Revise(r) ==
  LET o == req[r].order
  IN /\ Writing(r, "revise")
     /\ Save(o, [order[o] EXCEPT !.status = "draft", !.revision = req[r].row.revision + 1,
                                 !.seen = FALSE, !.approval = NoApproval], approval)

(* A request still with the client is withdrawn along with the order. *)
Cancel(r) ==
  LET o == req[r].order  a == req[r].row.approval
  IN /\ Writing(r, "cancel")
     /\ req[r].pending => ApprovalFree(a)
     /\ IF order[o].status = "none" THEN UNCHANGED <<order, approval>>
        ELSE Save(o, [order[o] EXCEPT !.status = "cancelled"],
                  IF req[r].pending THEN [approval EXCEPT ![a].withdrawn = TRUE] ELSE approval)

-----------------------------------------------------------------------------
(* The client's approvals. *)

(* An approval that is not a change order's. *)
AskClient(a) ==
  /\ approval[a].state = "none"
  /\ approval' = [approval EXCEPT ![a].state = "pending"]
  /\ UNCHANGED <<order, figures, req>>

LinkedTo(a) ==
  IF \E o \in Orders : order[o].approval = a THEN CHOOSE o \in Orders : order[o].approval = a ELSE NoOrder

Waiting(a) == approval[a].state = "pending" /\ ~approval[a].withdrawn

WithdrawRead(r, a) ==
  /\ Waiting(a)
  /\ Begin(r, [op |-> "withdraw", order |-> NoOrder, approval |-> a, stage |-> "checking"])

WithdrawUnchecked(r) ==
  /\ req[r].op = "withdraw" /\ req[r].stage = "checking"
  /\ Goes(r, "writing")
  /\ UNCHANGED <<order, approval, figures>>

(* Never one that a change order waits for (assertWithdrawable). *)
WithdrawCheck(r) ==
  /\ req[r].op = "withdraw" /\ req[r].stage = "checking"
  /\ IF LinkedTo(req[r].approval) = NoOrder THEN Goes(r, "writing") ELSE End(r)
  /\ UNCHANGED <<order, approval, figures>>

WithdrawWrite(r) ==
  /\ req[r].op = "withdraw" /\ req[r].stage = "writing" /\ ApprovalFree(req[r].approval)
  /\ approval' = [approval EXCEPT ![req[r].approval].withdrawn = TRUE]
  /\ End(r)
  /\ UNCHANGED <<order, figures>>

Decision(a, o, answer) ==
  [op |-> "decide", order |-> o, approval |-> a, answer |-> answer, stage |-> "asked",
   row |-> NotRaised, todo |-> {}, found |-> [c \in {} |-> 0], funds |-> 0, signed |-> 0, total |-> 0]

(* From the list of approvals, which looks before its transaction begins; or from the order, by *)
(* somebody the client has told.                                                                 *)
DecideRead(r, a, answer) == Waiting(a) /\ Begin(r, Decision(a, LinkedTo(a), answer))

ClientDecision(r, o, answer) ==
  /\ order[o].status = "sent" /\ order[o].approval # NoApproval
  /\ Waiting(order[o].approval)
  /\ Begin(r, Decision(order[o].approval, o, answer))

At(r, stage) == req[r].op = "decide" /\ req[r].stage = stage

(* The answer is written, unseen by others, and the row is held from here on. *)
Answer(r) ==
  /\ At(r, "asked") /\ ApprovalFree(req[r].approval)
  /\ Goes(r, "answered")
  /\ UNCHANGED <<order, approval, figures>>

Answered(r) == [approval EXCEPT ![req[r].approval].state = req[r].answer]

(* recordDecision: the order behind the approval, as it is once the row is held.  One that no *)
(* longer waits on the client refuses the answer, and the transaction is undone.              *)
Look(r) ==
  LET o == LinkedTo(req[r].approval)
  IN /\ At(r, "answered")
     /\ \/ /\ o = NoOrder
           /\ approval' = Answered(r) /\ End(r) /\ UNCHANGED order
        \/ /\ o # NoOrder /\ order[o].status # "sent"
           /\ End(r) /\ UNCHANGED <<order, approval>>
        \/ /\ o # NoOrder /\ order[o].status = "sent" /\ req[r].answer = "rejected"
           /\ Save(o, [order[o] EXCEPT !.status = "rejected"], Answered(r)) /\ End(r)
        \/ /\ o # NoOrder /\ order[o].status = "sent" /\ req[r].answer = "approved"
           /\ req' = [req EXCEPT ![r] = [@ EXCEPT !.stage = "moving", !.order = o, !.row = order[o],
                                                  !.todo = {c \in Codes : order[o].lines[c] # 0}]]
           /\ UNCHANGED <<order, approval>>
     /\ UNCHANGED figures

-----------------------------------------------------------------------------
(* The yes moves the site's figures (apply). *)

NextCodesUnsorted(todo) == todo
NextCodes(todo) == {Min(todo)}

Found(r, c) == [x \in DOMAIN req[r].found \cup {c} |-> IF x = c THEN budget[c] ELSE req[r].found[x]]

LockCode(r) ==
  /\ At(r, "moving") /\ req[r].todo # {}
  /\ \E c \in NextCodes(req[r].todo) :
       CodeFree(c) /\ req' = [req EXCEPT ![r].todo = @ \ {c}, ![r].found = Found(r, c)]
  /\ UNCHANGED <<order, approval, figures>>

AgreedTotal(o) == SumFunction([x \in {x \in Orders \ {o} : order[x].status \in Agreed} |-> order[x].price])

LockSite(r) ==
  /\ At(r, "moving") /\ req[r].todo = {} /\ SiteFree
  /\ req' = [req EXCEPT ![r] = [@ EXCEPT !.stage = "settling", !.funds = siteBudget, !.signed = contract,
                                         !.total = AgreedTotal(req[r].order)]]
  /\ UNCHANGED <<order, approval, figures>>

AppliedInFull(value, delta) == value + delta

(* A budget never goes below zero (changeOrderApplicableDelta). *)
Applied(value, delta) == IF value + delta < 0 THEN 0 ELSE value + delta

Cost(lines) == SumFunction(lines)

(* Everything at once; or, against the unique index, a second revision of the site, nothing. *)
Settle(r) ==
  LET q == req[r]  o == q.order
      row == [order[o] EXCEPT !.status = "approved", !.applied = TRUE]
      after == [c \in DOMAIN q.found |-> Applied(q.found[c], q.row.lines[c])]
      funds == Applied(q.funds, Cost(q.row.lines))
  IN /\ At(r, "settling")
     /\ End(r)
     /\ IF order[o].status = "none" \/ \E k \in DOMAIN site : site[k].order = o
        THEN UNCHANGED <<order, approval, figures>>
        ELSE /\ order' = [order EXCEPT ![o] = row] /\ approval' = Answered(r)
             /\ budget' = [c \in Codes |-> IF c \in DOMAIN after THEN after[c] ELSE budget[c]]
             /\ moved' = [c \in Codes |-> IF c \in DOMAIN after
                                           THEN Append(moved[c], [before |-> q.found[c], after |-> after[c]])
                                           ELSE moved[c]]
             /\ siteBudget' = funds
             /\ site' = Append(site, [order |-> o, price |-> q.row.price, signed |-> q.signed,
                                      contractBefore |-> q.signed + q.total,
                                      fundsBefore |-> q.funds, fundsAfter |-> funds])
             /\ UNCHANGED <<contract, byHand, edits>>

-----------------------------------------------------------------------------
(* By hand. *)

EditBudget(c, value) ==
  /\ edits < MaxEdits /\ CodeFree(c) /\ budget[c] # value
  /\ budget' = [budget EXCEPT ![c] = value]
  /\ moved' = [moved EXCEPT ![c] = Append(@, [before |-> budget[c], after |-> value])]
  /\ edits' = edits + 1
  /\ UNCHANGED <<order, approval, siteBudget, contract, site, byHand, req>>

SetContractValue(value) ==
  /\ edits < MaxEdits /\ SiteFree
  /\ contract' = value /\ edits' = edits + 1
  /\ UNCHANGED <<order, approval, budget, siteBudget, moved, site, byHand, req>>

(* The site's own form writes its budget outright, and leaves no revision of it. *)
SetSiteBudget(value) ==
  /\ edits < MaxEdits /\ SiteFree
  /\ siteBudget' = value /\ edits' = edits + 1
  /\ byHand' = [k \in DOMAIN byHand \cup {Len(site)} |-> IF k = Len(site) THEN value ELSE byHand[k]]
  /\ UNCHANGED <<order, approval, budget, contract, moved, site, req>>

Next ==
  \/ \E o \in Orders, offer \in Offers : Create(o, offer)
  \/ \E c \in Codes, value \in Budgets : EditBudget(c, value)
  \/ \E value \in Contracts : SetContractValue(value)
  \/ \E value \in Budgets : SetSiteBudget(value)
  \/ \E a \in Approvals : AskClient(a)
  \/ \E r \in Requests :
       \/ \E o \in Orders, op \in Operations : Load(r, o, op)
       \/ \E offer \in Offers : Update(r, offer)
       \/ Remove(r) \/ Submit(r) \/ ReturnToDraft(r) \/ Revise(r) \/ Implement(r) \/ Cancel(r)
       \/ \E a \in Approvals : Approve(r, a) \/ WithdrawRead(r, a)
       \/ WithdrawCheck(r) \/ WithdrawWrite(r)
       \/ \E a \in Approvals, answer \in {"approved", "rejected"} : DecideRead(r, a, answer)
       \/ \E o \in Orders, answer \in {"approved", "rejected"} : ClientDecision(r, o, answer)
       \/ Answer(r) \/ Look(r) \/ LockCode(r) \/ LockSite(r) \/ Settle(r)

Spec == Init /\ [][Next]_vars

-----------------------------------------------------------------------------
(* What the change orders of a site promise. *)

OrderRecord ==
  [status : DOMAIN Transitions, revision : 0..MaxRevision, seen : BOOLEAN,
   lines : {offer.lines : offer \in Offers} \cup {Blank}, price : Int,
   approval : Approvals \cup {NoApproval}, applied : BOOLEAN]
ApprovalRecord ==
  [state : {"none", "pending", "approved", "rejected"}, order : Orders \cup {NoOrder}, shown : Int,
   withdrawn : BOOLEAN]
HandlerRecord == [op : Operations, order : Orders, row : OrderRecord, pending : BOOLEAN]
WithdrawRecord == [op : {"withdraw"}, order : {NoOrder}, approval : Approvals, stage : {"checking", "writing"}]
DecideRecord(held) ==
  [op : {"decide"}, order : Orders \cup {NoOrder}, approval : Approvals, answer : {"approved", "rejected"},
   stage : {"asked", "answered", "moving", "settling"}, row : OrderRecord, todo : SUBSET Codes,
   found : [held -> Nat], funds : Nat, signed : Nat, total : Int]
IsRequest(q) ==
  \/ q \in {Idle} \cup HandlerRecord \cup WithdrawRecord
  \/ \E held \in SUBSET Codes : q \in DecideRecord(held)

TypeOK ==
  /\ order \in [Orders -> OrderRecord] /\ approval \in [Approvals -> ApprovalRecord]
  /\ budget \in [Codes -> Nat] /\ siteBudget \in Nat /\ contract \in Contracts
  /\ moved \in [Codes -> Seq([before : Nat, after : Nat])]
  /\ site \in Seq([order : Orders, price : Int, signed : Nat, contractBefore : Int,
                   fundsBefore : Nat, fundsAfter : Nat])
  /\ 0 \in DOMAIN byHand /\ DOMAIN byHand \subseteq 0..Len(site) /\ \A k \in DOMAIN byHand : byHand[k] \in Nat
  /\ DOMAIN req = Requests /\ \A r \in Requests : IsRequest(req[r])

(* "The client's yes must never be recorded without that, or the other way round": an order waits on *)
(* the client exactly as long as its approval does, a yes to a change order has moved the site, no    *)
(* order moved it without one, and the price it moved by is the price the client was shown.           *)
AnswerTakesEffect ==
  /\ \A o \in Orders :
       LET a == order[o].approval
       IN /\ order[o].status = "sent" => a # NoApproval /\ Waiting(a)
          /\ order[o].status \in Agreed => /\ a # NoApproval /\ approval[a].state = "approved"
                                           /\ \E k \in DOMAIN site : /\ site[k].order = o
                                                                      /\ site[k].price = approval[a].shown
  /\ \A a \in Approvals : approval[a].state = "approved" /\ approval[a].order # NoOrder =>
       order[approval[a].order].approval = a /\ order[approval[a].order].status \in Agreed

(* "Once approved it has moved budgets, the handover date and the contract value, so it can no longer be *)
(* cancelled": whatever overlaps, an agreed order stays agreed, with the approval that agreed it.        *)
AgreedIsKept ==
  [][\A o \in Orders : order[o].status \in Agreed =>
       /\ order'[o].status \in Agreed /\ order'[o].price = order[o].price
       /\ order'[o].approval = order[o].approval /\ ~approval'[order[o].approval].withdrawn]_vars

(* "Two change orders approved at the same moment both land rather than one overwriting the other", and *)
(* "the history still adds up": each revision of a cost code's budget begins where the one before it     *)
(* ended, and the last ends at the budget there is.  So does each revision of the site's budget, unless  *)
(* somebody set it by hand since: then it begins at what was set, and neither swallows the other.        *)
Standing(k) == IF k \in DOMAIN byHand THEN byHand[k] ELSE site[k].fundsAfter
HistoryAddsUp ==
  /\ \A c \in Codes :
       /\ \A k \in DOMAIN moved[c] \ {1} : moved[c][k].before = moved[c][k - 1].after
       /\ moved[c] # <<>> => moved[c][Len(moved[c])].after = budget[c]
  /\ \A k \in DOMAIN site : site[k].fundsBefore = Standing(k - 1)
  /\ siteBudget = Standing(Len(site))

(* The contract before each agreed change is the contract as signed and every change agreed before it, *)
(* once; and what has been agreed by now is what the history says.                                      *)
ContractAddsUp ==
  /\ \A k \in DOMAIN site :
       site[k].contractBefore = site[k].signed + SumFunction([j \in 1..k - 1 |-> site[j].price])
  /\ AgreedTotal(NoOrder) = SumFunction([j \in DOMAIN site |-> site[j].price])

(* Answers to different orders never wait for each other in a circle: of those at work, one can go on. *)
Deciding == {r \in Requests : req[r].op = "decide"}
Blocked(r) ==
  \/ At(r, "asked") /\ ~ApprovalFree(req[r].approval)
  \/ At(r, "moving") /\ req[r].todo # {} /\ \A c \in NextCodes(req[r].todo) : ~CodeFree(c)
  \/ At(r, "moving") /\ req[r].todo = {} /\ ~SiteFree
NoStandoff == Deciding # {} => \E r \in Deciding : ~Blocked(r)
=============================================================================
