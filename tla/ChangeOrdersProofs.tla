------------------------- MODULE ChangeOrdersProofs -------------------------
(***************************************************************************)
(* Change orders, for any number of orders, approvals, cost codes and      *)
(* requests in flight.  Whatever overlaps, budgets keep an unbroken        *)
(* history (HistoryIsUnbroken) and answers never lock each other out       *)
(* (AnswersGoOn): LocksHold says that a decision at work has read what it  *)
(* holds, that nobody else holds or writes it, and that it goes through    *)
(* the cost codes upwards.  The record of the site and the answers of the  *)
(* client need more: what an edit, a deletion, a sign-off or a revision    *)
(* has loaded must still be so when it writes.  The service does not       *)
(* ensure that, so these theorems say under which overlaps they hold       *)
(* (EditsAlone, ChangesAlone).                                             *)
(***************************************************************************)
EXTENDS ChangeOrders, Sums, TLAPS

-----------------------------------------------------------------------------
(* Types. *)

Statuses == {"none", "draft", "submitted", "sent", "approved", "rejected", "implemented", "cancelled"}

LEMMA StatusesAre == DOMAIN Transitions = Statuses
BY DEF Transitions, Statuses

LEMMA BlankTyped == Blank \in [Codes -> Int] /\ \A offer \in Offers : offer.lines \in [Codes -> Int] /\ offer.price \in Int
BY ChangeOrdersAssumption DEF Blank

LEMMA NotRaisedTyped == NotRaised \in OrderRecord
BY ChangeOrdersAssumption, StatusesAre DEF NotRaised, OrderRecord, Statuses

LEMMA LinesTyped == \A row \in OrderRecord : row.lines \in [Codes -> Int]
BY BlankTyped DEF OrderRecord

(* What each kind of request in flight looks like. *)
LEMMA RequestKinds ==
  ASSUME NEW q, IsRequest(q)
  PROVE  /\ q.op \in Operations => q \in HandlerRecord
         /\ q.op = "withdraw" => q \in WithdrawRecord
         /\ q.op = "decide" => \E held \in SUBSET Codes : q \in DecideRecord(held)
         /\ q.op \in Operations \cup {"idle", "withdraw", "decide"}
         /\ q.order \in Orders \cup {NoOrder}
         /\ q.op = "idle" => q = Idle
<1>1. CASE q = Idle
  BY <1>1 DEF Idle, Operations
<1>2. CASE q \in HandlerRecord
  BY <1>2 DEF HandlerRecord, Operations
<1>3. CASE q \in WithdrawRecord
  BY <1>3 DEF WithdrawRecord, Operations
<1>4. CASE \E held \in SUBSET Codes : q \in DecideRecord(held)
  BY <1>4 DEF DecideRecord, Operations
<1>5. QED BY <1>1, <1>2, <1>3, <1>4 DEF IsRequest

LEMMA RequestMoves ==
  ASSUME TypeOK, NEW r \in Requests, NEW q, IsRequest(q), req' = [req EXCEPT ![r] = q]
  PROVE  /\ DOMAIN req' = Requests /\ \A s \in Requests : IsRequest(req'[s])
         /\ req'[r] = q /\ \A s \in Requests \ {r} : req'[s] = req[s]
BY DEF TypeOK

LEMMA IdleIsRequest == IsRequest(Idle)
BY DEF IsRequest

LEMMA Ends ==
  ASSUME TypeOK, NEW r \in Requests, End(r)
  PROVE  /\ DOMAIN req' = Requests /\ \A s \in Requests : IsRequest(req'[s])
         /\ req'[r] = Idle /\ \A s \in Requests \ {r} : req'[s] = req[s]
BY IdleIsRequest, RequestMoves DEF End

(* What a request may be when it begins is a request. *)
LEMMA Begins ==
  ASSUME TypeOK, NEW r \in Requests, NEW what, IsRequest(what), Begin(r, what)
  PROVE  TypeOK'
<1>1. DOMAIN req' = Requests /\ \A s \in Requests : IsRequest(req'[s])
  BY RequestMoves DEF Begin
<1>2. QED BY <1>1 DEF Begin, figures, TypeOK

LEMMA LoadTyped ==
  ASSUME TypeOK, NEW r \in Requests, NEW o \in Orders, NEW op \in Operations, Load(r, o, op)
  PROVE  TypeOK'
<1> DEFINE pending == LET a == order[o].approval
                      IN a # NoApproval /\ approval[a].state = "pending" /\ ~approval[a].withdrawn
           what == [op |-> op, order |-> o, row |-> order[o], pending |-> pending]
<1>1. pending \in BOOLEAN /\ order[o] \in OrderRecord
  BY DEF TypeOK
<1>2. what \in HandlerRecord
  <2> HIDE DEF pending
  <2>1. QED BY <1>1 DEF HandlerRecord
<1>3. Begin(r, what)
  BY DEF Load
<1> HIDE DEF what
<1>4. QED BY <1>2, <1>3, Begins DEF IsRequest

(* A handler that writes ends, with an order and approvals of the right shape. *)
LEMMA WriteTyped ==
  ASSUME TypeOK, NEW r \in Requests, End(r), UNCHANGED figures,
         order' \in [Orders -> OrderRecord], approval' \in [Approvals -> ApprovalRecord]
  PROVE  TypeOK'
BY Ends DEF figures, TypeOK

LEMMA SaveTyped ==
  ASSUME TypeOK, NEW o \in Orders, NEW row \in OrderRecord, NEW approvals \in [Approvals -> ApprovalRecord],
         Save(o, row, approvals)
  PROVE  order' \in [Orders -> OrderRecord] /\ approval' \in [Approvals -> ApprovalRecord]
BY DEF Save, TypeOK

LEMMA HandlerOf ==
  ASSUME TypeOK, NEW r \in Requests, NEW op \in Operations, Writing(r, op)
  PROVE  req[r] \in HandlerRecord /\ req[r].op = op /\ req[r].order \in Orders
BY RequestKinds DEF Writing, TypeOK, HandlerRecord

LEMMA UpdateTyped ==
  ASSUME TypeOK, NEW r \in Requests, NEW offer \in Offers, Update(r, offer)
  PROVE  TypeOK'
<1> DEFINE o == req[r].order
           row == [order[o] EXCEPT !.lines = offer.lines, !.price = offer.price]
<1>1. o \in Orders /\ End(r) /\ UNCHANGED figures
  BY HandlerOf DEF Update, Writing, Operations
<1>2. row \in OrderRecord
  BY <1>1, BlankTyped, ZenonT(60) DEF TypeOK, OrderRecord
<1>3. order' \in [Orders -> OrderRecord] /\ approval' \in [Approvals -> ApprovalRecord]
  <2>1. CASE order[o].status = "none"
    BY <2>1 DEF Update, TypeOK
  <2>2. CASE order[o].status # "none"
    <3>1. Save(o, row, approval) /\ approval \in [Approvals -> ApprovalRecord]
      BY <2>2 DEF Update, TypeOK
    <3> HIDE DEF o, row
    <3>2. QED BY <1>1, <1>2, <3>1, SaveTyped
  <2>3. QED BY <2>1, <2>2
<1>4. QED BY <1>1, <1>3, WriteTyped

LEMMA RemoveTyped == ASSUME TypeOK, NEW r \in Requests, Remove(r) PROVE TypeOK'
<1>1. req[r].order \in Orders /\ End(r) /\ UNCHANGED figures
  BY HandlerOf DEF Remove, Writing, Operations
<1>2. order' \in [Orders -> OrderRecord] /\ approval' \in [Approvals -> ApprovalRecord]
  BY <1>1, NotRaisedTyped DEF Remove, TypeOK
<1>3. QED BY <1>1, <1>2, WriteTyped

LEMMA StatusTyped ==
  ASSUME TypeOK, NEW r \in Requests, NEW op \in Operations, NEW to \in Statuses, Status(r, op, to)
  PROVE  TypeOK'
<1> DEFINE o == req[r].order
           row == [order[o] EXCEPT !.status = to, !.seen = @ \/ to = "submitted"]
<1>1. o \in Orders /\ End(r) /\ UNCHANGED figures
  BY HandlerOf DEF Status, Writing
<1>2. row \in OrderRecord
  <2>1. order[o] \in OrderRecord
    BY <1>1 DEF TypeOK
  <2>2. QED BY <2>1, StatusesAre DEF OrderRecord
<1>3. order' \in [Orders -> OrderRecord] /\ approval' \in [Approvals -> ApprovalRecord]
  <2>1. CASE order[o].status = "none"
    BY <2>1 DEF Status, TypeOK
  <2>2. CASE order[o].status # "none"
    <3>1. Save(o, row, approval) /\ approval \in [Approvals -> ApprovalRecord]
      BY <2>2 DEF Status, TypeOK
    <3> HIDE DEF o, row
    <3>2. QED BY <1>1, <1>2, <3>1, SaveTyped
  <2>3. QED BY <2>1, <2>2
<1>4. QED BY <1>1, <1>3, WriteTyped

LEMMA ApproveTyped ==
  ASSUME TypeOK, NEW r \in Requests, NEW a \in Approvals, Approve(r, a)
  PROVE  TypeOK'
<1> DEFINE o == req[r].order
           row == [order[o] EXCEPT !.status = "sent", !.approval = a]
           asked == [state |-> "pending", order |-> o, shown |-> req[r].row.price, withdrawn |-> FALSE]
           approvals == [approval EXCEPT ![a] = asked]
<1>1. o \in Orders /\ End(r) /\ UNCHANGED figures /\ req[r] \in HandlerRecord
  BY HandlerOf DEF Approve, Writing, Operations
<1>2. row \in OrderRecord
  <2>1. order[o] \in OrderRecord
    BY <1>1 DEF TypeOK
  <2>2. QED BY <2>1, StatusesAre DEF OrderRecord, Statuses
<1>3. approvals \in [Approvals -> ApprovalRecord]
  <2>1. asked \in ApprovalRecord
    BY <1>1 DEF ApprovalRecord, HandlerRecord, OrderRecord
  <2> HIDE DEF asked
  <2>2. QED BY <2>1 DEF TypeOK
<1>4. order' \in [Orders -> OrderRecord] /\ approval' \in [Approvals -> ApprovalRecord]
  <2>1. CASE order[o].status = "none"
    BY <2>1 DEF Approve, TypeOK
  <2>2. CASE order[o].status # "none"
    <3>1. Save(o, row, approvals)
      BY <2>2 DEF Approve
    <3> HIDE DEF o, row, approvals
    <3>2. QED BY <1>1, <1>2, <1>3, <3>1, SaveTyped
  <2>3. QED BY <2>1, <2>2
<1>5. QED BY <1>1, <1>4, WriteTyped

LEMMA ReviseTyped ==
  ASSUME TypeOK, NEW r \in Requests, Revise(r), req[r].row.revision < MaxRevision
  PROVE  TypeOK'
<1> DEFINE o == req[r].order
           row == [order[o] EXCEPT !.status = "draft", !.revision = req[r].row.revision + 1,
                                   !.seen = FALSE, !.approval = NoApproval]
<1>1. o \in Orders /\ End(r) /\ UNCHANGED figures /\ req[r] \in HandlerRecord
  BY HandlerOf DEF Revise, Writing, Operations
<1>2. req[r].row.revision + 1 \in 0..MaxRevision
  BY <1>1, ChangeOrdersAssumption DEF HandlerRecord, OrderRecord
<1>3. row \in OrderRecord
  <2>1. order[o] \in OrderRecord
    BY <1>1 DEF TypeOK
  <2>2. QED BY <1>2, <2>1, StatusesAre DEF OrderRecord, Statuses
<1>4. Save(o, row, approval) /\ approval \in [Approvals -> ApprovalRecord]
  BY DEF Revise, TypeOK
<1> HIDE DEF o, row
<1>5. QED BY <1>1, <1>3, <1>4, SaveTyped, WriteTyped

LEMMA CancelTyped ==
  ASSUME TypeOK, NEW r \in Requests, Cancel(r)
  PROVE  TypeOK'
<1> DEFINE o == req[r].order
           a == req[r].row.approval
           row == [order[o] EXCEPT !.status = "cancelled"]
           approvals == IF req[r].pending THEN [approval EXCEPT ![a].withdrawn = TRUE] ELSE approval
<1>1. o \in Orders /\ End(r) /\ UNCHANGED figures
  BY HandlerOf DEF Cancel, Writing, Operations
<1>2. row \in OrderRecord
  <2>1. order[o] \in OrderRecord
    BY <1>1 DEF TypeOK
  <2>2. QED BY <2>1, StatusesAre DEF OrderRecord, Statuses
<1>3. approvals \in [Approvals -> ApprovalRecord]
  BY DEF TypeOK, ApprovalRecord
<1>4. order' \in [Orders -> OrderRecord] /\ approval' \in [Approvals -> ApprovalRecord]
  <2>1. CASE order[o].status = "none"
    BY <2>1 DEF Cancel, TypeOK
  <2>2. CASE order[o].status # "none"
    <3>1. Save(o, row, approvals)
      BY <2>2 DEF Cancel
    <3> HIDE DEF o, row, approvals
    <3>2. QED BY <1>1, <1>2, <1>3, <3>1, SaveTyped
  <2>3. QED BY <2>1, <2>2
<1>5. QED BY <1>1, <1>4, WriteTyped

LEMMA WithdrawTyped ==
  ASSUME TypeOK, NEW r \in Requests,
         (\E a \in Approvals : WithdrawRead(r, a)) \/ WithdrawCheck(r) \/ WithdrawWrite(r)
  PROVE  TypeOK'
<1>1. ASSUME NEW a \in Approvals, WithdrawRead(r, a) PROVE TypeOK'
  <2> DEFINE what == [op |-> "withdraw", order |-> NoOrder, approval |-> a, stage |-> "checking"]
  <2>1. IsRequest(what)
    BY DEF IsRequest, WithdrawRecord
  <2> HIDE DEF what
  <2>2. QED BY <1>1, <2>1, Begins DEF WithdrawRead, what
<1>2. ASSUME req[r].op = "withdraw" PROVE req[r] \in WithdrawRecord
  BY <1>2, RequestKinds DEF TypeOK
<1>3. CASE WithdrawCheck(r)
  <2>1. CASE End(r)
    BY <1>3, <2>1, Ends DEF WithdrawCheck, figures, TypeOK
  <2>2. CASE Goes(r, "writing")
    <3> DEFINE next == [req[r] EXCEPT !.stage = "writing"]
    <3>1. next \in WithdrawRecord
      BY <1>2, <1>3 DEF WithdrawCheck, WithdrawRecord
    <3>2. req' = [req EXCEPT ![r] = next]
      BY <2>2 DEF Goes
    <3>3. IsRequest(next)
      BY <3>1 DEF IsRequest
    <3> HIDE DEF next
    <3>4. DOMAIN req' = Requests /\ \A s \in Requests : IsRequest(req'[s])
      BY <3>2, <3>3, RequestMoves
    <3>5. QED BY <1>3, <3>4 DEF WithdrawCheck, figures, TypeOK
  <2>3. QED BY <1>3, <2>1, <2>2 DEF WithdrawCheck
<1>4. CASE WithdrawWrite(r)
  <2>1. approval' \in [Approvals -> ApprovalRecord]
    BY <1>4 DEF WithdrawWrite, TypeOK, ApprovalRecord
  <2>2. QED BY <1>4, <2>1, WriteTyped DEF WithdrawWrite, TypeOK
<1>5. QED BY <1>1, <1>3, <1>4

LEMMA LinkedIsOrder == ASSUME NEW a PROVE LinkedTo(a) \in Orders \cup {NoOrder}
BY DEF LinkedTo

LEMMA NoneHeld == [c \in {} |-> 0] \in [{} -> Nat]
OBVIOUS

LEMMA DecisionTyped ==
  ASSUME NEW a \in Approvals, NEW o \in Orders \cup {NoOrder}, NEW answer \in {"approved", "rejected"}
  PROVE  Decision(a, o, answer) \in DecideRecord({}) /\ IsRequest(Decision(a, o, answer))
<1>1. Decision(a, o, answer) \in DecideRecord({})
  BY NotRaisedTyped, NoneHeld DEF Decision, DecideRecord
<1>2. QED BY <1>1 DEF IsRequest

LEMMA DecideTyped ==
  ASSUME TypeOK, NEW r \in Requests, NEW answer \in {"approved", "rejected"},
         (\E a \in Approvals : DecideRead(r, a, answer)) \/ (\E o \in Orders : ClientDecision(r, o, answer))
  PROVE  TypeOK'
<1>1. ASSUME NEW a \in Approvals, DecideRead(r, a, answer) PROVE TypeOK'
  BY <1>1, LinkedIsOrder, DecisionTyped, Begins DEF DecideRead
<1>2. ASSUME NEW o \in Orders, ClientDecision(r, o, answer) PROVE TypeOK'
  <2>1. order[o].approval \in Approvals
    BY <1>2 DEF ClientDecision, TypeOK, OrderRecord
  <2>2. QED BY <1>2, <2>1, DecisionTyped, Begins DEF ClientDecision
<1>3. QED BY <1>1, <1>2

(* A request that decides, and what it becomes. *)
LEMMA Deciders ==
  ASSUME TypeOK, NEW r \in Requests, req[r].op = "decide"
  PROVE  \E held \in SUBSET Codes : req[r] \in DecideRecord(held) /\ DOMAIN req[r].found = held
<1>1. PICK held \in SUBSET Codes : req[r] \in DecideRecord(held)
  BY RequestKinds DEF TypeOK
<1>2. req[r].found \in [held -> Nat]
  BY <1>1 DEF DecideRecord
<1>3. QED BY <1>1, <1>2

LEMMA DecideMoves ==
  ASSUME TypeOK, NEW r \in Requests, NEW next, NEW held \in SUBSET Codes, next \in DecideRecord(held),
         req' = [req EXCEPT ![r] = next], UNCHANGED <<order, approval, figures>>
  PROVE  TypeOK'
<1>1. IsRequest(next)
  BY DEF IsRequest
<1>2. DOMAIN req' = Requests /\ \A s \in Requests : IsRequest(req'[s])
  BY <1>1, RequestMoves
<1>3. QED BY <1>2 DEF figures, TypeOK

LEMMA AnswerTyped == ASSUME TypeOK, NEW r \in Requests, Answer(r) PROVE TypeOK'
<1>1. PICK held \in SUBSET Codes : req[r] \in DecideRecord(held)
  BY Deciders DEF Answer, At
<1> DEFINE next == [req[r] EXCEPT !.stage = "answered"]
<1>2. next \in DecideRecord(held)
  BY <1>1 DEF DecideRecord
<1>3. req' = [req EXCEPT ![r] = next] /\ UNCHANGED <<order, approval, figures>>
  BY DEF Answer, Goes
<1> HIDE DEF next
<1>4. QED BY <1>2, <1>3, DecideMoves

LEMMA AnsweredTyped ==
  ASSUME TypeOK, NEW r \in Requests, req[r].op = "decide"
  PROVE  Answered(r) \in [Approvals -> ApprovalRecord]
<1>1. req[r].answer \in {"approved", "rejected"}
  BY Deciders DEF DecideRecord
<1>2. QED BY <1>1 DEF Answered, TypeOK, ApprovalRecord

LEMMA LookTyped == ASSUME TypeOK, NEW r \in Requests, Look(r) PROVE TypeOK'
<1> DEFINE o == LinkedTo(req[r].approval)
<1>0. req[r].op = "decide" /\ UNCHANGED figures /\ Answered(r) \in [Approvals -> ApprovalRecord]
  BY AnsweredTyped DEF Look, At
<1>1. PICK held \in SUBSET Codes : req[r] \in DecideRecord(held)
  BY <1>0, Deciders
<1>2. CASE approval' = Answered(r) /\ End(r) /\ UNCHANGED order
  BY <1>0, <1>2, WriteTyped DEF TypeOK
<1>3. CASE End(r) /\ UNCHANGED <<order, approval>>
  BY <1>0, <1>3, WriteTyped DEF TypeOK
<1>4. CASE o # NoOrder /\ Save(o, [order[o] EXCEPT !.status = "rejected"], Answered(r)) /\ End(r)
  <2> DEFINE row == [order[o] EXCEPT !.status = "rejected"]
  <2>1. o \in Orders
    BY <1>4, LinkedIsOrder
  <2>2. row \in OrderRecord
    <3>1. order[o] \in OrderRecord
      BY <2>1 DEF TypeOK
    <3>2. QED BY <3>1, StatusesAre DEF OrderRecord, Statuses
  <2>3. Save(o, row, Answered(r)) /\ End(r)
    BY <1>4
  <2> HIDE DEF o, row
  <2>4. QED BY <1>0, <2>1, <2>2, <2>3, SaveTyped, WriteTyped
<1>5. CASE /\ o # NoOrder
           /\ req' = [req EXCEPT ![r] = [@ EXCEPT !.stage = "moving", !.order = o, !.row = order[o],
                                                  !.todo = {c \in Codes : order[o].lines[c] # 0}]]
           /\ UNCHANGED <<order, approval>>
  <2> DEFINE todo == {c \in Codes : order[o].lines[c] # 0}
             next == [req[r] EXCEPT !.stage = "moving", !.order = o, !.row = order[o], !.todo = todo]
  <2>1. o \in Orders
    BY <1>5, LinkedIsOrder
  <2>2. order[o] \in OrderRecord /\ todo \in SUBSET Codes
    BY <2>1 DEF TypeOK
  <2>3. next \in DecideRecord(held)
    <3> HIDE DEF todo, o
    <3>1. QED BY <1>1, <2>1, <2>2 DEF DecideRecord
  <2>4. req' = [req EXCEPT ![r] = next] /\ UNCHANGED <<order, approval, figures>>
    BY <1>0, <1>5
  <2> HIDE DEF next
  <2>5. QED BY <2>3, <2>4, DecideMoves
<1>6. QED BY <1>2, <1>3, <1>4, <1>5 DEF Look

LEMMA CodesAreNumbers == \A todo \in SUBSET Codes : todo \subseteq Int
BY ChangeOrdersAssumption

LEMMA NextCode ==
  ASSUME NEW todo \in SUBSET Codes, todo # {}
  PROVE  Min(todo) \in todo /\ \A c \in todo : Min(todo) <= c
<1>0. IsFiniteSet(Codes) /\ Codes \subseteq Nat
  BY ChangeOrdersAssumption
<1>1. IsFiniteSet(todo)
  BY <1>0, FS_Subset
<1>2. todo \subseteq Int
  BY <1>0
<1>3. \E x \in todo : \A y \in todo : x <= y
  BY <1>1, <1>2, Least
<1>4. QED BY <1>3 DEF Min

(* Taking the lock on a cost code reads its budget. *)
LEMMA LockCodeIs ==
  ASSUME TypeOK, NEW r \in Requests, LockCode(r)
  PROVE  \E c \in req[r].todo, held \in SUBSET Codes : \E next \in DecideRecord(held \cup {c}) :
           /\ c = Min(req[r].todo) /\ CodeFree(c) /\ req[r] \in DecideRecord(held)
           /\ req' = [req EXCEPT ![r] = next]
           /\ next = [req[r] EXCEPT !.todo = @ \ {c}, !.found = next.found]
           /\ next.found = [x \in held \cup {c} |-> IF x = c THEN budget[c] ELSE req[r].found[x]]
<1>1. PICK held \in SUBSET Codes : req[r] \in DecideRecord(held) /\ DOMAIN req[r].found = held
  BY Deciders DEF LockCode, At
<1>2. req[r].todo \in SUBSET Codes /\ req[r].found \in [held -> Nat]
  BY <1>1 DEF DecideRecord
<1>3. PICK c \in NextCodes(req[r].todo) :
         CodeFree(c) /\ req' = [req EXCEPT ![r].todo = @ \ {c}, ![r].found = Found(r, c)]
  BY DEF LockCode
<1>4. c = Min(req[r].todo) /\ c \in req[r].todo
  BY <1>2, <1>3, NextCode DEF LockCode, NextCodes
<1> DEFINE found == [x \in held \cup {c} |-> IF x = c THEN budget[c] ELSE req[r].found[x]]
           next == [req[r] EXCEPT !.todo = req[r].todo \ {c}, !.found = found]
<1>5. found \in [held \cup {c} -> Nat]
  BY <1>2, <1>4 DEF TypeOK
<1>6. req' = [req EXCEPT ![r] = next]
  <2>1. Found(r, c) = found
    BY <1>1 DEF Found
  <2> HIDE DEF found
  <2>2. QED BY <1>3, <2>1 DEF TypeOK
<1>7. next \in DecideRecord(held \cup {c}) /\ next.found = found
  <2> HIDE DEF found
  <2>1. QED BY <1>1, <1>2, <1>5 DEF DecideRecord
<1>8. next = [req[r] EXCEPT !.todo = @ \ {c}, !.found = next.found]
  BY <1>7
<1> HIDE DEF next
<1>9. /\ c = Min(req[r].todo) /\ CodeFree(c) /\ req[r] \in DecideRecord(held)
      /\ req' = [req EXCEPT ![r] = next]
      /\ next = [req[r] EXCEPT !.todo = @ \ {c}, !.found = next.found]
      /\ next.found = found
  BY <1>1, <1>3, <1>4, <1>6, <1>7, <1>8
<1>10. QED BY <1>4, <1>7, <1>9, ZenonT(60)

LEMMA LockCodeTyped == ASSUME TypeOK, NEW r \in Requests, LockCode(r) PROVE TypeOK'
<1>0. PICK c \in req[r].todo, held \in SUBSET Codes :
        \E next \in DecideRecord(held \cup {c}) :
          req[r] \in DecideRecord(held) /\ req' = [req EXCEPT ![r] = next]
  BY LockCodeIs, ZenonT(60)
<1>1. PICK next \in DecideRecord(held \cup {c}) :
        req[r] \in DecideRecord(held) /\ req' = [req EXCEPT ![r] = next]
  BY <1>0
<1>2. held \cup {c} \in SUBSET Codes
  BY <1>1 DEF DecideRecord
<1>3. QED BY <1>1, <1>2, DecideMoves DEF LockCode

LEMMA AgreedTotalInt == ASSUME TypeOK, NEW o PROVE AgreedTotal(o) \in Int
<1> DEFINE others == {x \in Orders \ {o} : order[x].status \in Agreed}
<1>1. IsFiniteSet(others)
  BY ChangeOrdersAssumption, FS_Subset
<1>2. \A x \in others : order[x].price \in Int
  BY DEF TypeOK, OrderRecord
<1>3. [x \in others |-> order[x].price] \in [others -> Int]
  BY <1>2
<1> HIDE DEF others
<1>4. SumFunction([x \in others |-> order[x].price]) \in Int
  BY <1>1, <1>3, TotalInt
<1>5. QED BY <1>4 DEF AgreedTotal, others

LEMMA LockSiteTyped == ASSUME TypeOK, NEW r \in Requests, LockSite(r) PROVE TypeOK'
<1>1. PICK held \in SUBSET Codes : req[r] \in DecideRecord(held)
  BY Deciders DEF LockSite, At
<1> DEFINE total == AgreedTotal(req[r].order)
           next == [req[r] EXCEPT !.stage = "settling", !.funds = siteBudget, !.signed = contract, !.total = total]
<1>2. total \in Int /\ siteBudget \in Nat /\ contract \in Nat
  BY AgreedTotalInt, ChangeOrdersAssumption DEF TypeOK
<1>3. next \in DecideRecord(held)
  <2> HIDE DEF total
  <2>1. QED BY <1>1, <1>2 DEF DecideRecord
<1>4. req' = [req EXCEPT ![r] = next] /\ UNCHANGED <<order, approval, figures>>
  BY DEF LockSite
<1> HIDE DEF next
<1>5. QED BY <1>3, <1>4, DecideMoves

LEMMA AppliedIsNat == ASSUME NEW value \in Nat, NEW delta \in Int PROVE Applied(value, delta) \in Nat
BY DEF Applied

(* What settling does when it is not refused. *)
SettledBudget(r, c) == Applied(req[r].found[c], req[r].row.lines[c])
SiteRevision(r) ==
  [order |-> req[r].order, price |-> req[r].row.price, signed |-> req[r].signed,
   contractBefore |-> req[r].signed + req[r].total, fundsBefore |-> req[r].funds,
   fundsAfter |-> Applied(req[r].funds, Cost(req[r].row.lines))]

Settles(r) ==
  /\ order' = [order EXCEPT ![req[r].order] = [order[req[r].order] EXCEPT !.status = "approved", !.applied = TRUE]]
  /\ approval' = Answered(r)
  /\ budget' = [c \in Codes |-> IF c \in DOMAIN req[r].found THEN SettledBudget(r, c) ELSE budget[c]]
  /\ moved' = [c \in Codes |-> IF c \in DOMAIN req[r].found
                                THEN Append(moved[c], [before |-> req[r].found[c], after |-> SettledBudget(r, c)])
                                ELSE moved[c]]
  /\ siteBudget' = SiteRevision(r).fundsAfter
  /\ site' = Append(site, SiteRevision(r))
  /\ UNCHANGED <<contract, byHand, edits>>

LEMMA SettleIs ==
  ASSUME NEW r, Settle(r)
  PROVE  /\ At(r, "settling") /\ End(r)
         /\ IF order[req[r].order].status = "none" \/ \E k \in DOMAIN site : site[k].order = req[r].order
            THEN UNCHANGED <<order, approval, figures>> ELSE Settles(r)
<1> DEFINE after == [c \in DOMAIN req[r].found |-> Applied(req[r].found[c], req[r].row.lines[c])]
<1>1. DOMAIN after = DOMAIN req[r].found /\ \A c \in DOMAIN after : after[c] = SettledBudget(r, c)
  BY DEF SettledBudget
<1>2. QED BY <1>1 DEF Settle, Settles, SiteRevision

LEMMA SiteRevisionTyped ==
  ASSUME NEW r \in Requests, req[r].order \in Orders, NEW held \in SUBSET Codes, req[r] \in DecideRecord(held)
  PROVE  SiteRevision(r) \in [order : Orders, price : Int, signed : Nat, contractBefore : Int,
                              fundsBefore : Nat, fundsAfter : Nat]
<1>1. req[r].row.lines \in [Codes -> Int] /\ req[r].row.price \in Int
  BY LinesTyped DEF DecideRecord, OrderRecord
<1>2. Cost(req[r].row.lines) \in Int
  BY <1>1, TotalInt, ChangeOrdersAssumption DEF Cost
<1>3. req[r].funds \in Nat /\ req[r].signed \in Nat /\ req[r].total \in Int
  BY DEF DecideRecord
<1>4. Applied(req[r].funds, Cost(req[r].row.lines)) \in Nat
  BY <1>2, <1>3, AppliedIsNat
<1>5. QED BY <1>1, <1>3, <1>4 DEF SiteRevision

LEMMA SettleTyped == ASSUME TypeOK, NEW r \in Requests, Settle(r), req[r].order \in Orders PROVE TypeOK'
<1> DEFINE q == req[r]
           o == q.order
<1>0. At(r, "settling") /\ End(r)
  BY SettleIs
<1>1. PICK held \in SUBSET Codes : q \in DecideRecord(held) /\ DOMAIN q.found = held
  BY <1>0, Deciders DEF At
<1>2. CASE UNCHANGED <<order, approval, figures>>
  BY <1>0, <1>2, WriteTyped DEF TypeOK
<1>3. CASE Settles(r)
  <2>1. q.row.lines \in [Codes -> Int] /\ q.row.price \in Int
    BY <1>1, LinesTyped DEF DecideRecord, OrderRecord
  <2>3. q.found \in [held -> Nat]
    BY <1>1 DEF DecideRecord
  <2>5. SiteRevision(r) \in [order : Orders, price : Int, signed : Nat, contractBefore : Int,
                             fundsBefore : Nat, fundsAfter : Nat]
    BY <1>1, SiteRevisionTyped
  <2>6. \A c \in held : SettledBudget(r, c) \in Nat /\ q.found[c] \in Nat
    <3>1. TAKE c \in held
    <3>2. q.found[c] \in Nat /\ q.row.lines[c] \in Int
      BY <2>1, <2>3
    <3>3. QED BY <3>2, AppliedIsNat DEF SettledBudget
  <2>7. budget' \in [Codes -> Nat]
    BY <1>1, <1>3, <2>6 DEF Settles, TypeOK
  <2>8. moved' \in [Codes -> Seq([before : Nat, after : Nat])]
    <3>1. \A c \in held : Append(moved[c], [before |-> q.found[c], after |-> SettledBudget(r, c)])
                            \in Seq([before : Nat, after : Nat])
      BY <1>1, <2>6 DEF TypeOK
    <3>2. QED BY <1>1, <1>3, <3>1 DEF Settles, TypeOK
  <2>9. siteBudget' \in Nat
    BY <1>3, <2>5 DEF Settles
  <2>10. site' \in Seq([order : Orders, price : Int, signed : Nat, contractBefore : Int,
                        fundsBefore : Nat, fundsAfter : Nat])
    <3> HIDE DEF SiteRevision
    <3>1. QED BY <1>3, <2>5 DEF Settles, TypeOK
  <2>11. order' \in [Orders -> OrderRecord]
    <3>1. order[o] \in OrderRecord
      BY DEF TypeOK
    <3>2. [order[o] EXCEPT !.status = "approved", !.applied = TRUE] \in OrderRecord
      BY <3>1, StatusesAre DEF OrderRecord, Statuses
    <3>3. QED BY <1>3, <3>2 DEF Settles, TypeOK
  <2>12. approval' \in [Approvals -> ApprovalRecord]
    BY <1>0, <1>3, AnsweredTyped DEF Settles, At
  <2>13. contract' \in Contracts
    BY <1>3 DEF Settles, TypeOK
  <2>14. DOMAIN byHand' \subseteq 0..Len(site') /\ byHand' = byHand
    <3>1. Len(site') = Len(site) + 1 /\ Len(site) \in Nat
      BY <1>3 DEF Settles, TypeOK
    <3>2. byHand' = byHand /\ DOMAIN byHand \subseteq 0..Len(site)
      BY <1>3 DEF Settles, TypeOK
    <3>3. QED BY <3>1, <3>2
  <2>15. QED
    BY <1>0, <2>7, <2>8, <2>9, <2>10, <2>11, <2>12, <2>13, <2>14, Ends DEF TypeOK
<1>4. QED BY <1>2, <1>3, SettleIs

LEMMA EditTyped == ASSUME TypeOK, NEW c \in Codes, NEW value \in Budgets, EditBudget(c, value) PROVE TypeOK'
<1>1. budget[c] \in Nat /\ value \in Nat
  BY ChangeOrdersAssumption DEF TypeOK
<1>2. budget' \in [Codes -> Nat]
  BY <1>1 DEF EditBudget, TypeOK
<1>3. moved' \in [Codes -> Seq([before : Nat, after : Nat])]
  <2>1. Append(moved[c], [before |-> budget[c], after |-> value]) \in Seq([before : Nat, after : Nat])
    BY <1>1 DEF TypeOK
  <2>2. QED BY <2>1 DEF EditBudget, TypeOK
<1>4. QED BY <1>2, <1>3 DEF EditBudget, TypeOK

LEMMA SetTyped == ASSUME TypeOK, NEW value \in Contracts, SetContractValue(value) PROVE TypeOK'
BY DEF SetContractValue, TypeOK

(* What setting the site's budget by hand does. *)
LEMMA SetSiteBudgetIs ==
  ASSUME TypeOK, NEW value \in Budgets, SetSiteBudget(value)
  PROVE  /\ value \in Nat /\ siteBudget' = value /\ SiteFree
         /\ UNCHANGED <<order, approval, budget, contract, moved, site, req>>
         /\ DOMAIN byHand' = DOMAIN byHand \cup {Len(site)} /\ byHand'[Len(site)] = value
         /\ \A k \in DOMAIN byHand \ {Len(site)} : byHand'[k] = byHand[k]
BY ChangeOrdersAssumption DEF SetSiteBudget

LEMMA SetSiteTyped == ASSUME TypeOK, NEW value \in Budgets, SetSiteBudget(value) PROVE TypeOK'
<1>1. Len(site) \in Nat
  BY DEF TypeOK
<1>2. 0 \in DOMAIN byHand' /\ DOMAIN byHand' \subseteq 0..Len(site)
  BY <1>1, SetSiteBudgetIs DEF TypeOK
<1>3. \A k \in DOMAIN byHand' : byHand'[k] \in Nat
  BY SetSiteBudgetIs DEF TypeOK
<1>4. QED BY <1>2, <1>3, SetSiteBudgetIs DEF TypeOK

LEMMA AskTyped == ASSUME TypeOK, NEW a \in Approvals, AskClient(a) PROVE TypeOK'
<1>1. approval' \in [Approvals -> ApprovalRecord]
  BY DEF AskClient, TypeOK, ApprovalRecord
<1>2. QED BY <1>1 DEF AskClient, figures, TypeOK

LEMMA CreateTyped ==
  ASSUME TypeOK, NEW o \in Orders, NEW offer \in Offers, Create(o, offer) PROVE TypeOK'
<1>1. [NotRaised EXCEPT !.status = "draft", !.lines = offer.lines, !.price = offer.price] \in OrderRecord
  BY NotRaisedTyped, BlankTyped, StatusesAre DEF OrderRecord, Statuses
<1>2. QED BY <1>1 DEF Create, figures, TypeOK

-----------------------------------------------------------------------------
(* What was asked of an order when it was loaded, and what it takes to move the figures. *)
Sound(q) ==
  /\ q.op \in Operations => Allows(q.row, q.op)
  /\ q.op = "decide" /\ q.stage \in {"moving", "settling"} => q.order \in Orders
Checked == \A r \in Requests : Sound(req[r])

LEMMA CheckedKept ==
  ASSUME Checked, NEW r \in Requests, Sound(req'[r]), \A s \in Requests \ {r} : req'[s] = req[s]
  PROVE  Checked'
BY DEF Checked, Sound

LEMMA TypeStart == Init => TypeOK /\ Checked
<1> SUFFICES ASSUME Init PROVE TypeOK /\ Checked
  OBVIOUS
<1>1. Min(Budgets) \in Nat /\ Min(Contracts) \in Contracts
  <2>1. \E x \in Budgets : \A y \in Budgets : x <= y
    BY LeastOfAny, ChangeOrdersAssumption
  <2>2. \E x \in Contracts : \A y \in Contracts : x <= y
    BY LeastOfAny, ChangeOrdersAssumption
  <2>3. QED BY <2>1, <2>2, ChangeOrdersAssumption DEF Min
<1>2. NotAsked \in ApprovalRecord
  BY DEF NotAsked, ApprovalRecord
<1>3. moved \in [Codes -> Seq([before : Nat, after : Nat])]
  BY DEF Init
<1>4. Sound(Idle)
  BY DEF Sound, Idle, Operations
<1>5. QED BY <1>1, <1>2, <1>3, <1>4, NotRaisedTyped, IdleIsRequest DEF Init, TypeOK, Checked

LEMMA IdleSound == Sound(Idle)
BY DEF Sound, Idle, Operations

LEMMA ChecksEnd == ASSUME TypeOK, Checked, NEW r \in Requests, End(r) PROVE Checked'
BY IdleSound, Ends, CheckedKept

LEMMA ChecksBegin ==
  ASSUME TypeOK, Checked, NEW r \in Requests, NEW what, IsRequest(what), Sound(what), Begin(r, what)
  PROVE  Checked'
<1>1. req'[r] = what /\ \A s \in Requests \ {r} : req'[s] = req[s]
  BY RequestMoves DEF Begin
<1>2. QED BY <1>1, CheckedKept

LEMMA LoadIs ==
  ASSUME TypeOK, NEW r \in Requests, NEW o \in Orders, NEW op \in Operations, Load(r, o, op)
  PROVE  /\ req'[r] \in HandlerRecord /\ req'[r].op = op /\ req'[r].order = o /\ req'[r].row = order[o]
         /\ req'[r].pending <=> /\ order[o].approval # NoApproval
                                /\ approval[order[o].approval].state = "pending"
                                /\ ~approval[order[o].approval].withdrawn
         /\ \A s \in Requests \ {r} : req'[s] = req[s]
         /\ Allows(order[o], op) /\ MayBegin(r, o, op) /\ UNCHANGED <<order, approval, figures>>
<1> DEFINE pending == LET a == order[o].approval
                      IN a # NoApproval /\ approval[a].state = "pending" /\ ~approval[a].withdrawn
           what == [op |-> op, order |-> o, row |-> order[o], pending |-> pending]
<1>1. pending \in BOOLEAN /\ order[o] \in OrderRecord
  BY DEF TypeOK
<1>2. /\ pending <=> /\ order[o].approval # NoApproval
                     /\ approval[order[o].approval].state = "pending"
                     /\ ~approval[order[o].approval].withdrawn
      /\ Begin(r, what)
  BY DEF Load
<1> HIDE DEF pending
<1>3. what \in HandlerRecord /\ what.op = op /\ what.order = o /\ what.row = order[o] /\ what.pending = pending
  BY <1>1 DEF HandlerRecord
<1> HIDE DEF what
<1>4. IsRequest(what)
  BY <1>3 DEF IsRequest
<1>5. req'[r] = what /\ \A s \in Requests \ {r} : req'[s] = req[s]
  BY <1>2, <1>4, RequestMoves DEF Begin
<1>6. QED BY <1>2, <1>3, <1>5 DEF Begin, Load

LEMMA ChecksLoad ==
  ASSUME TypeOK, Checked, NEW r \in Requests, NEW o \in Orders, NEW op \in Operations, Load(r, o, op)
  PROVE  Checked'
<1>1. Sound(req'[r])
  BY LoadIs DEF Sound, Operations
<1>2. QED BY <1>1, LoadIs, CheckedKept

LEMMA WithdrawIs ==
  ASSUME TypeOK, NEW r \in Requests,
         (\E a \in Approvals : WithdrawRead(r, a)) \/ WithdrawCheck(r) \/ WithdrawWrite(r)
  PROVE  /\ req'[r] = Idle \/ req'[r] \in WithdrawRecord
         /\ \A s \in Requests \ {r} : req'[s] = req[s]
         /\ UNCHANGED <<order, figures>>
<1>1. ASSUME NEW a \in Approvals, WithdrawRead(r, a)
      PROVE  req'[r] \in WithdrawRecord /\ \A s \in Requests \ {r} : req'[s] = req[s]
  <2> DEFINE what == [op |-> "withdraw", order |-> NoOrder, approval |-> a, stage |-> "checking"]
  <2>1. IsRequest(what) /\ what \in WithdrawRecord /\ Begin(r, what)
    BY <1>1 DEF IsRequest, WithdrawRecord, WithdrawRead
  <2> HIDE DEF what
  <2>2. QED BY <2>1, RequestMoves DEF Begin
<1>2. ASSUME req[r].op = "withdraw", Goes(r, "writing")
      PROVE  req'[r] \in WithdrawRecord /\ \A s \in Requests \ {r} : req'[s] = req[s]
  <2>1. req[r] \in WithdrawRecord
    BY <1>2, RequestKinds DEF TypeOK
  <2>2. QED BY <1>2, <2>1 DEF Goes, TypeOK, WithdrawRecord
<1>3. CASE End(r)
  BY <1>3, Ends DEF WithdrawRead, WithdrawCheck, WithdrawWrite, Begin, figures
<1>4. UNCHANGED <<order, figures>>
  BY DEF WithdrawRead, WithdrawCheck, WithdrawWrite, Begin, figures
<1>5. QED BY <1>1, <1>2, <1>3, <1>4, Ends DEF WithdrawCheck, WithdrawWrite

LEMMA DecisionIs ==
  ASSUME TypeOK, NEW r \in Requests, NEW answer \in {"approved", "rejected"},
         (\E a \in Approvals : DecideRead(r, a, answer)) \/ (\E o \in Orders : ClientDecision(r, o, answer))
  PROVE  \E a \in Approvals, o \in Orders \cup {NoOrder} :
           /\ req'[r] = Decision(a, o, answer) /\ \A s \in Requests \ {r} : req'[s] = req[s]
           /\ MayBegin(r, o, "decide") /\ Waiting(a)
           /\ o = LinkedTo(a) \/ (o \in Orders /\ order[o].status = "sent" /\ order[o].approval = a)
           /\ UNCHANGED <<order, approval, figures>>
<1>1. ASSUME NEW a \in Approvals, NEW o \in Orders \cup {NoOrder}, Begin(r, Decision(a, o, answer))
      PROVE  /\ req'[r] = Decision(a, o, answer) /\ \A s \in Requests \ {r} : req'[s] = req[s]
             /\ MayBegin(r, o, "decide") /\ UNCHANGED <<order, approval, figures>>
  <2>1. IsRequest(Decision(a, o, answer))
    BY DecisionTyped
  <2>2. Decision(a, o, answer).op = "decide" /\ Decision(a, o, answer).order = o
    BY DEF Decision
  <2>3. QED BY <1>1, <2>1, <2>2, RequestMoves DEF Begin
<1>2. ASSUME NEW a \in Approvals, DecideRead(r, a, answer)
      PROVE  Begin(r, Decision(a, LinkedTo(a), answer)) /\ LinkedTo(a) \in Orders \cup {NoOrder} /\ Waiting(a)
  BY <1>2, LinkedIsOrder DEF DecideRead
<1>3. ASSUME NEW o \in Orders, ClientDecision(r, o, answer)
      PROVE  /\ Begin(r, Decision(order[o].approval, o, answer)) /\ order[o].approval \in Approvals
             /\ Waiting(order[o].approval) /\ order[o].status = "sent"
  BY <1>3 DEF ClientDecision, TypeOK, OrderRecord
<1>4. CASE \E a \in Approvals : DecideRead(r, a, answer)
  BY <1>1, <1>2, <1>4
<1>5. CASE \E o \in Orders : ClientDecision(r, o, answer)
  <2>1. PICK o \in Orders : ClientDecision(r, o, answer)
    BY <1>5
  <2>2. QED BY <1>1, <1>3, <2>1
<1>6. QED BY <1>4, <1>5

(* How a request that decides goes on, field by field. *)
LEMMA AnswerIs ==
  ASSUME TypeOK, NEW r \in Requests, Answer(r)
  PROVE  /\ At(r, "asked") /\ ApprovalFree(req[r].approval)
         /\ req'[r] = [req[r] EXCEPT !.stage = "answered"]
         /\ req'[r].op = "decide" /\ req'[r].stage = "answered" /\ req'[r].order = req[r].order
         /\ req'[r].approval = req[r].approval /\ req'[r].answer = req[r].answer
         /\ req'[r].todo = req[r].todo /\ req'[r].found = req[r].found
         /\ \A s \in Requests \ {r} : req'[s] = req[s]
         /\ UNCHANGED <<order, approval, figures>>
<1>1. PICK held \in SUBSET Codes : req[r] \in DecideRecord(held)
  BY Deciders DEF Answer, At
<1>2. req'[r] = [req[r] EXCEPT !.stage = "answered"] /\ \A s \in Requests \ {r} : req'[s] = req[s]
  BY DEF Answer, Goes, TypeOK
<1>3. QED BY <1>1, <1>2 DEF DecideRecord, Answer, At

LEMMA LookIs ==
  ASSUME TypeOK, NEW r \in Requests, Look(r)
  PROVE  LET o == LinkedTo(req[r].approval)
             row == [order[o] EXCEPT !.status = "rejected"]
         IN /\ At(r, "answered") /\ UNCHANGED figures
            /\ \A s \in Requests \ {r} : req'[s] = req[s]
            /\ \/ req'[r] = Idle /\ UNCHANGED <<order, approval>> /\ o \in Orders /\ order[o].status # "sent"
               \/ req'[r] = Idle /\ o = NoOrder /\ approval' = Answered(r) /\ UNCHANGED order
               \/ /\ req'[r] = Idle /\ o \in Orders /\ order[o].status = "sent" /\ req[r].answer = "rejected"
                  /\ Save(o, row, Answered(r))
               \/ /\ o \in Orders /\ order[o].status = "sent" /\ req[r].answer = "approved"
                  /\ req'[r].op = "decide" /\ req'[r].stage = "moving" /\ req'[r].order = o
                  /\ req'[r].approval = req[r].approval /\ req'[r].answer = "approved"
                  /\ req'[r].row = order[o] /\ req'[r].todo = {c \in Codes : order[o].lines[c] # 0}
                  /\ req'[r].found = req[r].found /\ UNCHANGED <<order, approval>>
<1> DEFINE o == LinkedTo(req[r].approval)
           todo == {c \in Codes : order[o].lines[c] # 0}
<1>0. At(r, "answered") /\ UNCHANGED figures
  BY DEF Look
<1>1. PICK held \in SUBSET Codes : req[r] \in DecideRecord(held)
  BY <1>0, Deciders DEF At
<1>2. o = NoOrder \/ o \in Orders
  BY LinkedIsOrder
<1>3. CASE o = NoOrder /\ approval' = Answered(r) /\ End(r) /\ UNCHANGED order
  BY <1>0, <1>3, Ends
<1>4. CASE o # NoOrder /\ order[o].status # "sent" /\ End(r) /\ UNCHANGED <<order, approval>>
  BY <1>0, <1>2, <1>4, Ends
<1>5. CASE /\ o # NoOrder /\ order[o].status = "sent" /\ req[r].answer = "rejected"
           /\ Save(o, [order[o] EXCEPT !.status = "rejected"], Answered(r)) /\ End(r)
  BY <1>0, <1>2, <1>5, Ends
<1>6. CASE /\ o # NoOrder /\ order[o].status = "sent" /\ req[r].answer = "approved"
           /\ req' = [req EXCEPT ![r] = [@ EXCEPT !.stage = "moving", !.order = o, !.row = order[o],
                                                  !.todo = todo]]
           /\ UNCHANGED <<order, approval>>
  <2> DEFINE next == [req[r] EXCEPT !.stage = "moving", !.order = o, !.row = order[o], !.todo = todo]
  <2> HIDE DEF todo, o
  <2>1. req'[r] = next /\ \A s \in Requests \ {r} : req'[s] = req[s]
    BY <1>6 DEF TypeOK
  <2>2. /\ next.op = "decide" /\ next.stage = "moving" /\ next.order = o /\ next.approval = req[r].approval
        /\ next.answer = req[r].answer /\ next.row = order[o] /\ next.todo = todo /\ next.found = req[r].found
    BY <1>0, <1>1 DEF DecideRecord, At
  <2> HIDE DEF next
  <2> USE DEF o, todo
  <2>3. QED BY <1>0, <1>2, <1>6, <2>1, <2>2
<1>7. QED BY <1>3, <1>4, <1>5, <1>6 DEF Look

LEMMA LookEnds ==
  ASSUME TypeOK, NEW r \in Requests, Look(r), req'[r] = Idle
  PROVE  End(r)
BY DEF Look, End, TypeOK, Idle

LEMMA LockSiteIs ==
  ASSUME TypeOK, NEW r \in Requests, LockSite(r)
  PROVE  /\ At(r, "moving") /\ req[r].todo = {} /\ SiteFree
         /\ req'[r].op = "decide" /\ req'[r].stage = "settling" /\ req'[r].order = req[r].order
         /\ req'[r].approval = req[r].approval /\ req'[r].answer = req[r].answer
         /\ req'[r].row = req[r].row /\ req'[r].todo = {} /\ req'[r].found = req[r].found
         /\ req'[r].funds = siteBudget /\ req'[r].signed = contract
         /\ req'[r].total = AgreedTotal(req[r].order)
         /\ \A s \in Requests \ {r} : req'[s] = req[s]
         /\ UNCHANGED <<order, approval, figures>>
<1>1. PICK held \in SUBSET Codes : req[r] \in DecideRecord(held)
  BY Deciders DEF LockSite, At
<1> DEFINE next == [req[r] EXCEPT !.stage = "settling", !.funds = siteBudget, !.signed = contract,
                                  !.total = AgreedTotal(req[r].order)]
<1>2. req'[r] = next /\ \A s \in Requests \ {r} : req'[s] = req[s]
  BY DEF LockSite, TypeOK
<1>3. req[r].op = "decide" /\ req[r].todo = {}
  BY DEF LockSite, At
<1>4. /\ next.op = "decide" /\ next.stage = "settling" /\ next.order = req[r].order
      /\ next.approval = req[r].approval /\ next.answer = req[r].answer
      /\ next.row = req[r].row /\ next.todo = {} /\ next.found = req[r].found
      /\ next.funds = siteBudget /\ next.signed = contract /\ next.total = AgreedTotal(req[r].order)
  BY <1>1, <1>3 DEF DecideRecord
<1> HIDE DEF next
<1>5. QED BY <1>2, <1>4 DEF LockSite

LEMMA CodeLocked ==
  ASSUME TypeOK, NEW r \in Requests, LockCode(r)
  PROVE  \E c \in req[r].todo :
           /\ At(r, "moving") /\ c = Min(req[r].todo) /\ CodeFree(c)
           /\ req'[r].op = "decide" /\ req'[r].stage = "moving" /\ req'[r].order = req[r].order
           /\ req'[r].approval = req[r].approval /\ req'[r].answer = req[r].answer
           /\ req'[r].row = req[r].row /\ req'[r].todo = req[r].todo \ {c}
           /\ req'[r].found = Found(r, c)
           /\ \A s \in Requests \ {r} : req'[s] = req[s]
           /\ UNCHANGED <<order, approval, figures>>
<1>1. PICK held \in SUBSET Codes : req[r] \in DecideRecord(held) /\ DOMAIN req[r].found = held
  BY Deciders DEF LockCode, At
<1>2. req[r].todo \in SUBSET Codes
  BY <1>1 DEF DecideRecord
<1>3. PICK c \in NextCodes(req[r].todo) :
         CodeFree(c) /\ req' = [req EXCEPT ![r].todo = @ \ {c}, ![r].found = Found(r, c)]
  BY DEF LockCode
<1>4. c = Min(req[r].todo) /\ c \in req[r].todo
  BY <1>2, <1>3, NextCode DEF LockCode, NextCodes
<1> DEFINE next == [req[r] EXCEPT !.todo = @ \ {c}, !.found = Found(r, c)]
<1>5. req'[r] = next /\ \A s \in Requests \ {r} : req'[s] = req[s]
  BY <1>3 DEF TypeOK
<1>6. /\ next.op = req[r].op /\ next.stage = req[r].stage /\ next.order = req[r].order
      /\ next.approval = req[r].approval /\ next.answer = req[r].answer
      /\ next.row = req[r].row /\ next.todo = req[r].todo \ {c} /\ next.found = Found(r, c)
  BY <1>1 DEF DecideRecord
<1> HIDE DEF next
<1>7. QED BY <1>3, <1>4, <1>5, <1>6 DEF LockCode, At

LEMMA ChecksDecide ==
  ASSUME TypeOK, Checked, NEW r \in Requests,
         \/ \E answer \in {"approved", "rejected"} : \/ \E a \in Approvals : DecideRead(r, a, answer)
                                                    \/ \E o \in Orders : ClientDecision(r, o, answer)
         \/ Answer(r) \/ Look(r) \/ LockCode(r) \/ LockSite(r) \/ Settle(r)
  PROVE  Checked'
<1>1. ASSUME NEW a, NEW o, NEW answer, req'[r] = Decision(a, o, answer) PROVE Sound(req'[r])
  BY <1>1 DEF Sound, Decision, Operations
<1>2. ASSUME NEW answer \in {"approved", "rejected"},
             (\E a \in Approvals : DecideRead(r, a, answer)) \/ (\E o \in Orders : ClientDecision(r, o, answer))
      PROVE  Checked'
  BY <1>1, <1>2, DecisionIs, CheckedKept
<1>3. CASE Answer(r)
  <2>1. Sound(req'[r])
    BY <1>3, AnswerIs DEF Sound, Operations
  <2>2. QED BY <1>3, <2>1, AnswerIs, CheckedKept
<1>4. CASE Look(r)
  <2>1. Sound(req'[r])
    BY <1>4, LookIs, IdleSound DEF Sound, Operations
  <2>2. QED BY <1>4, <2>1, LookIs, CheckedKept
<1>5. CASE LockCode(r)
  <2>1. Sound(req'[r])
    BY <1>5, CodeLocked DEF At, Checked, Sound, Operations
  <2>2. QED BY <1>5, <2>1, CodeLocked, CheckedKept
<1>6. CASE LockSite(r)
  <2>1. Sound(req'[r])
    BY <1>6, LockSiteIs DEF At, Checked, Sound, Operations
  <2>2. QED BY <1>6, <2>1, LockSiteIs, CheckedKept
<1>7. CASE Settle(r)
  BY <1>7, SettleIs, ChecksEnd
<1>8. QED BY <1>2, <1>3, <1>4, <1>5, <1>6, <1>7

LEMMA NextKeepsTypes == ASSUME TypeOK, Checked, [Next]_vars PROVE TypeOK' /\ Checked'
<1>1. CASE UNCHANGED vars
  BY <1>1 DEF vars, figures, TypeOK, Checked
<1>2. ASSUME NEW o \in Orders, NEW offer \in Offers, Create(o, offer) PROVE TypeOK' /\ Checked'
  BY <1>2, CreateTyped DEF Create, Checked
<1>3. ASSUME NEW c \in Codes, NEW value \in Budgets, EditBudget(c, value) PROVE TypeOK' /\ Checked'
  BY <1>3, EditTyped DEF EditBudget, Checked
<1>4. ASSUME NEW value \in Contracts, SetContractValue(value) PROVE TypeOK' /\ Checked'
  BY <1>4, SetTyped DEF SetContractValue, Checked
<1>4a. ASSUME NEW value \in Budgets, SetSiteBudget(value) PROVE TypeOK' /\ Checked'
  BY <1>4a, SetSiteTyped, SetSiteBudgetIs DEF Checked
<1>5. ASSUME NEW a \in Approvals, AskClient(a) PROVE TypeOK' /\ Checked'
  BY <1>5, AskTyped DEF AskClient, Checked
<1>6. ASSUME NEW r \in Requests, NEW o \in Orders, NEW op \in Operations, Load(r, o, op) PROVE TypeOK' /\ Checked'
  BY <1>6, LoadTyped, ChecksLoad
<1>7. ASSUME NEW r \in Requests, NEW offer \in Offers, Update(r, offer) PROVE TypeOK' /\ Checked'
  BY <1>7, UpdateTyped, ChecksEnd DEF Update, Writing
<1>8. ASSUME NEW r \in Requests, Remove(r) PROVE TypeOK' /\ Checked'
  BY <1>8, RemoveTyped, ChecksEnd DEF Remove, Writing
<1>9. ASSUME NEW r \in Requests, Submit(r) PROVE TypeOK' /\ Checked'
  BY <1>9, StatusTyped, ChecksEnd DEF Submit, Status, Writing, Operations, Statuses
<1>10. ASSUME NEW r \in Requests, ReturnToDraft(r) PROVE TypeOK' /\ Checked'
  BY <1>10, StatusTyped, ChecksEnd DEF ReturnToDraft, Status, Writing, Operations, Statuses
<1>11. ASSUME NEW r \in Requests, Implement(r) PROVE TypeOK' /\ Checked'
  BY <1>11, StatusTyped, ChecksEnd DEF Implement, Status, Writing, Operations, Statuses
<1>12. ASSUME NEW r \in Requests, Revise(r) PROVE TypeOK' /\ Checked'
  <2>1. req[r].row.revision < MaxRevision
    BY <1>12 DEF Revise, Writing, Checked, Sound, Allows, Operations
  <2>2. QED BY <1>12, <2>1, ReviseTyped, ChecksEnd DEF Revise, Writing
<1>13. ASSUME NEW r \in Requests, Cancel(r) PROVE TypeOK' /\ Checked'
  BY <1>13, CancelTyped, ChecksEnd DEF Cancel, Writing
<1>14. ASSUME NEW r \in Requests, NEW a \in Approvals, Approve(r, a) PROVE TypeOK' /\ Checked'
  BY <1>14, ApproveTyped, ChecksEnd DEF Approve, Writing
<1>15. ASSUME NEW r \in Requests,
              (\E a \in Approvals : WithdrawRead(r, a)) \/ WithdrawCheck(r) \/ WithdrawWrite(r)
       PROVE  TypeOK' /\ Checked'
  <2>1. Sound(req'[r])
    BY <1>15, WithdrawIs, IdleSound DEF WithdrawRecord, Sound, Operations
  <2>2. QED BY <1>15, <2>1, WithdrawTyped, WithdrawIs, CheckedKept
<1>16. ASSUME NEW r \in Requests,
              \/ \E answer \in {"approved", "rejected"} : \/ \E a \in Approvals : DecideRead(r, a, answer)
                                                         \/ \E o \in Orders : ClientDecision(r, o, answer)
              \/ Answer(r) \/ Look(r) \/ LockCode(r) \/ LockSite(r) \/ Settle(r)
       PROVE  TypeOK' /\ Checked'
  <2>1. Settle(r) => req[r].order \in Orders
    BY SettleIs DEF At, Checked, Sound
  <2>2. QED
    BY <1>16, <2>1, DecideTyped, AnswerTyped, LookTyped, LockCodeTyped, LockSiteTyped, SettleTyped, ChecksDecide
<1>17. QED
  BY <1>1, <1>2, <1>3, <1>4, <1>4a, <1>5, <1>6, <1>7, <1>8, <1>9, <1>10, <1>11, <1>12, <1>13, <1>14, <1>15, <1>16
  DEF Next

LEMMA TypesKept == Spec => [](TypeOK /\ Checked)
BY TypeStart, NextKeepsTypes, PTL DEF Spec

(* The change orders, approvals and figures keep their shape, and no budget falls below zero. *)
THEOREM OrdersAreTyped == Spec => []TypeOK
BY TypesKept, PTL

-----------------------------------------------------------------------------
(* Locks.  A decision at work has read what it holds, and nobody else writes or holds that; it takes *)
(* the cost codes in ascending order.                                                                *)
Empty(q) == DOMAIN q.found = {}
HoldsWhatItRead(q) ==
  /\ \A c \in DOMAIN q.found : q.found[c] = budget[c]
  /\ q.stage \in {"asked", "answered"} => Empty(q)
  /\ \A c \in DOMAIN q.found, d \in q.todo : c < d
  /\ q.stage = "settling" => q.funds = siteBudget /\ q.signed = contract
Apart(q, p) ==
  /\ DOMAIN q.found \cap DOMAIN p.found = {}
  /\ ~(q.stage = "settling" /\ p.stage = "settling")
LocksHold ==
  /\ \A r \in Requests : req[r].op = "decide" => HoldsWhatItRead(req[r])
  /\ \A r, s \in Requests : r # s /\ req[r].op = "decide" /\ req[s].op = "decide" => Apart(req[r], req[s])

LEMMA OneMoves ==
  ASSUME LocksHold, NEW r \in Requests, UNCHANGED <<budget, siteBudget, contract>>,
         \A s \in Requests \ {r} : req'[s] = req[s],
         req'[r].op = "decide" => /\ HoldsWhatItRead(req'[r])
                                  /\ \A s \in Requests \ {r} : req[s].op = "decide" => Apart(req'[r], req[s])
  PROVE  LocksHold'
<1>1. ASSUME NEW s \in Requests, req'[s].op = "decide" PROVE HoldsWhatItRead(req[s])'
  BY <1>1 DEF LocksHold, HoldsWhatItRead, Empty
<1>2. ASSUME NEW s \in Requests, NEW t \in Requests, s # t, req'[s].op = "decide", req'[t].op = "decide"
      PROVE  Apart(req'[s], req'[t])
  BY <1>2 DEF LocksHold, Apart
<1>3. QED BY <1>1, <1>2 DEF LocksHold, Apart, HoldsWhatItRead, Empty

(* A request that is not a decision, or has only just asked, holds nothing. *)
LEMMA NewcomerMoves ==
  ASSUME LocksHold, NEW r \in Requests, UNCHANGED figures, \A s \in Requests \ {r} : req'[s] = req[s],
         req'[r].op = "decide" => req'[r].stage = "asked" /\ Empty(req'[r])
  PROVE  LocksHold'
<1>1. UNCHANGED <<budget, siteBudget, contract>>
  BY DEF figures
<1>2. ASSUME req'[r].op = "decide"
      PROVE  /\ HoldsWhatItRead(req'[r])
             /\ \A s \in Requests \ {r} : req[s].op = "decide" => Apart(req'[r], req[s])
  BY <1>2 DEF HoldsWhatItRead, Empty, Apart
<1>3. QED BY <1>1, <1>2, OneMoves

LEMMA LocksEnd == ASSUME TypeOK, LocksHold, NEW r \in Requests, End(r), UNCHANGED figures PROVE LocksHold'
<1>1. req'[r].op # "decide"
  BY Ends DEF Idle
<1>2. QED BY <1>1, Ends, NewcomerMoves

LEMMA LocksLookUp == ASSUME TypeOK, LocksHold, NEW r \in Requests, Answer(r) \/ Look(r) PROVE LocksHold'
<1>0. req[r].op = "decide" /\ req[r].stage \in {"asked", "answered"} /\ UNCHANGED figures
  BY AnswerIs, LookIs DEF At
<1>1. Empty(req[r])
  BY <1>0 DEF LocksHold, HoldsWhatItRead
<1>2. \A s \in Requests \ {r} : req'[s] = req[s]
  BY AnswerIs, LookIs
<1>3. req'[r] = Idle \/ (Empty(req'[r]) /\ req'[r].stage # "settling")
  BY <1>1, AnswerIs, LookIs DEF Empty
<1>4. ASSUME req'[r].op = "decide"
      PROVE  /\ HoldsWhatItRead(req'[r])
             /\ \A s \in Requests \ {r} : req[s].op = "decide" => Apart(req'[r], req[s])
  BY <1>3, <1>4 DEF HoldsWhatItRead, Empty, Apart, Idle
<1>5. UNCHANGED <<budget, siteBudget, contract>>
  BY <1>0 DEF figures
<1>6. QED BY <1>2, <1>4, <1>5, OneMoves

LEMMA LocksCode == ASSUME TypeOK, LocksHold, NEW r \in Requests, LockCode(r) PROVE LocksHold'
<1>1. PICK c \in req[r].todo :
        /\ At(r, "moving") /\ c = Min(req[r].todo) /\ CodeFree(c)
        /\ req'[r].op = "decide" /\ req'[r].stage = "moving"
        /\ req'[r].todo = req[r].todo \ {c} /\ req'[r].found = Found(r, c)
        /\ \A s \in Requests \ {r} : req'[s] = req[s]
        /\ UNCHANGED <<order, approval, figures>>
  BY CodeLocked
<1>2. PICK held \in SUBSET Codes : req[r] \in DecideRecord(held) /\ DOMAIN req[r].found = held
  BY <1>1, Deciders DEF At
<1>3. req[r].todo \in SUBSET Codes
  BY <1>2 DEF DecideRecord
<1>4. \A d \in req[r].todo : c <= d
  BY <1>1, <1>3, NextCode
<1>5. DOMAIN req'[r].found = held \cup {c}
  BY <1>1, <1>2 DEF Found
<1>6. \A x \in held \cup {c} : req'[r].found[x] = budget[x]
  BY <1>1, <1>2 DEF Found, LocksHold, HoldsWhatItRead, At
<1>7. \A x \in held \cup {c}, d \in req'[r].todo : x < d
  <2>1. \A x \in held, d \in req[r].todo : x < d
    BY <1>1, <1>2 DEF LocksHold, HoldsWhatItRead, At
  <2>2. \A d \in req[r].todo \ {c} : c < d
    <3>1. req[r].todo \subseteq Int
      BY <1>3, CodesAreNumbers
    <3>2. QED BY <1>4, <3>1
  <2>3. QED BY <1>1, <2>1, <2>2
<1>8. HoldsWhatItRead(req'[r])
  BY <1>1, <1>5, <1>6, <1>7 DEF HoldsWhatItRead
<1>9. ASSUME NEW s \in Requests \ {r}, req[s].op = "decide" PROVE Apart(req'[r], req[s])
  <2>1. c \notin DOMAIN req[s].found
    BY <1>1, <1>9 DEF CodeFree
  <2>2. held \cap DOMAIN req[s].found = {}
    BY <1>1, <1>2, <1>9 DEF LocksHold, Apart, At
  <2>3. QED BY <1>1, <1>5, <2>1, <2>2 DEF Apart
<1>10. QED BY <1>1, <1>8, <1>9, OneMoves DEF figures

LEMMA LocksSite == ASSUME TypeOK, LocksHold, NEW r \in Requests, LockSite(r) PROVE LocksHold'
<1>0. HoldsWhatItRead(req[r])
  BY LockSiteIs DEF At, LocksHold
<1>1. HoldsWhatItRead(req'[r])
  BY <1>0, LockSiteIs DEF HoldsWhatItRead
<1>2. ASSUME NEW s \in Requests \ {r}, req[s].op = "decide" PROVE Apart(req'[r], req[s])
  <2>1. req[s].stage # "settling"
    BY <1>2, LockSiteIs DEF SiteFree
  <2>2. Apart(req[r], req[s])
    BY <1>2, LockSiteIs DEF At, LocksHold
  <2>3. QED BY <2>1, <2>2, LockSiteIs DEF Apart
<1>3. QED BY <1>1, <1>2, LockSiteIs, OneMoves DEF figures

(* Settling moves the budgets that were held, and lets go of everything. *)
LEMMA LocksSettle == ASSUME TypeOK, LocksHold, NEW r \in Requests, Settle(r) PROVE LocksHold'
<1>0. At(r, "settling") /\ End(r)
  BY SettleIs
<1>1. req'[r].op # "decide" /\ \A s \in Requests \ {r} : req'[s] = req[s]
  BY <1>0, Ends DEF Idle
<1>2. CASE UNCHANGED figures
  BY <1>0, <1>2, LocksEnd
<1>3. CASE Settles(r)
  <2>1. ASSUME NEW s \in Requests, req'[s].op = "decide" PROVE HoldsWhatItRead(req[s])'
    <3>1. s # r /\ req'[s] = req[s] /\ HoldsWhatItRead(req[s]) /\ Apart(req[s], req[r])
      BY <1>0, <1>1, <2>1 DEF LocksHold, At
    <3>2. req[s].stage # "settling"
      BY <1>0, <3>1 DEF Apart, At
    <3>3. \A c \in Codes \ DOMAIN req[r].found : budget'[c] = budget[c]
      BY <1>3 DEF Settles
    <3>4. DOMAIN req[s].found \subseteq Codes
      BY <2>1, <3>1, Deciders DEF DecideRecord
    <3>5. \A c \in DOMAIN req[s].found : req[s].found[c] = budget'[c]
      BY <3>1, <3>3, <3>4 DEF Apart, HoldsWhatItRead
    <3>6. QED BY <3>1, <3>2, <3>5 DEF HoldsWhatItRead, Empty
  <2>2. ASSUME NEW s \in Requests, NEW t \in Requests, s # t, req'[s].op = "decide", req'[t].op = "decide"
        PROVE  Apart(req'[s], req'[t])
    BY <1>1, <2>2 DEF LocksHold
  <2>3. QED BY <2>1, <2>2 DEF LocksHold, Apart, HoldsWhatItRead, Empty
<1>4. QED BY <1>2, <1>3, SettleIs

LEMMA LocksByHand ==
  ASSUME TypeOK, LocksHold,
         \/ \E c \in Codes, value \in Budgets : EditBudget(c, value)
         \/ \E value \in Contracts : SetContractValue(value)
         \/ \E value \in Budgets : SetSiteBudget(value)
  PROVE  LocksHold'
<1>0. req' = req
  BY DEF EditBudget, SetContractValue, SetSiteBudget
<1>1. ASSUME NEW s \in Requests, req[s].op = "decide" PROVE HoldsWhatItRead(req[s])'
  <2>0. HoldsWhatItRead(req[s]) /\ DOMAIN req[s].found \subseteq Codes
    BY <1>1, Deciders DEF LocksHold
  <2>1. ASSUME NEW c \in Codes, NEW value \in Budgets, EditBudget(c, value) PROVE HoldsWhatItRead(req[s])'
    <3>1. c \notin DOMAIN req[s].found
      BY <1>1, <2>1 DEF EditBudget, CodeFree
    <3>2. \A x \in Codes \ {c} : budget'[x] = budget[x]
      BY <2>1 DEF EditBudget, TypeOK
    <3>3. \A x \in DOMAIN req[s].found : req[s].found[x] = budget'[x]
      BY <2>0, <3>1, <3>2 DEF HoldsWhatItRead
    <3>4. siteBudget' = siteBudget /\ contract' = contract
      BY <2>1 DEF EditBudget
    <3>5. QED BY <1>0, <2>0, <3>3, <3>4 DEF HoldsWhatItRead, Empty
  <2>2. ASSUME NEW value \in Contracts, SetContractValue(value) PROVE HoldsWhatItRead(req[s])'
    BY <1>0, <1>1, <2>0, <2>2 DEF SetContractValue, SiteFree, HoldsWhatItRead, Empty
  <2>3. ASSUME NEW value \in Budgets, SetSiteBudget(value) PROVE HoldsWhatItRead(req[s])'
    BY <1>0, <1>1, <2>0, <2>3 DEF SetSiteBudget, SiteFree, HoldsWhatItRead, Empty
  <2>4. QED BY <2>1, <2>2, <2>3
<1>2. QED BY <1>0, <1>1 DEF LocksHold, HoldsWhatItRead, Empty, Apart

LEMMA NextKeepsLocks == ASSUME TypeOK, LocksHold, [Next]_vars PROVE LocksHold'
<1>1. ASSUME UNCHANGED <<budget, siteBudget, contract, req>> PROVE LocksHold'
  BY <1>1 DEF LocksHold, HoldsWhatItRead, Empty, Apart
<1>2. ASSUME NEW o \in Orders, NEW offer \in Offers, Create(o, offer) PROVE LocksHold'
  BY <1>1, <1>2 DEF Create, figures
<1>3. ASSUME NEW a \in Approvals, AskClient(a) PROVE LocksHold'
  BY <1>1, <1>3 DEF AskClient, figures
<1>4. CASE \/ \E c \in Codes, value \in Budgets : EditBudget(c, value)
           \/ \E value \in Budgets : SetSiteBudget(value)
           \/ \E value \in Contracts : SetContractValue(value)
  BY <1>4, LocksByHand
<1>5. ASSUME NEW r \in Requests, NEW o \in Orders, NEW op \in Operations, Load(r, o, op) PROVE LocksHold'
  <2>1. req'[r].op # "decide"
    BY <1>5, LoadIs DEF Operations
  <2>2. QED BY <1>5, <2>1, LoadIs, NewcomerMoves
<1>6. ASSUME NEW r \in Requests,
             \/ \E offer \in Offers : Update(r, offer)
             \/ \E a \in Approvals : Approve(r, a)
             \/ Remove(r) \/ Submit(r) \/ ReturnToDraft(r) \/ Revise(r) \/ Implement(r) \/ Cancel(r)
      PROVE  LocksHold'
  <2>1. End(r) /\ UNCHANGED figures
    BY <1>6 DEF Update, Approve, Remove, Submit, ReturnToDraft, Revise, Implement, Cancel, Status, Writing
  <2>2. QED BY <2>1, LocksEnd
<1>7. ASSUME NEW r \in Requests,
             (\E a \in Approvals : WithdrawRead(r, a)) \/ WithdrawCheck(r) \/ WithdrawWrite(r)
      PROVE  LocksHold'
  <2>1. req'[r].op # "decide"
    BY <1>7, WithdrawIs DEF WithdrawRecord, Idle
  <2>2. QED BY <1>7, <2>1, WithdrawIs, NewcomerMoves
<1>8. ASSUME NEW r \in Requests, NEW answer \in {"approved", "rejected"},
             (\E a \in Approvals : DecideRead(r, a, answer)) \/ (\E o \in Orders : ClientDecision(r, o, answer))
      PROVE  LocksHold'
  <2>1. \A a, o : Decision(a, o, answer).stage = "asked" /\ Empty(Decision(a, o, answer))
    BY DEF Decision, Empty
  <2>2. QED BY <1>8, <2>1, DecisionIs, NewcomerMoves
<1>9. ASSUME NEW r \in Requests, Answer(r) \/ Look(r) \/ LockCode(r) \/ LockSite(r) \/ Settle(r) PROVE LocksHold'
  BY <1>9, LocksLookUp, LocksCode, LocksSite, LocksSettle
<1>10. CASE UNCHANGED vars
  BY <1>1, <1>10 DEF vars, figures
<1>11. QED BY <1>2, <1>3, <1>4, <1>5, <1>6, <1>7, <1>8, <1>9, <1>10 DEF Next

(* A history that adds up to now goes on from there. *)
Chain(h, now) ==
  /\ \A k \in DOMAIN h \ {1} : h[k].before = h[k - 1].after
  /\ h # <<>> => h[Len(h)].after = now

LEMMA ChainGrows ==
  ASSUME NEW Entries, NEW h \in Seq(Entries), NEW entry \in Entries, Chain(h, entry.before)
  PROVE  Chain(Append(h, entry), entry.after)
<1> DEFINE g == Append(h, entry)
<1>1. /\ Len(g) = Len(h) + 1 /\ g[Len(g)] = entry /\ DOMAIN g = 1..Len(h) + 1 /\ Len(h) \in Nat
      /\ \A k \in 1..Len(h) : g[k] = h[k]
  OBVIOUS
<1>2. ASSUME NEW k \in DOMAIN g \ {1} PROVE g[k].before = g[k - 1].after
  <2>1. CASE k \in 1..Len(h)
    <3>1. k \in DOMAIN h \ {1} /\ k - 1 \in 1..Len(h)
      BY <1>1, <1>2, <2>1
    <3>2. QED BY <1>1, <3>1 DEF Chain
  <2>2. CASE k = Len(h) + 1
    <3>1. Len(h) # 0 /\ Len(h) \in 1..Len(h) /\ h # <<>> /\ k - 1 = Len(h)
      BY <1>1, <1>2, <2>2
    <3>2. h[Len(h)].after = entry.before
      BY <3>1 DEF Chain
    <3>3. g[k] = entry /\ g[k - 1] = h[Len(h)]
      BY <1>1, <2>2, <3>1
    <3>4. QED BY <3>2, <3>3
  <2>3. QED BY <1>1, <2>1, <2>2
<1>3. g[Len(g)].after = entry.after
  BY <1>1
<1> HIDE DEF g
<1>4. QED BY <1>2, <1>3 DEF Chain, g

(* The same of the site, whose budget is also set by hand. *)
SiteChains ==
  /\ \A k \in DOMAIN site : site[k].fundsBefore = Standing(k - 1)
  /\ siteBudget = Standing(Len(site))

HistoryChains == (\A c \in Codes : Chain(moved[c], budget[c])) /\ SiteChains

LEMMA SiteSettles ==
  ASSUME TypeOK, SiteChains, NEW r, Settles(r), SiteRevision(r).fundsBefore = siteBudget
  PROVE  SiteChains'
<1>1. /\ site' = Append(site, SiteRevision(r)) /\ byHand' = byHand
      /\ siteBudget' = SiteRevision(r).fundsAfter
  BY DEF Settles
<1> HIDE DEF SiteRevision
<1>2. /\ Len(site) \in Nat /\ Len(site') = Len(site) + 1 /\ site'[Len(site')] = SiteRevision(r)
      /\ DOMAIN site' = 1..Len(site) + 1 /\ DOMAIN site = 1..Len(site)
      /\ \A k \in 1..Len(site) : site'[k] = site[k]
  BY <1>1 DEF TypeOK
<1>3. 0 \in DOMAIN byHand /\ DOMAIN byHand \subseteq 0..Len(site)
  BY DEF TypeOK
<1>4. \A k \in 0..Len(site) : Standing(k)' = Standing(k)
  BY <1>1, <1>2, <1>3 DEF Standing
<1>5. ASSUME NEW k \in 1..Len(site) + 1 PROVE site'[k].fundsBefore = Standing(k - 1)'
  <2>1. k - 1 \in 0..Len(site)
    BY <1>2
  <2>2. CASE k \in 1..Len(site)
    <3>1. site[k].fundsBefore = Standing(k - 1)
      BY <1>2, <2>2 DEF SiteChains
    <3>2. site'[k] = site[k] /\ Standing(k - 1)' = Standing(k - 1)
      BY <1>2, <1>4, <2>1, <2>2
    <3>3. QED BY <3>1, <3>2
  <2>3. CASE k = Len(site) + 1
    <3>1. k - 1 = Len(site) /\ site'[k] = SiteRevision(r)
      BY <1>2, <2>3
    <3>2. Standing(k - 1)' = Standing(k - 1) /\ Standing(k - 1) = siteBudget
      BY <1>2, <1>4, <2>1, <3>1 DEF SiteChains
    <3>3. QED BY <3>1, <3>2
  <2>4. QED BY <1>2, <2>2, <2>3
<1>6. siteBudget' = Standing(Len(site))'
  <2>1. Len(site') \notin DOMAIN byHand
    BY <1>2, <1>3
  <2>2. QED BY <1>1, <1>2, <2>1 DEF Standing
<1>7. QED BY <1>2, <1>5, <1>6 DEF SiteChains

LEMMA SiteSetByHand ==
  ASSUME TypeOK, SiteChains, NEW value \in Budgets, SetSiteBudget(value)
  PROVE  SiteChains'
<1>1. site' = site /\ Len(site) \in Nat /\ DOMAIN site = 1..Len(site)
  BY SetSiteBudgetIs DEF TypeOK
<1>2. \A k \in 0..Len(site) - 1 : Standing(k)' = Standing(k)
  BY <1>1, SetSiteBudgetIs DEF Standing
<1>3. Standing(Len(site))' = value
  BY <1>1, SetSiteBudgetIs DEF Standing
<1>4. ASSUME NEW k \in 1..Len(site) PROVE site[k].fundsBefore = Standing(k - 1)'
  <2>1. k - 1 \in 0..Len(site) - 1
    BY <1>1
  <2>2. site[k].fundsBefore = Standing(k - 1)
    BY <1>1 DEF SiteChains
  <2>3. Standing(k - 1)' = Standing(k - 1)
    BY <1>2, <2>1
  <2>4. QED BY <2>2, <2>3
<1>5. siteBudget' = Standing(Len(site))'
  BY <1>1, <1>3, SetSiteBudgetIs DEF Standing
<1>6. QED BY <1>1, <1>4, <1>5 DEF SiteChains

LEMMA EditsChain ==
  ASSUME TypeOK, HistoryChains, NEW c \in Codes, NEW value \in Budgets, EditBudget(c, value)
  PROVE  HistoryChains'
<1> DEFINE edit == [before |-> budget[c], after |-> value]
<1>1. /\ UNCHANGED <<siteBudget, site, byHand>>
      /\ \A d \in Codes \ {c} : moved'[d] = moved[d] /\ budget'[d] = budget[d]
      /\ moved'[c] = Append(moved[c], edit) /\ budget'[c] = value
  BY DEF EditBudget, TypeOK
<1>2. moved[c] \in Seq([before : Nat, after : Nat]) /\ edit \in [before : Nat, after : Nat]
  BY ChangeOrdersAssumption DEF TypeOK
<1>3. Chain(moved[c], edit.before)
  BY DEF HistoryChains
<1>4. Chain(Append(moved[c], edit), edit.after)
  <2> HIDE DEF edit
  <2>1. QED BY <1>2, <1>3, ChainGrows
<1>5. \A d \in Codes : Chain(moved'[d], budget'[d])
  BY <1>1, <1>4 DEF HistoryChains
<1>6. QED BY <1>1, <1>5 DEF HistoryChains, Chain, SiteChains, Standing

LEMMA SettlesChain ==
  ASSUME TypeOK, Checked, LocksHold, HistoryChains, NEW r \in Requests, At(r, "settling"), Settles(r)
  PROVE  HistoryChains'
<1>1. PICK held \in SUBSET Codes : req[r] \in DecideRecord(held) /\ DOMAIN req[r].found = held
  BY Deciders DEF At
<1>2. HoldsWhatItRead(req[r])
  BY DEF At, LocksHold
<1>3. ASSUME NEW c \in Codes PROVE Chain(moved'[c], budget'[c])
  <2> DEFINE step == [before |-> req[r].found[c], after |-> SettledBudget(r, c)]
  <2>1. CASE c \notin held
    BY <1>1, <2>1 DEF Settles, HistoryChains
  <2>2. CASE c \in held
    <3>1. req[r].found[c] = budget[c] /\ req[r].found[c] \in Nat
      BY <1>1, <1>2, <2>2 DEF HoldsWhatItRead, TypeOK
    <3>2. req[r].row.lines[c] \in Int
      BY <1>1, LinesTyped DEF DecideRecord
    <3>3. SettledBudget(r, c) \in Nat
      BY <3>1, <3>2, AppliedIsNat DEF SettledBudget
    <3>4. step \in [before : Nat, after : Nat] /\ step.before = budget[c] /\ step.after = SettledBudget(r, c)
      BY <3>1, <3>3
    <3>5. moved[c] \in Seq([before : Nat, after : Nat]) /\ Chain(moved[c], budget[c])
      BY DEF TypeOK, HistoryChains
    <3>6. moved'[c] = Append(moved[c], step) /\ budget'[c] = SettledBudget(r, c)
      BY <1>1, <2>2 DEF Settles
    <3> HIDE DEF step
    <3>7. QED BY <3>4, <3>5, <3>6, ChainGrows
  <2>3. QED BY <2>1, <2>2
<1>4. SiteChains'
  <2>1. SiteRevision(r).fundsBefore = siteBudget
    BY <1>2 DEF SiteRevision, HoldsWhatItRead, At
  <2>2. QED BY <2>1, SiteSettles DEF HistoryChains
<1>5. QED BY <1>3, <1>4 DEF HistoryChains, Chain

LEMMA NextKeepsHistory ==
  ASSUME TypeOK, Checked, LocksHold, HistoryChains, [Next]_vars
  PROVE  HistoryChains'
<1>1. ASSUME UNCHANGED <<budget, siteBudget, moved, site, byHand>> PROVE HistoryChains'
  BY <1>1 DEF HistoryChains, Chain, SiteChains, Standing
<1>2. ASSUME NEW r \in Requests, Settle(r) PROVE HistoryChains'
  BY <1>1, <1>2, SettleIs, SettlesChain DEF figures
<1>3. CASE UNCHANGED figures
  BY <1>1, <1>3 DEF figures
<1>4. CASE \E value \in Contracts : SetContractValue(value)
  BY <1>1, <1>4 DEF SetContractValue
<1>4a. ASSUME NEW value \in Budgets, SetSiteBudget(value) PROVE HistoryChains'
  BY <1>4a, SiteSetByHand, SetSiteBudgetIs DEF HistoryChains, Chain
<1>5. ASSUME NEW r \in Requests,
             \/ \E o \in Orders, op \in Operations : Load(r, o, op)
             \/ \E offer \in Offers : Update(r, offer)
             \/ Remove(r) \/ Submit(r) \/ ReturnToDraft(r) \/ Revise(r) \/ Implement(r) \/ Cancel(r)
             \/ \E a \in Approvals : Approve(r, a) \/ WithdrawRead(r, a)
             \/ WithdrawCheck(r) \/ WithdrawWrite(r)
      PROVE  UNCHANGED figures
  BY <1>5
  DEF Load, Begin, Update, Approve, Remove, Submit, ReturnToDraft, Revise, Implement, Cancel, Status, Writing,
      WithdrawRead, WithdrawCheck, WithdrawWrite
<1>6. ASSUME NEW r \in Requests,
             \/ \E a \in Approvals, answer \in {"approved", "rejected"} : DecideRead(r, a, answer)
             \/ \E o \in Orders, answer \in {"approved", "rejected"} : ClientDecision(r, o, answer)
             \/ Answer(r) \/ Look(r) \/ LockCode(r) \/ LockSite(r)
      PROVE  UNCHANGED figures
  BY <1>6 DEF DecideRead, ClientDecision, Begin, Answer, Look, LockCode, LockSite
<1>7. CASE (\E o \in Orders, offer \in Offers : Create(o, offer)) \/ (\E a \in Approvals : AskClient(a)) \/ UNCHANGED vars
  BY <1>3, <1>7 DEF Create, AskClient, vars, figures
<1>8. CASE \E c \in Codes, value \in Budgets : EditBudget(c, value)
  BY <1>8, EditsChain
<1>9. CASE \E r \in Requests : UNCHANGED figures \/ Settle(r)
  BY <1>2, <1>3, <1>9
<1>10. CASE Next
  <2>1. \/ \E o \in Orders, offer \in Offers : Create(o, offer)
        \/ \E c \in Codes, value \in Budgets : EditBudget(c, value)
        \/ \E value \in Contracts : SetContractValue(value)
        \/ \E value \in Budgets : SetSiteBudget(value)
        \/ \E a \in Approvals : AskClient(a)
        \/ \E r \in Requests : UNCHANGED figures \/ Settle(r)
    BY <1>5, <1>6, <1>10 DEF Next
  <2>2. QED BY <1>4, <1>4a, <1>7, <1>8, <1>9, <2>1
<1>11. QED BY <1>7, <1>10

LEMMA LocksKept == Spec => [](TypeOK /\ Checked /\ LocksHold /\ HistoryChains)
<1>1. Init => LocksHold /\ HistoryChains
  BY DEF Init, LocksHold, HistoryChains, SiteChains, Standing, Chain, Idle
<1>2. TypeOK /\ Checked /\ LocksHold /\ HistoryChains /\ [Next]_vars
        => TypeOK' /\ Checked' /\ LocksHold' /\ HistoryChains'
  BY NextKeepsTypes, NextKeepsLocks, NextKeepsHistory
<1>3. QED BY TypeStart, <1>1, <1>2, PTL DEF Spec

(* Each revision of a cost code's budget begins where the one before it ended, and each revision of the *)
(* site's at what stood: the one before it, or what was set by hand since, whichever requests overlap.  *)
THEOREM HistoryIsUnbroken == Spec => []HistoryAddsUp
<1>1. HistoryChains => HistoryAddsUp
  BY DEF HistoryChains, Chain, SiteChains, HistoryAddsUp
<1>2. QED BY LocksKept, <1>1, PTL

(* Of the decisions that wait for a cost code, the one that waits for the highest waits for nobody: who *)
(* holds that code waits, if at all, for a higher one.                                                  *)
LEMMA SomebodyGoesOn == TypeOK /\ LocksHold => NoStandoff
<1> SUFFICES ASSUME TypeOK, LocksHold, \A r \in Deciding : Blocked(r) PROVE Deciding = {}
  BY DEF NoStandoff
<1> DEFINE Movers == {r \in Deciding : req[r].stage # "asked"}
           wants(r) == Min(req[r].todo)
<1>1. ASSUME NEW r \in Deciding
      PROVE  req[r].todo \subseteq Codes /\ DOMAIN req[r].found \subseteq Codes
  BY Deciders DEF Deciding, DecideRecord
<1>2. ASSUME NEW r \in Movers PROVE req[r].stage = "moving"
  BY DEF Blocked, At
<1>3. ASSUME NEW r \in Movers PROVE req[r].todo # {}
  BY <1>2 DEF Blocked, At, SiteFree, Deciding
<1>4. ASSUME NEW r \in Movers
      PROVE  \E s \in Movers : wants(r) < wants(s)
  <2>1. ~CodeFree(wants(r))
    BY <1>2, <1>3 DEF Blocked, At, NextCodes
  <2>2. PICK s \in Requests : req[s].op = "decide" /\ wants(r) \in DOMAIN req[s].found
    BY <2>1 DEF CodeFree
  <2>3. HoldsWhatItRead(req[s]) /\ s \in Deciding
    BY <2>2 DEF LocksHold, Deciding
  <2>4. s \in Movers
    BY <2>2, <2>3 DEF HoldsWhatItRead, Empty
  <2>5. wants(s) \in req[s].todo
    BY <1>1, <1>3, <2>4, NextCode
  <2>6. QED BY <2>2, <2>3, <2>4, <2>5 DEF HoldsWhatItRead
<1>5. Movers = {}
  <2>1. SUFFICES ASSUME Movers # {} PROVE FALSE
    OBVIOUS
  <2> DEFINE Wanted == {c \in Codes : \E r \in Movers : wants(r) = c}
             id == [c \in Codes |-> c]
  <2>2. \A r \in Movers : wants(r) \in Codes
    BY <1>1, <1>3, NextCode
  <2>3. IsFiniteSet(Wanted) /\ Wanted # {} /\ \A c \in Wanted : id[c] \in Int
    <3>1. IsFiniteSet(Codes) /\ Codes \subseteq Nat
      BY ChangeOrdersAssumption
    <3>2. IsFiniteSet(Wanted)
      BY <3>1, FS_Subset
    <3>3. QED BY <2>1, <2>2, <3>1, <3>2
  <2>4. PICK c \in Wanted : \A d \in Wanted : id[d] <= id[c]
    <3> HIDE DEF Wanted, id
    <3>1. QED BY <2>3, Largest
  <2>5. PICK r \in Movers : wants(r) = c
    OBVIOUS
  <2>6. PICK s \in Movers : wants(r) < wants(s)
    BY <1>4
  <2>7. wants(s) \in Wanted /\ wants(s) \in Nat /\ c \in Nat
    BY <2>2, ChangeOrdersAssumption
  <2>8. wants(s) <= c
    BY <2>4, <2>7
  <2>9. QED BY <2>5, <2>6, <2>7, <2>8
<1>6. ASSUME NEW r \in Deciding PROVE FALSE
  <2>1. r \notin Movers /\ req[r].stage = "asked"
    BY <1>5
  <2>2. PICK s \in Requests : req[s].op = "decide" /\ req[s].stage # "asked"
    BY <2>1 DEF Blocked, At, ApprovalFree
  <2>3. s \in Movers
    BY <2>2 DEF Deciding
  <2>4. QED BY <1>5, <2>3
<1>7. QED BY <1>6

(* Two answers of the client never wait for each other in a circle. *)
THEOREM AnswersGoOn == Spec => []NoStandoff
BY LocksKept, SomebodyGoesOn, PTL

-----------------------------------------------------------------------------
(* The site's record.  Requests on one order overlap only when both may, so an edit or a deletion that is *)
(* not to overlap finds the order as it loaded it; an order is agreed exactly when the site's record has  *)
(* it, at the price it still has; and the total a decision read is the total there is.                    *)
EditsAlone == Racing \cap {"update", "remove"} = {}

Alone ==
  \A r, s \in Requests : r # s /\ req[r].order = req[s].order /\ req[r].order # NoOrder =>
    req[r].op \in Racing /\ req[s].op \in Racing

OrderStands(o, orders, approvals) ==
  /\ Stands(orders[o])
  /\ orders[o].status = "none" => orders[o] = NotRaised
  /\ orders[o].approval # NoApproval => approvals[orders[o].approval].state # "none"
  /\ \A x \in Orders \ {o} : orders[x].approval = orders[o].approval => orders[o].approval = NoApproval
OrdersStand == \A o \in Orders : OrderStands(o, order, approval)

TotalIn(orders, o) == SumFunction([x \in {x \in Orders \ {o} : orders[x].status \in Agreed} |-> orders[x].price])

Moving(q) == q.op = "decide" /\ q.stage \in {"moving", "settling"}
Current(q, orders, approvals) ==
  /\ q.order \in Orders => orders[q.order].status # "none"
  /\ q.op \in {"update", "remove"} => orders[q.order] = q.row
  /\ q.op = "decide" => /\ approvals[q.approval].state # "none"
                        /\ \A o \in Orders : orders[o].approval = q.approval => o = q.order
  /\ Moving(q) => q.row.price = orders[q.order].price
  /\ q.op = "decide" /\ q.stage = "settling" => q.total = TotalIn(orders, q.order)
AllCurrent == \A r \in Requests : Current(req[r], order, approval)

SiteTells ==
  /\ \A o \in Orders : order[o].applied <=> \E k \in DOMAIN site : site[k].order = o
  /\ \A k \in DOMAIN site : site[k].price = order[site[k].order].price
  /\ \A j, k \in DOMAIN site : site[j].order = site[k].order => j = k
  /\ ContractAddsUp

RecordInv == Alone /\ OrdersStand /\ AllCurrent /\ SiteTells

LEMMA TotalIs == \A o : AgreedTotal(o) = TotalIn(order, o)
BY DEF AgreedTotal, TotalIn

(* The total of the agreed orders stays while none becomes agreed, or stops being, and those keep their price. *)
LEMMA TotalStays ==
  ASSUME NEW orders, NEW later,
         \A x \in Orders : /\ Stands(orders[x]) /\ Stands(later[x]) /\ orders[x].applied \in BOOLEAN
                           /\ later[x].applied = orders[x].applied
                           /\ orders[x].applied => later[x].price = orders[x].price
  PROVE  \A o : TotalIn(later, o) = TotalIn(orders, o)
<1> TAKE o
<1> DEFINE then == {x \in Orders \ {o} : later[x].status \in Agreed}
           now == {x \in Orders \ {o} : orders[x].status \in Agreed}
<1>1. then = now
  BY DEF Stands
<1>2. \A x \in now : later[x].price = orders[x].price
  BY DEF Stands
<1>3. [x \in then |-> later[x].price] = [x \in now |-> orders[x].price]
  BY <1>1, <1>2
<1> HIDE DEF then, now
<1>4. QED BY <1>3 DEF TotalIn, then, now

LEMMA AloneEnds ==
  ASSUME Alone, NEW r \in Requests, \A s \in Requests \ {r} : req'[s] = req[s],
         req'[r].order = NoOrder \/ (req'[r].order = req[r].order /\ req'[r].op = req[r].op)
  PROVE  Alone'
BY DEF Alone

LEMMA AloneBegins ==
  ASSUME Alone, NEW r \in Requests, \A s \in Requests \ {r} : req'[s] = req[s],
         MayBegin(r, req'[r].order, req'[r].op)
  PROVE  Alone'
BY DEF Alone, MayBegin

(* What a handler, or a refusal, may do to its order. *)
Writes(o, edits_) ==
  /\ \A x \in Orders \ {o} : order'[x] = order[x]
  /\ order'[o].status # "none" /\ Stands(order'[o])
  /\ order'[o].applied = order[o].applied
  /\ order'[o].price = order[o].price \/ (edits_ /\ ~order[o].applied)
  /\ \/ order'[o].approval \in {order[o].approval, NoApproval}
     \/ /\ order'[o].approval \in Approvals /\ approval[order'[o].approval].state = "none"
        /\ approval'[order'[o].approval].state # "none"
  /\ \A a \in Approvals : approval[a].state # "none" => approval'[a].state # "none"

LEMMA WritesStand ==
  ASSUME TypeOK, OrdersStand, NEW o \in Orders, NEW edits_, Writes(o, edits_)
  PROVE  OrdersStand'
<1>1. \A x \in Orders : order[x].approval \in Approvals \cup {NoApproval}
  BY DEF TypeOK, OrderRecord
<1>2. ASSUME NEW x \in Orders PROVE OrderStands(x, order', approval')
  <2>1. OrderStands(x, order, approval) /\ \A y \in Orders : OrderStands(y, order, approval)
    BY DEF OrdersStand
  <2>2. Stands(order'[x]) /\ (order'[x].status = "none" => order'[x] = NotRaised)
    BY <2>1 DEF Writes, OrderStands
  <2>3. order'[x].approval # NoApproval => approval'[order'[x].approval].state # "none"
    BY <1>1, <2>1 DEF Writes, OrderStands
  <2>4. ASSUME NEW y \in Orders \ {x}, order'[y].approval = order'[x].approval, order'[x].approval # NoApproval
        PROVE  FALSE
    BY <1>1, <2>1, <2>4 DEF Writes, OrderStands
  <2>5. QED BY <2>2, <2>3, <2>4 DEF OrderStands
<1>3. QED BY <1>2 DEF OrdersStand

LEMMA TotalsStay ==
  ASSUME TypeOK, OrdersStand, OrdersStand',
         \A x \in Orders : /\ order'[x].applied = order[x].applied
                           /\ order[x].applied => order'[x].price = order[x].price
  PROVE  \A x : TotalIn(order', x) = TotalIn(order, x)
<1>1. \A x \in Orders : Stands(order[x]) /\ Stands(order'[x]) /\ order[x].applied \in BOOLEAN
  BY DEF OrdersStand, OrderStands, TypeOK, OrderRecord
<1>2. QED BY <1>1, TotalStays

LEMMA WritesKeepTotals ==
  ASSUME TypeOK, OrdersStand, NEW o \in Orders, NEW edits_, Writes(o, edits_)
  PROVE  \A x : TotalIn(order', x) = TotalIn(order, x)
BY WritesStand, TotalsStay DEF Writes

(* The other requests are as current as they were. *)
LEMMA WritesKeepCurrent ==
  ASSUME TypeOK, Checked, EditsAlone, RecordInv, NEW r \in Requests, req[r].order \in Orders,
         Writes(req[r].order, req[r].op = "update"), NEW s \in Requests \ {r}
  PROVE  Current(req[s], order', approval')
<1> DEFINE o == req[r].order
           q == req[s]
<1>1. Current(q, order, approval)
  BY DEF RecordInv, AllCurrent
<1>2. q.order = o => q.op \notin {"update", "remove"} /\ req[r].op # "update"
  <2>1. ASSUME q.order = o PROVE q.op \in Racing /\ req[r].op \in Racing
    BY <2>1, ChangeOrdersAssumption DEF RecordInv, Alone
  <2>2. QED BY <2>1 DEF EditsAlone
<1>3. q.order \in Orders => order'[q.order].status # "none"
  BY <1>1 DEF Writes, Current
<1>4. q.op \in {"update", "remove"} => order'[q.order] = q.row
  <2>1. q.op \in {"update", "remove"} => q.order \in Orders
    BY RequestKinds DEF TypeOK, HandlerRecord, Operations
  <2>2. QED BY <1>1, <1>2, <2>1 DEF Writes, Current
<1>5. ASSUME q.op = "decide"
      PROVE  approval'[q.approval].state # "none" /\ \A x \in Orders : order'[x].approval = q.approval => x = q.order
  <2>1. q.approval \in Approvals
    BY <1>5, Deciders DEF DecideRecord
  <2>2. approval[q.approval].state # "none" /\ \A x \in Orders : order[x].approval = q.approval => x = q.order
    BY <1>1, <1>5 DEF Current
  <2>3. QED BY <2>1, <2>2, ChangeOrdersAssumption DEF Writes
<1>6. Moving(q) => q.row.price = order'[q.order].price
  <2>1. Moving(q) => q.order \in Orders
    BY DEF Checked, Sound, Moving
  <2>2. QED BY <1>1, <1>2, <2>1 DEF Writes, Current
<1>7. q.op = "decide" /\ q.stage = "settling" => q.total = TotalIn(order', q.order)
  BY <1>1, WritesKeepTotals DEF Current, RecordInv
<1>8. QED BY <1>3, <1>4, <1>5, <1>6, <1>7 DEF Current

SiteEntries == [order : Orders, price : Int, signed : Nat, contractBefore : Int, fundsBefore : Nat, fundsAfter : Nat]

LEMMA SiteTyped ==
  ASSUME TypeOK
  PROVE  /\ site \in Seq(SiteEntries) /\ DOMAIN site = 1..Len(site) /\ Len(site) \in Nat
         /\ \A k \in DOMAIN site : site[k] \in SiteEntries /\ site[k].order \in Orders /\ site[k].price \in Int
<1>1. site \in Seq(SiteEntries)
  BY DEF TypeOK, SiteEntries
<1>2. \A k \in DOMAIN site : site[k] \in SiteEntries
  BY <1>1
<1>3. \A e \in SiteEntries : e.order \in Orders /\ e.price \in Int
  BY DEF SiteEntries
<1>4. QED BY <1>1, <1>2, <1>3

LEMMA SiteStays ==
  ASSUME TypeOK, OrdersStand, OrdersStand', SiteTells, site' = site,
         \A o \in Orders : /\ order'[o].applied = order[o].applied
                           /\ order[o].applied => order'[o].price = order[o].price
  PROVE  SiteTells'
<1>1. \A o : TotalIn(order', o) = TotalIn(order, o)
  BY TotalsStay
<1>2. ContractAddsUp'
  <2>1. TotalIn(order', NoOrder) = TotalIn(order, NoOrder)
    BY <1>1
  <2>2. AgreedTotal(NoOrder) = TotalIn(order, NoOrder) /\ AgreedTotal(NoOrder)' = TotalIn(order', NoOrder)
    BY DEF AgreedTotal, TotalIn
  <2>3. QED BY <2>1, <2>2 DEF SiteTells, ContractAddsUp
<1>3. \A k \in DOMAIN site : site[k].order \in Orders
  BY SiteTyped
<1>4. \A k \in DOMAIN site : site[k].price = order'[site[k].order].price
  BY <1>3 DEF SiteTells
<1>5. QED BY <1>2, <1>3, <1>4 DEF SiteTells

LEMMA WritesKeepRecord ==
  ASSUME TypeOK, Checked, EditsAlone, RecordInv, NEW r \in Requests, req[r].order \in Orders,
         Writes(req[r].order, req[r].op = "update"), End(r), UNCHANGED figures
  PROVE  RecordInv'
<1>1. req'[r] = Idle /\ \A s \in Requests \ {r} : req'[s] = req[s]
  BY Ends
<1>2. Alone'
  BY <1>1, AloneEnds DEF Idle, RecordInv
<1>3. OrdersStand'
  BY WritesStand DEF RecordInv
<1>4. Current(Idle, order', approval')
  BY ChangeOrdersAssumption DEF Current, Idle, Moving
<1>5. AllCurrent'
  BY <1>1, <1>4, WritesKeepCurrent DEF AllCurrent
<1>6. SiteTells'
  BY <1>3, SiteStays DEF RecordInv, Writes, figures
<1>7. QED BY <1>2, <1>3, <1>5, <1>6 DEF RecordInv

(* A request that only looks. *)
LEMMA LooksKeepRecord ==
  ASSUME RecordInv, NEW r \in Requests, \A s \in Requests \ {r} : req'[s] = req[s], Alone',
         UNCHANGED <<order, approval, site>>, Current(req'[r], order, approval)
  PROVE  RecordInv'
<1>1. OrdersStand'
  BY DEF RecordInv, OrdersStand
<1>2. AllCurrent'
  BY DEF RecordInv, AllCurrent
<1>3. SiteTells'
  BY DEF RecordInv, SiteTells, ContractAddsUp, AgreedTotal
<1>4. QED BY <1>1, <1>2, <1>3 DEF RecordInv

(* An approval that is asked or answered, and is never unasked. *)
LEMMA AnswersKeepRecord ==
  ASSUME TypeOK, RecordInv, UNCHANGED <<order, site>>, Alone',
         \A a \in Approvals : approval[a].state # "none" => approval'[a].state # "none",
         \A s \in Requests : req'[s] = req[s] \/ req'[s] = Idle
  PROVE  RecordInv'
<1>1. OrdersStand'
  <2>1. \A o \in Orders : order[o].approval # NoApproval => approval'[order[o].approval].state # "none"
    BY DEF TypeOK, OrderRecord, RecordInv, OrdersStand, OrderStands
  <2>2. QED BY <2>1 DEF RecordInv, OrdersStand, OrderStands
<1>2. Current(Idle, order, approval')
  BY ChangeOrdersAssumption DEF Current, Idle, Moving
<1>3. ASSUME NEW s \in Requests PROVE Current(req[s], order, approval')
  <2>1. Current(req[s], order, approval)
    BY DEF RecordInv, AllCurrent
  <2>2. req[s].op = "decide" => req[s].approval \in Approvals
    BY Deciders DEF DecideRecord
  <2>3. QED BY <2>1, <2>2 DEF Current
<1>4. AllCurrent'
  BY <1>2, <1>3 DEF AllCurrent
<1>5. SiteTells'
  BY DEF RecordInv, SiteTells, ContractAddsUp, AgreedTotal
<1>6. QED BY <1>1, <1>4, <1>5 DEF RecordInv

-----------------------------------------------------------------------------
(* Each handler writes its order so. *)
LEMMA RowStands ==
  ASSUME TypeOK, RecordInv, NEW r \in Requests, req[r].order \in Orders
  PROVE  LET row == order[req[r].order]
         IN /\ row \in OrderRecord /\ row.status # "none" /\ Stands(row)
            /\ row.approval \in Approvals \cup {NoApproval}
BY DEF TypeOK, OrderRecord, RecordInv, AllCurrent, Current, OrdersStand, OrderStands

(* Nothing at all, or a row that stands and differs from the one before in nothing that counts. *)
LEMMA NothingWritten ==
  ASSUME TypeOK, RecordInv, NEW r \in Requests, req[r].order \in Orders, UNCHANGED <<order, approval>>, NEW edits_
  PROVE  Writes(req[r].order, edits_)
BY RowStands DEF Writes

LEMMA RowWritten ==
  ASSUME TypeOK, RecordInv, NEW r \in Requests, req[r].order \in Orders, NEW row, NEW approvals, NEW edits_,
         Save(req[r].order, row, approvals), row.status # "none",
         row.applied = order[req[r].order].applied,
         row.price = order[req[r].order].price \/ (edits_ /\ ~row.applied),
         \/ row.approval \in {order[req[r].order].approval, NoApproval}
         \/ row.approval \in Approvals /\ approval[row.approval].state = "none" /\ approvals[row.approval].state # "none",
         \A a \in Approvals : approval[a].state # "none" => approvals[a].state # "none"
  PROVE  Writes(req[r].order, edits_)
<1>1. CASE UNCHANGED <<order, approval>>
  BY <1>1, NothingWritten
<1>2. CASE Stands(row) /\ order' = [order EXCEPT ![req[r].order] = row] /\ approval' = approvals
  <2>1. order'[req[r].order] = row /\ \A x \in Orders \ {req[r].order} : order'[x] = order[x]
    BY <1>2 DEF TypeOK
  <2>2. QED BY <1>2, <2>1 DEF Writes
<1>3. QED BY <1>1, <1>2 DEF Save

LEMMA UpdateWrites ==
  ASSUME TypeOK, Checked, RecordInv, NEW r \in Requests, NEW offer \in Offers, Update(r, offer)
  PROVE  Writes(req[r].order, req[r].op = "update")
<1> DEFINE o == req[r].order
           row == [order[o] EXCEPT !.lines = offer.lines, !.price = offer.price]
<1>1. o \in Orders /\ req[r].op = "update"
  BY HandlerOf DEF Update, Operations
<1>2. order[o] \in OrderRecord /\ Stands(order[o]) /\ order[o].status # "none"
  BY <1>1, RowStands
<1>3. order[o].status = "draft"
  BY <1>1 DEF RecordInv, AllCurrent, Current, Checked, Sound, Allows, Operations
<1>4. Save(o, row, approval)
  BY <1>2 DEF Update
<1>5. row.status = "draft" /\ row.applied = order[o].applied /\ row.approval = order[o].approval /\ ~row.applied
  BY <1>2, <1>3 DEF OrderRecord, Stands, Agreed
<1> HIDE DEF row, o
<1>6. QED BY <1>1, <1>4, <1>5, RowWritten DEF o

LEMMA StatusWrites ==
  ASSUME TypeOK, Checked, RecordInv, NEW r \in Requests, NEW op \in Operations, NEW to \in Statuses \ {"none"},
         Status(r, op, to)
  PROVE  req[r].order \in Orders /\ Writes(req[r].order, req[r].op = "update")
<1> DEFINE o == req[r].order
           row == [order[o] EXCEPT !.status = to, !.seen = @ \/ to = "submitted"]
<1>1. o \in Orders
  BY HandlerOf DEF Status
<1>2. order[o] \in OrderRecord /\ order[o].status # "none"
  BY <1>1, RowStands
<1>3. Save(o, row, approval)
  BY <1>2 DEF Status
<1>4. /\ row.status = to /\ row.applied = order[o].applied /\ row.approval = order[o].approval
      /\ row.price = order[o].price
  BY <1>2 DEF OrderRecord
<1> HIDE DEF row, o
<1>5. QED BY <1>1, <1>3, <1>4, RowWritten DEF o

LEMMA ApproveWrites ==
  ASSUME TypeOK, Checked, RecordInv, NEW r \in Requests, NEW a \in Approvals, Approve(r, a)
  PROVE  req[r].order \in Orders /\ Writes(req[r].order, req[r].op = "update")
<1> DEFINE o == req[r].order
           row == [order[o] EXCEPT !.status = "sent", !.approval = a]
           asked == [state |-> "pending", order |-> o, shown |-> req[r].row.price, withdrawn |-> FALSE]
           approvals == [approval EXCEPT ![a] = asked]
<1>1. o \in Orders /\ approval[a].state = "none"
  BY HandlerOf DEF Approve, Operations
<1>2. order[o] \in OrderRecord /\ order[o].status # "none"
  BY <1>1, RowStands
<1>3. Save(o, row, approvals)
  BY <1>2 DEF Approve
<1>4. /\ row.status = "sent" /\ row.applied = order[o].applied /\ row.approval = a
      /\ row.price = order[o].price
  BY <1>2 DEF OrderRecord
<1>5. approvals[a].state = "pending" /\ \A b \in Approvals \ {a} : approvals[b] = approval[b]
  BY DEF TypeOK
<1> HIDE DEF row, o, approvals
<1>6. \A b \in Approvals : approval[b].state # "none" => approvals[b].state # "none"
  BY <1>5
<1>7. QED BY <1>1, <1>3, <1>4, <1>5, <1>6, RowWritten DEF o

LEMMA ReviseWrites ==
  ASSUME TypeOK, Checked, RecordInv, NEW r \in Requests, Revise(r)
  PROVE  req[r].order \in Orders /\ Writes(req[r].order, req[r].op = "update")
<1> DEFINE o == req[r].order
           row == [order[o] EXCEPT !.status = "draft", !.revision = req[r].row.revision + 1,
                                   !.seen = FALSE, !.approval = NoApproval]
<1>1. o \in Orders
  BY HandlerOf DEF Revise, Operations
<1>2. order[o] \in OrderRecord
  BY <1>1, RowStands
<1>3. Save(o, row, approval)
  BY DEF Revise
<1>4. /\ row.status = "draft" /\ row.applied = order[o].applied /\ row.approval = NoApproval
      /\ row.price = order[o].price
  BY <1>2 DEF OrderRecord
<1> HIDE DEF row, o
<1>5. QED BY <1>1, <1>3, <1>4, RowWritten DEF o

LEMMA CancelWrites ==
  ASSUME TypeOK, Checked, RecordInv, NEW r \in Requests, Cancel(r)
  PROVE  req[r].order \in Orders /\ Writes(req[r].order, req[r].op = "update")
<1> DEFINE o == req[r].order
           a == req[r].row.approval
           row == [order[o] EXCEPT !.status = "cancelled"]
           approvals == IF req[r].pending THEN [approval EXCEPT ![a].withdrawn = TRUE] ELSE approval
<1>1. o \in Orders
  BY HandlerOf DEF Cancel, Operations
<1>2. order[o] \in OrderRecord /\ order[o].status # "none"
  BY <1>1, RowStands
<1>3. Save(o, row, approvals)
  BY <1>2 DEF Cancel
<1>4. /\ row.status = "cancelled" /\ row.applied = order[o].applied /\ row.approval = order[o].approval
      /\ row.price = order[o].price
  BY <1>2 DEF OrderRecord
<1>5. \A b \in Approvals : approvals[b].state = approval[b].state
  BY DEF TypeOK, ApprovalRecord
<1> HIDE DEF row, o, approvals
<1>6. QED BY <1>1, <1>3, <1>4, <1>5, RowWritten DEF o

LEMMA AnsweredStates ==
  ASSUME TypeOK, NEW r \in Requests, req[r].op = "decide"
  PROVE  /\ \A a \in Approvals : approval[a].state # "none" => Answered(r)[a].state # "none"
         /\ Answered(r)[req[r].approval].state = req[r].answer /\ req[r].approval \in Approvals
         /\ \A a \in Approvals : Answered(r)[a].order = approval[a].order /\ Answered(r)[a].shown = approval[a].shown
                                 /\ Answered(r)[a].withdrawn = approval[a].withdrawn
         /\ \A a \in Approvals \ {req[r].approval} : Answered(r)[a] = approval[a]
<1>1. req[r].answer \in {"approved", "rejected"} /\ req[r].approval \in Approvals
  BY Deciders DEF DecideRecord
<1>2. QED BY <1>1 DEF Answered, TypeOK, ApprovalRecord

LEMMA LinkedToIs ==
  ASSUME NEW a, LinkedTo(a) # NoOrder
  PROVE  LinkedTo(a) \in Orders /\ order[LinkedTo(a)].approval = a
<1>1. \E o \in Orders : order[o].approval = a
  BY DEF LinkedTo
<1>2. LinkedTo(a) = CHOOSE o \in Orders : order[o].approval = a
  BY <1>1 DEF LinkedTo
<1>3. QED BY <1>1, <1>2

LEMMA LinkedToFinds ==
  ASSUME NEW o \in Orders, RecordInv
  PROVE  order[o].approval # NoApproval => LinkedTo(order[o].approval) = o
<1>1. SUFFICES ASSUME order[o].approval # NoApproval PROVE LinkedTo(order[o].approval) = o
  OBVIOUS
<1>2. LinkedTo(order[o].approval) \in Orders /\ order[LinkedTo(order[o].approval)].approval = order[o].approval
  BY DEF LinkedTo
<1>3. QED BY <1>1, <1>2 DEF RecordInv, OrdersStand, OrderStands

LEMMA NoneLinked ==
  ASSUME NEW a, LinkedTo(a) = NoOrder
  PROVE  \A o \in Orders : order[o].approval # a
<1>1. SUFFICES ASSUME NEW o \in Orders, order[o].approval = a PROVE LinkedTo(a) \in Orders
  BY ChangeOrdersAssumption
<1>2. QED BY <1>1 DEF LinkedTo

-----------------------------------------------------------------------------
(* The steps of the record, one by one. *)
LEMMA RowReplaced ==
  ASSUME TypeOK, Checked, RecordInv, NEW o \in Orders, NEW row, order' = [order EXCEPT ![o] = row],
         row.approval = NoApproval, ~row.applied, Stands(row), row.status = "none" => row = NotRaised,
         order[o].applied = row.applied, UNCHANGED <<approval, site>>, Alone',
         \A s \in Requests : req'[s] = Idle \/ (req'[s] = req[s] /\ req[s].order # o)
  PROVE  RecordInv'
<1>1. order'[o] = row /\ \A x \in Orders \ {o} : order'[x] = order[x]
  BY DEF TypeOK
<1>2. \A x \in Orders : order[x].approval \in Approvals \cup {NoApproval}
  BY DEF TypeOK, OrderRecord
<1>3. OrdersStand'
  <2>1. ASSUME NEW x \in Orders PROVE OrderStands(x, order', approval)
    <3>1. OrderStands(x, order, approval)
      BY DEF RecordInv, OrdersStand
    <3>2. QED BY <1>1, <3>1 DEF OrderStands
  <2>2. QED BY <2>1 DEF OrdersStand
<1>4. \A x \in Orders : /\ order'[x].applied = order[x].applied
                        /\ order[x].applied => order'[x].price = order[x].price
  BY <1>1
<1>5. \A x : TotalIn(order', x) = TotalIn(order, x)
  BY <1>3, <1>4, TotalsStay DEF RecordInv
<1>6. Current(Idle, order', approval)
  BY ChangeOrdersAssumption DEF Current, Idle, Moving
<1>7. ASSUME NEW s \in Requests, req[s].order # o PROVE Current(req[s], order', approval)
  <2> DEFINE q == req[s]
  <2>1. Current(q, order, approval)
    BY DEF RecordInv, AllCurrent
  <2>2. /\ q.op \in {"update", "remove"} => q.order \in Orders
        /\ q.op = "decide" => q.approval \in Approvals
        /\ Moving(q) => q.order \in Orders
    BY RequestKinds, Deciders DEF TypeOK, HandlerRecord, Operations, DecideRecord, Checked, Sound, Moving
  <2> HIDE DEF q
  <2>3. QED BY <1>1, <1>5, <1>7, <2>1, <2>2, ChangeOrdersAssumption DEF Current, q
<1>8. AllCurrent'
  BY <1>6, <1>7 DEF AllCurrent
<1>9. SiteTells'
  BY <1>3, <1>4, SiteStays DEF RecordInv
<1>10. QED BY <1>3, <1>8, <1>9 DEF RecordInv

LEMMA RecordRemove ==
  ASSUME TypeOK, Checked, EditsAlone, RecordInv, NEW r \in Requests, Remove(r)
  PROVE  RecordInv'
<1>1. req[r].op = "remove" /\ req[r].order \in Orders /\ End(r) /\ UNCHANGED figures
  BY HandlerOf DEF Remove, Writing, Operations
<1>2. req'[r] = Idle /\ \A s \in Requests \ {r} : req'[s] = req[s]
  BY <1>1, Ends
<1>3. Alone'
  BY <1>2, AloneEnds DEF RecordInv, Idle
<1>4. \A s \in Requests \ {r} : req[s].order # req[r].order
  BY <1>1, ChangeOrdersAssumption DEF RecordInv, Alone, EditsAlone
<1>5. order[req[r].order].status = "draft"
  BY <1>1 DEF RecordInv, AllCurrent, Current, Checked, Sound, Allows, Operations
<1>6. order[req[r].order].applied = FALSE
  BY <1>1, <1>5, RowStands DEF Stands, Agreed, OrderRecord
<1>7. NotRaised.approval = NoApproval /\ NotRaised.applied = FALSE /\ Stands(NotRaised)
  BY DEF NotRaised, Stands, Agreed
<1>8. order' = [order EXCEPT ![req[r].order] = NotRaised] /\ UNCHANGED <<approval, site>>
  BY <1>1 DEF Remove, figures
<1>9. QED BY <1>1, <1>2, <1>3, <1>4, <1>6, <1>7, <1>8, RowReplaced

LEMMA RecordCreate ==
  ASSUME TypeOK, Checked, RecordInv, NEW o \in Orders, NEW offer \in Offers, Create(o, offer)
  PROVE  RecordInv'
<1> DEFINE row == [NotRaised EXCEPT !.status = "draft", !.lines = offer.lines, !.price = offer.price]
<1>1. order' = [order EXCEPT ![o] = row] /\ UNCHANGED <<approval, site, req>> /\ order[o].status = "none"
  BY DEF Create, figures
<1>2. order[o] = NotRaised
  BY <1>1 DEF RecordInv, OrdersStand, OrderStands
<1>3. row.approval = NoApproval /\ row.applied = FALSE /\ row.status = "draft" /\ NotRaised.applied = FALSE
  BY DEF NotRaised
<1>4. \A s \in Requests : req[s].order # o
  BY <1>1 DEF RecordInv, AllCurrent, Current
<1>5. Alone'
  BY <1>1 DEF RecordInv, Alone
<1>6. Stands(row)
  BY <1>3 DEF Stands, Agreed
<1> HIDE DEF row
<1>7. QED BY <1>1, <1>2, <1>3, <1>4, <1>5, <1>6, RowReplaced

LEMMA RecordLoad ==
  ASSUME TypeOK, RecordInv, NEW r \in Requests, NEW o \in Orders, NEW op \in Operations, Load(r, o, op)
  PROVE  RecordInv'
<1>1. Alone'
  BY LoadIs, AloneBegins DEF RecordInv
<1>2. order[o].status # "none"
  BY LoadIs DEF Allows, Transitions, Operations
<1>3. Current(req'[r], order, approval)
  BY <1>2, LoadIs DEF Current, Moving, Operations
<1>4. QED BY <1>1, <1>3, LoadIs, LooksKeepRecord DEF figures

LEMMA RecordWithdraw ==
  ASSUME TypeOK, RecordInv, NEW r \in Requests,
         (\E a \in Approvals : WithdrawRead(r, a)) \/ WithdrawCheck(r) \/ WithdrawWrite(r)
  PROVE  RecordInv'
<1>1. req'[r].order = NoOrder /\ req'[r].op \in {"idle", "withdraw"} /\ \A s \in Requests \ {r} : req'[s] = req[s]
  BY WithdrawIs DEF Idle, WithdrawRecord
<1>2. Alone'
  BY <1>1, AloneEnds DEF RecordInv
<1>3. CASE UNCHANGED approval
  <2>1. Current(req'[r], order, approval)
    BY <1>1, ChangeOrdersAssumption DEF Current, Moving
  <2>2. QED BY <1>1, <1>2, <1>3, <2>1, WithdrawIs, LooksKeepRecord DEF figures
<1>4. CASE WithdrawWrite(r)
  <2>1. \A a \in Approvals : approval'[a].state = approval[a].state
    BY <1>4 DEF WithdrawWrite, TypeOK, ApprovalRecord
  <2>2. req'[r] = Idle
    BY <1>4, Ends DEF WithdrawWrite
  <2>3. QED BY <1>1, <1>2, <1>4, <2>1, <2>2, WithdrawIs, AnswersKeepRecord DEF figures
<1>5. QED BY <1>3, <1>4 DEF WithdrawRead, Begin, WithdrawCheck

LEMMA RecordDecision ==
  ASSUME TypeOK, RecordInv, NEW r \in Requests, NEW answer \in {"approved", "rejected"},
         (\E a \in Approvals : DecideRead(r, a, answer)) \/ (\E o \in Orders : ClientDecision(r, o, answer))
  PROVE  RecordInv'
<1>1. PICK a \in Approvals, o \in Orders \cup {NoOrder} :
        /\ req'[r] = Decision(a, o, answer) /\ \A s \in Requests \ {r} : req'[s] = req[s]
        /\ MayBegin(r, o, "decide") /\ Waiting(a)
        /\ o = LinkedTo(a) \/ (o \in Orders /\ order[o].status = "sent" /\ order[o].approval = a)
        /\ UNCHANGED <<order, approval, figures>>
  BY DecisionIs
<1>2. /\ req'[r].op = "decide" /\ req'[r].order = o /\ req'[r].approval = a /\ req'[r].stage = "asked"
  BY <1>1 DEF Decision
<1>3. Alone'
  BY <1>1, <1>2, AloneBegins DEF RecordInv
<1>4. a # NoApproval /\ approval[a].state = "pending"
  BY <1>1, ChangeOrdersAssumption DEF Waiting
<1>5. o = LinkedTo(a)
  BY <1>1, <1>4, LinkedToFinds
<1>6. \A x \in Orders : order[x].approval = a => x = o
  BY <1>4, <1>5, LinkedToFinds
<1>7. o \in Orders => order[o].status # "none"
  <2>1. SUFFICES ASSUME o \in Orders PROVE order[o].status # "none"
    OBVIOUS
  <2>2. order[o].approval = a
    BY <1>5, <2>1, LinkedToIs, ChangeOrdersAssumption
  <2>3. QED BY <1>4, <2>1, <2>2 DEF RecordInv, OrdersStand, OrderStands, NotRaised
<1>8. Current(req'[r], order, approval)
  BY <1>2, <1>4, <1>6, <1>7 DEF Current, Moving
<1>9. QED BY <1>1, <1>3, <1>8, LooksKeepRecord DEF figures

LEMMA RecordLocks ==
  ASSUME TypeOK, Checked, RecordInv, NEW r \in Requests, Answer(r) \/ LockCode(r) \/ LockSite(r)
  PROVE  RecordInv'
<1>1. /\ req'[r].op = "decide" /\ req[r].op = "decide" /\ req'[r].order = req[r].order
      /\ req'[r].approval = req[r].approval
      /\ \A s \in Requests \ {r} : req'[s] = req[s]
      /\ UNCHANGED <<order, approval, figures>>
  BY AnswerIs, CodeLocked, LockSiteIs DEF At
<1>2. Moving(req'[r]) => Moving(req[r]) /\ req'[r].row = req[r].row
  BY AnswerIs, CodeLocked, LockSiteIs DEF At, Moving
<1>3. req'[r].stage = "settling" => req'[r].total = TotalIn(order, req'[r].order)
  <2>1. CASE Answer(r) \/ LockCode(r)
    BY <2>1, AnswerIs, CodeLocked
  <2>2. CASE LockSite(r)
    BY <2>2, LockSiteIs, TotalIs
  <2>3. QED BY <2>1, <2>2
<1>4. Alone'
  BY <1>1, AloneEnds DEF RecordInv
<1>5. Current(req[r], order, approval)
  BY DEF RecordInv, AllCurrent
<1>6. Current(req'[r], order, approval)
  BY <1>1, <1>2, <1>3, <1>5 DEF Current
<1>7. QED BY <1>1, <1>4, <1>6, LooksKeepRecord DEF figures

LEMMA RecordLook ==
  ASSUME TypeOK, Checked, EditsAlone, RecordInv, NEW r \in Requests, Look(r)
  PROVE  RecordInv'
<1> DEFINE o == LinkedTo(req[r].approval)
           row == [order[o] EXCEPT !.status = "rejected"]
<1>0. req[r].op = "decide" /\ UNCHANGED figures /\ \A s \in Requests \ {r} : req'[s] = req[s]
  BY LookIs DEF At
<1>1. Current(req[r], order, approval) /\ req[r].approval \in Approvals
  BY <1>0, AnsweredStates DEF RecordInv, AllCurrent
<1>2. o \in Orders => o = req[r].order /\ order[o].approval = req[r].approval
  BY <1>0, <1>1, LinkedToIs, ChangeOrdersAssumption DEF Current
<1>3. req'[r] = Idle => Alone'
  BY <1>0, AloneEnds DEF RecordInv, Idle
<1>4. CASE req'[r] = Idle /\ UNCHANGED <<order, approval>>
  <2>1. Current(Idle, order, approval)
    BY ChangeOrdersAssumption DEF Current, Idle, Moving
  <2>2. QED BY <1>0, <1>3, <1>4, <2>1, LooksKeepRecord DEF figures
<1>5. CASE req'[r] = Idle /\ approval' = Answered(r) /\ UNCHANGED order
  BY <1>0, <1>3, <1>5, AnsweredStates, AnswersKeepRecord DEF figures
<1>6. CASE /\ req'[r] = Idle /\ o \in Orders /\ order[o].status = "sent"
           /\ Save(o, row, Answered(r))
  <2>1. order[o] \in OrderRecord
    BY <1>6 DEF TypeOK
  <2>2. /\ row.status = "rejected" /\ row.applied = order[o].applied /\ row.approval = order[o].approval
        /\ row.price = order[o].price
    BY <2>1 DEF OrderRecord
  <2>3. \A a \in Approvals : approval[a].state # "none" => Answered(r)[a].state # "none"
    BY <1>0, AnsweredStates
  <2>4. Writes(req[r].order, req[r].op = "update")
    <3> HIDE DEF row, o
    <3>1. QED BY <1>2, <1>6, <2>2, <2>3, RowWritten
  <2>5. End(r)
    BY <1>0, <1>6, LookEnds
  <2>6. QED BY <1>0, <1>2, <1>6, <2>4, <2>5, WritesKeepRecord
<1>7. CASE /\ o \in Orders /\ req'[r].op = "decide" /\ req'[r].stage = "moving" /\ req'[r].order = o
           /\ req'[r].approval = req[r].approval /\ req'[r].row = order[o] /\ UNCHANGED <<order, approval>>
  <2>1. Current(req'[r], order, approval)
    BY <1>0, <1>1, <1>2, <1>7 DEF Current
  <2>2. Alone'
    BY <1>0, <1>2, <1>7, AloneEnds DEF RecordInv
  <2>3. QED BY <1>0, <1>7, <2>1, <2>2, LooksKeepRecord DEF figures
<1>8. QED BY <1>4, <1>5, <1>6, <1>7, LookIs

LEMMA SumAppended ==
  ASSUME NEW n \in Nat, NEW f, \A j \in 1..n + 1 : f[j] \in Int
  PROVE  SumFunction([j \in 1..n + 1 |-> f[j]]) = f[n + 1] + SumFunction([j \in 1..n |-> f[j]])
<1> DEFINE g == [j \in 1..n + 1 |-> f[j]]
<1>1. IsFiniteSet(1..n + 1)
  BY FS_Interval
<1>2. g \in [1..n + 1 -> Int] /\ n + 1 \in 1..n + 1 /\ (1..n + 1) \ {n + 1} = 1..n
  OBVIOUS
<1>3. g[n + 1] = f[n + 1] /\ [j \in 1..n |-> g[j]] = [j \in 1..n |-> f[j]]
  OBVIOUS
<1>4. SumFunction(g) = g[n + 1] + SumFunction([j \in (1..n + 1) \ {n + 1} |-> g[j]])
  <2> HIDE DEF g
  <2>1. QED BY <1>1, <1>2, TotalRemove, ZenonT(60)
<1>5. QED BY <1>2, <1>3, <1>4

(* An order that becomes agreed adds its price to the total. *)
LEMMA TotalGrows ==
  ASSUME TypeOK, NEW o \in Orders, NEW later, order[o].status \notin Agreed,
         \A x \in Orders \ {o} : later[x] = order[x],
         later[o].status \in Agreed, later[o].price \in Int
  PROVE  /\ TotalIn(order, NoOrder) = TotalIn(order, o)
         /\ TotalIn(later, NoOrder) = later[o].price + TotalIn(order, o)
<1> DEFINE others == {x \in Orders \ {o} : order[x].status \in Agreed}
           all == {x \in Orders \ {NoOrder} : later[x].status \in Agreed}
           price == [x \in all |-> later[x].price]
<1>1. NoOrder \notin Orders /\ IsFiniteSet(Orders)
  BY ChangeOrdersAssumption
<1>2. {x \in Orders \ {NoOrder} : order[x].status \in Agreed} = others
  BY <1>1
<1>3. all = others \cup {o} /\ o \notin others /\ all \ {o} = others
  BY <1>1
<1>4. IsFiniteSet(all)
  BY <1>1, FS_Subset
<1>5. \A x \in Orders : order[x].price \in Int
  BY DEF TypeOK, OrderRecord
<1>6. price \in [all -> Int] /\ price[o] = later[o].price
  BY <1>3, <1>5
<1>7. [x \in others |-> price[x]] = [x \in others |-> order[x].price]
  BY <1>3
<1>8. SumFunction(price) = price[o] + SumFunction([x \in all \ {o} |-> price[x]])
  <2>0. o \in all
    BY <1>3
  <2> HIDE DEF price, all, others
  <2>1. price \in [all -> Int]
    BY <1>6
  <2>2. QED BY <1>4, <2>0, <2>1, TotalRemove
<1>9. TotalIn(later, NoOrder) = SumFunction(price)
  BY DEF TotalIn
<1>10. TotalIn(order, o) = SumFunction([x \in others |-> order[x].price])
  BY DEF TotalIn
<1> HIDE DEF price, all, others
<1>11. TotalIn(later, NoOrder) = later[o].price + TotalIn(order, o)
  BY <1>3, <1>6, <1>7, <1>8, <1>9, <1>10
<1>12. TotalIn(order, NoOrder) = TotalIn(order, o)
  BY <1>2, <1>10 DEF TotalIn
<1>13. QED BY <1>11, <1>12

(* Settling adds the order to the record, at the contract and the total it read under its locks. *)
LEMMA RecordSettles ==
  ASSUME TypeOK, Checked, LocksHold, RecordInv, NEW r \in Requests, At(r, "settling"), Settles(r), End(r),
         \A k \in DOMAIN site : site[k].order # req[r].order
  PROVE  OrdersStand' /\ SiteTells' /\ ~order[req[r].order].applied
<1> DEFINE o == req[r].order
           n == Len(site)
           entry == SiteRevision(r)
<1>1. o \in Orders /\ Current(req[r], order, approval)
  BY DEF At, Checked, Sound, RecordInv, AllCurrent
<1>2. order[o] \in OrderRecord /\ Stands(order[o]) /\ order[o].applied = FALSE
  BY <1>1, RowStands DEF RecordInv, SiteTells, OrderRecord
<1>3. order[o].status \notin Agreed
  BY <1>2 DEF Stands
<1>4. /\ order'[o] = [order[o] EXCEPT !.status = "approved", !.applied = TRUE]
      /\ \A x \in Orders \ {o} : order'[x] = order[x]
  BY <1>1 DEF Settles, TypeOK
<1>5. /\ order'[o].status = "approved" /\ order'[o].applied = TRUE /\ order'[o].price = order[o].price
      /\ order'[o].approval = order[o].approval /\ order[o].price \in Int
  BY <1>2, <1>4 DEF OrderRecord
<1>6. OrdersStand'
  <2>1. \A a \in Approvals : approval[a].state # "none" => approval'[a].state # "none"
    BY AnsweredStates DEF At, Settles
  <2>2. \A x \in Orders : order[x].approval \in Approvals \cup {NoApproval}
    BY DEF TypeOK, OrderRecord
  <2>3. ASSUME NEW x \in Orders PROVE OrderStands(x, order', approval')
    <3>1. OrderStands(x, order, approval)
      BY DEF RecordInv, OrdersStand
    <3>2. Stands(order'[x]) /\ (order'[x].status = "none" => order'[x] = NotRaised)
      BY <1>4, <1>5, <3>1 DEF OrderStands, Stands, Agreed
    <3>3. \A y \in Orders : order'[y].approval = order[y].approval
      BY <1>4, <1>5
    <3>4. QED BY <2>1, <2>2, <3>1, <3>2, <3>3 DEF OrderStands
  <2>4. QED BY <2>3 DEF OrdersStand
<1>7. site' = Append(site, entry)
  BY DEF Settles
<1>8. site \in Seq(SiteEntries) /\ n \in Nat /\ DOMAIN site = 1..n
  BY SiteTyped
<1>9. /\ Len(site') = n + 1 /\ DOMAIN site' = 1..n + 1 /\ site'[n + 1] = entry
      /\ \A k \in 1..n : site'[k] = site[k]
  BY <1>7, <1>8
<1>10. entry.order = o /\ entry.price = order[o].price /\ entry.contractBefore = entry.signed + TotalIn(order, o)
       /\ entry.signed = req[r].signed
  BY <1>1 DEF SiteRevision, Current, Moving, At
<1>11. /\ \A x \in Orders : order'[x].applied <=> \E k \in DOMAIN site' : site'[k].order = x
       /\ \A k \in DOMAIN site' : site'[k].price = order'[site'[k].order].price
       /\ \A j, k \in DOMAIN site' : site'[j].order = site'[k].order => j = k
  <2>1. \A k \in DOMAIN site' : k \in DOMAIN site \/ k = n + 1
    BY <1>8, <1>9
  <2>2. \A k \in DOMAIN site : k \in DOMAIN site' /\ site'[k] = site[k] /\ site[k].order \in Orders \ {o} /\ k # n + 1
    BY <1>8, <1>9, SiteTyped
  <2>3. n + 1 \in DOMAIN site' /\ site'[n + 1].order = o /\ site'[n + 1].price = order'[o].price
    BY <1>5, <1>8, <1>9, <1>10
  <2>4. /\ \A x \in Orders : order[x].applied <=> \E k \in DOMAIN site : site[k].order = x
        /\ \A k \in DOMAIN site : site[k].price = order[site[k].order].price
        /\ \A j, k \in DOMAIN site : site[j].order = site[k].order => j = k
    BY DEF RecordInv, SiteTells
  <2>5. \A x \in Orders : order'[x].applied <=> \E k \in DOMAIN site' : site'[k].order = x
    <3>1. \E k \in DOMAIN site' : site'[k].order = o
      BY <2>3
    <3>2. ASSUME NEW x \in Orders \ {o} PROVE order'[x].applied <=> \E k \in DOMAIN site' : site'[k].order = x
      <4>1. order'[x].applied = order[x].applied
        BY <1>4
      <4>2. (\E k \in DOMAIN site : site[k].order = x) => \E k \in DOMAIN site' : site'[k].order = x
        BY <2>2
      <4>3. ASSUME NEW k \in DOMAIN site', site'[k].order = x PROVE k \in DOMAIN site /\ site[k].order = x
        BY <2>1, <2>2, <2>3, <4>3
      <4>4. QED BY <2>4, <4>1, <4>2, <4>3
    <3>3. QED BY <1>5, <3>1, <3>2
  <2>6. \A k \in DOMAIN site' : site'[k].price = order'[site'[k].order].price
    <3>1. ASSUME NEW k \in DOMAIN site PROVE site'[k].price = order'[site'[k].order].price
      <4>1. site[k].order \in Orders \ {o} /\ site'[k] = site[k]
        BY <2>2
      <4>2. order'[site[k].order] = order[site[k].order]
        BY <1>4, <4>1
      <4>3. QED BY <2>4, <4>1, <4>2
    <3>2. QED BY <2>1, <2>3, <3>1
  <2>7. \A j, k \in DOMAIN site' : site'[j].order = site'[k].order => j = k
    BY <2>1, <2>2, <2>3, <2>4
  <2>8. QED BY <2>5, <2>6, <2>7
<1>12. ContractAddsUp'
  <2> DEFINE prices == [j \in 1..n |-> site[j].price]
             later == [j \in 1..n + 1 |-> site'[j].price]
  <2>1. TotalIn(order, NoOrder) = SumFunction(prices)
    BY <1>8, TotalIs DEF RecordInv, SiteTells, ContractAddsUp
  <2>2. /\ TotalIn(order, NoOrder) = TotalIn(order, o)
        /\ TotalIn(order', NoOrder) = order'[o].price + TotalIn(order, o)
    BY <1>1, <1>3, <1>4, <1>5, TotalGrows DEF Agreed
  <2>3. SumFunction(later) = later[n + 1] + SumFunction([j \in 1..n |-> later[j]])
    <3>1. later \in [1..n + 1 -> Int]
      BY <1>5, <1>8, <1>9, <1>10, SiteTyped
    <3>2. later = [j \in 1..n + 1 |-> later[j]] /\ \A j \in 1..n + 1 : later[j] \in Int
      BY <3>1
    <3> HIDE DEF later
    <3>3. QED BY <1>8, <3>2, SumAppended
  <2>4. [j \in 1..n |-> later[j]] = prices /\ later[n + 1] = order'[o].price
    BY <1>5, <1>8, <1>9, <1>10
  <2>5. AgreedTotal(NoOrder)' = SumFunction([j \in DOMAIN site' |-> site'[j].price])
    <3>1. AgreedTotal(NoOrder)' = TotalIn(order', NoOrder)
      BY DEF AgreedTotal, TotalIn
    <3>2. [j \in DOMAIN site' |-> site'[j].price] = later
      BY <1>9
    <3> HIDE DEF later, prices
    <3>3. QED BY <2>1, <2>2, <2>3, <2>4, <3>1, <3>2
  <2>6. ASSUME NEW k \in 1..n + 1
        PROVE  site'[k].contractBefore = site'[k].signed + SumFunction([j \in 1..k - 1 |-> site'[j].price])
    <3>1. CASE k \in 1..n
      <4>1. [j \in 1..k - 1 |-> site'[j].price] = [j \in 1..k - 1 |-> site[j].price]
        BY <1>8, <1>9, <3>1
      <4>2. site[k].contractBefore = site[k].signed + SumFunction([j \in 1..k - 1 |-> site[j].price])
        BY <1>8, <3>1 DEF RecordInv, SiteTells, ContractAddsUp
      <4>3. QED BY <1>9, <3>1, <4>1, <4>2
    <3>2. CASE k = n + 1
      <4>1. [j \in 1..k - 1 |-> site'[j].price] = prices
        BY <1>8, <1>9, <3>2
      <4> HIDE DEF prices
      <4>2. QED BY <1>9, <1>10, <2>1, <2>2, <3>2, <4>1
    <3>3. QED BY <1>8, <3>1, <3>2
  <2>7. QED BY <1>9, <2>5, <2>6 DEF ContractAddsUp
<1>13. QED BY <1>2, <1>6, <1>11, <1>12 DEF SiteTells

LEMMA RecordSettle ==
  ASSUME TypeOK, Checked, LocksHold, EditsAlone, RecordInv, NEW r \in Requests, Settle(r)
  PROVE  RecordInv'
<1>0. At(r, "settling") /\ End(r) /\ req[r].order \in Orders /\ req'[r] = Idle
      /\ \A s \in Requests \ {r} : req'[s] = req[s]
  BY SettleIs, Ends DEF At, Checked, Sound
<1>1. Alone'
  BY <1>0, AloneEnds DEF RecordInv, Idle
<1>2. CASE UNCHANGED <<order, approval, figures>>
  <2>1. Current(Idle, order, approval)
    BY ChangeOrdersAssumption DEF Current, Idle, Moving
  <2>2. QED BY <1>0, <1>1, <1>2, <2>1, LooksKeepRecord DEF figures
<1>3. CASE Settles(r) /\ \A k \in DOMAIN site : site[k].order # req[r].order
  <2> DEFINE o == req[r].order
  <2>1. OrdersStand' /\ SiteTells'
    BY <1>0, <1>3, RecordSettles
  <2>2. /\ order'[o].status = "approved" /\ order'[o].price = order[o].price /\ order'[o].approval = order[o].approval
        /\ \A x \in Orders \ {o} : order'[x] = order[x]
    BY <1>0, <1>3 DEF Settles, TypeOK, OrderRecord
  <2>3. \A a \in Approvals : approval[a].state # "none" => approval'[a].state # "none"
    BY <1>0, <1>3, AnsweredStates DEF At, Settles
  <2>4. Current(Idle, order', approval')
    BY ChangeOrdersAssumption DEF Current, Idle, Moving
  <2>5. ASSUME NEW s \in Requests \ {r} PROVE Current(req[s], order', approval')
    <3> DEFINE q == req[s]
    <3>1. Current(q, order, approval)
      BY DEF RecordInv, AllCurrent
    <3>2. q.order = o => q.op \notin {"update", "remove"}
      <4>1. ASSUME q.order = o PROVE q.op \in Racing
        BY <1>0, <4>1, ChangeOrdersAssumption DEF RecordInv, Alone
      <4>2. QED BY <4>1 DEF EditsAlone
    <3>3. q.op = "decide" => q.approval \in Approvals /\ q.stage # "settling"
      BY <1>0, Deciders DEF DecideRecord, LocksHold, Apart, At
    <3>4. /\ q.op \in {"update", "remove"} => q.order \in Orders
          /\ Moving(q) => q.order \in Orders
      BY RequestKinds DEF TypeOK, HandlerRecord, Operations, Checked, Sound, Moving
    <3> HIDE DEF q, o
    <3>5. /\ q.order \in Orders => order'[q.order].status # "none"
          /\ q.op \in {"update", "remove"} => order'[q.order] = q.row
          /\ Moving(q) => q.row.price = order'[q.order].price
      BY <2>2, <3>1, <3>2, <3>4 DEF Current
    <3>6. ASSUME q.op = "decide"
          PROVE  approval'[q.approval].state # "none" /\ \A x \in Orders : order'[x].approval = q.approval => x = q.order
      BY <2>2, <2>3, <3>1, <3>3, <3>6 DEF Current
    <3>7. QED BY <3>3, <3>5, <3>6 DEF Current, q
  <2>6. AllCurrent'
    BY <1>0, <2>4, <2>5 DEF AllCurrent
  <2>7. QED BY <1>1, <2>1, <2>6 DEF RecordInv
<1>4. QED BY <1>2, <1>3, SettleIs

LEMMA NextKeepsRecord ==
  ASSUME TypeOK, Checked, LocksHold, EditsAlone, RecordInv, [Next]_vars
  PROVE  RecordInv'
<1>1. ASSUME UNCHANGED <<order, approval, site, req>> PROVE RecordInv'
  BY <1>1 DEF RecordInv, Alone, OrdersStand, AllCurrent, SiteTells, ContractAddsUp, AgreedTotal
<1>2. ASSUME NEW o \in Orders, NEW offer \in Offers, Create(o, offer) PROVE RecordInv'
  BY <1>2, RecordCreate
<1>3. ASSUME NEW a \in Approvals, AskClient(a) PROVE RecordInv'
  <2>1. \A b \in Approvals : approval[b].state # "none" => approval'[b].state # "none"
    BY <1>3 DEF AskClient, TypeOK, ApprovalRecord
  <2>2. req' = req /\ UNCHANGED <<order, site>>
    BY <1>3 DEF AskClient, figures
  <2>3. Alone'
    BY <2>2 DEF RecordInv, Alone
  <2>4. QED BY <2>1, <2>2, <2>3, AnswersKeepRecord
<1>4. CASE \/ \E c \in Codes, value \in Budgets : EditBudget(c, value)
           \/ \E value \in Budgets : SetSiteBudget(value)
           \/ \E value \in Contracts : SetContractValue(value)
  BY <1>1, <1>4 DEF EditBudget, SetContractValue, SetSiteBudget
<1>5. ASSUME NEW r \in Requests, NEW o \in Orders, NEW op \in Operations, Load(r, o, op) PROVE RecordInv'
  BY <1>5, RecordLoad
<1>6. ASSUME NEW r \in Requests, req[r].order \in Orders, Writes(req[r].order, req[r].op = "update"), End(r),
             UNCHANGED figures
      PROVE  RecordInv'
  BY <1>6, WritesKeepRecord
<1>7. ASSUME NEW r \in Requests, NEW offer \in Offers, Update(r, offer) PROVE RecordInv'
  <2>1. req[r].order \in Orders /\ End(r) /\ UNCHANGED figures
    BY <1>7, HandlerOf DEF Update, Writing, Operations
  <2>2. QED BY <1>6, <1>7, <2>1, UpdateWrites
<1>8. ASSUME NEW r \in Requests, Submit(r) \/ ReturnToDraft(r) \/ Implement(r) PROVE RecordInv'
  <2>1. End(r) /\ UNCHANGED figures
    BY <1>8 DEF Submit, ReturnToDraft, Implement, Status, Writing
  <2>2. req[r].order \in Orders /\ Writes(req[r].order, req[r].op = "update")
    BY <1>8, StatusWrites DEF Submit, ReturnToDraft, Implement, Operations, Statuses
  <2>3. QED BY <1>6, <2>1, <2>2
<1>9. ASSUME NEW r \in Requests, Revise(r) \/ Cancel(r) PROVE RecordInv'
  <2>1. End(r) /\ UNCHANGED figures
    BY <1>9 DEF Revise, Cancel, Writing
  <2>2. QED BY <1>6, <1>9, <2>1, ReviseWrites, CancelWrites
<1>10. ASSUME NEW r \in Requests, NEW a \in Approvals, Approve(r, a) PROVE RecordInv'
  <2>1. End(r) /\ UNCHANGED figures
    BY <1>10 DEF Approve, Writing
  <2>2. QED BY <1>6, <1>10, <2>1, ApproveWrites
<1>11. ASSUME NEW r \in Requests,
              (\E a \in Approvals : WithdrawRead(r, a)) \/ WithdrawCheck(r) \/ WithdrawWrite(r)
       PROVE  RecordInv'
  BY <1>11, RecordWithdraw
<1>12. ASSUME NEW r \in Requests, NEW answer \in {"approved", "rejected"},
              (\E a \in Approvals : DecideRead(r, a, answer)) \/ (\E o \in Orders : ClientDecision(r, o, answer))
       PROVE  RecordInv'
  BY <1>12, RecordDecision
<1>13. ASSUME NEW r \in Requests, Remove(r) \/ Answer(r) \/ Look(r) \/ LockCode(r) \/ LockSite(r) \/ Settle(r)
       PROVE  RecordInv'
  BY <1>13, RecordRemove, RecordLocks, RecordLook, RecordSettle
<1>14. CASE UNCHANGED vars
  BY <1>1, <1>14 DEF vars, figures
<1>15. QED
  BY <1>2, <1>3, <1>4, <1>5, <1>7, <1>8, <1>9, <1>10, <1>11, <1>12, <1>13, <1>14 DEF Next

LEMMA RecordStarts == Init => RecordInv
<1> SUFFICES ASSUME Init PROVE RecordInv
  OBVIOUS
<1>1. \A o \in Orders : order[o] = NotRaised
  BY DEF Init
<1>2. NotRaised.status = "none" /\ NotRaised.applied = FALSE /\ NotRaised.approval = NoApproval /\ Stands(NotRaised)
  BY DEF NotRaised, Stands, Agreed
<1>3. OrdersStand
  BY <1>1, <1>2 DEF OrdersStand, OrderStands
<1>4. Alone /\ AllCurrent
  BY ChangeOrdersAssumption DEF Init, Idle, Alone, AllCurrent, Current, Moving
<1>5. site = <<>> /\ DOMAIN site = {}
  BY DEF Init
<1>6. ContractAddsUp
  <2>1. {x \in Orders \ {NoOrder} : order[x].status \in Agreed} = {}
    BY <1>1, <1>2 DEF Agreed
  <2>2. AgreedTotal(NoOrder) = 0
    BY <2>1, TotalNothing DEF AgreedTotal
  <2>3. SumFunction([j \in DOMAIN site |-> site[j].price]) = 0
    BY <1>5, TotalNothing
  <2>4. QED BY <1>5, <2>2, <2>3 DEF ContractAddsUp
<1>7. SiteTells
  BY <1>1, <1>2, <1>5, <1>6 DEF SiteTells
<1>8. QED BY <1>3, <1>4, <1>7 DEF RecordInv

LEMMA RecordKept == ASSUME EditsAlone PROVE Spec => [](TypeOK /\ Checked /\ LocksHold /\ RecordInv)
<1>1. Init => LocksHold /\ RecordInv
  <2>1. Init => LocksHold
    BY DEF Init, LocksHold, Idle
  <2>2. QED BY <2>1, RecordStarts
<1>2. TypeOK /\ Checked /\ LocksHold /\ RecordInv /\ [Next]_vars => TypeOK' /\ Checked' /\ LocksHold' /\ RecordInv'
  BY NextKeepsTypes, NextKeepsLocks, NextKeepsRecord
<1>3. QED BY TypeStart, <1>1, <1>2, PTL DEF Spec

(* As long as nobody edits or deletes an order while another request works on it, the contract in force is *)
(* the contract as signed and every agreed change, once each.                                             *)
THEOREM ContractIsTheSum == ASSUME EditsAlone PROVE Spec => []ContractAddsUp
<1>1. RecordInv => ContractAddsUp
  BY DEF RecordInv, SiteTells
<1>2. QED BY RecordKept, <1>1, PTL

-----------------------------------------------------------------------------
(* The client's answer.  An order and the approval it waits for name each other while the answer is out and *)
(* once it is yes; what a request loaded still tells it what it may write; and an approval that is being    *)
(* answered has one request at it.                                                                          *)
ChangesAlone == Racing \cap {"update", "remove", "approve", "revise"} = {}

Open(ask) == ask.state = "pending" /\ ~ask.withdrawn

OrderAsked(o, orders, approvals) ==
  LET row == orders[o]
      ask == approvals[orders[o].approval]
  IN /\ row.approval # NoApproval => ask.order = o
     /\ row.status \in {"none", "draft", "submitted"} => row.approval = NoApproval
     /\ row.status = "sent" => row.approval # NoApproval /\ Open(ask) /\ ask.shown = row.price
     /\ row.status = "rejected" => row.approval # NoApproval /\ ask.state = "rejected"
     /\ row.status \in Agreed => /\ row.approval # NoApproval /\ ask.state = "approved" /\ ~ask.withdrawn
                                 /\ ask.shown = row.price

ApprovalAsked(a, orders, approvals) ==
  LET ask == approvals[a]
  IN /\ ask.state = "none" => ask = NotAsked
     /\ ask.order # NoOrder /\ (Open(ask) \/ ask.state = "approved") => orders[ask.order].approval = a
     /\ ask.order # NoOrder /\ ask.state = "approved" => orders[ask.order].status \in Agreed

Early == {"draft", "submitted", "cancelled"}
Knows(q, orders, approvals) ==
  LET row == orders[q.order]
  IN /\ q.op \in {"approve", "revise"} => row = q.row
     /\ q.op \in Operations => q.row.approval = row.approval
     /\ q.op \in {"submit", "return"} => row.status \in Early /\ row.approval = NoApproval
     /\ q.op = "implement" => row.status \in Agreed
     /\ q.op = "cancel" /\ row.status = "sent" => q.pending
     /\ q.op = "cancel" /\ q.pending => row.approval # NoApproval
     /\ q.op = "withdraw" => approvals[q.approval].state # "none"
     /\ q.op = "withdraw" /\ q.stage = "writing" => \A o \in Orders : orders[o].approval # q.approval
     /\ q.op = "decide" => /\ approvals[q.approval].order = q.order
                           /\ q.order # NoOrder => row.approval = q.approval
     /\ Moving(q) => row.status = "sent" /\ q.answer = "approved"

OneHolder ==
  \A r, s \in Requests : r # s /\ req[r].op = "decide" /\ req[s].op = "decide" /\ req[r].approval = req[s].approval =>
    req[r].stage = "asked" \/ req[s].stage = "asked"

AskInv ==
  /\ \A o \in Orders : OrderAsked(o, order, approval)
  /\ \A a \in Approvals : ApprovalAsked(a, order, approval)
  /\ \A r \in Requests : Knows(req[r], order, approval)
  /\ OneHolder

AgreedStays ==
  \A o \in Orders : order[o].status \in Agreed =>
    /\ order'[o].status \in Agreed /\ order'[o].price = order[o].price /\ order'[o].approval = order[o].approval

LEMMA IdleKnows == ASSUME NEW orders, NEW approvals PROVE Knows(Idle, orders, approvals)
BY DEF Knows, Idle, Operations, Moving

LEMMA Holders ==
  ASSUME OneHolder, NEW r \in Requests, \A s \in Requests \ {r} : req'[s] = req[s],
         req'[r].op = "decide" => \/ req'[r].stage = "asked"
                                  \/ /\ req[r].op = "decide" /\ req[r].approval = req'[r].approval
                                     /\ req[r].stage # "asked"
  PROVE  OneHolder'
BY DEF OneHolder

(* Where each kind of request keeps its order, and its approval. *)
LEMMA RequestsName ==
  ASSUME TypeOK, Checked, NEW s \in Requests
  PROVE  /\ req[s].op \in Operations => req[s].order \in Orders /\ req[s].row \in OrderRecord
         /\ req[s].op = "decide" => req[s].approval \in Approvals
         /\ req[s].op = "withdraw" => req[s].approval \in Approvals /\ req[s].order = NoOrder
         /\ Moving(req[s]) => req[s].order \in Orders
         /\ req[s].order \in Orders \cup {NoOrder}
         /\ req[s].order = NoOrder => req[s].op \in {"idle", "withdraw", "decide"}
BY RequestKinds, Deciders, ChangeOrdersAssumption
   DEF TypeOK, HandlerRecord, DecideRecord, WithdrawRecord, Checked, Sound, Moving

(* An order only changes its status, on the request that holds it or alone writes it. *)
LEMMA StatusMoves ==
  ASSUME TypeOK, Checked, ChangesAlone, RecordInv, AskInv, NEW r \in Requests, req[r].order \in Orders,
         req'[r] = Idle, \A s \in Requests \ {r} : req'[s] = req[s],
         \A x \in Orders \ {req[r].order} : order'[x] = order[x],
         order'[req[r].order].approval = order[req[r].order].approval,
         order'[req[r].order].price = order[req[r].order].price,
         order[req[r].order].status \in Early => order'[req[r].order].status \in Early,
         order[req[r].order].status \in Agreed => order'[req[r].order].status \in Agreed,
         order'[req[r].order].status = "sent" => order[req[r].order].status = "sent",
         \A s \in Requests \ {r} : Moving(req[s]) /\ req[s].order = req[r].order => order'[req[r].order].status = "sent",
         \A a \in Approvals \ {order[req[r].order].approval} : approval'[a] = approval[a],
         \A a \in Approvals : /\ approval'[a].order = approval[a].order
                              /\ approval[a].state # "none" => approval'[a].state # "none",
         OrderAsked(req[r].order, order', approval'),
         order[req[r].order].approval # NoApproval => ApprovalAsked(order[req[r].order].approval, order', approval')
  PROVE  AskInv' /\ AgreedStays
<1> DEFINE o == req[r].order
<1>0. \A x \in Orders : order[x].approval \in Approvals \cup {NoApproval}
  BY DEF TypeOK, OrderRecord
<1>1. ASSUME NEW x \in Orders PROVE OrderAsked(x, order', approval')
  <2>1. CASE x = o
    BY <2>1
  <2>2. CASE x # o
    <3>1. OrderAsked(x, order, approval) /\ order'[x] = order[x]
      BY <2>2 DEF AskInv
    <3>2. order[x].approval # NoApproval => approval'[order[x].approval] = approval[order[x].approval]
      BY <1>0, <2>2 DEF RecordInv, OrdersStand, OrderStands
    <3>3. QED BY <3>1, <3>2 DEF OrderAsked, Agreed
  <2>3. QED BY <2>1, <2>2
<1>2. ASSUME NEW a \in Approvals PROVE ApprovalAsked(a, order', approval')
  <2>1. CASE a = order[o].approval
    BY <2>1, ChangeOrdersAssumption
  <2>2. CASE a # order[o].approval
    <3>1. ApprovalAsked(a, order, approval) /\ approval'[a] = approval[a]
      BY <2>2 DEF AskInv
    <3>2. approval[a].order \in Orders \cup {NoOrder}
      BY DEF TypeOK, ApprovalRecord
    <3>3. QED BY <2>2, <3>1, <3>2, SMTT(30) DEF ApprovalAsked
  <2>3. QED BY <2>1, <2>2
<1>3. ASSUME NEW s \in Requests \ {r} PROVE Knows(req[s], order', approval')
  <2> DEFINE q == req[s]
  <2>1. Knows(q, order, approval)
    BY DEF AskInv
  <2>2. /\ q.op \in Operations => q.order \in Orders
        /\ q.op \in {"decide", "withdraw"} => q.approval \in Approvals
        /\ Moving(q) => q.order \in Orders /\ q.op = "decide"
        /\ q.order \in Orders \cup {NoOrder}
    BY RequestsName DEF Moving
  <2>3. q.order = o => q.op \notin {"approve", "revise"}
    <3>1. ASSUME q.order = o PROVE q.op \in Racing
      BY <3>1, ChangeOrdersAssumption DEF RecordInv, Alone
    <3>2. QED BY <3>1 DEF ChangesAlone
  <2>4. \A x \in Orders : order'[x].approval = order[x].approval
    OBVIOUS
  <2>5. q.order # o /\ q.order \in Orders => order'[q.order] = order[q.order]
    OBVIOUS
  <2>6. q.order = o => (Moving(q) => order'[o].status = "sent")
    OBVIOUS
  <2>7. /\ order[o].status \in Early => order'[o].status \in Early
        /\ order[o].status \in Agreed => order'[o].status \in Agreed
        /\ order'[o].status = "sent" => order[o].status = "sent"
    OBVIOUS
  <2>8. \A a \in Approvals : /\ approval'[a].order = approval[a].order
                             /\ approval[a].state # "none" => approval'[a].state # "none"
    OBVIOUS
  <2> HIDE DEF q, o
  <2>9. q.op \in Operations => q.order \in Orders /\ order'[q.order].approval = order[q.order].approval
    BY <2>2, <2>4
  <2>10. q.op \in {"approve", "revise"} => order'[q.order] = q.row
    BY <2>1, <2>2, <2>3, <2>5 DEF Knows, Operations
  <2>11. /\ q.op \in Operations => q.row.approval = order'[q.order].approval
         /\ q.op = "cancel" /\ q.pending => order'[q.order].approval # NoApproval
    BY <2>1, <2>9 DEF Knows, Operations
  <2>12. q.op \in {"submit", "return"} => order'[q.order].status \in Early /\ order'[q.order].approval = NoApproval
    BY <2>1, <2>5, <2>7, <2>9 DEF Knows, Operations
  <2>13. q.op = "implement" => order'[q.order].status \in Agreed
    BY <2>1, <2>5, <2>7, <2>9 DEF Knows, Operations
  <2>14. q.op = "cancel" /\ order'[q.order].status = "sent" => q.pending
    BY <2>1, <2>5, <2>7, <2>9 DEF Knows, Operations
  <2>15. /\ q.op = "withdraw" => approval'[q.approval].state # "none"
         /\ q.op = "withdraw" /\ q.stage = "writing" => \A x \in Orders : order'[x].approval # q.approval
    BY <2>1, <2>2, <2>4, <2>8 DEF Knows
  <2>16. q.op = "decide" => /\ approval'[q.approval].order = q.order
                            /\ q.order # NoOrder => order'[q.order].approval = q.approval
    BY <2>1, <2>2, <2>4, <2>8 DEF Knows
  <2>17. Moving(q) => order'[q.order].status = "sent" /\ q.answer = "approved"
    BY <2>1, <2>2, <2>5, <2>6 DEF Knows
  <2>18. QED BY <2>10, <2>11, <2>12, <2>13, <2>14, <2>15, <2>16, <2>17 DEF Knows, q
<1>4. OneHolder'
  BY Holders DEF AskInv, Idle
<1>5. AskInv'
  BY <1>1, <1>2, <1>3, <1>4, IdleKnows DEF AskInv
<1>6. AgreedStays
  BY DEF AgreedStays
<1>7. QED BY <1>5, <1>6

(* An order that one request alone writes, or that nobody has raised yet. *)
LEMMA AloneWrites ==
  ASSUME TypeOK, Checked, RecordInv, AskInv, NEW o \in Orders,
         \A s \in Requests : req'[s] = Idle \/ (req'[s] = req[s] /\ req[s].order # o),
         OneHolder', order[o].status \notin Agreed,
         order[o].approval # NoApproval => approval[order[o].approval].state = "rejected",
         \A x \in Orders \ {o} : order'[x] = order[x],
         \/ order'[o].approval \in {order[o].approval, NoApproval}
         \/ order'[o].approval \in Approvals /\ approval[order'[o].approval].state = "none",
         \A a \in Approvals : approval'[a] = approval[a] \/ (a = order'[o].approval /\ approval[a].state = "none"),
         OrderAsked(o, order', approval'),
         \A a \in Approvals : a = order'[o].approval => ApprovalAsked(a, order', approval')
  PROVE  AskInv' /\ AgreedStays
<1>0. \A x \in Orders : order[x].approval \in Approvals \cup {NoApproval}
  BY DEF TypeOK, OrderRecord
<1>1. ASSUME NEW x \in Orders PROVE OrderAsked(x, order', approval')
  <2>1. CASE x = o
    BY <2>1
  <2>2. CASE x # o
    <3>1. OrderAsked(x, order, approval) /\ order'[x] = order[x]
      BY <2>2 DEF AskInv
    <3>2. order[x].approval # NoApproval => approval'[order[x].approval] = approval[order[x].approval]
      BY <1>0 DEF RecordInv, OrdersStand, OrderStands
    <3>3. QED BY <3>1, <3>2 DEF OrderAsked, Agreed
  <2>3. QED BY <2>1, <2>2
<1>2. ASSUME NEW a \in Approvals PROVE ApprovalAsked(a, order', approval')
  <2>1. CASE a = order'[o].approval
    BY <2>1
  <2>2. CASE a # order'[o].approval
    <3>1. ApprovalAsked(a, order, approval) /\ approval'[a] = approval[a]
      BY <2>2 DEF AskInv
    <3>2. approval[a].order \in Orders \cup {NoOrder}
      BY DEF TypeOK, ApprovalRecord
    <3>3. a = order[o].approval => approval[a].state = "rejected"
      BY ChangeOrdersAssumption
    <3>4. QED BY <3>1, <3>2, <3>3 DEF ApprovalAsked, Open
  <2>3. QED BY <2>1, <2>2
<1>3. ASSUME NEW s \in Requests, req[s].order # o PROVE Knows(req[s], order', approval')
  <2> DEFINE q == req[s]
  <2>1. Knows(q, order, approval) /\ Current(q, order, approval)
    BY DEF AskInv, RecordInv, AllCurrent
  <2>2. /\ q.op \in Operations => q.order \in Orders
        /\ q.op \in {"decide", "withdraw"} => q.approval \in Approvals
        /\ Moving(q) => q.order \in Orders /\ q.op = "decide"
        /\ q.order \in Orders \cup {NoOrder}
    BY RequestsName DEF Moving
  <2>3. q.order \in Orders => order'[q.order] = order[q.order]
    BY <1>3
  <2>4. q.op \in {"decide", "withdraw"} => approval[q.approval].state # "none"
    BY <2>1 DEF Knows, Current
  <2>5. q.op \in {"decide", "withdraw"} => approval'[q.approval] = approval[q.approval]
    BY <2>2, <2>4
  <2>6. q.op = "withdraw" /\ q.stage = "writing" => \A x \in Orders : order'[x].approval # q.approval
    BY <1>0, <2>1, <2>2, <2>4, ChangeOrdersAssumption DEF Knows
  <2> HIDE DEF q
  <2>7. QED BY <2>1, <2>2, <2>3, <2>4, <2>5, <2>6 DEF Knows, Operations, q
<1>4. \A s \in Requests : Knows(req'[s], order', approval')
  BY <1>3, IdleKnows
<1>5. AskInv'
  BY <1>1, <1>2, <1>4 DEF AskInv
<1>6. AgreedStays
  BY DEF AgreedStays
<1>7. QED BY <1>5, <1>6

(* An approval that no order waits for. *)
LEMMA FreeApproval ==
  ASSUME TypeOK, Checked, AskInv, NEW a \in Approvals, \A o \in Orders : order[o].approval # a, UNCHANGED order,
         \A b \in Approvals \ {a} : approval'[b] = approval[b],
         approval'[a].order = approval[a].order, approval'[a].state # "none",
         ApprovalAsked(a, order, approval'), OneHolder',
         \A s \in Requests : req'[s] = Idle \/ req'[s] = req[s]
  PROVE  AskInv' /\ AgreedStays
<1>0. \A x \in Orders : order[x].approval \in Approvals \cup {NoApproval}
  BY DEF TypeOK, OrderRecord
<1>1. ASSUME NEW x \in Orders PROVE OrderAsked(x, order, approval')
  <2>1. OrderAsked(x, order, approval)
    BY DEF AskInv
  <2>2. order[x].approval # NoApproval => approval'[order[x].approval] = approval[order[x].approval]
    BY <1>0
  <2>3. QED BY <2>1, <2>2 DEF OrderAsked, Agreed
<1>2. ASSUME NEW b \in Approvals PROVE ApprovalAsked(b, order, approval')
  BY DEF AskInv, ApprovalAsked
<1>3. ASSUME NEW s \in Requests PROVE Knows(req[s], order, approval')
  <2>1. Knows(req[s], order, approval)
    BY DEF AskInv
  <2>2. req[s].op \in {"decide", "withdraw"} => req[s].approval \in Approvals
    BY RequestsName
  <2>3. QED BY <2>1, <2>2 DEF Knows
<1>4. \A s \in Requests : Knows(req'[s], order, approval')
  BY <1>3, IdleKnows
<1>5. AskInv'
  BY <1>1, <1>2, <1>4 DEF AskInv
<1>6. QED BY <1>5 DEF AgreedStays

LEMMA OnlyLooks ==
  ASSUME AskInv, NEW r \in Requests, \A s \in Requests \ {r} : req'[s] = req[s], UNCHANGED <<order, approval>>,
         Knows(req'[r], order, approval), OneHolder'
  PROVE  AskInv' /\ AgreedStays
BY DEF AskInv, AgreedStays

-----------------------------------------------------------------------------
(* The steps of the answer, one by one. *)
LEMMA Nobody ==
  ASSUME RecordInv, ChangesAlone, NEW r \in Requests, req[r].op \in {"update", "remove", "approve", "revise"},
         req[r].order \in Orders, NEW s \in Requests \ {r}
  PROVE  req[s].order # req[r].order
BY ChangeOrdersAssumption DEF RecordInv, Alone, ChangesAlone

LEMMA WriterEnds ==
  ASSUME TypeOK, AskInv, NEW r \in Requests, End(r), req[r].op # "decide" \/ req'[r] = Idle
  PROVE  req'[r] = Idle /\ (\A s \in Requests \ {r} : req'[s] = req[s]) /\ OneHolder'
<1>1. req'[r] = Idle /\ \A s \in Requests \ {r} : req'[s] = req[s]
  BY Ends
<1>2. QED BY <1>1, Holders DEF AskInv, Idle

LEMMA NoWrite ==
  ASSUME TypeOK, AskInv, NEW r \in Requests, End(r), UNCHANGED <<order, approval>>
  PROVE  AskInv' /\ AgreedStays
BY WriterEnds, OnlyLooks, IdleKnows, Ends

LEMMA AskUpdate ==
  ASSUME TypeOK, Checked, ChangesAlone, RecordInv, AskInv, NEW r \in Requests, NEW offer \in Offers, Update(r, offer)
  PROVE  AskInv' /\ AgreedStays
<1> DEFINE o == req[r].order
           row == [order[o] EXCEPT !.lines = offer.lines, !.price = offer.price]
<1>1. o \in Orders /\ req[r].op = "update" /\ End(r)
  BY HandlerOf DEF Update, Writing, Operations
<1>2. CASE UNCHANGED <<order, approval>>
  BY <1>1, <1>2, NoWrite
<1>3. CASE order' = [order EXCEPT ![o] = row] /\ approval' = approval
  <2>1. order[o].status = "draft" /\ order[o].approval = NoApproval /\ order[o] \in OrderRecord
    BY <1>1, RowStands
    DEF RecordInv, AllCurrent, Current, Checked, Sound, Allows, Operations, AskInv, OrderAsked
  <2>2. row.status = "draft" /\ row.approval = NoApproval
    BY <2>1 DEF OrderRecord
  <2>3. order'[o] = row /\ \A x \in Orders \ {o} : order'[x] = order[x]
    BY <1>1, <1>3 DEF TypeOK
  <2>4. OrderAsked(o, order', approval')
    BY <2>2, <2>3 DEF OrderAsked, Agreed
  <2>5. OneHolder' /\ \A s \in Requests : req'[s] = Idle \/ (req'[s] = req[s] /\ req[s].order # o)
    BY <1>1, WriterEnds, Nobody
  <2>6. NoApproval \notin Approvals /\ order'[o].approval = NoApproval /\ order[o].status \notin Agreed
    BY <2>1, <2>2, <2>3, ChangeOrdersAssumption DEF Agreed
  <2>7. \A a \in Approvals : approval'[a] = approval[a]
    BY <1>3
  <2> HIDE DEF row, o
  <2>8. QED BY <1>1, <2>1, <2>3, <2>4, <2>5, <2>6, <2>7, AloneWrites
<1>4. QED BY <1>2, <1>3 DEF Update, Save

LEMMA AskRemove ==
  ASSUME TypeOK, Checked, ChangesAlone, RecordInv, AskInv, NEW r \in Requests, Remove(r)
  PROVE  AskInv' /\ AgreedStays
<1> DEFINE o == req[r].order
<1>1. o \in Orders /\ req[r].op = "remove" /\ End(r) /\ UNCHANGED approval
  BY HandlerOf DEF Remove, Writing, Operations
<1>2. order[o].status = "draft" /\ order[o].approval = NoApproval
  BY <1>1 DEF RecordInv, AllCurrent, Current, Checked, Sound, Allows, Operations, AskInv, OrderAsked
<1>3. order'[o] = NotRaised /\ \A x \in Orders \ {o} : order'[x] = order[x]
  BY <1>1 DEF Remove, TypeOK
<1>4. NotRaised.approval = NoApproval /\ NotRaised.status = "none"
  BY DEF NotRaised
<1>5. OrderAsked(o, order', approval')
  BY <1>3, <1>4 DEF OrderAsked, Agreed
<1>6. OneHolder' /\ \A s \in Requests : req'[s] = Idle \/ (req'[s] = req[s] /\ req[s].order # o)
  BY <1>1, WriterEnds, Nobody
<1>7. NoApproval \notin Approvals
  BY ChangeOrdersAssumption
<1> HIDE DEF o
<1>8. QED BY <1>1, <1>2, <1>3, <1>4, <1>5, <1>6, <1>7, AloneWrites DEF Agreed

LEMMA AskCreate ==
  ASSUME TypeOK, Checked, RecordInv, AskInv, NEW o \in Orders, NEW offer \in Offers, Create(o, offer)
  PROVE  AskInv' /\ AgreedStays
<1> DEFINE row == [NotRaised EXCEPT !.status = "draft", !.lines = offer.lines, !.price = offer.price]
<1>1. order' = [order EXCEPT ![o] = row] /\ UNCHANGED <<approval, req>> /\ order[o].status = "none"
  BY DEF Create
<1>2. order'[o] = row /\ \A x \in Orders \ {o} : order'[x] = order[x]
  BY <1>1 DEF TypeOK
<1>3. row.status = "draft" /\ row.approval = NoApproval
  BY DEF NotRaised
<1>4. OrderAsked(o, order', approval')
  BY <1>2, <1>3 DEF OrderAsked, Agreed
<1>5. \A s \in Requests : req'[s] = req[s] /\ req[s].order # o
  BY <1>1 DEF RecordInv, AllCurrent, Current
<1>6. OneHolder'
  BY <1>1 DEF AskInv, OneHolder
<1>7. /\ NoApproval \notin Approvals /\ order[o].approval = NoApproval /\ order'[o].approval = NoApproval
      /\ order[o].status \notin Agreed
  BY <1>1, <1>2, <1>3, ChangeOrdersAssumption DEF AskInv, OrderAsked, Agreed
<1>8. \A a \in Approvals : approval'[a] = approval[a]
  BY <1>1
<1> HIDE DEF row
<1>9. QED BY <1>2, <1>4, <1>5, <1>6, <1>7, <1>8, AloneWrites

LEMMA AskRevise ==
  ASSUME TypeOK, Checked, ChangesAlone, RecordInv, AskInv, NEW r \in Requests, Revise(r)
  PROVE  AskInv' /\ AgreedStays
<1> DEFINE o == req[r].order
           row == [order[o] EXCEPT !.status = "draft", !.revision = req[r].row.revision + 1,
                                   !.seen = FALSE, !.approval = NoApproval]
<1>1. o \in Orders /\ req[r].op = "revise" /\ End(r)
  BY HandlerOf DEF Revise, Writing, Operations
<1>2. CASE UNCHANGED <<order, approval>>
  BY <1>1, <1>2, NoWrite
<1>3. CASE order' = [order EXCEPT ![o] = row] /\ approval' = approval
  <2>1. order[o].status = "rejected" /\ order[o] \in OrderRecord
    BY <1>1, RowStands DEF AskInv, Knows, Checked, Sound, Allows, Operations
  <2>2. approval[order[o].approval].state = "rejected"
    BY <1>1, <2>1 DEF AskInv, OrderAsked
  <2>3. row.status = "draft" /\ row.approval = NoApproval
    BY <2>1 DEF OrderRecord
  <2>4. order'[o] = row /\ \A x \in Orders \ {o} : order'[x] = order[x]
    BY <1>1, <1>3 DEF TypeOK
  <2>5. OrderAsked(o, order', approval')
    BY <2>3, <2>4 DEF OrderAsked, Agreed
  <2>6. OneHolder' /\ \A s \in Requests : req'[s] = Idle \/ (req'[s] = req[s] /\ req[s].order # o)
    BY <1>1, WriterEnds, Nobody
  <2>7. NoApproval \notin Approvals
    BY ChangeOrdersAssumption
  <2> HIDE DEF row, o
  <2>8. QED BY <1>1, <1>3, <2>1, <2>2, <2>3, <2>4, <2>5, <2>6, <2>7, AloneWrites DEF Agreed, o
<1>4. QED BY <1>2, <1>3 DEF Revise, Save

(* The request to the client goes out at the price that was signed off. *)
LEMMA AskApprove ==
  ASSUME TypeOK, Checked, ChangesAlone, RecordInv, AskInv, NEW r \in Requests, NEW a \in Approvals, Approve(r, a)
  PROVE  AskInv' /\ AgreedStays
<1> DEFINE o == req[r].order
           row == [order[o] EXCEPT !.status = "sent", !.approval = a]
           asked == [state |-> "pending", order |-> o, shown |-> req[r].row.price, withdrawn |-> FALSE]
<1>1. o \in Orders /\ req[r].op = "approve" /\ End(r) /\ approval[a].state = "none"
  BY HandlerOf DEF Approve, Writing, Operations
<1>2. CASE UNCHANGED <<order, approval>>
  BY <1>1, <1>2, NoWrite
<1>3. CASE order' = [order EXCEPT ![o] = row] /\ approval' = [approval EXCEPT ![a] = asked]
  <2>1. order[o].status = "submitted" /\ order[o] \in OrderRecord /\ order[o] = req[r].row
    <3>1. order[o] = req[r].row /\ order[o] \in OrderRecord
      BY <1>1, RowStands DEF AskInv, Knows
    <3>2. "sent" \in Transitions[order[o].status]
      BY <1>1, <3>1 DEF Checked, Sound, Allows, Operations
    <3>3. QED BY <3>1, <3>2 DEF Transitions, OrderRecord
  <2>2. order[o].approval = NoApproval
    BY <1>1, <2>1 DEF AskInv, OrderAsked
  <2>3. row.status = "sent" /\ row.approval = a /\ row.price = order[o].price
    BY <2>1 DEF OrderRecord
  <2>4. order'[o] = row /\ \A x \in Orders \ {o} : order'[x] = order[x]
    BY <1>1, <1>3 DEF TypeOK
  <2>5. approval'[a] = asked /\ \A b \in Approvals \ {a} : approval'[b] = approval[b]
    BY <1>3 DEF TypeOK
  <2>6. OrderAsked(o, order', approval')
    BY <2>1, <2>3, <2>4, <2>5, ChangeOrdersAssumption DEF OrderAsked, Open, Agreed
  <2>7. ApprovalAsked(a, order', approval')
    <3>1. asked.state = "pending" /\ asked.order = o /\ order'[o].approval = a /\ approval'[a] = asked
      BY <2>3, <2>4, <2>5
    <3> HIDE DEF asked, row, o
    <3>2. QED BY <3>1 DEF ApprovalAsked
  <2>8. OneHolder' /\ \A s \in Requests : req'[s] = Idle \/ (req'[s] = req[s] /\ req[s].order # o)
    BY <1>1, WriterEnds, Nobody
  <2> HIDE DEF row, o, asked
  <2>9. QED BY <1>1, <2>1, <2>2, <2>3, <2>4, <2>5, <2>6, <2>7, <2>8, AloneWrites DEF Agreed
<1>4. QED BY <1>2, <1>3 DEF Approve, Save

(* A row whose status alone a handler has moved. *)
LEMMA StatusRow ==
  ASSUME TypeOK, RecordInv, NEW r \in Requests, req[r].order \in Orders, NEW to, NEW seen,
         order' = [order EXCEPT ![req[r].order] = [order[req[r].order] EXCEPT !.status = to, !.seen = seen]]
  PROVE  /\ order'[req[r].order].status = to
         /\ order'[req[r].order].approval = order[req[r].order].approval
         /\ order'[req[r].order].price = order[req[r].order].price
         /\ \A x \in Orders \ {req[r].order} : order'[x] = order[x]
<1> DEFINE o == req[r].order
           row == [order[o] EXCEPT !.status = to, !.seen = seen]
<1>1. order[o] \in OrderRecord
  BY RowStands
<1>2. row.status = to /\ row.approval = order[o].approval /\ row.price = order[o].price
  BY <1>1 DEF OrderRecord
<1>3. order'[o] = row /\ \A x \in Orders \ {o} : order'[x] = order[x]
  BY DEF TypeOK
<1>4. QED BY <1>2, <1>3

(* Before the client is asked there is no approval to disturb. *)
LEMMA AskEarly ==
  ASSUME TypeOK, Checked, ChangesAlone, RecordInv, AskInv, NEW r \in Requests, NEW op \in {"submit", "return"},
         NEW to \in {"submitted", "draft"}, Status(r, op, to)
  PROVE  AskInv' /\ AgreedStays
<1> DEFINE o == req[r].order
           row == [order[o] EXCEPT !.status = to, !.seen = @ \/ to = "submitted"]
<1>1. o \in Orders /\ req[r].op = op /\ End(r)
  BY HandlerOf DEF Status, Writing, Operations
<1>2. CASE UNCHANGED <<order, approval>>
  BY <1>1, <1>2, NoWrite
<1>3. CASE order' = [order EXCEPT ![o] = row] /\ approval' = approval
  <2>1. order[o].status \in Early /\ order[o].approval = NoApproval
    BY <1>1 DEF AskInv, Knows
  <2>2. /\ order'[o].status = to /\ order'[o].approval = order[o].approval
        /\ order'[o].price = order[o].price /\ \A x \in Orders \ {o} : order'[x] = order[x]
    BY <1>1, <1>3, StatusRow
  <2>3. req'[r] = Idle /\ \A s \in Requests \ {r} : req'[s] = req[s]
    BY <1>1, WriterEnds
  <2>4. \A s \in Requests \ {r} : ~(Moving(req[s]) /\ req[s].order = o)
    BY <2>1 DEF AskInv, Knows, Early
  <2>5. OrderAsked(o, order', approval')
    BY <2>1, <2>2 DEF OrderAsked, Agreed
  <2>6. order[o].status \notin Agreed /\ to \in Early /\ to # "sent" /\ \A a \in Approvals : approval'[a] = approval[a]
    BY <1>3, <2>1 DEF Agreed, Early
  <2> HIDE DEF row
  <2>7. QED BY <1>1, <2>1, <2>2, <2>3, <2>4, <2>5, <2>6, StatusMoves
<1>4. QED BY <1>2, <1>3 DEF Status, Save

LEMMA AskSubmit ==
  ASSUME TypeOK, Checked, ChangesAlone, RecordInv, AskInv, NEW r \in Requests, Submit(r) \/ ReturnToDraft(r)
  PROVE  AskInv' /\ AgreedStays
BY AskEarly DEF Submit, ReturnToDraft

LEMMA AskImplement ==
  ASSUME TypeOK, Checked, ChangesAlone, RecordInv, AskInv, NEW r \in Requests, Implement(r)
  PROVE  AskInv' /\ AgreedStays
<1> DEFINE o == req[r].order
           row == [order[o] EXCEPT !.status = "implemented", !.seen = @ \/ "implemented" = "submitted"]
<1>1. o \in Orders /\ req[r].op = "implement" /\ End(r)
  BY HandlerOf DEF Implement, Status, Writing, Operations
<1>2. CASE UNCHANGED <<order, approval>>
  BY <1>1, <1>2, NoWrite
<1>3. CASE order' = [order EXCEPT ![o] = row] /\ approval' = approval
  <2>1. order[o].status \in Agreed /\ OrderAsked(o, order, approval) /\ order[o].approval \in Approvals \cup {NoApproval}
    BY <1>1, RowStands DEF AskInv, Knows
  <2>2. /\ order'[o].status = "implemented" /\ order'[o].approval = order[o].approval
        /\ order'[o].price = order[o].price /\ \A x \in Orders \ {o} : order'[x] = order[x]
    BY <1>1, <1>3, StatusRow
  <2>3. req'[r] = Idle /\ \A s \in Requests \ {r} : req'[s] = req[s]
    BY <1>1, WriterEnds
  <2>4. \A s \in Requests \ {r} : ~(Moving(req[s]) /\ req[s].order = o)
    BY <2>1 DEF AskInv, Knows, Agreed
  <2>5. OrderAsked(o, order', approval')
    BY <1>3, <2>1, <2>2 DEF OrderAsked, Agreed
  <2>6. ASSUME order[o].approval # NoApproval PROVE ApprovalAsked(order[o].approval, order', approval')
    <3>1. ApprovalAsked(order[o].approval, order, approval) /\ approval[order[o].approval].order = o
      BY <2>1, <2>6 DEF AskInv, OrderAsked
    <3>2. QED BY <1>3, <2>2, <3>1 DEF ApprovalAsked, Agreed
  <2>7. /\ order[o].status \notin Early /\ order'[o].status \in Agreed /\ order'[o].status # "sent"
        /\ \A a \in Approvals : approval'[a] = approval[a]
    BY <1>3, <2>1, <2>2 DEF Agreed, Early
  <2> HIDE DEF row
  <2>8. QED BY <1>1, <2>1, <2>2, <2>3, <2>4, <2>5, <2>6, <2>7, StatusMoves
<1>4. QED BY <1>2, <1>3 DEF Implement, Status, Save

(* A cancelled order was not agreed, and takes its open approval with it; an answer that holds the approval *)
(* keeps the cancellation waiting.                                                                         *)
LEMMA AskCancel ==
  ASSUME TypeOK, Checked, ChangesAlone, RecordInv, AskInv, NEW r \in Requests, Cancel(r)
  PROVE  AskInv' /\ AgreedStays
<1> DEFINE o == req[r].order
           a == req[r].row.approval
           row == [order[o] EXCEPT !.status = "cancelled"]
           approvals == IF req[r].pending THEN [approval EXCEPT ![a].withdrawn = TRUE] ELSE approval
<1>1. o \in Orders /\ req[r].op = "cancel" /\ End(r) /\ (req[r].pending => ApprovalFree(a))
  BY HandlerOf DEF Cancel, Writing, Operations
<1>2. CASE UNCHANGED <<order, approval>>
  BY <1>1, <1>2, NoWrite
<1>3. CASE Stands(row) /\ order' = [order EXCEPT ![o] = row] /\ approval' = approvals
  <2>1. order[o] \in OrderRecord /\ Stands(order[o]) /\ order[o].approval \in Approvals \cup {NoApproval}
    BY <1>1, RowStands
  <2>2. row.status = "cancelled" /\ row.applied = order[o].applied
    BY <2>1 DEF OrderRecord
  <2>3. order[o].status \notin Agreed
    BY <1>3, <2>1, <2>2 DEF Stands, Agreed
  <2>4. a = order[o].approval /\ (req[r].pending => a # NoApproval) /\ (order[o].status = "sent" => req[r].pending)
    BY <1>1 DEF AskInv, Knows, Operations
  <2>5. order' = [order EXCEPT ![o] = [order[o] EXCEPT !.status = "cancelled", !.seen = order[o].seen]]
    BY <1>3, <2>1 DEF OrderRecord
  <2>6. /\ order'[o].status = "cancelled" /\ order'[o].approval = order[o].approval
        /\ order'[o].price = order[o].price /\ \A x \in Orders \ {o} : order'[x] = order[x]
    BY <1>1, <2>5, StatusRow
  <2>7. req'[r] = Idle /\ \A s \in Requests \ {r} : req'[s] = req[s]
    BY <1>1, WriterEnds
  <2>8. \A s \in Requests \ {r} : ~(Moving(req[s]) /\ req[s].order = o)
    <3>1. SUFFICES ASSUME NEW s \in Requests \ {r}, Moving(req[s]), req[s].order = o PROVE FALSE
      OBVIOUS
    <3>2. order[o].status = "sent" /\ req[s].op = "decide" /\ req[s].stage # "asked" /\ req[s].approval = order[o].approval
      BY <1>1, <3>1, ChangeOrdersAssumption DEF AskInv, Knows, Moving
    <3>3. QED BY <1>1, <2>4, <3>2 DEF ApprovalFree
  <2>9. /\ \A b \in Approvals \ {a} : approvals[b] = approval[b]
        /\ \A b \in Approvals : /\ approvals[b].state = approval[b].state /\ approvals[b].order = approval[b].order
                                /\ (req[r].pending /\ b = a => approvals[b].withdrawn)
                                /\ (~req[r].pending => approvals[b] = approval[b])
    BY DEF TypeOK, ApprovalRecord
  <2>10. approval' = approvals
    BY <1>3
  <2> HIDE DEF row, approvals
  <2>11. ASSUME a # NoApproval
         PROVE  /\ a \in Approvals /\ approval[a].order = o /\ approval[a].state # "none"
                /\ approval[a].state # "approved" /\ ApprovalAsked(a, order, approval)
    <3>1. a \in Approvals /\ OrderAsked(o, order, approval) /\ OrderStands(o, order, approval)
      BY <1>1, <2>1, <2>4, <2>11 DEF AskInv, RecordInv, OrdersStand
    <3>2. approval[a].order = o /\ approval[a].state # "none" /\ ApprovalAsked(a, order, approval)
      BY <2>4, <2>11, <3>1 DEF OrderAsked, OrderStands, AskInv
    <3>3. QED BY <1>1, <2>3, <3>1, <3>2, ChangeOrdersAssumption DEF ApprovalAsked
  <2>12. OrderAsked(o, order', approval')
    BY <2>4, <2>6, <2>9, <2>10, <2>11 DEF OrderAsked, Agreed
  <2>13. ASSUME a # NoApproval PROVE ApprovalAsked(a, order', approval')
    BY <2>4, <2>6, <2>9, <2>10, <2>11, <2>13 DEF ApprovalAsked
  <2>14. "cancelled" \in Early /\ "cancelled" # "sent"
    BY DEF Early
  <2> HIDE DEF a
  <2>15. QED BY <1>1, <2>3, <2>4, <2>6, <2>7, <2>8, <2>9, <2>10, <2>12, <2>13, <2>14, StatusMoves
<1>4. CASE ~Stands(row)
  BY <1>1, <1>2, <1>4 DEF Cancel, Save
<1>5. QED BY <1>2, <1>3, <1>4 DEF Cancel, Save

LEMMA AskLoad ==
  ASSUME TypeOK, AskInv, NEW r \in Requests, NEW o \in Orders, NEW op \in Operations, Load(r, o, op)
  PROVE  AskInv' /\ AgreedStays
<1> DEFINE q == req'[r]
<1>1. /\ q.op = op /\ q.order = o /\ q.row = order[o]
      /\ q.pending <=> order[o].approval # NoApproval /\ Open(approval[order[o].approval])
      /\ \A s \in Requests \ {r} : req'[s] = req[s]
      /\ Allows(order[o], op) /\ UNCHANGED <<order, approval>>
  BY LoadIs DEF Open
<1>2. OrderAsked(o, order, approval) /\ order[o].status \in DOMAIN Transitions
  BY DEF AskInv, TypeOK, OrderRecord
<1>3. op \notin {"withdraw", "decide"}
  BY DEF Operations
<1>4. OneHolder'
  BY <1>1, <1>3, Holders DEF AskInv
<1> HIDE DEF q
<1>5. op \in {"submit", "return"} => order[o].status \in Early /\ order[o].approval = NoApproval
  BY <1>1, <1>2 DEF Allows, Transitions, Early, OrderAsked
<1>6. op = "implement" => order[o].status \in Agreed
  BY <1>1, <1>2 DEF Allows, Transitions, Agreed
<1>7. op = "cancel" /\ order[o].status = "sent" => q.pending
  BY <1>1, <1>2 DEF OrderAsked
<1>8. Knows(q, order, approval)
  BY <1>1, <1>3, <1>5, <1>6, <1>7 DEF Knows, Moving
<1>9. QED BY <1>1, <1>4, <1>8, OnlyLooks DEF q

(* An approval no change order waits for may be withdrawn; one found free stays free. *)
LEMMA AskWithdraw ==
  ASSUME TypeOK, Checked, AskInv, NEW r \in Requests,
         (\E a \in Approvals : WithdrawRead(r, a)) \/ WithdrawCheck(r) \/ WithdrawWrite(r)
  PROVE  AskInv' /\ AgreedStays
<1>0. \A s \in Requests \ {r} : req'[s] = req[s]
  BY WithdrawIs
<1>1. ASSUME NEW a \in Approvals, WithdrawRead(r, a) PROVE AskInv' /\ AgreedStays
  <2> DEFINE what == [op |-> "withdraw", order |-> NoOrder, approval |-> a, stage |-> "checking"]
  <2>1. req'[r] = what /\ UNCHANGED <<order, approval>> /\ approval[a].state # "none"
    BY <1>1 DEF WithdrawRead, Begin, TypeOK, Waiting
  <2>2. Knows(what, order, approval)
    BY <2>1 DEF Knows, Moving, Operations
  <2>3. OneHolder'
    BY <1>0, <2>1, Holders DEF AskInv
  <2> HIDE DEF what
  <2>4. QED BY <1>0, <2>1, <2>2, <2>3, OnlyLooks
<1>2. ASSUME WithdrawCheck(r) PROVE AskInv' /\ AgreedStays
  <2>1. CASE LinkedTo(req[r].approval) = NoOrder
    <3>1. req[r] \in WithdrawRecord /\ UNCHANGED <<order, approval>> /\ req'[r] = [req[r] EXCEPT !.stage = "writing"]
      BY <1>2, <2>1, RequestKinds DEF WithdrawCheck, Goes, TypeOK
    <3>2. req'[r].op = "withdraw" /\ req'[r].approval = req[r].approval /\ req[r].op = "withdraw"
      BY <3>1 DEF WithdrawRecord
    <3>3. \A o \in Orders : order[o].approval # req[r].approval
      BY <2>1, NoneLinked
    <3>4. Knows(req'[r], order, approval)
      BY <3>2, <3>3 DEF AskInv, Knows, Moving, Operations
    <3>5. OneHolder'
      BY <1>0, <3>2, Holders DEF AskInv
    <3>6. QED BY <1>0, <3>1, <3>4, <3>5, OnlyLooks
  <2>2. CASE LinkedTo(req[r].approval) # NoOrder
    BY <1>2, <2>2, NoWrite DEF WithdrawCheck
  <2>3. QED BY <2>1, <2>2
<1>3. ASSUME WithdrawWrite(r) PROVE AskInv' /\ AgreedStays
  <2> DEFINE a == req[r].approval
  <2>1. /\ req[r].op = "withdraw" /\ req[r].stage = "writing" /\ End(r) /\ UNCHANGED order
        /\ approval' = [approval EXCEPT ![a].withdrawn = TRUE]
    BY <1>3 DEF WithdrawWrite
  <2>2. a \in Approvals /\ approval[a].state # "none" /\ \A o \in Orders : order[o].approval # a
    BY <2>1, RequestsName DEF AskInv, Knows
  <2>3. /\ \A b \in Approvals \ {a} : approval'[b] = approval[b]
        /\ approval'[a].order = approval[a].order /\ approval'[a].state = approval[a].state
        /\ approval'[a].withdrawn
    BY <2>1, <2>2 DEF TypeOK, ApprovalRecord
  <2>4. approval[a].order \in Orders \cup {NoOrder} /\ ApprovalAsked(a, order, approval)
    BY <2>2 DEF TypeOK, ApprovalRecord, AskInv
  <2>5. ApprovalAsked(a, order, approval')
    BY <2>2, <2>3, <2>4 DEF ApprovalAsked, Open
  <2>6. OneHolder' /\ \A s \in Requests : req'[s] = Idle \/ req'[s] = req[s]
    BY <2>1, WriterEnds
  <2> HIDE DEF a
  <2>7. QED BY <2>1, <2>2, <2>3, <2>5, <2>6, FreeApproval
<1>4. QED BY <1>1, <1>2, <1>3

LEMMA AskDecision ==
  ASSUME TypeOK, AskInv, NEW r \in Requests, NEW answer \in {"approved", "rejected"},
         (\E a \in Approvals : DecideRead(r, a, answer)) \/ (\E o \in Orders : ClientDecision(r, o, answer))
  PROVE  AskInv' /\ AgreedStays
<1>1. PICK a \in Approvals, o \in Orders \cup {NoOrder} :
        /\ req'[r] = Decision(a, o, answer) /\ \A s \in Requests \ {r} : req'[s] = req[s]
        /\ Waiting(a) /\ (o = LinkedTo(a) \/ (o \in Orders /\ order[o].status = "sent" /\ order[o].approval = a))
        /\ UNCHANGED <<order, approval, figures>>
  BY DecisionIs
<1>2. o # NoOrder => o \in Orders /\ order[o].approval = a
  BY <1>1, LinkedToIs
<1>3. approval[a].order = o
  <2>1. CASE o # NoOrder
    BY <1>2, <2>1, ChangeOrdersAssumption DEF AskInv, OrderAsked
  <2>2. CASE o = NoOrder
    <3>1. \A x \in Orders : order[x].approval # a
      BY <1>1, <2>2, NoneLinked, ChangeOrdersAssumption
    <3>2. ApprovalAsked(a, order, approval) /\ Open(approval[a]) /\ approval[a].order \in Orders \cup {NoOrder}
      BY <1>1 DEF AskInv, Waiting, Open, TypeOK, ApprovalRecord
    <3>3. QED BY <2>2, <3>1, <3>2 DEF ApprovalAsked
  <2>3. QED BY <2>1, <2>2
<1>4. req'[r].op = "decide" /\ req'[r].stage = "asked" /\ req'[r].approval = a /\ req'[r].order = o
  BY <1>1 DEF Decision
<1>5. Knows(req'[r], order, approval)
  BY <1>2, <1>3, <1>4 DEF Knows, Moving, Operations
<1>6. OneHolder'
  BY <1>1, <1>4, Holders DEF AskInv
<1>7. QED BY <1>1, <1>5, <1>6, OnlyLooks

(* A request that goes on deciding knows what it knew. *)
LEMMA StillKnows ==
  ASSUME NEW p, NEW q, NEW orders, NEW approvals, Knows(p, orders, approvals), p.op = "decide", q.op = "decide",
         q.order = p.order, q.approval = p.approval, q.answer = p.answer, Moving(q) => Moving(p)
  PROVE  Knows(q, orders, approvals)
BY DEF Knows, Operations

(* Whoever writes an answer finds no other request holding the approval. *)
LEMMA AskAnswer ==
  ASSUME TypeOK, AskInv, NEW r \in Requests, Answer(r)
  PROVE  AskInv' /\ AgreedStays
<1>1. /\ req[r].op = "decide" /\ ApprovalFree(req[r].approval)
      /\ req'[r].op = "decide" /\ req'[r].stage = "answered" /\ req'[r].order = req[r].order
      /\ req'[r].approval = req[r].approval /\ req'[r].answer = req[r].answer
      /\ \A s \in Requests \ {r} : req'[s] = req[s] /\ UNCHANGED <<order, approval>>
  BY AnswerIs DEF At
<1>2. Knows(req'[r], order, approval)
  BY <1>1, StillKnows DEF AskInv, Moving
<1>3. \A s \in Requests \ {r} : req[s].op = "decide" /\ req[s].approval = req[r].approval => req[s].stage = "asked"
  BY <1>1 DEF ApprovalFree
<1>4. OneHolder'
  BY <1>1, <1>3 DEF OneHolder, AskInv
<1>5. UNCHANGED <<order, approval>>
  BY AnswerIs
<1>6. QED BY <1>1, <1>2, <1>4, <1>5, OnlyLooks

LEMMA AskLocks ==
  ASSUME TypeOK, AskInv, NEW r \in Requests, LockCode(r) \/ LockSite(r)
  PROVE  AskInv' /\ AgreedStays
<1>1. /\ req[r].op = "decide" /\ req[r].stage = "moving"
      /\ req'[r].op = "decide" /\ req'[r].stage \in {"moving", "settling"} /\ req'[r].order = req[r].order
      /\ req'[r].approval = req[r].approval /\ req'[r].answer = req[r].answer
      /\ \A s \in Requests \ {r} : req'[s] = req[s]
      /\ UNCHANGED <<order, approval>>
  <2>1. CASE LockCode(r)
    BY <2>1, CodeLocked DEF At
  <2>2. CASE LockSite(r)
    BY <2>2, LockSiteIs DEF At
  <2>3. QED BY <2>1, <2>2
<1>2. Knows(req'[r], order, approval)
  BY <1>1, StillKnows DEF AskInv, Moving
<1>3. OneHolder'
  BY <1>1, Holders DEF AskInv
<1>4. QED BY <1>1, <1>2, <1>3, OnlyLooks

(* An approval that is not a change order's. *)
LEMMA AskOther ==
  ASSUME TypeOK, Checked, RecordInv, AskInv, NEW a \in Approvals, AskClient(a)
  PROVE  AskInv' /\ AgreedStays
<1>1. /\ approval[a].state = "none" /\ UNCHANGED <<order, req>>
      /\ approval' = [approval EXCEPT ![a].state = "pending"]
  BY DEF AskClient
<1>2. approval[a].order = NoOrder /\ \A o \in Orders : order[o].approval # a
  <2>1. approval[a] = NotAsked
    BY <1>1 DEF AskInv, ApprovalAsked
  <2>2. a # NoApproval
    BY ChangeOrdersAssumption
  <2>3. QED BY <1>1, <2>1, <2>2 DEF RecordInv, OrdersStand, OrderStands, NotAsked
<1>3. /\ \A b \in Approvals \ {a} : approval'[b] = approval[b]
      /\ approval'[a].order = approval[a].order /\ approval'[a].state = "pending"
  BY <1>1 DEF TypeOK, ApprovalRecord
<1>4. ApprovalAsked(a, order, approval')
  BY <1>2, <1>3 DEF ApprovalAsked
<1>5. OneHolder' /\ \A s \in Requests : req'[s] = Idle \/ req'[s] = req[s]
  BY <1>1 DEF AskInv, OneHolder
<1>6. QED BY <1>1, <1>2, <1>3, <1>4, <1>5, FreeApproval

(* The answer of the one request that holds the approval lands on the order and on the approval at once. *)
LEMMA AnswerLands ==
  ASSUME TypeOK, Checked, ChangesAlone, RecordInv, AskInv, NEW r \in Requests, req[r].op = "decide",
         req[r].stage # "asked", req[r].order \in Orders, order[req[r].order].status = "sent",
         req'[r] = Idle, \A s \in Requests \ {r} : req'[s] = req[s], approval' = Answered(r),
         order'[req[r].order].status = req[r].answer, order'[req[r].order].price = order[req[r].order].price,
         order'[req[r].order].approval = order[req[r].order].approval,
         \A x \in Orders \ {req[r].order} : order'[x] = order[x]
  PROVE  AskInv' /\ AgreedStays
<1> DEFINE o == req[r].order
           a == req[r].approval
<1>1. OrderAsked(o, order, approval) /\ Knows(req[r], order, approval)
  BY DEF AskInv
<1>2. order[o].approval = a /\ a \in Approvals /\ a # NoApproval
  BY <1>1, RequestsName, ChangeOrdersAssumption DEF Knows
<1>3. approval[a].order = o /\ Open(approval[a]) /\ approval[a].shown = order[o].price
  BY <1>1, <1>2 DEF OrderAsked
<1>4. /\ \A b \in Approvals : approval[b].state # "none" => approval'[b].state # "none"
      /\ approval'[a].state = req[r].answer /\ approval'[a].order = o
      /\ approval'[a].shown = order'[o].price /\ ~approval'[a].withdrawn
      /\ \A b \in Approvals : approval'[b].order = approval[b].order
      /\ \A b \in Approvals \ {a} : approval'[b] = approval[b]
  BY <1>2, <1>3, AnsweredStates DEF Open
<1>5. req[r].answer \in {"approved", "rejected"}
  BY Deciders DEF DecideRecord
<1>6. \A s \in Requests \ {r} : ~(Moving(req[s]) /\ req[s].order = o)
  <2>1. SUFFICES ASSUME NEW s \in Requests \ {r}, Moving(req[s]), req[s].order = o PROVE FALSE
    OBVIOUS
  <2>2. req[s].op = "decide" /\ req[s].stage # "asked" /\ req[s].approval = a
    BY <1>2, <2>1, ChangeOrdersAssumption DEF AskInv, Knows, Moving
  <2>3. QED BY <2>2 DEF AskInv, OneHolder
<1>7. OrderAsked(o, order', approval')
  BY <1>2, <1>4, <1>5 DEF OrderAsked, Agreed
<1>8. ApprovalAsked(a, order', approval')
  BY <1>2, <1>4, <1>5 DEF ApprovalAsked, Open, Agreed
<1>9. order[o].status \notin Early /\ order[o].status \notin Agreed /\ order'[o].status # "sent"
  BY <1>5 DEF Early, Agreed
<1> HIDE DEF a
<1>10. QED BY <1>2, <1>4, <1>6, <1>7, <1>8, <1>9, StatusMoves

(* Of a request that looks, the order behind the approval is the order it was asked about. *)
LEMMA LinkKnown ==
  ASSUME TypeOK, Checked, RecordInv, AskInv, NEW r \in Requests, req[r].op = "decide"
  PROVE  /\ LinkedTo(req[r].approval) = req[r].order
         /\ req[r].order # NoOrder => order[req[r].order].approval = req[r].approval
         /\ approval[req[r].approval].order = req[r].order
<1> DEFINE a == req[r].approval
           o == req[r].order
<1>1. a \in Approvals /\ a # NoApproval /\ o \in Orders \cup {NoOrder} /\ Knows(req[r], order, approval)
  BY RequestsName, ChangeOrdersAssumption DEF AskInv
<1>2. approval[a].order = o /\ (o # NoOrder => order[o].approval = a)
  BY <1>1 DEF Knows
<1>3. CASE o # NoOrder
  BY <1>1, <1>2, <1>3, LinkedToFinds
<1>4. CASE o = NoOrder
  <2>1. LinkedTo(a) # NoOrder => approval[a].order = LinkedTo(a) /\ LinkedTo(a) \in Orders
    BY <1>1, LinkedToIs DEF AskInv, OrderAsked
  <2>2. QED BY <1>2, <1>4, <2>1, ChangeOrdersAssumption
<1>5. QED BY <1>2, <1>3, <1>4

LEMMA AskLook ==
  ASSUME TypeOK, Checked, ChangesAlone, RecordInv, AskInv, NEW r \in Requests, Look(r)
  PROVE  AskInv' /\ AgreedStays
<1> DEFINE o == LinkedTo(req[r].approval)
           row == [order[o] EXCEPT !.status = "rejected"]
<1>1. /\ req[r].op = "decide" /\ req[r].stage = "answered" /\ req[r].approval \in Approvals
      /\ \A s \in Requests \ {r} : req'[s] = req[s]
  BY LookIs, RequestsName DEF At
<1>2. /\ o = req[r].order /\ (o # NoOrder => order[o].approval = req[r].approval)
      /\ approval[req[r].approval].order = req[r].order
  BY <1>1, LinkKnown
<1>3. CASE req'[r] = Idle /\ UNCHANGED <<order, approval>>
  BY <1>3, LookEnds, NoWrite
<1>4. CASE req'[r] = Idle /\ o = NoOrder /\ approval' = Answered(r) /\ UNCHANGED order
  <2>1. \A x \in Orders : order[x].approval # req[r].approval
    BY <1>4, NoneLinked
  <2>2. /\ \A b \in Approvals \ {req[r].approval} : approval'[b] = approval[b]
        /\ approval'[req[r].approval].order = NoOrder /\ approval[req[r].approval].order = NoOrder
        /\ approval'[req[r].approval].state = req[r].answer /\ req[r].answer \in {"approved", "rejected"}
    BY <1>1, <1>2, <1>4, AnsweredStates, Deciders DEF DecideRecord
  <2>3. ApprovalAsked(req[r].approval, order, approval')
    BY <2>2 DEF ApprovalAsked
  <2>4. OneHolder'
    BY <1>4, LookEnds, WriterEnds
  <2>5. \A s \in Requests : req'[s] = Idle \/ req'[s] = req[s]
    BY <1>1, <1>4
  <2>6. QED BY <1>1, <1>4, <2>1, <2>2, <2>3, <2>4, <2>5, FreeApproval
<1>5. CASE /\ req'[r] = Idle /\ o \in Orders /\ order[o].status = "sent" /\ req[r].answer = "rejected"
           /\ Save(o, row, Answered(r))
  <2>1. CASE UNCHANGED <<order, approval>>
    BY <1>3, <1>5, <2>1
  <2>2. CASE order' = [order EXCEPT ![o] = row] /\ approval' = Answered(r)
    <3>1. order[o] \in OrderRecord
      BY <1>5 DEF TypeOK
    <3>2. row.status = "rejected" /\ row.price = order[o].price /\ row.approval = order[o].approval
      BY <3>1 DEF OrderRecord
    <3>3. order'[o] = row /\ \A x \in Orders \ {o} : order'[x] = order[x]
      BY <1>5, <2>2 DEF TypeOK
    <3> HIDE DEF row, o
    <3>4. QED BY <1>1, <1>2, <1>5, <2>2, <3>2, <3>3, AnswerLands
  <2>3. QED BY <1>5, <2>1, <2>2 DEF Save
<1>6. CASE /\ o \in Orders /\ order[o].status = "sent" /\ req[r].answer = "approved"
           /\ req'[r].op = "decide" /\ req'[r].stage = "moving" /\ req'[r].order = o
           /\ req'[r].approval = req[r].approval /\ req'[r].answer = "approved" /\ UNCHANGED <<order, approval>>
  <2> HIDE DEF o
  <2>1. Knows(req'[r], order, approval)
    BY <1>2, <1>6 DEF Knows, Operations
  <2>2. OneHolder'
    BY <1>1, <1>6, Holders DEF AskInv
  <2>3. QED BY <1>1, <1>6, <2>1, <2>2, OnlyLooks
<1>7. QED BY <1>3, <1>4, <1>5, <1>6, LookIs

LEMMA AskSettle ==
  ASSUME TypeOK, Checked, LocksHold, ChangesAlone, RecordInv, AskInv, NEW r \in Requests, Settle(r)
  PROVE  AskInv' /\ AgreedStays
<1> DEFINE o == req[r].order
<1>1. /\ req[r].op = "decide" /\ req[r].stage = "settling" /\ End(r) /\ o \in Orders
      /\ Knows(req[r], order, approval)
  BY SettleIs DEF At, Checked, Sound, AskInv
<1>2. order[o].status = "sent" /\ req[r].answer = "approved"
  BY <1>1 DEF Knows, Moving
<1>3. CASE UNCHANGED <<order, approval, figures>>
  BY <1>1, <1>3, NoWrite
<1>4. CASE Settles(r)
  <2>1. /\ order'[o].status = "approved" /\ order'[o].price = order[o].price /\ order'[o].approval = order[o].approval
        /\ \A x \in Orders \ {o} : order'[x] = order[x]
    BY <1>1, <1>4 DEF Settles, TypeOK, OrderRecord
  <2>2. req'[r] = Idle /\ (\A s \in Requests \ {r} : req'[s] = req[s]) /\ approval' = Answered(r)
    BY <1>1, <1>4, Ends DEF Settles
  <2>3. QED BY <1>1, <1>2, <2>1, <2>2, AnswerLands
<1>5. QED BY <1>3, <1>4, SettleIs

LEMMA NextKeepsAsk ==
  ASSUME TypeOK, Checked, LocksHold, ChangesAlone, RecordInv, AskInv, [Next]_vars
  PROVE  AskInv' /\ AgreedStays
<1>1. ASSUME UNCHANGED <<order, approval, req>> PROVE AskInv' /\ AgreedStays
  BY <1>1 DEF AskInv, AgreedStays, OneHolder
<1>2. ASSUME NEW o \in Orders, NEW offer \in Offers, Create(o, offer) PROVE AskInv' /\ AgreedStays
  BY <1>2, AskCreate
<1>3. ASSUME NEW a \in Approvals, AskClient(a) PROVE AskInv' /\ AgreedStays
  BY <1>3, AskOther
<1>4. CASE \/ \E c \in Codes, value \in Budgets : EditBudget(c, value)
           \/ \E value \in Budgets : SetSiteBudget(value)
           \/ \E value \in Contracts : SetContractValue(value)
  BY <1>1, <1>4 DEF EditBudget, SetContractValue, SetSiteBudget
<1>5. ASSUME NEW r \in Requests, NEW o \in Orders, NEW op \in Operations, Load(r, o, op) PROVE AskInv' /\ AgreedStays
  BY <1>5, AskLoad
<1>6. ASSUME NEW r \in Requests, NEW offer \in Offers, Update(r, offer) PROVE AskInv' /\ AgreedStays
  BY <1>6, AskUpdate
<1>7. ASSUME NEW r \in Requests, Remove(r) \/ Submit(r) \/ ReturnToDraft(r) \/ Revise(r) \/ Implement(r) \/ Cancel(r)
      PROVE  AskInv' /\ AgreedStays
  BY <1>7, AskRemove, AskSubmit, AskRevise, AskImplement, AskCancel
<1>8. ASSUME NEW r \in Requests, NEW a \in Approvals, Approve(r, a) PROVE AskInv' /\ AgreedStays
  BY <1>8, AskApprove
<1>9. ASSUME NEW r \in Requests,
             (\E a \in Approvals : WithdrawRead(r, a)) \/ WithdrawCheck(r) \/ WithdrawWrite(r)
      PROVE  AskInv' /\ AgreedStays
  BY <1>9, AskWithdraw
<1>10. ASSUME NEW r \in Requests, NEW answer \in {"approved", "rejected"},
              (\E a \in Approvals : DecideRead(r, a, answer)) \/ (\E o \in Orders : ClientDecision(r, o, answer))
       PROVE  AskInv' /\ AgreedStays
  BY <1>10, AskDecision
<1>11. ASSUME NEW r \in Requests, Answer(r) \/ Look(r) \/ LockCode(r) \/ LockSite(r) \/ Settle(r)
       PROVE  AskInv' /\ AgreedStays
  BY <1>11, AskAnswer, AskLook, AskLocks, AskSettle
<1>12. CASE UNCHANGED vars
  BY <1>1, <1>12 DEF vars
<1>13. QED BY <1>2, <1>3, <1>4, <1>5, <1>6, <1>7, <1>8, <1>9, <1>10, <1>11, <1>12 DEF Next

LEMMA AskStarts == Init => AskInv
<1>1. SUFFICES ASSUME Init PROVE AskInv
  OBVIOUS
<1>2. ASSUME NEW o \in Orders PROVE OrderAsked(o, order, approval)
  BY <1>1 DEF Init, OrderAsked, NotRaised, Agreed
<1>3. ASSUME NEW a \in Approvals PROVE ApprovalAsked(a, order, approval)
  BY <1>1 DEF Init, ApprovalAsked, NotAsked
<1>4. \A r \in Requests : req[r] = Idle
  BY <1>1 DEF Init
<1>5. OneHolder
  BY <1>4 DEF OneHolder, Idle
<1>6. QED BY <1>2, <1>3, <1>4, <1>5, IdleKnows DEF AskInv

LEMMA EditsAreAlone == ChangesAlone => EditsAlone
BY DEF ChangesAlone, EditsAlone

LEMMA AskKept ==
  ASSUME ChangesAlone
  PROVE  Spec => []((TypeOK /\ Checked /\ LocksHold /\ RecordInv) /\ AskInv)
<1>1. Spec => [](TypeOK /\ Checked /\ LocksHold /\ RecordInv)
  BY RecordKept, EditsAreAlone
<1>2. (TypeOK /\ Checked /\ LocksHold /\ RecordInv) /\ AskInv /\ [Next]_vars => AskInv'
  BY NextKeepsAsk
<1>3. QED BY AskStarts, <1>1, <1>2, PTL DEF Spec

(* As long as an order that is being edited, deleted, signed off or revised is worked on by nobody else, an *)
(* order waits on the client exactly as long as its approval does, and a yes has moved the site by the price *)
(* the client was shown.                                                                                   *)
THEOREM AnswersTakeEffect == ASSUME ChangesAlone PROVE Spec => []AnswerTakesEffect
<1>1. TypeOK /\ RecordInv /\ AskInv => AnswerTakesEffect
  <2>1. SUFFICES ASSUME TypeOK, RecordInv, AskInv PROVE AnswerTakesEffect
    OBVIOUS
  <2>2. ASSUME NEW o \in Orders, order[o].status = "sent"
        PROVE  order[o].approval # NoApproval /\ Waiting(order[o].approval)
    BY <2>1, <2>2 DEF AskInv, OrderAsked, Open, Waiting
  <2>3. ASSUME NEW o \in Orders, order[o].status \in Agreed
        PROVE  /\ order[o].approval # NoApproval /\ approval[order[o].approval].state = "approved"
               /\ \E k \in DOMAIN site : site[k].order = o /\ site[k].price = approval[order[o].approval].shown
    <3>1. OrderAsked(o, order, approval) /\ order[o].applied
      BY <2>1, <2>3 DEF AskInv, RecordInv, OrdersStand, OrderStands, Stands
    <3>2. PICK k \in DOMAIN site : site[k].order = o
      BY <2>1, <3>1 DEF RecordInv, SiteTells
    <3>3. site[k].price = order[o].price
      BY <2>1, <3>2 DEF RecordInv, SiteTells
    <3>4. QED BY <2>3, <3>1, <3>2, <3>3 DEF OrderAsked
  <2>4. ASSUME NEW a \in Approvals, approval[a].state = "approved", approval[a].order # NoOrder
        PROVE  order[approval[a].order].approval = a /\ order[approval[a].order].status \in Agreed
    BY <2>1, <2>4 DEF AskInv, ApprovalAsked
  <2>5. QED BY <2>2, <2>3, <2>4 DEF AnswerTakesEffect
<1>2. QED BY AskKept, <1>1, PTL

(* Under the same condition no step takes an agreed order back, moves its price, or withdraws the yes. *)
THEOREM AgreementIsKept == ASSUME ChangesAlone PROVE Spec => AgreedIsKept
<1> DEFINE Kept == \A o \in Orders : order[o].status \in Agreed =>
                     /\ order'[o].status \in Agreed /\ order'[o].price = order[o].price
                     /\ order'[o].approval = order[o].approval /\ ~approval'[order[o].approval].withdrawn
           Inv == (TypeOK /\ Checked /\ LocksHold /\ RecordInv) /\ AskInv
<1>1. Inv /\ [Next]_vars => [Kept]_vars
  <2>1. SUFFICES ASSUME Inv, [Next]_vars PROVE Kept
    OBVIOUS
  <2>2. AskInv' /\ AgreedStays
    BY <2>1, NextKeepsAsk
  <2>3. \A o \in Orders : OrderAsked(o, order', approval')
    BY <2>2 DEF AskInv
  <2>4. QED BY <2>2, <2>3 DEF AgreedStays, OrderAsked
<1>2. [][Kept]_vars => AgreedIsKept
  BY PTL DEF AgreedIsKept
<1> HIDE DEF Inv, Kept
<1>3. Spec => []Inv
  BY AskKept DEF Inv
<1>4. QED BY <1>1, <1>2, <1>3, PTL DEF Spec
=============================================================================
