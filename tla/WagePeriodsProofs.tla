------------------------- MODULE WagePeriodsProofs -------------------------
(* Proofs about WagePeriods, for every group of workers, every set of windows *)
(* and every set of requests.                                                 *)
EXTENDS WagePeriods, FiniteSetTheorems, TLAPS

-----------------------------------------------------------------------------
(* Gross pay is a number of days. *)
LEMMA GrossType ==
  ASSUME NEW w \in Workers, NEW win \in SUBSET Days PROVE Gross(w, win) \in Nat
<1>1. IsFiniteSet(win)
  BY WindowAssumption, FS_Subset
<1>2. IsFiniteSet({d \in win : att[w][d] = "present"})
  BY <1>1, FS_Subset
<1>3. IsFiniteSet(win \ {d \in win : att[w][d] = "absent"})
  BY <1>1, FS_Subset
<1> QED BY <1>2, <1>3, FS_CardinalityType DEF Gross

(* A worker has a number of open advances. *)
LEMMA OpenAdvancesType ==
  ASSUME NEW w \in Workers PROVE Cardinality(OpenAdvances(w)) \in Nat
<1>1. IsFiniteSet(OpenAdvances(w))
  BY PoolAssumption, FS_Subset DEF OpenAdvances
<1> QED BY <1>1, FS_CardinalityType

(* netPayable deducts at most the gross. *)
LEMMA DeductedBound ==
  ASSUME NEW g \in Nat, NEW n \in Nat PROVE Deducted(g, n) \in Nat /\ Deducted(g, n) <= g
BY DEF Deducted

(* What `generate' computes is a well-formed sheet on which nothing is paid. *)
LEMMA DraftType ==
  ASSUME NEW win \in SUBSET Days
  PROVE  Draft(win) \in [Workers -> Line]
<1> SUFFICES ASSUME NEW w \in Workers PROVE Draft(win)[w] \in Line
  BY DEF Draft
<1>1. Gross(w, win) \in Nat
  BY GrossType
<1>2. Deducted(Gross(w, win), Cardinality(OpenAdvances(w))) \in Nat
      /\ Deducted(Gross(w, win), Cardinality(OpenAdvances(w))) <= Gross(w, win)
  BY <1>1, OpenAdvancesType, DeductedBound
<1> QED BY <1>1, <1>2 DEF Draft, Line, NoLine

(* Upserting keeps lines well formed, with the payments they had. *)
LEMMA UpsertedType ==
  ASSUME NEW p \in Periods, NEW plan \in [Workers -> Line], line \in [Periods -> [Workers -> Line]]
  PROVE  Upserted(p, plan) \in [Workers -> Line]
<1> SUFFICES ASSUME NEW w \in Workers PROVE Upserted(p, plan)[w] \in Line
  BY DEF Upserted
<1> QED BY DEF Upserted, Line, NoLine

-----------------------------------------------------------------------------
(* Updating one field of a row gives a row. *)

LEMMA SheetStatus ==
  ASSUME NEW s \in Sheet, NEW st \in Frozen \cup {"open"}
  PROVE  [s EXCEPT !.status = st] \in Sheet
BY DEF Sheet

LEMMA AdvancePeriod ==
  ASSUME NEW a \in Advance, NEW p \in Periods \cup {NoPeriod}
  PROVE  [a EXCEPT !.period = p] \in Advance
BY DEF Advance

LEMMA LinePaid ==
  ASSUME NEW l \in Line, NEW n \in Nat
  PROVE  [l EXCEPT !.paid = n] \in Line
BY DEF Line

-----------------------------------------------------------------------------
(* Each action keeps the types. *)

LEMMA InitType == Init => TypeOK
BY GroupAssumption DEF Init, TypeOK, Marks, Advance, Sheet, NoSheet, Line, NoLine, Pending, Idle

LEMMA AttendanceType == TypeOK /\ Attendance => TypeOK'
<1> SUFFICES ASSUME TypeOK, NEW r \in Requests,
                    RecordWrite(r) \/ \E w \in Workers, d \in Days, m \in Marks \ {"none"} : RecordCheck(r, w, d, m)
             PROVE  TypeOK'
  BY DEF Attendance
<1>1. CASE RecordWrite(r)
  <2>1. req[r] \in [op : {"record"}, w : Workers, d : Days, m : Marks]
    BY <1>1 DEF RecordWrite, TypeOK, Pending
  <2> QED BY <1>1, <2>1 DEF RecordWrite, TypeOK, Finish, Idle, Pending
<1>2. ASSUME NEW w \in Workers, NEW d \in Days, NEW m \in Marks \ {"none"}, RecordCheck(r, w, d, m)
      PROVE  TypeOK'
  BY <1>2 DEF RecordCheck, TypeOK, Begin, Pending
<1> QED BY <1>1, <1>2

LEMMA PaymentsType == TypeOK /\ Payments => TypeOK'
<1> SUFFICES ASSUME TypeOK, Payments PROVE TypeOK'
  OBVIOUS
<1>1. ASSUME NEW a \in Advances, NEW w \in Workers, NEW p \in GivenPeriods, GiveAdvance(a, w, p)
      PROVE  TypeOK'
  BY <1>1, GivenAssumption DEF GiveAdvance, TypeOK, Advance
<1>2. ASSUME NEW p \in GivenPeriods \ {NoPeriod}, NEW w \in Workers, RecordLooseWage(p, w)
      PROVE  TypeOK'
  BY <1>2, GivenAssumption DEF RecordLooseWage, TypeOK
<1>3. ASSUME NEW p \in Periods \cup {NoPeriod}, NEW w \in Workers, ArchiveWage(p, w)
      PROVE  TypeOK'
  <2>1. PICK n \in 1 .. cash[p][w] : cash' = [cash EXCEPT ![p][w] = @ - n]
    BY <1>3 DEF ArchiveWage
  <2>2. cash[p][w] \in Nat /\ cash[p][w] - n \in Nat
    BY DEF TypeOK
  <2> QED BY <1>3, <2>1, <2>2 DEF ArchiveWage, TypeOK
<1>4. ASSUME NEW r \in Requests, ArchiveWrite(r) PROVE TypeOK'
  <2>1. req[r] \in [op : {"archive"}, a : Advances]
    BY <1>4 DEF ArchiveWrite, TypeOK, Pending
  <2>2. adv' \in [Advances -> Advance]
    BY <1>4, <2>1, ZenonT(60) DEF ArchiveWrite, TypeOK, Advance
  <2> QED BY <1>4, <2>1, <2>2 DEF ArchiveWrite, TypeOK, Finish, Idle, Pending
<1>5. ASSUME NEW r \in Requests, NEW a \in Advances, ArchiveCheck(r, a) PROVE TypeOK'
  BY <1>5 DEF ArchiveCheck, TypeOK, Begin, Pending
<1> QED BY <1>1, <1>2, <1>3, <1>4, <1>5 DEF Payments

LEMMA GenerateReadType ==
  ASSUME TypeOK, NEW r \in Requests, NEW win \in Windows, GenerateRead(r, win) PROVE TypeOK'
<1>1. win \in SUBSET Days
  BY WindowAssumption
<1>2. Draft(win) \in [Workers -> Line]
  BY <1>1, DraftType
<1>3. PICK p \in Periods \cup {NoPeriod} :
        req' = [req EXCEPT ![r] = [op |-> "generate", p |-> p, win |-> win, plan |-> Draft(win)]]
  BY DEF GenerateRead, Begin
<1>4. [op |-> "generate", p |-> p, win |-> win, plan |-> Draft(win)] \in Pending
  BY <1>1, <1>2 DEF Pending
<1> QED BY <1>3, <1>4 DEF GenerateRead, TypeOK

LEMMA GenerateWriteType ==
  ASSUME TypeOK, NEW r \in Requests, GenerateWrite(r) PROVE TypeOK'
<1>1. req[r] \in [op : {"generate"}, p : Periods \cup {NoPeriod}, win : SUBSET Days, plan : [Workers -> Line]]
  BY DEF GenerateWrite, TypeOK, Pending
<1>2. \A p \in Periods : Upserted(p, req[r].plan) \in [Workers -> Line]
  BY <1>1, UpsertedType DEF TypeOK
<1>3. [status |-> "open", window |-> req[r].win, moved |-> FALSE] \in Sheet
  BY <1>1 DEF Sheet
<1>4. /\ period' \in [Periods -> Sheet]
      /\ line' \in [Periods -> [Workers -> Line]]
  <2>1. CASE req[r].p = NoPeriod
    <3>1. PICK p \in Periods :
            /\ period' = [period EXCEPT ![p] = [status |-> "open", window |-> req[r].win, moved |-> FALSE]]
            /\ line' = [line EXCEPT ![p] = Upserted(p, req[r].plan)]
      BY <2>1 DEF GenerateWrite
    <3> QED BY <3>1, <1>2, <1>3 DEF TypeOK
  <2>2. CASE req[r].p # NoPeriod
    <3>1. req[r].p \in Periods
      BY <1>1, <2>2
    <3>2. /\ period' = period
          /\ line' = line \/ line' = [line EXCEPT ![req[r].p] = Upserted(req[r].p, req[r].plan)]
      BY <2>2 DEF GenerateWrite
    <3> QED BY <3>1, <3>2, <1>2 DEF TypeOK
  <2> QED BY <2>1, <2>2
<1> QED BY <1>4 DEF GenerateWrite, TypeOK, Finish, Idle, Pending

LEMMA FinaliseType ==
  ASSUME TypeOK, NEW r \in Requests, FinaliseWrite(r) \/ \E p \in Periods : FinaliseRead(r, p)
  PROVE  TypeOK'
<1>1. CASE FinaliseWrite(r)
  <2>1. req[r] \in [op : {"finalise"}, p : Periods, claim : SUBSET Workers]
    BY <1>1 DEF FinaliseWrite, TypeOK, Pending
  <2>2. adv' \in [Advances -> Advance]
    <3>1. Stamped(req[r].p, req[r].claim) \in [Advances -> Advance]
      BY <2>1, AdvancePeriod DEF TypeOK, Stamped
    <3> QED BY <1>1, <3>1 DEF FinaliseWrite, TypeOK
  <2>3. period' \in [Periods -> Sheet]
    <3>1. [period[req[r].p] EXCEPT !.status = "finalised"] \in Sheet
      BY <2>1, SheetStatus DEF TypeOK, Frozen
    <3> QED BY <1>1, <2>1, <3>1 DEF FinaliseWrite, TypeOK
  <2> QED BY <1>1, <2>2, <2>3 DEF FinaliseWrite, TypeOK, Finish, Idle, Pending
<1>2. ASSUME NEW p \in Periods, FinaliseRead(r, p) PROVE TypeOK'
  BY <1>2 DEF FinaliseRead, TypeOK, Begin, Pending
<1> QED BY <1>1, <1>2

(* What `pay' means to pay, without the bound the model enumerates it under. *)
LEMMA PayReadAmounts ==
  ASSUME NEW r \in Requests, NEW p \in Periods, PayRead(r, p)
  PROVE  \E amt \in [Workers -> Nat] :
           /\ req' = [req EXCEPT ![r] = [op |-> "pay", p |-> p, amt |-> amt]]
           /\ \E w \in Workers : amt[w] > 0
           /\ \A w \in Workers : amt[w] <= Payable(p, w)
<1> DEFINE top == MaxRepeat * Cardinality(Days)
<1>1. PICK amt \in [Workers -> 0 .. top] :
        /\ req' = [req EXCEPT ![r] = [op |-> "pay", p |-> p, amt |-> amt]]
        /\ \E w \in Workers : amt[w] > 0
        /\ \A w \in Workers : amt[w] <= Payable(p, w)
  BY DEF PayRead, Begin
<1> HIDE DEF top
<1>2. \A n \in 0 .. top : n \in Nat
  OBVIOUS
<1>3. amt \in [Workers -> Nat]
  BY <1>2
<1> QED BY <1>1, <1>3

LEMMA PayReadType ==
  ASSUME TypeOK, NEW r \in Requests, NEW p \in Periods, PayRead(r, p)
  PROVE  TypeOK'
<1>3. PICK amt \in [Workers -> Nat] : req' = [req EXCEPT ![r] = [op |-> "pay", p |-> p, amt |-> amt]]
  BY PayReadAmounts
<1>4. [op |-> "pay", p |-> p, amt |-> amt] \in Pending
  BY DEF Pending
<1> QED BY <1>3, <1>4 DEF PayRead, TypeOK

LEMMA PayWriteType ==
  ASSUME TypeOK, NEW r \in Requests, PaySettle(r) \/ PayCommit(r)
  PROVE  TypeOK'
<1>1. CASE PaySettle(r)
  <2>1. req[r] \in [op : {"pay"}, p : Periods, amt : [Workers -> Nat]]
    BY <1>1 DEF PaySettle, TypeOK, Pending
  <2>2. [op |-> "settle", p |-> req[r].p, amt |-> req[r].amt, settled |-> Settled(r)] \in Pending
    BY <2>1 DEF Pending, Settled
  <2> QED BY <1>1, <2>2 DEF PaySettle, TypeOK, Finish, Idle, Pending
<1>2. CASE PayCommit(r)
  <2>1. req[r] \in [op : {"settle"}, p : Periods, amt : [Workers -> Nat], settled : BOOLEAN]
    BY <1>2 DEF PayCommit, TypeOK, Pending
  <2>2. line' \in [Periods -> [Workers -> Line]]
    <3>1. \A w \in Workers :
            [line[req[r].p][w] EXCEPT !.paid = line[req[r].p][w].paid + req[r].amt[w]] \in Line
      <4> SUFFICES ASSUME NEW w \in Workers
                   PROVE  [line[req[r].p][w] EXCEPT !.paid = line[req[r].p][w].paid + req[r].amt[w]] \in Line
        OBVIOUS
      <4>1. line[req[r].p][w] \in Line /\ req[r].amt[w] \in Nat
        BY <2>1 DEF TypeOK
      <4>2. line[req[r].p][w].paid + req[r].amt[w] \in Nat
        BY <4>1 DEF Line
      <4> QED BY <4>1, <4>2, LinePaid
    <3> QED BY <1>2, <2>1, <3>1 DEF PayCommit, TypeOK
  <2>3. cash' \in [Periods \cup {NoPeriod} -> [Workers -> Nat]]
    BY <1>2, <2>1 DEF PayCommit, TypeOK
  <2>4. period' \in [Periods -> Sheet]
    <3>1. PICK st : /\ st = IF req[r].settled THEN "paid" ELSE period[req[r].p].status
                    /\ period' = [period EXCEPT ![req[r].p].moved = TRUE, ![req[r].p].status = st]
      BY <1>2 DEF PayCommit
    <3>2. period[req[r].p] \in Sheet /\ st \in Frozen \cup {"open", "unused", "discarded"}
      BY <2>1, <3>1 DEF TypeOK, Sheet, Frozen
    <3>3. [period[req[r].p] EXCEPT !.moved = TRUE, !.status = st] \in Sheet
      BY <3>2 DEF Sheet
    <3> QED BY <2>1, <3>1, <3>3 DEF TypeOK
  <2> QED BY <1>2, <2>2, <2>3, <2>4 DEF PayCommit, TypeOK, Finish, Idle, Pending
<1> QED BY <1>1, <1>2

LEMMA ReleasedType ==
  ASSUME TypeOK, NEW p \in Periods PROVE Released(p) \in [Advances -> Advance]
BY DEF TypeOK, Released, Advance

LEMMA DiscardType ==
  ASSUME TypeOK, NEW r \in Requests, DiscardWrite(r) \/ \E p \in Periods : DiscardRead(r, p)
  PROVE  TypeOK'
<1>1. CASE DiscardWrite(r)
  <2>1. req[r] \in [op : {"discard", "reopen"}, p : Periods]
    BY <1>1 DEF DiscardWrite, TypeOK, Pending
  <2>2. line' \in [Periods -> [Workers -> Line]]
    BY <1>1, <2>1 DEF DiscardWrite, TypeOK, Line, NoLine
  <2>3. cash' \in [Periods \cup {NoPeriod} -> [Workers -> Nat]]
    <3>1. [w \in Workers |-> cash[NoPeriod][w] + cash[req[r].p][w]] \in [Workers -> Nat]
      BY <2>1 DEF TypeOK
    <3> QED BY <1>1, <2>1, <3>1 DEF DiscardWrite, TypeOK
  <2>4. period' \in [Periods -> Sheet]
    BY <1>1, <2>1 DEF DiscardWrite, TypeOK, Sheet, Discarded
  <2>5. adv' \in [Advances -> Advance]
    BY <1>1, <2>1, ReleasedType DEF DiscardWrite
  <2> QED BY <1>1, <2>2, <2>3, <2>4, <2>5 DEF DiscardWrite, TypeOK, Finish, Idle, Pending
<1>2. ASSUME NEW p \in Periods, DiscardRead(r, p) PROVE TypeOK'
  BY <1>2 DEF DiscardRead, TypeOK, Begin, Pending
<1> QED BY <1>1, <1>2

LEMMA ReopenType ==
  ASSUME TypeOK, NEW r \in Requests, ReopenWrite(r) \/ \E p \in Periods : ReopenRead(r, p)
  PROVE  TypeOK'
<1>1. CASE ReopenWrite(r)
  <2>1. req[r] \in [op : {"discard", "reopen"}, p : Periods]
    BY <1>1 DEF ReopenWrite, TypeOK, Pending
  <2>2. period' \in [Periods -> Sheet]
    <3>1. [period[req[r].p] EXCEPT !.status = "open"] \in Sheet
      BY <2>1, SheetStatus DEF TypeOK
    <3> QED BY <1>1, <2>1, <3>1 DEF ReopenWrite, TypeOK
  <2>3. adv' \in [Advances -> Advance]
    BY <1>1, <2>1, ReleasedType DEF ReopenWrite, TypeOK
  <2> QED BY <1>1, <2>2, <2>3 DEF ReopenWrite, TypeOK, Finish, Idle, Pending
<1>2. ASSUME NEW p \in Periods, ReopenRead(r, p) PROVE TypeOK'
  BY <1>2 DEF ReopenRead, TypeOK, Begin, Pending
<1> QED BY <1>1, <1>2

LEMMA NextType == TypeOK /\ [Next]_vars => TypeOK'
<1> SUFFICES ASSUME TypeOK, [Next]_vars PROVE TypeOK'
  OBVIOUS
<1>1. CASE UNCHANGED vars
  BY <1>1 DEF vars, TypeOK
<1>2. CASE Attendance
  BY <1>2, AttendanceType
<1>3. CASE Payments
  BY <1>3, PaymentsType
<1>4. CASE Sheets
  BY <1>4, GenerateReadType, GenerateWriteType, FinaliseType, PayReadType, PayWriteType,
     DiscardType, ReopenType DEF Sheets
<1> QED BY <1>1, <1>2, <1>3, <1>4 DEF Next

(* Every row and every request in flight is well formed, whatever requests overlap. *)
THEOREM TypeCorrect == Spec => []TypeOK
BY InitType, NextType, PTL DEF Spec

-----------------------------------------------------------------------------
(* Paid amounts are backed by wage payments, whatever requests overlap. *)

LEMMA InitBacked == Init => PaidIsBacked
BY DEF Init, PaidIsBacked, NoLine

(* A new set of lines for p that keeps what each line had paid, or forgets it. *)
LEMMA LinesBacked ==
  ASSUME TypeOK, PaidIsBacked, NEW p \in Periods, NEW ls \in [Workers -> Line],
         line' = [line EXCEPT ![p] = ls], cash' = cash,
         \A w \in Workers : ls[w].paid = line[p][w].paid \/ ls[w].paid = 0
  PROVE  PaidIsBacked'
<1> SUFFICES ASSUME NEW q \in Periods, NEW w \in Workers PROVE line'[q][w].paid <= cash'[q][w]
  BY DEF PaidIsBacked
<1>1. line[q][w].paid <= cash[q][w] /\ cash[q][w] \in Nat
  BY DEF PaidIsBacked, TypeOK
<1>2. CASE q = p
  BY <1>1, <1>2 DEF TypeOK
<1>3. CASE q # p
  BY <1>1, <1>3 DEF TypeOK
<1> QED BY <1>2, <1>3

LEMMA UpsertedKeepsPaid ==
  ASSUME TypeOK, NEW p \in Periods, NEW plan \in [Workers -> Line], NEW w \in Workers
  PROVE  Upserted(p, plan)[w].paid = line[p][w].paid \/ Upserted(p, plan)[w].paid = 0
BY DEF Upserted, TypeOK, Line, NoLine

LEMMA GenerateBacked ==
  ASSUME TypeOK, PaidIsBacked, NEW r \in Requests, GenerateWrite(r) PROVE PaidIsBacked'
<1>1. req[r] \in [op : {"generate"}, p : Periods \cup {NoPeriod}, win : SUBSET Days, plan : [Workers -> Line]]
  BY DEF GenerateWrite, TypeOK, Pending
<1>2. CASE line' = line
  BY <1>2 DEF GenerateWrite, PaidIsBacked
<1>3. ASSUME NEW p \in Periods, line' = [line EXCEPT ![p] = Upserted(p, req[r].plan)]
      PROVE  PaidIsBacked'
  <2>1. Upserted(p, req[r].plan) \in [Workers -> Line]
    BY <1>1, UpsertedType DEF TypeOK
  <2>2. cash' = cash
    BY DEF GenerateWrite
  <2>3. \A w \in Workers : Upserted(p, req[r].plan)[w].paid = line[p][w].paid
                           \/ Upserted(p, req[r].plan)[w].paid = 0
    BY <1>1, UpsertedKeepsPaid
  <2> QED BY <1>3, <2>1, <2>2, <2>3, LinesBacked
<1> QED BY <1>1, <1>2, <1>3 DEF GenerateWrite

LEMMA PayBacked ==
  ASSUME TypeOK, PaidIsBacked, NEW r \in Requests, PayCommit(r) PROVE PaidIsBacked'
<1>1. req[r] \in [op : {"settle"}, p : Periods, amt : [Workers -> Nat], settled : BOOLEAN]
  BY DEF PayCommit, TypeOK, Pending
<1> SUFFICES ASSUME NEW q \in Periods, NEW w \in Workers PROVE line'[q][w].paid <= cash'[q][w]
  BY DEF PaidIsBacked
<1>2. /\ line[q][w] \in Line /\ cash[q][w] \in Nat /\ req[r].amt[w] \in Nat
      /\ line[q][w].paid <= cash[q][w]
  BY <1>1 DEF PaidIsBacked, TypeOK
<1>3. CASE q = req[r].p
  <2>1. cash'[q][w] = cash[q][w] + req[r].amt[w]
    BY <1>1, <1>3 DEF PayCommit, TypeOK
  <2>2. line'[q][w] = [line[q][w] EXCEPT !.paid = line[q][w].paid + req[r].amt[w]]
    BY <1>1, <1>3 DEF PayCommit, TypeOK
  <2>3. line'[q][w].paid = line[q][w].paid + req[r].amt[w]
    BY <1>2, <2>2 DEF Line
  <2> QED BY <1>2, <2>1, <2>3 DEF Line
<1>4. CASE q # req[r].p
  BY <1>1, <1>2, <1>4 DEF PayCommit, TypeOK
<1> QED BY <1>3, <1>4

LEMMA DiscardBacked ==
  ASSUME TypeOK, PaidIsBacked, NEW r \in Requests, DiscardWrite(r) PROVE PaidIsBacked'
<1>1. req[r] \in [op : {"discard", "reopen"}, p : Periods]
  BY DEF DiscardWrite, TypeOK, Pending
<1> SUFFICES ASSUME NEW q \in Periods, NEW w \in Workers PROVE line'[q][w].paid <= cash'[q][w]
  BY DEF PaidIsBacked
<1>2. q # NoPeriod
  BY PoolAssumption
<1>3. CASE q = req[r].p
  BY <1>1, <1>2, <1>3 DEF DiscardWrite, TypeOK, NoLine
<1>4. CASE q # req[r].p
  <2>1. line'[q][w] = line[q][w] /\ cash'[q][w] = cash[q][w]
    BY <1>1, <1>2, <1>4 DEF DiscardWrite, TypeOK
  <2> QED BY <2>1 DEF PaidIsBacked
<1> QED BY <1>3, <1>4

LEMMA PaymentsBacked ==
  ASSUME TypeOK, PaidIsBacked, Payments PROVE PaidIsBacked'
<1>1. line' = line
  BY DEF Payments, GiveAdvance, RecordLooseWage, ArchiveWage, ArchiveWrite, ArchiveCheck
<1> SUFFICES ASSUME NEW q \in Periods, NEW w \in Workers PROVE line[q][w].paid <= cash'[q][w]
  BY <1>1 DEF PaidIsBacked
<1>2. line[q][w].paid <= cash[q][w] /\ cash[q][w] \in Nat /\ line[q][w].paid \in Nat
  BY DEF PaidIsBacked, TypeOK, Line
<1>3. cash'[q][w] = cash[q][w] \/ cash'[q][w] = cash[q][w] + 1
  <2>1. ASSUME NEW p \in Periods \cup {NoPeriod}, NEW v \in Workers, ArchiveWage(p, v)
        PROVE  cash'[q][w] = cash[q][w]
    BY <2>1, PoolAssumption DEF ArchiveWage, Archivable, TypeOK
  <2>2. ASSUME NEW p \in GivenPeriods \ {NoPeriod}, NEW v \in Workers, RecordLooseWage(p, v)
        PROVE  cash'[q][w] = cash[q][w] \/ cash'[q][w] = cash[q][w] + 1
    BY <2>2, GivenAssumption DEF RecordLooseWage, TypeOK
  <2> QED BY <2>1, <2>2 DEF Payments, GiveAdvance, ArchiveWrite, ArchiveCheck
<1> QED BY <1>2, <1>3

LEMMA NextBacked == TypeOK /\ PaidIsBacked /\ [Next]_vars => PaidIsBacked'
<1> SUFFICES ASSUME TypeOK, PaidIsBacked, [Next]_vars PROVE PaidIsBacked'
  OBVIOUS
<1>1. CASE UNCHANGED <<line, cash>>
  BY <1>1 DEF PaidIsBacked
<1>2. CASE Attendance
  BY <1>1, <1>2 DEF Attendance, RecordCheck, RecordWrite
<1>3. CASE Payments
  BY <1>3, PaymentsBacked
<1>4. ASSUME NEW r \in Requests,
             GenerateWrite(r) \/ PayCommit(r) \/ DiscardWrite(r)
      PROVE  PaidIsBacked'
  BY <1>4, GenerateBacked, PayBacked, DiscardBacked
<1>5. CASE Sheets
  BY <1>1, <1>4, <1>5
     DEF Sheets, GenerateRead, FinaliseRead, FinaliseWrite, PayRead, PaySettle, DiscardRead,
         ReopenRead, ReopenWrite
<1> QED BY <1>1, <1>2, <1>3, <1>5 DEF Next, vars

(* The sheet never claims a payment the ledger does not hold, whatever requests *)
(* overlap: pay moves both together, archive refuses what a period holds, and a *)
(* discard that loses its race takes the lines with it.                         *)
THEOREM PaidAlwaysBacked == Spec => []PaidIsBacked
<1>1. TypeOK /\ PaidIsBacked /\ [Next]_vars => PaidIsBacked'
  BY NextBacked
<1> QED BY InitBacked, TypeCorrect, <1>1, PTL DEF Spec

-----------------------------------------------------------------------------
(* When requests do not overlap. *)

SheetsOK == SheetsInOrder /\ PaidWithinNet /\ PaidMeansSettled

LEMMA InitSerial == Init => SheetsOK /\ ReadsStillHold
BY DEF Init, SheetsOK, SheetsInOrder, ReadsStillHold, PaidWithinNet, PaidMeansSettled, Exists,
       NoSheet, NoLine, Net, Idle, Frozen

(* A step that leaves sheets and lines alone keeps what is said of them. *)
LEMMA SheetsUntouched ==
  ASSUME SheetsOK, period' = period, line' = line PROVE SheetsOK'
BY DEF SheetsOK, SheetsInOrder, PaidWithinNet, PaidMeansSettled, Exists, Net

(* The request that finishes was the only one: nothing it read is relied on any more. *)
LEMMA NothingInFlight ==
  ASSUME OneRequest, TypeOK, NEW r \in Requests, Finish(r) PROVE ReadsStillHold'
<1>1. \A q \in Requests : req'[q] = Idle
  BY DEF OneRequest, Finish, TypeOK
<1> QED BY <1>1 DEF ReadsStillHold, Idle

LEMMA AttendanceSerial ==
  ASSUME OneRequest, SerialInv, Attendance PROVE SheetsOK' /\ ReadsStillHold'
<1>1. period' = period /\ line' = line
  BY DEF Attendance, RecordCheck, RecordWrite
<1>2. SheetsOK'
  BY <1>1, SheetsUntouched DEF SerialInv, SheetsOK
<1>3. ASSUME NEW r \in Requests, RecordWrite(r) PROVE ReadsStillHold'
  BY <1>3, NothingInFlight DEF RecordWrite, SerialInv
<1>4. ASSUME NEW r \in Requests, NEW w \in Workers, NEW d \in Days, NEW m \in Marks \ {"none"},
             RecordCheck(r, w, d, m)
      PROVE  ReadsStillHold'
  <2>1. \A q \in Requests : req'[q] = [op |-> "record", w |-> w, d |-> d, m |-> m]
    BY <1>4 DEF OneRequest, RecordCheck, Begin, SerialInv, TypeOK
  <2>2. \A p \in Periods : ~Covers(p, d)'
    BY <1>4, <1>1 DEF RecordCheck, Covers
  <2> QED BY <2>1, <2>2 DEF ReadsStillHold
<1> QED BY <1>2, <1>3, <1>4 DEF Attendance

LEMMA PaymentsSerial ==
  ASSUME OneRequest, SerialInv, Payments PROVE SheetsOK' /\ ReadsStillHold'
<1>1. period' = period /\ line' = line
  BY DEF Payments, GiveAdvance, RecordLooseWage, ArchiveWage, ArchiveWrite, ArchiveCheck
<1>2. SheetsOK'
  BY <1>1, SheetsUntouched DEF SerialInv, SheetsOK
<1>3. CASE /\ req' = req
           /\ \A a \in Advances : adv[a].state = "live" => adv'[a] = adv[a]
  <2> SUFFICES ASSUME NEW r \in Requests
               PROVE  /\ req[r].op = "record" => \A p \in Periods : ~Covers(p, req[r].d)'
                      /\ req[r].op = "archive" => adv'[req[r].a].state = "live" /\ adv'[req[r].a].period = NoPeriod
                      /\ req[r].op = "generate" /\ req[r].p # NoPeriod => StillOpen(req[r].p)'
                      /\ req[r].op = "finalise" =>
                           StillOpen(req[r].p)' /\ req[r].claim = {w \in Workers : line'[req[r].p][w].cut # 0}
                      /\ req[r].op = "pay" => StillOwed(r, req[r].p)'
                      /\ req[r].op = "settle" => StillOwed(r, req[r].p)' /\ req[r].settled = Settled(r)'
                      /\ req[r].op = "discard" => StillOpen(req[r].p)'
                      /\ req[r].op = "reopen" => Reopenable(req[r].p)'
    BY <1>2, <1>3 DEF ReadsStillHold
  <2>1. req[r].op = "archive" => req[r].a \in Advances
    BY DEF SerialInv, TypeOK, Pending
  <2> QED BY <1>1, <1>3, <2>1 DEF SerialInv, ReadsStillHold, Covers, StillOpen, StillOwed, Settled, Reopenable, Net
<1>4. ASSUME NEW r \in Requests, ArchiveWrite(r) PROVE ReadsStillHold'
  BY <1>4, NothingInFlight DEF ArchiveWrite, SerialInv
<1>5. ASSUME NEW r \in Requests, NEW a \in Advances, ArchiveCheck(r, a) PROVE ReadsStillHold'
  <2>1. \A q \in Requests : req'[q] = [op |-> "archive", a |-> a]
    BY <1>5 DEF OneRequest, ArchiveCheck, Begin, SerialInv, TypeOK
  <2> QED BY <1>5, <2>1 DEF ReadsStillHold, ArchiveCheck, Archivable
<1>6. ASSUME NEW a \in Advances, NEW w \in Workers, NEW p \in GivenPeriods, GiveAdvance(a, w, p)
      PROVE  ReadsStillHold'
  BY <1>3, <1>6 DEF GiveAdvance, SerialInv, TypeOK
<1>7. ASSUME NEW p \in Periods \cup {NoPeriod}, NEW w \in Workers,
             RecordLooseWage(p, w) \/ ArchiveWage(p, w)
      PROVE  ReadsStillHold'
  BY <1>3, <1>7 DEF RecordLooseWage, ArchiveWage
<1>8. ReadsStillHold'
  <2>1. CASE \E w \in Workers, p \in GivenPeriods \ {NoPeriod} : RecordLooseWage(p, w)
    BY <1>7, <2>1, GivenAssumption
  <2>2. CASE \E w \in Workers, p \in Periods \cup {NoPeriod} : ArchiveWage(p, w)
    BY <1>7, <2>2
  <2> QED BY <2>1, <2>2, <1>4, <1>5, <1>6 DEF Payments
<1> QED BY <1>2, <1>8

(* The reads of the wage-period handlers: what they saw is so when they wrote it down. *)
LEMMA ReadsSerial ==
  ASSUME OneRequest, OneEach, SerialInv, NEW r \in Requests,
         \/ \E win \in Windows : GenerateRead(r, win)
         \/ \E p \in Periods : FinaliseRead(r, p) \/ PayRead(r, p) \/ DiscardRead(r, p) \/ ReopenRead(r, p)
  PROVE  SheetsOK' /\ ReadsStillHold'
<1>1. period' = period /\ line' = line /\ adv' = adv
  BY DEF GenerateRead, FinaliseRead, PayRead, DiscardRead, ReopenRead
<1>2. SheetsOK'
  BY <1>1, SheetsUntouched DEF SerialInv, SheetsOK
<1>3. ASSUME NEW win \in Windows, GenerateRead(r, win) PROVE ReadsStillHold'
  <2>1. PICK p \in Periods \cup {NoPeriod} :
          /\ req' = [req EXCEPT ![r] = [op |-> "generate", p |-> p, win |-> win, plan |-> Draft(win)]]
          /\ p # NoPeriod => StillOpen(p)
    BY <1>3 DEF GenerateRead, Begin, StillOpen
  <2>2. \A q \in Requests : req'[q] = [op |-> "generate", p |-> p, win |-> win, plan |-> Draft(win)]
    BY <2>1 DEF OneRequest, SerialInv, TypeOK
  <2>3. p # NoPeriod => StillOpen(p)'
    BY <1>1, <2>1 DEF StillOpen
  <2> QED BY <2>2, <2>3 DEF ReadsStillHold
<1>4. ASSUME NEW p \in Periods, FinaliseRead(r, p) PROVE ReadsStillHold'
  <2>1. PICK claim : /\ claim = {w \in Workers : line[p][w].cut # 0}
                     /\ req' = [req EXCEPT ![r] = [op |-> "finalise", p |-> p, claim |-> claim]]
    BY <1>4 DEF FinaliseRead, Begin
  <2>2. \A q \in Requests : req'[q] = [op |-> "finalise", p |-> p, claim |-> claim]
    BY <2>1 DEF OneRequest, SerialInv, TypeOK
  <2>3. StillOpen(p)' /\ claim = {w \in Workers : line'[p][w].cut # 0}
    BY <1>1, <1>4, <2>1 DEF FinaliseRead, StillOpen
  <2> SUFFICES ASSUME NEW q \in Requests
               PROVE  StillOpen(req[q].p)' /\ req'[q].claim = {w \in Workers : line'[req'[q].p][w].cut # 0}
    BY <2>2 DEF ReadsStillHold
  <2>4. req'[q].p = p /\ req'[q].claim = claim
    BY <2>2
  <2>5. {w \in Workers : line'[req'[q].p][w].cut # 0} = {w \in Workers : line'[p][w].cut # 0}
    BY <2>4
  <2> QED BY <2>3, <2>4, <2>5 DEF StillOpen
<1>5. ASSUME NEW p \in Periods, PayRead(r, p) PROVE ReadsStillHold'
  <2>1. \A w \in Workers : line[p][w] \in Line
    BY DEF SerialInv, TypeOK
  <2>2. PICK amt \in [Workers -> Nat] :
          /\ req' = [req EXCEPT ![r] = [op |-> "pay", p |-> p, amt |-> amt]]
          /\ \E w \in Workers : amt[w] > 0
          /\ \A w \in Workers : amt[w] > 0 => line[p][w].on /\ line[p][w].paid + amt[w] <= Net(line[p][w])
    <3>1. ASSUME NEW w \in Workers, NEW n \in Nat, n > 0, n <= Payable(p, w)
          PROVE  line[p][w].on /\ line[p][w].paid + n <= Net(line[p][w])
      <4>1. Owed(p, w)
        BY <3>1 DEF Payable
      <4>2. line[p][w].paid \in Nat /\ Net(line[p][w]) \in Int
        BY <2>1 DEF Net, Line
      <4>3. Payable(p, w) = Net(line[p][w]) - line[p][w].paid
        BY <4>1, <4>2 DEF Payable, OneEach, Outstanding
      <4> QED BY <3>1, <4>1, <4>2, <4>3 DEF Owed
    <3>2. PICK amt \in [Workers -> Nat] :
            /\ req' = [req EXCEPT ![r] = [op |-> "pay", p |-> p, amt |-> amt]]
            /\ \E w \in Workers : amt[w] > 0
            /\ \A w \in Workers : amt[w] <= Payable(p, w)
      BY <1>5, PayReadAmounts
    <3> QED BY <3>1, <3>2
  <2>3. \A q \in Requests : req'[q] = [op |-> "pay", p |-> p, amt |-> amt]
    BY <2>2 DEF OneRequest, SerialInv, TypeOK
  <2>4. \A q \in Requests : StillOwed(q, p)'
    BY <1>1, <1>5, <2>2, <2>3 DEF PayRead, StillOwed, Net
  <2> QED BY <2>3, <2>4 DEF ReadsStillHold
<1>6. ASSUME NEW p \in Periods, DiscardRead(r, p) PROVE ReadsStillHold'
  <2>1. \A q \in Requests : req'[q] = [op |-> "discard", p |-> p]
    BY <1>6 DEF OneRequest, DiscardRead, Begin, SerialInv, TypeOK
  <2>2. StillOpen(p)'
    BY <1>1, <1>6 DEF DiscardRead, StillOpen
  <2> QED BY <2>1, <2>2 DEF ReadsStillHold
<1>7. ASSUME NEW p \in Periods, ReopenRead(r, p) PROVE ReadsStillHold'
  <2>1. \A q \in Requests : req'[q] = [op |-> "reopen", p |-> p]
    BY <1>7 DEF OneRequest, ReopenRead, Begin, SerialInv, TypeOK
  <2>2. Reopenable(p)'
    BY <1>1, <1>7 DEF ReopenRead, Reopenable
  <2> QED BY <2>1, <2>2 DEF ReadsStillHold
<1> QED BY <1>2, <1>3, <1>4, <1>5, <1>6, <1>7

(* With one request, the sheet `generate' writes is new, or still open and unpaid. *)
LEMMA GenerateTarget ==
  ASSUME OneRequest, SerialInv, NEW r \in Requests, GenerateWrite(r)
  PROVE  \E p \in Periods :
           /\ period[p].status \in {"open", "unused"}
           /\ line' = [line EXCEPT ![p] = Upserted(p, req[r].plan)]
           /\ period'[p].status = "open" /\ ~period'[p].moved
           /\ \A q \in Periods : q # p => period'[q] = period[q]
<1>1. req[r] \in [op : {"generate"}, p : Periods \cup {NoPeriod}, win : SUBSET Days, plan : [Workers -> Line]]
  BY DEF SerialInv, GenerateWrite, TypeOK, Pending
<1>2. CASE req[r].p = NoPeriod
  <2>1. PICK p \in Periods :
          /\ period[p].status = "unused"
          /\ period' = [period EXCEPT ![p] = [status |-> "open", window |-> req[r].win, moved |-> FALSE]]
          /\ line' = [line EXCEPT ![p] = Upserted(p, req[r].plan)]
    BY <1>2 DEF GenerateWrite
  <2>2. /\ period'[p] = [status |-> "open", window |-> req[r].win, moved |-> FALSE]
        /\ \A q \in Periods : q # p => period'[q] = period[q]
    BY <2>1 DEF SerialInv, TypeOK
  <2>3. period[p].status \in {"open", "unused"} /\ period'[p].status = "open" /\ ~period'[p].moved
    BY <2>1, <2>2
  <2> QED BY <2>1, <2>2, <2>3
<1>3. CASE req[r].p # NoPeriod
  <2>1. req[r].p \in Periods /\ StillOpen(req[r].p)
    BY <1>1, <1>3 DEF SerialInv, ReadsStillHold
  <2>2. ~period[req[r].p].moved
    BY <2>1 DEF SerialInv, SheetsInOrder, StillOpen, Frozen
  <2> QED BY <1>3, <2>1, <2>2 DEF GenerateWrite, Exists, StillOpen
<1> QED BY <1>2, <1>3

LEMMA GenerateSerial ==
  ASSUME OneRequest, SerialInv, NEW r \in Requests, GenerateWrite(r)
  PROVE  SheetsOK' /\ ReadsStillHold'
<1>1. req[r] \in [op : {"generate"}, p : Periods \cup {NoPeriod}, win : SUBSET Days, plan : [Workers -> Line]]
  BY DEF SerialInv, GenerateWrite, TypeOK, Pending
<1>2. ReadsStillHold'
  BY NothingInFlight DEF GenerateWrite, SerialInv
<1>3. PICK p \in Periods :
        /\ period[p].status \in {"open", "unused"}
        /\ line' = [line EXCEPT ![p] = Upserted(p, req[r].plan)]
        /\ period'[p].status = "open" /\ ~period'[p].moved
        /\ \A q \in Periods : q # p => period'[q] = period[q]
  BY GenerateTarget
<1>4. \A w \in Workers : line[p][w].paid = 0
  <2>1. ~period[p].moved
    BY <1>3 DEF SerialInv, SheetsInOrder, Frozen
  <2> QED BY <2>1 DEF SerialInv, SheetsInOrder, TypeOK, Line
<1>5. \A w \in Workers : /\ line'[p][w] \in Line /\ line'[p][w].paid = 0
                         /\ ~line'[p][w].on => line'[p][w] = NoLine
  <2> SUFFICES ASSUME NEW w \in Workers
               PROVE  /\ line'[p][w] \in Line /\ line'[p][w].paid = 0
                      /\ ~line'[p][w].on => line'[p][w] = NoLine
    OBVIOUS
  <2>1. line'[p][w] = Upserted(p, req[r].plan)[w]
    BY <1>3 DEF SerialInv, TypeOK
  <2>2. Upserted(p, req[r].plan)[w] \in Line
    <3>1. req[r].plan \in [Workers -> Line]
      BY <1>1
    <3>2. line \in [Periods -> [Workers -> Line]]
      BY DEF SerialInv, TypeOK
    <3> QED BY <3>1, <3>2, UpsertedType
  <2>3. CASE req[r].plan[w].on
    BY <1>1, <1>4, <2>1, <2>2, <2>3 DEF Upserted, Line
  <2>4. CASE ~req[r].plan[w].on
    BY <2>1, <2>2, <2>4 DEF Upserted, NoLine
  <2> QED BY <2>3, <2>4
<1>6. \A q \in Periods : q # p => line'[q] = line[q]
  BY <1>3 DEF SerialInv, TypeOK
<1>7. SheetsInOrder'
  BY <1>3, <1>5, <1>6 DEF SheetsInOrder, SerialInv, Exists, Frozen
<1>8. PaidWithinNet'
  <2> SUFFICES ASSUME NEW q \in Periods, NEW w \in Workers PROVE line'[q][w].paid <= Net(line'[q][w])
    BY DEF PaidWithinNet, Net
  <2>1. CASE q = p
    BY <1>5, <2>1 DEF Net, Line
  <2>2. CASE q # p
    BY <1>6, <2>2 DEF PaidWithinNet, SerialInv
  <2> QED BY <2>1, <2>2
<1>9. PaidMeansSettled'
  BY <1>3, <1>6 DEF PaidMeansSettled, SerialInv, Frozen, Net
<1> QED BY <1>2, <1>7, <1>8, <1>9 DEF SheetsOK

LEMMA FinaliseSerial ==
  ASSUME OneRequest, SerialInv, NEW r \in Requests, FinaliseWrite(r)
  PROVE  SheetsOK' /\ ReadsStillHold'
<1>1. req[r] \in [op : {"finalise"}, p : Periods, claim : SUBSET Workers]
  BY DEF SerialInv, FinaliseWrite, TypeOK, Pending
<1>2. ReadsStillHold'
  BY NothingInFlight DEF FinaliseWrite, SerialInv
<1> DEFINE p == req[r].p
<1>3. p \in Periods /\ StillOpen(p)
  BY <1>1 DEF SerialInv, ReadsStillHold, FinaliseWrite
<1>4. ~period[p].moved
  BY <1>3 DEF SerialInv, SheetsInOrder, StillOpen, Frozen
<1>5. period' = [period EXCEPT ![p].status = "finalised"] /\ line' = line
  BY <1>3 DEF FinaliseWrite, StillOpen, Exists
<1>6. /\ period'[p].status = "finalised" /\ ~period'[p].moved
      /\ \A q \in Periods : q # p => period'[q] = period[q]
  BY <1>3, <1>4, <1>5 DEF SerialInv, TypeOK, Sheet
<1> HIDE DEF p
<1>7. SheetsInOrder'
  BY <1>3, <1>5, <1>6 DEF SheetsInOrder, SerialInv, Exists, Frozen, StillOpen
<1>8. PaidWithinNet'
  BY <1>5 DEF PaidWithinNet, SerialInv
<1>9. PaidMeansSettled'
  BY <1>5, <1>6 DEF PaidMeansSettled, SerialInv, Frozen
<1> QED BY <1>2, <1>7, <1>8, <1>9 DEF SheetsOK

LEMMA PaySettleSerial ==
  ASSUME OneRequest, SerialInv, NEW r \in Requests, PaySettle(r)
  PROVE  SheetsOK' /\ ReadsStillHold'
<1>1. req[r] \in [op : {"pay"}, p : Periods, amt : [Workers -> Nat]]
  BY DEF SerialInv, PaySettle, TypeOK, Pending
<1>2. period' = period /\ line' = line /\ SheetsOK'
  BY SheetsUntouched DEF PaySettle, SerialInv, SheetsOK
<1>3. StillOwed(r, req[r].p)
  BY DEF SerialInv, ReadsStillHold, PaySettle
<1>4. \A w \in Payees(r) : line[req[r].p][w].on
  BY <1>3 DEF StillOwed, Payees
<1>5. \A q \in Requests :
        req'[q] = [op |-> "settle", p |-> req[r].p, amt |-> req[r].amt, settled |-> Settled(r)]
  BY <1>4 DEF PaySettle, OneRequest, SerialInv, TypeOK
<1> SUFFICES ASSUME NEW q \in Requests
             PROVE  StillOwed(q, req[q].p)' /\ req'[q].settled = Settled(q)'
  BY <1>2, <1>5 DEF ReadsStillHold
<1>6. StillOwed(q, req[q].p)'
  BY <1>2, <1>3, <1>5 DEF StillOwed, Net
<1>7. Settled(q)' = Settled(r)
  <2>1. req'[q].p = req[r].p /\ req'[q].amt = req[r].amt
    BY <1>5
  <2> QED BY <1>2, <2>1 DEF Settled, Net
<1> QED BY <1>5, <1>6, <1>7

(* With one request, what `pay' commits: the listed amounts, on the lines it read. *)
LEMMA PayCommitEffect ==
  ASSUME OneRequest, SerialInv, NEW r \in Requests, PayCommit(r)
  PROVE  \E p \in Periods, amt \in [Workers -> Nat] :
           /\ p = req[r].p /\ amt = req[r].amt
           /\ StillOwed(r, p)
           /\ period'[p].moved
           /\ period'[p].status = IF Settled(r) THEN "paid" ELSE period[p].status
           /\ \A q \in Periods : q # p => period'[q] = period[q] /\ line'[q] = line[q]
           /\ \A w \in Workers :
                /\ line[p][w] \in Line /\ amt[w] \in Nat
                /\ line'[p][w].on = line[p][w].on
                /\ line'[p][w].gross = line[p][w].gross /\ line'[p][w].cut = line[p][w].cut
                /\ Net(line'[p][w]) = Net(line[p][w]) /\ Net(line[p][w]) \in Nat
                /\ line'[p][w].paid = line[p][w].paid + amt[w]
                /\ amt[w] = 0 => line'[p][w] = line[p][w]
<1>1. req[r] \in [op : {"settle"}, p : Periods, amt : [Workers -> Nat], settled : BOOLEAN]
  BY DEF SerialInv, PayCommit, TypeOK, Pending
<1>3. PICK p \in Periods, amt \in [Workers -> Nat] : p = req[r].p /\ amt = req[r].amt
  BY <1>1
<1>4. StillOwed(r, p) /\ req[r].settled = Settled(r)
  BY <1>3 DEF SerialInv, ReadsStillHold, PayCommit
<1>5. /\ period'[p].moved
      /\ period'[p].status = IF Settled(r) THEN "paid" ELSE period[p].status
      /\ \A q \in Periods : q # p => period'[q] = period[q]
  BY <1>1, <1>3, <1>4 DEF PayCommit, SerialInv, TypeOK, Sheet
<1>6. \A q \in Periods : q # p => line'[q] = line[q]
  BY <1>1, <1>3 DEF PayCommit, SerialInv, TypeOK
<1>7. \A w \in Workers :
        /\ line[p][w] \in Line /\ amt[w] \in Nat
        /\ line'[p][w].on = line[p][w].on
        /\ line'[p][w].gross = line[p][w].gross /\ line'[p][w].cut = line[p][w].cut
        /\ Net(line'[p][w]) = Net(line[p][w]) /\ Net(line[p][w]) \in Nat
        /\ line'[p][w].paid = line[p][w].paid + amt[w]
        /\ amt[w] = 0 => line'[p][w] = line[p][w]
  <2> SUFFICES ASSUME NEW w \in Workers
               PROVE  /\ line[p][w] \in Line /\ amt[w] \in Nat
                      /\ line'[p][w].on = line[p][w].on
                      /\ line'[p][w].gross = line[p][w].gross /\ line'[p][w].cut = line[p][w].cut
                      /\ Net(line'[p][w]) = Net(line[p][w]) /\ Net(line[p][w]) \in Nat
                      /\ line'[p][w].paid = line[p][w].paid + amt[w]
                      /\ amt[w] = 0 => line'[p][w] = line[p][w]
    OBVIOUS
  <2>1. line'[p][w] = [line[p][w] EXCEPT !.paid = line[p][w].paid + amt[w]]
    BY <1>3 DEF PayCommit, SerialInv, TypeOK
  <2>2. line[p][w] \in Line /\ amt[w] \in Nat
    BY DEF SerialInv, TypeOK
  <2> QED BY <2>1, <2>2 DEF Line, Net
<1> QED BY <1>3, <1>4, <1>5, <1>6, <1>7

LEMMA PayCommitSerial ==
  ASSUME OneRequest, SerialInv, NEW r \in Requests, PayCommit(r)
  PROVE  SheetsOK' /\ ReadsStillHold'
<1>1. ReadsStillHold'
  BY NothingInFlight DEF PayCommit, SerialInv
<1>2. PICK p \in Periods, amt \in [Workers -> Nat] :
        /\ p = req[r].p /\ amt = req[r].amt
        /\ StillOwed(r, p)
        /\ period'[p].moved
        /\ period'[p].status = IF Settled(r) THEN "paid" ELSE period[p].status
        /\ \A q \in Periods : q # p => period'[q] = period[q] /\ line'[q] = line[q]
        /\ \A w \in Workers :
             /\ line[p][w] \in Line /\ amt[w] \in Nat
             /\ line'[p][w].on = line[p][w].on
             /\ Net(line'[p][w]) = Net(line[p][w]) /\ Net(line[p][w]) \in Nat
             /\ line'[p][w].paid = line[p][w].paid + amt[w]
             /\ amt[w] = 0 => line'[p][w] = line[p][w]
  BY PayCommitEffect
<1>3. \A w \in Workers : line'[p][w].paid <= Net(line'[p][w])
  <2> SUFFICES ASSUME NEW w \in Workers PROVE line'[p][w].paid <= Net(line'[p][w])
    OBVIOUS
  <2>1. CASE amt[w] = 0
    BY <1>2, <2>1 DEF SerialInv, PaidWithinNet
  <2>2. CASE amt[w] > 0
    BY <1>2, <2>2 DEF StillOwed
  <2> QED BY <1>2, <2>1, <2>2
<1>4. SheetsInOrder'
  <2>1. period'[p].status \in Frozen
    BY <1>2 DEF StillOwed, Frozen
  <2>2. \A w \in Workers : ~line'[p][w].on => line'[p][w] = NoLine
    <3> SUFFICES ASSUME NEW w \in Workers, ~line'[p][w].on PROVE line'[p][w] = NoLine
      OBVIOUS
    <3>1. ~line[p][w].on /\ line[p][w] = NoLine
      BY <1>2 DEF SerialInv, SheetsInOrder
    <3>2. amt[w] = 0
      BY <1>2, <3>1 DEF StillOwed
    <3> QED BY <1>2, <3>1, <3>2
  <2>3. Exists(p)'
    BY <2>1 DEF Exists
  <2> QED BY <1>2, <2>1, <2>2, <2>3 DEF SheetsInOrder, SerialInv, Exists
<1>5. PaidWithinNet'
  <2> SUFFICES ASSUME NEW q \in Periods, NEW w \in Workers PROVE line'[q][w].paid <= Net(line'[q][w])
    BY DEF PaidWithinNet, Net
  <2> QED BY <1>2, <1>3 DEF PaidWithinNet, SerialInv
<1>6. period'[p].status = "paid" <=> \A w \in Workers : line'[p][w].paid = Net(line'[p][w])
  <2>1. Settled(r) <=> \A w \in Workers : line'[p][w].paid = Net(line'[p][w])
    <3>1. ASSUME NEW w \in Workers, ~line[p][w].on PROVE line'[p][w].paid = Net(line'[p][w])
      <4>1. line'[p][w] = NoLine
        BY <1>2, <1>4, <3>1 DEF SheetsInOrder
      <4> QED BY <4>1 DEF NoLine, Net
    <3>2. ASSUME NEW w \in Workers
          PROVE  line[p][w].paid + amt[w] >= Net(line[p][w]) <=> line'[p][w].paid = Net(line'[p][w])
      <4>1. line[p][w] \in Line /\ line'[p][w].paid = line[p][w].paid + amt[w] /\ Net(line'[p][w]) = Net(line[p][w])
        BY <1>2
      <4>2. line'[p][w].paid <= Net(line'[p][w]) /\ amt[w] \in Nat /\ Net(line[p][w]) \in Nat
        BY <1>2, <1>3
      <4>3. line[p][w].paid \in Nat
        BY <4>1 DEF Line
      <4> QED BY <4>1, <4>2, <4>3
    <3> QED BY <1>2, <3>1, <3>2 DEF Settled
  <2>2. period[p].status # "paid"
    <3>1. PICK w \in Workers : amt[w] > 0
      BY <1>2 DEF StillOwed
    <3>2. line[p][w].paid + amt[w] <= Net(line[p][w])
      BY <1>2, <3>1 DEF StillOwed
    <3>3. line[p][w].paid # Net(line[p][w])
      BY <1>2, <3>1, <3>2 DEF Line
    <3> QED BY <3>3 DEF SerialInv, PaidMeansSettled, Frozen
  <2> QED BY <1>2, <2>1, <2>2
<1>7. PaidMeansSettled'
  <2> SUFFICES ASSUME NEW q \in Periods, period'[q].status \in Frozen
               PROVE  period'[q].status = "paid" <=>
                        period'[q].moved /\ \A w \in Workers : line'[q][w].paid = Net(line'[q][w])
    BY DEF PaidMeansSettled, Net
  <2>1. CASE q = p
    BY <1>2, <1>6, <2>1
  <2>2. CASE q # p
    BY <1>2, <2>2 DEF SerialInv, PaidMeansSettled
  <2> QED BY <2>1, <2>2
<1> QED BY <1>1, <1>4, <1>5, <1>7 DEF SheetsOK

LEMMA DiscardSerial ==
  ASSUME OneRequest, SerialInv, NEW r \in Requests, DiscardWrite(r)
  PROVE  SheetsOK' /\ ReadsStillHold'
<1>1. PICK p \in Periods : p = req[r].p
  BY DEF SerialInv, DiscardWrite, TypeOK, Pending
<1>2. ReadsStillHold'
  BY NothingInFlight DEF DiscardWrite, SerialInv
<1>3. /\ period'[p] = Discarded /\ \A w \in Workers : line'[p][w] = NoLine
      /\ \A q \in Periods : q # p => period'[q] = period[q] /\ line'[q] = line[q]
  BY <1>1 DEF DiscardWrite, SerialInv, TypeOK
<1>4. SheetsInOrder'
  BY <1>3 DEF SheetsInOrder, SerialInv, Exists, Frozen, Discarded, NoLine
<1>5. PaidWithinNet'
  BY <1>3 DEF PaidWithinNet, SerialInv, Net, NoLine
<1>6. PaidMeansSettled'
  BY <1>3 DEF PaidMeansSettled, SerialInv, Net, Discarded, Frozen
<1> QED BY <1>2, <1>4, <1>5, <1>6 DEF SheetsOK

LEMMA ReopenSerial ==
  ASSUME OneRequest, SerialInv, NEW r \in Requests, ReopenWrite(r)
  PROVE  SheetsOK' /\ ReadsStillHold'
<1>1. PICK p \in Periods : p = req[r].p
  BY DEF SerialInv, ReopenWrite, TypeOK, Pending
<1>2. ReadsStillHold'
  BY NothingInFlight DEF ReopenWrite, SerialInv
<1>3. Reopenable(p)
  BY <1>1 DEF SerialInv, ReadsStillHold, ReopenWrite
<1>4. /\ line' = line /\ period'[p].status = "open" /\ period'[p].moved = period[p].moved
      /\ \A q \in Periods : q # p => period'[q] = period[q]
  <2>1. p \in Periods
    BY <1>1 DEF SerialInv, ReopenWrite, TypeOK, Pending
  <2>2. period' = [period EXCEPT ![p].status = "open"] /\ line' = line
    BY <1>1, <1>3 DEF ReopenWrite, Reopenable, Exists
  <2> QED BY <2>1, <2>2 DEF SerialInv, TypeOK, Sheet
<1>5. SheetsInOrder'
  BY <1>3, <1>4 DEF SheetsInOrder, SerialInv, Exists, Frozen, Reopenable
<1>6. PaidWithinNet'
  BY <1>4 DEF PaidWithinNet, SerialInv
<1>7. PaidMeansSettled'
  BY <1>4 DEF PaidMeansSettled, SerialInv, Frozen
<1> QED BY <1>2, <1>5, <1>6, <1>7 DEF SheetsOK

LEMMA NextSerial == ASSUME OneRequest, OneEach PROVE SerialInv /\ [Next]_vars => SerialInv'
<1> SUFFICES ASSUME SerialInv, [Next]_vars PROVE SheetsOK' /\ ReadsStillHold'
  BY NextType DEF SerialInv, SheetsOK
<1>1. CASE UNCHANGED vars
  <2>1. SheetsOK'
    BY <1>1, SheetsUntouched DEF vars, SerialInv, SheetsOK
  <2>2. ReadsStillHold'
    BY <1>1, ZenonT(60) DEF vars, SerialInv, ReadsStillHold, Covers, StillOpen, StillOwed, Settled, Reopenable, Net
  <2> QED BY <2>1, <2>2
<1>2. CASE Attendance
  BY <1>2, AttendanceSerial
<1>3. CASE Payments
  BY <1>3, PaymentsSerial
<1>4. CASE Sheets
  BY <1>4, ReadsSerial, GenerateSerial, FinaliseSerial, PaySettleSerial, PayCommitSerial,
     DiscardSerial, ReopenSerial DEF Sheets
<1> QED BY <1>1, <1>2, <1>3, <1>4 DEF Next

LEMMA SerialAlways == ASSUME OneRequest, OneEach PROVE Spec => []SerialInv
<1>1. Init => SerialInv
  BY InitType, InitSerial DEF SerialInv, SheetsOK
<1>2. SerialInv /\ [Next]_vars => SerialInv'
  BY NextSerial
<1> QED BY <1>1, <1>2, PTL DEF Spec

(* One request at a time, nobody is ever paid more than the net of his line. *)
THEOREM NeverOverpaid == ASSUME OneRequest, OneEach PROVE Spec => []PaidWithinNet
<1>1. SerialInv => PaidWithinNet
  BY DEF SerialInv
<1> QED BY <1>1, SerialAlways, PTL

(* One request at a time, `paid' says exactly that every line is settled. *)
THEOREM PaidIsSettled == ASSUME OneRequest, OneEach PROVE Spec => []PaidMeansSettled
<1>1. SerialInv => PaidMeansSettled
  BY DEF SerialInv
<1> QED BY <1>1, SerialAlways, PTL

-----------------------------------------------------------------------------
(* What a step may not do to a frozen sheet, when requests do not overlap. *)

FinalStep ==
  \A p \in Periods : StaysFrozen(p) =>
    \A w \in Workers :
      /\ \A d \in period[p].window : att'[w][d] = att[w][d]
      /\ line'[p][w].on = line[p][w].on
      /\ line'[p][w].gross = line[p][w].gross
      /\ line'[p][w].cut = line[p][w].cut

PinnedStep ==
  \A p \in Periods : period[p].moved =>
    /\ period'[p].moved /\ period'[p].status \in Frozen
    /\ \A w \in Workers : line'[p][w].paid >= line[p][w].paid

LEMMA UntouchedFinal ==
  ASSUME line' = line, att' = att PROVE FinalStep
BY DEF FinalStep

LEMMA PaidIsANumber ==
  ASSUME SerialInv, NEW p \in Periods, NEW w \in Workers PROVE line[p][w].paid >= line[p][w].paid
<1>1. line[p][w] \in Line
  BY DEF SerialInv, TypeOK
<1> QED BY <1>1 DEF Line

LEMMA UntouchedPinned ==
  ASSUME SerialInv, line' = line,
         \A p \in Periods : period[p].moved =>
           period'[p].moved /\ period'[p].status \in Frozen
  PROVE  PinnedStep
BY PaidIsANumber DEF PinnedStep

(* The record that is written found no frozen period over its day. *)
LEMMA RecordFinal ==
  ASSUME SerialInv, NEW r \in Requests, RecordWrite(r) PROVE FinalStep
<1>1. req[r] \in [op : {"record"}, w : Workers, d : Days, m : Marks]
  BY DEF RecordWrite, SerialInv, TypeOK, Pending
<1>2. \A p \in Periods : ~Covers(p, req[r].d)
  BY DEF RecordWrite, SerialInv, ReadsStillHold
<1>3. ASSUME NEW p \in Periods, period[p].status \in Frozen, NEW w \in Workers, NEW d \in period[p].window
      PROVE  att'[w][d] = att[w][d]
  <2>1. d # req[r].d
    BY <1>2, <1>3 DEF Covers
  <2>2. d \in Days
    BY <1>3 DEF SerialInv, TypeOK, Sheet
  <2> QED BY <1>1, <2>1, <2>2 DEF RecordWrite, SerialInv, TypeOK
<1> QED BY <1>3 DEF RecordWrite, FinalStep, StaysFrozen

LEMMA GenerateFinal ==
  ASSUME OneRequest, SerialInv, NEW r \in Requests, GenerateWrite(r)
  PROVE  FinalStep /\ PinnedStep
<1>1. PICK p \in Periods :
        /\ period[p].status \in {"open", "unused"}
        /\ line' = [line EXCEPT ![p] = Upserted(p, req[r].plan)]
        /\ period'[p].status = "open" /\ ~period'[p].moved
        /\ \A q \in Periods : q # p => period'[q] = period[q]
  BY GenerateTarget
<1>2. \A q \in Periods : q # p => line'[q] = line[q] /\ period'[q] = period[q]
  BY <1>1 DEF SerialInv, TypeOK
<1>3. att' = att /\ period[p].status \notin Frozen
  BY <1>1 DEF GenerateWrite, Frozen
<1>4. ~period[p].moved
  BY <1>3 DEF SerialInv, SheetsInOrder
<1>5. FinalStep
  BY <1>2, <1>3 DEF FinalStep, StaysFrozen
<1>6. PinnedStep
  <2> SUFFICES ASSUME NEW q \in Periods, period[q].moved
               PROVE  /\ period'[q].moved /\ period'[q].status \in Frozen
                      /\ \A w \in Workers : line'[q][w].paid >= line[q][w].paid
    BY DEF PinnedStep
  <2>1. period'[q] = period[q] /\ line'[q] = line[q]
    BY <1>2, <1>4
  <2>2. period[q].status \in Frozen
    BY DEF SerialInv, SheetsInOrder
  <2> QED BY <2>1, <2>2, PaidIsANumber
<1> QED BY <1>5, <1>6

LEMMA PayFinal ==
  ASSUME OneRequest, SerialInv, NEW r \in Requests, PayCommit(r)
  PROVE  FinalStep /\ PinnedStep
<1>1. PICK p \in Periods, amt \in [Workers -> Nat] :
        /\ StillOwed(r, p)
        /\ period'[p].moved
        /\ period'[p].status = IF Settled(r) THEN "paid" ELSE period[p].status
        /\ \A q \in Periods : q # p => period'[q] = period[q] /\ line'[q] = line[q]
        /\ \A w \in Workers :
             /\ line[p][w] \in Line /\ amt[w] \in Nat
             /\ line'[p][w].on = line[p][w].on
             /\ line'[p][w].gross = line[p][w].gross /\ line'[p][w].cut = line[p][w].cut
             /\ line'[p][w].paid = line[p][w].paid + amt[w]
  BY PayCommitEffect
<1>2. att' = att
  BY DEF PayCommit
<1>3. FinalStep
  BY <1>1, <1>2 DEF FinalStep
<1>4. PinnedStep
  <2> SUFFICES ASSUME NEW q \in Periods, period[q].moved
               PROVE  /\ period'[q].moved /\ period'[q].status \in Frozen
                      /\ \A w \in Workers : line'[q][w].paid >= line[q][w].paid
    BY DEF PinnedStep
  <2>1. CASE q = p
    BY <1>1, <2>1 DEF StillOwed, Frozen, Line
  <2>2. CASE q # p
    BY <1>1, <2>2, PaidIsANumber DEF SerialInv, SheetsInOrder
  <2> QED BY <2>1, <2>2
<1> QED BY <1>3, <1>4

LEMMA DiscardFinal ==
  ASSUME SerialInv, NEW r \in Requests, DiscardWrite(r)
  PROVE  FinalStep /\ PinnedStep
<1>1. PICK p \in Periods : p = req[r].p
  BY DEF SerialInv, DiscardWrite, TypeOK, Pending
<1>2. StillOpen(p)
  BY <1>1 DEF SerialInv, ReadsStillHold, DiscardWrite
<1>3. /\ att' = att
      /\ \A q \in Periods : q # p => period'[q] = period[q] /\ line'[q] = line[q]
  BY <1>1 DEF DiscardWrite, SerialInv, TypeOK
<1>4. FinalStep
  BY <1>2, <1>3 DEF FinalStep, StaysFrozen, StillOpen, Frozen
<1>5. PinnedStep
  <2> SUFFICES ASSUME NEW q \in Periods, period[q].moved
               PROVE  /\ period'[q].moved /\ period'[q].status \in Frozen
                      /\ \A w \in Workers : line'[q][w].paid >= line[q][w].paid
    BY DEF PinnedStep
  <2>1. period[q].status \in Frozen
    BY DEF SerialInv, SheetsInOrder
  <2>2. q # p
    BY <1>2, <2>1 DEF StillOpen, Frozen
  <2> QED BY <1>3, <2>1, <2>2, PaidIsANumber
<1> QED BY <1>4, <1>5

LEMMA StatusFinal ==
  ASSUME SerialInv, NEW r \in Requests, FinaliseWrite(r) \/ ReopenWrite(r)
  PROVE  FinalStep /\ PinnedStep
<1>1. line' = line /\ att' = att
  BY DEF FinaliseWrite, ReopenWrite
<1>2. ASSUME NEW p \in Periods, period[p].moved
      PROVE  period'[p].moved /\ period'[p].status \in Frozen
  <2>1. period[p].status \in Frozen
    BY <1>2 DEF SerialInv, SheetsInOrder
  <2>2. req[r].p \in Periods /\ req[r].p # p
    <3>1. CASE FinaliseWrite(r)
      <4>1. req[r].p \in Periods
        BY <3>1 DEF FinaliseWrite, SerialInv, TypeOK, Pending
      <4>2. StillOpen(req[r].p)
        BY <3>1 DEF FinaliseWrite, SerialInv, ReadsStillHold
      <4> QED BY <2>1, <4>1, <4>2 DEF StillOpen, Frozen
    <3>2. CASE ReopenWrite(r)
      <4>1. req[r].p \in Periods
        BY <3>2 DEF ReopenWrite, SerialInv, TypeOK, Pending
      <4>2. Reopenable(req[r].p)
        BY <3>2 DEF ReopenWrite, SerialInv, ReadsStillHold
      <4> QED BY <1>2, <4>1, <4>2 DEF Reopenable
    <3> QED BY <3>1, <3>2
  <2>3. period'[p] = period[p]
    BY <2>2 DEF FinaliseWrite, ReopenWrite, SerialInv, TypeOK
  <2> QED BY <1>2, <2>1, <2>3
<1> QED BY <1>1, <1>2, UntouchedFinal, UntouchedPinned

LEMMA NextFinal == ASSUME OneRequest, SerialInv, [Next]_vars PROVE FinalStep /\ PinnedStep
<1>1. CASE /\ period' = period /\ line' = line /\ att' = att
  <2>1. \A p \in Periods : period[p].moved => period'[p].moved /\ period'[p].status \in Frozen
    BY <1>1 DEF SerialInv, SheetsInOrder
  <2> QED BY <1>1, <2>1, UntouchedFinal, UntouchedPinned
<1>2. CASE Attendance
  <2>1. period' = period /\ line' = line
    BY <1>2 DEF Attendance, RecordCheck, RecordWrite
  <2>2. \A p \in Periods : period[p].moved => period'[p].moved /\ period'[p].status \in Frozen
    BY <2>1 DEF SerialInv, SheetsInOrder
  <2>3. FinalStep
    BY <1>2, <2>1, RecordFinal, UntouchedFinal DEF Attendance, RecordCheck
  <2> QED BY <2>1, <2>2, <2>3, UntouchedPinned
<1>3. CASE Payments
  BY <1>1, <1>3 DEF Payments, GiveAdvance, RecordLooseWage, ArchiveWage, ArchiveWrite, ArchiveCheck
<1>4. CASE Sheets
  <2> SUFFICES ASSUME NEW r \in Requests,
         \/ GenerateWrite(r) \/ \E win \in Windows : GenerateRead(r, win)
         \/ FinaliseWrite(r) \/ PaySettle(r) \/ PayCommit(r) \/ DiscardWrite(r) \/ ReopenWrite(r)
         \/ \E p \in Periods : FinaliseRead(r, p) \/ PayRead(r, p) \/ DiscardRead(r, p) \/ ReopenRead(r, p)
         PROVE FinalStep /\ PinnedStep
    BY <1>4 DEF Sheets
  <2>1. CASE GenerateWrite(r)
    BY <2>1, GenerateFinal
  <2>2. CASE PayCommit(r)
    BY <2>2, PayFinal
  <2>3. CASE DiscardWrite(r)
    BY <2>3, DiscardFinal
  <2>4. CASE FinaliseWrite(r) \/ ReopenWrite(r)
    BY <2>4, StatusFinal
  <2>5. CASE PaySettle(r) \/ \E win \in Windows : GenerateRead(r, win)
    BY <1>1, <2>5 DEF PaySettle, GenerateRead
  <2>6. CASE \E p \in Periods : FinaliseRead(r, p) \/ PayRead(r, p) \/ DiscardRead(r, p) \/ ReopenRead(r, p)
    BY <1>1, <2>6 DEF FinaliseRead, PayRead, DiscardRead, ReopenRead
  <2> QED BY <2>1, <2>2, <2>3, <2>4, <2>5, <2>6
<1>5. CASE UNCHANGED vars
  BY <1>1, <1>5 DEF vars
<1> QED BY <1>2, <1>3, <1>4, <1>5 DEF Next

(* One request at a time, a frozen sheet and the days it covers stay as they are *)
(* until it is reopened.                                                         *)
THEOREM FrozenIsFinal == ASSUME OneRequest, OneEach PROVE Spec => FrozenSheetIsFinal
<1>1. SerialInv /\ [Next]_vars => [FinalStep]_vars
  BY NextFinal
<1>2. FrozenSheetIsFinal <=> [][FinalStep]_vars
  BY DEF FrozenSheetIsFinal, FinalStep
<1> QED BY <1>1, <1>2, SerialAlways, PTL DEF Spec

(* One request at a time, a sheet on which money moved never reopens and no line *)
(* forgets a payment.                                                            *)
THEOREM MoneyPins == ASSUME OneRequest, OneEach PROVE Spec => MoneyPinsTheSheet
<1>1. SerialInv /\ [Next]_vars => [PinnedStep]_vars
  BY NextFinal
<1>2. MoneyPinsTheSheet <=> [][PinnedStep]_vars
  BY DEF MoneyPinsTheSheet, PinnedStep
<1> QED BY <1>1, <1>2, SerialAlways, PTL DEF Spec

-----------------------------------------------------------------------------
(* Stamps. *)

IsStamped(a) == adv[a].period # NoPeriod /\ ~adv[a].given

Backs(a) ==
  /\ adv[a].state = "live"
  /\ period[adv[a].period].status \in Frozen
  /\ line[adv[a].period][adv[a].worker].cut > 0

LEMMA StampsAre ==
  StampsBelongToFrozenSheets <=> \A a \in Advances : IsStamped(a) => Backs(a)
BY DEF StampsBelongToFrozenSheets, Backs, IsStamped

LEMMA AdvanceTypes ==
  ASSUME SerialInv, NEW a \in Advances
  PROVE  adv[a] \in Advance /\ adv[a].worker \in Workers /\ adv[a].period \in Periods \cup {NoPeriod}
BY DEF SerialInv, TypeOK, Advance

LEMMA InitStamps == Init => StampsBelongToFrozenSheets
BY DEF Init, StampsBelongToFrozenSheets

LEMMA UntouchedStamps ==
  ASSUME StampsBelongToFrozenSheets, UNCHANGED <<adv, period, line>> PROVE StampsBelongToFrozenSheets'
BY DEF StampsBelongToFrozenSheets

(* A new advance carries no stamp, and one that names a sheet is not archived. *)
LEMMA PaymentsStamps ==
  ASSUME SerialInv, StampsBelongToFrozenSheets, Payments PROVE StampsBelongToFrozenSheets'
<1>1. ASSUME NEW a \in Advances, NEW w \in Workers, NEW p \in GivenPeriods, GiveAdvance(a, w, p)
      PROVE  StampsBelongToFrozenSheets'
  <2>1. ~IsStamped(a)' /\ \A b \in Advances \ {a} : adv'[b] = adv[b]
    BY <1>1 DEF GiveAdvance, IsStamped, SerialInv, TypeOK
  <2> QED BY <1>1, <2>1 DEF GiveAdvance, IsStamped, StampsBelongToFrozenSheets
<1>2. ASSUME NEW r \in Requests, ArchiveWrite(r) PROVE StampsBelongToFrozenSheets'
  <2>1. req[r] \in [op : {"archive"}, a : Advances]
    BY <1>2 DEF ArchiveWrite, SerialInv, TypeOK, Pending
  <2>2. adv[req[r].a].period = NoPeriod
    BY <1>2 DEF ArchiveWrite, SerialInv, ReadsStillHold
  <2>3. adv'[req[r].a].period = NoPeriod /\ \A b \in Advances \ {req[r].a} : adv'[b] = adv[b]
    BY <1>2, <2>1, <2>2 DEF ArchiveWrite, SerialInv, TypeOK, Advance
  <2> QED BY <1>2, <2>3 DEF ArchiveWrite, StampsBelongToFrozenSheets
<1>3. CASE UNCHANGED <<adv, period, line>>
  BY <1>3, UntouchedStamps
<1> QED BY <1>1, <1>2, <1>3 DEF Payments, RecordLooseWage, ArchiveWage, ArchiveCheck

(* Sheets that are not frozen hold no stamp, so they may change as they like. *)
LEMMA OtherSheets ==
  ASSUME SerialInv, StampsBelongToFrozenSheets, NEW p \in Periods, period[p].status \notin Frozen,
         NEW a \in Advances, IsStamped(a),
         \A q \in Periods : q # p => period'[q] = period[q] /\ line'[q] = line[q]
  PROVE  /\ adv[a].period # p /\ Backs(a)
         /\ period'[adv[a].period].status \in Frozen
         /\ line'[adv[a].period][adv[a].worker].cut > 0
<1>1. adv[a].period \in Periods /\ Backs(a)
  BY AdvanceTypes, StampsAre DEF IsStamped
<1>2. adv[a].period # p
  BY <1>1 DEF Backs
<1> QED BY <1>1, <1>2 DEF Backs

LEMMA GenerateStamps ==
  ASSUME OneRequest, SerialInv, StampsBelongToFrozenSheets, NEW r \in Requests, GenerateWrite(r)
  PROVE  StampsBelongToFrozenSheets'
<1>1. PICK p \in Periods :
        /\ period[p].status \in {"open", "unused"}
        /\ line' = [line EXCEPT ![p] = Upserted(p, req[r].plan)]
        /\ period'[p].status = "open" /\ ~period'[p].moved
        /\ \A q \in Periods : q # p => period'[q] = period[q]
  BY GenerateTarget
<1>2. period[p].status \notin Frozen /\ \A q \in Periods : q # p => period'[q] = period[q] /\ line'[q] = line[q]
  BY <1>1 DEF SerialInv, TypeOK, Frozen
<1>3. adv' = adv
  BY DEF GenerateWrite
<1> QED BY <1>2, <1>3, OtherSheets DEF StampsBelongToFrozenSheets, Backs, IsStamped

LEMMA FinaliseStamps ==
  ASSUME OneRequest, SerialInv, StampsBelongToFrozenSheets, NEW r \in Requests, FinaliseWrite(r)
  PROVE  StampsBelongToFrozenSheets'
<1> DEFINE p == req[r].p
           claim == req[r].claim
<1>1. p \in Periods /\ claim \subseteq Workers
  BY DEF FinaliseWrite, SerialInv, TypeOK, Pending
<1>2. period[p].status = "open" /\ claim = {w \in Workers : line[p][w].cut # 0}
  BY DEF FinaliseWrite, SerialInv, ReadsStillHold, StillOpen
<1>3. /\ adv' = Stamped(p, claim) /\ line' = line
      /\ period'[p].status = "finalised" /\ \A q \in Periods : q # p => period'[q] = period[q]
  BY <1>1, <1>2 DEF FinaliseWrite, Exists, SerialInv, TypeOK, Sheet
<1> HIDE DEF p, claim
<1>4. ASSUME NEW a \in Advances, IsStamped(a)' PROVE Backs(a)'
  <2>1. CASE \E w \in claim : a \in OpenAdvances(w)
    <3>1. PICK w \in claim : a \in OpenAdvances(w)
      BY <2>1
    <3>2. adv[a].state = "live" /\ adv[a].worker = w
      BY <3>1 DEF OpenAdvances
    <3>3. adv'[a] = [adv[a] EXCEPT !.period = p]
      BY <1>3, <2>1 DEF Stamped
    <3>4. adv'[a].state = "live" /\ adv'[a].worker = w /\ adv'[a].period = p
      BY <3>2, <3>3, AdvanceTypes DEF Advance
    <3>5. line[p][w].cut > 0
      <4>1. line[p][w] \in Line /\ line[p][w].cut # 0
        BY <1>1, <1>2 DEF SerialInv, TypeOK
      <4> QED BY <4>1 DEF Line
    <3> QED BY <1>3, <3>4, <3>5 DEF Backs, Frozen
  <2>2. CASE ~\E w \in claim : a \in OpenAdvances(w)
    <3>1. adv'[a] = adv[a]
      BY <1>3, <2>2 DEF Stamped
    <3>2. period[p].status \notin Frozen
      BY <1>2 DEF Frozen
    <3>3. Backs(a) /\ period'[adv[a].period].status \in Frozen /\ line'[adv[a].period][adv[a].worker].cut > 0
      BY <1>1, <1>3, <1>4, <3>1, <3>2, OtherSheets DEF IsStamped
    <3> QED BY <3>1, <3>3 DEF Backs
  <2> QED BY <2>1, <2>2
<1> QED BY <1>4 DEF StampsBelongToFrozenSheets, Backs, IsStamped

LEMMA PayStamps ==
  ASSUME OneRequest, SerialInv, StampsBelongToFrozenSheets, NEW r \in Requests, PayCommit(r)
  PROVE  StampsBelongToFrozenSheets'
<1>1. PICK p \in Periods, amt \in [Workers -> Nat] :
        /\ StillOwed(r, p)
        /\ period'[p].moved
        /\ period'[p].status = IF Settled(r) THEN "paid" ELSE period[p].status
        /\ \A q \in Periods : q # p => period'[q] = period[q] /\ line'[q] = line[q]
        /\ \A w \in Workers :
             /\ line[p][w] \in Line /\ amt[w] \in Nat
             /\ line'[p][w].on = line[p][w].on
             /\ line'[p][w].gross = line[p][w].gross /\ line'[p][w].cut = line[p][w].cut
             /\ line'[p][w].paid = line[p][w].paid + amt[w]
  BY PayCommitEffect
<1>2. \A q \in Periods : /\ period[q].status \in Frozen => period'[q].status \in Frozen
                          /\ \A w \in Workers : line'[q][w].cut = line[q][w].cut
  BY <1>1 DEF Frozen
<1>3. adv' = adv
  BY DEF PayCommit
<1>4. ASSUME NEW a \in Advances, IsStamped(a) PROVE Backs(a)'
  <2>1. Backs(a) /\ adv[a].period \in Periods /\ adv[a].worker \in Workers
    BY <1>4, StampsAre, AdvanceTypes DEF IsStamped
  <2> QED BY <1>2, <1>3, <2>1 DEF Backs
<1> QED BY <1>3, <1>4 DEF StampsBelongToFrozenSheets, Backs, IsStamped

(* A sheet that is discarded or reopened lets its advances go; no other loses its own. *)
LEMMA ReleaseStamps ==
  ASSUME SerialInv, StampsBelongToFrozenSheets, NEW p \in Periods, adv' = Released(p),
         \A q \in Periods : q # p => period'[q] = period[q] /\ line'[q] = line[q]
  PROVE  StampsBelongToFrozenSheets'
<1>1. ASSUME NEW a \in Advances, IsStamped(a)' PROVE Backs(a)'
  <2>1. CASE adv[a].period = p
    <3>1. adv'[a] = [adv[a] EXCEPT !.period = NoPeriod, !.given = FALSE]
      BY <2>1 DEF Released
    <3>2. adv'[a].period = NoPeriod
      BY <3>1, AdvanceTypes DEF Advance
    <3> QED BY <1>1, <3>2 DEF IsStamped
  <2>2. CASE adv[a].period # p
    <3>1. adv'[a] = adv[a]
      BY <2>2 DEF Released
    <3>2. Backs(a) /\ adv[a].period \in Periods
      BY <1>1, <3>1, StampsAre, AdvanceTypes DEF IsStamped
    <3> QED BY <2>2, <3>1, <3>2 DEF Backs
  <2> QED BY <2>1, <2>2
<1> QED BY <1>1 DEF StampsBelongToFrozenSheets, Backs, IsStamped

LEMMA DiscardStamps ==
  ASSUME SerialInv, StampsBelongToFrozenSheets, NEW r \in Requests, DiscardWrite(r)
  PROVE  StampsBelongToFrozenSheets'
<1>1. PICK p \in Periods : p = req[r].p
  BY DEF SerialInv, DiscardWrite, TypeOK, Pending
<1>2. adv' = Released(p) /\ \A q \in Periods : q # p => period'[q] = period[q] /\ line'[q] = line[q]
  BY <1>1 DEF DiscardWrite, SerialInv, TypeOK
<1> QED BY <1>2, ReleaseStamps

LEMMA ReopenStamps ==
  ASSUME SerialInv, StampsBelongToFrozenSheets, NEW r \in Requests, ReopenWrite(r)
  PROVE  StampsBelongToFrozenSheets'
<1>1. PICK p \in Periods : p = req[r].p
  BY DEF SerialInv, ReopenWrite, TypeOK, Pending
<1>2. period[p].status \in Frozen
  BY <1>1 DEF SerialInv, ReopenWrite, ReadsStillHold, Reopenable
<1>3. /\ adv' = Released(p) /\ line' = line
      /\ \A q \in Periods : q # p => period'[q] = period[q]
  BY <1>1, <1>2 DEF ReopenWrite, Exists, SerialInv, TypeOK
<1> QED BY <1>3, ReleaseStamps

LEMMA NextStamps ==
  ASSUME OneRequest, SerialInv, StampsBelongToFrozenSheets, [Next]_vars
  PROVE  StampsBelongToFrozenSheets'
<1>1. CASE UNCHANGED <<adv, period, line>>
  BY <1>1, UntouchedStamps
<1>2. CASE Attendance
  BY <1>1, <1>2 DEF Attendance, RecordCheck, RecordWrite
<1>3. CASE Payments
  BY <1>3, PaymentsStamps
<1>4. CASE Sheets
  <2> SUFFICES ASSUME NEW r \in Requests,
         \/ GenerateWrite(r) \/ \E win \in Windows : GenerateRead(r, win)
         \/ FinaliseWrite(r) \/ PaySettle(r) \/ PayCommit(r) \/ DiscardWrite(r) \/ ReopenWrite(r)
         \/ \E p \in Periods : FinaliseRead(r, p) \/ PayRead(r, p) \/ DiscardRead(r, p) \/ ReopenRead(r, p)
         PROVE StampsBelongToFrozenSheets'
    BY <1>4 DEF Sheets
  <2>1. CASE GenerateWrite(r) \/ FinaliseWrite(r) \/ PayCommit(r) \/ DiscardWrite(r) \/ ReopenWrite(r)
    BY <2>1, GenerateStamps, FinaliseStamps, PayStamps, DiscardStamps, ReopenStamps
  <2>2. CASE PaySettle(r) \/ \E win \in Windows : GenerateRead(r, win)
    BY <1>1, <2>2 DEF PaySettle, GenerateRead
  <2>3. CASE \E p \in Periods : FinaliseRead(r, p) \/ PayRead(r, p) \/ DiscardRead(r, p) \/ ReopenRead(r, p)
    BY <1>1, <2>3 DEF FinaliseRead, PayRead, DiscardRead, ReopenRead
  <2> QED BY <2>1, <2>2, <2>3
<1>5. CASE UNCHANGED vars
  BY <1>1, <1>5 DEF vars
<1> QED BY <1>2, <1>3, <1>4, <1>5 DEF Next

(* One request at a time, every stamp `finalise' gave is that of a sheet that is frozen and deducts *)
(* something from that worker, and no deleted advance carries one.                                  *)
THEOREM StampsStand ==
  ASSUME OneRequest, OneEach PROVE Spec => []StampsBelongToFrozenSheets
<1>1. SerialInv /\ StampsBelongToFrozenSheets /\ [Next]_vars => StampsBelongToFrozenSheets'
  BY NextStamps
<1> QED BY <1>1, InitStamps, SerialAlways, PTL DEF Spec
=============================================================================
