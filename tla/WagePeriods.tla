---------------------------- MODULE WagePeriods ----------------------------
(***************************************************************************)
(* The payroll core: the wage sheets of one contractor group, the          *)
(* attendance and advances they are drawn from, and the payments made      *)
(* against them.                                                           *)
(*                                                                         *)
(* Every handler is a READ COMMITTED transaction that reads, checks and    *)
(* then writes, with no lock between the two.  A request is therefore two  *)
(* steps: a read that leaves what it saw in req[r], and a write that acts  *)
(* on it, whatever was committed in between.  `pay' has a third, because   *)
(* it reads again while it holds the locks of the lines it wrote.  With a  *)
(* single element in Requests the handlers run one at a time.              *)
(*                                                                         *)
(* A day is worth one unit of money, an advance is one unit.               *)
(***************************************************************************)
EXTENDS Naturals, FiniteSets

CONSTANTS Workers, Salaried,   \* Salaried: the workers with payBasis = 'monthly'
          Days, Windows,       \* Windows: the period_start..period_end ranges asked for
          Periods, Advances,   \* identifiers of wage_periods rows and of advance rows
          Requests,            \* API requests (and the nightly draft job) in flight
          NoPeriod,            \* the null wage_period_id
          GivenPeriods,        \* wage_period_ids callers send with a payment of their own
          MaxLoose,            \* bound on the wage payments recorded by hand, per line
          MaxRepeat            \* how often one list of payments may name a worker

ASSUME GroupAssumption == Workers # {} /\ Salaried \subseteq Workers
ASSUME WindowAssumption == Windows \subseteq SUBSET Days /\ IsFiniteSet(Days)
ASSUME PoolAssumption == NoPeriod \notin Periods /\ IsFiniteSet(Advances)
ASSUME GivenAssumption == GivenPeriods \subseteq Periods \cup {NoPeriod}
ASSUME BoundAssumption == MaxLoose \in Nat /\ MaxRepeat \in Nat

VARIABLES att,      \* att[w][d]: the attendance row of worker w on day d
          adv,      \* adv[a]: an advance row of labour_payments; given, whether its caller named the period
          period,   \* period[p]: a wage_periods row
          line,     \* line[p][w]: the wage_lines row of w in p
          cash,     \* cash[p][w]: live wage payments to w whose wage_period_id is p
          req       \* req[r]: what the request in flight has read

vars == <<att, adv, period, line, cash, req>>

Marks == {"none", "present", "absent"}
Frozen == {"finalised", "paid"}

NoSheet   == [status |-> "unused", window |-> {}, moved |-> FALSE]
Discarded == [status |-> "discarded", window |-> {}, moved |-> FALSE]
NoLine    == [on |-> FALSE, gross |-> 0, cut |-> 0, paid |-> 0]
Idle      == [op |-> "idle"]

Net(l) == l.gross - l.cut
Exists(p) == period[p].status \in Frozen \cup {"open"}

-----------------------------------------------------------------------------
(* What a sheet is computed from. *)

(* wageLineTotals and monthlyWageLine: days worked, or the window less the absences. *)
Gross(w, win) ==
  IF w \in Salaried THEN Cardinality(win \ {d \in win : att[w][d] = "absent"})
                    ELSE Cardinality({d \in win : att[w][d] = "present"})

OpenAdvances(w) == {a \in Advances : adv[a].state = "live" /\ adv[a].worker = w /\ adv[a].period = NoPeriod}

(* netPayable: an advance is deducted up to the gross. *)
Deducted(gross, available) == IF available > gross THEN gross ELSE available

OnSheet(w, win) == w \in Salaried \/ \E d \in win : att[w][d] # "none"

(* The lines `generate' computes from what it has read. *)
Draft(win) ==
  [w \in Workers |->
     IF OnSheet(w, win)
     THEN [on |-> TRUE, gross |-> Gross(w, win),
           cut |-> Deducted(Gross(w, win), Cardinality(OpenAdvances(w))), paid |-> 0]
     ELSE NoLine]

CoversUntilPaid(p, d) == period[p].status = "finalised" /\ d \in period[p].window

(* assertPeriodsOpen: a finalised or paid period closes its days. *)
Covers(p, d) == period[p].status \in Frozen /\ d \in period[p].window

(* A wage_lines row is locked from the moment `pay' increments it until it commits. *)
Locked(p, ws) ==
  \E r \in Requests : /\ req[r].op = "settle" /\ req[r].p = p
                      /\ \E w \in ws : req[r].amt[w] > 0

Begin(r, what) == req[r] = Idle /\ req' = [req EXCEPT ![r] = what]
Finish(r) == req' = [req EXCEPT ![r] = Idle]

-----------------------------------------------------------------------------
(* Attendance: AttendanceService.record, one row of the roll call. *)

RecordCheck(r, w, d, m) ==
  /\ \A p \in Periods : ~Covers(p, d)
  /\ Begin(r, [op |-> "record", w |-> w, d |-> d, m |-> m])
  /\ UNCHANGED <<att, adv, period, line, cash>>

RecordWrite(r) ==
  /\ req[r].op = "record"
  /\ att' = [att EXCEPT ![req[r].w][req[r].d] = req[r].m]
  /\ Finish(r)
  /\ UNCHANGED <<adv, period, line, cash>>

-----------------------------------------------------------------------------
(* Labour payments: LabourPaymentsService.create and archive. *)

GiveAdvance(a, w, p) ==
  /\ adv[a].state = "unused"
  /\ p # NoPeriod => Exists(p)
  /\ adv' = [adv EXCEPT ![a] = [state |-> "live", worker |-> w, period |-> p, given |-> p # NoPeriod]]
  /\ UNCHANGED <<att, period, line, cash, req>>

(* `create' lets a wage payment in when the caller names the period. *)
RecordLooseWage(p, w) ==
  /\ Exists(p)
  /\ cash[p][w] < line[p][w].paid + MaxLoose
  /\ cash' = [cash EXCEPT ![p][w] = @ + 1]
  /\ UNCHANGED <<att, adv, period, line, req>>

ArchivableAnything(p) == TRUE

(* The guard of `archive': nothing attached to a wage period may be deleted. *)
Archivable(p) == p = NoPeriod

ArchiveCheck(r, a) ==
  /\ adv[a].state = "live" /\ Archivable(adv[a].period)
  /\ Begin(r, [op |-> "archive", a |-> a])
  /\ UNCHANGED <<att, adv, period, line, cash>>

ArchiveWrite(r) ==
  /\ req[r].op = "archive"
  /\ adv' = [adv EXCEPT ![req[r].a].state = "deleted"]
  /\ Finish(r)
  /\ UNCHANGED <<att, period, line, cash>>

ArchiveWage(p, w) ==
  /\ cash[p][w] > 0 /\ Archivable(p)
  /\ \E n \in 1 .. cash[p][w] : cash' = [cash EXCEPT ![p][w] = @ - n]
  /\ UNCHANGED <<att, adv, period, line, req>>

-----------------------------------------------------------------------------
(* WagePeriodsService.generate *)

GenerateRead(r, win) ==
  /\ \/ \E p \in Periods :
          /\ period[p].status = "open" /\ period[p].window = win
          /\ Begin(r, [op |-> "generate", p |-> p, win |-> win, plan |-> Draft(win)])
     \/ /\ \A p \in Periods : Exists(p) => period[p].window # win
        /\ Begin(r, [op |-> "generate", p |-> NoPeriod, win |-> win, plan |-> Draft(win)])
  /\ UNCHANGED <<att, adv, period, line, cash>>

(* deleteMany for the workers off the sheet, upsert for the others: paid_amount is kept. *)
Upserted(p, plan) ==
  [w \in Workers |-> IF plan[w].on THEN [plan[w] EXCEPT !.paid = line[p][w].paid] ELSE NoLine]

GenerateWrite(r) ==
  /\ req[r].op = "generate"
  /\ \/ \E p \in Periods :
          /\ req[r].p = NoPeriod /\ period[p].status = "unused"
          /\ period' = [period EXCEPT ![p] = [status |-> "open", window |-> req[r].win, moved |-> FALSE]]
          /\ line' = [line EXCEPT ![p] = Upserted(p, req[r].plan)]
     \/ /\ req[r].p # NoPeriod /\ Exists(req[r].p)
        /\ ~Locked(req[r].p, Workers)
        /\ line' = [line EXCEPT ![req[r].p] = Upserted(req[r].p, req[r].plan)]
        /\ UNCHANGED period
     \/ /\ req[r].p # NoPeriod /\ ~Exists(req[r].p)   \* the row is gone: rolled back
        /\ UNCHANGED <<period, line>>
  /\ Finish(r)
  /\ UNCHANGED <<att, adv, cash>>

-----------------------------------------------------------------------------
(* WagePeriodsService.finalise *)

FinaliseRead(r, p) ==
  /\ period[p].status = "open"
  /\ \E w \in Workers : line[p][w].on
  /\ Begin(r, [op |-> "finalise", p |-> p, claim |-> {w \in Workers : line[p][w].cut # 0}])
  /\ UNCHANGED <<att, adv, period, line, cash>>

(* Every open advance of a worker whose line deducts something is stamped. *)
Stamped(p, ws) ==
  [a \in Advances |-> IF \E w \in ws : a \in OpenAdvances(w)
                      THEN [adv[a] EXCEPT !.period = p] ELSE adv[a]]

FinaliseWrite(r) ==
  /\ req[r].op = "finalise"
  /\ IF ~Exists(req[r].p)
     THEN UNCHANGED <<adv, period>>
     ELSE /\ adv' = Stamped(req[r].p, req[r].claim)
          /\ period' = [period EXCEPT ![req[r].p].status = "finalised"]
  /\ Finish(r)
  /\ UNCHANGED <<att, line, cash>>

-----------------------------------------------------------------------------
(* WagePeriodsService.pay *)

OutstandingInFull(p, w) == Net(line[p][w])

Outstanding(p, w) == Net(line[p][w]) - line[p][w].paid
Owed(p, w) == line[p][w].on /\ Net(line[p][w]) > line[p][w].paid

(* A list of payments may name a worker several times; each of its payments is held *)
(* against the same outstanding amount.  Leaving the list out pays all of it.       *)
Payable(p, w) == IF Owed(p, w) THEN MaxRepeat * Outstanding(p, w) ELSE 0

PayRead(r, p) ==
  /\ period[p].status \in Frozen
  /\ \E amt \in [Workers -> 0 .. MaxRepeat * Cardinality(Days)] :
       /\ \E w \in Workers : amt[w] > 0
       /\ \A w \in Workers : amt[w] <= Payable(p, w)
       /\ Begin(r, [op |-> "pay", p |-> p, amt |-> amt])
  /\ UNCHANGED <<att, adv, period, line, cash>>

Payees(r) == {w \in Workers : req[r].amt[w] > 0}

SettledWhenOverpaid(r) ==
  \A w \in Workers : line[req[r].p][w].on =>
    line[req[r].p][w].paid + req[r].amt[w] > Net(line[req[r].p][w])

Settled(r) ==
  \A w \in Workers : line[req[r].p][w].on =>
    line[req[r].p][w].paid + req[r].amt[w] >= Net(line[req[r].p][w])

(* The line updates take the row locks; `settled' is then read with them. *)
PaySettle(r) ==
  /\ req[r].op = "pay"
  /\ IF \E w \in Payees(r) : ~line[req[r].p][w].on
     THEN Finish(r)
     ELSE /\ ~Locked(req[r].p, Payees(r))
          /\ req' = [req EXCEPT ![r] =
               [op |-> "settle", p |-> req[r].p, amt |-> req[r].amt, settled |-> Settled(r)]]
  /\ UNCHANGED <<att, adv, period, line, cash>>

PayCommit(r) ==
  /\ req[r].op = "settle"
  /\ line' = [line EXCEPT ![req[r].p] =
       [w \in Workers |->
          [line[req[r].p][w] EXCEPT !.paid = line[req[r].p][w].paid + req[r].amt[w]]]]
  /\ cash' = [cash EXCEPT ![req[r].p] = [w \in Workers |-> cash[req[r].p][w] + req[r].amt[w]]]
  /\ period' = [period EXCEPT
       ![req[r].p].moved = TRUE,
       ![req[r].p].status = IF req[r].settled THEN "paid" ELSE period[req[r].p].status]
  /\ Finish(r)
  /\ UNCHANGED <<att, adv>>

-----------------------------------------------------------------------------
(* WagePeriodsService.discard and reopen *)

(* What the guard of `discard' counts: any payment that names the period. *)
Attached(p) == \/ \E w \in Workers : cash[p][w] > 0
               \/ \E a \in Advances : adv[a].period = p

DiscardRead(r, p) ==
  /\ period[p].status = "open" /\ ~Attached(p)
  /\ Begin(r, [op |-> "discard", p |-> p])
  /\ UNCHANGED <<att, adv, period, line, cash>>

Kept(p) == adv

(* Whatever is stamped with p loses the stamp. *)
Released(p) ==
  [a \in Advances |-> IF adv[a].period = p THEN [adv[a] EXCEPT !.period = NoPeriod, !.given = FALSE]
                      ELSE adv[a]]

(* A hard delete; the foreign key of labour_payments is ON DELETE SET NULL. *)
DiscardWrite(r) ==
  /\ req[r].op = "discard"
  /\ ~Locked(req[r].p, Workers)
  /\ period' = [period EXCEPT ![req[r].p] = Discarded]
  /\ line' = [line EXCEPT ![req[r].p] = [w \in Workers |-> NoLine]]
  /\ adv' = Released(req[r].p)
  /\ cash' = [cash EXCEPT ![req[r].p] = [w \in Workers |-> 0],
                          ![NoPeriod] = [w \in Workers |-> cash[NoPeriod][w] + cash[req[r].p][w]]]
  /\ Finish(r)
  /\ UNCHANGED att

ReopenableAlways(p) == period[p].status \in Frozen

(* `moved' is total_paid > 0. *)
Reopenable(p) == period[p].status \in Frozen /\ ~period[p].moved

ReopenRead(r, p) ==
  /\ Reopenable(p)
  /\ Begin(r, [op |-> "reopen", p |-> p])
  /\ UNCHANGED <<att, adv, period, line, cash>>

ReopenWrite(r) ==
  /\ req[r].op = "reopen"
  /\ IF ~Exists(req[r].p)
     THEN UNCHANGED <<adv, period>>
     ELSE /\ adv' = Released(req[r].p)
          /\ period' = [period EXCEPT ![req[r].p].status = "open"]
  /\ Finish(r)
  /\ UNCHANGED <<att, line, cash>>

-----------------------------------------------------------------------------
Init ==
  /\ att = [w \in Workers |-> [d \in Days |-> "none"]]
  /\ adv = [a \in Advances |-> [state |-> "unused", worker |-> CHOOSE w \in Workers : TRUE,
                                period |-> NoPeriod, given |-> FALSE]]
  /\ period = [p \in Periods |-> NoSheet]
  /\ line = [p \in Periods |-> [w \in Workers |-> NoLine]]
  /\ cash = [p \in Periods \cup {NoPeriod} |-> [w \in Workers |-> 0]]
  /\ req = [r \in Requests |-> Idle]

Attendance == \E r \in Requests : RecordWrite(r) \/
  \E w \in Workers, d \in Days, m \in Marks \ {"none"} : RecordCheck(r, w, d, m)

Payments ==
  \/ \E a \in Advances, w \in Workers, p \in GivenPeriods : GiveAdvance(a, w, p)
  \/ \E p \in GivenPeriods \ {NoPeriod}, w \in Workers : RecordLooseWage(p, w)
  \/ \E p \in Periods \cup {NoPeriod}, w \in Workers : ArchiveWage(p, w)
  \/ \E r \in Requests : ArchiveWrite(r) \/ \E a \in Advances : ArchiveCheck(r, a)

Sheets == \E r \in Requests :
  \/ GenerateWrite(r) \/ \E win \in Windows : GenerateRead(r, win)
  \/ FinaliseWrite(r) \/ PaySettle(r) \/ PayCommit(r) \/ DiscardWrite(r) \/ ReopenWrite(r)
  \/ \E p \in Periods : FinaliseRead(r, p) \/ PayRead(r, p) \/ DiscardRead(r, p) \/ ReopenRead(r, p)

Next == Attendance \/ Payments \/ Sheets

Spec == Init /\ [][Next]_vars

-----------------------------------------------------------------------------
(* Types. *)

Line == {l \in [on : BOOLEAN, gross : Nat, cut : Nat, paid : Nat] : l.cut <= l.gross}
Sheet == [status : Frozen \cup {"open", "unused", "discarded"}, window : SUBSET Days, moved : BOOLEAN]
Advance ==
  [state : {"unused", "live", "deleted"}, worker : Workers, period : Periods \cup {NoPeriod}, given : BOOLEAN]
Pending ==
  [op : {"idle"}]
  \cup [op : {"record"}, w : Workers, d : Days, m : Marks]
  \cup [op : {"archive"}, a : Advances]
  \cup [op : {"generate"}, p : Periods \cup {NoPeriod}, win : SUBSET Days, plan : [Workers -> Line]]
  \cup [op : {"finalise"}, p : Periods, claim : SUBSET Workers]
  \cup [op : {"pay"}, p : Periods, amt : [Workers -> Nat]]
  \cup [op : {"settle"}, p : Periods, amt : [Workers -> Nat], settled : BOOLEAN]
  \cup [op : {"discard", "reopen"}, p : Periods]

(* Every row and every request in flight has its type; in particular a line never *)
(* deducts more than it earns (netPayable floors the net at zero).                *)
TypeOK ==
  /\ att \in [Workers -> [Days -> Marks]]
  /\ adv \in [Advances -> Advance]
  /\ period \in [Periods -> Sheet]
  /\ line \in [Periods -> [Workers -> Line]]
  /\ cash \in [Periods \cup {NoPeriod} -> [Workers -> Nat]]
  /\ req \in [Requests -> Pending]

-----------------------------------------------------------------------------
(* What holds whatever requests overlap. *)

(* No sheet says a worker was paid without a wage payment that says so too: *)
(* `pay' writes both in one transaction and `archive' refuses what a period *)
(* holds (the comment on LabourPaymentsService.archive).                    *)
PaidIsBacked == \A p \in Periods, w \in Workers : line[p][w].paid <= cash[p][w]

-----------------------------------------------------------------------------
(* What holds as long as requests do not overlap and no list names a worker twice. *)

(* Nobody is paid more than the net of his line, through any sequence of partial *)
(* payments, reopenings and regenerations (`pay' against `reopen', `generate').  *)
PaidWithinNet == \A p \in Periods, w \in Workers : line[p][w].paid <= Net(line[p][w])

(* A period is `paid' exactly when money moved and no line is short of its net. *)
PaidMeansSettled ==
  \A p \in Periods : period[p].status \in Frozen =>
    (period[p].status = "paid" <=>
       period[p].moved /\ \A w \in Workers : line[p][w].paid = Net(line[p][w]))

(* A stamp is only ever held by a frozen sheet that deducts something from that    *)
(* worker, and never by a deleted advance (`finalise', `reopen', `archive').  An   *)
(* advance whose caller named the sheet was not stamped by it; once the sheet lets *)
(* it go it is an advance like any other.                                          *)
StampsBelongToFrozenSheets ==
  \A a \in Advances : adv[a].period # NoPeriod /\ ~adv[a].given =>
    /\ adv[a].state = "live"
    /\ period[adv[a].period].status \in Frozen
    /\ line[adv[a].period][adv[a].worker].cut > 0

StaysFrozen(p) == period[p].status \in Frozen /\ period'[p].status \in Frozen

(* Spec 8A: `finalise' locks the attendance for that range and freezes the lines. *)
FrozenSheetIsFinal ==
  [][\A p \in Periods : StaysFrozen(p) =>
       \A w \in Workers :
         /\ \A d \in period[p].window : att'[w][d] = att[w][d]
         /\ line'[p][w].on = line[p][w].on
         /\ line'[p][w].gross = line[p][w].gross
         /\ line'[p][w].cut = line[p][w].cut]_vars

(* Once money has moved the sheet is the record of what was paid: it never reopens *)
(* and no line forgets a payment (the comment on `reopen').                        *)
MoneyPinsTheSheet ==
  [][\A p \in Periods : period[p].moved =>
       /\ period'[p].moved /\ period'[p].status \in Frozen
       /\ \A w \in Workers : line'[p][w].paid >= line[p][w].paid]_vars

-----------------------------------------------------------------------------
(* The inductive form of what holds as long as requests do not overlap. *)

OneRequest == \A r, q \in Requests : r = q
OneEach == MaxRepeat = 1

(* A sheet has lines and money only in the states that allow them. *)
SheetsInOrder ==
  \A p \in Periods :
    /\ period[p].moved => period[p].status \in Frozen
    /\ \A w \in Workers :
         /\ ~Exists(p) \/ ~line[p][w].on => line[p][w] = NoLine
         /\ line[p][w].paid > 0 => period[p].moved

(* What the request in flight has read is still so. *)
StillOpen(p) == period[p].status = "open"
StillOwed(r, p) ==
  /\ period[p].status \in Frozen
  /\ \E w \in Workers : req[r].amt[w] > 0
  /\ \A w \in Workers : req[r].amt[w] > 0 =>
       line[p][w].on /\ line[p][w].paid + req[r].amt[w] <= Net(line[p][w])

ReadsStillHold ==
  \A r \in Requests :
    /\ req[r].op = "record" => \A p \in Periods : ~Covers(p, req[r].d)
    /\ req[r].op = "archive" => adv[req[r].a].state = "live" /\ adv[req[r].a].period = NoPeriod
    /\ req[r].op = "generate" /\ req[r].p # NoPeriod => StillOpen(req[r].p)
    /\ req[r].op = "finalise" =>
         StillOpen(req[r].p) /\ req[r].claim = {w \in Workers : line[req[r].p][w].cut # 0}
    /\ req[r].op = "pay" => StillOwed(r, req[r].p)
    /\ req[r].op = "settle" => StillOwed(r, req[r].p) /\ req[r].settled = Settled(r)
    /\ req[r].op = "discard" => StillOpen(req[r].p)
    /\ req[r].op = "reopen" => Reopenable(req[r].p)

SerialInv ==
  TypeOK /\ SheetsInOrder /\ ReadsStillHold /\ PaidWithinNet /\ PaidMeansSettled

-----------------------------------------------------------------------------
(* What the repository says and the code does not do. *)

(* ADR 0003: what a thin week does not cover stays outstanding, to be deducted later. *)
RemainderStaysOutstanding ==
  \A p \in Periods, w \in Workers : period[p].status \in Frozen =>
    Cardinality({a \in Advances : adv[a].period = p /\ adv[a].worker = w}) <= line[p][w].cut

(* `finalise' claims what the lines deducted, so no second period deducts it again. *)
DeductedOnce ==
  \A w \in Workers, p, q \in Periods :
    p # q /\ period[p].status \in Frozen /\ period[q].status \in Frozen =>
      line[p][w].cut + line[q][w].cut
        <= Cardinality({a \in Advances : adv[a].state # "unused" /\ adv[a].worker = w})

(* A wage payment keeps the line totals in step: paid_amount is never stale. *)
PaidIsInStep == \A p \in Periods, w \in Workers : line[p][w].paid = cash[p][w]

(* There is one sheet per window (the comment on `discard'). *)
OneSheetPerWindow ==
  \A p, q \in Periods : Exists(p) /\ Exists(q) /\ period[p].window = period[q].window => p = q
=============================================================================
