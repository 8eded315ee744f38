------------------------------ MODULE RollCall ------------------------------
(***************************************************************************)
(* One day of attendance across the sites of a company: the roll calls     *)
(* that record it (AttendanceService.record, which online devices and      *)
(* SyncService.applyAttendance both end in) and the rule that a worker is  *)
(* not booked for more than a day (rule 3 of `record').                    *)
(*                                                                         *)
(* `record' is a READ COMMITTED transaction with no locks: it checks in    *)
(* one step and writes in the next.  Whether the day is covered by a       *)
(* frozen wage period is decided elsewhere (WagePeriods); here it is a     *)
(* switch of the environment.                                              *)
(***************************************************************************)
EXTENDS Naturals, FiniteSets

CONSTANTS Workers, Sites, Requests

ASSUME SitesAssumption == IsFiniteSet(Sites)

VARIABLES roll,    \* roll[s][w]: the attendance row of w at site s on the day
          closed,  \* a finalised or paid wage period covers the day
          req      \* req[r]: the roll call in flight

rollVars == <<roll, closed, req>>

Statuses == {"present", "half_day", "absent"}
Marks == Statuses \cup {"none"}   \* "none": no row, or a worker the call does not list
Idle == [op |-> "idle"]

OthersHere(s) == {s}

Others(s) == Sites \ {s}

(* new Map(rows): of the rows a worker has elsewhere, the last one read is kept, *)
(* and the query has no order.                                                   *)
Busy(s, w) ==
  LET found == {roll[q][w] : q \in Others(s)} \ {"none"}
  IN  IF found = {} THEN {"none"} ELSE found

Clash(other, status) ==
  /\ other # "none" /\ status # "absent"
  /\ other = "present" \/ status = "present"

Refuses(conflicts) == conflicts # {}

Listed(call) == {w \in Workers : call[w] # "none"}

(* The whole call is refused when one of its rows is. *)
RecordCheck(r, s, call) ==
  /\ req[r] = Idle /\ ~closed /\ Listed(call) # {}
  /\ \E busy \in [Workers -> Marks] :
       /\ \A w \in Workers : busy[w] \in Busy(s, w)
       /\ LET conflicts == {w \in Listed(call) : Clash(busy[w], call[w])}
          IN  req' = [req EXCEPT ![r] =
                IF Refuses(conflicts) THEN [op |-> "refused", site |-> s, who |-> conflicts]
                ELSE [op |-> "record", site |-> s, call |-> call]]
  /\ UNCHANGED <<roll, closed>>

RecordWrite(r) ==
  /\ req[r].op = "record"
  /\ roll' = [roll EXCEPT ![req[r].site] =
       [w \in Workers |-> IF w \in Listed(req[r].call) THEN req[r].call[w] ELSE roll[req[r].site][w]]]
  /\ req' = [req EXCEPT ![r] = Idle]
  /\ UNCHANGED closed

Refused(r) ==
  /\ req[r].op = "refused"
  /\ req' = [req EXCEPT ![r] = Idle]
  /\ UNCHANGED <<roll, closed>>

(* A wage period over the day is finalised, or the last one reopened. *)
PeriodChanges == closed' = ~closed /\ UNCHANGED <<roll, req>>

RollInit ==
  /\ roll = [s \in Sites |-> [w \in Workers |-> "none"]]
  /\ closed = FALSE
  /\ req = [r \in Requests |-> Idle]

RollNext ==
  \/ \E r \in Requests : RecordWrite(r) \/ Refused(r)
  \/ \E r \in Requests, s \in Sites, call \in [Workers -> Marks] : RecordCheck(r, s, call)
  \/ PeriodChanges

RollSpec == RollInit /\ [][RollNext]_rollVars

-----------------------------------------------------------------------------
Pending ==
  [op : {"idle"}]
  \cup [op : {"record"}, site : Sites, call : [Workers -> Marks]]
  \cup [op : {"refused"}, site : Sites, who : (SUBSET Workers) \ {{}}]

(* Rows and requests keep their types; a refusal always names somebody. *)
RollTypeOK ==
  /\ roll \in [Sites -> [Workers -> Marks]]
  /\ closed \in BOOLEAN
  /\ req \in [Requests -> Pending]

(* The double_booked rule of the nightly checks (leak-rules.ts), in half days. *)
HalfDays(w) ==
  2 * Cardinality({s \in Sites : roll[s][w] = "present"})
    + Cardinality({s \in Sites : roll[s][w] = "half_day"})

DoubleBooked == {w \in Workers : HalfDays(w) > 2}

(* Spec 8A, edge cases: the API rejects two `present' rows on the same date.  One   *)
(* roll call at a time this holds for any number of sites, although `record' looks  *)
(* at one other row only: a present row is let in when there is no other row at all. *)
OnePresentRow ==
  \A w \in Workers, s, q \in Sites :
    roll[s][w] = "present" /\ roll[q][w] = "present" => s = q

(* Nobody is booked for more than one day's work, as leak-rules.ts takes the roll call *)
(* to see to: so it does over two sites.  Over three it does not, one call at a time:  *)
(* two other rows are never added up.                                                  *)
NeverOverbooked == DoubleBooked = {}

(* A worker the roll call refuses is on another site, as the refusal says. *)
RefusalIsTrue ==
  \A r \in Requests : req[r].op = "refused" =>
    \A w \in req[r].who :
      \E q \in Others(req[r].site) : roll[q][w] \in {"present", "half_day"}

-----------------------------------------------------------------------------
(* The inductive form, one roll call at a time. *)

OneRequest == \A r, q \in Requests : r = q

(* What a call about to be written saw is still so. *)
ChecksStillHold ==
  \A r \in Requests : req[r].op = "record" =>
    \A w \in Listed(req[r].call) :
      \E other \in Busy(req[r].site, w) : ~Clash(other, req[r].call[w])
=============================================================================
