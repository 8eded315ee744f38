--------------------------- MODULE PublicApiProofs ---------------------------
(***************************************************************************)
(* What the public API keeps of its promises, whoever calls it and however  *)
(* many processes serve it.  Outgoing webhooks: unless a claim on it ran out *)
(* under the sender that had it in hand, no two senders have the same        *)
(* delivery in hand (ClaimsHold), a decided delivery is never moved again    *)
(* (DecidedStays), and the log has one line for every try (LogIsExact);      *)
(* WebhookTypes bounds what a sender may take.  Idempotency keys:            *)
(* one write per key and day besides those reported as errors (OncePerKey), *)
(* and replays that are the answer to the same request (ReplaysAreTrue);    *)
(* both rest on KeyInv: the key of a call at work is its own.               *)
(***************************************************************************)
EXTENDS WebhookDelivery, Idempotency, TLAPS

(* Outgoing webhooks. *)

TimedInv == TypeOK /\ WithinBudget /\ CountsInRange

LEMMA Numbers ==
  /\ Batch \in Nat \ {0} /\ SendTime \in Nat \ {0} /\ ClaimTime \in Nat \ {0} /\ Delay \in Nat \ {0}
  /\ MaxAttempts \in Nat \ {0} /\ MaxCrashes \in Nat
BY CountAssumption

LEMMA Products ==
  /\ Late \in Nat /\ Expired \in Int
  /\ \A n \in Nat : n * SendTime \in Nat
  /\ \A n \in 1..Batch : (n - 1) * SendTime + SendTime <= Late
  /\ \A n \in Nat \ {0} : (n - 1) * SendTime + SendTime = n * SendTime
<1>1. \A n \in Nat : n * SendTime \in Nat
  BY Numbers
<1>2. Late \in Nat /\ Expired \in Int
  BY <1>1, Numbers DEF Late, Expired
<1>3. \A n \in Nat \ {0} : (n - 1) * SendTime + SendTime = n * SendTime
  BY Numbers
<1>4. ASSUME NEW n \in 1..Batch PROVE n * SendTime <= Batch * SendTime
  BY Numbers
<1>5. \A n \in 1..Batch : (n - 1) * SendTime + SendTime <= Late
  BY <1>3, <1>4, Numbers DEF Late
<1> QED BY <1>1, <1>2, <1>3, <1>5

-----------------------------------------------------------------------------
(* What the senders do. *)

SenderRecord ==
  [stage : {"idle", "next", "sending", "off"}, todo : Seq(Deliveries),
   age : 0..Late, left : 0..SendTime, attempt : 0..MaxAttempts]

(* A sender with something to do, within the time it may take. *)
Busy(r) ==
  /\ r.stage \in {"next", "sending", "off"} /\ Len(r.todo) > 0
  /\ r.age + r.left + (Len(r.todo) - 1) * SendTime
       + (IF r.stage = "next" THEN SendTime ELSE 0) <= Late

Fit(r) == r \in SenderRecord /\ (r = Idle \/ Busy(r))

LEMMA FitIs == TypeOK /\ WithinBudget => \A s \in Senders : Fit(sender[s])
<1> SUFFICES ASSUME TypeOK, WithinBudget, NEW s \in Senders PROVE Fit(sender[s])
  OBVIOUS
<1>1. sender[s] \in SenderRecord
  BY DEF TypeOK, SenderRecord
<1>2. ASSUME sender[s] # Idle PROVE Busy(sender[s])
  <2>1. PICK n \in Nat : n = Len(sender[s].todo)
    BY <1>1 DEF SenderRecord
  <2>2. (n - 1) * SendTime \in Int
    BY <2>1, Numbers
  <2>3. /\ sender[s].stage # "idle" /\ n > 0
        /\ sender[s].age + Ahead(s) <= Late
    BY <1>2, <2>1 DEF WithinBudget
  <2>4. sender[s].age \in Int /\ sender[s].left \in Int /\ sender[s].stage \in {"idle", "next", "sending", "off"}
    BY <1>1, Products, Numbers DEF SenderRecord
  <2>5. PICK x \in Int : x = (n - 1) * SendTime
    BY <2>2
  <2>6. Ahead(s) = sender[s].left + x + (IF sender[s].stage = "next" THEN SendTime ELSE 0)
    BY <2>1, <2>5 DEF Ahead
  <2>7. sender[s].age + sender[s].left + x + (IF sender[s].stage = "next" THEN SendTime ELSE 0) <= Late
    BY <2>3, <2>4, <2>6, Numbers, Products
  <2> QED BY <2>1, <2>3, <2>4, <2>5, <2>7 DEF Busy
<1> QED BY <1>1, <1>2 DEF Fit

LEMMA FitMakes ==
  ASSUME sender' \in [Senders -> SenderRecord], \A s \in Senders : Fit(sender'[s])
  PROVE  WithinBudget'
<1> SUFFICES ASSUME NEW s \in Senders, sender'[s] # Idle
             PROVE  /\ sender'[s].stage # "idle" /\ Len(sender'[s].todo) > 0
                    /\ sender'[s].age + Ahead(s)' <= Late
  BY DEF WithinBudget
<1>1. Busy(sender'[s]) /\ sender'[s] \in SenderRecord
  BY DEF Fit
<1>2. Ahead(s)' = sender'[s].left + (Len(sender'[s].todo) - 1) * SendTime
                  + (IF sender'[s].stage = "next" THEN SendTime ELSE 0)
  BY DEF Ahead
<1>3. (Len(sender'[s].todo) - 1) * SendTime \in Int
  BY <1>1, Numbers DEF SenderRecord
<1> QED BY <1>1, <1>2, <1>3, Numbers, Products DEF Busy, SenderRecord

LEMMA IdleFits == Fit(Idle)
BY Numbers, Products DEF Fit, Idle, SenderRecord

LEMMA BeginFits ==
  ASSUME NEW q \in Seq(Deliveries), Len(q) \in 1..Batch
  PROVE  Fit(About(q, 0))
<1> DEFINE r == About(q, 0)
<1>1. r = [stage |-> "next", todo |-> q, age |-> 0, left |-> 0, attempt |-> 0]
  BY DEF About
<1>2. r \in SenderRecord
  <2>1. 0 \in 0..Late /\ 0 \in 0..SendTime /\ 0 \in 0..MaxAttempts
    BY Numbers, Products
  <2> HIDE DEF r
  <2> QED BY <1>1, <2>1 DEF SenderRecord
<1>3. (Len(q) - 1) * SendTime + SendTime <= Late /\ (Len(q) - 1) * SendTime \in Int
  BY Products, Numbers
<1>4. Busy(r)
  <2> HIDE DEF r
  <2> QED BY <1>1, <1>3, Numbers, Products DEF Busy
<1> QED BY <1>2, <1>4 DEF Fit

LEMMA SweepFits ==
  ASSUME NEW q \in Sweeps PROVE q \in Seq(Deliveries) /\ Len(q) \in 1..Batch
<1>1. PICK n \in 1..Batch : q \in [1..n -> {d \in Deliveries : Due(d, 0)}]
  BY DEF Sweeps
<1>2. q \in Seq(Deliveries) /\ Len(q) = n
  BY <1>1, Numbers
<1> QED BY <1>2

(* What Turn leaves behind. *)
After(r) == IF Len(r.todo) = 1 THEN Idle ELSE About(Tail(r.todo), r.age)

LEMMA TurnFits ==
  ASSUME NEW r, Fit(r), r # Idle, r.stage \in {"next", "sending", "off"}
  PROVE  Fit(After(r))
<1>1. CASE Len(r.todo) = 1
  BY <1>1, IdleFits DEF After
<1>2. CASE Len(r.todo) # 1
  <2>1. r \in SenderRecord /\ Busy(r)
    BY DEF Fit
  <2>2. Len(r.todo) \in Nat /\ Len(r.todo) > 1
    <3>1. r.todo \in Seq(Deliveries) /\ Len(r.todo) > 0
      BY <2>1 DEF SenderRecord, Busy
    <3>2. PICK n \in Nat : n = Len(r.todo)
      BY <3>1
    <3>3. n # 1 /\ n > 0
      BY <1>2, <3>1, <3>2
    <3> HIDE <3>2
    <3>4. n > 1
      BY <3>3
    <3> QED BY <3>2, <3>4
  <2>3. PICK n \in Nat : n = Len(r.todo) - 1 /\ n > 0
    BY <2>2
  <2>4. After(r) = [stage |-> "next", todo |-> Tail(r.todo), age |-> r.age, left |-> 0, attempt |-> 0]
    BY <1>2 DEF After, About
  <2>5. Tail(r.todo) \in Seq(Deliveries) /\ Len(Tail(r.todo)) = n
    BY <2>1, <2>2, <2>3 DEF SenderRecord
  <2>6. (n - 1) * SendTime + SendTime = n * SendTime /\ n * SendTime \in Nat /\ (n - 1) * SendTime \in Int
    BY <2>3, Products, Numbers
  <2>7. r.age \in 0..Late /\ r.left \in 0..SendTime /\ Late \in Nat
    BY <2>1, Products DEF SenderRecord
  <2>8. r.age + n * SendTime <= Late
    BY <2>1, <2>3, <2>6, <2>7, Numbers DEF Busy
  <2>9. After(r) \in SenderRecord
    BY <2>4, <2>5, <2>7, Numbers DEF SenderRecord
  <2>10. Busy(After(r))
    BY <2>4, <2>5, <2>3, <2>6, <2>7, <2>8, Numbers DEF Busy
  <2> QED BY <2>9, <2>10 DEF Fit
<1> QED BY <1>1, <1>2

(* A busy sender's terms, for the arithmetic. *)
LEMMA BusyTerms ==
  ASSUME NEW r \in SenderRecord, Busy(r)
  PROVE  \E x \in Nat :
           /\ x = (Len(r.todo) - 1) * SendTime
           /\ r.age \in Nat /\ r.left \in Nat
           /\ r.age + r.left + x + (IF r.stage = "next" THEN SendTime ELSE 0) <= Late
<1>1. r.todo \in Seq(Deliveries) /\ Len(r.todo) > 0
  BY DEF SenderRecord, Busy
<1>2. PICK n \in Nat : n = Len(r.todo) - 1
  BY <1>1, SMTT(30)
<1>3. n * SendTime \in Nat
  BY Products
<1>4. r.age \in Nat /\ r.left \in Nat
  BY Products, Numbers DEF SenderRecord
<1> QED BY <1>2, <1>3, <1>4 DEF Busy

LEMMA ClaimFits ==
  ASSUME NEW r \in SenderRecord, Busy(r), r.stage = "next", NEW n \in 1..MaxAttempts,
         NEW on \in BOOLEAN, NEW next,
         next = [r EXCEPT !.stage = IF on THEN "sending" ELSE "off",
                          !.left = IF on THEN SendTime ELSE 0, !.attempt = n]
  PROVE  Fit(next)
<1>1. PICK x \in Nat : /\ x = (Len(r.todo) - 1) * SendTime
                       /\ r.age \in Nat /\ r.left \in Nat
                       /\ r.age + r.left + x + SendTime <= Late
  BY BusyTerms
<1>2. /\ next.stage = (IF on THEN "sending" ELSE "off") /\ next.todo = r.todo /\ next.age = r.age
      /\ next.left = (IF on THEN SendTime ELSE 0)
  BY DEF SenderRecord
<1>3. next \in SenderRecord
  <2>1. next.left \in 0..SendTime /\ n \in 0..MaxAttempts
    BY <1>2, Numbers
  <2> QED BY <1>2, <2>1 DEF SenderRecord
<1>4. Len(next.todo) > 0
  BY <1>2 DEF Busy
<1>5. r.age + next.left + x <= Late
  <2>1. PICK a \in Nat, b \in Nat : a = r.age /\ b = r.left
    BY <1>1
  <2>2. a + b + x + SendTime <= Late
    BY <1>1, <2>1
  <2>3. a + SendTime + x <= Late /\ a + 0 + x <= Late
    BY <2>2, Numbers, Products
  <2> QED BY <1>2, <2>1, <2>3
<1>6. Busy(next)
  <2>1. next.stage \in {"sending", "off"} /\ next.stage # "next"
    BY <1>2
  <2>2. (Len(next.todo) - 1) * SendTime = x /\ next.age = r.age
    BY <1>1, <1>2
  <2>3. r.age + next.left + x + 0 <= Late
    BY <1>1, <1>2, <1>5, Numbers
  <2> QED BY <1>4, <2>1, <2>2, <2>3 DEF Busy
<1> QED BY <1>3, <1>6 DEF Fit

LEMMA TickFits ==
  ASSUME NEW r \in SenderRecord, Busy(r), r.stage = "sending", r.left > 0, NEW next,
         next = [r EXCEPT !.age = r.age + 1, !.left = r.left - 1]
  PROVE  Fit(next)
<1>1. PICK x \in Nat : /\ x = (Len(r.todo) - 1) * SendTime
                       /\ r.age \in Nat /\ r.left \in Nat
                       /\ r.age + r.left + x <= Late
  BY BusyTerms, Products
<1>2. /\ next.stage = "sending" /\ next.todo = r.todo /\ next.age = r.age + 1 /\ next.left = r.left - 1
  BY DEF SenderRecord
<1>3. r.age + 1 \in 0..Late /\ r.left - 1 \in 0..SendTime
  <2>1. PICK a \in Nat, b \in 0..SendTime : a = r.age /\ b = r.left
    BY <1>1 DEF SenderRecord
  <2>2. a + b + x <= Late /\ b > 0
    BY <1>1, <2>1
  <2>3. a + 1 \in 0..Late /\ b - 1 \in 0..SendTime
    BY <2>2, Numbers, Products
  <2> QED BY <2>1, <2>3
<1>4. next \in SenderRecord
  BY <1>3 DEF SenderRecord
<1>5. next.age + next.left + x <= Late
  BY <1>1, <1>2, Products
<1>6. Busy(next)
  BY <1>1, <1>2, <1>5, Products DEF Busy
<1> QED BY <1>4, <1>6 DEF Fit

-----------------------------------------------------------------------------
(* What the steps do to the rows. *)

RowRecord ==
  [status : {"none", "pending", "sending", "succeeded", "failed"}, due : (-Late)..Delay,
   lock : Expired..ClaimTime, count : 0..MaxAttempts]

(* A row that is still to be sent has a try left. *)
HasTry(r) ==
  /\ r \in RowRecord
  /\ r.status \in {"pending", "sending"} => r.count < MaxAttempts
  /\ r.status = "none" => r = NoRow

LEMMA HasTryIs == TypeOK /\ CountsInRange => \A d \in Deliveries : HasTry(row[d])
BY DEF TypeOK, CountsInRange, HasTry, RowRecord

LEMMA TimedMakes ==
  ASSUME TypeOK, row' \in [Deliveries -> RowRecord], \A d \in Deliveries : HasTry(row'[d]),
         sender' \in [Senders -> SenderRecord], \A s \in Senders : Fit(sender'[s]),
         log' \in [Deliveries -> [1..MaxAttempts -> Nat]],
         active' \in BOOLEAN, strayed' \subseteq Deliveries, crashes' \in 0..MaxCrashes
  PROVE  TimedInv'
<1>1. WithinBudget'
  BY FitMakes
<1>2. TypeOK'
  BY DEF TypeOK, RowRecord, SenderRecord
<1>3. CountsInRange'
  BY DEF CountsInRange, HasTry
<1> QED BY <1>1, <1>2, <1>3 DEF TimedInv

LEMMA NoRowHasTry == HasTry(NoRow) /\ HasTry([NoRow EXCEPT !.status = "pending"])
<1>1. 0 \in (-Late)..Delay /\ Expired \in Expired..ClaimTime /\ 0 \in 0..MaxAttempts /\ 0 < MaxAttempts
  BY Numbers, Products DEF Expired
<1>2. NoRow = [status |-> "none", due |-> 0, lock |-> Expired, count |-> 0]
  BY DEF NoRow
<1>3. [NoRow EXCEPT !.status = "pending"] = [status |-> "pending", due |-> 0, lock |-> Expired, count |-> 0]
  BY <1>2
<1> QED BY <1>1, <1>2, <1>3 DEF HasTry, RowRecord

LEMMA PassedRange ==
  /\ \A t \in Int : t <= Delay => Passed(t, -Late) \in (-Late)..Delay
  /\ \A t \in Int : t <= ClaimTime => Passed(t, Expired) \in Expired..ClaimTime
BY Numbers, Products DEF Passed, Expired

-----------------------------------------------------------------------------
(* Every step keeps the types and the time a sender may take. *)

LEMMA BeginStep ==
  ASSUME TimedInv, NEW s \in Senders, NEW q \in Seq(Deliveries), Len(q) \in 1..Batch, Begin(s, q)
  PROVE  TimedInv'
<1>1. \A t \in Senders : Fit(sender[t])
  BY FitIs DEF TimedInv
<1>2. Fit(About(q, 0))
  BY BeginFits
<1>3. sender' = [sender EXCEPT ![s] = About(q, 0)] /\ UNCHANGED <<row, log, active, strayed, crashes>>
  BY DEF Begin
<1>4. sender' \in [Senders -> SenderRecord] /\ \A t \in Senders : Fit(sender'[t])
  BY <1>1, <1>2, <1>3 DEF TimedInv, TypeOK, SenderRecord, Fit
<1> QED BY <1>3, <1>4, TimedMakes, HasTryIs DEF TimedInv, TypeOK, RowRecord

(* A sender turns to its next delivery, its row and the log having been written. *)
LEMMA TurnStep ==
  ASSUME TimedInv, NEW s \in Senders, sender[s].stage \in {"next", "sending", "off"}, Turn(s)
  PROVE  sender' \in [Senders -> SenderRecord] /\ \A t \in Senders : Fit(sender'[t])
<1>1. \A t \in Senders : Fit(sender[t])
  BY FitIs DEF TimedInv
<1>2. sender[s] # Idle
  BY DEF Idle
<1>3. Fit(After(sender[s]))
  BY <1>1, <1>2, TurnFits
<1>4. sender' = [sender EXCEPT ![s] = After(sender[s])]
  BY DEF Turn, After
<1> QED BY <1>1, <1>3, <1>4 DEF TimedInv, TypeOK, SenderRecord, Fit

(* The delivery a sender is about. *)
LEMMA HeadIs ==
  ASSUME TimedInv, NEW s \in Senders, sender[s].stage \in {"next", "sending", "off"}
  PROVE  /\ Head(sender[s].todo) \in Deliveries /\ sender[s] \in SenderRecord /\ Busy(sender[s])
         /\ sender[s].age \in 0..Late
<1>1. sender[s] \in SenderRecord /\ Busy(sender[s])
  BY FitIs DEF TimedInv, Fit, Idle
<1>2. sender[s].todo \in Seq(Deliveries) /\ Len(sender[s].todo) > 0
  BY <1>1 DEF SenderRecord, Busy
<1>3. Head(sender[s].todo) \in Deliveries
  BY <1>2
<1> QED BY <1>1, <1>3 DEF SenderRecord

LEMMA ClaimStep == ASSUME TimedInv, NEW s \in Senders, Claim(s) PROVE TimedInv'
<1>1. sender[s].stage = "next"
  BY DEF Claim
<1>2. PICK d \in Deliveries : d = Head(sender[s].todo)
  BY <1>1, HeadIs
<1>3. sender[s].age \in 0..Late /\ sender[s] \in SenderRecord /\ Busy(sender[s])
  BY <1>1, HeadIs
<1>4. /\ row[d].status \in {"pending", "sending"}
      /\ row' = [row EXCEPT ![d].status = "sending", ![d].lock = ClaimTime - sender[s].age]
      /\ UNCHANGED <<log, active, crashes>>
  BY <1>2 DEF Claim, Due
<1>5. HasTry(row[d]) /\ row[d].count \in 0..MaxAttempts /\ row[d].count < MaxAttempts
  BY <1>4, HasTryIs DEF TimedInv, HasTry, RowRecord
<1>6. PICK n \in 1..MaxAttempts : n = row[d].count + 1
  BY <1>5, Numbers
<1>7. PICK next : /\ sender' = [sender EXCEPT ![s] = next]
                  /\ next = [sender[s] EXCEPT !.stage = IF active THEN "sending" ELSE "off",
                                              !.left = IF active THEN SendTime ELSE 0, !.attempt = n]
  BY <1>2, <1>6, <1>3 DEF Claim, TimedInv, TypeOK
<1>8. active \in BOOLEAN
  BY DEF TimedInv, TypeOK
<1>9. Fit(next)
  BY <1>1, <1>3, <1>7, <1>8, ClaimFits
<1>10. sender' \in [Senders -> SenderRecord] /\ \A t \in Senders : Fit(sender'[t])
  BY <1>7, <1>9, FitIs DEF TimedInv, TypeOK, SenderRecord, Fit
<1>11. PICK lock \in Expired..ClaimTime : lock = ClaimTime - sender[s].age
  BY <1>3, Numbers, Products DEF Expired
<1>12. row' = [row EXCEPT ![d] = [row[d] EXCEPT !.status = "sending", !.lock = lock]]
  BY <1>4, <1>11 DEF TimedInv, TypeOK
<1>13. HasTry([row[d] EXCEPT !.status = "sending", !.lock = lock])
  BY <1>5 DEF HasTry, RowRecord
<1>14. row' \in [Deliveries -> RowRecord] /\ \A e \in Deliveries : HasTry(row'[e])
  BY <1>12, <1>13, HasTryIs DEF TimedInv, TypeOK, RowRecord, HasTry
<1>15. strayed' \subseteq Deliveries
  BY <1>2 DEF Claim, TimedInv, TypeOK
<1> QED BY <1>4, <1>10, <1>14, <1>15, TimedMakes DEF TimedInv, TypeOK

LEMMA SkipStep == ASSUME TimedInv, NEW s \in Senders, Skip(s) PROVE TimedInv'
<1>1. sender' \in [Senders -> SenderRecord] /\ \A t \in Senders : Fit(sender'[t])
  BY TurnStep DEF Skip
<1> QED BY <1>1, TimedMakes, HasTryIs DEF Skip, TimedInv, TypeOK, RowRecord

LEMMA SwitchedOffStep == ASSUME TimedInv, NEW s \in Senders, SwitchedOff(s) PROVE TimedInv'
<1>1. sender' \in [Senders -> SenderRecord] /\ \A t \in Senders : Fit(sender'[t])
  BY TurnStep DEF SwitchedOff
<1>2. PICK d \in Deliveries : d = Head(sender[s].todo)
  BY HeadIs DEF SwitchedOff
<1>3. row' = [row EXCEPT ![d] = [row[d] EXCEPT !.status = "failed", !.lock = Expired]]
  BY <1>2 DEF SwitchedOff, TimedInv, TypeOK
<1>4. HasTry(row[d]) /\ Expired \in Expired..ClaimTime
  BY HasTryIs, Numbers, Products DEF TimedInv, Expired
<1>5. HasTry([row[d] EXCEPT !.status = "failed", !.lock = Expired])
  BY <1>4 DEF HasTry, RowRecord
<1>6. row' \in [Deliveries -> RowRecord] /\ \A e \in Deliveries : HasTry(row'[e])
  BY <1>3, <1>5, HasTryIs DEF TimedInv, TypeOK, RowRecord, HasTry
<1> QED BY <1>1, <1>6, TimedMakes DEF SwitchedOff, TimedInv, TypeOK

LEMMA OneMore ==
  ASSUME NEW S, NEW f \in [S -> Nat], NEW i PROVE [f EXCEPT ![i] = f[i] + 1] \in [S -> Nat]
<1>1. CASE i \in S
  BY <1>1
<1>2. CASE i \notin S
  <2>1. [f EXCEPT ![i] = f[i] + 1] = f
    BY <1>2
  <2> QED BY <2>1
<1> QED BY <1>1, <1>2

LEMMA RecordStep ==
  ASSUME TimedInv, NEW s \in Senders, NEW ok \in BOOLEAN, Record(s, ok) PROVE TimedInv'
<1>1. sender' \in [Senders -> SenderRecord] /\ \A t \in Senders : Fit(sender'[t])
  BY TurnStep DEF Record
<1>2. PICK d \in Deliveries : d = Head(sender[s].todo)
  BY HeadIs DEF Record
<1>3. sender[s].age \in 0..Late /\ sender[s].attempt \in 0..MaxAttempts
  BY HeadIs DEF Record, SenderRecord
<1>4. HasTry(row[d])
  BY HasTryIs DEF TimedInv
<1>5. PICK due \in (-Late)..Delay :
        row' = [row EXCEPT ![d] = [status |-> Outcome(s, ok), due |-> due, lock |-> Expired,
                                   count |-> sender[s].attempt]]
  <2>1. row[d].due \in (-Late)..Delay
    BY <1>4 DEF HasTry, RowRecord
  <2>2. Passed(Delay - sender[s].age, -Late) \in (-Late)..Delay
    <3>1. Delay - sender[s].age \in Int /\ Delay - sender[s].age <= Delay
      BY <1>3, Numbers, Products
    <3> QED BY <3>1, PassedRange
  <2> QED BY <1>2, <2>1, <2>2 DEF Record
<1>6. /\ Outcome(s, ok) \in {"pending", "succeeded", "failed"}
      /\ Outcome(s, ok) = "pending" => sender[s].attempt < MaxAttempts
  BY <1>3, Numbers DEF Outcome
<1>7. Expired \in Expired..ClaimTime
  BY Numbers, Products DEF Expired
<1>8. HasTry([status |-> Outcome(s, ok), due |-> due, lock |-> Expired, count |-> sender[s].attempt])
  BY <1>3, <1>6, <1>7 DEF HasTry, RowRecord
<1>9. row' \in [Deliveries -> RowRecord] /\ \A e \in Deliveries : HasTry(row'[e])
  BY <1>5, <1>8, HasTryIs DEF TimedInv, TypeOK, RowRecord, HasTry
<1>10. log' \in [Deliveries -> [1..MaxAttempts -> Nat]]
  <2>1. log' = [log EXCEPT ![d] = [log[d] EXCEPT ![sender[s].attempt] = log[d][sender[s].attempt] + 1]]
    BY <1>2 DEF Record, TimedInv, TypeOK
  <2>2. log[d] \in [1..MaxAttempts -> Nat]
    BY DEF TimedInv, TypeOK
  <2>3. [log[d] EXCEPT ![sender[s].attempt] = log[d][sender[s].attempt] + 1] \in [1..MaxAttempts -> Nat]
    BY <2>2, OneMore
  <2> QED BY <2>1, <2>3 DEF TimedInv, TypeOK
<1>11. active' \in BOOLEAN /\ strayed' = strayed /\ crashes' = crashes
  BY DEF Record, TimedInv, TypeOK
<1> QED BY <1>1, <1>9, <1>10, <1>11, TimedMakes DEF TimedInv, TypeOK

LEMMA CrashStep == ASSUME TimedInv, NEW s \in Senders, Crash(s) PROVE TimedInv'
<1>1. sender' \in [Senders -> SenderRecord] /\ \A t \in Senders : Fit(sender'[t])
  BY IdleFits, FitIs DEF Crash, TimedInv, TypeOK, SenderRecord, Fit
<1>2. crashes' \in 0..MaxCrashes
  BY Numbers DEF Crash, TimedInv, TypeOK
<1> QED BY <1>1, <1>2, TimedMakes, HasTryIs DEF Crash, TimedInv, TypeOK, RowRecord

LEMMA TickStep == ASSUME TimedInv, Tick PROVE TimedInv'
<1>1. ASSUME NEW s \in Senders PROVE Fit(sender'[s])
  <2>1. CASE sender[s] = Idle
    BY <2>1, IdleFits DEF Tick
  <2>2. CASE sender[s] # Idle
    <3>1. sender[s].stage = "sending" /\ sender[s].left > 0
      BY <2>2 DEF Tick, Waiting
    <3>2. sender[s] \in SenderRecord /\ Busy(sender[s])
      BY <3>1, HeadIs
    <3>3. sender'[s] = [sender[s] EXCEPT !.age = sender[s].age + 1, !.left = sender[s].left - 1]
      BY <2>2 DEF Tick
    <3> QED BY <3>1, <3>2, <3>3, TickFits
  <2> QED BY <2>1, <2>2
<1>2. sender' \in [Senders -> SenderRecord]
  <2>1. DOMAIN sender' = Senders /\ sender' = [s \in Senders |-> sender'[s]]
    BY DEF Tick
  <2> QED BY <1>1, <2>1 DEF Fit
<1>3. ASSUME NEW d \in Deliveries PROVE HasTry(row'[d])
  <2>1. HasTry(row[d])
    BY HasTryIs DEF TimedInv
  <2>2. CASE row[d].status = "none"
    BY <2>1, <2>2 DEF Tick
  <2>3. CASE row[d].status # "none"
    <3>1. row[d].due \in (-Late)..Delay /\ row[d].lock \in Expired..ClaimTime
      BY <2>1 DEF HasTry, RowRecord
    <3>2. Passed(row[d].due - 1, -Late) \in (-Late)..Delay
      BY <3>1, PassedRange, Numbers, Products
    <3>3. Passed(row[d].lock - 1, Expired) \in Expired..ClaimTime
      BY <3>1, PassedRange, Numbers, Products
    <3>4. row'[d] = [row[d] EXCEPT !.due = Passed(row[d].due - 1, -Late),
                                   !.lock = Passed(row[d].lock - 1, Expired)]
      BY <2>3 DEF Tick
    <3> QED BY <2>1, <2>3, <3>2, <3>3, <3>4 DEF HasTry, RowRecord
  <2> QED BY <2>2, <2>3
<1>4. row' \in [Deliveries -> RowRecord]
  <2>1. DOMAIN row' = Deliveries /\ row' = [d \in Deliveries |-> row'[d]]
    BY DEF Tick
  <2> QED BY <1>3, <2>1 DEF HasTry
<1> QED BY <1>1, <1>2, <1>3, <1>4, TimedMakes DEF Tick, TimedInv, TypeOK

LEMMA OutsideStep ==
  ASSUME TimedInv, (\E d \in Deliveries : Emit(d)) \/ Switch \/ UNCHANGED vars PROVE TimedInv'
<1>1. \A s \in Senders : Fit(sender[s])
  BY FitIs DEF TimedInv
<1>2. \A d \in Deliveries : HasTry(row[d])
  BY HasTryIs DEF TimedInv
<1>3. CASE Switch \/ UNCHANGED vars
  BY <1>1, <1>2, <1>3, TimedMakes DEF Switch, vars, TimedInv, TypeOK, RowRecord, SenderRecord
<1>4. ASSUME NEW d \in Deliveries, Emit(d) PROVE TimedInv'
  <2>1. row' \in [Deliveries -> RowRecord] /\ \A e \in Deliveries : HasTry(row'[e])
    BY <1>2, <1>4, NoRowHasTry DEF Emit, TimedInv, TypeOK, RowRecord, HasTry
  <2> QED BY <1>1, <1>4, <2>1, TimedMakes DEF Emit, TimedInv, TypeOK, SenderRecord
<1> QED BY <1>3, <1>4

LEMMA TimedStep == TimedInv /\ [Next]_vars => TimedInv'
<1> SUFFICES ASSUME TimedInv, [Next]_vars PROVE TimedInv'
  OBVIOUS
<1>1. ASSUME NEW s \in Senders, StartJob(s) PROVE TimedInv'
  <2>1. PICK d \in Deliveries : Begin(s, <<d>>)
    BY <1>1 DEF StartJob
  <2>2. <<d>> \in Seq(Deliveries) /\ Len(<<d>>) \in 1..Batch
    BY Numbers
  <2> QED BY <2>1, <2>2, BeginStep
<1>2. ASSUME NEW s \in Senders, StartSweep(s) PROVE TimedInv'
  BY <1>2, SweepFits, BeginStep DEF StartSweep
<1> QED BY <1>1, <1>2, ClaimStep, SkipStep, SwitchedOffStep, RecordStep, CrashStep, TickStep, OutsideStep
        DEF Next

LEMMA TimedInit == Init => TimedInv
<1> SUFFICES ASSUME Init PROVE TimedInv
  OBVIOUS
<1>1. \A s \in Senders : sender[s] = Idle
  BY DEF Init
<1>2. \A d \in Deliveries : row[d] = NoRow
  BY DEF Init
<1>3. Idle \in SenderRecord /\ NoRow \in RowRecord
  BY IdleFits, NoRowHasTry DEF Fit, HasTry
<1>4. TypeOK
  BY <1>3, Numbers DEF Init, TypeOK, SenderRecord, RowRecord
<1>5. CountsInRange
  BY <1>2 DEF CountsInRange, NoRow
<1> QED BY <1>1, <1>4, <1>5 DEF TimedInv, WithinBudget

LEMMA TimedAlways == Spec => []TimedInv
BY TimedInit, TimedStep, PTL DEF Spec

(* Every row, claim and sender keeps its type: in particular nothing is tried more often *)
(* than allowed, and no sender works longer than a full batch of sends.                  *)
THEOREM WebhookTypes == Spec => []TypeOK
<1>1. TimedInv => TypeOK
  BY DEF TimedInv
<1> QED BY <1>1, TimedAlways, PTL

-----------------------------------------------------------------------------
(* A delivery no claim ran out on: nobody loses what they have in hand. *)

ClaimInv == TimedInv /\ ClaimsAreTheirs /\ OneSender

LEMMA KeepsHold ==
  ASSUME ClaimsAreTheirs, OneSender, strayed' = strayed,
         \A t \in Senders, d \in Deliveries \ strayed : Holds(t, d)' =>
           Holds(t, d) /\ sender'[t] = sender[t] /\ row'[d] = row[d]
  PROVE  ClaimsAreTheirs' /\ OneSender'
BY DEF ClaimsAreTheirs, OneSender

(* The one sender that moves has nothing in hand afterwards, and wrote at most the row it had. *)
LEMMA ReleaseStep ==
  ASSUME ClaimInv, NEW s \in Senders, NEW q \in SenderRecord, q.stage \notin {"sending", "off"},
         sender' = [sender EXCEPT ![s] = q], strayed' = strayed,
         \A d \in Deliveries : row'[d] = row[d] \/ Holds(s, d)
  PROVE  ClaimsAreTheirs' /\ OneSender'
<1>1. sender'[s] = q /\ \A t \in Senders \ {s} : sender'[t] = sender[t]
  BY DEF ClaimInv, TimedInv, TypeOK
<1>2. ASSUME NEW t \in Senders, NEW d \in Deliveries \ strayed, Holds(t, d)'
      PROVE  Holds(t, d) /\ sender'[t] = sender[t] /\ row'[d] = row[d]
  <2>1. t # s /\ sender'[t] = sender[t]
    BY <1>1, <1>2 DEF Holds
  <2>2. Holds(t, d)
    BY <1>2, <2>1 DEF Holds
  <2> QED BY <2>1, <2>2 DEF ClaimInv, OneSender
<1> QED BY <1>2, KeepsHold DEF ClaimInv

LEMMA TurnReleases ==
  ASSUME ClaimInv, NEW s \in Senders, sender[s].stage \in {"next", "sending", "off"}, Turn(s),
         strayed' = strayed,
         \A d \in Deliveries : row'[d] = row[d] \/ Holds(s, d)
  PROVE  ClaimsAreTheirs' /\ OneSender'
<1>1. sender' = [sender EXCEPT ![s] = After(sender[s])]
  BY DEF Turn, After
<1>2. Fit(After(sender[s])) /\ After(sender[s]) \in SenderRecord
  <2>1. Fit(sender[s]) /\ sender[s] # Idle
    BY FitIs DEF ClaimInv, TimedInv, Idle
  <2> QED BY <2>1, TurnFits DEF Fit
<1>3. After(sender[s]).stage \notin {"sending", "off"}
  BY DEF After, Idle, About
<1> QED BY <1>1, <1>2, <1>3, ReleaseStep

LEMMA ClaimKeepsOut ==
  ASSUME ClaimInv, NEW s \in Senders, Claim(s) PROVE ClaimsAreTheirs' /\ OneSender'
<1>1. sender[s].stage = "next"
  BY DEF Claim
<1>2. PICK d \in Deliveries : d = Head(sender[s].todo)
  BY <1>1, HeadIs DEF ClaimInv
<1>3. sender[s].age \in 0..Late /\ sender[s] \in SenderRecord
  BY <1>1, HeadIs DEF ClaimInv
<1>0. strayed \subseteq strayed' /\ (d \notin strayed' => sender[s].age <= ClaimTime)
  BY <1>2, <1>3, Numbers, Products DEF Claim
<1>4. ASSUME d \notin strayed, NEW t \in Senders PROVE ~Holds(t, d)
  <2> SUFFICES ASSUME Holds(t, d) PROVE FALSE
    OBVIOUS
  <2>1. sender[t].age <= ClaimTime /\ row[d].status = "sending" /\ row[d].lock = ClaimTime - sender[t].age
    BY <1>2, <1>4 DEF ClaimInv, ClaimsAreTheirs
  <2>2. sender[t].age \in 0..Late
    BY DEF ClaimInv, TimedInv, TypeOK
  <2>3. row[d].lock < -sender[s].age
    BY <1>2, <2>1 DEF Claim, Due
  <2> QED BY <1>3, <2>1, <2>2, <2>3, Numbers, Products
<1>5. /\ \A t \in Senders \ {s} : sender'[t] = sender[t]
      /\ sender'[s].age = sender[s].age /\ sender'[s].todo = sender[s].todo
      /\ sender'[s].attempt = row[d].count + 1
  BY <1>2, <1>3 DEF Claim, ClaimInv, TimedInv, TypeOK, SenderRecord
<1>6. /\ \A e \in Deliveries \ {d} : row'[e] = row[e]
      /\ row'[d].status = "sending" /\ row'[d].lock = ClaimTime - sender[s].age
      /\ row'[d].count = row[d].count
  BY <1>2 DEF Claim, ClaimInv, TimedInv, TypeOK
<1>7. \A e \in Deliveries : Holds(s, e)' => e = d
  BY <1>2, <1>5 DEF Holds
<1>8. \A t \in Senders \ {s}, e \in Deliveries \ strayed : Holds(t, e)' => Holds(t, e) /\ e # d
  BY <1>4, <1>5 DEF Holds
<1>9. ClaimsAreTheirs'
  <2> SUFFICES ASSUME NEW t \in Senders, NEW e \in Deliveries \ strayed', Holds(t, e)'
               PROVE  /\ sender'[t].age <= ClaimTime
                      /\ row'[e].status = "sending" /\ row'[e].lock = ClaimTime - sender'[t].age
                      /\ sender'[t].attempt = row'[e].count + 1
    BY DEF ClaimsAreTheirs
  <2>1. CASE t = s
    BY <1>0, <1>5, <1>6, <1>7, <2>1
  <2>2. CASE t # s
    BY <1>0, <1>5, <1>6, <1>8, <2>2 DEF ClaimInv, ClaimsAreTheirs
  <2> QED BY <2>1, <2>2
<1>10. OneSender'
  <2> SUFFICES ASSUME NEW t \in Senders, NEW u \in Senders, NEW e \in Deliveries \ strayed',
                      Holds(t, e)', Holds(u, e)'
               PROVE  t = u
    BY DEF OneSender
  <2> QED BY <1>0, <1>7, <1>8 DEF ClaimInv, OneSender
<1> QED BY <1>9, <1>10

LEMMA TickKeeps ==
  ASSUME ClaimInv, TimedInv', Tick PROVE ClaimsAreTheirs' /\ OneSender'
<1>1. ASSUME NEW t \in Senders, NEW d \in Deliveries, Holds(t, d)'
      PROVE  /\ Holds(t, d) /\ sender'[t].age = sender[t].age + 1 /\ sender'[t].attempt = sender[t].attempt
             /\ sender'[t].age <= Late
  <2>1. sender[t] # Idle
    BY <1>1 DEF Tick, Holds, Idle
  <2>2. sender'[t] = [sender[t] EXCEPT !.age = sender[t].age + 1, !.left = sender[t].left - 1]
    BY <2>1 DEF Tick
  <2>3. sender[t] \in SenderRecord /\ sender'[t] \in SenderRecord
    BY DEF ClaimInv, TimedInv, TypeOK, SenderRecord
  <2>4. sender'[t].age \in 0..Late
    BY <2>3 DEF SenderRecord
  <2> QED BY <1>1, <2>2, <2>3, <2>4, Products DEF Holds, SenderRecord
<1>2. ASSUME NEW t \in Senders, NEW d \in Deliveries \ strayed', Holds(t, d)'
      PROVE  /\ sender'[t].age <= ClaimTime
             /\ row'[d].status = "sending" /\ row'[d].lock = ClaimTime - sender'[t].age
             /\ sender'[t].attempt = row'[d].count + 1
  <2>0. d \notin strayed /\ ~(sender[t].age >= ClaimTime)
    BY <1>1, <1>2 DEF Tick
  <2>1. /\ row[d].status = "sending" /\ row[d].lock = ClaimTime - sender[t].age
        /\ sender[t].attempt = row[d].count + 1
    BY <1>1, <1>2, <2>0 DEF ClaimInv, ClaimsAreTheirs
  <2>2. row'[d] = [row[d] EXCEPT !.due = Passed(row[d].due - 1, -Late), !.lock = Passed(row[d].lock - 1, Expired)]
    BY <2>1 DEF Tick
  <2>3. sender[t].age \in 0..Late
    BY DEF ClaimInv, TimedInv, TypeOK
  <2>4. Passed(row[d].lock - 1, Expired) = ClaimTime - (sender[t].age + 1)
    BY <2>0, <2>1, <2>3, Numbers, Products DEF Passed, Expired
  <2>5. row[d] \in RowRecord
    BY DEF ClaimInv, TimedInv, TypeOK, RowRecord
  <2>6. sender[t].age + 1 <= ClaimTime
    BY <2>0, <2>3, Numbers, Products
  <2> QED BY <1>1, <1>2, <2>1, <2>2, <2>4, <2>5, <2>6 DEF RowRecord
<1>3. ClaimsAreTheirs'
  BY <1>2 DEF ClaimsAreTheirs
<1>4. OneSender'
  <2>1. strayed \subseteq strayed'
    BY DEF Tick
  <2> QED BY <1>1, <2>1 DEF ClaimInv, OneSender
<1> QED BY <1>3, <1>4

LEMMA ClaimInvStep == ClaimInv /\ [Next]_vars => ClaimInv'
<1> SUFFICES ASSUME ClaimInv, [Next]_vars PROVE ClaimInv'
  OBVIOUS
<1>1. TimedInv'
  BY TimedStep DEF ClaimInv
<1>2. ASSUME NEW s \in Senders, NEW q \in Seq(Deliveries), Len(q) \in 1..Batch, Begin(s, q)
      PROVE  ClaimsAreTheirs' /\ OneSender'
  <2>1. Fit(About(q, 0))
    BY <1>2, BeginFits
  <2>2. About(q, 0).stage = "next"
    BY DEF About
  <2>3. About(q, 0) \in SenderRecord
    BY <2>1, IdleFits DEF Fit
  <2> QED BY <1>2, <2>2, <2>3, ReleaseStep DEF Begin
<1>3. ASSUME NEW s \in Senders, StartJob(s) PROVE ClaimsAreTheirs' /\ OneSender'
  <2>1. PICK d \in Deliveries : Begin(s, <<d>>)
    BY <1>3 DEF StartJob
  <2>2. <<d>> \in Seq(Deliveries) /\ Len(<<d>>) \in 1..Batch
    BY Numbers
  <2> QED BY <1>2, <2>1, <2>2
<1>4. ASSUME NEW s \in Senders, StartSweep(s) PROVE ClaimsAreTheirs' /\ OneSender'
  BY <1>2, <1>4, SweepFits DEF StartSweep
<1>5. ASSUME NEW s \in Senders, Skip(s) PROVE ClaimsAreTheirs' /\ OneSender'
  BY <1>5, TurnReleases DEF Skip
<1>6. ASSUME NEW s \in Senders, SwitchedOff(s) PROVE ClaimsAreTheirs' /\ OneSender'
  <2>1. \A d \in Deliveries : row'[d] = row[d] \/ Holds(s, d)
    BY <1>6 DEF SwitchedOff, Holds, ClaimInv, TimedInv, TypeOK
  <2> QED BY <1>6, <2>1, TurnReleases DEF SwitchedOff
<1>7. ASSUME NEW s \in Senders, NEW ok \in BOOLEAN, Record(s, ok) PROVE ClaimsAreTheirs' /\ OneSender'
  <2>1. \A d \in Deliveries : row'[d] = row[d] \/ Holds(s, d)
    BY <1>7 DEF Record, Holds, ClaimInv, TimedInv, TypeOK
  <2> QED BY <1>7, <2>1, TurnReleases DEF Record
<1>8. ASSUME NEW s \in Senders, Crash(s) PROVE ClaimsAreTheirs' /\ OneSender'
  <2>1. Idle \in SenderRecord /\ Idle.stage = "idle"
    BY IdleFits DEF Fit, Idle
  <2> QED BY <1>8, <2>1, ReleaseStep DEF Crash
<1>9. CASE (\E d \in Deliveries : Emit(d)) \/ Switch \/ UNCHANGED vars
  <2>1. /\ sender' = sender /\ strayed' = strayed
        /\ \A d \in Deliveries : row'[d] = row[d] \/ row[d].status = "none"
    BY <1>9 DEF Emit, Switch, vars, ClaimInv, TimedInv, TypeOK
  <2>2. ASSUME NEW t \in Senders, NEW d \in Deliveries \ strayed, Holds(t, d)'
        PROVE  Holds(t, d) /\ sender'[t] = sender[t] /\ row'[d] = row[d]
    <3>1. Holds(t, d)
      BY <2>1, <2>2 DEF Holds
    <3> QED BY <2>1, <3>1 DEF ClaimInv, ClaimsAreTheirs
  <2> QED BY <1>1, <2>1, <2>2, KeepsHold DEF ClaimInv
<1>10. ASSUME NEW s \in Senders, Claim(s) PROVE ClaimsAreTheirs' /\ OneSender'
  BY <1>10, ClaimKeepsOut
<1>11. CASE Tick
  BY <1>1, <1>11, TickKeeps DEF ClaimInv
<1>12. ClaimsAreTheirs' /\ OneSender'
  BY <1>3, <1>4, <1>5, <1>6, <1>7, <1>8, <1>9, <1>10, <1>11 DEF Next, ClaimInv
<1> QED BY <1>1, <1>12 DEF ClaimInv

LEMMA ClaimInvAlways == Spec => []ClaimInv
<1>1. Init => ClaimsAreTheirs /\ OneSender
  BY DEF Init, ClaimsAreTheirs, OneSender, Holds, Idle
<1>2. Init => ClaimInv
  BY <1>1, TimedInit DEF ClaimInv
<1>3. ClaimInv /\ [Next]_vars => ClaimInv'
  BY ClaimInvStep
<1> QED BY <1>2, <1>3, PTL DEF Spec

(* The queue job, the sweep and a person pressing "Resend" never send the same try: two     *)
(* senders have a delivery in hand only after a claim on it ran out, whatever the sizes of  *)
(* batches, the timeouts and the time of a claim.                                           *)
THEOREM ClaimsHold == Spec => []OneSender
<1>1. ClaimInv => OneSender
  BY DEF ClaimInv
<1> QED BY <1>1, ClaimInvAlways, PTL

(* Only the sender that has a delivery in hand, or a claim, moves its status. *)
LEMMA DecidedStep == ASSUME ClaimInv, [Next]_vars, NEW d \in Deliveries \ strayed, Decided(d)
                     PROVE  row'[d].status = row[d].status
<1>1. row \in [Deliveries -> RowRecord]
  BY DEF ClaimInv, TimedInv, TypeOK, RowRecord
<1>2. \A s \in Senders : ~Holds(s, d)
  BY DEF ClaimInv, ClaimsAreTheirs, Decided
<1>3. ASSUME NEW s \in Senders, Claim(s) PROVE row'[d] = row[d]
  <2>1. d # Head(sender[s].todo)
    BY <1>3 DEF Claim, Due, Decided
  <2> QED BY <1>1, <1>3, <2>1 DEF Claim
<1>4. ASSUME NEW s \in Senders, SwitchedOff(s) \/ \E ok \in BOOLEAN : Record(s, ok) PROVE row'[d] = row[d]
  <2>1. d # Head(sender[s].todo)
    BY <1>2, <1>4 DEF SwitchedOff, Record, Holds
  <2> QED BY <1>1, <1>4, <2>1 DEF SwitchedOff, Record
<1>5. CASE Tick
  BY <1>1, <1>5 DEF Tick, RowRecord
<1>6. ASSUME NEW e \in Deliveries, Emit(e) PROVE row'[d] = row[d]
  BY <1>1, <1>6 DEF Emit, Decided
<1> QED BY <1>3, <1>4, <1>5, <1>6 DEF Next, Switch, StartJob, StartSweep, Begin, Skip, Crash, vars

(* A delivery that succeeded or was given up stays so: an outcome is written over only where *)
(* a claim ran out under a sender.                                                           *)
THEOREM DecidedStays == Spec => DecidedIsFinal
<1> DEFINE Step == \A d \in Deliveries \ strayed : Decided(d) => row'[d].status = row[d].status
<1>1. ClaimInv /\ [Next]_vars => [Step]_vars
  BY DecidedStep
<1>2. DecidedIsFinal <=> [][Step]_vars
  BY DEF DecidedIsFinal
<1> HIDE DEF Step
<1> QED BY <1>1, <1>2, ClaimInvAlways, PTL DEF Spec

LEMMA LogStep == ASSUME ClaimInv, TriesAddUp, [Next]_vars PROVE TriesAddUp'
<1>1. row \in [Deliveries -> RowRecord] /\ log \in [Deliveries -> [1..MaxAttempts -> Nat]]
  BY DEF ClaimInv, TimedInv, TypeOK, RowRecord
<1>0. strayed \subseteq strayed'
  BY DEF Next, Emit, Switch, StartJob, StartSweep, Begin, Claim, Skip, SwitchedOff, Record, Crash, Tick, vars
<1>2. CASE /\ UNCHANGED log
           /\ \A d \in Deliveries : row'[d].count = row[d].count
  BY <1>0, <1>2 DEF TriesAddUp
<1>3. ASSUME NEW s \in Senders, Claim(s) \/ SwitchedOff(s) PROVE TriesAddUp'
  <2>1. PICK d \in Deliveries : d = Head(sender[s].todo)
    BY <1>3, HeadIs DEF Claim, SwitchedOff, ClaimInv
  <2>2. CASE Claim(s)
    <3>1. \A e \in Deliveries : row'[e].count = row[e].count
      BY <1>1, <2>1, <2>2 DEF Claim, RowRecord
    <3> QED BY <1>2, <2>2, <3>1 DEF Claim
  <2>3. CASE SwitchedOff(s)
    <3>1. \A e \in Deliveries : row'[e].count = row[e].count
      BY <1>1, <2>1, <2>3 DEF SwitchedOff, RowRecord
    <3> QED BY <1>2, <2>3, <3>1 DEF SwitchedOff
  <2> QED BY <1>3, <2>2, <2>3
<1>4. CASE Tick
  <2>1. \A d \in Deliveries : row'[d].count = row[d].count
    BY <1>1, <1>4 DEF Tick, RowRecord
  <2> QED BY <1>2, <1>4, <2>1 DEF Tick
<1>5. ASSUME NEW d \in Deliveries, Emit(d) PROVE TriesAddUp'
  <2>1. row[d].count = 0
    BY <1>5 DEF Emit, ClaimInv, TimedInv, CountsInRange, NoRow
  <2>2. \A e \in Deliveries : row'[e].count = row[e].count
    BY <1>1, <1>5, <2>1 DEF Emit, NoRow
  <2> QED BY <1>2, <1>5, <2>2 DEF Emit
<1>6. ASSUME NEW s \in Senders, NEW ok \in BOOLEAN, Record(s, ok) PROVE TriesAddUp'
  <2>1. PICK d \in Deliveries : d = Head(sender[s].todo)
    BY <1>6, HeadIs DEF Record, ClaimInv
  <2>2. d \notin strayed => sender[s].attempt = row[d].count + 1 /\ row[d].count \in Nat
    BY <1>1, <1>6, <2>1 DEF Record, Holds, ClaimInv, ClaimsAreTheirs, RowRecord
  <2>3. /\ \A e \in Deliveries : row'[e].count = IF e = d THEN sender[s].attempt ELSE row[e].count
        /\ \A e \in Deliveries, n \in 1..MaxAttempts :
             log'[e][n] = IF e = d /\ n = sender[s].attempt THEN log[e][n] + 1 ELSE log[e][n]
    BY <1>1, <1>6, <2>1 DEF Record
  <2>4. ASSUME NEW e \in Deliveries \ strayed, NEW n \in 1..MaxAttempts
        PROVE  log'[e][n] = IF n <= row'[e].count THEN 1 ELSE 0
    <3>1. log[e][n] = IF n <= row[e].count THEN 1 ELSE 0
      BY DEF TriesAddUp
    <3>2. CASE e # d
      BY <2>3, <3>1, <3>2
    <3>3. CASE e = d
      BY <2>2, <2>3, <3>1, <3>3, Numbers
    <3> QED BY <3>2, <3>3
  <2> QED BY <1>0, <2>4 DEF TriesAddUp
<1> QED BY <1>2, <1>3, <1>4, <1>5, <1>6 DEF Next, Switch, StartJob, StartSweep, Begin, Skip, Crash, vars

(* The delivery log has exactly the tries the row counts, one line each, unless a claim on *)
(* the delivery ran out under a sender.                                                    *)
THEOREM LogIsExact == Spec => []TriesAddUp
<1>1. Init => TriesAddUp
  BY Numbers DEF Init, TriesAddUp, NoRow
<1>2. ClaimInv /\ TriesAddUp /\ [Next]_vars => TriesAddUp'
  BY LogStep
<1> QED BY <1>1, <1>2, ClaimInvAlways, PTL DEF Spec

-----------------------------------------------------------------------------
(* Idempotency keys. *)

KeyRecord == [by : Calls \cup {NoCall}, answered : BOOLEAN, old : BOOLEAN]

CallRecord ==
  [at : Live \cup {"new", "arrived", "taken", "over", "dead"}, body : Bodies,
   told : {"nothing", "made", "error", "in_progress", "key_reused", "replay"},
   from : Calls \cup {NoCall}]

LEMMA AnsweredDoes ==
  ASSUME KeyTypeOK, NEW a \in Calls, NEW from \in Calls \cup {NoCall},
         NEW told \in {"made", "error", "in_progress", "key_reused", "replay"}, Answered(a, told, from)
  PROVE  /\ call' \in [Calls -> CallRecord] /\ deaths' = deaths
         /\ \A b \in Calls \ {a} : call'[b] = call[b]
         /\ call'[a].at = "over" /\ call'[a].told = told /\ call'[a].from = from /\ call'[a].body = call[a].body
<1>1. call \in [Calls -> CallRecord]
  BY DEF KeyTypeOK, CallRecord
<1>2. [at |-> "over", body |-> call[a].body, told |-> told, from |-> from] \in CallRecord
  BY <1>1 DEF CallRecord
<1> QED BY <1>1, <1>2 DEF Answered

LEMMA TypeStep == KeyTypeOK /\ [KeyNext]_keyVars => KeyTypeOK'
<1> SUFFICES ASSUME KeyTypeOK, [KeyNext]_keyVars PROVE KeyTypeOK'
  OBVIOUS
<1> USE CallAssumption
<1>1. ASSUME NEW a \in Calls, Send(a) PROVE KeyTypeOK'
  BY <1>1 DEF Send, Moves, KeyTypeOK, Live
<1>2. ASSUME NEW a \in Calls, Reserve(a) PROVE KeyTypeOK'
  <2>1. CASE Free
    <3>1. Fresh(a) \in KeyRecord
      BY DEF Fresh, KeyRecord
    <3> QED BY <1>2, <2>1, <3>1 DEF Reserve, Moves, KeyRecord, KeyTypeOK, Live
  <2>2. CASE ~Free
    BY <1>2, <2>2 DEF Reserve, Moves, KeyTypeOK, Live
  <2> QED BY <2>1, <2>2
<1>3. ASSUME NEW a \in Calls, Lookup(a) PROVE KeyTypeOK'
  <2>1. PICK told \in {"in_progress", "key_reused", "replay"}, from \in Calls \cup {NoCall} : Answered(a, told, from)
    BY <1>3 DEF Lookup, KeyTypeOK
  <2> QED BY <1>3, <2>1 DEF Lookup, Answered, KeyTypeOK, Live
<1>4. ASSUME NEW a \in Calls, Commit(a) PROVE KeyTypeOK'
  BY <1>4 DEF Commit, Moves, KeyTypeOK, Live
<1>5. ASSUME NEW a \in Calls, Fail(a) PROVE KeyTypeOK'
  BY <1>5 DEF Fail, Moves, KeyTypeOK, Live
<1>6. ASSUME NEW a \in Calls, Complete(a) PROVE KeyTypeOK'
  <2>1. [key EXCEPT !.answered = TRUE] \in KeyRecord
    BY DEF KeyRecord, KeyTypeOK
  <2>2. call' \in [Calls -> CallRecord] /\ deaths' = deaths
    BY <1>6, AnsweredDoes DEF Complete
  <2> QED BY <1>6, <2>1, <2>2 DEF Complete, KeyRecord, CallRecord, KeyTypeOK
<1>7. ASSUME NEW a \in Calls, Release(a) PROVE KeyTypeOK'
  <2>1. key' \in KeyRecord
    BY <1>7 DEF Release, NoKey, KeyRecord, KeyTypeOK
  <2>2. call' \in [Calls -> CallRecord] /\ deaths' = deaths
    BY <1>7, AnsweredDoes DEF Release
  <2> QED BY <1>7, <2>1, <2>2 DEF Release, KeyRecord, CallRecord, KeyTypeOK
<1>8. ASSUME NEW a \in Calls, CallDies(a) PROVE KeyTypeOK'
  BY <1>8 DEF CallDies, KeyTypeOK, Live
<1>9. CASE DayPasses
  BY <1>9 DEF DayPasses, KeyTypeOK, Live
<1>10. CASE Prune
  BY <1>10 DEF Prune, NoKey, KeyTypeOK, Live
<1>11. CASE UNCHANGED keyVars
  BY <1>11 DEF keyVars, KeyTypeOK
<1> QED BY <1>1, <1>2, <1>3, <1>4, <1>5, <1>6, <1>7, <1>8, <1>9, <1>10, <1>11 DEF KeyNext

LEMMA HeldStep == KeyTypeOK /\ KeyIsHeld /\ [KeyNext]_keyVars => KeyIsHeld'
<1> SUFFICES ASSUME KeyTypeOK, KeyIsHeld, [KeyNext]_keyVars PROVE KeyIsHeld'
  OBVIOUS
<1> USE CallAssumption
<1>1. ASSUME NEW a \in Calls, Send(a) \/ Lookup(a) \/ Commit(a) \/ Fail(a) \/ CallDies(a) PROVE KeyIsHeld'
  <2>1. key' = key
    BY <1>1 DEF Send, Lookup, Commit, Fail, CallDies
  <2>2. \A b \in Calls : call'[b].at \in Live => call[b].at \in Live
    BY <1>1 DEF Send, Lookup, Commit, Fail, CallDies, Moves, Answered, KeyTypeOK, Live
  <2> QED BY <2>1, <2>2 DEF KeyIsHeld
<1>2. ASSUME NEW a \in Calls, Reserve(a) PROVE KeyIsHeld'
  <2>1. CASE Free
    <3>1. key' = Fresh(a) /\ key'.by = a
      BY <1>2, <2>1 DEF Reserve, Fresh
    <3>2. \A b \in Calls \ {a} : call[b].at \notin Live
      BY <2>1 DEF Free, KeyIsHeld, Fresh, NoKey
    <3>3. \A b \in Calls \ {a} : call'[b] = call[b]
      BY <1>2, <2>1 DEF Reserve, Moves, KeyTypeOK
    <3> QED BY <3>1, <3>2, <3>3 DEF KeyIsHeld
  <2>2. CASE ~Free
    <3>1. key' = key /\ \A b \in Calls : call'[b].at \in Live => call[b].at \in Live
      BY <1>2, <2>2 DEF Reserve, Moves, KeyTypeOK, Live
    <3> QED BY <3>1 DEF KeyIsHeld
  <2> QED BY <2>1, <2>2
<1>3. ASSUME NEW a \in Calls, Complete(a) \/ Release(a) PROVE KeyIsHeld'
  <2>1. call[a].at \in Live /\ call'[a].at = "over" /\ \A b \in Calls \ {a} : call'[b] = call[b]
    BY <1>3 DEF Complete, Release, Answered, KeyTypeOK, Live
  <2>2. key = Fresh(a)
    BY <2>1 DEF KeyIsHeld
  <2>3. \A b \in Calls \ {a} : call[b].at \notin Live
    BY <2>2 DEF KeyIsHeld, Fresh
  <2>4. key'.by = NoCall => key' = NoKey
    BY <1>3, <2>2 DEF Complete, Release, Fresh
  <2> QED BY <2>1, <2>3, <2>4 DEF KeyIsHeld, Live
<1>4. CASE DayPasses
  <2>1. key.by # NoCall /\ key'.by # NoCall
    BY <1>4 DEF DayPasses, KeyIsHeld, KeyTypeOK
  <2> QED BY <1>4, <2>1 DEF DayPasses, KeyIsHeld, Live
<1>5. CASE Prune
  <2>1. \A b \in Calls : call[b].at \notin Live
    BY <1>5 DEF Prune, KeyIsHeld, Fresh
  <2> QED BY <1>5, <2>1 DEF Prune, KeyIsHeld
<1>6. CASE UNCHANGED keyVars
  BY <1>6 DEF keyVars, KeyIsHeld
<1> QED BY <1>1, <1>2, <1>3, <1>4, <1>5, <1>6 DEF KeyNext

LEMMA WindowStep == KeyTypeOK /\ KeyIsHeld /\ OneWindow /\ [KeyNext]_keyVars => OneWindow'
<1> SUFFICES ASSUME KeyTypeOK, KeyIsHeld, OneWindow, [KeyNext]_keyVars PROVE OneWindow'
  OBVIOUS
<1> USE CallAssumption
<1>1. \A a \in Calls : call[a].at # "over" => ~ToldOfError(a)
  BY DEF OneWindow, ToldOfError
<1>2. ASSUME NEW a \in Calls, Send(a) \/ Lookup(a) \/ Fail(a) \/ CallDies(a) PROVE OneWindow'
  <2>1. UNCHANGED <<key, done, earlier>>
    BY <1>2 DEF Send, Lookup, Fail, CallDies
  <2>2. \A b \in Calls :
          /\ call'[b].at # "over" => call[b].at # "over" /\ call'[b].told = call[b].told
          /\ call'[b].at = "made" => call[b].at = "made"
    BY <1>2 DEF Send, Lookup, Fail, CallDies, Moves, Answered, KeyTypeOK, Live
  <2>3. \A b \in Calls : ToldOfError(b) => ToldOfError(b)'
    BY <1>1, <1>2 DEF Send, Lookup, Fail, CallDies, Moves, Answered, KeyTypeOK, Live, ToldOfError
  <2> QED BY <2>1, <2>2, <2>3 DEF OneWindow, KeyTypeOK
<1>3. ASSUME NEW a \in Calls, Reserve(a) PROVE OneWindow'
  <2>1. \A b \in Calls : /\ call'[b].told = call[b].told
                         /\ call'[b].at # "over" => call[b].at # "over"
                         /\ call'[b].at = "made" => call[b].at = "made"
    BY <1>3 DEF Reserve, Moves, KeyTypeOK, Live
  <2>2. CASE Free
    <3>1. key' = Fresh(a) /\ done' = done /\ earlier' = IF key.old THEN done ELSE earlier
      BY <1>3, <2>2 DEF Reserve
    <3>2. \A b \in done \ earlier' : ToldOfError(b)
      <4>1. CASE key.old
        BY <3>1, <4>1
      <4>2. CASE key = NoKey
        BY <3>1, <4>2 DEF NoKey, OneWindow, KeyTypeOK
      <4> QED BY <2>2, <4>1, <4>2 DEF Free
    <3> QED BY <2>1, <3>1, <3>2 DEF OneWindow, ToldOfError, Fresh, KeyTypeOK
  <2>3. CASE ~Free
    BY <1>3, <2>1, <2>3 DEF Reserve, OneWindow, ToldOfError, KeyTypeOK
  <2> QED BY <2>2, <2>3
<1>4. ASSUME NEW a \in Calls, Commit(a) PROVE OneWindow'
  <2>1. key.by = a
    BY <1>4 DEF Commit, KeyIsHeld, Live, Fresh
  <2>2. \A b \in Calls : /\ call'[b].told = call[b].told /\ (call'[b].at # "over" => call[b].at # "over")
                         /\ call'[b].at = "made" => call[b].at = "made" \/ b = a
    BY <1>4 DEF Commit, Moves, KeyTypeOK, Live
  <2> QED BY <1>4, <2>1, <2>2 DEF Commit, OneWindow, ToldOfError, KeyTypeOK
<1>5. ASSUME NEW a \in Calls, Complete(a) PROVE OneWindow'
  <2>1. \A b \in Calls \ {a} : call'[b] = call[b]
    BY <1>5 DEF Complete, Answered, KeyTypeOK
  <2>2. key'.by = a /\ key.by = a /\ UNCHANGED <<done, earlier>> /\ call'[a].at = "over"
    BY <1>5 DEF Complete, Answered, KeyTypeOK
  <2>3. a \in done
    BY <1>5 DEF Complete, OneWindow, KeyTypeOK
  <2> QED BY <2>1, <2>2, <2>3 DEF OneWindow, ToldOfError, KeyTypeOK
<1>6. ASSUME NEW a \in Calls, Release(a) PROVE OneWindow'
  <2>1. \A b \in Calls \ {a} : call'[b] = call[b]
    BY <1>6 DEF Release, Answered, KeyTypeOK
  <2>2. call'[a].at = "over" /\ call'[a].told = "error"
    BY <1>6 DEF Release, Answered, KeyTypeOK
  <2>3. key.by = a /\ key' = NoKey /\ UNCHANGED <<done, earlier>>
    BY <1>6 DEF Release, KeyIsHeld, Live, Fresh
  <2> QED BY <2>1, <2>2, <2>3 DEF OneWindow, ToldOfError, NoKey, KeyTypeOK
<1>7. CASE DayPasses
  BY <1>7 DEF DayPasses, OneWindow, ToldOfError, KeyTypeOK
<1>8. CASE Prune
  BY <1>8 DEF Prune, NoKey, OneWindow, ToldOfError
<1>9. CASE UNCHANGED keyVars
  BY <1>9 DEF keyVars, OneWindow, ToldOfError
<1> QED BY <1>2, <1>3, <1>4, <1>5, <1>6, <1>7, <1>8, <1>9 DEF KeyNext

LEMMA ReplayStep == KeyTypeOK /\ KeyIsHeld /\ OneWindow /\ ReplayIsTrue /\ [KeyNext]_keyVars => ReplayIsTrue'
<1> SUFFICES ASSUME KeyTypeOK, KeyIsHeld, OneWindow, ReplayIsTrue, [KeyNext]_keyVars PROVE ReplayIsTrue'
  OBVIOUS
<1> USE CallAssumption
<1>1. \A b \in Calls : call'[b].body = call[b].body
  <2>1. ASSUME NEW a \in Calls, Lookup(a) \/ Complete(a) \/ Release(a)
        PROVE  \A b \in Calls : call'[b].body = call[b].body
    <3>1. \E told \in {"made", "error", "in_progress", "key_reused", "replay"}, from \in Calls \cup {NoCall} :
            Answered(a, told, from)
      BY <2>1 DEF Lookup, Complete, Release, KeyTypeOK
    <3> QED BY <3>1, AnsweredDoes
  <2>2. ASSUME NEW a \in Calls, Send(a) \/ Reserve(a) \/ Commit(a) \/ Fail(a) \/ CallDies(a)
        PROVE  \A b \in Calls : call'[b].body = call[b].body
    BY <2>2 DEF Send, Reserve, Commit, Fail, CallDies, Moves, KeyTypeOK
  <2> QED BY <2>1, <2>2 DEF KeyNext, DayPasses, Prune, keyVars
<1>2. done \subseteq done'
  BY DEF KeyNext, Send, Reserve, Lookup, Commit, Fail, Complete, Release, CallDies, DayPasses, Prune, keyVars
<1> SUFFICES ASSUME NEW a \in Calls, call'[a].told = "replay"
             PROVE  call'[a].from \in done' /\ call'[call'[a].from].body = call'[a].body
  BY DEF ReplayIsTrue
<1>3. CASE call'[a].told = call[a].told /\ call'[a].from = call[a].from
  <2>1. call[a].from \in done /\ call[call[a].from].body = call[a].body
    BY <1>3 DEF ReplayIsTrue
  <2> QED BY <1>1, <1>2, <1>3, <2>1 DEF KeyTypeOK
<1>4. CASE Lookup(a)
  <2>1. key.answered /\ SameRequest(a) /\ call'[a].from = key.by
    BY <1>4 DEF Lookup, Answered, KeyTypeOK
  <2>2. key.by \in done
    BY <2>1 DEF OneWindow
  <2> QED BY <1>1, <1>2, <2>1, <2>2 DEF SameRequest, KeyTypeOK
<1>5. CASE Complete(a) \/ Release(a)
  <2>1. call'[a].told \in {"made", "error"}
    BY <1>5, AnsweredDoes DEF Complete, Release
  <2> QED BY <2>1
<1>6. ASSUME NEW b \in Calls, b # a, Lookup(b) \/ Complete(b) \/ Release(b) PROVE call'[a] = call[a]
  BY <1>6 DEF Lookup, Complete, Release, Answered, KeyTypeOK
<1>7. ASSUME NEW b \in Calls, Send(b) \/ Reserve(b) \/ Commit(b) \/ Fail(b) \/ CallDies(b)
      PROVE  call'[a].told = call[a].told /\ call'[a].from = call[a].from
  BY <1>7 DEF Send, Reserve, Commit, Fail, CallDies, Moves, KeyTypeOK
<1>8. ASSUME NEW b \in Calls, Lookup(b) \/ Complete(b) \/ Release(b)
      PROVE  Lookup(a) \/ Complete(a) \/ Release(a) \/ call'[a] = call[a]
  BY <1>6, <1>8
<1> QED BY <1>3, <1>4, <1>5, <1>7, <1>8 DEF KeyNext, DayPasses, Prune, keyVars

-----------------------------------------------------------------------------
LEMMA KeyInvAlways == KeySpec => []KeyInv
<1>1. KeyInit => KeyInv
  <2> SUFFICES ASSUME KeyInit PROVE KeyInv
    OBVIOUS
  <2>1. PICK body \in [Calls -> Bodies] :
          call = [a \in Calls |-> [at |-> "new", body |-> body[a], told |-> "nothing", from |-> NoCall]]
    BY DEF KeyInit
  <2>2. KeyTypeOK
    BY <2>1, CallAssumption DEF KeyInit, KeyTypeOK, NoKey, Live
  <2>3. KeyIsHeld /\ OneWindow /\ ReplayIsTrue
    BY <2>1 DEF KeyInit, KeyIsHeld, OneWindow, ReplayIsTrue, NoKey, Live
  <2> QED BY <2>2, <2>3 DEF KeyInv
<1>2. KeyInv /\ [KeyNext]_keyVars => KeyInv'
  BY TypeStep, HeldStep, WindowStep, ReplayStep DEF KeyInv
<1> QED BY <1>1, <1>2, PTL DEF KeySpec

(* Every call and the row of the key keep their types. *)
THEOREM KeyTypes == KeySpec => []KeyTypeOK
<1>1. KeyInv => KeyTypeOK
  BY DEF KeyInv
<1> QED BY <1>1, KeyInvAlways, PTL

(* Within a day a key lets one write through, besides those reported as errors, for any *)
(* number of calls that carry it.                                                       *)
THEOREM OncePerKey == KeySpec => []NothingTwice
<1>1. KeyInv => NothingTwice
  BY DEF KeyInv, OneWindow, NothingTwice, KeyTypeOK
<1> QED BY <1>1, KeyInvAlways, PTL

(* What a retry is told is the answer to its own request, of a write that committed. *)
THEOREM ReplaysAreTrue == KeySpec => []ReplayIsTrue
<1>1. KeyInv => ReplayIsTrue
  BY DEF KeyInv
<1> QED BY <1>1, KeyInvAlways, PTL
=============================================================================
