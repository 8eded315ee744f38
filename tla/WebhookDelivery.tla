--------------------------- MODULE WebhookDelivery ---------------------------
(***************************************************************************)
(* The sending of webhooks: the delivery rows of one company for one       *)
(* endpoint, and the senders that claim them (WebhookDeliveryService).  A  *)
(* sender is a queue job or a person's "Resend", which try one delivery,   *)
(* or a sweep, which tries the due ones one after the other.  Each works   *)
(* with the `now' of the moment it began.                                  *)
(*                                                                         *)
(* Times are distances in ticks: `due' and `lock' are how far ahead        *)
(* nextAttemptAt and lockedUntil lie, `age' is how far back a sender's     *)
(* `now' lies.  A send takes at most SendTime ticks, and the database work *)
(* around it takes none.  A full batch of sends may take longer than a     *)
(* claim lasts (50 times 10 seconds against 60): a sender whose claim has  *)
(* run out goes on sending, and what it has in hand has strayed.           *)
(***************************************************************************)
EXTENDS Integers, Sequences, SequencesExt

CONSTANTS Deliveries, Senders,
          Batch,        \* SWEEP_BATCH
          SendTime,     \* WEBHOOK_TIMEOUT_MS
          ClaimTime,    \* CLAIM_MS
          Delay,        \* the wait between tries
          MaxAttempts,  \* maxAttempts
          MaxCrashes    \* bound on the senders that die half way

ASSUME CountAssumption ==
  {Batch, SendTime, ClaimTime, Delay, MaxAttempts} \subseteq Nat \ {0} /\ MaxCrashes \in Nat

VARIABLES row,      \* webhook_deliveries
          log,      \* webhook_delivery_attempts: how many rows each try has
          active,   \* the endpoint is switched on
          sender,   \* what each sender is doing
          strayed,  \* history: the deliveries some sender had in hand past its claim on them
          crashes

vars == <<row, log, active, sender, strayed, crashes>>

Late == Batch * SendTime     \* a sender works no longer than this
Expired == -(Late + 1)       \* a claim nobody can still be held back by
Idle == [stage |-> "idle", todo |-> <<>>, age |-> 0, left |-> 0, attempt |-> 0]
About(q, age) == [stage |-> "next", todo |-> q, age |-> age, left |-> 0, attempt |-> 0]
NoRow == [status |-> "none", due |-> 0, lock |-> Expired, count |-> 0]

TypeOK ==
  /\ row \in [Deliveries -> [status : {"none", "pending", "sending", "succeeded", "failed"},
                             due : (-Late)..Delay, lock : Expired..ClaimTime, count : 0..MaxAttempts]]
  /\ log \in [Deliveries -> [1..MaxAttempts -> Nat]]
  /\ active \in BOOLEAN /\ strayed \subseteq Deliveries /\ crashes \in 0..MaxCrashes
  /\ sender \in [Senders -> [stage : {"idle", "next", "sending", "off"}, todo : Seq(Deliveries),
                             age : 0..Late, left : 0..SendTime, attempt : 0..MaxAttempts]]

Init ==
  /\ row = [d \in Deliveries |-> NoRow]
  /\ log = [d \in Deliveries |-> [n \in 1..MaxAttempts |-> 0]]
  /\ active = TRUE
  /\ sender = [s \in Senders |-> Idle]
  /\ strayed = {} /\ crashes = 0

-----------------------------------------------------------------------------
(* The rows and the endpoint. *)

(* An event of a switched-on endpoint becomes a delivery, due at once; so does a resend. *)
Emit(d) ==
  /\ active /\ row[d].status = "none"
  /\ row' = [row EXCEPT ![d] = [NoRow EXCEPT !.status = "pending"]]
  /\ UNCHANGED <<log, active, sender, strayed, crashes>>

(* The owner switches the endpoint off, or on again. *)
Switch ==
  /\ active' = ~active
  /\ UNCHANGED <<row, log, sender, strayed, crashes>>

DueWhileSending(d, age) == row[d].due <= -age /\ row[d].status \in {"pending", "sending"}
DueUnlessHeld(d, age) == row[d].due <= -age /\ row[d].status # "none" /\ row[d].lock < -age
DueWhenPending(d, age) == row[d].due <= -age /\ row[d].status = "pending"

(* What the claim and the sweep ask for, `age' ticks after `now'. *)
Due(d, age) ==
  /\ row[d].due <= -age
  /\ \/ row[d].status = "pending"
     \/ row[d].status = "sending" /\ row[d].lock < -age

-----------------------------------------------------------------------------
(* The senders. *)

Begin(s, q) ==
  /\ sender[s] = Idle
  /\ sender' = [sender EXCEPT ![s] = About(q, 0)]
  /\ UNCHANGED <<row, log, active, strayed, crashes>>

(* A delivery job may run at any time.  One whose delivery is not due changes nothing and *)
(* is left out; one whose delivery is taken before it gets there is not.                  *)
StartJob(s) == \E d \in Deliveries : Due(d, 0) /\ Begin(s, <<d>>)

(* The due deliveries, earliest first, no more than a batch of them. *)
Sweeps ==
  LET due == {d \in Deliveries : Due(d, 0)}
  IN  {q \in UNION {[1..n -> due] : n \in 1..Batch} :
         /\ \A i, j \in 1..Len(q) : i < j => q[i] # q[j] /\ row[q[i]].due <= row[q[j]].due
         /\ \A d \in due \ ToSet(q) : Len(q) = Batch /\ \A i \in 1..Batch : row[q[i]].due <= row[d].due}

StartSweep(s) == \E q \in Sweeps : Begin(s, q)

(* Sender s is done with its first delivery: on to the next one, with the same `now'. *)
Turn(s) ==
  sender' = [sender EXCEPT ![s] =
               IF Len(sender[s].todo) = 1 THEN Idle ELSE About(Tail(sender[s].todo), sender[s].age)]

(* The conditional update, and the read of the row and the endpoint with it. *)
Claim(s) ==
  LET d == Head(sender[s].todo)
      age == sender[s].age
  IN  /\ sender[s].stage = "next" /\ Due(d, age)
      /\ row' = [row EXCEPT ![d].status = "sending", ![d].lock = ClaimTime - age]
      /\ sender' = [sender EXCEPT ![s].stage = IF active THEN "sending" ELSE "off",
                                  ![s].left = IF active THEN SendTime ELSE 0,
                                  ![s].attempt = row[d].count + 1]
      /\ strayed' = IF age > ClaimTime THEN strayed \cup {d} ELSE strayed
      /\ UNCHANGED <<log, active, crashes>>

Skip(s) ==
  /\ sender[s].stage = "next" /\ ~Due(Head(sender[s].todo), sender[s].age)
  /\ Turn(s)
  /\ UNCHANGED <<row, log, active, strayed, crashes>>

SwitchedOff(s) ==
  LET d == Head(sender[s].todo)
  IN  /\ sender[s].stage = "off"
      /\ row' = [row EXCEPT ![d].status = "failed", ![d].lock = Expired]
      /\ Turn(s)
      /\ UNCHANGED <<log, active, strayed, crashes>>

(* Late times are cut off where no sender can tell them apart. *)
Passed(t, floor) == IF t < floor THEN floor ELSE t

Outcome(s, ok) ==
  IF ok THEN "succeeded" ELSE IF sender[s].attempt >= MaxAttempts THEN "failed" ELSE "pending"

(* The answer, or the lack of one in time, is written down whoever holds the row by now.  *)
(* A delivery that fails for good may take the endpoint with it (when nothing else got    *)
(* through since it was created, which is not tracked).                                   *)
Record(s, ok) ==
  LET d == Head(sender[s].todo)
      outcome == Outcome(s, ok)
      due == IF outcome = "pending" THEN Passed(Delay - sender[s].age, -Late) ELSE row[d].due
  IN  /\ sender[s].stage = "sending"
      /\ row' = [row EXCEPT ![d] = [status |-> outcome, due |-> due, lock |-> Expired,
                                    count |-> sender[s].attempt]]
      /\ log' = [log EXCEPT ![d][sender[s].attempt] = @ + 1]
      /\ active' \in (IF outcome = "failed" THEN {active, FALSE} ELSE {active})
      /\ Turn(s)
      /\ UNCHANGED <<strayed, crashes>>

(* The process of a sender dies, or a transaction of its own fails. *)
Crash(s) ==
  /\ sender[s] # Idle /\ crashes < MaxCrashes
  /\ sender' = [sender EXCEPT ![s] = Idle]
  /\ crashes' = crashes + 1
  /\ UNCHANGED <<row, log, active, strayed>>

(* Sender s has delivery d in hand: it has claimed it and not yet recorded. *)
Holds(s, d) == sender[s].stage \in {"sending", "off"} /\ Head(sender[s].todo) = d

(* Time passes while every sender is idle or waits for its receiver, who has time left. *)
Waiting(s) == sender[s] = Idle \/ (sender[s].stage = "sending" /\ sender[s].left > 0)

Tick ==
  /\ \A s \in Senders : Waiting(s)
  /\ row' = [d \in Deliveries |->
               IF row[d].status = "none" THEN row[d]
               ELSE [row[d] EXCEPT !.due = Passed(row[d].due - 1, -Late),
                                   !.lock = Passed(row[d].lock - 1, Expired)]]
  /\ sender' = [s \in Senders |->
                  IF sender[s] = Idle THEN Idle
                  ELSE [sender[s] EXCEPT !.age = sender[s].age + 1, !.left = sender[s].left - 1]]
  /\ strayed' = strayed \cup {d \in Deliveries : \E s \in Senders : Holds(s, d) /\ sender[s].age >= ClaimTime}
  /\ UNCHANGED <<log, active, crashes>>

Next ==
  \/ \E d \in Deliveries : Emit(d)
  \/ Switch
  \/ \E s \in Senders :
       \/ StartJob(s) \/ StartSweep(s)
       \/ Claim(s) \/ Skip(s) \/ SwitchedOff(s)
       \/ \E ok \in BOOLEAN : Record(s, ok)
       \/ Crash(s)
  \/ Tick

Spec == Init /\ [][Next]_vars

(* A sweep comes every minute, whatever else the worker does; a sender that has begun goes *)
(* on, and a send ends by its timeout.                                                     *)
Fairness ==
  /\ SF_vars(Tick)
  /\ \A s \in Senders :
       /\ SF_vars(StartSweep(s))
       /\ WF_vars(Claim(s) \/ Skip(s) \/ SwitchedOff(s))
       /\ WF_vars(\E ok \in BOOLEAN : Record(s, ok))

FairSpec == Spec /\ Fairness

-----------------------------------------------------------------------------
(* What the service promises, and keeps as long as no claim on the delivery has run out *)
(* under a sender that has it in hand.                                                  *)

(* The queue job, the sweep and a person pressing "Resend" never send the same try: two *)
(* senders have the same delivery in hand only after a claim on it ran out.             *)
OneSender ==
  \A s, t \in Senders, d \in Deliveries : Holds(s, d) /\ Holds(t, d) => s = t \/ d \in strayed

(* A delivery that succeeded, or was given up, stays so: only a straggler moves it again. *)
Decided(d) == row[d].status \in {"succeeded", "failed"}
DecidedIsFinal == [][\A d \in Deliveries \ strayed : Decided(d) => row'[d].status = row[d].status]_vars

(* The delivery log has one line for every try the row counts, and none besides, until a *)
(* straggler counts a try of its own.                                                    *)
TriesAddUp ==
  \A d \in Deliveries \ strayed, n \in 1..MaxAttempts : log[d][n] = IF n <= row[d].count THEN 1 ELSE 0

(* Late, never lost: whatever is emitted is delivered or given up in the end, with no queue *)
(* but the sweep, through crashes and an endpoint that comes and goes.                      *)
EventuallyDecided ==
  \A d \in Deliveries : row[d].status \in {"pending", "sending"} ~> Decided(d)

-----------------------------------------------------------------------------
(* Why: a sender's `now' is never older than the sends behind it, and a claim that has *)
(* not run out is its sender's alone.                                                   *)

(* How much longer sender s may work. *)
Ahead(s) == sender[s].left + (Len(sender[s].todo) - 1) * SendTime
            + (IF sender[s].stage = "next" THEN SendTime ELSE 0)

WithinBudget ==
  \A s \in Senders : sender[s] # Idle =>
    /\ sender[s].stage # "idle" /\ Len(sender[s].todo) > 0
    /\ sender[s].age + Ahead(s) <= Late

(* A delivery in hand carries the claim of the sender that has it, and its count. *)
ClaimsAreTheirs ==
  \A s \in Senders, d \in Deliveries \ strayed : Holds(s, d) =>
    /\ sender[s].age <= ClaimTime
    /\ row[d].status = "sending" /\ row[d].lock = ClaimTime - sender[s].age
    /\ sender[s].attempt = row[d].count + 1

CountsInRange ==
  \A d \in Deliveries :
    /\ row[d].status \in {"pending", "sending"} => row[d].count < MaxAttempts
    /\ row[d].status = "none" => row[d] = NoRow

(* What the service says of every delivery, and does not keep when a claim runs out:      *)
(* one sender at a time (webhook-delivery.service.ts:30), outcomes that stay, and an      *)
(* exact log.                                                                             *)
NeverTwoSenders == \A s, t \in Senders, d \in Deliveries : Holds(s, d) /\ Holds(t, d) => s = t
OutcomesStay == [][\A d \in Deliveries : Decided(d) => row'[d].status = row[d].status]_vars
LogAddsUp ==
  \A d \in Deliveries, n \in 1..MaxAttempts : log[d][n] = IF n <= row[d].count THEN 1 ELSE 0

DeliveryInv == TypeOK /\ WithinBudget /\ CountsInRange /\ ClaimsAreTheirs /\ OneSender /\ TriesAddUp
=============================================================================
