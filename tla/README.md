# Verification of BUILDR (SiteBook)

Formal models of the construction-management system in this repository: the parts
whose correctness depends on the order in which requests, devices, jobs, crashes and
lost messages meet, on long sequences of legal calls, or on arithmetic that is hard to
test. TLA+ modules are checked with TLC on small instances; the most important
properties are proved with TLAPS for every value of the constants.

1. [The system](#1-the-system)
2. [Modules](#2-modules)
3. [The models, one by one](#3-the-models-one-by-one)
4. [Runs, bounds and fairness](#4-runs-bounds-and-fairness)
5. [Proofs](#5-proofs)
6. [What the code does not keep](#6-what-the-code-does-not-keep)
7. [Not modelled](#7-not-modelled)
8. [Plan](#8-plan)

## 1. The system

A multi-tenant SaaS for builders. A NestJS API (`apps/api`) over PostgreSQL, a worker
process for jobs (BullMQ over Redis, the same code base), a Flutter app for supervisors
that works without signal (`apps/mobile`), a Next.js site (`apps/web`), and shared pure
code (`packages/shared`). A service method runs in one transaction of
`TenantDb.transaction`, at PostgreSQL's default level READ COMMITTED, and with few
exceptions takes no explicit lock: what a handler has read may be stale when it writes.
That is the first source of hard behaviour. The second is the phone: it records what
happened on site hours before the server hears of it, over a network that loses
requests and answers. The third is time: jobs, retries, claims and tokens that expire.
The fourth is money that is cumulative, rounded and matched, and plans that are computed.

| Component | State it keeps | Operations that change it | Meets | Hard behaviour | What makes it correct |
|---|---|---|---|---|---|
| Wage sheets (`wage-periods`) | periods, lines, totals | generate, finalise, pay, discard, reopen; nightly draft | attendance, advances | check-then-write across requests; partial payment, reopening, regenerating | nobody is overpaid; a frozen sheet and the days under it stay; a sheet is `paid` exactly when settled; stamps belong to frozen sheets |
| Labour payments | payments, their `wage_period_id` | create, archive | wage sheets | deletion behind a period's back | a paid line is backed by payments |
| Attendance | one row per worker, site and day | record | wage sheets, other sites, sync | whole-call refusal on stale reads of other rows | a worker is booked for one day's work per day |
| Phone outbox (`sync.dart`) | queue, blocked entries, retry timer | enqueue, drain, retry, discard | API, session | lost answers, crashes, late copies, expired session, throttling | saved is never lost; only a late copy undoes a correction; one row per entry; always something that will send |
| Phone local tables (`offline_repository.dart`) | mirrors, `pending` marks | save, pull, drain clears | outbox, attendance API | stale answers against fresh marks, interleaving at awaits | a mark shown is never lost: the server has held it or the outbox has it; the phone ends up agreeing with the server |
| Outgoing webhooks | events, deliveries, tries, endpoint switch | emit, claim, send, record, sweep, resend | receivers, Redis | claims that expire, crashed senders, lost jobs | one sender per try, outcomes that stay and an exact log while no claim runs out under its sender; everything decided in the end |
| Public API idempotency | one row per key | reserve, answer, release, forget | expenses | overlapping retries, errors after commit, crashes | one write per key and day; true replays |
| Subcontracts, running-account bills | terms, variations, advances, releases; numbered bills | let, vary, lend, bill, certify, pay, release, close | cost report | cumulative "previous", rounding, figures drafted long before they are certified | no drift; promised and actual add up to the contract less what was charged back; certified figures freeze; a closed account owes nothing |
| Change orders, client approvals | orders, approvals, revisions of budgets and of the contract | draft, submit, sign off, answer, withdraw, revise, cancel, implement | cost codes, projects | two answers at once, row locks in order, stale handlers | the client's yes and what it moves come together; the history adds up, edits by hand included; what was agreed stays |
| Purchase orders and invoices, indents | order, received quantities, approver; indent status; invoices with their match | raise, submit, approve, receive, close; record, match, approve, reject | vendors, expenses, cost report | limits across edits, partial deliveries, a match that goes stale | committed is within a limit; paid for what came; money in one place |
| Scheduling and its engine | tasks, links, constraints, progress | edit, link, report, import | milestones, client portal | recheck in the writing transaction, backward pass, mixed link types | every plan left can be drawn; progress is one story; float is what can slip |
| Sync API | cursor per device | push, pull | every entity | nine cut-off pages under one cursor | every change reaches every device |
| Daily reports | report per site and day | create, update, submit, archive | webhooks, notifications | retries that overwrite | a submitted report is final; told once |
| Stock | movements | in, out, adjust | indents, orders | sum-then-insert | never below zero |
| Sessions (`auth`, `security`) | refresh tokens, sessions | rotate, sign out | phone | rotation against lost answers | a thief is caught, an owner is not |
| Billing | provider events, subscription | handle event | Razorpay, Stripe | retries of the provider | each event applied once, and not zero times |
| BOQ bills | measurements, cumulative bills | measure, submit, certify | cost codes | as running-account bills | certified quantities never fall |

The remaining components are listed in `PROJECT.json` with the reason each is left out
(section 7). `PROJECT.json` also lists, line by line, the main hazards of this code and the
properties that would catch each going wrong; section 8 has those that wait for a module.

## 2. Modules

| Module | What it is | Model checking | Proofs |
|---|---|---|---|
| `WagePeriods` | wage sheets, with the attendance and the advances they are drawn from and the payments made against them | `MCWagePeriods` | `WagePeriodsProofs` |
| `RollCall` | one day's roll calls over the sites of a company | `MCRollCall` | `AttendanceProofs` |
| `Outbox` | the phone's outbox, its session, its network and the server's answers | `MCOutbox` | `OutboxProofs` |
| `PhoneMirror` | the roll call the phone shows: local rows, outbox, pulls and the office | `MCPhoneMirror` | `AttendanceProofs` |
| `WebhookDelivery` | deliveries, senders and the passing of time | `MCWebhookDelivery` | `PublicApiProofs` |
| `Idempotency` | one idempotency key and the calls that carry it | `MCIdempotency` | `PublicApiProofs` |
| `Money` | amounts: a quantity at a rate, basis points, half up | | `CostProofs` |
| `SubcontractAccount` | abstract: a subcontractor's account as four pots between which money moves | `MCRunningBills` | `CostProofs` |
| `RunningBills` | one subcontract and its running-account bills; implements `SubcontractAccount` | `MCRunningBills` | `CostProofs` |
| `PurchaseOrder` | one purchase order, the indent behind it, its receipts and its invoices | `MCPurchaseOrder` | `CostProofs` |
| `CriticalPath` | the scheduling engine: what it refuses, both passes, float | `MCSchedule` | `ScheduleProofs` |
| `Schedule` | the writes to one site's plan, and the transaction around each | `MCSchedule` | `ScheduleProofs` |
| `ChangeOrders` | one site's change orders, the client's approvals, and the figures they move | `MCChangeOrders` | `ChangeOrdersProofs` |
| `Sums` | sums over finite sets, and the largest and the least of one | | its lemmas serve `CostProofs`, `ChangeOrdersProofs` and `ScheduleProofs` |

How they meet. `WagePeriods` models `record` for its check against frozen sheets; `RollCall`
models the same handler for its check against the other sites, with the sheets as a switch of
the environment. A roll call that reaches either may come from `Outbox`, where the server is
reduced to what it does with one worker's row; `PhoneMirror` composes a plainer outbox, without
the session and with delivery in order, with the local table, the screen's pulls and the office's
marks. The `Emit` of `WebhookDelivery` is the row that any of these transactions leaves behind,
and the write of `Idempotency` is the expense of the public API. `RunningBills` rests on `Money`
for every rounding, and `Schedule` on `CriticalPath` for every answer of the engine.
`RunningBills` instantiates `SubcontractAccount` with its statement as refinement mapping. Every
definition that stands for code is tied to its lines in `PROJECT.json` (`map`).

Each module ends with its properties, their inductive form where there is a proof, and the
statements of the documentation that the code does not keep. Beside some definitions stands
a variant with a telling name (`DueWhileSending`, `ArchivableAnything`, `RoundedEachTime`): the
definition as a plausible bug would leave it. Replacing the one by the other violates the property
named for it in `PROJECT.json` (`mutants`), which is how we know that each property can fail.

A proof module is about one concern and extends the modules it needs, so two components may share one:
what was promised and what has become cost (`CostProofs`), the day's attendance on the server and on the phone
(`AttendanceProofs`), the public API outwards and inwards (`PublicApiProofs`). The modules that share one keep
their names apart (`OrderSpec`, `RollSpec`, `KeySpec` beside `Spec`).

## 3. The models, one by one

### WagePeriods

State: `att` (attendance rows), `adv` (advances with the period that deducted them, and whether their
caller named it),
`period` and `line` (the sheets), `cash` (the live wage payments per line), and `req`: what
each request in flight has read. A handler is two actions. The first reads, checks, and
leaves in `req[r]` the locals the second will use; the second writes, whatever was committed
in between. That is exactly READ COMMITTED without locks. `pay` has three: PostgreSQL's row
locks on the incremented lines make a second payment of a line wait (`Locked`), and the read
that decides whether the sheet is settled happens after them. With a single element in
`Requests` the handlers do not overlap. An advance may be created with a period already on it, as the code
allows; `StampsBelongToFrozenSheets` is about the stamps `finalise` gives, so it says nothing of such an advance
until a sheet lets go of it.

| Code | Actions |
|---|---|
| `AttendanceService.record` | `RecordCheck`, `RecordWrite` |
| `LabourPaymentsService.create` | `GiveAdvance`, `RecordLooseWage` |
| `LabourPaymentsService.archive` | `ArchiveCheck`, `ArchiveWrite`, `ArchiveWage` |
| `WagePeriodsService.generate` | `GenerateRead`, `GenerateWrite` |
| `finalise` | `FinaliseRead`, `FinaliseWrite` |
| `pay` | `PayRead`, `PaySettle`, `PayCommit` |
| `discard`, `reopen` | `DiscardRead/Write`, `ReopenRead/Write` |

Abstractions: a present day earns one unit and an advance is one unit; half days and overtime
are amounts and do not change control. A worker in `Salaried` is paid for the window less his
absences. The identity of a line is not followed over a delete and a new insert. The
nightly draft is a `generate`. `MaxRepeat` is how often one list of payments may name a worker:
each of its entries is checked against the same outstanding amount.

### RollCall

State: `roll` (the rows of one day), `closed` (a frozen sheet covers it), `req`. `RecordCheck`
is the whole check of `record`: the rows elsewhere, of which a `Map` keeps one (the query has no
order, so any), the clash rule, and the refusal of the whole call. `RecordWrite` is the upsert of
every listed worker. Left out: the wage snapshot and the client id of each row. `OnePresentRow` holds for any
number of sites, one call at a time; `NeverOverbooked` does not hold with three, which the run
`rollcall_third_site` shows.

### Outbox

State of the phone: `queue`, `blocked`, `saved` (what its user was told is safe), `loop` (where
`_drain` is; the single-flight flag, the app being dead), `timer`, `attempt` (a direct post and
how far it got), `token`. Of the server: `cell` (the last roll call applied), `plain` and `keyed`
(rows without and with a client id). `late` holds requests the phone has given up on, each where it is: on its way,
or past the look-up of its client id.

A roll call is queued in any case; other writes are tried once and queued when no answer comes
(`_sendOrQueue`). The drain sends the oldest entry, removes it on a 2xx, blocks it on a 4xx (429
and an unrecoverable 401 included) and stops and arms the timer when there is no answer. A create on the
server is two steps, the look-up of the client id (`LookUp`, `LookUpLate`) and the insert, between which another copy
of the entry may insert: then the unique index refuses, and the caller gets a 409. A request the phone gave up on
may be carried out at any later time or never (`Abandon`, `ServeLate`). Switches of the environment: `Expiring`,
`Throttling`, bounded `MaxCrashes`. All roll calls are about one worker and day, the case in which order matters.

### PhoneMirror

State: `mirror` (per worker the mark shown and whether it is unsent), `saving` (a roll call written
locally and not queued yet), `queue`, `blocked`, `drain` (where `_send` is with the entry in front),
`screen` (each opening of the roll call: asked, answered, checked), `sheet` (the server's rows).
Three history variables serve the properties: `reached` (every mark a row of the server has held),
`cut` (marks the app died with between the two local writes) and `early` (marks made while an older one of the same worker
was on its way, which `Clear` shows as sent with it). The actions are the stretches between
two awaits of Dart's event loop.

| Code | Actions |
|---|---|
| `OfflineRepository.saveRollCall` | `Save`, `Enqueue` |
| `SyncEngine._drain`, `_send` | `Send`, `Clear`, `RemoveSent`, `Block`, `GiveUp` |
| the server | `Serve`, `Refuse`, `OfficeMarks` |
| `OfflineRepository.rollCall` | `Open`, `Answer`, `NoSignal`, `Check`, `Write` |
| process death | `Crash` |

Marks are numbered in the order they are made, so that every mark can be told from every other.
`ShownIsKept` tells a mark shown as waiting from one shown as sent: the first is in the outbox, the second the server
has held, except for the marks of `early`, which are in the outbox until it has. `Clear` goes by worker and not by
mark, so those do show as sent too soon (`ShownAsSentWasSent`, section 6).

### WebhookDelivery

State: `row` (deliveries), `log` (tries), `active` (the endpoint), `sender` (each sender's stage,
what it has to do, and its `now`). A job is a sender with one delivery; a sweep is a sender with a
batch. Times are relative: how far ahead `nextAttemptAt` and `lockedUntil` lie, and how old a
sender's `now` has become; `Tick` moves all of them, and they are cut off where nobody can tell
them apart. `strayed` is a history variable: the deliveries a claim of which ran out while its
sender was still at work. With the code's constants (batches of 50, sends of up to 10 s, claims of 60 s)
that happens, and it happens in the run. Every send takes up to `SendTime`; database work takes no time. The queue is not a
variable: a delivery job may run whenever its delivery is due, which covers duplicated, lost and
delayed jobs, and only the sweep is sure to come. The receiver's answer is arbitrary. A final
failure may switch the endpoint off or not, since `lastSuccessAt` is not tracked. A resend is a new
delivery and so is another `Emit`.

### Idempotency

State: `key` (the row), `call` (where each call is and what it was told), `done` (whose write has
committed), `earlier` (writes of a window that is over). `reserve` is `Reserve` (the delete of an
old row and the insert, which is one transaction; the unique index lets one insert in) and
`Lookup` (the separate read after a refused insert). The handler's write commits on its own; an
error may come before or after it; `Complete` and `Release` are the interceptor's two ends. A
process may die anywhere. A day passes only while no call is in flight.

### RunningBills and SubcontractAccount

State: `status` and `terms` of the contract (retention, recovery and tax rates, the advance agreed,
quantity and rate per line), `variation`, `bills` in the order of their numbers (status, quantity to
date per row, figures, paid), `advance`, `released`, `retentionPaid`. Each action is one request of
`SubcontractsService` or `RaBillsService`, one transaction: `EditTerms`, `SetStatus`,
`CreateVariation`, `DecideVariation`, `ReleaseRetention`, `PayAdvance`, `PayRetention`, `CreateBill`,
`UpdateBill`, `RemoveBill`, `SubmitBill`, `ReturnToDraft`, `Certify`, `PayBill`.

`Committed` and `Actual` are what the cost report takes from the contract. A settled bill adds what its rows are
worth and takes off its back-charges, as the report's negative rows do.

`Figures` is `computeRaBill` to the last rounding: everything is worked out on the work to date and
the bill's share is the difference from the bill before it; the recovery is capped by the advance paid so
far and never falls; tax is charged on the bill alone. The ledger (`Previous`, `LastFigures`) skips
bills that are not settled and reads a line a bill does not mention as unchanged. `Certify` works the
figures out again on the contract as it is by then, and `SubmitBill` does so too.

`SubcontractAccount` says what the account promises without bills or rates: what is owed, held, lent and
spent, moved by certifying, releasing, paying, lending and closing, with the sum of the pots kept and
nothing left to settle once closed. `KeepsAnAccount` maps the statement onto it.

### PurchaseOrder

State: `order` (its status), `ordered`, `received`, the stored `total` and the `approver`; the `indent` behind the
order; per invoice number its status, quantities, markup, the tolerance of its match and whether it was
flagged. Actions: `CreateDraft`, `Update`, `Submit` (approved there and then within the requester's own
limit), `Approve`, `Reject`, `Move` (sent, cancelled, closed), `Receive`, `IndentMoves` (the site or the
office moves the indent by itself), `Record`, `ApproveInvoice` (matched again first), `RejectInvoice`,
`RemoveInvoice`. `Flags` is the three-way match: what all standing invoices bill of a line is held
against what was ordered and what came, and the rate against the agreed one, each with the tolerance in
basis points. Quantities are whole units; tax, numbering and what a receipt adds to the store are left
out. Each action is one request, one transaction; overlapping requests on one order are not modelled
(section 6).

### CriticalPath and Schedule

`CriticalPath` is the engine (`packages/shared/src/schedule.ts`) as operators over a plan: rows, a
function from tasks to what a planner decided about each, and links of four types with lags. `Accepts` is
what it refuses (loops, links on summaries). `Early` and `Late` are the two passes: recursive functions
over the graph whose rules, what one task's dates follow from, are `EarlyBy` (the latest of its `Bounds`, and what
progress makes of it) and `LateBy` (the least of its `Ends`); `TotalFloat` and `FreeFloat` are the two floats. Time is counted in working days;
the calendar itself is not modelled, and every date of a row is a working day.

`Schedule` has the committed `plan`, the `requests` in flight, `today` and a count of `edits`. A write is
three actions, as `change` is three parts: `Edit` reads the plan, which must pass the engine, checks the
request and settles what to write (`Decides`); `Check` writes and reads the plan again, with what
others have committed meanwhile, and rolls back if the engine refuses it; `Commit`. A write to rows another
transaction has written waits (`Waits`, `Collide`). The requests are `CreateTask`, `MoveTask`, `SetKind`,
`SetLength`, `Constrain`, `DeleteTask`, the three on dependencies, and `RecordProgress`, where
`Report` is what follows from what was said about percent, start and finish and what was not.
`DayPasses` moves the day. The site begins with the plan of an imported file.

With writes one after the other, `Check` never refuses: what the first part lets through is accepted.
That is part of what `Drawable` and its proof show; the recheck is there for overlaps, which it does
not fully catch (section 6).

### ChangeOrders

State: `order` (status, revision, lines and price, the approval it waits on), `approval`, `budget` per
cost code, `siteBudget`, `byHand` (what somebody set the site's budget to after each revision), `contract` as signed, `moved` (what moved each code's budget), `site` (the
site's revisions) and `req`. Handlers of `ChangeOrdersService` read (`Load`) and then write their own
columns over whatever the row says by then (`Update`, `Remove`, `Submit`, `ReturnToDraft`, `Approve`,
`Revise`, `Implement`, `Cancel`). `Stands` is the database's rule `change_orders_applied_when_agreed`:
a row that breaks it undoes the transaction.

The client's answer is followed lock by lock, as it is the one place of this code that takes them:
`DecideRead` or `ClientDecision` looks, `Answer` writes the approval and holds it, `Look` finds the order
behind it, `LockCode` locks the cost codes in order, `LockSite` the site, and `Settle` writes everything
at once or, against the unique index, nothing. `AskClient`, `WithdrawRead`, `WithdrawCheck` and
`WithdrawWrite` are the approvals that are the client's own, or thought to be. `EditBudget`,
`SetContractValue` and `SetSiteBudget` are edits by hand. The last is `ProjectsService.update`, which writes the site's
budget outright and leaves no revision; it waits for the lock an answer holds on the site. Left out: tax, the
handover date (moved by answers and edited by hand as the site's budget is),
attachments and suggestions, and the key-share locks of foreign keys, which are taken by transactions that
hold nothing another waits for.

`Racing` names the operations that may overlap on one order. It is an assumption about use, not
something the code enforces: section 6 says what happens without it. Requests on different orders overlap
freely.

## 4. Runs, bounds and fairness

| Run | Question | Bounds | Distinct states |
|---|---|---|---|
| `wage_serial` | Do the sheets keep their promises through every order of operations, one at a time? | 2 workers, 2 days, windows {1} and {1,2}, 2 sheets, 1 advance, perhaps given a sheet by hand; symmetric workers, sheets | 2 724 159 |
| `wage_concurrent` | What is left when requests overlap? | 1 salaried worker, 1 day, 2 sheets, 1 advance, 2 requests, 1 payment by hand | 331 926 |
| `rollcall` | One roll call at a time: has anybody two present rows on a day? | 2 workers, 3 sites | 13 784 |
| `rollcall_third_site` | The same: is anybody booked for more than a day? (violated) | 1 worker, 3 sites | |
| `outbox` | Is nothing dropped, stranded or made twice from the queue, is a correction undone only by a late copy, is everything settled in the end? | 2 roll calls, 1 post, expiry, throttling, 1 crash, late requests | 133 245 |
| `phone_mirror` | Is every mark shown kept somewhere, and does the phone end up agreeing? | 2 workers, 1 screen, 3 marks in all, 1 crash | 693 484 |
| `webhook` | One sender per try, final outcomes and an exact log where no claim ran out under its sender; eventual decision | 2 deliveries, 2 senders, batch 2, sends of 2, claims of 3, wait of 2, 2 tries, 1 crash | 546 390 |
| `idempotency` | One write per key and day, true replays | 4 calls, 2 requests, 2 deaths | 18 528 |
| `running_bills` | No drift, frozen figures, the cost report at the contract value less back-charges, an account that settles | 1 line and 1 variation, 2 sets of price terms, claims of 0.5 and 2, back-charges 0 and 4, part sums of 2, 2 bills | 192 532 |
| `purchase_order` | Committed within a limit, paid for what came, money in one place | 2 materials of up to 2 units at 2 and 3, limits of 5 and 100, 2 invoices, markups 0 and 1, tolerances of 0 and 50 % | 1 151 176 |
| `schedule` | Can every plan be drawn, is progress one story, is float what can slip? | 3 tasks, lengths 1 and 2, links FS, FS−1, SS+1, FF, SF+1, percents 0, 50 and 100, 1 day, an imported chain and 2 writes one after the other | 372 823 |
| `change_orders` | Do the client's yes and what it moves come together, and does everything add up, when requests overlap? | 2 orders, 2 approvals, 2 cost codes, 2 requests, 3 offers (one a credit larger than the budget), 1 revision, 1 edit by hand; symmetric | 3 535 254 |

`PROJECT.json` lists the properties of each run. A type invariant is in the runs of the two modules
with the widest records (`running_bills`, `change_orders`); all of them are proved.

Why the bounds are enough. *Wages*: two overlapping windows over two days are the smallest case
with a shared day and one that is not; an advance can be contended by two sheets; a line worth two
can be paid in parts; two workers make "every line settled" different from "this line settled".
*Roll call*: the rule compares a row with one of the others, so the third site is the smallest case in which
it chooses. *Outbox*: a roll call and its correction are the smallest order that can be
inverted; the post is refused by throttling and by the unique index, and its copies overlap. *Mirror*: three marks are a mark, a
correction of it and one of the office between them, in any order; two workers make an entry that
carries some of the rows different from one that carries all. *Webhooks*: two senders contend
for one delivery while one of them is on its way to it through another; two sends outlast one claim, as
the code's 50 of 10 s outlast its 60 s, and one alone does not; two tries have a retry that is not the last. *Idempotency*: a first call, a retry in flight, one for a different
request, and one the day after. *Running bills*: the second bill is the first with a "previous"; one
set of terms is plain, the other has a rate that leaves halves to round, a retention that drifts if
rounded by bill and an advance that two bills recover; the variation may come before, between and after
them. *Purchase order*: the limit of 5 lies between the orders that can be made; two materials make
"everything came" different from "this line came"; two invoices can each fit and not fit together.
*Schedule*: three tasks have a chain, a fork, a join, a loop of three and a summary with two subtasks;
two writes contradict or follow each other, and begin from any chain. *Change orders*: two answers at
once need two orders, two locks in a wrong order need two cost codes, and the credit meets the floor of
zero. Where there is a proof the bounds do not matter at all.

Runs with `CHECK_DEADLOCK FALSE` are of systems that really stop: every identifier used, nothing
queued, a contract closed, or every call answered. `RollCall` never stops and is checked for deadlock.
`NoStandoff` of `ChangeOrders` says by itself that requests at work never all wait for each other.

Fairness.
* `Outbox`: the app's own steps are weakly fair, because its event loop runs, its timer fires
  (only `Wake /\ timer`: nothing relies on the user), and the app is opened again after a crash.
  The network is strongly fair for what is sent over and over: an answer in the end arrives
  (`Serve \/ Refuse`, `Accepted`), and so does the end of a refresh. Nothing is assumed of direct
  posts, late copies or sign-in.
* `PhoneMirror`: the steps of the event loop are weakly fair (`Enqueue`, `Send`, `RemoveSent`, `Block`,
  `Check`, `Write`), and the screen is opened now and then (`Open`), without which a phone cannot learn
  what the office marked. The network is strongly fair (`Serve \/ Refuse`, `Clear`, `Answer`): what is
  tried again and again gets through once. Nothing is assumed of taps, the office or crashes.
* `WebhookDelivery`: each sender goes on once it has begun, and a send ends by its timeout (weak).
  The cron starts a sweep every minute whatever the queue does, so starting a sweep is strongly
  fair for each sender that is free again and again; so is time. Nothing is assumed of jobs, of
  the receiver or of the endpoint staying on.

## 5. Proofs

All theorems are proved for every value of the constants, from the named assumptions on them in each module
and from what is written in front of `PROVE`. A theorem is proved of the specification without fairness.

| Theorem | States | Extra assumptions |
|---|---|---|
| `TypeCorrect`, `RollCallTypes`, `MirrorTypes`, `OutboxTypes`, `WebhookTypes`, `KeyTypes`, `OrderTypes`, `BillsAreTyped`, `OrdersAreTyped` | the module's type invariant | none |
| `PaidAlwaysBacked` | `[]PaidIsBacked`, with any overlap | none |
| `NeverOverpaid` | `[]PaidWithinNet` | `OneRequest`, `OneEach` |
| `PaidIsSettled` | `[]PaidMeansSettled` | same |
| `FrozenIsFinal` | `FrozenSheetIsFinal` | same |
| `MoneyPins` | `MoneyPinsTheSheet` | same |
| `StampsStand` | `[]StampsBelongToFrozenSheets` | same |
| `OneFullDay` | `[]OnePresentRow`, any number of sites | `OneRequest` |
| `NothingStranded`, `OneRowPerEntry` | `[]NeverStranded`, `[]OncePerEntry` | none |
| `CorrectionsStand`, `NothingDropped` | `OnlyLateGoesBack`, `[]NeverDropped` | none |
| `MarksShownAreKept` | `[]ShownIsKept` | none |
| `ClaimsHold`, `DecidedStays`, `LogIsExact` | `[]OneSender`, `DecidedIsFinal`, `[]TriesAddUp` | none |
| `OncePerKey`, `ReplaysAreTrue` | `[]NothingTwice`, `[]ReplayIsTrue` | none |
| `CommittedWithinLimit`, `DeliveriesFit` | `[]WithinLimit`, `[]WhatCameFits` | none |
| `PaidOnlyForWhatCame`, `EachUnitOnce` | `[]PaidForWhatCame`, `[]MoneyInOnePlace` | none |
| `RoundingNeverDrifts`, `TheTwoAreTheContract` | `[]NoDrift`, `[]CommittedThenActual` | none |
| `CertifiedIsFrozen` | `FiguresFreeze` | none |
| `StatementIsAnAccount` | `KeepsAnAccount`: `RunningBills` implements `SubcontractAccount` | none |
| `BooksBalance` | `[]` of the account's `Balanced` and `Settled`, for the contract's own pots | none |
| `SerialPlansCanBeDrawn` | `[]Drawable`, any tasks, links, lags and number of writes | `OneRequest` |
| `ProgressIsOneStory` | `[]ActualsAgree`, with any overlap | none |
| `FloatIsSlack`, `FreeFloatIsFree` | `[]FloatIsWhatCanSlip`, `[]FreeFloatMovesNothing`, with any overlap | none |
| `HistoryIsUnbroken`, `AnswersGoOn` | `[]HistoryAddsUp`, `[]NoStandoff`, with any overlap and any edits by hand | none |
| `ContractIsTheSum` | `[]ContractAddsUp` | `EditsAlone` |
| `AnswersTakeEffect`, `AgreementIsKept` | `[]AnswerTakesEffect`, `AgreedIsKept` | `ChangesAlone` |

Section 6 names what happens when `OneRequest`, `OneEach`, `EditsAlone` or `ChangesAlone` does not hold. `EditsAlone` says that nobody edits or deletes an
order while another request is at it, `ChangesAlone` that nobody signs it off or revises it either; sign-offs,
answers and cancellations of different orders, and all other operations on the same one, still overlap.

What the constants are assumed to be is what the program stores. The price terms and quantities of
`RunningBills` are natural numbers, which the database checks
(`20261007000500_subcontracts/migration.sql:365-391`, and narrower: percentages up to 100). The tasks
and the kinds of link of `Schedule` are finitely many, as rows are, and lags are whole days of either sign
(`schedule-import.service.ts:164`). Rates and limits of `PurchaseOrder` are natural numbers of the smallest coin.

*Wages.* `PaidWithinNet` is not inductive: a request in flight carries amounts it has read.
`ReadsStillHold` says that, with one request at a time, what the request has read is still so;
`SheetsInOrder` says in which states a sheet may have lines and money. Together with the types they
are `SerialInv`, which the proof shows inductive with one lemma for each handler.
`FrozenSheetIsFinal` and `MoneyPinsTheSheet` then follow step by step from `SerialInv`, and
`StampsBelongToFrozenSheets` is inductive beside it (`NextStamps`). `PaidAlwaysBacked` needs none of
this: it is inductive with the types alone, because `pay` writes both sides in one step and `archive`
refuses what a period holds.

*Roll call.* `ChecksStillHold` says that what a call about to be written has seen is still there. The
subtle point is that `record` looks at one other row of many: a present row is let in only when there
is no other row at all (even an absence elsewhere refuses it), so it does not matter which it looks at.

*Outbox.* No assumption is made of the network. `InOrder` says that roll calls wait in the order they were made, and
that neither the server nor a late copy has seen one newer than what still waits; so only a late copy can be older
than what the server has. `AnswersTrue` says that an answer the phone has seen, or is about
to see, speaks of what the server has, which is what lets an entry leave the queue. `OncePerEntry` rests on the
unique index alone (`RowStep`): a look-up made before another copy's insert says nothing any more.

*Mirror.* `ShownIsKept` is inductive with facts about what is under way: every mark in an
answer a screen holds is one the server has held (`SeenWasHeld`), and an entry the drain is about to
clear or to remove is there already (`ServedWasHeld`). The first lets a pull overwrite a row, the second lets an
entry go. That a row the pull overwrites is not the only place of a mark, and that a mark of `early` still waits when
the entry before it goes, takes the order of the queue (`QueuedBefore`, `ClearedBeforeRemoved`, `UnsentWaits`, `SentWasHeld`).

*Webhooks.* `WithinBudget` bounds a sender's age by the sends it may still have ahead of it.
`ClaimsAreTheirs` ties the claim of a delivery that has not strayed to the age of its holder: `lock = ClaimTime - age`,
so a second sender finds it held as long as the first has it in hand. A claim that runs out under its holder is the
only way to stray (`Claim`, `Tick`), and nothing is assumed of how batches, sends and claims compare.

*Idempotency.* `KeyIsHeld` says that the row belongs to the call at work; `OneWindow` says that what
was written in the present window was written by that call, or its caller was told of an error.

*Purchase order.* `LimitInv` adds to `WithinLimit` that the stored total is the value of the stored lines
in every status: an order is edited long before it is committed, and only the total is held against the
limit. `WhatCameFits` is inductive with the types. `PaidInv` adds to `PaidForWhatCame` that what passed the match
is within tolerance in price too (`FairlyPriced`). Approval matches again, so the last invoice to be approved
vouches for all of them: what the others bill is part of its own match, whether they are approved or not, and
every later step either bills no more or brings more goods (`PaidKept`). `MoneyInOnePlace` follows without
another invariant: exact matches charge each line its rate for no more than came, the sum by invoices is the sum by
lines (`TotalSwap`), and what is not charged is outstanding.

*Running bills.* `BillsInv` is five facts. Each bill states at least the lines and quantities of those before it,
and no more than the contract has (`Grows`); bills are only open while the contract runs (`InForce`); what the settled
bills add up to is what the last of them says to date (`ToDateAddsUp`), which is where rounding could drift and
does not, because each bill's share is a difference of figures to date; none is overpaid, and is `paid` exactly when
all of it is (`NotOverpaid`); and what was released and paid of the retention is within what was kept
(`PotsHold`). The bills settled are always the first of them (`SettledAre`), so one open bill at most is put, changed or
taken away at the end. Each handler comes down to a step the statement does not tell (`Quiet`), a certification
(`Earns`), the closing (`Closes`), or a sum of money that moves: a release, an advance, a payment (`StepIs`). From those
`CertifiedIsFrozen` is read off, and the refinement: `AccountStep` maps each to a move of the account or to none. That
the books balance and that a closed contract is settled (`BooksBalance`) follows from the moves of the account alone.

*Schedule: the breakdown.* `PlanInv` says that the plan is accepted, that the only set of tasks closed under parents is
the empty one (`Hangs`), and that the write a request has settled on leaves such a plan when applied to
the plan there is (`WritesFit`). The heart is one lemma for each way of changing the breakdown
(`MovedHang`, `CreatedHang`, `DeletedHang`): what a move may not choose as its parent is exactly what is under
the task.

*Schedule: progress and float.* These need no `OneRequest`. `StoryInv` says that every row of the plan is one the
program can have written (`KnownPlan`), progress included, and that so is every write in flight, whatever
the plan has become by the time it lands (`KnownRequests`): a write replaces all of a row's progress or none of it.
The passes are recursive functions, and what such a function is at each task has to be shown first: `RuleIsObeyed`
says that a rule looking only at what comes before has a function that obeys it everywhere, when every set has a
task with none of the set before it, which is what a plan without loops is (`Loops`, `FirstOf`, and `LastOf` for the
backward pass). From then on only two facts about a pass are used, `EarlyFacts` and `LateFacts`. Two
plans that differ in one task held back are compared at the first task, along the links, where the claim would fail:
nothing comes earlier (`NothingEarlier`), nothing passes its latest dates (`NothingPastLatest`, so
`SlackIsSafe`), nothing else moves within free float (`FreeIsFree`). For the other direction, a task past its latest start
drives one of its successors past its own (`DrivenPast`); the last such task ends after the job did (`OneDayMore`).

*Change orders.* Three invariants, each resting on the ones before it. `LocksHold`: a decision at work has read what
it holds, the cost codes it still has to lock come after those it has, and no two hold the same thing. So what
a yes found is still so when it writes, an edit by hand of the site's budget included, which waits for the same lock
(`SiteSettles`, `SiteSetByHand`; so `HistoryIsUnbroken`), and answers never wait in a circle: one that waits for a code waits
for a decision that wants a higher one, and among finitely many codes somebody wants the highest (`AnswersGoOn`,
by `Largest`). `RecordInv` adds that an edit or a deletion
finds the order as it loaded it, that an order is agreed exactly when the site's record has it, once and at its price,
and that the total a decision read is the total there is. `AskInv` adds who waits for whom: an order and its
approval name each other while the answer is out and after a yes, what a request has loaded still tells it what
it may write (`Knows`), and an approval being answered has one request at it (`OneHolder`). `AgreementIsKept` is read
off the steps that keep `AskInv`. Where a cancellation overlaps the client's yes it is the CHECK constraint
(`Stands`) that refuses it, as section 6 says.

*Sums and recursion.* No theorem of the library with an operator for a parameter can be used here. Sums over
finite sets are folds; their laws (`Sums`) are proved by induction on the subsets of a finite set, with a set of
good subsets in place of a predicate (`SubsetInduction`), from the library's theorem that strict inclusion is
well founded on them. The recursive passes are treated as above, with a function in place of an operator.

Only model-checked, not proved: the liveness properties `EventuallySettled`, `EventuallyDecided` and
`EventuallyAgrees`, because the proof system does not reason about fairness here. Every other property of every passing run is
stated by a theorem. What a theorem says under an assumption is checked by TLC with instances that satisfy it; the
other instances are the table of section 6.

## 6. What the code does not keep

Known departures: statements of the documentation, comments or tests that do not hold, and hazards that bite. Those with
a definition are stated in the module named, and were seen in TLC with the setting given; `NeverOverbooked` has a
run of its own.

| Definition | With | What happens |
|---|---|---|
| `PaidWithinNet` (`WagePeriods`) | 2 requests | two payments at once both read the same outstanding amount and both are recorded (`wage-periods.service.ts:594`) |
| `PaidWithinNet` | `MaxRepeat = 2` | a list that names a worker twice pays him twice: each entry is held against the amount read before the loop (`:612`) |
| `RemainderStaysOutstanding` | 2 advances | `finalise` stamps all open advances of a worker whose line deducts any, although a thin week covered only some (`:545`; `docs/adr/0003-money-and-wage-snapshots.md:56` says the remainder stays outstanding) |
| `DeductedOnce` | 2 sheets, 1 advance | two drafts deduct the same advance and both are finalised (`:423`; the comment at `:521` says the next period cannot deduct it again) |
| `PaidIsInStep` | `MaxLoose = 1` | a wage payment recorded by hand against a period leaves `paid_amount` stale (`labour-payments.service.ts:122`; the comment at `:120` says that is why it is refused) |
| `OneSheetPerWindow` | 2 requests | two generates of one window create two sheets; no unique index exists (`wage-periods.service.ts:370`; the comment at `:691` assumes one) |
| `StampsBelongToFrozenSheets` | 2 requests | a finalise between the check and the deletion of an advance leaves a deleted advance deducted (`labour-payments.service.ts:195`) |
| `FrozenSheetIsFinal` | 2 requests | a finalise between the check and the write of a roll call freezes a day that then changes (`attendance.service.ts:108`; `docs/sitebook-technical-spec.md:253`) |
| `MoneyPinsTheSheet` | 2 requests | a payment between the check and the write of `reopen` is on a sheet that reopens (`wage-periods.service.ts:757`) |
| `OnePresentRow` (`RollCall`) | 2 requests | two supervisors at once both mark a worker present (`attendance.service.ts:121`; `docs/sitebook-technical-spec.md:269`) |
| `NeverOverbooked` | 3 sites; run `rollcall_third_site` | half a day is let in beside a full one, and a third half day: the `Map` keeps one of the other rows and the sum is never formed (`:129`; `leak-rules.ts:66-69` says the roll call refuses it) |
| `RefusalIsTrue` | 1 request | an absence on another site refuses a present row with a text that says the worker is there (`:135` against `:142`) |
| `AtMostOnce` (`Outbox`) | as in the run | a post whose answer is lost is queued under a client id made only then, and made twice (`api_providers.dart:408`; the comment at `sync.dart:245` says a retry cannot make two); `OncePerEntry` is about queued entries |
| `BlockedOnlyWhenRefused` | `Expiring = TRUE` | a refresh that fails for want of a network leaves a 401, and the entry is blocked for good (`api_client.dart:138`) |
| `BlockedOnlyWhenRefused` | `Throttling = TRUE` | a 429 is a 4xx, and the entry is blocked (`sync.dart:171` against `:176`) |
| `CorrectionStays` | as in the run | a roll call the phone gave up on arrives after its correction and replaces it (`sync.dart:199` against the comment at `:55`, which promises the order); `OnlyLateGoesBack` says that nothing else does |
| `BlockedIsNotAccepted` | as in the run | the loser of two copies of one entry gets a 409 from the unique index and is shown as refused although its row was made (`all-exceptions.filter.ts:68`) |
| `NotErased` (`PhoneMirror`) | 1 screen | a pull that looked for unsent rows before a tap writes the server's older answer over the tap; the outbox still has it, the screen does not show it (`offline_repository.dart:233`) |
| `BothOrNeither` | 1 crash | an app that dies between the local rows and the outbox row shows marks as waiting that nothing will send (`offline_repository.dart:305` against `:43`) |
| `ShownAsSentWasSent` | 2 marks | a worker marked again while the first mark is on its way shows as sent when the first is, since `Clear` goes by worker (`sync.dart:229`; the comment at `:208-215` says why that matters); `ShownIsKept` says such a mark is in the outbox until the server has it |
| `NeverTwoSenders` (`WebhookDelivery`) | as in the run and in the code: a batch outlasts a claim | a slow sweep's claims run out, or are stamped in the past, and another sender makes the same try (`webhook-delivery.service.ts:72`; `:30-32` says never) |
| `OutcomesStay`, `LogAddsUp` | same | the straggler's `record` updates the row whoever has it by then: a success goes back to `pending` or `failed`, and a try is counted twice or logged over another (`:212`) |
| `Committed + Actual` at the contract value (`RunningBills`) | a back-charge | the report is below the contract by what was charged back, because its negative rows are in `actuals` and nothing is in `committed` (`subcontract-costs.service.ts:83-90`; `:35-36` says the two stay at the contract value); `CommittedThenActual` says by how much |
| `ErrorsMadeNothing` (`Idempotency`) | any | the write has committed and reading it back, or storing the answer, fails: the key is released and the retry writes again (`idempotency.interceptor.ts:75`; the comment at `:29` says only a request that failed releases its key, so that nothing is created twice) |
| `Drawable` (`Schedule`) | 2 requests, 2 tasks | two moves put two tasks under each other, and both drop out of the breakdown; two links close a loop, on which every later write fails, the deletion of the link included (`scheduling.service.ts:468`; the comment at `:40` promises a rollback) |
| every revision of the site begins where the last ended (`ChangeOrders`) | a budget set by hand between two answers | the site's own form writes `budget_amount` and leaves no revision (`projects.service.ts:156`), so the revisions alone do not chain; `HistoryAddsUp` says the next begins at what was set |
| `AnswerTakesEffect` (`ChangeOrders`) | `"approve"` in `Racing` | two sign-offs of one order put two approvals in front of the client; the answer on the first moves the site while the order is linked to the second (`change-orders.service.ts:411`; `change-order-approvals.service.ts:40`) |
| `AnswerTakesEffect` | `"revise"` in `Racing` | a revision overtakes the client's answer, which is recorded without effect |
| `ContractAddsUp` | every operation in `Racing` | a stale `remove` deletes an order the client has agreed |

Others are in code outside the models, or between requests the models take one after the other:

* *Change orders.* Cancelling over an answered rejection withdraws a decided approval (`approvals.service.ts:199`
  says a decided approval stays on the job). A plain approval answered twice at once keeps the later answer
  (the comment at `:150`). `AgreedIsKept` rests on the CHECK constraint: a cancel that races the client's yes
  is refused by the database, not by the service.
* *Subcontracts.* Two requests on one contract at once: two payments overpay a bill
  (`ra-bills.service.ts:350`), a certification races a return or a deletion, two bills are opened (`:83`), a
  contract closes with a bill just opened. One at a time: an advance not recovered does not prevent closing, and an
  advance may still be paid after it.
* *Procurement.* Two requests on one order at once: a cancel races a receipt (`purchase-orders.service.ts:600`), a
  reject an approval, an edit a submission; two approvals of one invoice write its expenses twice. One at a time:
  an indent can be ordered twice, since `createDraft` accepts one that is `ordered` (`:611` says otherwise); an
  order may be approved although its indent was rejected after drafting; correcting a partial receipt
  loses the other lines' stock; an indent and its order can both be receipted; an invoice with an accepted
  variance can still be approved after the order is cancelled.
* *Scheduling.* A change of kind leaves a milestone half done; the planned date of a linked site milestone is not
  refreshed when days pass or the calendar changes; rows whose parents go round in a circle vanish, though
  `schedule-context` says they are treated as top level; an import may leave a task complete without a finish.
* *Stock.* `out` sums and then inserts without a lock (`stock.service.ts:60`); correcting a delivery lowers what was
  already issued (`indents.service.ts:225`).
* *Daily reports.* A draft retried by its client id after the submission writes over the report and reverts it
  (`dpr.service.ts:111-125`), and so does another phone's draft (`:128-151`); an archive races a submission
  (`:211-231`); two submissions at once notify twice (`:248`); a crash between the commit and the job notifies
  nobody (`:260`). On the phone, `_uploadPhotosFor` empties the list it was given, so the files are not deleted when the
  entry is discarded (`sync.dart:239`, `:263`).
* *Sync pull.* What is cut off of one table and lies before the newest row of another is skipped, and so are rows
  with equal stamps over a page (`sync.service.ts:154`), and rows that commit behind the cursor (`:97`). The app does
  not use the pull.
* *Billing.* A provider's event whose handling fails is answered as a duplicate when it is sent again, and never
  handled (`billing.service.ts:240-284`).
* *Sessions.* A refresh whose answer is lost makes the next one a replay, which ends every session
  (`auth.service.ts:441`); two at once both succeed (`:349`).

The specification's contractor-level advances (`docs/sitebook-technical-spec.md:248`) are not
implemented, and so not modelled.

## 7. Not modelled

Formatting, wording, dates as calendars, pagination, file formats, logging and every call whose
failure is only logged. Row-level security: each model is of one company. Cryptography and other
parties' protocols (single sign-on, SCIM, signatures, Microsoft 365, language models). The web
application, which keeps no state beyond a page: its screens, translations and server actions are most
of the repository's lines, and call the API the models are about. Services that edit one record at a time
without reading another (workers, contractors, camps, plans, roles): nothing can interleave in them that the
database does not order. What the modelled parts leave out is said in section 3; in particular
several users of one phone, malformed answers, webhook pings, removal of an endpoint and the retry
curve. `PROJECT.json` gives the reason for each component.

## 8. Plan

In this order, each with its MC module, and proofs where they are marked.

1. `SyncPull` (`sync.service.ts`): devices, tables cut off at `limit`, one cursor, stamps before
   commits. Abstract specification `EveryChangeArrives`; the question is under which condition on
   the pages the pull implements it. Proof of the condition.
2. `Stock` (`stock.service.ts`, `indents.service.ts`): the ledger, the transitions, corrections of
   deliveries; "never below zero" one call at a time, with a proof of what `out` alone keeps;
   composed with the receipts of `PurchaseOrder`.
3. `DailyReport` (`dpr.service.ts`): retries by client id, submission, notification; "submitted is
   final" and "told once, and not never".
4. `Session` (`auth.service.ts`, `session.service.ts`) composed with the token of `Outbox`:
   rotation against lost answers and overlapping refreshes; proof that one token has one successor
   when refreshes do not overlap.
5. `BillingWebhook` (`billing.service.ts`): the provider's retries; "each event is applied once and
   not zero times".
6. Bills of quantities, whose cumulative bills have the shape of `RunningBills`.
7. Requests that overlap on one contract in `RunningBills` and on one order in `PurchaseOrder`, as in
   `ChangeOrders`: which of their properties survive.

Abstract specifications worth stating: a once-only register for a key (`Idempotency` implements it
when errors come before the write), an ordered lossy register (`Outbox` implements it up to late
copies), a lease with one holder (`WebhookDelivery` implements it while `Batch * SendTime <= ClaimTime`).
Theorems worth adding: that each of those abstract specifications is implemented, step by step, as
`StatementIsAnAccount` does for `SubcontractAccount`; that `generate` draws the same figures from the same days
whatever order they were recorded in; that adding a link or a delay never brings the end of a job forward.

Hazards that wait for a module, beyond those listed in `PROJECT.json` and section 6:

* Indents: an approval and a rejection both read `requested` (`indents.service.ts:287`); `archive` checks and deletes in two statements (`:275`).
* Webhooks: the wait before a retry counts from the sweep's `now` (`webhook-delivery.service.ts:222`); `lastSuccessAt` may be older than a later success (`:230`); a ping left behind by a crash (`webhook-endpoints.service.ts:147`).
* Outbox: an answer that is not the JSON expected ends the drain without a timer (`sync.dart:234`); signing out leaves the outbox to whoever signs in next (`api_client.dart:220`).
* Billing: a crash between the insert of an event and its handling (`billing.service.ts:264`).

Hazards the properties cover besides those listed: a payment retried while the first is in flight, and the
decision that a sheet is settled while another payment is uncommitted (`wage-periods.service.ts:581`, `:660`;
`PaidWithinNet`, `PaidMeansSettled`); a key looked up after it was released or taken by another request
(`idempotency.interceptor.ts:100`; `ReplayIsTrue`); job, nudge, sweep and resend looking at one due row, and an endpoint
switched between claim and record (`webhook-delivery.service.ts:86`, `:114`; `OneSender`, `DecidedIsFinal`); an order closed
half delivered, its invoices still to come (`packages/shared/src/procurement.ts:390`; `MoneyInOnePlace`).
