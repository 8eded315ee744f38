------------------------------ MODULE Schedule ------------------------------
(***************************************************************************)
(* The schedule of a site (SchedulingService).  Every write is one         *)
(* transaction of three parts: the plan is read and the request checked    *)
(* against it, the rows are written and the plan is read again and must    *)
(* pass the engine, and the transaction commits.  Transactions are READ    *)
(* COMMITTED: a second reading sees its own rows and what has committed    *)
(* since the first; rows another transaction has written are waited for.   *)
(***************************************************************************)
EXTENDS CriticalPath, FiniteSets

CONSTANTS Tasks,
          Filed,         \* the tasks of the plan the site begins with, imported from a file
          Requests,
          Lengths, LinkKinds, Percents,
          NoWrite, Unsaid,
          MaxDay,        \* bound on the days that pass
          MaxEdits       \* bound on the writes asked for

ASSUME ScheduleAssumption ==
  /\ IsFiniteSet(Tasks) /\ Filed \subseteq Tasks /\ TopLevel \notin Tasks
  /\ IsFiniteSet(LinkKinds) /\ LinkKinds \subseteq {"FS", "SS", "FF", "SF"} \X Int
  /\ Lengths \subseteq Nat \ {0} /\ Percents \subseteq 0..100
  /\ MaxDay \in Nat /\ MaxEdits \in Nat
  /\ NoDate \notin Int /\ Unsaid \notin Int \cup {NoDate}

VARIABLES plan,       \* committed: schedule_tasks by task, schedule_dependencies
          requests,   \* the writes in flight
          today, edits

vars == <<plan, requests, today, edits>>

Links == {[from |-> f, to |-> t, type |-> k[1], lag |-> k[2]] : f \in Tasks, t \in Tasks, k \in LinkKinds}

Idle == [at |-> "idle", write |-> NoWrite]

NewRow(parent, kind, days) ==
  [parent |-> parent, kind |-> kind, days |-> IF kind = "milestone" THEN 0 ELSE days,
   constraint |-> "asap", date |-> NoDate, percent |-> 0, began |-> NoDate, ended |-> NoDate]

(* A file is refused when its links go round in a loop. *)
FileLinks == {l \in Links : l.type = "FS" /\ l.lag = 0 /\ {l.from, l.to} \subseteq Filed}
Init ==
  /\ \E lengths \in [Filed -> Lengths], links \in SUBSET FileLinks :
       plan = [rows |-> [t \in Filed |-> NewRow(TopLevel, "task", lengths[t])], links |-> links]
  /\ Accepts(plan)
  /\ requests = [r \in Requests |-> Idle]
  /\ today = 0 /\ edits = 0

-----------------------------------------------------------------------------
(* What a write changes: fields of rows, rows made, rows and links (by their ends) taken away, links made. *)

NoRows == [t \in {} |-> NoDate]
Putting(t, fields) == [put |-> [u \in {t} |-> fields], made |-> {}, drop |-> {}, cut |-> {}, join |-> {}]
Making(t, row) == [put |-> [u \in {t} |-> row], made |-> {t}, drop |-> {}, cut |-> {}, join |-> {}]
Dropping(t) == [put |-> NoRows, made |-> {}, drop |-> {t}, cut |-> {}, join |-> {}]
Linking(cut, join) == [put |-> NoRows, made |-> {}, drop |-> {}, cut |-> cut, join |-> join]

Overlaid(row, fields) == [f \in DOMAIN row |-> IF f \in DOMAIN fields THEN fields[f] ELSE row[f]]

(* Subtasks and links go with a deleted task: the foreign keys cascade. *)
Gone(w, now) == UNION {Under(now, t) : t \in w.drop}

Pairs(links) == {<<l.from, l.to>> : l \in links}
Uncut(w, now) == {l \in now.links : <<l.from, l.to>> \notin w.cut}

Applied(w, now) ==
  LET kept == (DOMAIN now.rows \ Gone(w, now)) \cup w.made
      row(t) == CASE t \in w.made -> w.put[t]
                  [] t \in DOMAIN w.put \ w.made -> Overlaid(now.rows[t], w.put[t])
                  [] t \notin DOMAIN w.put -> now.rows[t]
  IN [rows |-> [t \in kept |-> row(t)],
      links |-> {l \in Uncut(w, now) \cup w.join : {l.from, l.to} \subseteq kept}]

(* The rows to update are there, what they refer to is, and no pair is linked twice. *)
Parents(w) == {w.put[t].parent : t \in {u \in DOMAIN w.put : "parent" \in DOMAIN w.put[u]}} \ {TopLevel}
Referred(w) == Parents(w) \cup UNION {{l.from, l.to} : l \in w.join}
Updated(w) == DOMAIN w.put \ w.made

Possible(w, now) ==
  /\ Updated(w) \cup w.drop \cup Referred(w) \subseteq DOMAIN now.rows
  /\ w.cut \subseteq Pairs(now.links)
  /\ Pairs(w.join) \cap Pairs(Uncut(w, now)) = {}

(* One of the two waits for the other's transaction. *)
Collide(w, v, now) ==
  \/ (Updated(w) \cup Gone(w, now)) \cap (Updated(v) \cup Gone(v, now)) # {}
  \/ Gone(w, now) \cap Referred(v) # {} \/ Gone(v, now) \cap Referred(w) # {}
  \/ (Pairs(w.join) \cup w.cut) \cap (Pairs(v.join) \cup v.cut) # {}
  \/ w.made \cap v.made # {}

-----------------------------------------------------------------------------
(* Reading the plan and deciding on the write. *)

Decides(r, w) ==
  /\ requests' = [requests EXCEPT ![r] = [at |-> "decided", write |-> w]]
  /\ edits' = edits + 1
  /\ UNCHANGED <<plan, today>>

Row(t) == plan.rows[t]
IsSummary(t) == t \in Summaries(plan)

(* A parent is on this site, no milestone, and has no links of its own. *)
MayTakeSubtasks(t) ==
  \/ t = TopLevel
  \/ t \in DOMAIN plan.rows /\ Row(t).kind # "milestone" /\ \A l \in plan.links : t \notin {l.from, l.to}

CreateTask(r, t, parent, kind) ==
  /\ t \notin DOMAIN plan.rows /\ MayTakeSubtasks(parent)
  /\ Decides(r, Making(t, NewRow(parent, kind, 1)))

MoveAnywhere(r, t, parent) ==
  /\ t \in Shown(plan) /\ parent # Row(t).parent
  /\ MayTakeSubtasks(parent)
  /\ Decides(r, Putting(t, [parent |-> parent]))

MoveTask(r, t, parent) ==
  /\ t \in Shown(plan) /\ parent # Row(t).parent
  /\ MayTakeSubtasks(parent) /\ parent \notin Under(plan, t)
  /\ Decides(r, Putting(t, [parent |-> parent]))

SetKind(r, t, kind) ==
  /\ t \in Shown(plan) /\ kind # Row(t).kind
  /\ kind = "milestone" => ~IsSummary(t)
  /\ Decides(r, Putting(t, [kind |-> kind, days |-> IF kind = "milestone" THEN 0 ELSE 1]))

SetLength(r, t, days) ==
  /\ t \in Shown(plan) /\ ~IsSummary(t) /\ Row(t).kind = "task" /\ days # Row(t).days
  /\ Decides(r, Putting(t, [days |-> days]))

(* Dragging the start pins it. *)
Constrain(r, t, constraint, date) ==
  /\ t \in Shown(plan) /\ ~IsSummary(t)
  /\ constraint = "asap" <=> date = NoDate
  /\ Decides(r, Putting(t, [constraint |-> constraint, date |-> date]))

DeleteTask(r, t) ==
  /\ t \in Shown(plan)
  /\ Decides(r, Dropping(t))

CreateDependency(r, l) ==
  /\ l.from # l.to /\ {l.from, l.to} \subseteq LeavesOf(plan)
  /\ <<l.from, l.to>> \notin Pairs(plan.links)
  /\ ~Loops(LeavesOf(plan), plan.links \cup {l})
  /\ Decides(r, Linking({}, {l}))

UpdateDependency(r, l, m) ==
  /\ l \in plan.links /\ l # m /\ Pairs({l}) = Pairs({m})
  /\ Decides(r, Linking(Pairs({l}), {m}))

DeleteDependency(r, l) ==
  /\ l \in plan.links
  /\ Decides(r, Linking(Pairs({l}), {}))

-----------------------------------------------------------------------------
(* Progress from site.  What is not said stays, or follows from what is. *)

Said(input, stored) == IF input = Unsaid THEN stored ELSE input
Earlier(d, e) == IF d < e THEN d ELSE e
IsDate(input) == input \notin {Unsaid, NoDate}

(* A milestone is reached or it is not. *)
MilestoneReport(row, finish, input) ==
  LET ended == CASE input.percent = Unsaid \/ input.ended # Unsaid -> Said(input.ended, row.ended)
                 [] OTHER -> IF input.percent < 100 THEN NoDate
                             ELSE IF row.ended # NoDate THEN row.ended ELSE Earlier(finish, today)
  IN [percent |-> IF ended # NoDate THEN 100 ELSE 0, began |-> NoDate, ended |-> ended]

PercentBy(row, input) ==
  LET stored == Said(input.percent, row.percent)
  IN CASE IsDate(input.ended) -> 100
       [] input.ended = NoDate /\ input.percent = Unsaid /\ stored = 100 -> 0
       [] OTHER -> stored

BeganBy(row, start, input) ==
  LET percent == PercentBy(row, input)
      told == Said(input.began, row.began)
      ended == Said(input.ended, row.ended)
      since == IF ended # NoDate THEN ended ELSE today
  IN CASE percent = 0 /\ input.began = Unsaid /\ input.percent # Unsaid -> NoDate
       [] percent > 0 /\ told = NoDate -> Earlier(start, since)
       [] OTHER -> told

EndedKept(row, finish, input) ==
  LET told == Said(input.ended, row.ended)
  IN IF PercentBy(row, input) >= 100 /\ told = NoDate THEN Earlier(finish, today) ELSE told

EndedBy(row, finish, input) ==
  LET percent == PercentBy(row, input)
      told == Said(input.ended, row.ended)
  IN CASE percent < 100 /\ input.ended = Unsaid /\ input.percent # Unsaid -> NoDate
       [] percent >= 100 /\ told = NoDate -> Earlier(finish, today)
       [] OTHER -> told

Report(row, pass, input) ==
  IF row.kind = "milestone" THEN MilestoneReport(row, ShownFinish(row, pass), input)
  ELSE [percent |-> PercentBy(row, input),
        began |-> BeganBy(row, ShownStart(row, pass), input),
        ended |-> EndedBy(row, ShownFinish(row, pass), input)]

Days == 0..today
Inputs == [percent : Percents \cup {Unsaid}, began : Days \cup {NoDate, Unsaid}, ended : Days \cup {NoDate, Unsaid}]

(* The schema refuses an empty report and one that finishes before it starts. *)
Reports ==
  {i \in Inputs : /\ {i.percent, i.began, i.ended} # {Unsaid}
                  /\ IsDate(i.began) /\ IsDate(i.ended) => i.began <= i.ended}

RecordProgress(r, t) ==
  /\ t \in LeavesOf(plan)
  /\ LET pass == Early(plan, today)[t]
     IN \E report \in {Report(Row(t), pass, input) : input \in Reports} :
        /\ {report.began, report.ended} \subseteq Int => report.began <= report.ended
        /\ Decides(r, Putting(t, report))

-----------------------------------------------------------------------------
(* Writing, reading again, and committing. *)

Waits(r) ==
  \E q \in Requests \ {r} : requests[q].at = "checked" /\ Collide(requests[r].write, requests[q].write, plan)

Passes(w) == Possible(w, plan) /\ Accepts(Applied(w, plan))

(* A plan the engine refuses rolls the transaction back. *)
Check(r) ==
  /\ requests[r].at = "decided" /\ ~Waits(r)
  /\ requests' = [requests EXCEPT ![r] = IF Passes(@.write) THEN [@ EXCEPT !.at = "checked"] ELSE Idle]
  /\ UNCHANGED <<plan, today, edits>>

Commit(r) ==
  /\ requests[r].at = "checked"
  /\ plan' = Applied(requests[r].write, plan)
  /\ requests' = [requests EXCEPT ![r] = Idle]
  /\ UNCHANGED <<today, edits>>

DayPasses ==
  /\ today < MaxDay
  /\ today' = today + 1
  /\ UNCHANGED <<plan, requests, edits>>

(* `change' computes the plan as it stands before anything else. *)
Edit(r) ==
  /\ requests[r].at = "idle" /\ edits < MaxEdits /\ Accepts(plan)
  /\ \/ \E t \in Tasks, parent \in Tasks \cup {TopLevel} :
          MoveTask(r, t, parent) \/ \E kind \in {"task", "milestone"} : CreateTask(r, t, parent, kind)
     \/ \E t \in Tasks :
          \/ DeleteTask(r, t)
          \/ \E kind \in {"task", "milestone"} : SetKind(r, t, kind)
          \/ \E days \in Lengths : SetLength(r, t, days)
          \/ \E c \in {"asap", "snet", "fnlt"}, date \in 0..MaxDay \cup {NoDate} : Constrain(r, t, c, date)
          \/ RecordProgress(r, t)
     \/ \E l \in Links : CreateDependency(r, l) \/ DeleteDependency(r, l) \/ \E m \in Links : UpdateDependency(r, l, m)

Next == DayPasses \/ \E r \in Requests : Edit(r) \/ Check(r) \/ Commit(r)

Spec == Init /\ [][Next]_vars

-----------------------------------------------------------------------------
Quiet == \A r \in Requests : requests[r].at = "idle"

(* "A write the engine cannot schedule rolls back rather than leaving a plan nobody can draw": the *)
(* plan passes the engine and no task has dropped out of the breakdown.  A plan that does not pass *)
(* can not be repaired either, since every write begins with computing it.                         *)
Drawable == Accepts(plan) /\ Adrift(plan) = {}

(* Progress stays one story however it is told and retold: done is having a finish, no date lies   *)
(* ahead, and nothing finishes before it begins.                                                   *)
ActualsAgree ==
  \A t \in DOMAIN plan.rows :
    LET row == plan.rows[t]
    IN /\ row.percent = 100 <=> row.ended # NoDate
       /\ row.began # NoDate => row.began <= today
       /\ row.ended # NoDate => row.ended <= today
       /\ row.began # NoDate /\ row.ended # NoDate => row.began <= row.ended

Waiting(t) == t \in LeavesOf(plan) /\ ~Started(Row(t)) /\ ~Complete(Row(t))
NothingStarted == \A t \in LeavesOf(plan) : Waiting(t)
NoDeadlines == \A t \in LeavesOf(plan) : Row(t).constraint # "fnlt"

(* The plan with a task held back so many days, as dragging its start does. *)
Slipped(early, t, days) ==
  LET first == early[t].es + days
      date == IF Row(t).kind = "milestone" THEN first - 1 ELSE first
  IN Early([plan EXCEPT !.rows[t].constraint = "snet", !.rows[t].date = date], today)

(* Total float is what a task can slip without moving the end of the job, and a negative one tells *)
(* that a date cannot be met; while nothing has started, one day more does move the end.           *)
FloatIsWhatCanSlip ==
  Quiet /\ Accepts(plan) =>
    LET early == Early(plan, today)
    IN \A t \in {u \in LeavesOf(plan) : Waiting(u)} :
         LET float == TotalFloat(plan, early, t)
         IN /\ float >= 0 => LastDay(Slipped(early, t, float)) = LastDay(early)
            /\ NothingStarted /\ NoDeadlines => LastDay(Slipped(early, t, float + 1)) > LastDay(early)
            /\ Row(t).constraint = "fnlt" => (early[t].ef - 1 > Row(t).date => float < 0)

(* Free float is what it can slip without moving any other task either. *)
FreeFloatMovesNothing ==
  Quiet /\ Accepts(plan) =>
    LET early == Early(plan, today)
        others(now, t) == [u \in LeavesOf(plan) \ {t} |-> now[u]]
    IN \A t \in {u \in LeavesOf(plan) : Waiting(u)} :
         LET float == FreeFloat(plan, early, t)
             later(days) == Slipped(early, t, days)
             still(days) == others(later(days), t) = others(early, t) /\ LastDay(later(days)) = LastDay(early)
         IN still(float) /\ (NothingStarted => ~still(float + 1))
=============================================================================
