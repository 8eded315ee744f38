---------------------------- MODULE CriticalPath ----------------------------
(***************************************************************************)
(* The scheduling engine (packages/shared/src/schedule.ts): what it        *)
(* refuses, the forward and the backward pass, and float.                  *)
(*                                                                         *)
(* A plan is its rows, a function from the tasks it has to what a planner  *)
(* decided about each, and its links.  Time is counted in working days; a  *)
(* task takes the days from `es' up to but not including `ef', and every   *)
(* date of a row is a working day (the calendar itself is not modelled).   *)
(***************************************************************************)
EXTENDS Integers, FiniteSetsExt

CONSTANTS TopLevel,    \* the parent of a task that is under no other
          NoDate

ProjectStart == 0

Started(row) == row.began # NoDate \/ row.percent > 0
Complete(row) == row.ended # NoDate \/ row.percent >= 100
Underway(row) == Started(row) /\ ~Complete(row)

-----------------------------------------------------------------------------
(* The breakdown. *)

(* Rows whose parents go round in a circle hang under nothing: the walk from the top misses them. *)
Adrift(plan) ==
  UNION {some \in SUBSET DOMAIN plan.rows : \A t \in some : plan.rows[t].parent \in some}

Shown(plan) == DOMAIN plan.rows \ Adrift(plan)
Summaries(plan) == {plan.rows[t].parent : t \in Shown(plan)}
LeavesOf(plan) == Shown(plan) \ Summaries(plan)

(* A task and what is under it: all that is in every set that holds it and their children. *)
Under(plan, t) ==
  LET closed(some) == \A u \in DOMAIN plan.rows : plan.rows[u].parent \in some => u \in some
  IN {u \in DOMAIN plan.rows : \A some \in SUBSET DOMAIN plan.rows : t \in some /\ closed(some) => u \in some}

-----------------------------------------------------------------------------
(* What the engine refuses. *)

(* Stripped of every task that can be ordered, something is left: each of it waits on another. *)
Loops(tasks, links) ==
  \E left \in SUBSET tasks \ {{}} : \A t \in left : \E l \in links : l.to = t /\ l.from \in left

Accepts(plan) ==
  LET leaves == LeavesOf(plan)
  IN /\ \A l \in plan.links : {l.from, l.to} \subseteq leaves
     /\ ~Loops(leaves, plan.links)

-----------------------------------------------------------------------------
(* The forward pass. *)

PlannedLength(row) == IF row.kind = "milestone" THEN 0 ELSE Max({1, row.days})

Incoming(plan, t) == {l \in plan.links : l.to = t}
Outgoing(plan, t) == {l \in plan.links : l.from = t}

EarliestBy(link, before, length) ==
  CASE link.type = "FS" -> before.ef + link.lag
    [] link.type = "SS" -> before.es + link.lag
    [] link.type = "FF" -> before.ef + link.lag - length
    [] link.type = "SF" -> before.es + link.lag - length

(* Start no earlier than; a milestone sits at the end of its day. *)
HeldTo(row) ==
  IF row.constraint # "snet" THEN {} ELSE {IF row.kind = "milestone" THEN row.date + 1 ELSE row.date}

RemainingOf(row, length) == (length * (100 - row.percent) + 99) \div 100

(* Progress overrides logic, and what is left of a task under way is not left in the past. *)
Progressed(row, logic, length, today) ==
  LET milestone == row.kind = "milestone"
      es == CASE row.ended # NoDate /\ milestone -> row.ended + 1
              [] row.ended # NoDate /\ ~milestone /\ row.began # NoDate -> Min({row.began, row.ended})
              [] row.ended # NoDate /\ ~milestone /\ row.began = NoDate -> row.ended + 1 - length
              [] row.ended = NoDate /\ row.began # NoDate -> IF milestone THEN row.began + 1 ELSE row.began
              [] row.ended = NoDate /\ row.began = NoDate -> logic
      ef == CASE row.ended # NoDate -> row.ended + 1
              [] row.ended = NoDate /\ Underway(row) -> Max({es + length, today + RemainingOf(row, length)})
              [] row.ended = NoDate /\ ~Underway(row) -> es + length
  IN [es |-> es, ef |-> ef]

(* What keeps a task from beginning, and what it takes, when the tasks before it are where `early' says. *)
Bounds(plan, early, t) ==
  LET row == plan.rows[t]
  IN {ProjectStart} \cup HeldTo(row)
       \cup {EarliestBy(l, early[l.from], PlannedLength(row)) : l \in Incoming(plan, t)}

EarlyBy(plan, today, early, t) ==
  LET row == plan.rows[t]
  IN Progressed(row, Max(Bounds(plan, early, t)), PlannedLength(row), today)

Early(plan, today) ==
  LET leaves == LeavesOf(plan)
      early[t \in leaves] == EarlyBy(plan, today, early, t)
  IN [t \in leaves |-> early[t]]

LastDay(early) == Max({ProjectStart} \cup {early[t].ef : t \in DOMAIN early})

-----------------------------------------------------------------------------
(* The backward pass and float. *)

LatestStart(link, after, length) ==
  CASE link.type \in {"FS", "SS"} -> after.ls - link.lag
    [] link.type \in {"FF", "SF"} -> after.lf - link.lag

LatestBy(link, after, length) ==
  CASE link.type = "FS" -> after.ls - link.lag
    [] link.type = "SS" -> after.ls - link.lag + length
    [] link.type = "FF" -> after.lf - link.lag
    [] link.type = "SF" -> after.lf - link.lag + length

DueBy(row) == IF row.constraint # "fnlt" THEN {} ELSE {row.date + 1}

Ends(plan, early, late, t) ==
  {LastDay(early)} \cup DueBy(plan.rows[t])
    \cup {LatestBy(l, late[l.to], early[t].ef - early[t].es) : l \in Outgoing(plan, t)}

LateBy(plan, early, late, t) ==
  LET lf == Min(Ends(plan, early, late, t))
  IN [ls |-> lf - (early[t].ef - early[t].es), lf |-> lf]

Late(plan, early) ==
  LET late[t \in DOMAIN early] == LateBy(plan, early, late, t)
  IN late

Slack(link, early) ==
  LET own == early[link.from] after == early[link.to]
  IN CASE link.type = "FS" -> after.es - link.lag - own.ef
       [] link.type = "SS" -> after.es - link.lag - own.es
       [] link.type = "FF" -> after.ef - link.lag - own.ef
       [] link.type = "SF" -> after.ef - link.lag - own.es

TotalFloat(plan, early, t) == Late(plan, early)[t].lf - early[t].ef

FreeFloatOfStarts(plan, early, t) ==
  Max({0, Min({LastDay(early) - early[t].ef} \cup {early[l.to].es - l.lag - early[t].ef : l \in Outgoing(plan, t)})})

FreeFloat(plan, early, t) ==
  Max({0, Min({LastDay(early) - early[t].ef} \cup {Slack(l, early) : l \in Outgoing(plan, t)})})

-----------------------------------------------------------------------------
(* The dates shown. *)

ShownStart(row, pass) ==
  CASE row.kind = "task" -> pass.es
    [] row.kind = "milestone" /\ row.ended # NoDate -> pass.ef - 1
    [] row.kind = "milestone" /\ row.ended = NoDate -> Max({pass.es - 1, ProjectStart})

ShownFinish(row, pass) == IF row.kind = "task" THEN pass.ef - 1 ELSE ShownStart(row, pass)
=============================================================================
