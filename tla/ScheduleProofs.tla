--------------------------- MODULE ScheduleProofs ---------------------------
(***************************************************************************)
(* For any tasks, links, lengths and number of writes:                     *)
(*                                                                         *)
(* SerialPlansCanBeDrawn: as long as writes do not overlap, a plan that    *)
(* could be drawn can always be drawn.  The links are what the engine's    *)
(* recheck looks after.  The breakdown it does not see, and the argument   *)
(* is about sets of tasks closed under the parents: a write whose own      *)
(* check passed makes none that was not there before (one lemma for each   *)
(* kind of write).                                                         *)
(*                                                                         *)
(* ProgressIsOneStory, FloatIsSlack, FreeFloatIsFree: however writes       *)
(* overlap, the progress of each task is one story, and float is what a    *)
(* task can slip.  The passes are recursive functions over the links; that *)
(* each is defined at every task is RuleIsObeyed, and what is said of them *)
(* is shown at the first, or the last, of the tasks of which it would not  *)
(* be so (FirstOf, LastOf).                                                *)
(***************************************************************************)
EXTENDS Schedule, Sums, TLAPS

OneRequest == \A q, r \in Requests : q = r

(* Every row has its parent, on the plan or the top, and no circle hangs under nothing. *)
Hangs(p) ==
  /\ DOMAIN p.rows \subseteq Tasks
  /\ \A t \in DOMAIN p.rows : "parent" \in DOMAIN p.rows[t] /\ p.rows[t].parent \in DOMAIN p.rows \cup {TopLevel}
  /\ Adrift(p) = {}

(* What a write in flight has been checked for is so of the plan it will be made on. *)
WritesFit ==
  \A r \in Requests : requests[r].at # "idle" =>
    /\ Hangs(Applied(requests[r].write, plan))
    /\ requests[r].at = "checked" => Accepts(Applied(requests[r].write, plan))

RequestsKnown ==
  /\ requests = [r \in Requests |-> requests[r]]
  /\ \A r \in Requests : \E at \in {"idle", "decided", "checked"} : \E w : requests[r] = [at |-> at, write |-> w]

PlanInv == RequestsKnown /\ Accepts(plan) /\ Hangs(plan) /\ WritesFit

LEMMA NoneAdrift ==
  ASSUME NEW p
  PROVE  Adrift(p) = {} <=>
           \A some \in SUBSET DOMAIN p.rows : (\A t \in some : p.rows[t].parent \in some) => some = {}
BY DEF Adrift

-----------------------------------------------------------------------------
(* The rows a write leaves. *)

(* A task's fields are overlaid, whichever they are. *)
LEMMA PuttingApplied ==
  ASSUME NEW p, NEW t \in DOMAIN p.rows, NEW fields
  PROVE  LET q == Applied(Putting(t, fields), p)
         IN /\ DOMAIN q.rows = DOMAIN p.rows
            /\ q.rows[t] = Overlaid(p.rows[t], fields)
            /\ \A u \in DOMAIN p.rows \ {t} : q.rows[u] = p.rows[u]
<1> DEFINE w == Putting(t, fields)
<1>1. DOMAIN w.put = {t} /\ w.put[t] = fields /\ w.made = {} /\ w.drop = {}
  BY DEF Putting
<1>2. Gone(w, p) = {}
  BY <1>1 DEF Gone
<1> HIDE DEF w
<1> QED BY <1>1, <1>2 DEF Applied, w

LEMMA MakingApplied ==
  ASSUME NEW p, NEW t, t \notin DOMAIN p.rows, NEW row
  PROVE  LET q == Applied(Making(t, row), p)
         IN /\ DOMAIN q.rows = DOMAIN p.rows \cup {t}
            /\ q.rows[t] = row
            /\ \A u \in DOMAIN p.rows : q.rows[u] = p.rows[u]
<1> DEFINE w == Making(t, row)
<1>1. DOMAIN w.put = {t} /\ w.put[t] = row /\ w.made = {t} /\ w.drop = {}
  BY DEF Making
<1>2. Gone(w, p) = {}
  BY <1>1 DEF Gone
<1> HIDE DEF w
<1> QED BY <1>1, <1>2 DEF Applied, w

LEMMA DroppingApplied ==
  ASSUME NEW p, NEW t
  PROVE  LET q == Applied(Dropping(t), p)
         IN /\ DOMAIN q.rows = DOMAIN p.rows \ Under(p, t)
            /\ \A u \in DOMAIN q.rows : q.rows[u] = p.rows[u]
<1> DEFINE w == Dropping(t)
<1>1. DOMAIN w.put = {} /\ w.made = {} /\ w.drop = {t}
  BY DEF Dropping, NoRows
<1>2. Gone(w, p) = Under(p, t)
  BY <1>1 DEF Gone
<1> HIDE DEF w
<1> QED BY <1>1, <1>2 DEF Applied, w

LEMMA LinkingApplied ==
  ASSUME NEW p, NEW cut, NEW join
  PROVE  LET q == Applied(Linking(cut, join), p)
         IN DOMAIN q.rows = DOMAIN p.rows /\ \A u \in DOMAIN p.rows : q.rows[u] = p.rows[u]
<1> DEFINE w == Linking(cut, join)
<1>1. DOMAIN w.put = {} /\ w.made = {} /\ w.drop = {}
  BY DEF Linking, NoRows
<1>2. Gone(w, p) = {}
  BY <1>1 DEF Gone
<1> HIDE DEF w
<1> QED BY <1>1, <1>2 DEF Applied, w

-----------------------------------------------------------------------------
(* No write makes a circle. *)

LEMMA SameParents ==
  ASSUME NEW p, Hangs(p), NEW q, DOMAIN q.rows = DOMAIN p.rows,
         \A t \in DOMAIN p.rows : "parent" \in DOMAIN q.rows[t] /\ q.rows[t].parent = p.rows[t].parent
  PROVE  Hangs(q)
<1>1. Adrift(q) = Adrift(p)
  BY DEF Adrift
<1> QED BY <1>1 DEF Hangs

LEMMA FieldsHang ==
  ASSUME NEW p, Hangs(p), NEW t \in DOMAIN p.rows, NEW fields, "parent" \notin DOMAIN fields
  PROVE  Hangs(Applied(Putting(t, fields), p))
<1> DEFINE q == Applied(Putting(t, fields), p)
<1>1. /\ DOMAIN q.rows = DOMAIN p.rows
      /\ q.rows[t] = Overlaid(p.rows[t], fields)
      /\ \A u \in DOMAIN p.rows \ {t} : q.rows[u] = p.rows[u]
  BY PuttingApplied
<1> HIDE DEF q
<1>2. "parent" \in DOMAIN p.rows[t]
  BY DEF Hangs
<1>3. "parent" \in DOMAIN q.rows[t] /\ q.rows[t].parent = p.rows[t].parent
  BY <1>1, <1>2 DEF Overlaid
<1>4. \A u \in DOMAIN p.rows : "parent" \in DOMAIN q.rows[u] /\ q.rows[u].parent = p.rows[u].parent
  BY <1>1, <1>3 DEF Hangs
<1>5. Hangs(q)
  BY <1>1, <1>4, SameParents
<1> QED BY <1>5 DEF q

(* The new parent is not under the task: leave out of a circle through the task all that is under *)
(* it, and what is left, the new parent at least, was a circle before.                            *)
LEMMA MovedHang ==
  ASSUME NEW p, Hangs(p), NEW t \in DOMAIN p.rows,
         NEW parent \in DOMAIN p.rows \cup {TopLevel}, parent \notin Under(p, t)
  PROVE  Hangs(Applied(Putting(t, [parent |-> parent]), p))
<1> DEFINE q == Applied(Putting(t, [parent |-> parent]), p)
<1>1. /\ DOMAIN q.rows = DOMAIN p.rows
      /\ q.rows[t] = Overlaid(p.rows[t], [parent |-> parent])
      /\ \A u \in DOMAIN p.rows \ {t} : q.rows[u] = p.rows[u]
  BY PuttingApplied
<1> HIDE DEF q
<1>2. "parent" \in DOMAIN q.rows[t] /\ q.rows[t].parent = parent
  BY <1>1 DEF Hangs, Overlaid
<1>3. ASSUME NEW some \in SUBSET DOMAIN q.rows, \A u \in some : q.rows[u].parent \in some
      PROVE  some = {}
  <2>1. TopLevel \notin some
    BY <1>1, ScheduleAssumption DEF Hangs
  <2>2. CASE t \notin some
    <3>1. \A u \in some : p.rows[u].parent \in some
      BY <1>1, <1>3, <2>2
    <3> QED BY <1>1, <3>1, NoneAdrift DEF Hangs
  <2>3. CASE t \in some
    <3>1. parent \in some /\ parent \in DOMAIN p.rows
      BY <1>1, <1>2, <1>3, <2>3
    <3>2. PICK below \in SUBSET DOMAIN p.rows :
            /\ t \in below /\ parent \notin below
            /\ \A u \in DOMAIN p.rows : p.rows[u].parent \in below => u \in below
      BY <3>1 DEF Under
    <3>3. ASSUME NEW u \in some \ below PROVE p.rows[u].parent \in some \ below
      <4>1. u # t /\ u \in DOMAIN p.rows
        BY <1>1, <3>2
      <4>2. p.rows[u].parent \in some
        BY <1>1, <1>3, <4>1
      <4> QED BY <3>2, <3>3, <4>1, <4>2
    <3>4. some \ below \in SUBSET DOMAIN p.rows
      BY <1>1
    <3>5. some \ below = {}
      BY <3>3, <3>4, NoneAdrift DEF Hangs
    <3> QED BY <3>1, <3>2, <3>5
  <2> QED BY <2>2, <2>3
<1>4. Adrift(q) = {}
  BY <1>3, NoneAdrift
<1>5. \A u \in DOMAIN q.rows : "parent" \in DOMAIN q.rows[u] /\ q.rows[u].parent \in DOMAIN q.rows \cup {TopLevel}
  BY <1>1, <1>2 DEF Hangs
<1>6. Hangs(q)
  BY <1>1, <1>4, <1>5 DEF Hangs
<1> QED BY <1>6 DEF q

LEMMA CreatedHang ==
  ASSUME NEW p, Hangs(p), NEW t \in Tasks, t \notin DOMAIN p.rows, NEW row, "parent" \in DOMAIN row,
         row.parent \in DOMAIN p.rows \cup {TopLevel}
  PROVE  Hangs(Applied(Making(t, row), p))
<1> DEFINE q == Applied(Making(t, row), p)
<1>1. /\ DOMAIN q.rows = DOMAIN p.rows \cup {t}
      /\ q.rows[t] = row
      /\ \A u \in DOMAIN p.rows : q.rows[u] = p.rows[u]
  BY MakingApplied
<1> HIDE DEF q
<1>2. ASSUME NEW some \in SUBSET DOMAIN q.rows, \A u \in some : q.rows[u].parent \in some
      PROVE  some = {}
  <2>1. ASSUME NEW u \in some \ {t} PROVE p.rows[u].parent \in some \ {t}
    <3>1. u \in DOMAIN p.rows /\ p.rows[u].parent \in some
      BY <1>1, <1>2
    <3>2. p.rows[u].parent # t
      BY <3>1, ScheduleAssumption DEF Hangs
    <3> QED BY <3>1, <3>2
  <2>2. some \ {t} \in SUBSET DOMAIN p.rows
    BY <1>1
  <2>3. some \ {t} = {}
    BY <2>1, <2>2, NoneAdrift DEF Hangs
  <2>4. row.parent # t
    BY ScheduleAssumption
  <2> QED BY <1>1, <1>2, <2>3, <2>4
<1>3. Adrift(q) = {}
  BY <1>2, NoneAdrift
<1>4. \A u \in DOMAIN q.rows : "parent" \in DOMAIN q.rows[u] /\ q.rows[u].parent \in DOMAIN q.rows \cup {TopLevel}
  BY <1>1 DEF Hangs
<1>5. DOMAIN q.rows \subseteq Tasks
  BY <1>1 DEF Hangs
<1>6. Hangs(q)
  BY <1>3, <1>4, <1>5 DEF Hangs
<1> QED BY <1>6 DEF q

(* What is under a deleted task goes with it, so nobody is left without a parent. *)
LEMMA DeletedHang ==
  ASSUME NEW p, Hangs(p), NEW t \in DOMAIN p.rows
  PROVE  Hangs(Applied(Dropping(t), p))
<1> DEFINE q == Applied(Dropping(t), p)
<1>1. /\ DOMAIN q.rows = DOMAIN p.rows \ Under(p, t)
      /\ \A u \in DOMAIN q.rows : q.rows[u] = p.rows[u]
  BY DroppingApplied
<1> HIDE DEF q
<1>2. \A u \in DOMAIN p.rows : p.rows[u].parent \in Under(p, t) => u \in Under(p, t)
  BY DEF Under
<1>3. ASSUME NEW some \in SUBSET DOMAIN q.rows, \A u \in some : q.rows[u].parent \in some
      PROVE  some = {}
  <2>1. some \in SUBSET DOMAIN p.rows /\ \A u \in some : p.rows[u].parent \in some
    BY <1>1, <1>3
  <2> QED BY <2>1, NoneAdrift DEF Hangs
<1>4. Adrift(q) = {}
  BY <1>3, NoneAdrift
<1>5. \A u \in DOMAIN q.rows : "parent" \in DOMAIN q.rows[u] /\ q.rows[u].parent \in DOMAIN q.rows \cup {TopLevel}
  BY <1>1, <1>2 DEF Hangs
<1>6. DOMAIN q.rows \subseteq Tasks
  BY <1>1 DEF Hangs
<1>7. Hangs(q)
  BY <1>4, <1>5, <1>6 DEF Hangs
<1> QED BY <1>7 DEF q

LEMMA LinkedHang ==
  ASSUME NEW p, Hangs(p), NEW cut, NEW join
  PROVE  Hangs(Applied(Linking(cut, join), p))
<1> DEFINE q == Applied(Linking(cut, join), p)
<1>1. DOMAIN q.rows = DOMAIN p.rows /\ \A u \in DOMAIN p.rows : q.rows[u] = p.rows[u]
  BY LinkingApplied
<1> HIDE DEF q
<1>2. \A u \in DOMAIN p.rows : "parent" \in DOMAIN q.rows[u] /\ q.rows[u].parent = p.rows[u].parent
  BY <1>1 DEF Hangs
<1>3. Hangs(q)
  BY <1>1, <1>2, SameParents
<1> QED BY <1>3 DEF q

-----------------------------------------------------------------------------
(* The writes decided on, one lemma for each form. *)

LEMMA DecidesFits ==
  ASSUME PlanInv, OneRequest, NEW r \in Requests, NEW w, Decides(r, w), Hangs(Applied(w, plan))
  PROVE  PlanInv'
<1>1. requests' = [requests EXCEPT ![r] = [at |-> "decided", write |-> w]] /\ plan' = plan
  BY DEF Decides
<1>2. requests'[r].at = "decided" /\ requests'[r].write = w /\ Requests = {r}
  BY <1>1 DEF PlanInv, RequestsKnown, OneRequest
<1>3. RequestsKnown'
  BY <1>1 DEF PlanInv, RequestsKnown
<1>4. WritesFit'
  BY <1>1, <1>2 DEF WritesFit
<1> QED BY <1>1, <1>3, <1>4 DEF PlanInv, WritesFit

(* The parent a request names is on the plan, or the top. *)
LEMMA ParentsAreThere ==
  ASSUME NEW t, MayTakeSubtasks(t)
  PROVE  t \in DOMAIN plan.rows \cup {TopLevel}
BY DEF MayTakeSubtasks

LEMMA OnPlan ==
  ASSUME NEW t
  PROVE  (t \in Shown(plan) => t \in DOMAIN plan.rows) /\ (t \in LeavesOf(plan) => t \in DOMAIN plan.rows)
BY DEF Shown, LeavesOf

LEMMA TopIsNotUnder == ASSUME Hangs(plan), NEW t PROVE TopLevel \notin Under(plan, t)
BY ScheduleAssumption DEF Hangs, Under

LEMMA BreakdownEdits ==
  ASSUME PlanInv, OneRequest, NEW r \in Requests, NEW t \in Tasks, NEW parent \in Tasks \cup {TopLevel},
         MoveTask(r, t, parent) \/ (\E kind \in {"task", "milestone"} : CreateTask(r, t, parent, kind))
  PROVE  PlanInv'
<1> Hangs(plan)
  BY DEF PlanInv
<1>1. CASE MoveTask(r, t, parent)
  <2>1. /\ t \in DOMAIN plan.rows /\ parent \in DOMAIN plan.rows \cup {TopLevel}
        /\ parent \notin Under(plan, t) /\ Decides(r, Putting(t, [parent |-> parent]))
    BY <1>1, ParentsAreThere, OnPlan DEF MoveTask
  <2> QED BY <2>1, MovedHang, DecidesFits
<1>2. ASSUME NEW kind \in {"task", "milestone"}, CreateTask(r, t, parent, kind) PROVE PlanInv'
  <2> DEFINE row == NewRow(parent, kind, 1)
  <2>1. "parent" \in DOMAIN row /\ row.parent = parent
    BY DEF NewRow
  <2> HIDE DEF row
  <2>2. t \notin DOMAIN plan.rows /\ parent \in DOMAIN plan.rows \cup {TopLevel} /\ Decides(r, Making(t, row))
    BY <1>2, ParentsAreThere DEF CreateTask, row
  <2> QED BY <2>1, <2>2, CreatedHang, DecidesFits
<1> QED BY <1>1, <1>2

LEMMA FieldEdits ==
  ASSUME PlanInv, OneRequest, NEW r \in Requests, NEW t \in Tasks,
         NEW fields, "parent" \notin DOMAIN fields, t \in DOMAIN plan.rows, Decides(r, Putting(t, fields))
  PROVE  PlanInv'
BY FieldsHang, DecidesFits DEF PlanInv

LEMMA TaskEdits ==
  ASSUME PlanInv, OneRequest, NEW r \in Requests, NEW t \in Tasks,
         \/ DeleteTask(r, t)
         \/ \E kind \in {"task", "milestone"} : SetKind(r, t, kind)
         \/ \E days \in Lengths : SetLength(r, t, days)
         \/ \E c \in {"asap", "snet", "fnlt"}, date \in 0..MaxDay \cup {NoDate} : Constrain(r, t, c, date)
         \/ RecordProgress(r, t)
  PROVE  PlanInv'
<1>1. CASE DeleteTask(r, t)
  BY <1>1, OnPlan, DeletedHang, DecidesFits DEF DeleteTask, PlanInv
<1>2. ASSUME NEW kind \in {"task", "milestone"}, SetKind(r, t, kind) PROVE PlanInv'
  <2> DEFINE fields == [kind |-> kind, days |-> IF kind = "milestone" THEN 0 ELSE 1]
  <2>1. "parent" \notin DOMAIN fields
    OBVIOUS
  <2> QED BY <1>2, <2>1, OnPlan, FieldEdits DEF SetKind
<1>3. ASSUME NEW days \in Lengths, SetLength(r, t, days) PROVE PlanInv'
  <2>1. "parent" \notin DOMAIN [days |-> days]
    OBVIOUS
  <2> QED BY <1>3, <2>1, OnPlan, FieldEdits DEF SetLength
<1>4. ASSUME NEW c, NEW date, Constrain(r, t, c, date) PROVE PlanInv'
  <2>1. "parent" \notin DOMAIN [constraint |-> c, date |-> date]
    OBVIOUS
  <2> QED BY <1>4, <2>1, OnPlan, FieldEdits DEF Constrain
<1>5. CASE RecordProgress(r, t)
  <2> DEFINE pass == Early(plan, today)[t]
  <2>1. PICK input \in Reports : Decides(r, Putting(t, Report(Row(t), pass, input)))
    BY <1>5 DEF RecordProgress
  <2>2. "parent" \notin DOMAIN Report(Row(t), pass, input)
    <3> HIDE DEF pass
    <3> QED BY DEF Report, MilestoneReport
  <2>3. t \in DOMAIN plan.rows
    BY <1>5, OnPlan DEF RecordProgress
  <2> QED BY <2>1, <2>2, <2>3, FieldEdits
<1> QED BY <1>1, <1>2, <1>3, <1>4, <1>5

LEMMA LinkEdits ==
  ASSUME PlanInv, OneRequest, NEW r \in Requests, NEW l \in Links,
         CreateDependency(r, l) \/ DeleteDependency(r, l) \/ (\E m \in Links : UpdateDependency(r, l, m))
  PROVE  PlanInv'
<1>1. PICK cut, join : Decides(r, Linking(cut, join))
  BY DEF CreateDependency, DeleteDependency, UpdateDependency
<1> QED BY <1>1, LinkedHang, DecidesFits DEF PlanInv

-----------------------------------------------------------------------------
(* The recheck, and the commit of what passed it. *)

LEMMA CheckFits == ASSUME PlanInv, OneRequest, NEW r \in Requests, Check(r) PROVE PlanInv'
<1>1. Requests = {r} /\ plan' = plan
  BY DEF OneRequest, Check
<1>2. PICK w : requests[r] = [at |-> "decided", write |-> w]
  BY DEF Check, PlanInv, RequestsKnown
<1>3. requests'[r] = IF Passes(w) THEN [at |-> "checked", write |-> w] ELSE Idle
  BY <1>2 DEF Check, PlanInv, RequestsKnown
<1>4. RequestsKnown'
  BY <1>1, <1>3 DEF Check, PlanInv, RequestsKnown, Idle
<1>5. Hangs(Applied(w, plan))
  BY <1>2 DEF PlanInv, WritesFit
<1>6. WritesFit'
  BY <1>1, <1>3, <1>5 DEF WritesFit, Passes, Idle
<1> QED BY <1>1, <1>4, <1>6 DEF PlanInv

LEMMA CommitFits == ASSUME PlanInv, OneRequest, NEW r \in Requests, Commit(r) PROVE PlanInv'
<1>1. Requests = {r} /\ plan' = Applied(requests[r].write, plan) /\ requests[r].at = "checked"
  BY DEF OneRequest, Commit
<1>2. requests'[r] = Idle /\ RequestsKnown'
  BY DEF Commit, PlanInv, RequestsKnown, Idle
<1>3. Accepts(plan') /\ Hangs(plan')
  BY <1>1 DEF PlanInv, WritesFit
<1>4. WritesFit'
  BY <1>1, <1>2 DEF WritesFit, Idle
<1> QED BY <1>2, <1>3, <1>4 DEF PlanInv

LEMMA PlanStep == ASSUME OneRequest, PlanInv, [Next]_vars PROVE PlanInv'
<1>1. ASSUME NEW r \in Requests, Edit(r) PROVE PlanInv'
  BY <1>1, BreakdownEdits, TaskEdits, LinkEdits DEF Edit
<1>2. ASSUME UNCHANGED <<plan, requests>> PROVE PlanInv'
  BY <1>2 DEF PlanInv, RequestsKnown, WritesFit
<1>3. CASE DayPasses
  BY <1>2, <1>3 DEF DayPasses
<1>4. CASE UNCHANGED vars
  BY <1>2, <1>4 DEF vars
<1> QED BY <1>1, <1>3, <1>4, CheckFits, CommitFits DEF Next

LEMMA FirstPlan == Init => PlanInv
<1> SUFFICES ASSUME Init PROVE PlanInv
  OBVIOUS
<1>1. PICK lengths \in [Filed -> Lengths], links \in SUBSET FileLinks :
        plan = [rows |-> [t \in Filed |-> NewRow(TopLevel, "task", lengths[t])], links |-> links]
  BY DEF Init
<1>2. /\ DOMAIN plan.rows = Filed /\ Filed \subseteq Tasks /\ TopLevel \notin Filed
      /\ \A t \in Filed : "parent" \in DOMAIN plan.rows[t] /\ plan.rows[t].parent = TopLevel
  BY <1>1, ScheduleAssumption DEF NewRow
<1>3. Adrift(plan) = {}
  <2>1. \A some \in SUBSET Filed : (\A t \in some : plan.rows[t].parent \in some) => some = {}
    BY <1>2
  <2> QED BY <1>2, <2>1, NoneAdrift
<1>4. Hangs(plan)
  BY <1>2, <1>3 DEF Hangs
<1>5. RequestsKnown /\ WritesFit
  BY DEF Init, Idle, RequestsKnown, WritesFit
<1> QED BY <1>4, <1>5 DEF Init, PlanInv

(* Drawable: the plan passes the engine and no task has dropped out of the breakdown, after any *)
(* number of writes that do not overlap.                                                          *)
THEOREM SerialPlansCanBeDrawn == ASSUME OneRequest PROVE Spec => []Drawable
<1>1. Init => PlanInv
  BY FirstPlan
<1>2. PlanInv /\ [Next]_vars => PlanInv'
  BY PlanStep
<1>3. PlanInv => Drawable
  BY DEF PlanInv, Hangs, Drawable
<1> QED BY <1>1, <1>2, <1>3, PTL DEF Spec

-----------------------------------------------------------------------------
(* Recursion.  The engine's passes work the dates of a task out from those of the tasks before it.  A  *)
(* rule F of that kind, which looks no further than the tasks Before, has a function that obeys it at   *)
(* every task, provided that every set of tasks has one with none of the set before it: the partial     *)
(* functions that obey it agree, and a task none of them reaches could be added to what they reach.     *)
Founded(S, Before) == \A A \in SUBSET S : A # {} => \E t \in A : \A u \in A : <<u, t>> \notin Before
Yields(S, V, F) == \A f \in [S -> V], t \in S : F[<<f, t>>] \in V
Looks(S, V, Before, F) ==
  \A f, g \in [S -> V], t \in S : (\A u \in S : <<u, t>> \in Before => f[u] = g[u]) => F[<<f, t>>] = F[<<g, t>>]
Obeyed(S, V, F) == \E f \in [S -> V] : \A t \in S : f[t] = F[<<f, t>>]

LEMMA RuleIsObeyed ==
  ASSUME NEW S, NEW V, V # {}, NEW Before, NEW F, Founded(S, Before), Yields(S, V, F), Looks(S, V, Before, F)
  PROVE  Obeyed(S, V, F)
<1>1. /\ \A A \in SUBSET S : A # {} => \E t \in A : \A u \in A : <<u, t>> \notin Before
      /\ \A f \in [S -> V], t \in S : F[<<f, t>>] \in V
      /\ \A f, g \in [S -> V], t \in S :
           (\A u \in S : <<u, t>> \in Before => f[u] = g[u]) => F[<<f, t>>] = F[<<g, t>>]
  BY DEF Founded, Yields, Looks
<1>2. PICK v0 \in V : TRUE
  OBVIOUS
<1> DEFINE Attempt(U, g) ==
             /\ U \in SUBSET S /\ g \in [S -> V] /\ \A t \in U : g[t] = F[<<g, t>>]
             /\ \A t \in U : \A u \in S : <<u, t>> \in Before => u \in U
<1>3. ASSUME NEW U, NEW g, NEW W, NEW h, Attempt(U, g), Attempt(W, h)
      PROVE  \A t \in U \cap W : g[t] = h[t]
  <2> DEFINE A == {t \in U \cap W : g[t] # h[t]}
  <2>1. A \in SUBSET S
    BY <1>3
  <2>2. SUFFICES ASSUME A # {} PROVE FALSE
    OBVIOUS
  <2>3. PICK t \in A : \A u \in A : <<u, t>> \notin Before
    BY <1>1, <2>1, <2>2
  <2>4. t \in S /\ t \in U /\ t \in W /\ g[t] # h[t]
    BY <2>1, <2>3
  <2>5. \A u \in S : <<u, t>> \in Before => g[u] = h[u]
    BY <1>3, <2>3, <2>4
  <2>6. F[<<g, t>>] = F[<<h, t>>]
    BY <1>1, <1>3, <2>4, <2>5
  <2>7. QED BY <1>3, <2>4, <2>6
<1> DEFINE Tried(t) == \E U, g : Attempt(U, g) /\ t \in U
           Value(t) == CHOOSE v : \E U, g : Attempt(U, g) /\ t \in U /\ v = g[t]
           Reached == {t \in S : Tried(t)}
           g0 == [t \in S |-> IF Tried(t) THEN Value(t) ELSE v0]
<1>4. ASSUME NEW U, NEW g, Attempt(U, g), NEW t \in U PROVE t \in Reached /\ g0[t] = g[t]
  <2>1. t \in S /\ Tried(t)
    BY <1>4
  <2>2. PICK W, h : Attempt(W, h) /\ t \in W /\ Value(t) = h[t]
    <3> HIDE DEF Attempt
    <3>1. \E v : \E W, h : Attempt(W, h) /\ t \in W /\ v = h[t]
      BY <1>4
    <3>2. QED BY <3>1
  <2>3. h[t] = g[t]
    <3> HIDE DEF Attempt
    <3>1. QED BY <1>3, <1>4, <2>2
  <2> HIDE DEF Attempt, Tried, Value
  <2>4. QED BY <2>1, <2>2, <2>3
<1>5. \A t \in S \ Reached : g0[t] = v0
  <2> HIDE DEF Tried, Value
  <2>1. QED OBVIOUS
<1>6. \A t \in Reached : \E U, g : Attempt(U, g) /\ t \in U
  OBVIOUS
<1>7. Reached \subseteq S /\ DOMAIN g0 = S /\ g0 = [t \in S |-> g0[t]]
  OBVIOUS
<1> HIDE DEF Tried, Value, Reached, g0
<1>8. g0 \in [S -> V]
  <2>1. ASSUME NEW t \in S PROVE g0[t] \in V
    <3>1. CASE t \in Reached
      <4>1. PICK U, g : Attempt(U, g) /\ t \in U
        BY <1>6, <3>1
      <4>2. g0[t] = g[t]
        <5> HIDE DEF Attempt
        <5>1. QED BY <1>4, <4>1
      <4>3. QED BY <4>1, <4>2
    <3>2. QED BY <1>5, <3>1
  <2>2. QED BY <1>7, <2>1
<1>9. ASSUME NEW t \in Reached
      PROVE  g0[t] = F[<<g0, t>>] /\ \A u \in S : <<u, t>> \in Before => u \in Reached
  <2>1. PICK U, g : Attempt(U, g) /\ t \in U
    BY <1>6
  <2>2. \A u \in U : u \in Reached /\ g0[u] = g[u]
    <3> HIDE DEF Attempt
    <3>1. QED BY <1>4, <2>1
  <2>3. \A u \in S : <<u, t>> \in Before => g0[u] = g[u] /\ u \in Reached
    BY <2>1, <2>2
  <2>4. F[<<g0, t>>] = F[<<g, t>>]
    BY <1>1, <1>7, <1>8, <2>1, <2>3
  <2>5. QED BY <2>1, <2>2, <2>3, <2>4
<1>10. Reached = S
  <2>1. SUFFICES ASSUME Reached # S PROVE FALSE
    OBVIOUS
  <2>2. PICK t \in S \ Reached : \A u \in S \ Reached : <<u, t>> \notin Before
    <3>1. S \ Reached # {} /\ S \ Reached \in SUBSET S
      BY <1>7, <2>1
    <3>2. QED BY <1>1, <3>1
  <2> DEFINE h == [g0 EXCEPT ![t] = F[<<g0, t>>]]
  <2>3. h \in [S -> V] /\ h[t] = F[<<g0, t>>] /\ \A u \in S \ {t} : h[u] = g0[u]
    BY <1>1, <1>8, <2>2
  <2> HIDE DEF h
  <2>4. F[<<h, t>>] = F[<<g0, t>>]
    <3>1. \A u \in S : <<u, t>> \in Before => h[u] = g0[u]
      BY <2>2, <2>3
    <3>2. QED BY <1>1, <1>8, <2>2, <2>3, <3>1
  <2>5. ASSUME NEW x \in Reached PROVE h[x] = F[<<h, x>>] /\ \A u \in S : <<u, x>> \in Before => u \in Reached
    <3>1. x \in S /\ x # t
      BY <1>7, <2>2
    <3>2. \A u \in S : <<u, x>> \in Before => u \in Reached /\ h[u] = g0[u]
      BY <1>9, <2>2, <2>3
    <3>3. F[<<h, x>>] = F[<<g0, x>>]
      BY <1>1, <1>8, <2>3, <3>1, <3>2
    <3>4. QED BY <1>9, <2>3, <3>1, <3>2, <3>3
  <2>6. Attempt(Reached \cup {t}, h)
    BY <1>7, <2>2, <2>3, <2>4, <2>5
  <2>7. t \in Reached
    <3> HIDE DEF Attempt
    <3>1. QED BY <1>4, <2>6
  <2>8. QED BY <2>2, <2>7
<1>11. QED BY <1>8, <1>9, <1>10 DEF Obeyed

-----------------------------------------------------------------------------
(* Finite sets of numbers, and of links. *)
LEMMA MaxOf ==
  ASSUME NEW S, IsFiniteSet(S), S # {}, S \subseteq Int
  PROVE  Max(S) \in S /\ \A x \in S : x <= Max(S)
<1> DEFINE f == [x \in S |-> x]
<1>1. \A x \in S : f[x] \in Int
  OBVIOUS
<1>2. PICK m \in S : \A x \in S : f[x] <= f[m]
  <2> HIDE DEF f
  <2>1. QED BY <1>1, Largest
<1>3. \E m1 \in S : \A x \in S : m1 >= x
  BY <1>2
<1>4. QED BY <1>3 DEF Max

LEMMA MinOf ==
  ASSUME NEW S, IsFiniteSet(S), S # {}, S \subseteq Int
  PROVE  Min(S) \in S /\ \A x \in S : Min(S) <= x
<1>1. \E m \in S : \A x \in S : m <= x
  BY Least
<1>2. QED BY <1>1 DEF Min

LEMMA OneIsFinite == ASSUME NEW x PROVE IsFiniteSet({x})
BY FS_Singleton

LEMMA ImageFinite ==
  ASSUME NEW S, IsFiniteSet(S), NEW f
  PROVE  IsFiniteSet({f[x] : x \in S})
<1> DEFINE T == {f[x] : x \in S}
           g == [x \in S |-> f[x]]
<1>1. g \in Surjection(S, T)
  BY DEF Surjection
<1>2. QED BY <1>1, FS_Surjection

LEMMA LinksFinite == IsFiniteSet(Links)
<1> DEFINE D == Tasks \X (Tasks \X LinkKinds)
           f == [x \in D |-> [from |-> x[1], to |-> x[2][1], type |-> x[2][2][1], lag |-> x[2][2][2]]]
<1>1. IsFiniteSet(D)
  BY FS_Product, ScheduleAssumption
<1>2. IsFiniteSet({f[x] : x \in D})
  <2> HIDE DEF f, D
  <2>1. QED BY <1>1, ImageFinite
<1>3. Links \subseteq {f[x] : x \in D}
  <2>1. ASSUME NEW u \in Tasks, NEW v \in Tasks, NEW k \in LinkKinds
        PROVE  [from |-> u, to |-> v, type |-> k[1], lag |-> k[2]] \in {f[x] : x \in D}
    <3> DEFINE x == <<u, <<v, k>>>>
    <3>1. x \in D /\ x[1] = u /\ x[2][1] = v /\ x[2][2] = k
      OBVIOUS
    <3>2. f[x] = [from |-> u, to |-> v, type |-> k[1], lag |-> k[2]]
      BY <3>1
    <3> HIDE DEF x, f, D
    <3>3. QED BY <3>1, <3>2
  <2> HIDE DEF f, D
  <2>2. QED BY <2>1 DEF Links
<1>4. QED 
  <2> HIDE DEF f, D
  <2>1. QED BY <1>2, <1>3, FS_Subset

LEMMA LinkTyped ==
  ASSUME NEW l \in Links
  PROVE  /\ l.from \in Tasks /\ l.to \in Tasks /\ l.lag \in Int
         /\ l.type \in {"FS", "SS", "FF", "SF"}
<1>1. PICK u \in Tasks, v \in Tasks, k \in LinkKinds : l = [from |-> u, to |-> v, type |-> k[1], lag |-> k[2]]
  BY DEF Links
<1>2. k \in {"FS", "SS", "FF", "SF"} \X Int
  BY ScheduleAssumption
<1>3. k[1] \in {"FS", "SS", "FF", "SF"} /\ k[2] \in Int
  BY <1>2
<1>4. QED BY <1>1, <1>3

-----------------------------------------------------------------------------
(* Links that do not loop have a first and a last task in every set. *)

(* Nobody is left when those who can be ordered are taken away, so somebody can be. *)
LEMMA FirstOf ==
  ASSUME NEW S, NEW links, ~Loops(S, links), NEW A \in SUBSET S, A # {}
  PROVE  \E t \in A : \A l \in links : l.to = t => l.from \notin A
BY DEF Loops

(* Take the first away: the last of the rest is the last. *)
LEMMA LastOf ==
  ASSUME NEW S, IsFiniteSet(S), NEW links, ~Loops(S, links), NEW A \in SUBSET S, A # {}
  PROVE  \E t \in A : \A l \in links : l.from = t => l.to \notin A
<1> DEFINE Last(T, t) == \A l \in links : l.from = t => l.to \notin T
           Good == {T \in SUBSET S : T = {} \/ \E t \in T : Last(T, t)}
<1>1. ASSUME NEW T \in SUBSET S, \A U \in SUBSET T : U # T => U \in Good
      PROVE  T \in Good
  <2>1. CASE T = {}
    BY <2>1
  <2>2. CASE T # {}
    <3>1. PICK t \in T : \A l \in links : l.to = t => l.from \notin T
      BY <2>2, FirstOf
    <3>2. CASE T = {t}
      <4>1. Last(T, t)
        BY <3>1, <3>2
      <4>2. QED BY <4>1
    <3>3. CASE T # {t}
      <4>1. PICK u \in T \ {t} : Last(T \ {t}, u)
        <5>1. T \ {t} \in SUBSET T /\ T \ {t} # T /\ T \ {t} # {}
          BY <3>3
        <5>2. T \ {t} \in Good
          BY <1>1, <5>1
        <5>3. QED BY <5>1, <5>2
      <4>2. Last(T, u)
        BY <3>1, <4>1
      <4>3. QED BY <4>1, <4>2
    <3>4. QED BY <3>2, <3>3
  <2>3. QED BY <2>1, <2>2
<1>2. \A T \in SUBSET S : T \in Good
  <2> HIDE DEF Good
  <2>1. QED BY <1>1, SubsetInduction
<1>3. QED BY <1>2

-----------------------------------------------------------------------------
(* Rows the program writes. *)
Fields == {"parent", "kind", "days", "constraint", "date", "percent", "began", "ended"}

(* What has been told of a task is one story. *)
Story(percent, began, ended, day) ==
  /\ percent \in 0..100
  /\ began \in Int \cup {NoDate} /\ ended \in Int \cup {NoDate}
  /\ percent = 100 <=> ended # NoDate
  /\ 0 < percent /\ percent < 100 => began # NoDate
  /\ began # NoDate => began <= day
  /\ ended # NoDate => ended <= day
  /\ began # NoDate /\ ended # NoDate => began <= ended

KnownRow(row, day) ==
  /\ DOMAIN row = Fields
  /\ row.kind \in {"task", "milestone"} /\ row.days \in Nat
  /\ row.constraint \in {"asap", "snet", "fnlt"} /\ (row.constraint # "asap" => row.date \in Int)
  /\ Story(row.percent, row.began, row.ended, day)

KnownPlan(p, day) ==
  /\ DOMAIN p = {"rows", "links"}
  /\ DOMAIN p.rows \subseteq Tasks
  /\ \A t \in DOMAIN p.rows : KnownRow(p.rows[t], day)
  /\ p.links \subseteq Links

Spans == [es : Int, ef : Int]

(* A task nobody has begun takes its place from the tasks before it; any other has its own. *)
Unstarted(row) == row.began = NoDate /\ row.ended = NoDate /\ row.percent = 0

LEMMA PairIs ==
  ASSUME NEW a \in Int, NEW b \in Int
  PROVE  /\ Max({a, b}) \in Int /\ a <= Max({a, b}) /\ b <= Max({a, b})
         /\ Min({a, b}) \in Int /\ Min({a, b}) <= a /\ Min({a, b}) <= b
<1>1. IsFiniteSet({a} \cup {b})
  BY FS_Singleton, FS_AddElement
<1>2. {a, b} = {a} \cup {b}
  OBVIOUS
<1>3. IsFiniteSet({a, b}) /\ {a, b} \subseteq Int /\ {a, b} # {}
  BY <1>1, <1>2
<1>4. QED BY <1>3, MaxOf, MinOf

LEMMA LengthIs == ASSUME NEW row, NEW day, KnownRow(row, day) PROVE PlannedLength(row) \in Nat
<1>1. CASE row.kind = "milestone"
  BY <1>1 DEF PlannedLength
<1>2. CASE row.kind # "milestone"
  <2>1. row.days \in Int
    BY DEF KnownRow
  <2>2. \A b \in Int : Max({1, b}) \in Int /\ 1 <= Max({1, b})
    BY PairIs
  <2> DEFINE longest == Max({1, row.days})
  <2>3. longest \in Int /\ 1 <= longest
    BY <2>1, <2>2
  <2>4. PlannedLength(row) = longest
    BY <1>2 DEF PlannedLength
  <2> HIDE DEF longest
  <2>5. QED BY <2>3, <2>4
<1>3. QED BY <1>1, <1>2

(* Progress overrides logic: only a task nobody has begun asks what comes before it. *)
LEMMA RowPass ==
  ASSUME NEW day \in Int, NEW row, KnownRow(row, day), NEW logic \in Int, NEW length \in Nat
  PROVE  /\ Progressed(row, logic, length, day) \in Spans
         /\ Unstarted(row) => Progressed(row, logic, length, day) = [es |-> logic, ef |-> logic + length]
         /\ ~Unstarted(row) => \A other \in Int : Progressed(row, other, length, day) = Progressed(row, logic, length, day)
<1> DEFINE milestone == row.kind = "milestone"
           Es(x) == CASE row.ended # NoDate /\ milestone -> row.ended + 1
              [] row.ended # NoDate /\ ~milestone /\ row.began # NoDate -> Min({row.began, row.ended})
              [] row.ended # NoDate /\ ~milestone /\ row.began = NoDate -> row.ended + 1 - length
              [] row.ended = NoDate /\ row.began # NoDate -> IF milestone THEN row.began + 1 ELSE row.began
              [] row.ended = NoDate /\ row.began = NoDate -> x
           Ef(es) == CASE row.ended # NoDate -> row.ended + 1
              [] row.ended = NoDate /\ Underway(row) -> Max({es + length, day + RemainingOf(row, length)})
              [] row.ended = NoDate /\ ~Underway(row) -> es + length
<1>1. \A x : Progressed(row, x, length, day) = [es |-> Es(x), ef |-> Ef(Es(x))]
  BY DEF Progressed
<1>2. /\ row.began \in Int \cup {NoDate} /\ row.ended \in Int \cup {NoDate}
      /\ row.percent \in Int /\ 0 <= row.percent /\ row.percent <= 100 
      /\ row.percent = 100 <=> row.ended # NoDate
      /\ 0 < row.percent /\ row.percent < 100 => row.began # NoDate
  BY DEF KnownRow, Story
<1>3. RemainingOf(row, length) \in Int
  <2>1. length * (100 - row.percent) + 99 \in Int
    BY <1>2
  <2>2. QED BY <2>1 DEF RemainingOf
<1>4. ASSUME NEW x \in Int PROVE Es(x) \in Int
  <2>1. CASE row.ended # NoDate /\ ~milestone /\ row.began # NoDate
    <3>1. row.began \in Int /\ row.ended \in Int
      BY <1>2, <2>1
    <3>2. Es(x) = Min({row.began, row.ended})
      BY <2>1
    <3> HIDE DEF Es
    <3>3. QED BY <3>1, <3>2, PairIs
  <2>2. CASE row.ended = NoDate \/ milestone \/ row.began = NoDate
    BY <1>2, <2>2
  <2>3. QED BY <2>1, <2>2
<1>5. ASSUME NEW es \in Int PROVE Ef(es) \in Int
  <2>1. es + length \in Int /\ day + RemainingOf(row, length) \in Int
    BY <1>3
  <2>2. Max({es + length, day + RemainingOf(row, length)}) \in Int
    BY <2>1, PairIs
  <2>3. QED BY <1>2, <2>1, <2>2
<1>6. Unstarted(row) => Es(logic) = logic /\ Ef(logic) = logic + length
  BY DEF Unstarted, Underway, Started
<1>7. ~Unstarted(row) => \A other \in Int : Es(other) = Es(logic)
  BY <1>2 DEF Unstarted
<1> HIDE DEF Es, Ef
<1>8. Es(logic) \in Int /\ Ef(Es(logic)) \in Int
  BY <1>4, <1>5
<1>9. QED BY <1>1, <1>6, <1>7, <1>8 DEF Spans

-----------------------------------------------------------------------------
(* The forward pass. *)
LEMMA LeavesAreTasks ==
  ASSUME NEW p, NEW day, KnownPlan(p, day)
  PROVE  /\ LeavesOf(p) \subseteq DOMAIN p.rows /\ LeavesOf(p) \subseteq Tasks /\ IsFiniteSet(LeavesOf(p))
         /\ \A t \in LeavesOf(p) : KnownRow(p.rows[t], day)
<1>1. LeavesOf(p) \subseteq DOMAIN p.rows /\ DOMAIN p.rows \subseteq Tasks
  BY DEF LeavesOf, Shown, KnownPlan
<1>2. LeavesOf(p) \in SUBSET Tasks
  BY <1>1
<1>3. IsFiniteSet(LeavesOf(p))
  BY <1>2, FS_Subset, ScheduleAssumption
<1>4. QED BY <1>1, <1>3 DEF KnownPlan

LEMMA LinkBound ==
  ASSUME NEW l \in Links, NEW before \in Spans, NEW length \in Nat
  PROVE  EarliestBy(l, before, length) \in Int
<1>1. before.es \in Int /\ before.ef \in Int
  BY DEF Spans
<1>2. QED BY <1>1, LinkTyped DEF EarliestBy

LEMMA BoundsAre ==
  ASSUME NEW p, NEW day, KnownPlan(p, day), NEW t \in LeavesOf(p),
         NEW e, \A l \in Incoming(p, t) : e[l.from] \in Spans
  PROVE  IsFiniteSet(Bounds(p, e, t)) /\ Bounds(p, e, t) \subseteq Int /\ Bounds(p, e, t) # {}
<1> DEFINE row == p.rows[t]
           f == [l \in Incoming(p, t) |-> EarliestBy(l, e[l.from], PlannedLength(row))]
           I == {f[l] : l \in Incoming(p, t)}
<1>1. KnownRow(row, day) /\ PlannedLength(row) \in Nat
  BY LeavesAreTasks, LengthIs
<1>2. Incoming(p, t) \subseteq Links
  BY DEF Incoming, KnownPlan
<1>3. IsFiniteSet(Incoming(p, t))
  BY <1>2, LinksFinite, FS_Subset
<1>4. IsFiniteSet(I)
  <2> HIDE DEF f
  <2>1. QED BY <1>3, ImageFinite
<1>5. I = {EarliestBy(l, e[l.from], PlannedLength(row)) : l \in Incoming(p, t)}
  OBVIOUS
<1>6. I \subseteq Int
  <2>1. \A l \in Incoming(p, t) : EarliestBy(l, e[l.from], PlannedLength(row)) \in Int
    BY <1>1, <1>2, LinkBound
  <2>2. QED BY <1>5, <2>1
<1>7. HeldTo(row) \subseteq Int /\ IsFiniteSet(HeldTo(row))
  <2>1. CASE row.constraint = "snet"
    <3>1. row.date \in Int
      BY <1>1, <2>1 DEF KnownRow
    <3> DEFINE held == IF row.kind = "milestone" THEN row.date + 1 ELSE row.date
    <3>2. HeldTo(row) = {held} /\ held \in Int
      BY <2>1, <3>1 DEF HeldTo
    <3> HIDE DEF held
    <3>3. QED BY <3>2, OneIsFinite
  <2>2. CASE row.constraint # "snet"
    BY <2>2, FS_EmptySet DEF HeldTo
  <2>3. QED BY <2>1, <2>2
<1>8. Bounds(p, e, t) = {ProjectStart} \cup HeldTo(row) \cup I
  BY <1>5 DEF Bounds
<1> HIDE DEF I, row
<1>9. IsFiniteSet({ProjectStart}) /\ {ProjectStart} \subseteq Int
  BY OneIsFinite DEF ProjectStart
<1>10. IsFiniteSet({ProjectStart} \cup HeldTo(row))
  BY <1>7, <1>9, FS_Union
<1>11. IsFiniteSet({ProjectStart} \cup HeldTo(row) \cup I)
  BY <1>4, <1>10, FS_Union
<1>12. QED BY <1>6, <1>7, <1>8, <1>9, <1>11

LEMMA EarlyTyped ==
  ASSUME NEW p, NEW day \in Int, KnownPlan(p, day), NEW t \in LeavesOf(p),
         NEW e, \A l \in Incoming(p, t) : e[l.from] \in Spans
  PROVE  EarlyBy(p, day, e, t) \in Spans
<1> DEFINE row == p.rows[t]
           logic == Max(Bounds(p, e, t))
<1>1. KnownRow(row, day) /\ PlannedLength(row) \in Nat
  BY LeavesAreTasks, LengthIs
<1>2. logic \in Int
  BY BoundsAre, MaxOf
<1>3. EarlyBy(p, day, e, t) = Progressed(row, logic, PlannedLength(row), day)
  BY DEF EarlyBy
<1> HIDE DEF row, logic
<1>4. QED BY <1>1, <1>2, <1>3, RowPass

(* The dates of a pass are what the rule says of each task, given those of the tasks before it. *)
Pass(p, day, e) ==
  /\ e \in [LeavesOf(p) -> Spans]
  /\ \A t \in LeavesOf(p) : e[t] = EarlyBy(p, day, e, t)

LEMMA SameBefore ==
  ASSUME NEW p, NEW day, NEW t, NEW e, NEW f, \A l \in Incoming(p, t) : e[l.from] = f[l.from]
  PROVE  EarlyBy(p, day, e, t) = EarlyBy(p, day, f, t)
<1>1. \A L : {EarliestBy(l, e[l.from], L) : l \in Incoming(p, t)} = {EarliestBy(l, f[l.from], L) : l \in Incoming(p, t)}
  OBVIOUS
<1>2. Bounds(p, e, t) = Bounds(p, f, t)
  BY <1>1 DEF Bounds
<1>3. QED BY <1>2 DEF EarlyBy

LEMMA AcceptedLinks ==
  ASSUME NEW p, NEW day, KnownPlan(p, day), Accepts(p)
  PROVE  /\ ~Loops(LeavesOf(p), p.links)
         /\ \A l \in p.links : l \in Links /\ l.from \in LeavesOf(p) /\ l.to \in LeavesOf(p) /\ l.from # l.to
<1>1. ~Loops(LeavesOf(p), p.links) /\ \A l \in p.links : l.from \in LeavesOf(p) /\ l.to \in LeavesOf(p)
  BY DEF Accepts
<1>2. ASSUME NEW l \in p.links, l.from = l.to PROVE FALSE
  <2>1. {l.to} \in SUBSET LeavesOf(p) /\ {l.to} # {}
    BY <1>1
  <2>2. \E t \in {l.to} : \A m \in p.links : m.to = t => m.from \notin {l.to}
    BY <1>1, <2>1, FirstOf
  <2>3. QED BY <1>2, <2>2
<1>3. QED BY <1>1, <1>2 DEF KnownPlan

(* The engine's dates are a pass. *)
LEMMA EarlyIsPass ==
  ASSUME NEW p, NEW day \in Int, KnownPlan(p, day), Accepts(p)
  PROVE  Pass(p, day, Early(p, day))
<1> DEFINE S == LeavesOf(p)
           Before == {<<l.from, l.to>> : l \in p.links}
           F == [x \in [S -> Spans] \X S |-> EarlyBy(p, day, x[1], x[2])]
           v0 == [es |-> 0, ef |-> 0]
           Obeys(e) == e = [t \in S |-> EarlyBy(p, day, e, t)]
<1>1. v0 \in Spans
  BY DEF Spans
<1>2. ASSUME NEW A \in SUBSET S, A # {} PROVE \E t \in A : \A l \in p.links : l.to = t => l.from \notin A
  BY <1>2, AcceptedLinks, FirstOf
<1>3. ASSUME NEW A \in SUBSET S, A # {} PROVE \E t \in A : \A u \in A : <<u, t>> \notin Before
  <2>1. PICK t \in A : \A l \in p.links : l.to = t => l.from \notin A
    BY <1>3, <1>2
  <2>2. QED BY <2>1
<1>4. \A t \in S : \A l \in Incoming(p, t) : l.from \in S /\ <<l.from, t>> \in Before
  BY AcceptedLinks DEF Incoming
<1>5. ASSUME NEW f \in [S -> Spans], NEW t \in S PROVE F[<<f, t>>] = EarlyBy(p, day, f, t) /\ F[<<f, t>>] \in Spans
  <2>1. <<f, t>> \in [S -> Spans] \X S /\ <<f, t>>[1] = f /\ <<f, t>>[2] = t
    OBVIOUS
  <2>2. F[<<f, t>>] = EarlyBy(p, day, f, t)
    BY <2>1
  <2>3. EarlyBy(p, day, f, t) \in Spans
    BY <1>4, EarlyTyped
  <2>4. QED BY <2>2, <2>3
<1>6. ASSUME NEW f \in [S -> Spans], NEW g \in [S -> Spans], NEW t \in S,
             \A u \in S : <<u, t>> \in Before => f[u] = g[u]
      PROVE  F[<<f, t>>] = F[<<g, t>>]
  <2>1. \A l \in Incoming(p, t) : f[l.from] = g[l.from]
    BY <1>4, <1>6
  <2>2. EarlyBy(p, day, f, t) = EarlyBy(p, day, g, t)
    BY <2>1, SameBefore
  <2>3. QED BY <1>5, <2>2
<1>7. PICK f \in [S -> Spans] : \A t \in S : f[t] = F[<<f, t>>]
  <2> HIDE DEF S, Before, F
  <2>1. Founded(S, Before)
    BY <1>3 DEF Founded
  <2>2. Yields(S, Spans, F)
    BY <1>5 DEF Yields
  <2>3. Looks(S, Spans, Before, F)
    BY <1>6 DEF Looks
  <2>4. Spans # {}
    BY <1>1
  <2>5. Obeyed(S, Spans, F)
    BY <2>1, <2>2, <2>3, <2>4, RuleIsObeyed
  <2>6. QED BY <2>5 DEF Obeyed
<1>8. Obeys(f)
  <2>1. \A t \in S : f[t] = EarlyBy(p, day, f, t)
    <3> HIDE DEF F
    <3>1. QED BY <1>5, <1>7
  <2>2. f = [t \in S |-> f[t]]
    BY <1>7
  <2> HIDE DEF S, F
  <2>3. QED BY <2>1, <2>2
<1> DEFINE e == CHOOSE e : Obeys(e)
<1>9. Obeys(e)
  <2> HIDE DEF Obeys
  <2>1. QED BY <1>8
<1>10. Early(p, day) = [t \in S |-> e[t]]
  BY DEF Early
<1> HIDE DEF e
<1>11. Early(p, day) = e /\ DOMAIN e = S /\ \A t \in S : e[t] = EarlyBy(p, day, e, t)
  <2> HIDE DEF S
  <2>1. QED BY <1>9, <1>10
<1>12. \A t \in S : e[t] \in Spans
  <2> DEFINE A == {t \in S : e[t] \notin Spans}
  <2>1. SUFFICES ASSUME A # {} PROVE FALSE
    OBVIOUS
  <2>2. PICK t \in A : \A l \in p.links : l.to = t => l.from \notin A
    <3>1. A \in SUBSET S
      OBVIOUS
    <3> HIDE DEF S, A
    <3>2. QED BY <2>1, <3>1, <1>2
  <2>3. \A l \in Incoming(p, t) : e[l.from] \in Spans
    BY <1>4, <2>2 DEF Incoming
  <2>4. EarlyBy(p, day, e, t) \in Spans
    BY <2>3, EarlyTyped
  <2>5. QED BY <1>11, <2>4
<1>13. e \in [S -> Spans]
  <2>1. e = [t \in S |-> e[t]]
    BY <1>9, <1>11
  <2> HIDE DEF S
  <2>2. QED BY <1>12, <2>1
<1>14. QED BY <1>11, <1>13 DEF Pass

-----------------------------------------------------------------------------
(* Progress is one story: the writes in flight are known too. *)
(* The fields of a row a write changes: none, or one of these, whichever row they are written over. *)
Changed(fields, day) ==
  \/ \E parent : fields = [parent |-> parent]
  \/ \E kind \in {"task", "milestone"}, days \in Nat : fields = [kind |-> kind, days |-> days]
  \/ \E days \in Nat : fields = [days |-> days]
  \/ \E constraint \in {"asap", "snet", "fnlt"} : \E date :
       (constraint # "asap" => date \in Int) /\ fields = [constraint |-> constraint, date |-> date]
  \/ \E percent, began, ended :
       Story(percent, began, ended, day) /\ fields = [percent |-> percent, began |-> began, ended |-> ended]

KnownWrite(w, day) ==
  \/ \E t \in Tasks : \E fields : Changed(fields, day) /\ w = Putting(t, fields)
  \/ \E t \in Tasks : \E row : KnownRow(row, day) /\ w = Making(t, row)
  \/ \E t : w = Dropping(t)
  \/ \E cut, join : join \subseteq Links /\ w = Linking(cut, join)

KnownRequests(asked, day) == \A r \in Requests : asked[r].at # "idle" => KnownWrite(asked[r].write, day)

StoryInv == RequestsKnown /\ today \in Nat /\ KnownPlan(plan, today) /\ KnownRequests(requests, today)

LEMMA OverlaidKnown ==
  ASSUME NEW day \in Int, NEW row, KnownRow(row, day), NEW fields, Changed(fields, day)
  PROVE  KnownRow(Overlaid(row, fields), day)
<1> DEFINE over == Overlaid(row, fields)
<1>1. DOMAIN over = Fields /\ \A f \in Fields : over[f] = IF f \in DOMAIN fields THEN fields[f] ELSE row[f]
  BY DEF Overlaid, KnownRow
<1> HIDE DEF over
<1>2. /\ over.kind = IF "kind" \in DOMAIN fields THEN fields.kind ELSE row.kind
      /\ over.days = IF "days" \in DOMAIN fields THEN fields.days ELSE row.days
      /\ over.constraint = IF "constraint" \in DOMAIN fields THEN fields.constraint ELSE row.constraint
      /\ over.date = IF "date" \in DOMAIN fields THEN fields.date ELSE row.date
      /\ over.percent = IF "percent" \in DOMAIN fields THEN fields.percent ELSE row.percent
      /\ over.began = IF "began" \in DOMAIN fields THEN fields.began ELSE row.began
      /\ over.ended = IF "ended" \in DOMAIN fields THEN fields.ended ELSE row.ended
  BY <1>1 DEF Fields
<1>3. /\ row.kind \in {"task", "milestone"} /\ row.days \in Nat
      /\ row.constraint \in {"asap", "snet", "fnlt"} /\ (row.constraint # "asap" => row.date \in Int)
      /\ Story(row.percent, row.began, row.ended, day)
  BY DEF KnownRow
<1>4. KnownRow(over, day) <=>
        /\ over.kind \in {"task", "milestone"} /\ over.days \in Nat
        /\ over.constraint \in {"asap", "snet", "fnlt"} /\ (over.constraint # "asap" => over.date \in Int)
        /\ Story(over.percent, over.began, over.ended, day)
  BY <1>1 DEF KnownRow
<1>5. CASE \E parent : fields = [parent |-> parent]
  BY <1>2, <1>3, <1>4, <1>5 DEF over
<1>6. CASE \E kind \in {"task", "milestone"}, days \in Nat : fields = [kind |-> kind, days |-> days]
  BY <1>2, <1>3, <1>4, <1>6 DEF over
<1>7. CASE \E days \in Nat : fields = [days |-> days]
  BY <1>2, <1>3, <1>4, <1>7 DEF over
<1>8. CASE \E constraint \in {"asap", "snet", "fnlt"} : \E date :
             (constraint # "asap" => date \in Int) /\ fields = [constraint |-> constraint, date |-> date]
  BY <1>2, <1>3, <1>4, <1>8 DEF over
<1>9. CASE \E percent, began, ended :
             Story(percent, began, ended, day) /\ fields = [percent |-> percent, began |-> began, ended |-> ended]
  BY <1>2, <1>3, <1>4, <1>9 DEF over
<1>10. QED BY <1>5, <1>6, <1>7, <1>8, <1>9 DEF Changed

LEMMA KnownLater ==
  ASSUME NEW day \in Int, NEW later \in Int, day <= later
  PROVE  /\ \A percent, began, ended : Story(percent, began, ended, day) => Story(percent, began, ended, later)
         /\ \A row : KnownRow(row, day) => KnownRow(row, later)
         /\ \A p : KnownPlan(p, day) => KnownPlan(p, later)
         /\ \A w : KnownWrite(w, day) => KnownWrite(w, later)
<1>1. ASSUME NEW percent, NEW began, NEW ended, Story(percent, began, ended, day)
      PROVE  Story(percent, began, ended, later)
  <2>1. (began # NoDate => began \in Int) /\ (ended # NoDate => ended \in Int)
    BY <1>1 DEF Story
  <2>2. QED BY <1>1, <2>1 DEF Story
<1>2. ASSUME NEW row, KnownRow(row, day) PROVE KnownRow(row, later)
  BY <1>1, <1>2 DEF KnownRow
<1>3. ASSUME NEW p, KnownPlan(p, day) PROVE KnownPlan(p, later)
  BY <1>2, <1>3 DEF KnownPlan
<1>4. ASSUME NEW fields, Changed(fields, day) PROVE Changed(fields, later)
  BY <1>1, <1>4 DEF Changed
<1>5. ASSUME NEW w, KnownWrite(w, day) PROVE KnownWrite(w, later)
  BY <1>2, <1>4, <1>5 DEF KnownWrite
<1>6. QED BY <1>1, <1>2, <1>3, <1>5

LEMMA AppliedKnown ==
  ASSUME NEW day \in Int, NEW p, KnownPlan(p, day), NEW w, KnownWrite(w, day)
  PROVE  KnownPlan(Applied(w, p), day)
<1> DEFINE q == Applied(w, p)
           kept == (DOMAIN p.rows \ Gone(w, p)) \cup w.made
           row(t) == CASE t \in w.made -> w.put[t]
                       [] t \in DOMAIN w.put \ w.made -> Overlaid(p.rows[t], w.put[t])
                       [] t \notin DOMAIN w.put -> p.rows[t]
<1>1. /\ DOMAIN q = {"rows", "links"} /\ DOMAIN q.rows = kept
      /\ \A t \in kept : q.rows[t] = row(t)
      /\ q.links \subseteq p.links \cup w.join
  BY DEF Applied, Uncut
<1>2. /\ w.made \subseteq Tasks /\ w.made \subseteq DOMAIN w.put /\ w.join \subseteq Links
      /\ \A t \in w.made : KnownRow(w.put[t], day)
      /\ \A t \in DOMAIN w.put \ w.made : Changed(w.put[t], day)
  <2>1. ASSUME NEW t \in Tasks, NEW fields, Changed(fields, day), w = Putting(t, fields) PROVE <1>2!:
    BY <2>1 DEF Putting
  <2>2. ASSUME NEW t \in Tasks, NEW made, KnownRow(made, day), w = Making(t, made) PROVE <1>2!:
    BY <2>2 DEF Making
  <2>3. ASSUME NEW t, w = Dropping(t) PROVE <1>2!:
    BY <2>3 DEF Dropping, NoRows
  <2>4. ASSUME NEW cut, NEW join, join \subseteq Links, w = Linking(cut, join) PROVE <1>2!:
    BY <2>4 DEF Linking, NoRows
  <2>5. QED BY <2>1, <2>2, <2>3, <2>4 DEF KnownWrite
<1>3. ASSUME NEW t \in kept PROVE t \in Tasks /\ KnownRow(row(t), day)
  <2>1. t \in w.made \/ (t \in DOMAIN p.rows /\ KnownRow(p.rows[t], day) /\ t \in Tasks)
    BY DEF KnownPlan
  <2>2. CASE t \in w.made
    BY <1>2, <2>2
  <2>3. CASE t \notin w.made /\ t \in DOMAIN w.put
    <3>1. KnownRow(Overlaid(p.rows[t], w.put[t]), day)
      BY <1>2, <2>1, <2>3, OverlaidKnown
    <3>2. QED BY <2>1, <2>3, <3>1
  <2>4. CASE t \notin w.made /\ t \notin DOMAIN w.put
    BY <2>1, <2>4
  <2>5. QED BY <2>2, <2>3, <2>4
<1>4. q.links \subseteq Links
  BY <1>1, <1>2 DEF KnownPlan
<1> HIDE DEF q, kept, row
<1>5. KnownPlan(q, day)
  BY <1>1, <1>3, <1>4 DEF KnownPlan
<1>6. QED BY <1>5 DEF q

-----------------------------------------------------------------------------
(* A report. *)
LEMMA ReportIsAStory ==
  ASSUME today \in Nat, NEW row, KnownRow(row, today), NEW pass \in Spans, NEW input \in Reports,
         NEW report, report = Report(row, pass, input),
         {report.began, report.ended} \subseteq Int => report.began <= report.ended
  PROVE  Story(report.percent, report.began, report.ended, today)
<1> DEFINE start == ShownStart(row, pass)
           finish == ShownFinish(row, pass)
           percent == PercentBy(row, input)
<1>1. start \in Int /\ finish \in Int
  <2>1. pass.es \in Int /\ pass.ef \in Int /\ row.kind \in {"task", "milestone"}
    BY DEF Spans, KnownRow
  <2>2. pass.es - 1 \in Int /\ Max({pass.es - 1, ProjectStart}) \in Int
    <3>1. \A a, b \in Int : Max({a, b}) \in Int
      BY PairIs
    <3>2. QED BY <2>1, <3>1 DEF ProjectStart
  <2>3. QED BY <2>1, <2>2 DEF ShownStart, ShownFinish
<1>2. \A a, b \in Int : Earlier(a, b) \in Int /\ Earlier(a, b) <= a /\ Earlier(a, b) <= b
  BY DEF Earlier
<1>3. /\ input.percent = Unsaid \/ (input.percent \in Int /\ 0 <= input.percent /\ input.percent <= 100)
      /\ input.began \in {Unsaid, NoDate} \/ (input.began \in Int /\ input.began <= today)
      /\ input.ended \in {Unsaid, NoDate} \/ (input.ended \in Int /\ input.ended <= today)
  <2>1. /\ input.percent \in Percents \cup {Unsaid}
        /\ input.began \in Days \cup {NoDate, Unsaid} /\ input.ended \in Days \cup {NoDate, Unsaid}
    BY DEF Reports, Inputs
  <2>2. \A x \in Percents : x \in Int /\ 0 <= x /\ x <= 100
    BY ScheduleAssumption
  <2>3. QED BY <2>1, <2>2 DEF Days
<1>4. Unsaid \notin Int /\ NoDate \notin Int /\ Unsaid # NoDate
  BY ScheduleAssumption
<1>5. Story(row.percent, row.began, row.ended, today)
  BY DEF KnownRow
<1> HIDE DEF start, finish, percent
<1>6. CASE row.kind = "milestone"
  <2> DEFINE ended == CASE input.percent = Unsaid \/ input.ended # Unsaid -> Said(input.ended, row.ended)
                 [] OTHER -> IF input.percent < 100 THEN NoDate
                             ELSE IF row.ended # NoDate THEN row.ended ELSE Earlier(finish, today)
  <2>1. report = [percent |-> IF ended # NoDate THEN 100 ELSE 0, began |-> NoDate, ended |-> ended]
    BY <1>6 DEF Report, MilestoneReport, finish
  <2>2. ended = NoDate \/ (ended \in Int /\ ended <= today)
    BY <1>1, <1>2, <1>3, <1>4, <1>5 DEF Said, Story
  <2> HIDE DEF ended
  <2>3. QED BY <2>1, <2>2, <1>4 DEF Story
<1>7. CASE row.kind # "milestone"
  <2>1. /\ report.percent = percent /\ report.began = BeganBy(row, start, input)
        /\ report.ended = EndedBy(row, finish, input)
    BY <1>7 DEF Report, start, finish, percent
  <2>2. percent \in Int /\ 0 <= percent /\ percent <= 100
    BY <1>3, <1>5 DEF percent, PercentBy, Said, Story
  <2>3. BeganBy(row, start, input) = NoDate \/ (BeganBy(row, start, input) \in Int /\ BeganBy(row, start, input) <= today)
    BY <1>1, <1>2, <1>3, <1>4, <1>5 DEF BeganBy, Said, Story
  <2>4. EndedBy(row, finish, input) = NoDate \/ (EndedBy(row, finish, input) \in Int /\ EndedBy(row, finish, input) <= today)
    BY <1>1, <1>2, <1>3, <1>4, <1>5 DEF EndedBy, Said, Story
  <2>5. 0 < percent => BeganBy(row, start, input) # NoDate
    BY <1>1, <1>2, <1>3, <1>4, <1>5, <2>2 DEF BeganBy, Said, Story, percent
  <2>6. percent = 100 <=> EndedBy(row, finish, input) # NoDate
    BY <1>1, <1>2, <1>3, <1>4, <1>5, <2>2 DEF EndedBy, Said, Story, percent, PercentBy, IsDate
  <2> HIDE DEF percent
  <2>7. QED BY <2>1, <2>2, <2>3, <2>4, <2>5, <2>6, <1>4 DEF Story
<1>8. QED BY <1>6, <1>7

LEMMA DecidesKnown ==
  ASSUME StoryInv, NEW r \in Requests, NEW w, Decides(r, w), KnownWrite(w, today)
  PROVE  StoryInv'
<1>1. /\ requests' = [requests EXCEPT ![r] = [at |-> "decided", write |-> w]]
      /\ plan' = plan /\ today' = today
  BY DEF Decides
<1>2. RequestsKnown'
  BY <1>1 DEF StoryInv, RequestsKnown
<1>3. KnownRequests(requests', today)
  BY <1>1 DEF StoryInv, RequestsKnown, KnownRequests
<1>4. QED BY <1>1, <1>2, <1>3 DEF StoryInv

LEMMA EditKnown == ASSUME StoryInv, NEW r \in Requests, Edit(r) PROVE StoryInv'
<1>1. KnownPlan(plan, today) /\ today \in Nat /\ today \in Int
  BY DEF StoryInv
<1>2. ASSUME NEW t \in Tasks, NEW fields, Changed(fields, today), Decides(r, Putting(t, fields)) PROVE StoryInv'
  <2>1. KnownWrite(Putting(t, fields), today)
    BY <1>2 DEF KnownWrite
  <2>2. QED BY <1>2, <2>1, DecidesKnown
<1>3. ASSUME NEW t \in Tasks, NEW parent, MoveTask(r, t, parent) PROVE StoryInv'
  <2>1. Changed([parent |-> parent], today)
    BY DEF Changed
  <2>2. QED BY <1>2, <1>3, <2>1 DEF MoveTask
<1>4. ASSUME NEW t \in Tasks, NEW parent, NEW kind \in {"task", "milestone"}, CreateTask(r, t, parent, kind) PROVE StoryInv'
  <2> DEFINE row == NewRow(parent, kind, 1)
  <2>1. KnownRow(row, today)
    BY DEF NewRow, KnownRow, Fields, Story
  <2>2. Decides(r, Making(t, row))
    BY <1>4 DEF CreateTask
  <2> HIDE DEF row
  <2>3. KnownWrite(Making(t, row), today)
    BY <2>1 DEF KnownWrite
  <2>4. QED BY <2>2, <2>3, DecidesKnown
<1>5. ASSUME NEW t \in Tasks, DeleteTask(r, t) PROVE StoryInv'
  <2>1. Decides(r, Dropping(t)) /\ KnownWrite(Dropping(t), today)
    BY <1>5 DEF DeleteTask, KnownWrite
  <2>2. QED BY <2>1, DecidesKnown
<1>6. ASSUME NEW t \in Tasks, NEW kind \in {"task", "milestone"}, SetKind(r, t, kind) PROVE StoryInv'
  <2> DEFINE days == IF kind = "milestone" THEN 0 ELSE 1
             fields == [kind |-> kind, days |-> days]
  <2>1. days \in Nat
    OBVIOUS
  <2>2. Decides(r, Putting(t, fields))
    BY <1>6 DEF SetKind
  <2> HIDE DEF days
  <2>3. Changed(fields, today)
    BY <2>1 DEF Changed
  <2> HIDE DEF fields
  <2>4. QED BY <1>2, <2>2, <2>3
<1>7. ASSUME NEW t \in Tasks, NEW days \in Lengths, SetLength(r, t, days) PROVE StoryInv'
  <2>1. days \in Nat
    BY ScheduleAssumption
  <2>2. Changed([days |-> days], today)
    BY <2>1 DEF Changed
  <2>3. QED BY <1>2, <1>7, <2>2 DEF SetLength
<1>8. ASSUME NEW t \in Tasks, NEW c \in {"asap", "snet", "fnlt"}, NEW date \in 0..MaxDay \cup {NoDate},
             Constrain(r, t, c, date)
      PROVE  StoryInv'
  <2>1. c # "asap" => date \in Int
    BY <1>8 DEF Constrain
  <2>2. Changed([constraint |-> c, date |-> date], today)
    BY <2>1 DEF Changed
  <2>3. QED BY <1>2, <1>8, <2>2 DEF Constrain
<1>9. ASSUME NEW t \in Tasks, RecordProgress(r, t) PROVE StoryInv'
  <2> DEFINE pass == Early(plan, today)[t]
             row == Row(t)
  <2>1. Accepts(plan) /\ t \in LeavesOf(plan)
    BY <1>9 DEF Edit, RecordProgress
  <2>2. pass \in Spans
    <3>1. Pass(plan, today, Early(plan, today))
      BY <1>1, <2>1, EarlyIsPass
    <3>2. QED BY <2>1, <3>1 DEF Pass
  <2>3. KnownRow(row, today)
    BY <1>1, <2>1, LeavesAreTasks DEF Row
  <2>4. PICK report \in {Report(row, pass, input) : input \in Reports} :
          /\ {report.began, report.ended} \subseteq Int => report.began <= report.ended
          /\ Decides(r, Putting(t, report))
    BY <1>9 DEF RecordProgress
  <2> HIDE DEF pass, row
  <2>5. PICK input \in Reports : report = Report(row, pass, input)
    BY <2>4
  <2>6. Story(report.percent, report.began, report.ended, today)
    BY <1>1, <2>2, <2>3, <2>4, <2>5, ReportIsAStory
  <2>7. report = [percent |-> report.percent, began |-> report.began, ended |-> report.ended]
    BY <2>5 DEF Report, MilestoneReport
  <2>8. Changed(report, today)
    BY <2>6, <2>7 DEF Changed
  <2>9. QED BY <1>2, <2>4, <2>8
<1>10. ASSUME NEW cut, NEW join, join \subseteq Links, Decides(r, Linking(cut, join)) PROVE StoryInv'
  <2>1. KnownWrite(Linking(cut, join), today)
    BY <1>10 DEF KnownWrite
  <2>2. QED BY <1>10, <2>1, DecidesKnown
<1>11. ASSUME NEW l \in Links, CreateDependency(r, l) PROVE StoryInv'
  BY <1>10, <1>11 DEF CreateDependency
<1>12. ASSUME NEW l \in Links, DeleteDependency(r, l) PROVE StoryInv'
  BY <1>10, <1>12 DEF DeleteDependency
<1>13. ASSUME NEW l \in Links, NEW m \in Links, UpdateDependency(r, l, m) PROVE StoryInv'
  BY <1>10, <1>13 DEF UpdateDependency
<1>14. QED BY <1>3, <1>4, <1>5, <1>6, <1>7, <1>8, <1>9, <1>11, <1>12, <1>13 DEF Edit

LEMMA StoryStep == ASSUME StoryInv, [Next]_vars PROVE StoryInv'
<1>1. RequestsKnown /\ today \in Nat /\ KnownPlan(plan, today) /\ KnownRequests(requests, today)
  BY DEF StoryInv
<1>2. ASSUME NEW r \in Requests, Check(r) PROVE StoryInv'
  <2>1. PICK w : requests[r] = [at |-> "decided", write |-> w]
    BY <1>1, <1>2 DEF Check, RequestsKnown
  <2>2. /\ requests'[r] = IF Passes(w) THEN [at |-> "checked", write |-> w] ELSE Idle
        /\ \A q \in Requests \ {r} : requests'[q] = requests[q]
        /\ DOMAIN requests' = Requests /\ requests' = [q \in Requests |-> requests'[q]]
    BY <1>1, <1>2, <2>1 DEF Check, RequestsKnown
  <2>3. RequestsKnown'
    BY <1>1, <2>2 DEF RequestsKnown, Idle
  <2>4. KnownWrite(w, today)
    BY <1>1, <2>1 DEF KnownRequests
  <2>5. KnownRequests(requests', today)
    BY <1>1, <2>2, <2>4 DEF KnownRequests, Idle
  <2>6. plan' = plan /\ today' = today
    BY <1>2 DEF Check
  <2>7. QED BY <1>1, <2>3, <2>5, <2>6 DEF StoryInv
<1>3. ASSUME NEW r \in Requests, Commit(r) PROVE StoryInv'
  <2>1. KnownWrite(requests[r].write, today)
    BY <1>1, <1>3 DEF Commit, KnownRequests
  <2>2. KnownPlan(plan', today)
    BY <1>1, <1>3, <2>1, AppliedKnown DEF Commit
  <2>3. /\ requests'[r] = Idle /\ \A q \in Requests \ {r} : requests'[q] = requests[q]
        /\ DOMAIN requests' = Requests /\ requests' = [q \in Requests |-> requests'[q]]
    BY <1>1, <1>3 DEF Commit, RequestsKnown
  <2>4. RequestsKnown'
    BY <1>1, <2>3 DEF RequestsKnown, Idle
  <2>5. KnownRequests(requests', today)
    BY <1>1, <2>3 DEF KnownRequests, Idle
  <2>6. today' = today
    BY <1>3 DEF Commit
  <2>7. QED BY <1>1, <2>2, <2>4, <2>5, <2>6 DEF StoryInv
<1>4. CASE DayPasses
  <2>1. today' = today + 1 /\ plan' = plan /\ requests' = requests
    BY <1>4 DEF DayPasses
  <2>2. today' \in Nat /\ today \in Int /\ today' \in Int /\ today <= today'
    BY <1>1, <2>1
  <2>3. KnownPlan(plan, today') /\ KnownRequests(requests, today')
    BY <1>1, <2>2, KnownLater DEF KnownRequests
  <2>4. RequestsKnown'
    BY <1>1, <2>1 DEF RequestsKnown
  <2>5. QED BY <2>1, <2>2, <2>3, <2>4 DEF StoryInv
<1>5. CASE UNCHANGED vars
  <2>1. plan' = plan /\ requests' = requests /\ today' = today
    BY <1>5 DEF vars
  <2>2. RequestsKnown'
    BY <1>1, <2>1 DEF RequestsKnown
  <2>3. QED BY <1>1, <2>1, <2>2 DEF StoryInv
<1>6. QED BY <1>2, <1>3, <1>4, <1>5, EditKnown DEF Next

LEMMA StoryFirst == Init => StoryInv
<1> SUFFICES ASSUME Init PROVE StoryInv
  OBVIOUS
<1>1. PICK lengths \in [Filed -> Lengths], links \in SUBSET FileLinks :
        plan = [rows |-> [t \in Filed |-> NewRow(TopLevel, "task", lengths[t])], links |-> links]
  BY DEF Init
<1>2. today = 0 /\ requests = [r \in Requests |-> Idle]
  BY DEF Init
<1>3. ASSUME NEW t \in Filed PROVE KnownRow(NewRow(TopLevel, "task", lengths[t]), 0)
  <2>1. lengths[t] \in Nat
    BY <1>1, ScheduleAssumption
  <2>2. QED BY <2>1 DEF KnownRow, NewRow, Fields, Story
<1>4. /\ DOMAIN plan = {"rows", "links"} /\ DOMAIN plan.rows = Filed /\ plan.links \subseteq Links
      /\ \A t \in Filed : plan.rows[t] = NewRow(TopLevel, "task", lengths[t])
  BY <1>1 DEF FileLinks
<1>5. KnownPlan(plan, 0)
  BY <1>3, <1>4, ScheduleAssumption DEF KnownPlan
<1>6. RequestsKnown
  BY <1>2 DEF RequestsKnown, Idle
<1>7. KnownRequests(requests, 0)
  BY <1>2 DEF KnownRequests, Idle
<1>8. QED BY <1>2, <1>5, <1>6, <1>7 DEF StoryInv

(* ActualsAgree: whatever is told of a task, in any order and by any number of writes at once, done is     *)
(* having a finish, no date lies ahead, and nothing finishes before it begins.  Unlike the plan as a whole *)
(* the rows need no agreement between writes: each write leaves the story of a row one.                    *)
THEOREM ProgressIsOneStory == Spec => []ActualsAgree
<1>1. StoryInv => ActualsAgree
  BY DEF StoryInv, KnownPlan, KnownRow, Story, ActualsAgree
<1>2. StoryInv /\ [Next]_vars => StoryInv'
  BY StoryStep
<1>3. QED BY <1>1, <1>2, StoryFirst, PTL DEF Spec

-----------------------------------------------------------------------------
(* The backward pass. *)
Latest == [ls : Int, lf : Int]

LEMMA LastDayIs ==
  ASSUME NEW S, IsFiniteSet(S), NEW e \in [S -> Spans]
  PROVE  /\ LastDay(e) \in Int /\ ProjectStart <= LastDay(e)
         /\ \A t \in S : e[t].ef <= LastDay(e)
         /\ LastDay(e) = ProjectStart \/ \E t \in S : LastDay(e) = e[t].ef
<1> DEFINE f == [t \in S |-> e[t].ef]
           ends == {f[t] : t \in S}
<1>1. \A t \in S : f[t] = e[t].ef /\ f[t] \in Int
  BY DEF Spans
<1>2. IsFiniteSet(ends)
  <2> HIDE DEF f
  <2>1. QED BY ImageFinite
<1>3. ends = {e[t].ef : t \in DOMAIN e}
  BY <1>1
<1>4. ends \subseteq Int /\ \A t \in S : e[t].ef \in ends
  BY <1>1
<1>5. LastDay(e) = Max({ProjectStart} \cup ends)
  BY <1>3 DEF LastDay
<1>6. \A x \in ends : \E t \in S : x = e[t].ef
  BY <1>1
<1> HIDE DEF f, ends
<1>7. IsFiniteSet({ProjectStart} \cup ends)
  BY <1>2, OneIsFinite, FS_Union
<1>8. {ProjectStart} \cup ends \subseteq Int /\ {ProjectStart} \cup ends # {}
  BY <1>4 DEF ProjectStart
<1>9. LastDay(e) \in {ProjectStart} \cup ends /\ \A x \in {ProjectStart} \cup ends : x <= LastDay(e)
  BY <1>5, <1>7, <1>8, MaxOf
<1>10. QED BY <1>4, <1>6, <1>8, <1>9

LEMMA LateBound ==
  ASSUME NEW l \in Links, NEW after \in Latest, NEW length \in Int
  PROVE  LatestBy(l, after, length) \in Int
<1>1. after.ls \in Int /\ after.lf \in Int
  BY DEF Latest
<1>2. QED BY <1>1, LinkTyped DEF LatestBy

LEMMA EndsAre ==
  ASSUME NEW p, NEW day, KnownPlan(p, day), NEW e \in [LeavesOf(p) -> Spans], NEW t \in LeavesOf(p),
         NEW late, \A l \in Outgoing(p, t) : late[l.to] \in Latest
  PROVE  IsFiniteSet(Ends(p, e, late, t)) /\ Ends(p, e, late, t) \subseteq Int /\ Ends(p, e, late, t) # {}
<1> DEFINE row == p.rows[t]
           length == e[t].ef - e[t].es
           f == [l \in Outgoing(p, t) |-> LatestBy(l, late[l.to], length)]
           I == {f[l] : l \in Outgoing(p, t)}
<1>1. KnownRow(row, day) /\ length \in Int
  BY LeavesAreTasks DEF Spans
<1>2. Outgoing(p, t) \subseteq Links
  BY DEF Outgoing, KnownPlan
<1>3. IsFiniteSet(Outgoing(p, t))
  BY <1>2, LinksFinite, FS_Subset
<1>4. IsFiniteSet(I)
  <2> HIDE DEF f
  <2>1. QED BY <1>3, ImageFinite
<1>5. I = {LatestBy(l, late[l.to], length) : l \in Outgoing(p, t)}
  OBVIOUS
<1>6. I \subseteq Int
  <2>1. \A l \in Outgoing(p, t) : LatestBy(l, late[l.to], length) \in Int
    BY <1>1, <1>2, LateBound
  <2>2. QED BY <1>5, <2>1
<1>7. DueBy(row) \subseteq Int /\ IsFiniteSet(DueBy(row))
  <2>1. CASE row.constraint = "fnlt"
    <3>1. row.date \in Int
      BY <1>1, <2>1 DEF KnownRow
    <3> DEFINE due == row.date + 1
    <3>2. DueBy(row) = {due} /\ due \in Int
      BY <2>1, <3>1 DEF DueBy
    <3> HIDE DEF due
    <3>3. QED BY <3>2, OneIsFinite
  <2>2. CASE row.constraint # "fnlt"
    BY <2>2, FS_EmptySet DEF DueBy
  <2>3. QED BY <2>1, <2>2
<1>8. Ends(p, e, late, t) = {LastDay(e)} \cup DueBy(row) \cup I
  BY <1>5 DEF Ends
<1>9. LastDay(e) \in Int
  BY LastDayIs, LeavesAreTasks
<1> HIDE DEF I, row, length
<1>10. IsFiniteSet({LastDay(e)} \cup DueBy(row))
  BY <1>7, OneIsFinite, FS_Union
<1>11. IsFiniteSet({LastDay(e)} \cup DueBy(row) \cup I)
  BY <1>4, <1>10, FS_Union
<1>12. QED BY <1>6, <1>7, <1>8, <1>9, <1>11

LEMMA LateTyped ==
  ASSUME NEW p, NEW day, KnownPlan(p, day), NEW e \in [LeavesOf(p) -> Spans], NEW t \in LeavesOf(p),
         NEW late, \A l \in Outgoing(p, t) : late[l.to] \in Latest
  PROVE  LateBy(p, e, late, t) \in Latest
<1> DEFINE lf == Min(Ends(p, e, late, t))
<1>1. lf \in Int
  BY EndsAre, MinOf
<1>2. LateBy(p, e, late, t) = [ls |-> lf - (e[t].ef - e[t].es), lf |-> lf]
  BY DEF LateBy
<1>3. e[t].ef - e[t].es \in Int
  BY DEF Spans
<1> HIDE DEF lf
<1>4. QED BY <1>1, <1>2, <1>3 DEF Latest

LEMMA SameAfter ==
  ASSUME NEW p, NEW t, NEW e, NEW f, NEW g, \A l \in Outgoing(p, t) : f[l.to] = g[l.to]
  PROVE  LateBy(p, e, f, t) = LateBy(p, e, g, t)
<1>1. \A L : {LatestBy(l, f[l.to], L) : l \in Outgoing(p, t)} = {LatestBy(l, g[l.to], L) : l \in Outgoing(p, t)}
  OBVIOUS
<1>2. Ends(p, e, f, t) = Ends(p, e, g, t)
  BY <1>1 DEF Ends
<1>3. QED BY <1>2 DEF LateBy

(* The backward pass, likewise from the tasks after each. *)
BackPass(p, e, late) ==
  /\ late \in [LeavesOf(p) -> Latest]
  /\ \A t \in LeavesOf(p) : late[t] = LateBy(p, e, late, t)

(* The engine's latest dates are one. *)
LEMMA LateIsPass ==
  ASSUME NEW p, NEW day, KnownPlan(p, day), Accepts(p), NEW e \in [LeavesOf(p) -> Spans]
  PROVE  BackPass(p, e, Late(p, e))
<1> DEFINE S == LeavesOf(p)
           Before == {<<l.to, l.from>> : l \in p.links}
           F == [x \in [S -> Latest] \X S |-> LateBy(p, e, x[1], x[2])]
           v0 == [ls |-> 0, lf |-> 0]
           Obeys(late) == late = [t \in S |-> LateBy(p, e, late, t)]
<1>1. v0 \in Latest
  BY DEF Latest
<1>2. ASSUME NEW A \in SUBSET S, A # {} PROVE \E t \in A : \A l \in p.links : l.from = t => l.to \notin A
  <2>1. IsFiniteSet(S) /\ ~Loops(S, p.links)
    BY LeavesAreTasks, AcceptedLinks
  <2> HIDE DEF S
  <2>2. QED BY <1>2, <2>1, LastOf
<1>3. ASSUME NEW A \in SUBSET S, A # {} PROVE \E t \in A : \A u \in A : <<u, t>> \notin Before
  <2>1. PICK t \in A : \A l \in p.links : l.from = t => l.to \notin A
    BY <1>2, <1>3
  <2>2. QED BY <2>1
<1>4. \A t \in S : \A l \in Outgoing(p, t) : l.to \in S /\ <<l.to, t>> \in Before
  BY AcceptedLinks DEF Outgoing
<1>5. ASSUME NEW f \in [S -> Latest], NEW t \in S PROVE F[<<f, t>>] = LateBy(p, e, f, t) /\ F[<<f, t>>] \in Latest
  <2>1. <<f, t>> \in [S -> Latest] \X S /\ <<f, t>>[1] = f /\ <<f, t>>[2] = t
    OBVIOUS
  <2>2. F[<<f, t>>] = LateBy(p, e, f, t)
    BY <2>1
  <2>3. LateBy(p, e, f, t) \in Latest
    BY <1>4, LateTyped
  <2>4. QED BY <2>2, <2>3
<1>6. ASSUME NEW f \in [S -> Latest], NEW g \in [S -> Latest], NEW t \in S,
             \A u \in S : <<u, t>> \in Before => f[u] = g[u]
      PROVE  F[<<f, t>>] = F[<<g, t>>]
  <2>1. \A l \in Outgoing(p, t) : f[l.to] = g[l.to]
    BY <1>4, <1>6
  <2>2. LateBy(p, e, f, t) = LateBy(p, e, g, t)
    BY <2>1, SameAfter
  <2>3. QED BY <1>5, <2>2
<1>7. PICK f \in [S -> Latest] : \A t \in S : f[t] = F[<<f, t>>]
  <2> HIDE DEF S, Before, F
  <2>1. Founded(S, Before)
    BY <1>3 DEF Founded
  <2>2. Yields(S, Latest, F)
    BY <1>5 DEF Yields
  <2>3. Looks(S, Latest, Before, F)
    BY <1>6 DEF Looks
  <2>4. Latest # {}
    BY <1>1
  <2>5. Obeyed(S, Latest, F)
    BY <2>1, <2>2, <2>3, <2>4, RuleIsObeyed
  <2>6. QED BY <2>5 DEF Obeyed
<1>8. Obeys(f)
  <2>1. \A t \in S : f[t] = LateBy(p, e, f, t)
    <3> HIDE DEF F
    <3>1. QED BY <1>5, <1>7
  <2>2. f = [t \in S |-> f[t]]
    BY <1>7
  <2> HIDE DEF S, F
  <2>3. QED BY <2>1, <2>2
<1> DEFINE late == CHOOSE late : Obeys(late)
<1>9. Obeys(late)
  <2> HIDE DEF Obeys
  <2>1. QED BY <1>8
<1>10. Late(p, e) = late
  <2>1. DOMAIN e = S
    OBVIOUS
  <2>2. QED BY <2>1 DEF Late
<1> HIDE DEF late
<1>11. DOMAIN late = S /\ late = [t \in S |-> late[t]] /\ \A t \in S : late[t] = LateBy(p, e, late, t)
  <2> HIDE DEF S
  <2>1. QED BY <1>9
<1>12. \A t \in S : late[t] \in Latest
  <2> DEFINE A == {t \in S : late[t] \notin Latest}
  <2>1. SUFFICES ASSUME A # {} PROVE FALSE
    OBVIOUS
  <2>2. PICK t \in A : \A l \in p.links : l.from = t => l.to \notin A
    <3>1. A \in SUBSET S
      OBVIOUS
    <3> HIDE DEF S, A
    <3>2. QED BY <2>1, <3>1, <1>2
  <2>3. \A l \in Outgoing(p, t) : late[l.to] \in Latest
    BY <1>4, <2>2 DEF Outgoing
  <2>4. LateBy(p, e, late, t) \in Latest
    BY <2>3, LateTyped
  <2>5. QED BY <1>11, <2>4
<1>13. late \in [S -> Latest]
  <2> HIDE DEF S
  <2>1. QED BY <1>11, <1>12
<1>14. QED BY <1>10, <1>11, <1>13 DEF BackPass

-----------------------------------------------------------------------------
(* The two passes without their recursion. *)
(* What a pass says of a task nobody has begun, and of any other. *)
LEMMA EarlyFacts ==
  ASSUME NEW p, NEW day \in Int, KnownPlan(p, day), Accepts(p), NEW e, Pass(p, day, e), NEW t \in LeavesOf(p),
         Unstarted(p.rows[t])
  PROVE  /\ e[t].ef = e[t].es + PlannedLength(p.rows[t])
         /\ ProjectStart <= e[t].es
         /\ \A d \in HeldTo(p.rows[t]) : d <= e[t].es
         /\ \A l \in Incoming(p, t) : EarliestBy(l, e[l.from], PlannedLength(p.rows[t])) <= e[t].es
         /\ \/ e[t].es = ProjectStart
            \/ e[t].es \in HeldTo(p.rows[t])
            \/ \E l \in Incoming(p, t) : e[t].es = EarliestBy(l, e[l.from], PlannedLength(p.rows[t]))
<1> DEFINE row == p.rows[t]
           L == PlannedLength(row)
           B == Bounds(p, e, t)
           logic == Max(B)
<1>1. KnownRow(row, day) /\ L \in Nat
  BY LeavesAreTasks, LengthIs
<1>2. \A l \in Incoming(p, t) : e[l.from] \in Spans
  BY AcceptedLinks DEF Incoming, Pass
<1>3. logic \in B /\ logic \in Int /\ \A b \in B : b <= logic
  <2>1. IsFiniteSet(B) /\ B \subseteq Int /\ B # {}
    BY <1>2, BoundsAre
  <2> HIDE DEF B
  <2>2. QED BY <2>1, MaxOf
<1>4. e[t] = Progressed(row, logic, L, day)
  BY DEF Pass, EarlyBy
<1>5. B = {ProjectStart} \cup HeldTo(row) \cup {EarliestBy(l, e[l.from], L) : l \in Incoming(p, t)}
  BY DEF Bounds
<1>6. Unstarted(row)
  OBVIOUS
<1> HIDE DEF logic, B, L, row
<1>7. e[t] = [es |-> logic, ef |-> logic + L]
  BY <1>1, <1>3, <1>4, <1>6, RowPass
<1>8. e[t].es = logic /\ e[t].ef = logic + L
  BY <1>7
<1>9. QED BY <1>3, <1>5, <1>8 DEF L, row

(* A task that has begun stays where it is, whatever becomes of the tasks before it. *)
LEMMA BegunStays ==
  ASSUME NEW p, NEW day \in Int, KnownPlan(p, day), Accepts(p), NEW e, Pass(p, day, e),
         NEW q, KnownPlan(q, day), Accepts(q), NEW h, Pass(q, day, h),
         NEW t \in LeavesOf(p), t \in LeavesOf(q), p.rows[t] = q.rows[t], ~Unstarted(p.rows[t])
  PROVE  h[t] = e[t]
<1> DEFINE row == p.rows[t]
           L == PlannedLength(row)
           before == Max(Bounds(p, e, t))
           now == Max(Bounds(q, h, t))
<1>1. KnownRow(row, day) /\ L \in Nat
  BY LeavesAreTasks, LengthIs
<1>2. before \in Int
  <2>1. \A l \in Incoming(p, t) : e[l.from] \in Spans
    BY AcceptedLinks DEF Incoming, Pass
  <2>2. QED BY <2>1, BoundsAre, MaxOf
<1>3. now \in Int
  <2>1. \A l \in Incoming(q, t) : h[l.from] \in Spans
    BY AcceptedLinks DEF Incoming, Pass
  <2>2. QED BY <2>1, BoundsAre, MaxOf
<1>4. e[t] = Progressed(row, before, L, day) /\ h[t] = Progressed(row, now, L, day)
  BY DEF Pass, EarlyBy
<1>5. ~Unstarted(row)
  OBVIOUS
<1> HIDE DEF row, L, before, now
<1>6. \A other \in Int : Progressed(row, other, L, day) = Progressed(row, before, L, day)
  BY <1>1, <1>2, <1>5, RowPass
<1>7. QED BY <1>3, <1>4, <1>6

LEMMA LateFacts ==
  ASSUME NEW p, NEW day \in Int, KnownPlan(p, day), Accepts(p), NEW e \in [LeavesOf(p) -> Spans],
         NEW late, BackPass(p, e, late), NEW t \in LeavesOf(p)
  PROVE  /\ late[t].ls = late[t].lf - (e[t].ef - e[t].es)
         /\ late[t].lf <= LastDay(e)
         /\ \A d \in DueBy(p.rows[t]) : late[t].lf <= d
         /\ \A l \in Outgoing(p, t) : late[t].lf <= LatestBy(l, late[l.to], e[t].ef - e[t].es)
         /\ \/ late[t].lf = LastDay(e)
            \/ late[t].lf \in DueBy(p.rows[t])
            \/ \E l \in Outgoing(p, t) : late[t].lf = LatestBy(l, late[l.to], e[t].ef - e[t].es)
<1> DEFINE B == Ends(p, e, late, t)
           lf == Min(B)
<1>1. \A l \in Outgoing(p, t) : late[l.to] \in Latest
  BY AcceptedLinks DEF Outgoing, BackPass
<1>2. lf \in B /\ \A b \in B : lf <= b
  <2>1. IsFiniteSet(B) /\ B \subseteq Int /\ B # {}
    BY <1>1, EndsAre
  <2> HIDE DEF B
  <2>2. QED BY <2>1, MinOf
<1>3. late[t] = [ls |-> lf - (e[t].ef - e[t].es), lf |-> lf]
  BY DEF BackPass, LateBy
<1>4. B = {LastDay(e)} \cup DueBy(p.rows[t]) \cup {LatestBy(l, late[l.to], e[t].ef - e[t].es) : l \in Outgoing(p, t)}
  BY DEF Ends
<1> HIDE DEF lf, B
<1>5. late[t].lf = lf /\ late[t].ls = lf - (e[t].ef - e[t].es)
  BY <1>3
<1>6. QED BY <1>2, <1>4, <1>5

-----------------------------------------------------------------------------
(* One task is held back. *)
HeldBack(p, q, t, first) ==
  /\ LeavesOf(q) = LeavesOf(p) /\ q.links = p.links /\ t \in LeavesOf(p)
  /\ \A u \in LeavesOf(p) \ {t} : q.rows[u] = p.rows[u]
  /\ Unstarted(p.rows[t]) /\ Unstarted(q.rows[t])
  /\ PlannedLength(q.rows[t]) = PlannedLength(p.rows[t])
  /\ HeldTo(q.rows[t]) = {first}

Compared(p, q, day, e, h) ==
  /\ day \in Int
  /\ KnownPlan(p, day) /\ Accepts(p) /\ Pass(p, day, e)
  /\ KnownPlan(q, day) /\ Accepts(q) /\ Pass(q, day, h)

LEMMA ComparedTyped ==
  ASSUME NEW p, NEW q, NEW day, NEW e, NEW h, Compared(p, q, day, e, h), NEW t, NEW first, HeldBack(p, q, t, first)
  PROVE  /\ \A u \in LeavesOf(p) : /\ e[u].es \in Int /\ e[u].ef \in Int /\ h[u].es \in Int /\ h[u].ef \in Int
                                   /\ PlannedLength(p.rows[u]) \in Nat
         /\ e \in [LeavesOf(p) -> Spans] /\ h \in [LeavesOf(p) -> Spans]
         /\ LastDay(e) \in Int /\ LastDay(h) \in Int
         /\ ~Loops(LeavesOf(p), p.links)
         /\ \A l \in p.links : l \in Links /\ l.from \in LeavesOf(p) /\ l.to \in LeavesOf(p) /\ l.from # l.to
<1>1. e \in [LeavesOf(p) -> Spans] /\ h \in [LeavesOf(p) -> Spans]
  BY DEF Compared, Pass, HeldBack
<1>2. \A u \in LeavesOf(p) : e[u].es \in Int /\ e[u].ef \in Int /\ h[u].es \in Int /\ h[u].ef \in Int
  BY <1>1 DEF Spans
<1>3. \A u \in LeavesOf(p) : PlannedLength(p.rows[u]) \in Nat
  BY LeavesAreTasks, LengthIs DEF Compared
<1>4. LastDay(e) \in Int /\ LastDay(h) \in Int
  BY <1>1, LastDayIs, LeavesAreTasks DEF Compared
<1>5. QED BY <1>1, <1>2, <1>3, <1>4, AcceptedLinks DEF Compared

(* Later before, later after. *)
LEMMA LaterBefore ==
  ASSUME NEW l \in Links, NEW a, NEW b, a.es \in Int, a.ef \in Int, b.es \in Int, b.ef \in Int,
         a.es <= b.es, a.ef <= b.ef, NEW L \in Nat
  PROVE  EarliestBy(l, a, L) \in Int /\ EarliestBy(l, b, L) \in Int /\ EarliestBy(l, a, L) <= EarliestBy(l, b, L)
BY LinkTyped DEF EarliestBy

(* Nothing comes earlier for it. *)
LEMMA NothingEarlier ==
  ASSUME NEW p, NEW q, NEW day, NEW e, NEW h, Compared(p, q, day, e, h),
         NEW t, NEW first \in Int, HeldBack(p, q, t, first), e[t].es <= first
  PROVE  \A u \in LeavesOf(p) : e[u].es <= h[u].es /\ e[u].ef <= h[u].ef
<1> DEFINE S == LeavesOf(p)
           A == {u \in S : ~(e[u].es <= h[u].es /\ e[u].ef <= h[u].ef)}
<1>1. SUFFICES ASSUME A # {} PROVE FALSE
  OBVIOUS
<1>2. PICK u \in A : \A l \in p.links : l.to = u => l.from \notin A
  <2>1. A \in SUBSET S /\ ~Loops(S, p.links)
    BY ComparedTyped
  <2> HIDE DEF S, A
  <2>2. \A B \in SUBSET S : B # {} => \E u \in B : \A l \in p.links : l.to = u => l.from \notin B
    BY <2>1, FirstOf
  <2>3. QED BY <1>1, <2>1, <2>2
<1> DEFINE row == p.rows[u]
           L == PlannedLength(row)
<1>3. u \in S /\ u \in LeavesOf(q) /\ ~(e[u].es <= h[u].es /\ e[u].ef <= h[u].ef) /\ L \in Nat
  BY ComparedTyped DEF HeldBack
<1>4. ASSUME NEW l \in Incoming(p, u)
      PROVE  /\ EarliestBy(l, e[l.from], L) \in Int /\ EarliestBy(l, h[l.from], L) \in Int
             /\ EarliestBy(l, e[l.from], L) <= EarliestBy(l, h[l.from], L)
  <2>1. l \in Links /\ l.from \in S /\ l.from \notin A
    BY <1>2, ComparedTyped DEF Incoming
  <2>2. e[l.from].es <= h[l.from].es /\ e[l.from].ef <= h[l.from].ef
    BY <2>1
  <2>3. QED BY <1>3, <2>1, <2>2, ComparedTyped, LaterBefore
<1>5. Unstarted(row)
  <2>1. SUFFICES ASSUME ~Unstarted(row) PROVE FALSE
    OBVIOUS
  <2>2. u # t /\ q.rows[u] = row
    BY <1>3, <2>1 DEF HeldBack
  <2>3. h[u] = e[u]
    BY <1>3, <2>1, <2>2, BegunStays DEF Compared
  <2>4. QED BY <1>3, <2>3, ComparedTyped
<1>6. Unstarted(q.rows[u]) /\ PlannedLength(q.rows[u]) = L /\ Incoming(q, u) = Incoming(p, u)
  <2>1. CASE u = t
    BY <2>1 DEF HeldBack, Incoming
  <2>2. CASE u # t
    BY <1>3, <1>5, <2>2 DEF HeldBack, Incoming
  <2>3. QED BY <2>1, <2>2
<1>7. /\ e[u].ef = e[u].es + L
      /\ \/ e[u].es = ProjectStart
         \/ e[u].es \in HeldTo(row)
         \/ \E l \in Incoming(p, u) : e[u].es = EarliestBy(l, e[l.from], L)
  BY <1>3, <1>5, EarlyFacts DEF Compared
<1>8. /\ h[u].ef = h[u].es + L
      /\ ProjectStart <= h[u].es
      /\ \A d \in HeldTo(q.rows[u]) : d <= h[u].es
      /\ \A l \in Incoming(p, u) : EarliestBy(l, h[l.from], L) <= h[u].es
  BY <1>3, <1>6, EarlyFacts DEF Compared
<1>9. e[u].es \in Int /\ h[u].es \in Int
  BY <1>3, ComparedTyped
<1>10. u = t => first <= h[u].es
  BY <1>8 DEF HeldBack
<1>11. u # t => HeldTo(q.rows[u]) = HeldTo(row)
  BY <1>3 DEF HeldBack
<1>12. e[u].es <= h[u].es
  <2>1. CASE u = t
    BY <1>9, <1>10, <2>1
  <2>2. CASE u # t
    <3>1. CASE e[u].es = ProjectStart
      BY <1>8, <3>1
    <3>2. CASE e[u].es \in HeldTo(row)
      BY <1>8, <1>11, <2>2, <3>2
    <3>3. ASSUME NEW l \in Incoming(p, u), e[u].es = EarliestBy(l, e[l.from], L) PROVE e[u].es <= h[u].es
      <4>1. EarliestBy(l, h[l.from], L) <= h[u].es
        BY <1>8
      <4> HIDE DEF L, row
      <4>2. QED BY <1>4, <1>9, <3>3, <4>1
    <3>4. QED BY <1>7, <3>1, <3>2, <3>3
  <2>3. QED BY <2>1, <2>2
<1> HIDE DEF L, A, S, row
<1>13. e[u].ef <= h[u].ef
  BY <1>3, <1>7, <1>8, <1>9, <1>12
<1>14. QED BY <1>3, <1>12, <1>13

(* A link's bound on where a task is now, by where it was and where it may be at the latest. *)
LEMMA NoLaterThanLatest ==
  ASSUME NEW l \in Links, NEW e, NEW h, NEW late, NEW after, NEW L \in Nat, NEW es \in Int,
         e.es \in Int, e.ef \in Int, h.es \in Int, h.ef \in Int, late \in Latest, after \in Latest,
         late.ls = late.lf - (e.ef - e.es),
         late.lf <= LatestBy(l, after, e.ef - e.es),
         after.ls = after.lf - L,
         EarliestBy(l, e, L) <= es,
         h.es <= e.es \/ h.es <= late.ls,
         h.ef <= e.ef \/ h.ef <= late.lf
  PROVE  EarliestBy(l, h, L) <= es \/ EarliestBy(l, h, L) <= after.ls
<1>1. late.ls \in Int /\ late.lf \in Int /\ after.ls \in Int /\ after.lf \in Int
  BY DEF Latest
<1>2. l.lag \in Int /\ l.type \in {"FS", "SS", "FF", "SF"}
  BY LinkTyped
<1>3. CASE l.type = "FS"
  BY <1>1, <1>2, <1>3 DEF EarliestBy, LatestBy
<1>4. CASE l.type = "SS"
  BY <1>1, <1>2, <1>4 DEF EarliestBy, LatestBy
<1>5. CASE l.type = "FF"
  BY <1>1, <1>2, <1>5 DEF EarliestBy, LatestBy
<1>6. CASE l.type = "SF"
  BY <1>1, <1>2, <1>6 DEF EarliestBy, LatestBy
<1>7. QED BY <1>2, <1>3, <1>4, <1>5, <1>6

LEMMA SameRows ==
  ASSUME NEW p, NEW q, NEW t, NEW first, HeldBack(p, q, t, first), NEW u \in LeavesOf(p), Unstarted(p.rows[u])
  PROVE  /\ u \in LeavesOf(q) /\ Unstarted(q.rows[u])
         /\ PlannedLength(q.rows[u]) = PlannedLength(p.rows[u])
         /\ Incoming(q, u) = Incoming(p, u)
         /\ u # t => HeldTo(q.rows[u]) = HeldTo(p.rows[u])
         /\ u = t => HeldTo(q.rows[u]) = {first}
<1>1. CASE u = t
  BY <1>1 DEF HeldBack, Incoming
<1>2. CASE u # t
  BY <1>2 DEF HeldBack, Incoming
<1>3. QED BY <1>1, <1>2

(* Held back to its latest start, a task drives none past its own latest dates, unless it was there already. *)
LEMMA NothingPastLatest ==
  ASSUME NEW p, NEW q, NEW day, NEW e, NEW h, Compared(p, q, day, e, h), NEW late, BackPass(p, e, late),
         NEW t, NEW first \in Int, HeldBack(p, q, t, first), first = late[t].ls
  PROVE  \A u \in LeavesOf(p) : /\ h[u].es <= e[u].es \/ h[u].es <= late[u].ls
                                /\ h[u].ef <= e[u].ef \/ h[u].ef <= late[u].lf
<1> DEFINE S == LeavesOf(p)
           Fits(u) == /\ h[u].es <= e[u].es \/ h[u].es <= late[u].ls
                      /\ h[u].ef <= e[u].ef \/ h[u].ef <= late[u].lf
           A == {u \in S : ~Fits(u)}
<1>1. SUFFICES ASSUME A # {} PROVE FALSE
  OBVIOUS
<1>2. PICK u \in A : \A l \in p.links : l.to = u => l.from \notin A
  <2>1. A \in SUBSET S /\ ~Loops(S, p.links)
    BY ComparedTyped
  <2> HIDE DEF S, A
  <2>2. \A B \in SUBSET S : B # {} => \E u \in B : \A l \in p.links : l.to = u => l.from \notin B
    BY <2>1, FirstOf
  <2>3. QED BY <1>1, <2>1, <2>2
<1> DEFINE row == p.rows[u]
           L == PlannedLength(row)
<1>3. u \in S /\ u \in LeavesOf(q) /\ ~Fits(u) /\ L \in Nat
  BY ComparedTyped DEF HeldBack
<1>4. \A v \in S : /\ e[v].es \in Int /\ e[v].ef \in Int /\ h[v].es \in Int /\ h[v].ef \in Int
                   /\ late[v] \in Latest /\ late[v].ls \in Int /\ late[v].lf \in Int
  <2>1. \A v \in S : late[v] \in Latest
    BY DEF BackPass
  <2>2. QED BY <2>1, ComparedTyped DEF Latest
<1>5. Unstarted(row)
  <2>1. SUFFICES ASSUME ~Unstarted(row) PROVE FALSE
    OBVIOUS
  <2>2. u # t /\ q.rows[u] = row
    BY <1>3, <2>1 DEF HeldBack
  <2>3. h[u] = e[u]
    BY <1>3, <2>1, <2>2, BegunStays DEF Compared
  <2>4. QED BY <1>3, <1>4, <2>3
<1>6. /\ Unstarted(q.rows[u]) /\ PlannedLength(q.rows[u]) = L /\ Incoming(q, u) = Incoming(p, u)
      /\ u # t => HeldTo(q.rows[u]) = HeldTo(row)
      /\ u = t => HeldTo(q.rows[u]) = {first}
  BY <1>3, <1>5, SameRows
<1>7. /\ e[u].ef = e[u].es + L
      /\ ProjectStart <= e[u].es
      /\ \A d \in HeldTo(row) : d <= e[u].es
      /\ \A l \in Incoming(p, u) : EarliestBy(l, e[l.from], L) <= e[u].es
  BY <1>3, <1>5, EarlyFacts DEF Compared
<1>8. /\ h[u].ef = h[u].es + L
      /\ \/ h[u].es = ProjectStart
         \/ h[u].es \in HeldTo(q.rows[u])
         \/ \E l \in Incoming(p, u) : h[u].es = EarliestBy(l, h[l.from], L)
  BY <1>3, <1>6, EarlyFacts DEF Compared
<1>9. e \in [LeavesOf(p) -> Spans] /\ KnownPlan(p, day) /\ Accepts(p) /\ day \in Int
  BY DEF Compared, Pass
<1>10. late[u].ls = late[u].lf - L
  <2>1. late[u].ls = late[u].lf - (e[u].ef - e[u].es)
    BY <1>3, <1>9, LateFacts
  <2> HIDE DEF L, Fits, row
  <2>2. e[u].ef - e[u].es = L
    BY <1>3, <1>4, <1>7
  <2>3. QED BY <2>1, <2>2
<1>11. h[u].es <= e[u].es \/ h[u].es <= late[u].ls
  <2>1. CASE h[u].es = ProjectStart
    BY <1>7, <2>1
  <2>2. CASE h[u].es \in HeldTo(q.rows[u]) /\ u # t
    BY <1>6, <1>7, <2>2
  <2>3. CASE h[u].es \in HeldTo(q.rows[u]) /\ u = t
    BY <1>3, <1>4, <1>6, <2>3
  <2>4. ASSUME NEW l \in Incoming(p, u), h[u].es = EarliestBy(l, h[l.from], L)
        PROVE  h[u].es <= e[u].es \/ h[u].es <= late[u].ls
    <3> DEFINE v == l.from
    <3>1. l \in Links /\ l \in p.links /\ l.to = u /\ v \in S /\ v \notin A
      BY <1>2, ComparedTyped DEF Incoming
    <3>2. Fits(v)
      BY <3>1
    <3>3. /\ late[v].ls = late[v].lf - (e[v].ef - e[v].es)
          /\ late[v].lf <= LatestBy(l, late[u], e[v].ef - e[v].es)
      <4>1. l \in Outgoing(p, v)
        BY <3>1 DEF Outgoing
      <4>2. QED BY <1>9, <3>1, <4>1, LateFacts
    <3>4. EarliestBy(l, e[v], L) <= e[u].es
      BY <1>7
    <3>5. /\ e[v].es \in Int /\ e[v].ef \in Int /\ h[v].es \in Int /\ h[v].ef \in Int
          /\ late[v] \in Latest /\ late[u] \in Latest /\ e[u].es \in Int
      BY <1>3, <1>4, <3>1
    <3>6. /\ h[v].es <= e[v].es \/ h[v].es <= late[v].ls
          /\ h[v].ef <= e[v].ef \/ h[v].ef <= late[v].lf
      BY <3>2
    <3>7. h[u].es = EarliestBy(l, h[v], L)
      BY <2>4
    <3> HIDE DEF v, L, row, Fits, S, A
    <3>8. EarliestBy(l, h[v], L) <= e[u].es \/ EarliestBy(l, h[v], L) <= late[u].ls
      BY <1>3, <1>10, <3>1, <3>3, <3>4, <3>5, <3>6, NoLaterThanLatest
    <3>9. QED BY <3>7, <3>8
  <2>5. QED BY <1>8, <2>1, <2>2, <2>3, <2>4
<1>12. /\ h[u].es \in Int /\ e[u].es \in Int /\ late[u].ls \in Int /\ late[u].lf \in Int
       /\ e[u].ef \in Int /\ h[u].ef \in Int
  BY <1>3, <1>4
<1>13. ~(/\ h[u].es <= e[u].es \/ h[u].es <= late[u].ls
         /\ h[u].ef <= e[u].ef \/ h[u].ef <= late[u].lf)
  BY <1>3
<1> HIDE DEF Fits, L, row, A, S
<1>14. QED BY <1>3, <1>7, <1>8, <1>10, <1>11, <1>12, <1>13

(* Total float moves the end of the job not at all. *)
LEMMA SlackIsSafe ==
  ASSUME NEW p, NEW q, NEW day, NEW e, NEW h, Compared(p, q, day, e, h), NEW late, BackPass(p, e, late),
         NEW t, NEW first \in Int, HeldBack(p, q, t, first), first = late[t].ls, e[t].es <= first
  PROVE  LastDay(h) = LastDay(e)
<1> DEFINE S == LeavesOf(p)
<1>1. KnownPlan(p, day) /\ Accepts(p) /\ day \in Int /\ IsFiniteSet(S)
  BY LeavesAreTasks DEF Compared
<1>2. e \in [S -> Spans] /\ h \in [S -> Spans] /\ LastDay(e) \in Int /\ LastDay(h) \in Int
  BY ComparedTyped
<1>3. \A u \in S : /\ e[u].ef \in Int /\ h[u].ef \in Int /\ late[u].lf \in Int
                   /\ e[u].ef <= h[u].ef
                   /\ h[u].ef <= e[u].ef \/ h[u].ef <= late[u].lf
                   /\ late[u].lf <= LastDay(e)
  <2>1. \A u \in S : late[u].lf \in Int
    BY DEF BackPass, Latest
  <2>2. \A u \in S : e[u].ef <= h[u].ef
    BY NothingEarlier
  <2>3. \A u \in S : h[u].ef <= e[u].ef \/ h[u].ef <= late[u].lf
    BY NothingPastLatest
  <2>4. \A u \in S : late[u].lf <= LastDay(e)
    BY <1>1, <1>2, LateFacts
  <2>5. QED BY <2>1, <2>2, <2>3, <2>4, ComparedTyped
<1>4. /\ ProjectStart <= LastDay(e) /\ \A u \in S : e[u].ef <= LastDay(e)
      /\ LastDay(e) = ProjectStart \/ \E u \in S : LastDay(e) = e[u].ef
  <2> HIDE DEF S
  <2>1. QED BY <1>1, <1>2, LastDayIs
<1>5. /\ ProjectStart <= LastDay(h) /\ \A u \in S : h[u].ef <= LastDay(h)
      /\ LastDay(h) = ProjectStart \/ \E u \in S : LastDay(h) = h[u].ef
  <2> HIDE DEF S
  <2>1. QED BY <1>1, <1>2, LastDayIs
<1> HIDE DEF S
<1>6. LastDay(e) <= LastDay(h)
  BY <1>2, <1>3, <1>4, <1>5
<1>7. LastDay(h) <= LastDay(e)
  BY <1>2, <1>3, <1>4, <1>5
<1>8. QED BY <1>2, <1>6, <1>7

(* The task that drives another past its latest start is past its own. *)
LEMMA DrivenPast ==
  ASSUME NEW l \in Links, NEW h, NEW late, NEW next, NEW after, NEW L \in Nat, NEW own \in Nat,
         h.es \in Int, h.ef \in Int, next.es \in Int, late \in Latest, after \in Latest,
         h.ef = h.es + own, late.ls = late.lf - own, after.ls = after.lf - L,
         late.lf = LatestBy(l, after, own),
         EarliestBy(l, h, L) <= next.es,
         late.ls < h.es
  PROVE  after.ls < next.es
<1>1. late.ls \in Int /\ late.lf \in Int /\ after.ls \in Int /\ after.lf \in Int
  BY DEF Latest
<1>2. l.lag \in Int /\ l.type \in {"FS", "SS", "FF", "SF"}
  BY LinkTyped
<1>3. CASE l.type = "FS"
  BY <1>1, <1>2, <1>3 DEF EarliestBy, LatestBy
<1>4. CASE l.type = "SS"
  BY <1>1, <1>2, <1>4 DEF EarliestBy, LatestBy
<1>5. CASE l.type = "FF"
  BY <1>1, <1>2, <1>5 DEF EarliestBy, LatestBy
<1>6. CASE l.type = "SF"
  BY <1>1, <1>2, <1>6 DEF EarliestBy, LatestBy
<1>7. QED BY <1>2, <1>3, <1>4, <1>5, <1>6

(* While nothing has begun and nothing is due, a task past its latest start moves the end. *)
LEMMA OneDayMore ==
  ASSUME NEW p, NEW q, NEW day, NEW e, NEW h, Compared(p, q, day, e, h), NEW late, BackPass(p, e, late),
         NEW t, NEW first \in Int, HeldBack(p, q, t, first), late[t].ls < first,
         \A u \in LeavesOf(p) : Unstarted(p.rows[u]) /\ DueBy(p.rows[u]) = {}
  PROVE  LastDay(e) < LastDay(h)
<1> DEFINE S == LeavesOf(p)
           A == {u \in S : late[u].ls < h[u].es}
           L(u) == PlannedLength(p.rows[u])
<1>1. KnownPlan(p, day) /\ Accepts(p) /\ day \in Int /\ IsFiniteSet(S)
  BY LeavesAreTasks DEF Compared
<1>2. e \in [S -> Spans] /\ h \in [S -> Spans] /\ LastDay(e) \in Int /\ LastDay(h) \in Int
  BY ComparedTyped
<1>3. \A v \in S : /\ e[v].es \in Int /\ e[v].ef \in Int /\ h[v].es \in Int /\ h[v].ef \in Int
                   /\ late[v] \in Latest /\ late[v].ls \in Int /\ late[v].lf \in Int /\ L(v) \in Nat
  <2>1. \A v \in S : late[v] \in Latest
    BY DEF BackPass
  <2>2. QED BY <2>1, ComparedTyped DEF Latest
<1>4. ASSUME NEW u \in S
      PROVE  /\ e[u].ef = e[u].es + L(u) /\ h[u].ef = h[u].es + L(u)
             /\ \A d \in HeldTo(q.rows[u]) : d <= h[u].es
             /\ \A l \in Incoming(p, u) : EarliestBy(l, h[l.from], L(u)) <= h[u].es
  <2>1. e[u].ef = e[u].es + L(u)
    BY EarlyFacts DEF Compared
  <2>2. Unstarted(q.rows[u]) /\ PlannedLength(q.rows[u]) = L(u) /\ Incoming(q, u) = Incoming(p, u) /\ u \in LeavesOf(q)
    BY SameRows
  <2>3. /\ h[u].ef = h[u].es + L(u)
        /\ \A d \in HeldTo(q.rows[u]) : d <= h[u].es
        /\ \A l \in Incoming(p, u) : EarliestBy(l, h[l.from], L(u)) <= h[u].es
    BY <2>2, EarlyFacts DEF Compared
  <2>4. QED BY <2>1, <2>3
<1>5. t \in A
  <2>1. t \in S /\ HeldTo(q.rows[t]) = {first}
    BY DEF HeldBack
  <2>2. first <= h[t].es
    BY <1>4, <2>1
  <2>3. late[t].ls < h[t].es
    BY <1>3, <2>1, <2>2
  <2>4. QED BY <2>1, <2>3
<1>6. PICK u \in A : \A l \in p.links : l.from = u => l.to \notin A
  <2>1. A \in SUBSET S /\ ~Loops(S, p.links) /\ A # {}
    BY <1>5, ComparedTyped
  <2> HIDE DEF S, A
  <2>2. QED BY <1>1, <2>1, LastOf
<1>7. u \in S /\ late[u].ls < h[u].es
  BY <1>6
<1>8. ASSUME NEW v \in S PROVE late[v].ls = late[v].lf - L(v)
  <2>1. late[v].ls = late[v].lf - (e[v].ef - e[v].es)
    BY <1>1, <1>2, LateFacts
  <2>2. e[v].ef = e[v].es + L(v) /\ e[v].ef \in Int /\ e[v].es \in Int /\ L(v) \in Nat
    BY <1>3, <1>4
  <2> HIDE DEF L
  <2>3. e[v].ef - e[v].es = L(v)
    BY <2>2
  <2>4. QED BY <2>1, <2>3
<1>9. \/ late[u].lf = LastDay(e)
      \/ \E l \in Outgoing(p, u) : late[u].lf = LatestBy(l, late[l.to], e[u].ef - e[u].es)
  <2>1. DueBy(p.rows[u]) = {}
    BY <1>7
  <2>2. QED BY <1>1, <1>2, <1>7, <2>1, LateFacts
<1>10. CASE late[u].lf = LastDay(e)
  <2>1. h[u].ef <= LastDay(h)
    BY <1>1, <1>2, <1>7, LastDayIs
  <2>2. late[u].ls = late[u].lf - L(u) /\ h[u].ef = h[u].es + L(u)
    BY <1>4, <1>7, <1>8
  <2>3. late[u].lf \in Int /\ late[u].ls \in Int /\ h[u].es \in Int /\ h[u].ef \in Int /\ L(u) \in Nat
    BY <1>3, <1>7
  <2> HIDE DEF L, S, A
  <2>4. QED BY <1>2, <1>7, <1>10, <2>1, <2>2, <2>3
<1>11. ASSUME NEW l \in Outgoing(p, u), late[u].lf = LatestBy(l, late[l.to], e[u].ef - e[u].es) PROVE FALSE
  <2> DEFINE v == l.to
  <2>1. l \in Links /\ l \in p.links /\ l.from = u /\ v \in S /\ v \notin A /\ l \in Incoming(p, v)
    BY <1>6, ComparedTyped DEF Outgoing, Incoming
  <2>2. EarliestBy(l, h[u], L(v)) <= h[v].es
    BY <1>4, <2>1
  <2>3. late[u].ls = late[u].lf - L(u) /\ late[v].ls = late[v].lf - L(v) /\ h[u].ef = h[u].es + L(u)
    BY <1>4, <1>7, <1>8, <2>1
  <2>4. e[u].ef - e[u].es = L(u)
    <3>1. e[u].ef = e[u].es + L(u) /\ e[u].ef \in Int /\ e[u].es \in Int /\ L(u) \in Nat
      BY <1>3, <1>4, <1>7
    <3> HIDE DEF L
    <3>2. QED BY <3>1
  <2>5. late[u].lf = LatestBy(l, late[v], L(u))
    BY <1>11, <2>4
  <2>6. /\ h[u].es \in Int /\ h[u].ef \in Int /\ h[v].es \in Int /\ late[u] \in Latest /\ late[v] \in Latest
        /\ L(u) \in Nat /\ L(v) \in Nat
    BY <1>3, <1>7, <2>1
  <2>7. ~(late[v].ls < h[v].es)
    BY <2>1
  <2> HIDE DEF v, L, S, A
  <2>8. QED BY <1>7, <2>1, <2>2, <2>3, <2>5, <2>6, <2>7, DrivenPast
<1>12. QED BY <1>9, <1>10, <1>11

-----------------------------------------------------------------------------
(* Free float. *)

(* A link that leaves so much room moves nothing when its first task moves by no more. *)
LEMMA RoomIsEnough ==
  ASSUME NEW l \in Links, NEW e, NEW h, NEW L \in Nat, NEW days \in Int,
         e[l.from].es \in Int, e[l.from].ef \in Int, e[l.to].es \in Int, e[l.to].ef = e[l.to].es + L,
         h.es = e[l.from].es + days, h.ef = e[l.from].ef + days
  PROVE  Slack(l, e) \in Int /\ (EarliestBy(l, h, L) <= e[l.to].es <=> days <= Slack(l, e))
<1> DEFINE own == e[l.from]
           after == e[l.to]
<1>1. l.lag \in Int /\ l.type \in {"FS", "SS", "FF", "SF"}
  BY LinkTyped
<1>2. /\ own.es \in Int /\ own.ef \in Int /\ after.es \in Int /\ after.ef = after.es + L
      /\ h.es = own.es + days /\ h.ef = own.ef + days
  OBVIOUS
<1>3. Slack(l, e) = CASE l.type = "FS" -> after.es - l.lag - own.ef
       [] l.type = "SS" -> after.es - l.lag - own.es
       [] l.type = "FF" -> after.ef - l.lag - own.ef
       [] l.type = "SF" -> after.ef - l.lag - own.es
  BY DEF Slack
<1> HIDE DEF own, after
<1>4. Slack(l, e) \in Int /\ (EarliestBy(l, h, L) <= after.es <=> days <= Slack(l, e))
  <2>1. CASE l.type = "FS"
    BY <1>1, <1>2, <1>3, <2>1 DEF EarliestBy
  <2>2. CASE l.type = "SS"
    BY <1>1, <1>2, <1>3, <2>2 DEF EarliestBy
  <2>3. CASE l.type = "FF"
    BY <1>1, <1>2, <1>3, <2>3 DEF EarliestBy
  <2>4. CASE l.type = "SF"
    BY <1>1, <1>2, <1>3, <2>4 DEF EarliestBy
  <2>5. QED BY <1>1, <2>1, <2>2, <2>3, <2>4
<1>5. QED BY <1>4 DEF after

LEMMA SlackTyped ==
  ASSUME NEW l \in Links, NEW e, e[l.from].es \in Int, e[l.from].ef \in Int, e[l.to].es \in Int, e[l.to].ef \in Int
  PROVE  Slack(l, e) \in Int
<1>1. l.lag \in Int /\ l.type \in {"FS", "SS", "FF", "SF"}
  BY LinkTyped
<1>2. QED BY <1>1 DEF Slack

LEMMA FreeFacts ==
  ASSUME NEW p, NEW day, KnownPlan(p, day), Accepts(p), NEW e \in [LeavesOf(p) -> Spans], NEW t \in LeavesOf(p),
         NEW free, free = FreeFloat(p, e, t)
  PROVE  /\ free \in Int /\ 0 <= free
         /\ free = 0 \/ (free <= LastDay(e) - e[t].ef /\ \A l \in Outgoing(p, t) : free <= Slack(l, e))
         /\ LastDay(e) - e[t].ef <= free \/ \E l \in Outgoing(p, t) : Slack(l, e) <= free
<1> DEFINE f == [l \in Outgoing(p, t) |-> Slack(l, e)]
           I == {f[l] : l \in Outgoing(p, t)}
           room == LastDay(e) - e[t].ef
           M == {room} \cup I
           least == Min(M)
<1>1. Outgoing(p, t) \subseteq Links
  BY DEF Outgoing, KnownPlan
<1>2. IsFiniteSet(I)
  <2>1. IsFiniteSet(Outgoing(p, t))
    BY <1>1, LinksFinite, FS_Subset
  <2> HIDE DEF f
  <2>2. QED BY <2>1, ImageFinite
<1>3. I = {Slack(l, e) : l \in Outgoing(p, t)}
  OBVIOUS
<1>4. I \subseteq Int
  <2>1. ASSUME NEW l \in Outgoing(p, t) PROVE Slack(l, e) \in Int
    <3>1. l.from \in LeavesOf(p) /\ l.to \in LeavesOf(p) /\ l \in Links
      BY AcceptedLinks DEF Outgoing
    <3>2. e[l.from].es \in Int /\ e[l.from].ef \in Int /\ e[l.to].es \in Int /\ e[l.to].ef \in Int
      BY <3>1 DEF Spans
    <3>3. QED BY <3>1, <3>2, SlackTyped
  <2>2. QED BY <1>3, <2>1
<1>5. room \in Int
  <2>1. LastDay(e) \in Int /\ e[t].ef \in Int
    BY LastDayIs, LeavesAreTasks DEF Spans
  <2>2. QED BY <2>1
<1>6. least \in Int /\ least \in M /\ \A x \in M : least <= x
  <2> HIDE DEF I, room
  <2>1. IsFiniteSet(M)
    BY <1>2, OneIsFinite, FS_Union
  <2>2. M \subseteq Int /\ M # {}
    BY <1>4, <1>5
  <2> HIDE DEF M
  <2>3. QED BY <2>1, <2>2, MinOf
<1>7. free = Max({0, least})
  BY <1>3 DEF FreeFloat
<1>8. M = {room} \cup {Slack(l, e) : l \in Outgoing(p, t)}
  BY <1>3
<1> HIDE DEF least, M, I, f
<1>9. IsFiniteSet({0, least})
  <2>1. IsFiniteSet({0} \cup {least}) /\ {0, least} = {0} \cup {least}
    BY OneIsFinite, FS_Union
  <2>2. QED BY <2>1
<1>10. free \in {0, least} /\ free \in Int /\ 0 <= free /\ least <= free
  <2>1. {0, least} \subseteq Int /\ {0, least} # {}
    BY <1>6
  <2>2. QED BY <1>7, <1>9, <2>1, MaxOf
<1>11. free = 0 \/ (free <= room /\ \A l \in Outgoing(p, t) : free <= Slack(l, e))
  BY <1>6, <1>8, <1>10
<1>12. room <= free \/ \E l \in Outgoing(p, t) : Slack(l, e) <= free
  BY <1>6, <1>8, <1>10
<1>13. QED BY <1>10, <1>11, <1>12

(* Held back by its free float, a task moves no other. *)
LEMMA FreeIsFree ==
  ASSUME NEW p, NEW q, NEW day, NEW e, NEW h, Compared(p, q, day, e, h),
         NEW t, NEW free, free = FreeFloat(p, e, t), NEW first \in Int, first = e[t].es + free, HeldBack(p, q, t, first)
  PROVE  \A u \in LeavesOf(p) : /\ h[u].es = e[u].es + (IF u = t THEN free ELSE 0)
                                /\ h[u].ef = e[u].ef + (IF u = t THEN free ELSE 0)
<1> DEFINE S == LeavesOf(p)
           Moved(u) == IF u = t THEN free ELSE 0
           Fits(u) == h[u].es = e[u].es + Moved(u) /\ h[u].ef = e[u].ef + Moved(u)
           A == {u \in S : ~Fits(u)}
<1>1. KnownPlan(p, day) /\ Accepts(p) /\ day \in Int /\ t \in S /\ e \in [S -> Spans]
  BY DEF Compared, Pass, HeldBack
<1>2. /\ free \in Int /\ 0 <= free
      /\ free = 0 \/ (free <= LastDay(e) - e[t].ef /\ \A l \in Outgoing(p, t) : free <= Slack(l, e))
  BY <1>1, FreeFacts
<1>3. SUFFICES ASSUME A # {} PROVE FALSE
  OBVIOUS
<1>4. PICK u \in A : \A l \in p.links : l.to = u => l.from \notin A
  <2>1. A \in SUBSET S /\ ~Loops(S, p.links)
    BY ComparedTyped
  <2> HIDE DEF S, A
  <2>2. \A B \in SUBSET S : B # {} => \E u \in B : \A l \in p.links : l.to = u => l.from \notin B
    BY <2>1, FirstOf
  <2>3. QED BY <1>3, <2>1, <2>2
<1> DEFINE row == p.rows[u]
           L == PlannedLength(row)
<1>5. u \in S /\ ~Fits(u) /\ L \in Nat
  BY ComparedTyped
<1>6. \A v \in S : e[v].es \in Int /\ e[v].ef \in Int /\ h[v].es \in Int /\ h[v].ef \in Int
  BY ComparedTyped
<1>7. e[u].es <= h[u].es
  <2>1. e[t].es <= first
    BY <1>1, <1>2, <1>6
  <2>2. QED BY <1>5, <2>1, NothingEarlier
<1>8. Unstarted(row)
  <2>1. SUFFICES ASSUME ~Unstarted(row) PROVE FALSE
    OBVIOUS
  <2>2. u # t /\ q.rows[u] = row /\ u \in LeavesOf(q)
    BY <1>5, <2>1 DEF HeldBack
  <2>3. h[u] = e[u]
    BY <1>5, <2>1, <2>2, BegunStays DEF Compared
  <2>4. Moved(u) = 0 /\ h[u].es = h[u].es + 0 /\ h[u].ef = h[u].ef + 0
    BY <1>5, <1>6, <2>2
  <2>5. QED BY <1>5, <2>3, <2>4
<1>9. /\ Unstarted(q.rows[u]) /\ PlannedLength(q.rows[u]) = L /\ Incoming(q, u) = Incoming(p, u) /\ u \in LeavesOf(q)
      /\ u # t => HeldTo(q.rows[u]) = HeldTo(row)
      /\ u = t => HeldTo(q.rows[u]) = {first}
  BY <1>5, <1>8, SameRows
<1>10. /\ e[u].ef = e[u].es + L
       /\ ProjectStart <= e[u].es
       /\ \A d \in HeldTo(row) : d <= e[u].es
       /\ \A l \in Incoming(p, u) : EarliestBy(l, e[l.from], L) <= e[u].es
  BY <1>5, <1>8, EarlyFacts DEF Compared
<1>11. /\ h[u].ef = h[u].es + L
       /\ \A d \in HeldTo(q.rows[u]) : d <= h[u].es
       /\ \/ h[u].es = ProjectStart
          \/ h[u].es \in HeldTo(q.rows[u])
          \/ \E l \in Incoming(p, u) : h[u].es = EarliestBy(l, h[l.from], L)
  BY <1>5, <1>9, EarlyFacts DEF Compared
<1>12. ASSUME NEW l \in Incoming(p, u) PROVE EarliestBy(l, h[l.from], L) <= e[u].es
  <2> DEFINE v == l.from
  <2>1. l \in Links /\ l \in p.links /\ l.to = u /\ v \in S /\ v \notin A /\ v # u
    BY <1>4, ComparedTyped DEF Incoming
  <2>2. Fits(v)
    BY <2>1
  <2>3. e[v].es \in Int /\ e[v].ef \in Int /\ h[v].es \in Int /\ h[v].ef \in Int /\ e[u].es \in Int
    BY <1>5, <1>6, <2>1
  <2>4. EarliestBy(l, e[v], L) <= e[u].es
    BY <1>10
  <2>5. CASE Moved(v) = 0
    <3>1. h[v].es = e[v].es /\ h[v].ef = e[v].ef
      BY <2>2, <2>3, <2>5
    <3> HIDE DEF v, L, Moved, Fits, S, A, row
    <3>2. /\ EarliestBy(l, h[v], L) <= EarliestBy(l, e[v], L)
          /\ EarliestBy(l, e[v], L) \in Int /\ EarliestBy(l, h[v], L) \in Int
      <4>1. h[v].es <= e[v].es /\ h[v].ef <= e[v].ef
        BY <2>3, <3>1
      <4>2. QED BY <1>5, <2>1, <2>3, <4>1, LaterBefore
    <3>3. QED BY <2>3, <2>4, <3>2 DEF v
  <2>6. CASE Moved(v) # 0
    <3>1. v = t /\ free # 0 /\ h[v].es = e[v].es + free /\ h[v].ef = e[v].ef + free
      BY <2>2, <2>6
    <3>2. l \in Outgoing(p, t)
      BY <2>1, <3>1 DEF Outgoing
    <3>3. free <= Slack(l, e)
      BY <1>2, <3>1, <3>2
    <3>4. /\ e[l.from].es \in Int /\ e[l.from].ef \in Int /\ e[l.to].es \in Int /\ e[l.to].ef = e[l.to].es + L
          /\ h[v].es = e[l.from].es + free /\ h[v].ef = e[l.from].ef + free
      BY <1>10, <2>1, <2>3, <3>1
    <3> HIDE DEF v, L, Moved, Fits, S, A, row
    <3>5. EarliestBy(l, h[v], L) <= e[l.to].es
      BY <1>2, <1>5, <2>1, <3>3, <3>4, RoomIsEnough
    <3>6. QED BY <2>1, <3>5 DEF v
  <2>7. QED BY <2>5, <2>6
<1>13. e[u].es \in Int /\ e[u].ef \in Int /\ h[u].es \in Int /\ h[u].ef \in Int
  BY <1>5, <1>6
<1>14. h[u].es = e[u].es + Moved(u)
  <2>1. CASE u = t
    <3>1. Moved(u) = free /\ first <= h[u].es /\ first = e[u].es + free
      BY <1>9, <1>11, <2>1
    <3>2. h[u].es = ProjectStart \/ h[u].es = first \/ h[u].es <= e[u].es
      BY <1>9, <1>11, <1>12, <2>1
    <3> HIDE DEF Moved
    <3>3. QED BY <1>2, <1>10, <1>13, <3>1, <3>2 DEF ProjectStart
  <2>2. CASE u # t
    <3>1. Moved(u) = 0
      BY <2>2
    <3>2. h[u].es <= e[u].es
      BY <1>9, <1>10, <1>11, <1>12, <2>2
    <3> HIDE DEF Moved
    <3>3. QED BY <1>7, <1>13, <3>1, <3>2
  <2>3. QED BY <2>1, <2>2
<1>15. Moved(u) \in Int
  BY <1>2
<1>16. ~(h[u].es = e[u].es + Moved(u) /\ h[u].ef = e[u].ef + Moved(u))
  BY <1>5
<1> HIDE DEF Moved, Fits, A, S, L, row
<1>17. QED BY <1>5, <1>10, <1>11, <1>13, <1>14, <1>15, <1>16

LEMMA FreeKeepsTheEnd ==
  ASSUME NEW p, NEW q, NEW day, NEW e, NEW h, Compared(p, q, day, e, h),
         NEW t, NEW free, free = FreeFloat(p, e, t), NEW first \in Int, first = e[t].es + free, HeldBack(p, q, t, first)
  PROVE  LastDay(h) = LastDay(e)
<1> DEFINE S == LeavesOf(p)
<1>1. KnownPlan(p, day) /\ Accepts(p) /\ t \in S /\ IsFiniteSet(S)
  BY LeavesAreTasks DEF Compared, HeldBack
<1>2. e \in [S -> Spans] /\ h \in [S -> Spans] /\ LastDay(e) \in Int /\ LastDay(h) \in Int
  BY ComparedTyped
<1>3. \A u \in S : e[u].ef \in Int /\ h[u].ef \in Int
  BY ComparedTyped
<1>4. free \in Int /\ 0 <= free /\ (free = 0 \/ free <= LastDay(e) - e[t].ef)
  BY <1>1, <1>2, FreeFacts
<1>5. \A u \in S : h[u].ef = e[u].ef + (IF u = t THEN free ELSE 0)
  BY FreeIsFree
<1>6. /\ ProjectStart <= LastDay(e) /\ \A u \in S : e[u].ef <= LastDay(e)
      /\ LastDay(e) = ProjectStart \/ \E u \in S : LastDay(e) = e[u].ef
  <2> HIDE DEF S
  <2>1. QED BY <1>1, <1>2, LastDayIs
<1>7. /\ ProjectStart <= LastDay(h) /\ \A u \in S : h[u].ef <= LastDay(h)
      /\ LastDay(h) = ProjectStart \/ \E u \in S : LastDay(h) = h[u].ef
  <2> HIDE DEF S
  <2>1. QED BY <1>1, <1>2, LastDayIs
<1> HIDE DEF S
<1>8. \A u \in S : e[u].ef <= h[u].ef /\ h[u].ef <= LastDay(e)
  <2>1. ASSUME NEW u \in S PROVE e[u].ef <= h[u].ef /\ h[u].ef <= LastDay(e)
    <3>1. CASE u = t
      <4>1. h[t].ef = e[t].ef + free /\ e[t].ef \in Int /\ e[t].ef <= LastDay(e)
        BY <1>1, <1>3, <1>5, <1>6
      <4>2. QED BY <1>2, <1>4, <3>1, <4>1
    <3>2. CASE u # t
      <4>1. h[u].ef = e[u].ef + 0 /\ e[u].ef \in Int /\ e[u].ef <= LastDay(e)
        BY <1>3, <1>5, <1>6, <3>2
      <4>2. QED BY <1>2, <4>1
    <3>3. QED BY <3>1, <3>2
  <2>2. QED BY <2>1
<1>9. LastDay(e) <= LastDay(h)
  BY <1>2, <1>3, <1>6, <1>7, <1>8
<1>10. LastDay(h) <= LastDay(e)
  BY <1>2, <1>3, <1>6, <1>7, <1>8
<1>11. QED BY <1>2, <1>9, <1>10

(* One day more moves another task, or the end. *)
LEMMA OneDayMoreIsNotFree ==
  ASSUME NEW p, NEW q, NEW day, NEW e, NEW h, Compared(p, q, day, e, h),
         NEW t, NEW free, free = FreeFloat(p, e, t), NEW first \in Int, first = e[t].es + (free + 1),
         HeldBack(p, q, t, first), \A u \in LeavesOf(p) : Unstarted(p.rows[u])
  PROVE  LastDay(e) < LastDay(h) \/ \E u \in LeavesOf(p) \ {t} : h[u] # e[u]
<1> DEFINE S == LeavesOf(p)
           L(u) == PlannedLength(p.rows[u])
<1>1. KnownPlan(p, day) /\ Accepts(p) /\ t \in S /\ IsFiniteSet(S) /\ day \in Int
  BY LeavesAreTasks DEF Compared, HeldBack
<1>2. e \in [S -> Spans] /\ h \in [S -> Spans] /\ LastDay(e) \in Int /\ LastDay(h) \in Int
  BY ComparedTyped
<1>3. \A u \in S : e[u].es \in Int /\ e[u].ef \in Int /\ h[u].es \in Int /\ h[u].ef \in Int /\ L(u) \in Nat
  BY ComparedTyped
<1>4. free \in Int /\ (LastDay(e) - e[t].ef <= free \/ \E l \in Outgoing(p, t) : Slack(l, e) <= free)
  BY <1>1, <1>2, FreeFacts
<1>5. ASSUME NEW u \in S
      PROVE  /\ e[u].ef = e[u].es + L(u) /\ h[u].ef = h[u].es + L(u)
             /\ \A d \in HeldTo(q.rows[u]) : d <= h[u].es
             /\ \A l \in Incoming(p, u) : EarliestBy(l, h[l.from], L(u)) <= h[u].es
  <2>1. e[u].ef = e[u].es + L(u)
    BY EarlyFacts DEF Compared
  <2>2. Unstarted(q.rows[u]) /\ PlannedLength(q.rows[u]) = L(u) /\ Incoming(q, u) = Incoming(p, u) /\ u \in LeavesOf(q)
    BY SameRows
  <2>3. /\ h[u].ef = h[u].es + L(u)
        /\ \A d \in HeldTo(q.rows[u]) : d <= h[u].es
        /\ \A l \in Incoming(p, u) : EarliestBy(l, h[l.from], L(u)) <= h[u].es
    BY <2>2, EarlyFacts DEF Compared
  <2>4. QED BY <2>1, <2>3
<1>6. first <= h[t].es
  <2>1. HeldTo(q.rows[t]) = {first}
    BY DEF HeldBack
  <2>2. QED BY <1>1, <1>5, <2>1
<1>7. /\ e[t].es \in Int /\ e[t].ef \in Int /\ h[t].es \in Int /\ h[t].ef \in Int /\ L(t) \in Nat
      /\ e[t].ef = e[t].es + L(t) /\ h[t].ef = h[t].es + L(t)
  BY <1>1, <1>3, <1>5
<1> HIDE DEF L
<1>8. e[t].es + (free + 1) <= h[t].es /\ e[t].ef + (free + 1) <= h[t].ef
  BY <1>4, <1>6, <1>7
<1>9. CASE LastDay(e) - e[t].ef <= free
  <2>1. h[t].ef <= LastDay(h)
    BY <1>1, <1>2, LastDayIs
  <2> HIDE DEF S
  <2>2. QED BY <1>2, <1>4, <1>7, <1>8, <1>9, <2>1
<1>10. ASSUME NEW l \in Outgoing(p, t), Slack(l, e) <= free PROVE \E u \in S \ {t} : h[u] # e[u]
  <2> DEFINE u == l.to
             at == [es |-> e[t].es + (free + 1), ef |-> e[t].ef + (free + 1)]
  <2>1. l \in Links /\ l \in p.links /\ l.from = t /\ u \in S /\ u # t /\ l \in Incoming(p, u)
    BY ComparedTyped DEF Outgoing, Incoming
  <2>2. /\ e[u].es \in Int /\ h[u].es \in Int /\ e[u].ef = e[u].es + L(u) /\ L(u) \in Nat
        /\ EarliestBy(l, h[t], L(u)) <= h[u].es
    BY <1>3, <1>5, <2>1
  <2>3. at.es = e[t].es + (free + 1) /\ at.ef = e[t].ef + (free + 1) /\ free + 1 \in Int
        /\ at.es \in Int /\ at.ef \in Int /\ at.es <= h[t].es /\ at.ef <= h[t].ef
    BY <1>4, <1>7, <1>8
  <2> HIDE DEF at
  <2>4. /\ EarliestBy(l, at, L(u)) \in Int /\ EarliestBy(l, h[t], L(u)) \in Int
        /\ EarliestBy(l, at, L(u)) <= EarliestBy(l, h[t], L(u))
    BY <1>7, <2>1, <2>2, <2>3, LaterBefore
  <2>5. Slack(l, e) \in Int /\ (EarliestBy(l, at, L(u)) <= e[u].es <=> free + 1 <= Slack(l, e))
    <3>1. /\ e[l.from].es \in Int /\ e[l.from].ef \in Int /\ e[l.to].es \in Int /\ e[l.to].ef = e[l.to].es + L(u)
          /\ at.es = e[l.from].es + (free + 1) /\ at.ef = e[l.from].ef + (free + 1)
      BY <1>7, <2>1, <2>2, <2>3
    <3>2. free + 1 \in Int /\ L(u) \in Nat /\ l \in Links
      BY <2>1, <2>2, <2>3
    <3> DEFINE more == free + 1
               length == L(u)
    <3>3. /\ at.es = e[l.from].es + more /\ at.ef = e[l.from].ef + more /\ more \in Int /\ length \in Nat
          /\ e[l.to].ef = e[l.to].es + length
      BY <3>1, <3>2
    <3> HIDE DEF more, length
    <3>4. Slack(l, e) \in Int /\ (EarliestBy(l, at, length) <= e[l.to].es <=> more <= Slack(l, e))
      BY <3>1, <3>2, <3>3, RoomIsEnough
    <3>5. QED BY <3>4 DEF more, length
  <2>6. ~(EarliestBy(l, at, L(u)) <= e[u].es)
    BY <1>4, <1>10, <2>5
  <2> HIDE DEF u, S
  <2>7. e[u].es < h[u].es
    BY <2>2, <2>4, <2>6
  <2>8. h[u] # e[u]
    BY <2>2, <2>7
  <2>9. QED BY <2>1, <2>8
<1>11. QED BY <1>4, <1>9, <1>10

-----------------------------------------------------------------------------
(* Dragging the start of a task is holding it back. *)
LEMMA SlippedIs ==
  ASSUME today \in Int, KnownPlan(plan, today), Accepts(plan), NEW t, Waiting(t), NEW days \in Int,
         NEW early, early = Early(plan, today)
  PROVE  \E q : /\ Compared(plan, q, today, early, Slipped(early, t, days))
                /\ HeldBack(plan, q, t, early[t].es + days)
<1> DEFINE first == early[t].es + days
           date == IF Row(t).kind = "milestone" THEN first - 1 ELSE first
           q == [plan EXCEPT !.rows[t].constraint = "snet", !.rows[t].date = date]
           h == Slipped(early, t, days)
           row == plan.rows[t]
<1>1. h = Early(q, today)
  BY DEF Slipped
<1>2. t \in LeavesOf(plan) /\ t \in DOMAIN plan.rows /\ KnownRow(row, today)
  BY LeavesAreTasks DEF Waiting
<1>3. Pass(plan, today, early)
  BY EarlyIsPass
<1>4. first \in Int /\ date \in Int
  BY <1>2, <1>3 DEF Pass, Spans
<1>5. /\ DOMAIN q = {"rows", "links"} /\ DOMAIN q.rows = DOMAIN plan.rows /\ q.links = plan.links
      /\ \A u \in DOMAIN plan.rows \ {t} : q.rows[u] = plan.rows[u]
      /\ DOMAIN q.rows[t] = Fields
      /\ \A f \in Fields \ {"constraint", "date"} : q.rows[t][f] = row[f]
      /\ q.rows[t].constraint = "snet" /\ q.rows[t].date = date
  <2> HIDE DEF date
  <2>1. DOMAIN plan = {"rows", "links"} /\ DOMAIN row = Fields /\ "constraint" \in Fields /\ "date" \in Fields
    BY <1>2 DEF KnownPlan, KnownRow, Fields
  <2> DEFINE q1 == [plan EXCEPT !.rows[t].constraint = "snet"]
  <2>2. q = [q1 EXCEPT !.rows[t].date = date]
    OBVIOUS
  <2>3. /\ DOMAIN q1 = {"rows", "links"} /\ q1.links = plan.links
        /\ q1.rows = [plan.rows EXCEPT ![t].constraint = "snet"]
    BY <2>1
  <2> HIDE DEF q1
  <2>4. /\ DOMAIN q = {"rows", "links"} /\ q.links = plan.links
        /\ q.rows = [q1.rows EXCEPT ![t].date = date]
    BY <2>2, <2>3
  <2> HIDE DEF q
  <2>5. /\ DOMAIN q1.rows = DOMAIN plan.rows /\ \A u \in DOMAIN plan.rows \ {t} : q1.rows[u] = plan.rows[u]
        /\ q1.rows[t] = [row EXCEPT !.constraint = "snet"]
    BY <1>2, <2>3
  <2>6. /\ DOMAIN q.rows = DOMAIN plan.rows /\ \A u \in DOMAIN plan.rows \ {t} : q.rows[u] = q1.rows[u]
        /\ q.rows[t] = [q1.rows[t] EXCEPT !.date = date]
    BY <1>2, <2>4, <2>5
  <2>7. /\ DOMAIN q1.rows[t] = Fields /\ q1.rows[t].constraint = "snet"
        /\ \A f \in Fields \ {"constraint"} : q1.rows[t][f] = row[f]
    BY <2>1, <2>5
  <2>8. /\ DOMAIN q.rows[t] = Fields /\ q.rows[t].date = date
        /\ \A f \in Fields \ {"date"} : q.rows[t][f] = q1.rows[t][f]
    BY <2>1, <2>6, <2>7
  <2>9. QED BY <2>1, <2>4, <2>5, <2>6, <2>7, <2>8
<1> HIDE DEF q
<1>6. /\ q.rows[t].parent = row.parent /\ q.rows[t].kind = row.kind /\ q.rows[t].days = row.days
      /\ q.rows[t].percent = row.percent /\ q.rows[t].began = row.began /\ q.rows[t].ended = row.ended
  BY <1>5 DEF Fields
<1>7. KnownPlan(q, today)
  <2>1. KnownRow(q.rows[t], today)
    BY <1>2, <1>4, <1>5, <1>6 DEF KnownRow
  <2>2. QED BY <1>5, <2>1 DEF KnownPlan
<1>8. LeavesOf(q) = LeavesOf(plan)
  <2>1. \A u \in DOMAIN plan.rows : q.rows[u].parent = plan.rows[u].parent
    BY <1>5, <1>6
  <2>2. Adrift(q) = Adrift(plan)
    BY <1>5, <2>1 DEF Adrift
  <2>3. Shown(q) = Shown(plan) /\ Shown(plan) \subseteq DOMAIN plan.rows
    BY <1>5, <2>2 DEF Shown
  <2>4. Summaries(q) = Summaries(plan)
    BY <2>1, <2>3 DEF Summaries
  <2>5. QED BY <2>3, <2>4 DEF LeavesOf
<1>9. Accepts(q)
  BY <1>5, <1>8 DEF Accepts
<1>10. Pass(q, today, h)
  BY <1>1, <1>7, <1>9, EarlyIsPass
<1>11. Unstarted(row) /\ Unstarted(q.rows[t])
  <2>1. row.began = NoDate /\ row.ended = NoDate /\ row.percent \in Int /\ 0 <= row.percent /\ ~(row.percent > 0)
    BY <1>2 DEF Waiting, Row, Started, Complete, KnownRow, Story
  <2>2. row.percent = 0
    BY <2>1
  <2>3. QED BY <1>6, <2>1, <2>2 DEF Unstarted
<1>12. PlannedLength(q.rows[t]) = PlannedLength(row)
  BY <1>6 DEF PlannedLength
<1>13. HeldTo(q.rows[t]) = {first}
  <2>1. HeldTo(q.rows[t]) = {IF row.kind = "milestone" THEN date + 1 ELSE date}
    BY <1>5, <1>6 DEF HeldTo
  <2>2. date = IF row.kind = "milestone" THEN first - 1 ELSE first
    BY DEF Row
  <2> HIDE DEF date, first
  <2>3. (IF row.kind = "milestone" THEN date + 1 ELSE date) = first
    BY <1>4, <2>2
  <2>4. QED BY <2>1, <2>3
<1> HIDE DEF h, first
<1>14. Compared(plan, q, today, early, h)
  BY <1>3, <1>7, <1>9, <1>10 DEF Compared
<1>15. HeldBack(plan, q, t, first)
  <2>1. \A u \in LeavesOf(plan) \ {t} : q.rows[u] = plan.rows[u]
    BY <1>5, LeavesAreTasks
  <2>2. QED BY <1>2, <1>5, <1>8, <1>11, <1>12, <1>13, <2>1 DEF HeldBack
<1>16. QED BY <1>14, <1>15 DEF h, first

-----------------------------------------------------------------------------
(* Float. *)
LEMMA WaitingIs ==
  ASSUME KnownPlan(plan, today), NEW t, Waiting(t)
  PROVE  t \in LeavesOf(plan) /\ Unstarted(plan.rows[t])
<1>1. t \in LeavesOf(plan) /\ KnownRow(plan.rows[t], today)
  BY LeavesAreTasks DEF Waiting
<1>2. /\ plan.rows[t].began = NoDate /\ plan.rows[t].ended = NoDate
      /\ plan.rows[t].percent \in Int /\ 0 <= plan.rows[t].percent /\ ~(plan.rows[t].percent > 0)
  BY <1>1 DEF Waiting, Row, Started, Complete, KnownRow, Story
<1>3. plan.rows[t].percent = 0
  BY <1>2
<1>4. QED BY <1>1, <1>2, <1>3 DEF Unstarted

LEMMA FloatFacts ==
  ASSUME today \in Int, KnownPlan(plan, today), Accepts(plan), NEW t, Waiting(t),
         NEW early, early = Early(plan, today), NEW late, late = Late(plan, early),
         NEW float, float = TotalFloat(plan, early, t)
  PROVE  /\ BackPass(plan, early, late) /\ float \in Int /\ early[t].es \in Int
         /\ early[t].es + float = late[t].ls
         /\ late[t].ls \in Int
         /\ Row(t).constraint = "fnlt" => (early[t].ef - 1 > Row(t).date => float < 0)
<1>1. Pass(plan, today, early) /\ t \in LeavesOf(plan)
  BY EarlyIsPass, WaitingIs
<1>2. early \in [LeavesOf(plan) -> Spans] /\ early[t].es \in Int /\ early[t].ef \in Int
  BY <1>1 DEF Pass, Spans
<1>3. BackPass(plan, early, late)
  BY <1>2, LateIsPass
<1>4. late[t].ls \in Int /\ late[t].lf \in Int
  BY <1>1, <1>3 DEF BackPass, Latest
<1>5. /\ late[t].ls = late[t].lf - (early[t].ef - early[t].es)
      /\ \A d \in DueBy(plan.rows[t]) : late[t].lf <= d
  BY <1>1, <1>2, <1>3, LateFacts
<1>6. float = late[t].lf - early[t].ef
  BY DEF TotalFloat
<1>7. float \in Int /\ early[t].es + float = late[t].ls
  BY <1>2, <1>4, <1>5, <1>6
<1>8. ASSUME Row(t).constraint = "fnlt", early[t].ef - 1 > Row(t).date PROVE float < 0
  <2>1. Row(t).date \in Int
    BY <1>1, <1>8, LeavesAreTasks DEF KnownRow, Row
  <2>2. late[t].lf <= Row(t).date + 1
    BY <1>5, <1>8 DEF DueBy, Row
  <2>3. QED BY <1>2, <1>4, <1>6, <1>8, <2>1, <2>2
<1>9. QED BY <1>2, <1>3, <1>4, <1>7, <1>8

LEMMA FloatHolds == ASSUME today \in Int, KnownPlan(plan, today) PROVE FloatIsWhatCanSlip
<1> DEFINE early == Early(plan, today)
<1>1. SUFFICES ASSUME Accepts(plan), NEW t \in LeavesOf(plan), Waiting(t), NEW float, float = TotalFloat(plan, early, t)
               PROVE  /\ float >= 0 => LastDay(Slipped(early, t, float)) = LastDay(early)
                      /\ NothingStarted /\ NoDeadlines => LastDay(Slipped(early, t, float + 1)) > LastDay(early)
                      /\ Row(t).constraint = "fnlt" => (early[t].ef - 1 > Row(t).date => float < 0)
  BY DEF FloatIsWhatCanSlip
<1> DEFINE late == Late(plan, early)
<1> HIDE DEF early, late
<1>2. early = Early(plan, today) /\ late = Late(plan, early)
  BY DEF early, late
<1>3. /\ BackPass(plan, early, late) /\ float \in Int /\ early[t].es \in Int
      /\ early[t].es + float = late[t].ls
      /\ late[t].ls \in Int
      /\ Row(t).constraint = "fnlt" => (early[t].ef - 1 > Row(t).date => float < 0)
  BY <1>1, <1>2, FloatFacts
<1>4. ASSUME float >= 0 PROVE LastDay(Slipped(early, t, float)) = LastDay(early)
  <2> DEFINE h == Slipped(early, t, float)
             first == early[t].es + float
  <2>1. PICK q : Compared(plan, q, today, early, h) /\ HeldBack(plan, q, t, first)
    BY <1>1, <1>2, <1>3, SlippedIs
  <2>2. first = late[t].ls /\ first \in Int /\ early[t].es <= first
    BY <1>3, <1>4
  <2> HIDE DEF h, first
  <2>3. LastDay(h) = LastDay(early)
    BY <1>3, <2>1, <2>2, SlackIsSafe
  <2>4. QED BY <2>3 DEF h
<1>5. ASSUME NothingStarted, NoDeadlines PROVE LastDay(Slipped(early, t, float + 1)) > LastDay(early)
  <2> DEFINE h == Slipped(early, t, float + 1)
             first == early[t].es + (float + 1)
  <2>1. float + 1 \in Int
    BY <1>3
  <2>2. PICK q : Compared(plan, q, today, early, h) /\ HeldBack(plan, q, t, first)
    BY <1>1, <1>2, <2>1, SlippedIs
  <2>3. late[t].ls < first /\ first \in Int
    BY <1>3
  <2>4. \A u \in LeavesOf(plan) : Unstarted(plan.rows[u]) /\ DueBy(plan.rows[u]) = {}
    BY <1>5, WaitingIs DEF NothingStarted, NoDeadlines, DueBy, Row
  <2> HIDE DEF h, first
  <2>5. LastDay(early) < LastDay(h)
    BY <1>3, <2>2, <2>3, <2>4, OneDayMore
  <2>6. LastDay(early) \in Int /\ LastDay(h) \in Int
    BY <2>2, ComparedTyped
  <2>7. LastDay(h) > LastDay(early)
    BY <2>5, <2>6
  <2>8. QED BY <2>7 DEF h
<1>6. QED BY <1>3, <1>4, <1>5

LEMMA FreeFloatHolds == ASSUME today \in Int, KnownPlan(plan, today) PROVE FreeFloatMovesNothing
<1> DEFINE early == Early(plan, today)
           others(now, t) == [u \in LeavesOf(plan) \ {t} |-> now[u]]
<1>1. SUFFICES ASSUME Accepts(plan), NEW t \in LeavesOf(plan), Waiting(t), NEW float, float = FreeFloat(plan, early, t)
               PROVE  /\ others(Slipped(early, t, float), t) = others(early, t)
                      /\ LastDay(Slipped(early, t, float)) = LastDay(early)
                      /\ NothingStarted => ~(/\ others(Slipped(early, t, float + 1), t) = others(early, t)
                                             /\ LastDay(Slipped(early, t, float + 1)) = LastDay(early))
  BY DEF FreeFloatMovesNothing
<1> HIDE DEF early
<1>2. early = Early(plan, today)
  BY DEF early
<1>3. Pass(plan, today, early)
  BY <1>1, <1>2, EarlyIsPass
<1>4. early \in [LeavesOf(plan) -> Spans] /\ early[t].es \in Int
  BY <1>1, <1>3 DEF Pass, Spans
<1>5. float \in Int
  BY <1>1, <1>4, FreeFacts
<1>6. /\ others(Slipped(early, t, float), t) = others(early, t)
      /\ LastDay(Slipped(early, t, float)) = LastDay(early)
  <2> DEFINE h == Slipped(early, t, float)
             first == early[t].es + float
  <2>1. PICK q : Compared(plan, q, today, early, h) /\ HeldBack(plan, q, t, first)
    BY <1>1, <1>2, <1>5, SlippedIs
  <2>2. first \in Int /\ first = early[t].es + float
    BY <1>4, <1>5
  <2> HIDE DEF h, first
  <2>3. LastDay(h) = LastDay(early)
    BY <1>1, <2>1, <2>2, FreeKeepsTheEnd
  <2>4. \A u \in LeavesOf(plan) : /\ h[u].es = early[u].es + (IF u = t THEN float ELSE 0)
                                  /\ h[u].ef = early[u].ef + (IF u = t THEN float ELSE 0)
    BY <1>1, <2>1, <2>2, FreeIsFree
  <2>5. ASSUME NEW u \in LeavesOf(plan) \ {t} PROVE h[u] = early[u]
    <3>1. h[u].es = early[u].es + 0 /\ h[u].ef = early[u].ef + 0
      BY <2>4
    <3>2. early[u] \in Spans /\ h[u] \in Spans
      BY <2>1, ComparedTyped
    <3>3. QED BY <3>1, <3>2 DEF Spans
  <2>6. QED BY <2>3, <2>5 DEF h
<1>7. ASSUME NothingStarted,
             others(Slipped(early, t, float + 1), t) = others(early, t),
             LastDay(Slipped(early, t, float + 1)) = LastDay(early)
      PROVE  FALSE
  <2> DEFINE h == Slipped(early, t, float + 1)
             first == early[t].es + (float + 1)
  <2>1. float + 1 \in Int
    BY <1>5
  <2>2. PICK q : Compared(plan, q, today, early, h) /\ HeldBack(plan, q, t, first)
    BY <1>1, <1>2, <2>1, SlippedIs
  <2>3. first \in Int /\ first = early[t].es + (float + 1)
    BY <1>4, <1>5
  <2>4. \A u \in LeavesOf(plan) : Unstarted(plan.rows[u])
    BY <1>7, WaitingIs DEF NothingStarted
  <2>5. LastDay(h) = LastDay(early) /\ others(h, t) = others(early, t)
    BY <1>7
  <2> HIDE DEF h, first
  <2>6. LastDay(early) < LastDay(h) \/ \E u \in LeavesOf(plan) \ {t} : h[u] # early[u]
    BY <1>1, <2>2, <2>3, <2>4, OneDayMoreIsNotFree
  <2>7. LastDay(early) \in Int
    BY <2>2, ComparedTyped
  <2>8. ASSUME NEW u \in LeavesOf(plan) \ {t} PROVE h[u] = early[u]
    <3>1. others(h, t)[u] = h[u] /\ others(early, t)[u] = early[u]
      OBVIOUS
    <3> HIDE DEF others
    <3>2. QED BY <2>5, <3>1
  <2>9. QED BY <2>5, <2>6, <2>7, <2>8
<1>8. QED BY <1>6, <1>7

(* FloatIsWhatCanSlip: on any plan the service has stored, with links of every type and lag, a task held    *)
(* back by its total float leaves the end of the job where it was; while nothing has begun and nothing is   *)
(* due, a day more moves it; and a task that cannot keep its date has negative float.                       *)
THEOREM FloatIsSlack == Spec => []FloatIsWhatCanSlip
<1>1. StoryInv => FloatIsWhatCanSlip
  BY FloatHolds DEF StoryInv
<1>2. StoryInv /\ [Next]_vars => StoryInv'
  BY StoryStep
<1>3. QED BY <1>1, <1>2, StoryFirst, PTL DEF Spec

(* FreeFloatMovesNothing: held back by its free float it moves no other task either, and while nothing has  *)
(* begun a day more moves one, or the end.                                                                  *)
THEOREM FreeFloatIsFree == Spec => []FreeFloatMovesNothing
<1>1. StoryInv => FreeFloatMovesNothing
  BY FreeFloatHolds DEF StoryInv
<1>2. StoryInv /\ [Next]_vars => StoryInv'
  BY StoryStep
<1>3. QED BY <1>1, <1>2, StoryFirst, PTL DEF Spec
=============================================================================
