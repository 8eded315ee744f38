-------------------------- MODULE AttendanceProofs ---------------------------
(***************************************************************************)
(* Attendance, on the server and on the phone that shows it, for any number *)
(* of workers.  One roll call at a time, at any number of sites no worker   *)
(* has two full days (OneFullDay), which rests on ChecksStillHold: what the *)
(* call in flight saw is still so.  On the phone, for any screens, marks and *)
(* crashes, a mark shown as unsent is in the outbox and one shown as sent    *)
(* was on the server, but for the marks ShownIsKept leaves out              *)
(* (MarksShownAreKept): what a pull writes was read from the server          *)
(* (SeenWasHeld), what the outbox lets go of was served (ServedWasHeld) and  *)
(* no longer shows as unsent (ClearedBeforeRemoved), because no later mark   *)
(* has the number of a queued one (QueuedBefore).                           *)
(***************************************************************************)
EXTENDS RollCall, PhoneMirror, TLAPS

(* The roll call on the server. *)

LEMMA RollTypeStep == RollTypeOK /\ [RollNext]_rollVars => RollTypeOK'
<1> SUFFICES ASSUME RollTypeOK, [RollNext]_rollVars PROVE RollTypeOK'
  OBVIOUS
<1>1. ASSUME NEW r \in Requests, RecordWrite(r) PROVE RollTypeOK'
  <2>1. req[r] \in [op : {"record"}, site : Sites, call : [Workers -> Marks]]
    BY <1>1 DEF RecordWrite, RollTypeOK, Pending
  <2>2. Idle \in Pending
    BY DEF Idle, Pending
  <2> QED BY <1>1, <2>1, <2>2 DEF RecordWrite, RollTypeOK
<1>2. ASSUME NEW r \in Requests, Refused(r) PROVE RollTypeOK'
  <2>1. Idle \in Pending
    BY DEF Idle, Pending
  <2> QED BY <1>2, <2>1 DEF Refused, RollTypeOK
<1>3. ASSUME NEW r \in Requests, NEW s \in Sites, NEW call \in [Workers -> Marks], RecordCheck(r, s, call)
      PROVE  RollTypeOK'
  <2>1. PICK what \in Pending : req' = [req EXCEPT ![r] = what]
    <3>1. PICK conflicts \in SUBSET Workers :
            req' = [req EXCEPT ![r] = IF Refuses(conflicts) THEN [op |-> "refused", site |-> s, who |-> conflicts]
                                      ELSE [op |-> "record", site |-> s, call |-> call]]
      BY <1>3 DEF RecordCheck, Listed
    <3>2. Refuses(conflicts) => [op |-> "refused", site |-> s, who |-> conflicts] \in Pending
      BY DEF Refuses, Pending
    <3>3. [op |-> "record", site |-> s, call |-> call] \in Pending
      BY DEF Pending
    <3> QED BY <3>1, <3>2, <3>3
  <2> QED BY <1>3, <2>1 DEF RecordCheck, RollTypeOK
<1>4. CASE PeriodChanges
  BY <1>4 DEF PeriodChanges, RollTypeOK
<1>5. CASE UNCHANGED rollVars
  BY <1>5 DEF rollVars, RollTypeOK
<1> QED BY <1>1, <1>2, <1>3, <1>4, <1>5 DEF RollNext

LEMMA TypeInit == RollInit => RollTypeOK
<1> SUFFICES ASSUME RollInit PROVE RollTypeOK
  OBVIOUS
<1>1. Idle \in Pending
  BY DEF Idle, Pending
<1> QED BY <1>1 DEF RollInit, RollTypeOK, Marks

(* Every row and every roll call in flight keeps its type; a refusal names somebody. *)
THEOREM RollCallTypes == RollSpec => []RollTypeOK
BY TypeInit, RollTypeStep, PTL DEF RollSpec

-----------------------------------------------------------------------------
(* What a step of one roll call at a time does. *)

LEMMA ChecksStep ==
  ASSUME OneRequest, RollTypeOK, ChecksStillHold, [RollNext]_rollVars PROVE ChecksStillHold'
<1>1. CASE req' = req /\ roll' = roll
  BY <1>1 DEF ChecksStillHold, Busy, Others
<1>2. ASSUME NEW r \in Requests, req' = [req EXCEPT ![r] = Idle] PROVE ChecksStillHold'
  <2>1. \A q \in Requests : req'[q] = Idle
    BY <1>2 DEF OneRequest, RollTypeOK
  <2> QED BY <2>1 DEF ChecksStillHold, Idle
<1>3. ASSUME NEW r \in Requests, NEW s \in Sites, NEW call \in [Workers -> Marks], RecordCheck(r, s, call)
      PROVE  ChecksStillHold'
  <2>1. roll' = roll
    BY <1>3 DEF RecordCheck
  <2>2. PICK busy \in [Workers -> Marks] :
          /\ \A w \in Workers : busy[w] \in Busy(s, w)
          /\ req' = [req EXCEPT ![r] =
               IF Refuses({w \in Listed(call) : Clash(busy[w], call[w])})
               THEN [op |-> "refused", site |-> s, who |-> {w \in Listed(call) : Clash(busy[w], call[w])}]
               ELSE [op |-> "record", site |-> s, call |-> call]]
    BY <1>3 DEF RecordCheck
  <2>3. CASE Refuses({w \in Listed(call) : Clash(busy[w], call[w])})
    <3>1. \A q \in Requests : req'[q].op = "refused"
      BY <2>2, <2>3 DEF OneRequest, RollTypeOK
    <3> QED BY <3>1 DEF ChecksStillHold
  <2>4. CASE ~Refuses({w \in Listed(call) : Clash(busy[w], call[w])})
    <3>1. \A q \in Requests : req'[q] = [op |-> "record", site |-> s, call |-> call]
      BY <2>2, <2>4 DEF OneRequest, RollTypeOK
    <3>2. \A w \in Listed(call) : busy[w] \in Busy(s, w) /\ ~Clash(busy[w], call[w])
      BY <2>2, <2>4 DEF Refuses, Listed
    <3>3. \A w \in Listed(call) : \E other \in Busy(s, w)' : ~Clash(other, call[w])
      BY <2>1, <3>2 DEF Busy, Others
    <3> SUFFICES ASSUME NEW q \in Requests
                 PROVE  \A w \in Listed(req[q].call)' :
                          \E other \in Busy(req[q].site, w)' : ~Clash(other, req[q].call[w])'
      BY DEF ChecksStillHold
    <3>4. req'[q].call = call /\ req'[q].site = s
      BY <3>1
    <3> QED BY <3>3, <3>4 DEF Listed, Busy, Others, Clash
  <2> QED BY <2>3, <2>4
<1> QED BY <1>1, <1>2, <1>3 DEF RollNext, RecordWrite, Refused, PeriodChanges, rollVars

(* Only the write of a roll call changes rows, and what it writes over clashed with *)
(* none of the rows it saw.                                                         *)
LEMMA RollStep ==
  ASSUME RollTypeOK, ChecksStillHold, [RollNext]_rollVars
  PROVE  \/ roll' = roll
         \/ \E s \in Sites, call \in [Workers -> Marks] :
              /\ \A q \in Sites, w \in Workers :
                   roll'[q][w] = IF q = s /\ w \in Listed(call) THEN call[w] ELSE roll[q][w]
              /\ \A w \in Listed(call) : \E other \in Busy(s, w) : ~Clash(other, call[w])
<1>1. ASSUME NEW r \in Requests, RecordWrite(r)
      PROVE  \E s \in Sites, call \in [Workers -> Marks] :
               /\ \A q \in Sites, w \in Workers :
                    roll'[q][w] = IF q = s /\ w \in Listed(call) THEN call[w] ELSE roll[q][w]
               /\ \A w \in Listed(call) : \E other \in Busy(s, w) : ~Clash(other, call[w])
  <2>1. req[r] \in [op : {"record"}, site : Sites, call : [Workers -> Marks]]
    BY <1>1 DEF RecordWrite, RollTypeOK, Pending
  <2>2. PICK s \in Sites, call \in [Workers -> Marks] : s = req[r].site /\ call = req[r].call
    BY <2>1
  <2>3. \A q \in Sites, w \in Workers :
          roll'[q][w] = IF q = s /\ w \in Listed(call) THEN call[w] ELSE roll[q][w]
    BY <1>1, <2>2 DEF RecordWrite, RollTypeOK
  <2>4. \A w \in Listed(call) : \E other \in Busy(s, w) : ~Clash(other, call[w])
    BY <1>1, <2>2 DEF RecordWrite, ChecksStillHold
  <2> QED BY <2>3, <2>4
<1> QED BY <1>1 DEF RollNext, RecordCheck, Refused, PeriodChanges, rollVars

LEMMA ChecksInit == RollInit => ChecksStillHold
BY DEF RollInit, ChecksStillHold, Idle

LEMMA ChecksAlways == ASSUME OneRequest PROVE RollSpec => [](RollTypeOK /\ ChecksStillHold)
<1>1. RollInit => RollTypeOK /\ ChecksStillHold
  BY TypeInit, ChecksInit
<1>2. RollTypeOK /\ ChecksStillHold /\ [RollNext]_rollVars => (RollTypeOK /\ ChecksStillHold)'
  BY RollTypeStep, ChecksStep
<1> QED BY <1>1, <1>2, PTL DEF RollSpec

-----------------------------------------------------------------------------
(* One roll call at a time, no worker has two `present' rows on the day, however *)
(* many sites there are: a present row is let in only over no other row.         *)
THEOREM OneFullDay == ASSUME OneRequest PROVE RollSpec => []OnePresentRow
<1>1. RollInit => OnePresentRow
  BY DEF RollInit, OnePresentRow
<1>2. RollTypeOK /\ ChecksStillHold /\ OnePresentRow /\ [RollNext]_rollVars => OnePresentRow'
  <2> SUFFICES ASSUME RollTypeOK, ChecksStillHold, OnePresentRow, [RollNext]_rollVars PROVE OnePresentRow'
    OBVIOUS
  <2>1. CASE roll' = roll
    BY <2>1 DEF OnePresentRow
  <2>2. ASSUME NEW s \in Sites, NEW call \in [Workers -> Marks],
               \A q \in Sites, w \in Workers :
                 roll'[q][w] = IF q = s /\ w \in Listed(call) THEN call[w] ELSE roll[q][w],
               \A w \in Listed(call) : \E other \in Busy(s, w) : ~Clash(other, call[w])
        PROVE  OnePresentRow'
    <3>1. ASSUME NEW w \in Listed(call), call[w] = "present", NEW q \in Sites, q # s
          PROVE  roll[q][w] = "none"
      <4>1. "none" \in Busy(s, w)
        BY <2>2, <3>1 DEF Clash
      <4> QED BY <3>1, <4>1 DEF Busy, Others
    <3> SUFFICES ASSUME NEW w \in Workers, NEW p \in Sites, NEW q \in Sites,
                        roll'[p][w] = "present", roll'[q][w] = "present"
                 PROVE  p = q
      BY DEF OnePresentRow
    <3>2. CASE w \in Listed(call) /\ call[w] = "present"
      BY <2>2, <3>1, <3>2
    <3>3. CASE ~(w \in Listed(call) /\ call[w] = "present")
      BY <2>2, <3>3 DEF OnePresentRow
    <3> QED BY <3>2, <3>3
  <2> QED BY <2>1, <2>2, RollStep
<1> QED BY <1>1, <1>2, ChecksAlways, PTL DEF RollSpec

-----------------------------------------------------------------------------
(* The marks on the phone. *)

MirrorRow == [mark : Mark, pending : BOOLEAN]
ScreenState ==
  [at : {"closed", "asked", "answered", "checked"}, got : [Crew -> Mark], keep : SUBSET Crew]

LEMMA BlankIsSheet == Blank \in [Crew -> Mark] /\ Closed \in ScreenState
BY PhoneMirrorAssumption DEF Blank, Closed, ScreenState, Mark, NoMark

LEMMA EntryMarks ==
  ASSUME NEW entry \in Entries
  PROVE  DOMAIN entry \subseteq Crew /\ \A w \in DOMAIN entry : entry[w] \in Mark
BY PhoneMirrorAssumption DEF Entries, Mark, NoMark

(* One lemma for the roll call on its way, one for the drain, one for the screens. *)
LEMMA SavingTypes ==
  ASSUME TypeOK, (\E ws \in SUBSET Crew \ {{}} : Save(ws)) \/ Enqueue
  PROVE  TypeOK'
<1> USE PhoneMirrorAssumption
<1>1. ASSUME NEW ws \in SUBSET Crew \ {{}}, Save(ws) PROVE TypeOK'
  <2>1. marks + 1 \in 1..MaxMarks /\ marks' \in Mark /\ marks + 1 \in Mark
    BY <1>1 DEF Save, TypeOK, Mark, NoMark
  <2>2. saving' \in Entries
    BY <1>1, <2>1 DEF Save, Entries
  <2>3. mirror' \in [Crew -> MirrorRow]
    BY <1>1, <2>1 DEF Save, TypeOK, MirrorRow
  <2> QED BY <1>1, <2>1, <2>2, <2>3 DEF Save, TypeOK, MirrorRow
<1>2. ASSUME Enqueue PROVE TypeOK'
  <2>1. saving \in Entries /\ queue \in Seq(Entries)
    BY <1>2 DEF Enqueue, TypeOK
  <2>2. Append(queue, saving) \in Seq(Entries) /\ Append(queue, saving) # <<>>
    BY <2>1
  <2> QED BY <1>2, <2>2 DEF Enqueue, TypeOK
<1> QED BY <1>1, <1>2

LEMMA DrainTypes ==
  ASSUME TypeOK, Send \/ Serve \/ GiveUp \/ Clear \/ RemoveSent \/ Refuse \/ Block
  PROVE  TypeOK'
<1>1. CASE Send \/ GiveUp \/ Refuse
  BY <1>1 DEF Send, GiveUp, Refuse, TypeOK
<1> SUFFICES ASSUME Serve \/ Clear \/ RemoveSent \/ Block PROVE TypeOK'
  BY <1>1
<1> DEFINE entry == Head(queue)
<1>2. entry \in Entries /\ Tail(queue) \in Seq(Entries) /\ queue # <<>> /\ queue \in Seq(Entries)
  BY DEF Serve, Clear, RemoveSent, Block, TypeOK
<1>3. DOMAIN entry \subseteq Crew /\ \A w \in DOMAIN entry : entry[w] \in Mark
  BY <1>2, EntryMarks
<1>4. CASE Serve
  <2>1. sheet' \in [Crew -> Mark]
    BY <1>3, <1>4 DEF Serve, TypeOK
  <2>2. Pairs(entry) \subseteq Crew \X Mark
    BY <1>3 DEF Pairs
  <2>3. reached' \subseteq Crew \X Mark
    BY <1>4, <2>2 DEF Serve, TypeOK
  <2> QED BY <1>2, <1>4, <2>1, <2>3 DEF Serve, TypeOK
<1>5. CASE Clear
  <2>1. mirror' \in [Crew -> MirrorRow]
    BY <1>5 DEF Clear, TypeOK, MirrorRow
  <2>2. early' \subseteq Crew \X Mark
    <3>1. \A w \in DOMAIN entry : mirror[w].mark \in Mark
      BY <1>3 DEF TypeOK
    <3> QED BY <1>3, <1>5, <3>1 DEF Clear, TypeOK
  <2> QED BY <1>2, <1>5, <2>1, <2>2 DEF Clear, TypeOK, MirrorRow
<1>6. CASE RemoveSent
  BY <1>2, <1>6 DEF RemoveSent, TypeOK
<1>7. CASE Block
  BY <1>2, <1>7 DEF Block, TypeOK
<1> QED BY <1>4, <1>5, <1>6, <1>7

LEMMA GoesTypes ==
  ASSUME TypeOK, NEW s \in Screens, NEW record \in ScreenState, Goes(s, record),
         mirror' \in [Crew -> MirrorRow]
  PROVE  TypeOK'
<1>1. screen' \in [Screens -> ScreenState]
  BY DEF Goes, TypeOK, ScreenState
<1> QED BY <1>1 DEF Goes, TypeOK, ScreenState, MirrorRow

LEMMA ScreenTypes ==
  ASSUME TypeOK, NEW s \in Screens, Open(s) \/ Answer(s) \/ NoSignal(s) \/ Check(s) \/ Write(s)
  PROVE  TypeOK'
<1> mirror \in [Crew -> MirrorRow] /\ screen[s] \in ScreenState /\ sheet \in [Crew -> Mark]
  BY DEF TypeOK, MirrorRow, ScreenState
<1>1. CASE Open(s) \/ NoSignal(s)
  <2>1. mirror' \in [Crew -> MirrorRow]
    BY <1>1 DEF Open, NoSignal
  <2>2. [at |-> "asked", got |-> Blank, keep |-> {}] \in ScreenState
    BY BlankIsSheet DEF ScreenState
  <2> QED BY <1>1, <2>1, <2>2, BlankIsSheet, GoesTypes DEF Open, NoSignal
<1>2. CASE Answer(s)
  <2>1. [at |-> "answered", got |-> sheet, keep |-> {}] \in ScreenState
    BY DEF ScreenState
  <2> QED BY <1>2, <2>1, GoesTypes DEF Answer
<1>3. CASE Check(s)
  <2>1. [at |-> "checked", got |-> screen[s].got, keep |-> {w \in Crew : mirror[w].pending}] \in ScreenState
    BY DEF ScreenState
  <2> QED BY <1>3, <2>1, GoesTypes DEF Check
<1>4. CASE Write(s)
  <2>1. screen[s].got \in [Crew -> Mark]
    BY DEF ScreenState
  <2>2. mirror' \in [Crew -> MirrorRow]
    BY <1>4, <2>1 DEF Write, MirrorRow
  <2> QED BY <1>4, <2>2, BlankIsSheet, GoesTypes DEF Write
<1> QED BY <1>1, <1>2, <1>3, <1>4

LEMMA OfficeTypes ==
  ASSUME TypeOK, NEW w \in Crew, OfficeMarks(w)
  PROVE  TypeOK'
<1>1. marks + 1 \in Mark
  BY PhoneMirrorAssumption DEF OfficeMarks, TypeOK, Mark, NoMark
<1> QED BY <1>1 DEF OfficeMarks, phone, TypeOK

LEMMA CrashTypes == ASSUME TypeOK, Crash PROVE TypeOK'
<1>1. crashes' \in 0..MaxCrashes
  BY PhoneMirrorAssumption DEF Crash, TypeOK
<1>2. screen' \in [Screens -> ScreenState]
  BY BlankIsSheet DEF Crash
<1>3. cut' \subseteq Crew \X Mark
  <2>1. CASE saving = NoSave
    BY <2>1 DEF Crash, TypeOK
  <2>2. CASE saving # NoSave
    <3>1. saving \in Entries
      BY <2>2 DEF TypeOK
    <3>2. Pairs(saving) \subseteq Crew \X Mark
      BY <3>1, EntryMarks DEF Pairs
    <3> QED BY <2>2, <3>2 DEF Crash, TypeOK
  <2> QED BY <2>1, <2>2
<1> QED BY <1>1, <1>2, <1>3 DEF Crash, TypeOK, ScreenState

LEMMA TypeStep == TypeOK /\ [Next]_vars => TypeOK'
<1> SUFFICES ASSUME TypeOK, [Next]_vars PROVE TypeOK'
  OBVIOUS
<1>1. CASE UNCHANGED vars
  BY <1>1 DEF vars, phone, TypeOK
<1> QED BY <1>1, SavingTypes, DrainTypes, ScreenTypes, OfficeTypes, CrashTypes DEF Next

(* Types of the phone's tables, its screens and the server's sheet. *)
THEOREM MirrorTypes == Spec => []TypeOK
<1>1. Init => TypeOK
  BY BlankIsSheet, PhoneMirrorAssumption DEF Init, TypeOK, ScreenState, Mark, NoMark
<1>2. TypeOK /\ [Next]_vars => TypeOK'
  BY TypeStep
<1> QED BY <1>1, <1>2, PTL DEF Spec

-----------------------------------------------------------------------------
WasHeld(w, m) == m = NoMark \/ <<w, m>> \in reached
SeenWasHeld == \A w \in Crew : WasHeld(w, sheet[w]) /\ \A s \in Screens : WasHeld(w, screen[s].got[w])
ServedWasHeld == drain \in {"served", "cleared"} => Pairs(Head(queue)) \subseteq reached
QueuedBefore ==
  \A entry \in ToSet(queue) \cup ({saving} \ {NoSave}) : \A w \in DOMAIN entry : entry[w] <= marks
ClearedBeforeRemoved ==
  drain = "cleared" => \A w \in DOMAIN Head(queue) : mirror[w].pending => mirror[w].mark # Head(queue)[w]

(* The two halves of ShownIsKept. *)
UnsentWaits == \A w \in Crew : mirror[w].pending => Waits(w, mirror[w].mark)
SentWasHeld ==
  \A w \in Crew : ~mirror[w].pending =>
    LET m == mirror[w].mark
    IN m = NoMark \/ <<w, m>> \in reached \/ (<<w, m>> \in early /\ Waits(w, m))
KeptInv == SeenWasHeld /\ ServedWasHeld /\ QueuedBefore /\ ClearedBeforeRemoved /\ UnsentWaits /\ SentWasHeld

LEMMA CarriedIsPair ==
  ASSUME NEW entry, NEW w, NEW m, Carries(entry, w, m)
  PROVE  <<w, m>> \in Pairs(entry)
BY DEF Carries, Pairs

(* The outbox read as the entry in front and the rest. *)
LEMMA FrontAndRest ==
  ASSUME TypeOK, queue # <<>>
  PROVE  ToSet(queue) = {Head(queue)} \cup ToSet(Tail(queue))
<1>1. queue \in Seq(Entries)
  BY DEF TypeOK
<1>2. Len(queue) \in Nat \ {0} /\ DOMAIN queue = 1..Len(queue) /\ Head(queue) = queue[1]
  BY <1>1
<1>3. Len(Tail(queue)) = Len(queue) - 1 /\ DOMAIN Tail(queue) = 1..Len(queue) - 1
  BY <1>1
<1>4. \A i \in 1..Len(queue) - 1 : Tail(queue)[i] = queue[i + 1]
  BY <1>1
<1>5. ASSUME NEW i \in 1..Len(queue) PROVE queue[i] \in {Head(queue)} \cup ToSet(Tail(queue))
  <2>1. CASE i = 1
    BY <1>2, <2>1
  <2>2. CASE i # 1
    <3>1. i - 1 \in 1..Len(queue) - 1 /\ (i - 1) + 1 = i
      BY <1>2, <2>2
    <3>2. Tail(queue)[i - 1] = queue[i]
      BY <1>4, <3>1
    <3> QED BY <1>3, <3>1, <3>2 DEF ToSet
  <2> QED BY <2>1, <2>2
<1>6. ASSUME NEW i \in 1..Len(queue) - 1 PROVE Tail(queue)[i] \in ToSet(queue)
  <2>1. i + 1 \in 1..Len(queue)
    BY <1>2
  <2> QED BY <1>2, <1>4, <2>1 DEF ToSet
<1>7. Head(queue) \in ToSet(queue)
  <2>1. 1 \in 1..Len(queue)
    BY <1>2
  <2> QED BY <1>2, <2>1 DEF ToSet
<1>8. ToSet(queue) \subseteq {Head(queue)} \cup ToSet(Tail(queue))
  BY <1>2, <1>5 DEF ToSet
<1>9. ToSet(Tail(queue)) \subseteq ToSet(queue)
  BY <1>3, <1>6 DEF ToSet
<1> QED BY <1>7, <1>8, <1>9

(* Nothing shown changes, and what waits goes on waiting or has been on the server. *)
LEMMA StillShown ==
  ASSUME KeptInv, mirror' = mirror, reached \subseteq reached', early \subseteq early',
         \A w \in Crew : mirror[w].pending /\ Waits(w, mirror[w].mark) => Waits(w, mirror[w].mark)',
         \A w \in Crew : \A m : Waits(w, m) => Waits(w, m)' \/ <<w, m>> \in reached'
  PROVE  UnsentWaits' /\ SentWasHeld'
<1>1. \A w \in Crew : mirror[w].pending => Waits(w, mirror[w].mark)'
  BY DEF KeptInv, UnsentWaits
<1>2. \A w \in Crew : ~mirror[w].pending =>
        \/ mirror[w].mark = NoMark
        \/ <<w, mirror[w].mark>> \in reached'
        \/ <<w, mirror[w].mark>> \in early' /\ Waits(w, mirror[w].mark)'
  BY DEF KeptInv, SentWasHeld
<1>3. UnsentWaits'
  <2> SUFFICES ASSUME NEW w \in Crew, mirror'[w].pending PROVE Waits(w, mirror[w].mark)'
    BY DEF UnsentWaits
  <2> QED BY <1>1
<1>4. SentWasHeld'
  BY <1>2 DEF SentWasHeld, Waits, Kept
<1> QED BY <1>3, <1>4

LEMMA FrontIsQueued ==
  ASSUME TypeOK, queue # <<>>
  PROVE  Head(queue) \in Entries /\ Head(queue) \in ToSet(queue) /\ ToSet(queue) \subseteq Entries
<1>1. queue \in Seq(Entries)
  BY DEF TypeOK
<1>2. Head(queue) \in Entries
  BY <1>1
<1>3. Head(queue) \in ToSet(queue)
  BY FrontAndRest
<1>4. ToSet(queue) \subseteq Entries
  BY <1>1 DEF ToSet
<1> QED BY <1>2, <1>3, <1>4

LEMMA EntryNumbers ==
  ASSUME NEW entry \in Entries, NEW w \in DOMAIN entry
  PROVE  w \in Crew /\ entry[w] \in Nat /\ entry[w] # NoMark
BY PhoneMirrorAssumption DEF Entries, NoMark

LEMMA SaveKeeps ==
  ASSUME TypeOK, KeptInv, NEW ws \in SUBSET Crew \ {{}}, Save(ws)
  PROVE  KeptInv'
<1>1. SeenWasHeld' /\ ServedWasHeld'
  BY DEF Save, KeptInv, SeenWasHeld, ServedWasHeld, WasHeld
<1>2. marks \in Nat /\ marks + 1 \in 1..MaxMarks
  BY PhoneMirrorAssumption DEF Save, TypeOK, Mark, NoMark
<1>3. saving' \in Entries /\ saving' # NoSave
  BY <1>2, NoSaveAssumption DEF Save, Entries
<1>4. \A w, m : Waits(w, m) => Waits(w, m)'
  BY DEF Save, Waits, Kept, Carries
<1>5. ASSUME NEW w \in ws PROVE Waits(w, mirror[w].mark)' /\ mirror'[w].pending /\ mirror'[w].mark = marks + 1
  <2>1. w \in DOMAIN saving' /\ saving'[w] = marks + 1 /\ w \in Crew
    BY DEF Save
  <2>2. mirror'[w].mark = marks + 1 /\ mirror'[w].pending
    BY <2>1 DEF Save
  <2> QED BY <1>3, <2>1, <2>2 DEF Waits, Kept, Carries
<1>6. ASSUME NEW w \in Crew \ ws PROVE mirror'[w] = mirror[w]
  BY DEF Save
<1>7. UnsentWaits'
  <2> SUFFICES ASSUME NEW w \in Crew, mirror'[w].pending PROVE Waits(w, mirror[w].mark)'
    BY DEF UnsentWaits
  <2>1. CASE w \in ws
    BY <1>5, <2>1
  <2>2. CASE w \notin ws
    <3>1. mirror'[w] = mirror[w] /\ mirror[w].pending
      BY <1>6, <2>2
    <3>2. Waits(w, mirror[w].mark)
      BY <3>1 DEF KeptInv, UnsentWaits
    <3> QED BY <1>4, <3>1, <3>2
  <2> QED BY <2>1, <2>2
<1>8. SentWasHeld'
  <2> SUFFICES ASSUME NEW w \in Crew, ~mirror'[w].pending
               PROVE  \/ mirror'[w].mark = NoMark
                      \/ <<w, mirror'[w].mark>> \in reached'
                      \/ <<w, mirror'[w].mark>> \in early' /\ Waits(w, mirror[w].mark)'
    BY DEF SentWasHeld
  <2>1. mirror'[w] = mirror[w] /\ ~mirror[w].pending
    BY <1>5, <1>6
  <2>2. Waits(w, mirror[w].mark) => Waits(w, mirror[w].mark)'
    BY <1>4, <2>1
  <2> QED BY <2>1, <2>2 DEF KeptInv, SentWasHeld, Save
<1>9. QueuedBefore'
  <2> SUFFICES ASSUME NEW entry \in ToSet(queue) \cup {saving'}, NEW w \in DOMAIN entry
               PROVE  entry[w] <= marks + 1
    BY DEF QueuedBefore, Save
  <2>1. CASE entry \in ToSet(queue)
    <3>1. queue # <<>> /\ entry \in Entries
      BY <2>1 DEF TypeOK, ToSet
    <3>2. entry[w] \in Nat /\ entry[w] <= marks
      BY <2>1, <3>1, EntryNumbers DEF KeptInv, QueuedBefore
    <3> QED BY <1>2, <3>2
  <2>2. CASE entry = saving'
    BY <1>2, <2>2 DEF Save
  <2> QED BY <2>1, <2>2
<1>10. ClearedBeforeRemoved'
  <2> SUFFICES ASSUME drain = "cleared", NEW w \in DOMAIN Head(queue), mirror'[w].pending
               PROVE  mirror'[w].mark # Head(queue)[w]
    BY DEF ClearedBeforeRemoved, Save
  <2>1. Head(queue) \in Entries /\ Head(queue) \in ToSet(queue)
    BY FrontIsQueued DEF TypeOK
  <2>2. w \in Crew /\ Head(queue)[w] \in Nat /\ Head(queue)[w] <= marks
    BY <2>1, EntryNumbers DEF KeptInv, QueuedBefore
  <2>3. CASE w \in ws
    <3>1. mirror'[w].mark = marks + 1
      BY <1>5, <2>3
    <3> QED BY <1>2, <2>2, <3>1
  <2>4. CASE w \notin ws
    BY <1>6, <2>2, <2>4 DEF KeptInv, ClearedBeforeRemoved
  <2> QED BY <2>3, <2>4
<1> QED BY <1>1, <1>7, <1>8, <1>9, <1>10 DEF KeptInv

LEMMA EnqueueKeeps ==
  ASSUME TypeOK, KeptInv, Enqueue
  PROVE  KeptInv'
<1>1. queue \in Seq(Entries) /\ saving \in Entries /\ saving # NoSave
  BY DEF Enqueue, TypeOK
<1>2. ToSet(Append(queue, saving)) = ToSet(queue) \cup {saving}
  <2>1. \A i \in 1..Len(queue) : i \in 1..Len(Append(queue, saving)) /\ Append(queue, saving)[i] = queue[i]
    BY <1>1
  <2>2. Append(queue, saving)[Len(queue) + 1] = saving /\ Len(Append(queue, saving)) = Len(queue) + 1 /\ Len(queue) \in Nat
    BY <1>1
  <2>3. \A i \in 1..Len(Append(queue, saving)) : i \in 1..Len(queue) \/ i = Len(queue) + 1
    BY <2>2
  <2>4. Len(queue) + 1 \in 1..Len(Append(queue, saving))
    BY <2>2
  <2> QED BY <2>1, <2>2, <2>3, <2>4 DEF ToSet
<1>3. drain # "idle" => queue # <<>> /\ Head(queue') = Head(queue)
  BY <1>1 DEF Enqueue, TypeOK
<1>4. \A w, m : Waits(w, m) => Waits(w, m)'
  BY <1>2 DEF Enqueue, Waits, Kept, Carries
<1>5. SeenWasHeld' /\ ServedWasHeld' /\ ClearedBeforeRemoved'
  BY <1>3 DEF Enqueue, KeptInv, SeenWasHeld, ServedWasHeld, ClearedBeforeRemoved, WasHeld, Pairs
<1>6. QueuedBefore'
  BY <1>1, <1>2 DEF Enqueue, KeptInv, QueuedBefore
<1>7. UnsentWaits' /\ SentWasHeld'
  <2>1. UNCHANGED <<mirror, reached, early>>
    BY DEF Enqueue
  <2> QED BY <1>4, <2>1, StillShown
<1> QED BY <1>5, <1>6, <1>7 DEF KeptInv

(* The queue, and what waits, stay as they are. *)
LEMMA NothingQueued ==
  ASSUME KeptInv, UNCHANGED <<saving, queue, blocked, marks, cut>>
  PROVE  QueuedBefore' /\ \A w, m : Waits(w, m)' <=> Waits(w, m)
BY DEF KeptInv, QueuedBefore, Waits, Kept, Carries

LEMMA ClearKeeps ==
  ASSUME TypeOK, KeptInv, Clear
  PROVE  KeptInv'
<1> DEFINE entry == Head(queue)
<1>1. queue # <<>> /\ entry \in Entries
  BY FrontIsQueued DEF Clear, TypeOK
<1>2. SeenWasHeld' /\ ServedWasHeld'
  BY DEF Clear, KeptInv, SeenWasHeld, ServedWasHeld, WasHeld, Pairs
<1>3. QueuedBefore' /\ \A w, m : Waits(w, m)' <=> Waits(w, m)
  BY NothingQueued DEF Clear
<1>4. \A w \in DOMAIN entry : w \in Crew /\ <<w, entry[w]>> \in reached
  BY <1>1, EntryNumbers DEF Clear, KeptInv, ServedWasHeld, Pairs
<1>5. \A w \in Crew : mirror'[w].mark = mirror[w].mark /\ mirror'[w].pending = (mirror[w].pending /\ w \notin DOMAIN entry)
  BY DEF Clear, TypeOK
<1>6. ClearedBeforeRemoved'
  BY <1>4, <1>5 DEF Clear, ClearedBeforeRemoved
<1>7. UnsentWaits'
  <2> SUFFICES ASSUME NEW w \in Crew, mirror'[w].pending PROVE Waits(w, mirror[w].mark)'
    BY DEF UnsentWaits
  <2>1. mirror[w].pending /\ mirror'[w].mark = mirror[w].mark
    BY <1>5
  <2>2. Waits(w, mirror[w].mark)
    BY <2>1 DEF KeptInv, UnsentWaits
  <2> QED BY <1>3, <2>1, <2>2
<1>8. SentWasHeld'
  <2> SUFFICES ASSUME NEW w \in Crew, ~mirror'[w].pending
               PROVE  \/ mirror'[w].mark = NoMark
                      \/ <<w, mirror'[w].mark>> \in reached'
                      \/ <<w, mirror'[w].mark>> \in early' /\ Waits(w, mirror[w].mark)'
    BY DEF SentWasHeld
  <2>1. mirror'[w].mark = mirror[w].mark /\ reached' = reached /\ early \subseteq early'
    BY <1>5 DEF Clear
  <2>2. Waits(w, mirror[w].mark)' <=> Waits(w, mirror[w].mark)
    BY <1>3, <2>1
  <2>3. CASE ~mirror[w].pending
    BY <2>1, <2>2, <2>3 DEF KeptInv, SentWasHeld
  <2>4. CASE mirror[w].pending
    <3>1. w \in DOMAIN entry
      BY <1>5, <2>4
    <3>2. Waits(w, mirror[w].mark)
      BY <2>4 DEF KeptInv, UnsentWaits
    <3>3. mirror[w].mark = entry[w] \/ <<w, mirror[w].mark>> \in early'
      BY <2>4, <3>1 DEF Clear
    <3> QED BY <1>4, <2>1, <2>2, <3>1, <3>2, <3>3
  <2> QED BY <2>3, <2>4
<1> QED BY <1>2, <1>3, <1>6, <1>7, <1>8 DEF KeptInv

(* What leaves the outbox was served and shows as sent, or is shown as refused. *)
LEMMA LeavingKeeps ==
  ASSUME TypeOK, KeptInv, RemoveSent \/ Block
  PROVE  KeptInv'
<1>1. queue # <<>> /\ queue' = Tail(queue) /\ drain' = "idle" /\ blocked \subseteq blocked'
      /\ UNCHANGED <<mirror, saving, screen, sheet, marks, reached, cut, early>>
  BY DEF RemoveSent, Block, TypeOK
<1>2. ToSet(queue) = {Head(queue)} \cup ToSet(queue')
  BY <1>1, FrontAndRest
<1>3. SeenWasHeld' /\ ServedWasHeld' /\ ClearedBeforeRemoved'
  BY <1>1 DEF KeptInv, SeenWasHeld, ServedWasHeld, ClearedBeforeRemoved, WasHeld
<1>4. QueuedBefore'
  BY <1>1, <1>2 DEF KeptInv, QueuedBefore
<1>5. \A w, m : Waits(w, m) => Carries(Head(queue), w, m) \/ Waits(w, m)'
  BY <1>1, <1>2 DEF Waits, Kept, Carries
<1>6. CASE Block
  <2>1. \A w, m : Waits(w, m) => Waits(w, m)'
    BY <1>5, <1>6 DEF Block, Waits, Kept, Carries
  <2> QED BY <1>1, <1>3, <1>4, <2>1, StillShown DEF KeptInv
<1>7. CASE RemoveSent
  <2>1. \A w, m : Carries(Head(queue), w, m) => <<w, m>> \in reached
    BY <1>7, CarriedIsPair DEF RemoveSent, KeptInv, ServedWasHeld
  <2>2. \A w, m : Waits(w, m) => Waits(w, m)' \/ <<w, m>> \in reached'
    BY <1>1, <1>5, <2>1
  <2>3. \A w \in Crew : mirror[w].pending => ~Carries(Head(queue), w, mirror[w].mark)
    BY <1>7 DEF RemoveSent, KeptInv, ClearedBeforeRemoved, Carries
  <2>4. \A w \in Crew : mirror[w].pending /\ Waits(w, mirror[w].mark) => Waits(w, mirror[w].mark)'
    BY <1>1, <1>5, <2>3
  <2> QED BY <1>1, <1>3, <1>4, <2>2, <2>4, StillShown DEF KeptInv
<1> QED BY <1>6, <1>7

LEMMA DrainKeeps ==
  ASSUME TypeOK, KeptInv, Send \/ Serve \/ GiveUp \/ Refuse
  PROVE  KeptInv'
<1>1. QueuedBefore' /\ (\A w, m : Waits(w, m)' <=> Waits(w, m)) /\ UNCHANGED <<mirror, early>>
  BY NothingQueued DEF Send, Serve, GiveUp, Refuse
<1>2. CASE Send \/ GiveUp \/ Refuse
  <2>1. SeenWasHeld' /\ ServedWasHeld' /\ ClearedBeforeRemoved' /\ reached' = reached
    BY <1>2 DEF Send, GiveUp, Refuse, KeptInv, SeenWasHeld, ServedWasHeld, ClearedBeforeRemoved, WasHeld
  <2> QED BY <1>1, <2>1, StillShown DEF KeptInv
<1>3. CASE Serve
  <2>1. reached' = reached \cup Pairs(Head(queue)) /\ drain' = "served" /\ UNCHANGED <<queue, screen>>
    BY <1>3 DEF Serve
  <2>2. SeenWasHeld'
    BY <1>3, <2>1 DEF Serve, Pairs, TypeOK, KeptInv, SeenWasHeld, WasHeld
  <2>3. ServedWasHeld' /\ ClearedBeforeRemoved'
    BY <2>1 DEF ServedWasHeld, ClearedBeforeRemoved, Pairs
  <2> QED BY <1>1, <2>1, <2>2, <2>3, StillShown DEF KeptInv
<1> QED BY <1>2, <1>3

LEMMA ScreenKeeps ==
  ASSUME TypeOK, KeptInv, NEW s \in Screens, Open(s) \/ Answer(s) \/ NoSignal(s) \/ Check(s) \/ Write(s)
  PROVE  KeptInv'
<1>1. UNCHANGED <<saving, queue, blocked, drain, sheet, marks, crashes, reached, cut, early>>
  BY DEF Open, Answer, NoSignal, Check, Write, Goes
<1>2. ServedWasHeld' /\ QueuedBefore' /\ (\A w, m : Waits(w, m)' <=> Waits(w, m))
  BY <1>1, NothingQueued DEF KeptInv, ServedWasHeld, Pairs
<1>3. \A t \in Screens : screen'[t].got \in {screen[t].got, sheet, Blank}
  BY DEF Open, Answer, NoSignal, Check, Write, Goes, Closed, TypeOK
<1>4. \A w \in Crew, t \in Screens : WasHeld(w, screen'[t].got[w])
  <2> SUFFICES ASSUME NEW w \in Crew, NEW t \in Screens PROVE WasHeld(w, screen'[t].got[w])
    OBVIOUS
  <2>1. WasHeld(w, screen[t].got[w]) /\ WasHeld(w, sheet[w]) /\ WasHeld(w, Blank[w])
    BY DEF KeptInv, SeenWasHeld, WasHeld, Blank
  <2> QED BY <1>3, <2>1
<1>5. SeenWasHeld'
  BY <1>1, <1>4 DEF KeptInv, SeenWasHeld, WasHeld
<1>6. \A w \in Crew : mirror'[w] = mirror[w] \/ (WasHeld(w, mirror'[w].mark) /\ ~mirror'[w].pending)
  <2>1. CASE Write(s)
    BY <2>1 DEF Write, KeptInv, SeenWasHeld
  <2>2. CASE mirror' = mirror
    BY <2>2
  <2> QED BY <2>1, <2>2 DEF Open, Answer, NoSignal, Check
<1>7. ClearedBeforeRemoved'
  <2> SUFFICES ASSUME drain = "cleared", NEW w \in DOMAIN Head(queue), mirror'[w].pending
               PROVE  mirror'[w].mark # Head(queue)[w]
    BY <1>1 DEF ClearedBeforeRemoved
  <2>1. w \in Crew
    BY FrontIsQueued, EntryNumbers DEF TypeOK
  <2> QED BY <1>6, <2>1 DEF KeptInv, ClearedBeforeRemoved
<1>8. UnsentWaits'
  <2> SUFFICES ASSUME NEW w \in Crew, mirror'[w].pending PROVE Waits(w, mirror[w].mark)'
    BY DEF UnsentWaits
  <2>1. mirror'[w] = mirror[w]
    BY <1>6
  <2>2. Waits(w, mirror[w].mark)
    BY <2>1 DEF KeptInv, UnsentWaits
  <2> QED BY <1>2, <2>1, <2>2
<1>9. SentWasHeld'
  <2> SUFFICES ASSUME NEW w \in Crew, ~mirror'[w].pending
               PROVE  \/ mirror'[w].mark = NoMark
                      \/ <<w, mirror'[w].mark>> \in reached'
                      \/ <<w, mirror'[w].mark>> \in early' /\ Waits(w, mirror[w].mark)'
    BY DEF SentWasHeld
  <2>1. CASE mirror'[w] = mirror[w]
    <3>1. Waits(w, mirror[w].mark)' <=> Waits(w, mirror[w].mark)
      BY <1>2, <2>1
    <3> QED BY <1>1, <2>1, <3>1 DEF KeptInv, SentWasHeld
  <2>2. CASE WasHeld(w, mirror'[w].mark)
    BY <1>1, <2>2 DEF WasHeld
  <2> QED BY <1>6, <2>1, <2>2
<1> QED BY <1>2, <1>5, <1>7, <1>8, <1>9 DEF KeptInv

LEMMA OthersKeep ==
  ASSUME TypeOK, KeptInv, (\E w \in Crew : OfficeMarks(w)) \/ Crash
  PROVE  KeptInv'
<1>1. ASSUME NEW v \in Crew, OfficeMarks(v) PROVE KeptInv'
  <2>1. UNCHANGED <<mirror, saving, queue, blocked, drain, screen, cut, early>> /\ reached \subseteq reached'
        /\ marks' = marks + 1
    BY <1>1 DEF OfficeMarks, phone
  <2>2. SeenWasHeld' /\ ServedWasHeld' /\ ClearedBeforeRemoved'
    BY <1>1, <2>1 DEF OfficeMarks, TypeOK, KeptInv, SeenWasHeld, ServedWasHeld, ClearedBeforeRemoved, WasHeld, Pairs
  <2>3. QueuedBefore'
    <3> SUFFICES ASSUME NEW entry \in ToSet(queue) \cup ({saving} \ {NoSave}), NEW w \in DOMAIN entry
                 PROVE  entry[w] <= marks + 1
      BY <2>1 DEF QueuedBefore
    <3>1. entry \in Entries
      <4>1. CASE entry \in ToSet(queue)
        <5>1. queue # <<>>
          BY <4>1 DEF TypeOK, ToSet
        <5> QED BY <4>1, <5>1, FrontIsQueued
      <4>2. CASE entry \notin ToSet(queue)
        BY <4>2 DEF TypeOK
      <4> QED BY <4>1, <4>2
    <3>2. entry[w] \in Nat /\ entry[w] <= marks /\ marks \in Nat
      BY <3>1, EntryNumbers, PhoneMirrorAssumption DEF KeptInv, QueuedBefore, TypeOK, Mark, NoMark
    <3> QED BY <3>2
  <2>4. \A w, m : Waits(w, m)' <=> Waits(w, m)
    BY <2>1 DEF Waits, Kept, Carries
  <2>5. UnsentWaits' /\ SentWasHeld'
    BY <2>1, <2>4, StillShown
  <2> QED BY <2>2, <2>3, <2>5 DEF KeptInv
<1>2. CASE Crash
  <2>1. UNCHANGED <<mirror, queue, blocked, sheet, marks, reached, early>> /\ saving' = NoSave /\ drain' = "idle"
    BY <1>2 DEF Crash
  <2>2. SeenWasHeld' /\ ServedWasHeld' /\ ClearedBeforeRemoved' /\ QueuedBefore'
    BY <1>2, <2>1 DEF Crash, Closed, Blank, KeptInv, SeenWasHeld, ServedWasHeld, ClearedBeforeRemoved, QueuedBefore, WasHeld
  <2>3. \A w, m : Waits(w, m) => Waits(w, m)'
    BY <1>2, <2>1, CarriedIsPair DEF Crash, Waits, Kept, Carries
  <2>4. UnsentWaits' /\ SentWasHeld'
    BY <2>1, <2>3, StillShown
  <2> QED BY <2>2, <2>4 DEF KeptInv
<1> QED BY <1>1, <1>2

(* ShownIsKept: whatever the taps, the pulls, the lost answers and the crashes, a mark shown as  *)
(* unsent is in the outbox, or one the app died before queueing, and a mark shown as sent was on *)
(* the server, or is one marked again over a mark that was sent, and is in the outbox still.     *)
THEOREM MarksShownAreKept == Spec => []ShownIsKept
<1>1. Init => KeptInv
  <2> SUFFICES ASSUME Init PROVE KeptInv
    OBVIOUS
  <2>1. ToSet(queue) = {} /\ {saving} \ {NoSave} = {}
    BY DEF Init, ToSet
  <2> QED BY <2>1 DEF Init, Blank, Closed, KeptInv, SeenWasHeld, ServedWasHeld, WasHeld, QueuedBefore,
                      ClearedBeforeRemoved, UnsentWaits, SentWasHeld
<1>2. TypeOK /\ KeptInv /\ [Next]_vars => KeptInv'
  <2> SUFFICES ASSUME TypeOK, KeptInv, [Next]_vars PROVE KeptInv'
    OBVIOUS
  <2>1. CASE UNCHANGED vars
    BY <2>1 DEF vars, phone, KeptInv, SeenWasHeld, ServedWasHeld, WasHeld, QueuedBefore, ClearedBeforeRemoved,
                UnsentWaits, SentWasHeld, Waits, Kept, Carries, Pairs
  <2> QED BY <2>1, SaveKeeps, EnqueueKeeps, DrainKeeps, ClearKeeps, LeavingKeeps, ScreenKeeps, OthersKeep DEF Next
<1>3. KeptInv => ShownIsKept
  BY DEF KeptInv, UnsentWaits, SentWasHeld, ShownIsKept
<1> QED BY <1>1, <1>2, <1>3, MirrorTypes, PTL DEF Spec
=============================================================================
