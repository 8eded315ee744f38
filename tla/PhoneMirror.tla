---------------------------- MODULE PhoneMirror ----------------------------
(***************************************************************************)
(* The roll call on the phone (OfflineRepository, SyncEngine): the marks   *)
(* it shows for one site and day are a local table, written by a tap, by   *)
(* what the server answers when the screen is opened, and by the outbox    *)
(* once an entry is accepted.  The three run on one event loop and         *)
(* interleave at every await; the app may die between any two of them; the *)
(* office marks the same day on the server.  Marks are numbered in the     *)
(* order they are made; the session is not modelled here, see Outbox.      *)
(***************************************************************************)
EXTENDS Naturals, SequencesExt

CONSTANTS Crew,
          Screens,      \* openings of the roll call screen that may overlap
          NoSave,
          MaxMarks,     \* bound on the marks made, by the phone and the office together
          MaxCrashes    \* bound on how often the app dies

ASSUME PhoneMirrorAssumption == MaxMarks \in Nat /\ MaxCrashes \in Nat

VARIABLES mirror,    \* MirroredAttendance: of each worker, the mark shown and whether it is unsent
          saving,    \* a roll call on its way from the local table to the outbox
          queue,     \* the outbox, oldest first; an entry is the marks it carries
          blocked,   \* the entries the server refused
          drain,     \* where `_send' is with the entry in front
          screen,    \* each opening: where it is, the server's answer, the rows it will not touch
          sheet,     \* the server's rows
          marks, crashes,
          reached,   \* every mark a row of the server has held
          cut,       \* marks the app died between writing and queueing
          early      \* marks that stopped showing as unsent when an older one of the worker was sent

phone == <<mirror, saving, queue, blocked, drain, screen>>
vars == <<phone, sheet, marks, crashes, reached, cut, early>>

NoMark == 0
Mark == NoMark..MaxMarks
Entries == UNION {[ws -> 1..MaxMarks] : ws \in SUBSET Crew \ {{}}}
ASSUME NoSaveAssumption == NoSave \notin Entries

Blank == [w \in Crew |-> NoMark]
Closed == [at |-> "closed", got |-> Blank, keep |-> {}]

TypeOK ==
  /\ mirror \in [Crew -> [mark : Mark, pending : BOOLEAN]]
  /\ saving \in Entries \cup {NoSave}
  /\ queue \in Seq(Entries) /\ blocked \subseteq Entries
  /\ drain \in {"idle", "out", "served", "cleared", "refused"} /\ (drain # "idle" => queue # <<>>)
  /\ screen \in [Screens -> [at : {"closed", "asked", "answered", "checked"},
                             got : [Crew -> Mark], keep : SUBSET Crew]]
  /\ sheet \in [Crew -> Mark] /\ marks \in Mark /\ crashes \in 0..MaxCrashes
  /\ reached \subseteq Crew \X Mark /\ cut \subseteq Crew \X Mark
  /\ early \subseteq Crew \X Mark

Init ==
  /\ mirror = [w \in Crew |-> [mark |-> NoMark, pending |-> FALSE]]
  /\ saving = NoSave /\ queue = <<>> /\ blocked = {} /\ drain = "idle"
  /\ screen = [s \in Screens |-> Closed]
  /\ sheet = Blank /\ marks = 0 /\ crashes = 0 /\ reached = {} /\ cut = {} /\ early = {}

Carries(entry, w, m) == w \in DOMAIN entry /\ entry[w] = m
Pairs(entry) == {<<w, entry[w]>> : w \in DOMAIN entry}

-----------------------------------------------------------------------------
(* saveRollCall: the local rows first, the outbox entry after them. *)

Save(ws) ==
  /\ saving = NoSave /\ marks < MaxMarks
  /\ marks' = marks + 1
  /\ saving' = [w \in ws |-> marks + 1]
  /\ mirror' = [w \in Crew |-> IF w \in ws THEN [mark |-> marks + 1, pending |-> TRUE] ELSE mirror[w]]
  /\ UNCHANGED <<queue, blocked, drain, screen, sheet, crashes, reached, cut, early>>

Enqueue ==
  /\ saving # NoSave
  /\ queue' = Append(queue, saving)
  /\ saving' = NoSave
  /\ UNCHANGED <<mirror, blocked, drain, screen, sheet, marks, crashes, reached, cut, early>>

-----------------------------------------------------------------------------
(* _drain and _send. *)

Send ==
  /\ drain = "idle" /\ queue # <<>>
  /\ drain' = "out"
  /\ UNCHANGED <<mirror, saving, queue, blocked, screen, sheet, marks, crashes, reached, cut, early>>

(* The rows of the entry are upserted; a repeated entry says the same. *)
Serve ==
  LET entry == Head(queue)
  IN /\ drain = "out"
     /\ sheet' = [w \in Crew |-> IF w \in DOMAIN entry THEN entry[w] ELSE sheet[w]]
     /\ reached' = reached \cup Pairs(entry)
     /\ drain' = "served"
     /\ UNCHANGED <<mirror, saving, queue, blocked, screen, marks, crashes, cut, early>>

(* The entry, or its answer, is lost: it waits for the next drain. *)
GiveUp ==
  /\ drain \in {"out", "served"}
  /\ drain' = "idle"
  /\ UNCHANGED <<mirror, saving, queue, blocked, screen, sheet, marks, crashes, reached, cut, early>>

ForgetToClear ==
  /\ drain = "served"
  /\ drain' = "cleared"
  /\ UNCHANGED <<mirror, saving, queue, blocked, screen, sheet, marks, crashes, reached, cut, early>>

(* The whole day stops showing as unsent, as it once did. *)
ClearWholeDay ==
  /\ drain = "served"
  /\ mirror' = [w \in Crew |-> [mark |-> mirror[w].mark, pending |-> FALSE]]
  /\ drain' = "cleared"
  /\ UNCHANGED <<saving, queue, blocked, screen, sheet, marks, crashes, reached, cut, early>>

(* Only the workers this entry carried stop showing as unsent, marked again since or not. *)
Clear ==
  LET entry == Head(queue)
      again == {w \in DOMAIN entry : mirror[w].pending /\ mirror[w].mark # entry[w]}
  IN /\ drain = "served"
     /\ mirror' = [w \in Crew |->
          IF w \in DOMAIN entry THEN [mark |-> mirror[w].mark, pending |-> FALSE] ELSE mirror[w]]
     /\ early' = early \cup {<<w, mirror[w].mark>> : w \in again}
     /\ drain' = "cleared"
     /\ UNCHANGED <<saving, queue, blocked, screen, sheet, marks, crashes, reached, cut>>

RemoveSent ==
  /\ drain = "cleared"
  /\ queue' = Tail(queue) /\ drain' = "idle"
  /\ UNCHANGED <<mirror, saving, blocked, screen, sheet, marks, crashes, reached, cut, early>>

Refuse ==
  /\ drain = "out"
  /\ drain' = "refused"
  /\ UNCHANGED <<mirror, saving, queue, blocked, screen, sheet, marks, crashes, reached, cut, early>>

DropRefused ==
  /\ drain = "refused"
  /\ queue' = Tail(queue) /\ drain' = "idle"
  /\ UNCHANGED <<mirror, saving, blocked, screen, sheet, marks, crashes, reached, cut, early>>

Block ==
  /\ drain = "refused"
  /\ blocked' = blocked \cup {Head(queue)} /\ queue' = Tail(queue) /\ drain' = "idle"
  /\ UNCHANGED <<mirror, saving, screen, sheet, marks, crashes, reached, cut, early>>

-----------------------------------------------------------------------------
(* rollCall: the screen asks the server, then looks for rows of its own, then writes the rest. *)

Goes(s, record) ==
  /\ screen' = [screen EXCEPT ![s] = record]
  /\ UNCHANGED <<saving, queue, blocked, drain, sheet, marks, crashes, reached, cut, early>>

Open(s) ==
  /\ screen[s].at = "closed"
  /\ Goes(s, [at |-> "asked", got |-> Blank, keep |-> {}]) /\ UNCHANGED mirror

Answer(s) ==
  /\ screen[s].at = "asked"
  /\ Goes(s, [at |-> "answered", got |-> sheet, keep |-> {}]) /\ UNCHANGED mirror

NoSignal(s) ==
  /\ screen[s].at = "asked"
  /\ Goes(s, Closed) /\ UNCHANGED mirror

(* What is unsent is this phone's, and the server's older answer must not replace it. *)
Check(s) ==
  /\ screen[s].at = "answered"
  /\ Goes(s, [at |-> "checked", got |-> screen[s].got, keep |-> {w \in Crew : mirror[w].pending}])
  /\ UNCHANGED mirror

Write(s) ==
  LET given(w) == w \notin screen[s].keep /\ screen[s].got[w] # NoMark
  IN /\ screen[s].at = "checked"
     /\ mirror' = [w \in Crew |->
          IF given(w) THEN [mark |-> screen[s].got[w], pending |-> FALSE] ELSE mirror[w]]
     /\ Goes(s, Closed)

-----------------------------------------------------------------------------
OfficeMarks(w) ==
  /\ marks < MaxMarks
  /\ marks' = marks + 1
  /\ sheet' = [sheet EXCEPT ![w] = marks + 1]
  /\ reached' = reached \cup {<<w, marks + 1>>}
  /\ UNCHANGED <<phone, crashes, cut, early>>

(* The app dies, with a roll call that was not queued yet, and is opened again. *)
Crash ==
  /\ crashes < MaxCrashes
  /\ crashes' = crashes + 1
  /\ saving' = NoSave /\ drain' = "idle" /\ screen' = [s \in Screens |-> Closed]
  /\ cut' = IF saving = NoSave THEN cut ELSE cut \cup Pairs(saving)
  /\ UNCHANGED <<mirror, queue, blocked, sheet, marks, reached, early>>

Next ==
  \/ \E ws \in SUBSET Crew \ {{}} : Save(ws)
  \/ Enqueue \/ Send \/ Serve \/ GiveUp \/ Clear \/ RemoveSent \/ Refuse \/ Block
  \/ \E s \in Screens : Open(s) \/ Answer(s) \/ NoSignal(s) \/ Check(s) \/ Write(s)
  \/ \E w \in Crew : OfficeMarks(w)
  \/ Crash

Spec == Init /\ [][Next]_vars

(* The event loop runs; the network works once in a while; the screen is opened now and then. *)
Fairness ==
  /\ WF_vars(Enqueue) /\ WF_vars(Send) /\ WF_vars(RemoveSent) /\ WF_vars(Block)
  /\ SF_vars(Serve \/ Refuse) /\ SF_vars(Clear)
  /\ \A s \in Screens : WF_vars(Open(s)) /\ SF_vars(Answer(s)) /\ WF_vars(Check(s)) /\ WF_vars(Write(s))

FairSpec == Spec /\ Fairness

-----------------------------------------------------------------------------
Kept(w, m) == \E entry \in ToSet(queue) \cup blocked \cup ({saving} \ {NoSave}) : Carries(entry, w, m)

Waits(w, m) == Kept(w, m) \/ <<w, m>> \in cut

(* A mark that shows as unsent is in the outbox, where it is counted as waiting or shown as      *)
(* refused, and one that shows as sent is one the server has held: "somebody would believe a day *)
(* was recorded that had not been".  Two cases are left out: the marks the app died with before  *)
(* they were queued, and a worker marked again before the first mark was sent, whose second mark *)
(* shows as sent with the first (ShownAsSentWasSent) but is in the outbox until it is.           *)
ShownIsKept ==
  \A w \in Crew :
    LET m == mirror[w].mark
    IN m # NoMark => IF mirror[w].pending THEN Waits(w, m)
                     ELSE <<w, m>> \in reached \/ (<<w, m>> \in early /\ Waits(w, m))

(* However the taps, the answers and the acceptances interleaved, the phone ends up showing what  *)
(* the server has, but for marks it shows as unsent that were refused or never queued.            *)
Agrees(w) ==
  \/ mirror[w].mark = sheet[w] /\ ~mirror[w].pending
  \/ mirror[w].pending /\ (<<w, mirror[w].mark>> \in cut \/ \E entry \in blocked : Carries(entry, w, mirror[w].mark))
EventuallyAgrees == <>[](\A w \in Crew : Agrees(w))

-----------------------------------------------------------------------------
(* What the repository says and the code does not do. *)

(* "Overwriting it with the server's older answer would erase a mark somebody made minutes ago." *)
NotErased == [][\A w \in Crew : mirror'[w].mark >= mirror[w].mark \/ <<w, mirror[w].mark>> \in reached]_vars

(* "Sending the first batch would stop the other three showing as unsent while they were still *)
(* sitting in the queue": no mark shows as sent that the server never held.                    *)
ShownAsSentWasSent ==
  \A w \in Crew : mirror[w].mark # NoMark /\ ~mirror[w].pending => <<w, mirror[w].mark>> \in reached

(* "Either recorded the mark and the intent to send it, or neither." *)
BothOrNeither == cut = {}
=============================================================================
