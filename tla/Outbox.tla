------------------------------- MODULE Outbox -------------------------------
(***************************************************************************)
(* The outbox of the phone (SyncEngine in core/db/sync.dart), the writes   *)
(* that end up in it, the session its requests travel under (ApiClient)    *)
(* and what the server does with what arrives.                             *)
(*                                                                         *)
(* A roll call is always queued.  The other writes (an indent, an expense, *)
(* a stock movement: Posts) are tried at once and queued when no answer    *)
(* comes.  A request can be lost, its answer can be lost, and one the      *)
(* phone has given up on can still reach the server or be half way through *)
(* there (`late': copies of one entry at one stage count as one).  Roll    *)
(* calls are numbered in the order they are made and are about the same    *)
(* worker and day.                                                         *)
(***************************************************************************)
EXTENDS Naturals, Sequences, SequencesExt

CONSTANTS RollCalls, Posts,
          Refusable,       \* what the server will always refuse (a 4xx that stays one)
          NoPost,
          Expiring,        \* can the session's access token expire?
          Throttling,      \* can the server answer 429?
          MaxCrashes       \* bound on how often the app dies

ASSUME ThingsAssumption ==
  /\ RollCalls \subseteq Nat \ {0} /\ RollCalls \cap Posts = {} /\ NoPost \notin Posts \cup RollCalls
ASSUME SwitchAssumption ==
  {Expiring, Throttling} \subseteq BOOLEAN /\ MaxCrashes \in Nat

VARIABLES queue,     \* unblocked outbox rows, oldest first
          blocked,   \* outbox rows marked blocked
          saved,     \* what the phone has told its user is saved or sent
          loop,      \* where `_drain' is, and its request; "dead" when the app is not running
          timer,     \* the retry timer is armed
          attempt,   \* the post being tried directly, and how far it got
          token,     \* the access token of the session
          late,      \* requests the phone gave up on that the server may still carry out
          cell,      \* the attendance row: the last roll call applied to it, 0 for none
          plain,     \* rows created without a client id, per post
          keyed,     \* rows created under the outbox entry's client id, per post
          reached,   \* history: what the server has accepted at some time
          crashes

phone == <<queue, blocked, saved, loop, timer, attempt, token>>
server == <<cell, plain, keyed, reached>>
vars == <<phone, late, server, crashes>>

Things == RollCalls \cup Posts
NoAttempt == [t |-> NoPost, at |-> "none"]
Waiting == ToSet(queue)
Alive == loop # "dead"

-----------------------------------------------------------------------------
(* The server. *)

(* A post under a client id nobody has used. *)
Insert(t) == keyed' = [keyed EXCEPT ![t] = @ + 1] /\ reached' = reached \cup {t}

InsertOnLookUpAlone(t) == Insert(t)

(* The unique index on the client id: what was not there at the look-up may be there now. *)
InsertUnlessThere(t) == IF keyed[t] = 0 THEN Insert(t) ELSE UNCHANGED <<keyed, reached>>

(* A roll call is an upsert, whatever client ids its rows carry. *)
Upsert(t) == cell' = t /\ reached' = reached \cup {t} /\ UNCHANGED <<plain, keyed>>

(* A post without a client id is simply made. *)
MakePlain(t) ==
  /\ plain' = [plain EXCEPT ![t] = @ + 1] /\ reached' = reached \cup {t}
  /\ UNCHANGED <<cell, keyed>>

(* A request abandoned earlier is carried out after all; nobody hears the answer. *)
ServeLate(m) ==
  /\ m \in late /\ late' = late \ {m}
  /\ \/ m.t \in RollCalls /\ Upsert(m.t)
     \/ m.t \in Posts /\ ~m.keyed /\ MakePlain(m.t)
     \/ m.looked /\ InsertUnlessThere(m.t) /\ UNCHANGED <<cell, plain>>
  /\ UNCHANGED <<phone, crashes>>

(* Its client id is looked up: the row is there and comes back, or the insert is next. *)
LookUpLate(m) ==
  /\ m \in late /\ m.t \in Posts /\ m.keyed /\ ~m.looked
  /\ late' = IF keyed[m.t] > 0 THEN late \ {m} ELSE (late \ {m}) \cup {[m EXCEPT !.looked = TRUE]}
  /\ UNCHANGED <<phone, server, crashes>>

(* The requests that are out. *)
Sending ==
  IF loop \in {"out", "looked"} THEN {[t |-> Head(queue), keyed |-> TRUE, looked |-> (loop = "looked")]} ELSE {}
Trying == IF attempt.at = "out" THEN {[t |-> attempt.t, keyed |-> FALSE, looked |-> FALSE]} ELSE {}

(* Nobody waits for these requests any more: each is lost, or is carried out later. *)
Abandon(ms) ==
  \E some \in SUBSET {m \in ms : m.looked \/ (token = "fresh" /\ m.t \notin Refusable)} :
    late' = late \cup some

-----------------------------------------------------------------------------
(* Recording things. *)

EnqueueInFront(t) ==
  /\ queue' = <<t>> \o queue
  /\ loop' = IF loop = "off" THEN "pick" ELSE loop

(* A row in the outbox table, the ids of which give the order; then drain(). *)
Enqueue(t) ==
  /\ queue' = Append(queue, t)
  /\ loop' = IF loop = "off" THEN "pick" ELSE loop

SaveRollCall(t) ==
  /\ Alive /\ t \notin saved
  /\ \A u \in RollCalls : u < t => u \in saved
  /\ Enqueue(t)
  /\ saved' = saved \cup {t}
  /\ UNCHANGED <<blocked, timer, attempt, token, late, server, crashes>>

(* _sendOrQueue: one direct request, without a client id. *)
TryPost(t) ==
  /\ Alive /\ attempt = NoAttempt /\ t \notin saved
  /\ plain[t] = 0 /\ \A m \in late : m.t # t
  /\ attempt' = [t |-> t, at |-> "out"]
  /\ UNCHANGED <<queue, blocked, saved, loop, timer, token, late, server, crashes>>

ServePost ==
  /\ attempt.at = "out" /\ token = "fresh" /\ attempt.t \notin Refusable
  /\ MakePlain(attempt.t)
  /\ attempt' = [attempt EXCEPT !.at = "ok"]
  /\ UNCHANGED <<queue, blocked, saved, loop, timer, token, late, crashes>>

(* A refusal has an answer in it: it is shown and not queued. *)
PostRefused ==
  /\ attempt.at = "out"
  /\ \/ (attempt.t \in Refusable \/ Throttling) /\ UNCHANGED token
     \/ token # "fresh" /\ token' = "none"          \* a 401, and the refresh failed
  /\ attempt' = NoAttempt
  /\ UNCHANGED <<queue, blocked, saved, loop, timer, late, server, crashes>>

PostAnswered ==
  /\ attempt.at = "ok"
  /\ saved' = saved \cup {attempt.t}
  /\ attempt' = NoAttempt
  /\ UNCHANGED <<queue, blocked, loop, timer, token, late, server, crashes>>

(* No answer: the write is queued, under a client id made for the entry. *)
QueuePost ==
  /\ attempt.at \in {"out", "ok"}
  /\ Enqueue(attempt.t)
  /\ saved' = saved \cup {attempt.t}
  /\ attempt' = NoAttempt
  /\ Abandon(Trying)
  /\ UNCHANGED <<blocked, timer, token, server, crashes>>

-----------------------------------------------------------------------------
(* _drain, one entry at a time, the oldest first. *)

(* The timer, coming back into signal, or the app coming to the foreground. *)
Wake ==
  /\ loop = "off" /\ (timer \/ queue # <<>>)
  /\ loop' = "pick"
  /\ timer' = FALSE
  /\ UNCHANGED <<queue, blocked, saved, attempt, token, late, server, crashes>>

NothingWaiting ==
  /\ loop = "pick" /\ queue = <<>>
  /\ loop' = "off" /\ timer' = FALSE
  /\ UNCHANGED <<queue, blocked, saved, attempt, token, late, server, crashes>>

DropRefused ==
  /\ queue' = Tail(queue)
  /\ UNCHANGED blocked

Block ==
  /\ blocked' = blocked \cup {Head(queue)}
  /\ queue' = Tail(queue)

SendFront ==
  /\ loop = "pick" /\ queue # <<>>
  /\ loop' = "out" /\ timer' = FALSE
  /\ UNCHANGED <<queue, blocked, saved, attempt, token, late, server, crashes>>

(* A 401: the token is refreshed and the request replayed. *)
Refresh ==
  /\ loop = "out" \/ attempt.at = "out"
  /\ token = "stale"
  /\ token' = "fresh"
  /\ UNCHANGED <<queue, blocked, saved, loop, timer, attempt, late, server, crashes>>

(* A 401 and the refresh fails, for want of a network too, or there is no session:       *)
(* signOutLocally, and the 401 is a 4xx.                                                 *)
Unauthorised ==
  /\ loop = "out" /\ token # "fresh"
  /\ token' = "none"
  /\ Block
  /\ loop' = "pick"
  /\ UNCHANGED <<saved, timer, attempt, late, server, crashes>>

ServeRollCall ==
  /\ loop = "out" /\ token = "fresh" /\ Head(queue) \in RollCalls \ Refusable
  /\ Upsert(Head(queue))
  /\ loop' = "ok"
  /\ UNCHANGED <<queue, blocked, saved, timer, attempt, token, late, crashes>>

LookUp ==
  /\ loop = "out" /\ token = "fresh" /\ Head(queue) \in Posts \ Refusable
  /\ loop' = IF keyed[Head(queue)] > 0 THEN "ok" ELSE "looked"
  /\ UNCHANGED <<queue, blocked, saved, timer, attempt, token, late, server, crashes>>

(* Another copy may have got in between: P2002, answered 409. *)
InsertLookedUp ==
  /\ loop = "looked"
  /\ InsertUnlessThere(Head(queue))
  /\ loop' = IF keyed[Head(queue)] = 0 THEN "ok" ELSE "conflict"
  /\ UNCHANGED <<queue, blocked, saved, timer, attempt, token, late, cell, plain, crashes>>

Refuse ==
  /\ loop = "out" /\ (Head(queue) \in Refusable \/ Throttling)
  /\ loop' = "refused"
  /\ UNCHANGED <<queue, blocked, saved, timer, attempt, token, late, server, crashes>>

Accepted ==
  /\ loop = "ok"
  /\ queue' = Tail(queue)
  /\ loop' = "pick"
  /\ UNCHANGED <<blocked, saved, timer, attempt, token, late, server, crashes>>

Refused ==
  /\ loop \in {"refused", "conflict"}
  /\ Block
  /\ loop' = "pick"
  /\ UNCHANGED <<saved, timer, attempt, token, late, server, crashes>>

StopWithoutRetry == loop' = "off" /\ UNCHANGED timer

StopAndRetry == loop' = "off" /\ timer' = TRUE

(* No answer, or a 5xx: the entry waits for the timer. *)
GiveUp ==
  /\ loop \in {"out", "looked", "ok"}
  /\ StopAndRetry
  /\ Abandon(Sending)
  /\ UNCHANGED <<queue, blocked, saved, attempt, token, server, crashes>>

-----------------------------------------------------------------------------
(* The session and the app itself. *)

Expire ==
  /\ Expiring /\ token = "fresh"
  /\ token' = "stale"
  /\ UNCHANGED <<queue, blocked, saved, loop, timer, attempt, late, server, crashes>>

(* A screen's own request meets the 401, and its refresh fails. *)
SessionLost ==
  /\ Alive /\ token = "stale"
  /\ token' = "none"
  /\ UNCHANGED <<queue, blocked, saved, loop, timer, attempt, late, server, crashes>>

SignIn ==
  /\ Alive /\ token = "none"
  /\ token' = "fresh"
  /\ UNCHANGED <<queue, blocked, saved, loop, timer, attempt, late, server, crashes>>

Crash ==
  /\ Alive /\ crashes < MaxCrashes
  /\ crashes' = crashes + 1
  /\ loop' = "dead" /\ timer' = FALSE /\ attempt' = NoAttempt
  /\ Abandon(Sending \cup Trying)
  /\ UNCHANGED <<queue, blocked, saved, token, server>>

(* SyncEngine.start drains what the last run left. *)
Start ==
  /\ loop = "dead"
  /\ loop' = "pick"
  /\ UNCHANGED <<queue, blocked, saved, timer, attempt, token, late, server, crashes>>

-----------------------------------------------------------------------------
Init ==
  /\ queue = <<>> /\ blocked = {} /\ saved = {}
  /\ loop = "off" /\ timer = FALSE
  /\ attempt = NoAttempt
  /\ token = "fresh"
  /\ late = {}
  /\ cell = 0
  /\ plain = [t \in Posts |-> 0]
  /\ keyed = [t \in Posts |-> 0]
  /\ reached = {}
  /\ crashes = 0

Recording ==
  \/ \E t \in RollCalls : SaveRollCall(t)
  \/ \E t \in Posts : TryPost(t)
  \/ ServePost \/ PostRefused \/ PostAnswered \/ QueuePost

Drain ==
  \/ Wake \/ NothingWaiting \/ SendFront \/ Refresh \/ Unauthorised
  \/ Accepted \/ Refused \/ GiveUp

Network ==
  \/ ServeRollCall \/ LookUp \/ InsertLookedUp \/ Refuse
  \/ \E m \in late : ServeLate(m) \/ LookUpLate(m)

Next == Recording \/ Drain \/ Network \/ Expire \/ SessionLost \/ SignIn \/ Crash \/ Start

Spec == Init /\ [][Next]_vars

(* The app's own steps happen: its event loop runs, its timer fires, it is opened again. *)
(* The network works once in a while: a request that keeps being sent is answered, and   *)
(* a session that keeps being refreshed is.                                              *)
Fairness ==
  /\ WF_vars(NothingWaiting) /\ WF_vars(SendFront) /\ WF_vars(Refused)
  /\ WF_vars(Wake /\ timer) /\ WF_vars(Start)
  /\ SF_vars(ServeRollCall \/ LookUp \/ Refuse) /\ SF_vars(InsertLookedUp) /\ SF_vars(Accepted)
  /\ SF_vars(loop = "out" /\ (Refresh \/ Unauthorised))

FairSpec == Spec /\ Fairness

-----------------------------------------------------------------------------
Requests == [t : Things, keyed : BOOLEAN, looked : BOOLEAN]

TypeOK ==
  /\ queue \in Seq(Things) /\ blocked \subseteq Things /\ saved \subseteq Things
  /\ loop \in {"dead", "off", "pick", "out", "looked", "ok", "refused", "conflict"} /\ timer \in BOOLEAN
  /\ attempt \in {NoAttempt} \cup [t : Posts, at : {"out", "ok"}]
  /\ token \in {"fresh", "stale", "none"}
  /\ late \subseteq Requests
  /\ cell \in RollCalls \cup {0}
  /\ plain \in [Posts -> Nat] /\ keyed \in [Posts -> Nat]
  /\ reached \subseteq Things
  /\ crashes \in 0 .. MaxCrashes
  /\ loop \in {"out", "looked", "ok", "refused", "conflict"} => queue # <<>>
  /\ loop = "looked" => Head(queue) \in Posts
  /\ \A m \in late : m.looked => m.t \in Posts /\ m.keyed

(* Never silently dropped: what the phone called saved is still in its outbox, waiting or *)
(* blocked where it can be seen, or the server has taken it.                              *)
NeverDropped == \A t \in saved : t \in Waiting \cup blocked \cup reached

(* Something is always going to send what waits: a drain that stops short leaves a timer. *)
NeverStranded == loop = "off" /\ queue # <<>> => timer

(* The client id: however often an entry is sent, and however its copies overlap on the *)
(* server, there is one row for it, and the row is there when the phone is told that the *)
(* entry was taken or that it exists already.                                            *)
OncePerEntry ==
  /\ \A t \in Posts : keyed[t] <= 1
  /\ loop \in {"ok", "conflict"} /\ Head(queue) \in Posts => keyed[Head(queue)] = 1

(* In order: what the phone sends, resends and sends after a restart never takes the     *)
(* server back from a correction to the roll call it corrects; only a copy the phone had *)
(* given up on does.                                                                     *)
OnlyLateGoesBack == [][cell' < cell => \E m \in late \ late' : cell' = m.t]_cell

(* Whatever waits leaves the queue: delivered, or blocked. *)
EventuallySettled == \A t \in Things : t \in Waiting ~> t \notin Waiting

(* What sync.dart promises and the code does not keep.  In order: a correction stays. *)
CorrectionStays == [][cell' >= cell]_cell

(* Once: a post is in the books once, tried directly and queued though it may have been. *)
AtMostOnce == \A t \in Posts : plain[t] + keyed[t] <= 1

(* Only what the server will keep refusing is blocked. *)
BlockedOnlyWhenRefused == blocked \subseteq Refusable

(* What is shown as refused has not been accepted. *)
BlockedIsNotAccepted == blocked \cap reached = {}
=============================================================================
