----------------------------- MODULE Idempotency -----------------------------
(***************************************************************************)
(* One Idempotency-Key of one API key (IdempotencyInterceptor), and the    *)
(* calls that carry it: a first call and its retries, some of them for a   *)
(* different request by a caller's mistake, at the same time or a day      *)
(* later.  The write a call asks for (POST /expenses is the only one)      *)
(* commits on its own; storing its answer under the key comes after.       *)
(***************************************************************************)
EXTENDS Naturals, FiniteSets

CONSTANTS Calls, Bodies, NoCall,
          MaxDeaths    \* bound on the calls whose process dies

ASSUME CallAssumption == NoCall \notin Calls /\ MaxDeaths \in Nat

VARIABLES key,       \* the row of the key: who reserved it, for what, and the answer stored
          call,      \* each call: where it is, its request, what it was told
          done,      \* the calls whose write committed
          earlier,   \* those of a window of the key that is over
          deaths

keyVars == <<key, call, done, earlier, deaths>>

NoKey == [by |-> NoCall, answered |-> FALSE, old |-> FALSE]
Fresh(a) == [by |-> a, answered |-> FALSE, old |-> FALSE]
Live == {"running", "made", "failed"}       \* has reserved the key and is at work

KeyTypeOK ==
  /\ key \in [by : Calls \cup {NoCall}, answered : BOOLEAN, old : BOOLEAN]
  /\ call \in [Calls -> [at : Live \cup {"new", "arrived", "taken", "over", "dead"}, body : Bodies,
                         told : {"nothing", "made", "error", "in_progress", "key_reused", "replay"},
                         from : Calls \cup {NoCall}]]
  /\ done \in SUBSET Calls /\ earlier \in SUBSET Calls
  /\ deaths \in 0..MaxDeaths

KeyInit ==
  /\ key = NoKey
  /\ \E body \in [Calls -> Bodies] :
       call = [a \in Calls |-> [at |-> "new", body |-> body[a], told |-> "nothing", from |-> NoCall]]
  /\ done = {} /\ earlier = {}
  /\ deaths = 0

-----------------------------------------------------------------------------
Moves(a, stage) ==
  /\ call' = [call EXCEPT ![a].at = stage]
  /\ UNCHANGED deaths

Answered(a, told, from) ==
  /\ call' = [call EXCEPT ![a] = [at |-> "over", body |-> call[a].body, told |-> told, from |-> from]]
  /\ UNCHANGED deaths

Send(a) ==
  /\ call[a].at = "new"
  /\ Moves(a, "arrived")
  /\ UNCHANGED <<key, done, earlier>>

FreeForUnanswered == ~key.answered
Free == key = NoKey \/ key.old

(* A key older than a day is forgotten; a key nobody holds is reserved.  The insert and the *)
(* delete before it are one transaction, and the unique index lets one of two inserts in.   *)
Reserve(a) ==
  /\ call[a].at = "arrived"
  /\ IF Free
     THEN /\ key' = Fresh(a) /\ Moves(a, "running")
          /\ earlier' = IF key.old THEN done ELSE earlier
     ELSE UNCHANGED <<key, earlier>> /\ Moves(a, "taken")
  /\ UNCHANGED done

SameRequestUnlessAnswered(a) == key.answered \/ call[key.by].body = call[a].body
SameRequest(a) == call[key.by].body = call[a].body

(* The read after a refused insert: the key may have been released, or answered, meanwhile. *)
Lookup(a) ==
  /\ call[a].at = "taken"
  /\ IF key = NoKey THEN Answered(a, "in_progress", NoCall)
     ELSE IF ~SameRequest(a) THEN Answered(a, "key_reused", NoCall)
     ELSE IF ~key.answered THEN Answered(a, "in_progress", NoCall)
     ELSE Answered(a, "replay", key.by)
  /\ UNCHANGED <<key, done, earlier>>

(* The handler's write, in a transaction of its own. *)
Commit(a) ==
  /\ call[a].at = "running"
  /\ done' = done \cup {a}
  /\ Moves(a, "made")
  /\ UNCHANGED <<key, earlier>>

(* The handler throws, before its write or after it (reading the row back, storing the answer). *)
Fail(a) ==
  /\ call[a].at \in {"running", "made"}
  /\ Moves(a, "failed")
  /\ UNCHANGED <<key, done, earlier>>

Complete(a) ==
  /\ call[a].at = "made" /\ key.by = a
  /\ key' = [key EXCEPT !.answered = TRUE]
  /\ Answered(a, "made", a)
  /\ UNCHANGED <<done, earlier>>

(* Whatever failed, the key is released, and the caller may try again. *)
Release(a) ==
  /\ call[a].at = "failed"
  /\ key' = IF key.by = a THEN NoKey ELSE key
  /\ Answered(a, "error", NoCall)
  /\ UNCHANGED <<done, earlier>>

(* The process dies, or cannot reach the database any more. *)
CallDies(a) ==
  /\ call[a].at \in Live \cup {"arrived", "taken"} /\ deaths < MaxDeaths
  /\ call' = [call EXCEPT ![a].at = "dead"]
  /\ deaths' = deaths + 1
  /\ UNCHANGED <<key, done, earlier>>

(* A day passes; no call takes that long. *)
DayPasses ==
  /\ key # NoKey /\ \A a \in Calls : call[a].at \in {"new", "over", "dead"}
  /\ key' = [key EXCEPT !.old = TRUE]
  /\ UNCHANGED <<call, done, earlier, deaths>>

(* The hourly sweep of the worker forgets a key older than a day, answered or not. *)
Prune ==
  /\ key.old
  /\ key' = NoKey /\ earlier' = done
  /\ UNCHANGED <<call, done, deaths>>

KeyNext ==
  \/ \E a \in Calls :
       \/ Send(a) \/ Reserve(a) \/ Lookup(a)
       \/ Commit(a) \/ Fail(a) \/ Complete(a) \/ Release(a)
       \/ CallDies(a)
  \/ DayPasses
  \/ Prune

KeySpec == KeyInit /\ [][KeyNext]_keyVars

-----------------------------------------------------------------------------
(* What the interceptor promises. *)

(* A retry creates nothing twice: within a day of a key at most one write commits, however *)
(* the calls that carry it overlap, fail or die, besides those whose callers were told of  *)
(* an error.                                                                               *)
ToldOfError(a) == call[a].told = "error"
NothingTwice ==
  \A a, b \in done \ earlier : ~ToldOfError(a) /\ ~ToldOfError(b) => a = b

(* A replay is the answer to the same request, and that request's write is in the books. *)
ReplayIsTrue ==
  \A a \in Calls : call[a].told = "replay" =>
    call[a].from \in done /\ call[call[a].from].body = call[a].body

-----------------------------------------------------------------------------
(* Why: the key of a call at work is its own, and what was written under a key that is not *)
(* over was written by the call that holds it.                                             *)
KeyIsHeld ==
  /\ key.by = NoCall => key = NoKey
  /\ \A a \in Calls : call[a].at \in Live => key = Fresh(a)

OneWindow ==
  /\ \A a \in done \ earlier : a = key.by \/ ToldOfError(a)
  /\ key.answered => key.by \in done
  /\ \A a \in Calls :
       /\ call[a].at # "over" => call[a].told = "nothing"
       /\ call[a].at = "made" => a \in done

KeyInv == KeyTypeOK /\ KeyIsHeld /\ OneWindow /\ ReplayIsTrue

-----------------------------------------------------------------------------
(* What the interceptor's comment says and the code does not do: only a request that failed *)
(* releases its key, so a call that was told of an error has left nothing behind.           *)
ErrorsMadeNothing == \A a \in Calls : ToldOfError(a) => a \notin done
=============================================================================
