---------------------------- MODULE OutboxProofs ----------------------------
(***************************************************************************)
(* What the outbox guarantees for any number of roll calls and posts,      *)
(* whatever the network does: nothing waits without a timer, the client id *)
(* keeps one row, nothing saved is dropped, and only a copy the phone had  *)
(* given up on takes the server back to an older roll call.  The last      *)
(* rests on InOrder: the queue holds roll calls in the order they were     *)
(* made, and neither the server nor a late copy is ahead of what waits.    *)
(***************************************************************************)
EXTENDS Outbox, TLAPS

(* A roll call that no one in the queue is older than. *)
NotAhead(u) == \A i \in 1 .. Len(queue) : queue[i] \in RollCalls => u <= queue[i]

LateInOrder(ms) == \A m \in ms : m.t \in RollCalls => m.t \in saved /\ NotAhead(m.t)

InOrder ==
  /\ \A i, j \in 1 .. Len(queue) :
       i < j /\ queue[i] \in RollCalls /\ queue[j] \in RollCalls => queue[i] < queue[j]
  /\ \A i \in 1 .. Len(queue) : queue[i] \in RollCalls => queue[i] \in saved
  /\ NotAhead(cell) /\ (cell # 0 => cell \in saved)
  /\ LateInOrder(late)
  /\ \A t, u \in RollCalls : u < t /\ t \in saved => u \in saved

(* An answer the phone has seen, or is about to see, speaks of what the server took. *)
AnswersTrue ==
  /\ loop = "ok" => Head(queue) \in reached
  /\ attempt.at = "ok" => attempt.t \in reached
  /\ \A t \in Posts : keyed[t] > 0 => t \in reached

LEMMA AppendFacts ==
  ASSUME NEW S, NEW q \in Seq(S), NEW t \in S
  PROVE  /\ Append(q, t) \in Seq(S)
         /\ Len(Append(q, t)) = Len(q) + 1
         /\ \A i \in 1 .. Len(q) : Append(q, t)[i] = q[i]
         /\ Append(q, t)[Len(q) + 1] = t
         /\ Append(q, t) # <<>>
         /\ q # <<>> => Head(Append(q, t)) = Head(q)
         /\ ToSet(Append(q, t)) = ToSet(q) \cup {t}
<1>1. /\ Append(q, t) \in Seq(S)
      /\ Len(Append(q, t)) = Len(q) + 1
      /\ \A i \in 1 .. Len(q) : Append(q, t)[i] = q[i]
      /\ Append(q, t)[Len(q) + 1] = t
  OBVIOUS
<1>2. Append(q, t) # <<>> /\ (q # <<>> => Head(Append(q, t)) = Head(q))
  BY <1>1
<1>3. ToSet(Append(q, t)) = ToSet(q) \cup {t}
  BY <1>1 DEF ToSet
<1> QED BY <1>1, <1>2, <1>3

LEMMA TailFacts ==
  ASSUME NEW S, NEW q \in Seq(S), q # <<>>
  PROVE  /\ Tail(q) \in Seq(S)
         /\ Len(Tail(q)) = Len(q) - 1
         /\ \A i \in 1 .. Len(Tail(q)) : Tail(q)[i] = q[i + 1]
         /\ Len(q) \in Nat \ {0} /\ Head(q) = q[1] /\ Head(q) \in S
         /\ ToSet(q) = {Head(q)} \cup ToSet(Tail(q))
<1>1. /\ Tail(q) \in Seq(S)
      /\ Len(Tail(q)) = Len(q) - 1
      /\ \A i \in 1 .. Len(Tail(q)) : Tail(q)[i] = q[i + 1]
      /\ Len(q) \in Nat \ {0} /\ Head(q) = q[1] /\ Head(q) \in S
  OBVIOUS
<1>2. ASSUME NEW x PROVE x \in ToSet(q) <=> x \in {Head(q)} \cup ToSet(Tail(q))
  <2>1. ASSUME NEW i \in 1 .. Len(q), i # 1 PROVE i - 1 \in 1 .. Len(Tail(q)) /\ q[i] = Tail(q)[i - 1]
    BY <1>1, <2>1
  <2>2. ASSUME NEW i \in 1 .. Len(Tail(q)) PROVE i + 1 \in 1 .. Len(q) /\ Tail(q)[i] = q[i + 1]
    BY <1>1
  <2>3. ASSUME x \in ToSet(q) PROVE x \in {Head(q)} \cup ToSet(Tail(q))
    <3>1. PICK i \in 1 .. Len(q) : x = q[i]
      BY <1>1, <2>3 DEF ToSet
    <3>2. CASE i = 1
      BY <1>1, <3>1, <3>2
    <3>3. CASE i # 1
      <4>1. i - 1 \in 1 .. Len(Tail(q)) /\ x = Tail(q)[i - 1]
        BY <2>1, <3>1, <3>3
      <4>2. DOMAIN Tail(q) = 1 .. Len(Tail(q))
        BY <1>1
      <4>3. x \in ToSet(Tail(q))
        BY <4>1, <4>2 DEF ToSet
      <4> QED BY <4>3
    <3> QED BY <3>2, <3>3
  <2>4. ASSUME x \in {Head(q)} \cup ToSet(Tail(q)) PROVE x \in ToSet(q)
    <3>1. CASE x = Head(q)
      BY <1>1, <3>1 DEF ToSet
    <3>2. CASE x \in ToSet(Tail(q))
      <4>1. PICK i \in 1 .. Len(Tail(q)) : x = Tail(q)[i]
        BY <1>1, <3>2 DEF ToSet
      <4> QED BY <1>1, <2>2, <4>1 DEF ToSet
    <3> QED BY <2>4, <3>1, <3>2
  <2> QED BY <2>3, <2>4
<1> QED BY <1>1, <1>2

-----------------------------------------------------------------------------

LEMMA TypeInit == Init => TypeOK
<1> SUFFICES ASSUME Init PROVE TypeOK
  OBVIOUS
<1>1. plain \in [Posts -> Nat] /\ keyed \in [Posts -> Nat]
  BY DEF Init
<1>2. queue \in Seq(Things) /\ crashes \in 0 .. MaxCrashes
  BY SwitchAssumption DEF Init
<1> QED BY <1>1, <1>2 DEF Init, TypeOK

LEMMA InsertTypes ==
  ASSUME TypeOK, NEW t \in Posts, InsertUnlessThere(t)
  PROVE  keyed' \in [Posts -> Nat] /\ reached' \subseteq Things
BY DEF TypeOK, Things, InsertUnlessThere, Insert

LEMMA LateTypes ==
  ASSUME TypeOK, NEW ms \in SUBSET Requests, \A m \in ms : m.looked => m.t \in Posts /\ m.keyed, Abandon(ms)
  PROVE  late' \subseteq Requests /\ \A m \in late' : m.looked => m.t \in Posts /\ m.keyed
BY DEF TypeOK, Abandon

LEMMA OutTypes ==
  ASSUME TypeOK
  PROVE  /\ Sending \in SUBSET Requests /\ Trying \in SUBSET Requests
         /\ \A m \in Sending \cup Trying : m.looked => m.t \in Posts /\ m.keyed
<1>1. loop \in {"out", "looked"} => Head(queue) \in Things
  BY TailFacts DEF TypeOK
<1>2. attempt.at = "out" => attempt.t \in Things
  BY DEF TypeOK, NoAttempt, Things
<1>3. loop = "looked" => Head(queue) \in Posts
  BY DEF TypeOK
<1>4. Sending \in SUBSET Requests /\ Trying \in SUBSET Requests
  BY <1>1, <1>2 DEF Sending, Trying, Requests
<1>5. ASSUME NEW m \in Sending, m.looked PROVE m.t \in Posts /\ m.keyed
  <2>1. m = [t |-> Head(queue), keyed |-> TRUE, looked |-> (loop = "looked")]
    BY DEF Sending
  <2>2. loop = "looked"
    BY <1>5, <2>1, Zenon
  <2> QED BY <1>3, <2>1, <2>2
<1>6. \A m \in Trying : m.looked => m.t \in Posts /\ m.keyed
  BY DEF Trying
<1> QED BY <1>4, <1>5, <1>6

(* The entry an answer is about stays at the front until the answer is dealt with. *)
LEMMA FrontStays ==
  ASSUME TypeOK, [Next]_vars, loop' \in {"looked", "ok", "conflict"}
  PROVE  /\ queue # <<>> /\ Head(queue') = Head(queue)
         /\ loop' = loop \/ ServeRollCall \/ LookUp \/ InsertLookedUp
<1> USE DEF phone, server
<1>1. CASE Recording
  <2>1. loop = loop' /\ queue # <<>> /\ queue \in Seq(Things)
    BY <1>1 DEF Recording, SaveRollCall, TryPost, ServePost, PostRefused, PostAnswered, QueuePost, Enqueue, TypeOK
  <2>2. ASSUME NEW t \in Things, Enqueue(t) PROVE Head(queue') = Head(queue)
    BY <2>1, <2>2, AppendFacts DEF Enqueue
  <2>3. ASSUME NEW t \in RollCalls, SaveRollCall(t) PROVE Head(queue') = Head(queue)
    BY <2>2, <2>3 DEF SaveRollCall, Things
  <2>4. CASE QueuePost
    <3>1. attempt.t \in Things
      BY <2>4 DEF QueuePost, TypeOK, NoAttempt, Things
    <3> QED BY <2>1, <2>2, <2>4, <3>1 DEF QueuePost
  <2>5. CASE ServePost
    BY <2>1, <2>5 DEF ServePost
  <2> QED BY <1>1, <2>1, <2>3, <2>4, <2>5 DEF Recording, TryPost, PostRefused, PostAnswered
<1>2. CASE Drain
  <2>1. loop' = loop /\ queue' = queue /\ queue # <<>>
    BY <1>2 DEF Drain, Wake, NothingWaiting, SendFront, Refresh, Unauthorised, Accepted, Refused, GiveUp,
       StopAndRetry, TypeOK
  <2> QED BY <1>2, <2>1
<1>3. CASE Network
  <2>1. CASE ServeRollCall \/ LookUp \/ InsertLookedUp
    BY <2>1 DEF ServeRollCall, LookUp, InsertLookedUp, TypeOK
  <2>2. ~Refuse
    BY DEF Refuse
  <2>3. ASSUME NEW m \in late, ServeLate(m) \/ LookUpLate(m)
        PROVE  loop' = loop /\ queue' = queue /\ queue # <<>>
    BY <2>3 DEF ServeLate, LookUpLate, TypeOK
  <2> QED BY <1>3, <2>1, <2>2, <2>3 DEF Network
<1>4. CASE Expire \/ SessionLost \/ SignIn \/ Crash \/ Start
  BY <1>4 DEF Expire, SessionLost, SignIn, Crash, Start, TypeOK
<1>5. CASE UNCHANGED vars
  BY <1>5 DEF vars, TypeOK
<1> QED BY <1>1, <1>2, <1>3, <1>4, <1>5 DEF Next

LEMMA TypeStep == TypeOK /\ [Next]_vars => TypeOK'
<1> SUFFICES ASSUME TypeOK, [Next]_vars PROVE TypeOK'
  OBVIOUS
<1> USE DEF phone, server
<1>0. queue \in Seq(Things) /\ (queue # <<>> => Head(queue) \in Things /\ Tail(queue) \in Seq(Things))
  BY TailFacts DEF TypeOK
<1>7. loop' = "looked" /\ loop' = loop => Head(queue') \in Posts
  BY FrontStays DEF TypeOK
<1>1. CASE Recording
  <2>1. ASSUME NEW t \in RollCalls, SaveRollCall(t) PROVE TypeOK'
    <3>1. t \in Things /\ Append(queue, t) \in Seq(Things) /\ Append(queue, t) # <<>>
      BY <1>0, AppendFacts DEF Things
    <3> QED BY <1>7, <2>1, <3>1 DEF SaveRollCall, Enqueue, Alive, TypeOK
  <2>2. ASSUME NEW t \in Posts, TryPost(t) PROVE TypeOK'
    <3>1. attempt' \in [t : Posts, at : {"out", "ok"}]
      BY <2>2 DEF TryPost
    <3> QED BY <2>2, <3>1 DEF TryPost, TypeOK
  <2>3. CASE ServePost
    <3>1. attempt \in [t : Posts, at : {"out", "ok"}]
      BY <2>3 DEF ServePost, TypeOK, NoAttempt
    <3>2. attempt' \in [t : Posts, at : {"out", "ok"}]
      BY <2>3, <3>1 DEF ServePost
    <3>3. plain' \in [Posts -> Nat] /\ reached' \subseteq Things
      BY <2>3, <3>1 DEF ServePost, MakePlain, TypeOK, Things
    <3> QED BY <2>3, <3>2, <3>3, <1>7 DEF ServePost, MakePlain, TypeOK
  <2>4. CASE PostRefused
    BY <2>4 DEF PostRefused, TypeOK
  <2>5. CASE PostAnswered
    <3>1. attempt.t \in Things
      BY <2>5 DEF PostAnswered, TypeOK, NoAttempt, Things
    <3> QED BY <2>5, <3>1 DEF PostAnswered, TypeOK
  <2>6. CASE QueuePost
    <3>1. attempt.t \in Things
      BY <2>6 DEF QueuePost, TypeOK, NoAttempt, Things
    <3>2. Append(queue, attempt.t) \in Seq(Things) /\ Append(queue, attempt.t) # <<>>
      BY <1>0, <3>1, AppendFacts
    <3>3. late' \subseteq Requests /\ \A m \in late' : m.looked => m.t \in Posts /\ m.keyed
      BY <2>6, OutTypes, LateTypes DEF QueuePost
    <3> QED BY <1>7, <2>6, <3>1, <3>2, <3>3 DEF QueuePost, Enqueue, TypeOK
  <2> QED BY <1>1, <2>1, <2>2, <2>3, <2>4, <2>5, <2>6 DEF Recording
<1>2. CASE Drain
  <2>1. CASE Wake
    BY <2>1 DEF Wake, TypeOK
  <2>2. CASE NothingWaiting
    BY <2>2 DEF NothingWaiting, TypeOK
  <2>3. CASE SendFront
    BY <2>3 DEF SendFront, TypeOK
  <2>4. CASE Refresh
    BY <2>4 DEF Refresh, TypeOK
  <2>5. CASE Unauthorised
    BY <1>0, <2>5 DEF Unauthorised, Block, TypeOK
  <2>6. CASE Accepted
    BY <1>0, <2>6 DEF Accepted, TypeOK
  <2>7. CASE Refused
    BY <1>0, <2>7 DEF Refused, Block, TypeOK
  <2>8. CASE GiveUp
    <3>1. late' \subseteq Requests /\ \A m \in late' : m.looked => m.t \in Posts /\ m.keyed
      BY <2>8, OutTypes, LateTypes DEF GiveUp
    <3> QED BY <2>8, <3>1 DEF GiveUp, StopAndRetry, TypeOK
  <2> QED BY <1>2, <2>1, <2>2, <2>3, <2>4, <2>5, <2>6, <2>7, <2>8 DEF Drain
<1>3. CASE Network
  <2>0. queue # <<>> => Head(queue) \in RollCalls \/ Head(queue) \in Posts
    BY <1>0 DEF Things
  <2>1. CASE ServeRollCall
    <3>1. reached' \subseteq Things
      BY <2>1 DEF ServeRollCall, Upsert, TypeOK, Things
    <3> QED BY <2>1, <3>1 DEF ServeRollCall, Upsert, TypeOK
  <2>2. CASE LookUp
    BY <2>2 DEF LookUp, TypeOK
  <2>3. CASE InsertLookedUp
    <3>1. keyed' \in [Posts -> Nat] /\ reached' \subseteq Things
      BY <2>3, InsertTypes DEF InsertLookedUp, TypeOK
    <3> QED BY <2>3, <3>1 DEF InsertLookedUp, TypeOK
  <2>4. CASE Refuse
    BY <2>4 DEF Refuse, TypeOK
  <2>5. ASSUME NEW m \in late, ServeLate(m) PROVE TypeOK'
    <3>1. m.t \in Things /\ (m.looked => m.t \in Posts)
      BY DEF TypeOK, Requests
    <3>2. late' \subseteq Requests /\ \A n \in late' : n.looked => n.t \in Posts /\ n.keyed
      BY <2>5 DEF ServeLate, TypeOK
    <3>3. /\ cell' \in RollCalls \cup {0} /\ plain' \in [Posts -> Nat] /\ keyed' \in [Posts -> Nat]
          /\ reached' \subseteq Things
      <4>1. CASE m.t \in RollCalls /\ Upsert(m.t)
        BY <3>1, <4>1 DEF Upsert, TypeOK
      <4>2. CASE m.t \in Posts /\ MakePlain(m.t)
        BY <3>1, <4>2 DEF MakePlain, TypeOK
      <4>3. CASE m.looked /\ InsertUnlessThere(m.t) /\ UNCHANGED <<cell, plain>>
        BY <3>1, <4>3, InsertTypes DEF TypeOK
      <4> QED BY <2>5, <4>1, <4>2, <4>3 DEF ServeLate
    <3> QED BY <2>5, <3>2, <3>3 DEF ServeLate, TypeOK
  <2>6. ASSUME NEW m \in late, LookUpLate(m) PROVE TypeOK'
    <3>1. m \in Requests /\ m.t \in Posts /\ m.keyed
      BY <2>6 DEF LookUpLate, TypeOK
    <3>2. [m EXCEPT !.looked = TRUE] \in Requests /\ [m EXCEPT !.looked = TRUE].t \in Posts
          /\ [m EXCEPT !.looked = TRUE].keyed
      BY <3>1 DEF Requests
    <3>3. late' \subseteq late \cup {[m EXCEPT !.looked = TRUE]}
      BY <2>6 DEF LookUpLate
    <3>4. late' \subseteq Requests /\ \A n \in late' : n.looked => n.t \in Posts /\ n.keyed
      BY <3>2, <3>3 DEF TypeOK
    <3> QED BY <2>6, <3>4 DEF LookUpLate, TypeOK
  <2> QED BY <1>3, <2>1, <2>2, <2>3, <2>4, <2>5, <2>6 DEF Network
<1>4. CASE Expire \/ SessionLost \/ SignIn \/ Start
  BY <1>4 DEF Expire, SessionLost, SignIn, Start, TypeOK
<1>5. CASE Crash
  <2>1. Sending \cup Trying \in SUBSET Requests
    BY OutTypes
  <2>2. late' \subseteq Requests /\ \A m \in late' : m.looked => m.t \in Posts /\ m.keyed
    BY <1>5, <2>1, OutTypes, LateTypes DEF Crash
  <2>3. crashes' \in 0 .. MaxCrashes
    BY <1>5, SwitchAssumption DEF Crash, TypeOK
  <2> QED BY <1>5, <2>2, <2>3 DEF Crash, TypeOK
<1>6. CASE UNCHANGED vars
  BY <1>6 DEF vars, TypeOK
<1> QED BY <1>1, <1>2, <1>3, <1>4, <1>5, <1>6 DEF Next

(* The outbox, the drain and the server's rows keep their types; a drain with a *)
(* request out has an entry at the front.                                       *)
THEOREM OutboxTypes == Spec => []TypeOK
BY TypeInit, TypeStep, PTL DEF Spec

-----------------------------------------------------------------------------
LEMMA StrandedStep == TypeOK /\ NeverStranded /\ [Next]_vars => NeverStranded'
<1> SUFFICES ASSUME TypeOK, NeverStranded, [Next]_vars PROVE NeverStranded'
  OBVIOUS
<1> USE DEF NeverStranded, phone, server
<1>1. CASE Recording
  <2>1. ASSUME NEW t, Enqueue(t) PROVE loop' # "off"
    BY <2>1 DEF Enqueue
  <2> QED BY <1>1, <2>1 DEF Recording, SaveRollCall, TryPost, ServePost, PostRefused, PostAnswered, QueuePost
<1>2. CASE Drain
  BY <1>2 DEF Drain, Wake, NothingWaiting, SendFront, Refresh, Unauthorised, Accepted, Refused, GiveUp,
     StopAndRetry
<1>3. CASE Network
  BY <1>3 DEF Network, ServeRollCall, LookUp, InsertLookedUp, Refuse, ServeLate, LookUpLate
<1>4. CASE Expire \/ SessionLost \/ SignIn \/ Crash \/ Start
  BY <1>4 DEF Expire, SessionLost, SignIn, Crash, Start
<1>5. CASE UNCHANGED vars
  BY <1>5 DEF vars
<1> QED BY <1>1, <1>2, <1>3, <1>4, <1>5 DEF Next

(* While the app runs, what waits has a drain or a timer, whatever the network, the *)
(* session and the server do.                                                       *)
THEOREM NothingStranded == Spec => []NeverStranded
<1>1. Init => NeverStranded
  BY DEF Init, NeverStranded
<1> QED BY <1>1, TypeInit, TypeStep, StrandedStep, PTL DEF Spec

-----------------------------------------------------------------------------
(* What the server's rows do: they are never taken away, and only an insert adds one. *)
LEMMA RowStep ==
  ASSUME TypeOK, [Next]_vars
  PROVE  /\ reached \subseteq reached'
         /\ UNCHANGED keyed \/ \E t \in Posts : InsertUnlessThere(t)
<1> USE DEF phone, server
<1>1. CASE Recording
  BY <1>1 DEF Recording, SaveRollCall, TryPost, ServePost, MakePlain, PostRefused, PostAnswered, QueuePost
<1>2. CASE Drain
  BY <1>2 DEF Drain, Wake, NothingWaiting, SendFront, Refresh, Unauthorised, Accepted, Refused, GiveUp
<1>3. CASE Network
  <2>1. ASSUME NEW t \in Posts, InsertUnlessThere(t) PROVE reached \subseteq reached'
    BY <2>1 DEF InsertUnlessThere, Insert
  <2>2. CASE InsertLookedUp
    BY <2>1, <2>2 DEF InsertLookedUp, TypeOK
  <2>3. ASSUME NEW m \in late, ServeLate(m)
        PROVE  reached \subseteq reached' /\ (UNCHANGED keyed \/ \E t \in Posts : InsertUnlessThere(t))
    <3>1. m.looked => m.t \in Posts
      BY DEF TypeOK
    <3> QED BY <2>1, <2>3, <3>1 DEF ServeLate, Upsert, MakePlain
  <2> QED BY <1>3, <2>2, <2>3 DEF Network, ServeRollCall, Upsert, LookUp, Refuse, LookUpLate
<1>4. CASE Expire \/ SessionLost \/ SignIn \/ Crash \/ Start
  BY <1>4 DEF Expire, SessionLost, SignIn, Crash, Start
<1>5. CASE UNCHANGED vars
  BY <1>5 DEF vars
<1> QED BY <1>1, <1>2, <1>3, <1>4, <1>5 DEF Next

LEMMA OnceStep == TypeOK /\ OncePerEntry /\ [Next]_vars => OncePerEntry'
<1> SUFFICES ASSUME TypeOK, OncePerEntry, [Next]_vars PROVE OncePerEntry'
  OBVIOUS
<1>0. \A t \in Posts : keyed[t] \in {0, 1}
  BY DEF OncePerEntry, TypeOK
<1>1. \A t \in Posts : keyed'[t] \in {0, 1} /\ (keyed[t] = 1 => keyed'[t] = 1)
  <2>1. ASSUME NEW u \in Posts, InsertUnlessThere(u), NEW t \in Posts
        PROVE  keyed'[t] \in {0, 1} /\ (keyed[t] = 1 => keyed'[t] = 1)
    BY <1>0, <2>1 DEF InsertUnlessThere, Insert, TypeOK
  <2> QED BY <1>0, <2>1, RowStep
<1>2. ASSUME loop' \in {"ok", "conflict"}, Head(queue') \in Posts PROVE keyed'[Head(queue')] = 1
  <2>0. queue # <<>> /\ Head(queue') = Head(queue)
    BY <1>2, FrontStays
  <2>1. CASE loop' = loop
    BY <1>1, <1>2, <2>0, <2>1 DEF OncePerEntry
  <2>2. CASE ServeRollCall
    BY <1>2, <2>0, <2>2, ThingsAssumption DEF ServeRollCall
  <2>3. CASE LookUp
    <3>1. keyed[Head(queue)] > 0
      BY <1>2, <2>3 DEF LookUp
    <3> QED BY <1>0, <1>1, <1>2, <2>0, <3>1
  <2>4. CASE InsertLookedUp
    BY <1>0, <1>2, <2>0, <2>4 DEF InsertLookedUp, InsertUnlessThere, Insert, TypeOK
  <2> QED BY <1>2, <2>1, <2>2, <2>3, <2>4, FrontStays
<1>3. \A t \in Posts : keyed'[t] <= 1
  BY <1>1
<1> QED BY <1>2, <1>3 DEF OncePerEntry

(* However many copies of an entry are sent, given up on and overlap on the server, there *)
(* is one row under its client id, and it is there when the phone is told so.             *)
THEOREM OneRowPerEntry == Spec => []OncePerEntry
<1>1. Init => OncePerEntry
  BY DEF Init, OncePerEntry
<1> QED BY <1>1, TypeInit, TypeStep, OnceStep, PTL DEF Spec

-----------------------------------------------------------------------------
(* Nothing saved is dropped: what leaves the outbox unblocked has been answered "ok". *)
LEMMA AnswersStep ==
  ASSUME TypeOK, AnswersTrue, [Next]_vars
  PROVE  AnswersTrue'
<1> USE DEF phone, server
<1>1. ASSUME NEW t \in Posts, keyed'[t] > 0 PROVE t \in reached'
  <2>1. CASE UNCHANGED keyed
    BY <1>1, <2>1, RowStep DEF AnswersTrue
  <2>2. ASSUME NEW u \in Posts, InsertUnlessThere(u) PROVE t \in reached'
    BY <1>1, <2>2, RowStep DEF InsertUnlessThere, Insert, AnswersTrue, TypeOK
  <2> QED BY <2>1, <2>2, RowStep
<1>2. ASSUME loop' = "ok" PROVE Head(queue') \in reached'
  <2>0. Head(queue') = Head(queue) /\ queue # <<>>
    BY <1>2, FrontStays
  <2>1. CASE loop' = loop
    BY <1>2, <2>0, <2>1, RowStep DEF AnswersTrue
  <2>2. CASE ServeRollCall
    BY <2>0, <2>2 DEF ServeRollCall, Upsert
  <2>3. CASE LookUp
    BY <1>2, <2>0, <2>3, RowStep DEF LookUp, AnswersTrue
  <2>4. CASE InsertLookedUp
    <3>1. keyed[Head(queue)] = 0
      BY <1>2, <2>4 DEF InsertLookedUp
    <3> QED BY <2>0, <2>4, <3>1 DEF InsertLookedUp, InsertUnlessThere, Insert
  <2> QED BY <1>2, <2>1, <2>2, <2>3, <2>4, FrontStays
<1>3. ASSUME attempt'.at = "ok" PROVE attempt'.t \in reached'
  <2>1. CASE ServePost
    <3>1. attempt' = [attempt EXCEPT !.at = "ok"] /\ attempt \in [t : Posts, at : {"out", "ok"}]
      BY <2>1 DEF ServePost, TypeOK, NoAttempt
    <3> QED BY <2>1, <3>1 DEF ServePost, MakePlain
  <2>2. CASE ~ServePost
    <3>1. attempt' = attempt
      <4>1. CASE Recording
        <5>1. ASSUME attempt' = NoAttempt PROVE FALSE
          BY <1>3, <5>1 DEF NoAttempt
        <5>2. ASSUME NEW t \in Posts, TryPost(t) PROVE FALSE
          BY <1>3, <5>2 DEF TryPost
        <5> QED BY <2>2, <4>1, <5>1, <5>2 DEF Recording, SaveRollCall, PostRefused, PostAnswered, QueuePost
      <4>2. CASE Drain
        BY <4>2 DEF Drain, Wake, NothingWaiting, SendFront, Refresh, Unauthorised, Accepted, Refused, GiveUp
      <4>3. CASE Network
        BY <4>3 DEF Network, ServeRollCall, LookUp, InsertLookedUp, Refuse, ServeLate, LookUpLate
      <4>4. CASE Crash
        BY <1>3, <4>4 DEF Crash, NoAttempt
      <4>5. CASE Expire \/ SessionLost \/ SignIn \/ Start \/ UNCHANGED vars
        BY <4>5 DEF Expire, SessionLost, SignIn, Start, vars
      <4> QED BY <4>1, <4>2, <4>3, <4>4, <4>5 DEF Next
    <3> QED BY <1>3, <3>1, RowStep DEF AnswersTrue
  <2> QED BY <2>1, <2>2
<1> QED BY <1>1, <1>2, <1>3 DEF AnswersTrue

LEMMA DroppedStep ==
  ASSUME TypeOK, AnswersTrue, NeverDropped, [Next]_vars
  PROVE  NeverDropped'
<1> USE DEF phone, server
<1>0. reached \subseteq reached'
  BY RowStep
<1>1. CASE Recording
  <2>1. ASSUME NEW u \in Things, Enqueue(u), saved' = saved \cup {u}, blocked' = blocked PROVE NeverDropped'
    <3>1. Waiting' = Waiting \cup {u}
      BY <2>1, AppendFacts DEF Enqueue, Waiting, TypeOK
    <3> QED BY <1>0, <2>1, <3>1 DEF NeverDropped
  <2>2. ASSUME UNCHANGED <<queue, blocked, saved>> PROVE NeverDropped'
    BY <1>0, <2>2 DEF NeverDropped, Waiting
  <2>3. CASE PostAnswered
    <3>1. attempt.t \in reached
      BY <2>3 DEF PostAnswered, AnswersTrue
    <3> QED BY <1>0, <2>3, <3>1 DEF NeverDropped, PostAnswered, Waiting
  <2>4. CASE QueuePost
    <3>1. attempt.t \in Things
      BY <2>4 DEF QueuePost, TypeOK, NoAttempt, Things
    <3> QED BY <2>1, <2>4, <3>1 DEF QueuePost
  <2>5. ASSUME NEW u \in RollCalls, SaveRollCall(u) PROVE NeverDropped'
    BY <2>1, <2>5 DEF SaveRollCall, Things
  <2> QED BY <1>1, <2>2, <2>3, <2>4, <2>5 DEF Recording, TryPost, ServePost, PostRefused
<1>2. CASE Drain
  <2>1. CASE Unauthorised \/ Refused
    <3>1. queue # <<>> /\ Block /\ saved' = saved
      BY <2>1 DEF Unauthorised, Refused, TypeOK
    <3>2. Waiting = {Head(queue)} \cup Waiting' /\ blocked' = blocked \cup {Head(queue)}
      BY <3>1, TailFacts DEF Block, Waiting, TypeOK
    <3> QED BY <1>0, <3>1, <3>2 DEF NeverDropped
  <2>2. CASE Accepted
    <3>1. queue # <<>> /\ saved' = saved /\ blocked' = blocked /\ queue' = Tail(queue)
      BY <2>2 DEF Accepted, TypeOK
    <3>2. Waiting = {Head(queue)} \cup Waiting' /\ Head(queue) \in reached
      BY <2>2, <3>1, TailFacts DEF Accepted, AnswersTrue, Waiting, TypeOK
    <3> QED BY <1>0, <3>1, <3>2 DEF NeverDropped
  <2>3. CASE Wake \/ NothingWaiting \/ SendFront \/ Refresh \/ GiveUp
    BY <1>0, <2>3 DEF Wake, NothingWaiting, SendFront, Refresh, GiveUp, NeverDropped, Waiting
  <2> QED BY <1>2, <2>1, <2>2, <2>3 DEF Drain
<1>3. CASE Network
  BY <1>0, <1>3 DEF Network, ServeRollCall, LookUp, InsertLookedUp, Refuse, ServeLate, LookUpLate, NeverDropped,
     Waiting
<1>4. CASE Expire \/ SessionLost \/ SignIn \/ Crash \/ Start \/ UNCHANGED vars
  BY <1>0, <1>4 DEF Expire, SessionLost, SignIn, Crash, Start, vars, NeverDropped, Waiting
<1> QED BY <1>1, <1>2, <1>3, <1>4 DEF Next

(* Never silently dropped: everything the phone called saved is in its outbox, waiting or *)
(* blocked, or the server has taken it.                                                   *)
THEOREM NothingDropped == Spec => []NeverDropped
<1>1. Init => AnswersTrue /\ NeverDropped
  BY DEF Init, AnswersTrue, NeverDropped, NoAttempt
<1>2. TypeOK /\ AnswersTrue /\ NeverDropped /\ [Next]_vars => AnswersTrue' /\ NeverDropped'
  BY AnswersStep, DroppedStep
<1> QED BY <1>1, <1>2, TypeInit, TypeStep, PTL DEF Spec

-----------------------------------------------------------------------------
(* In order. *)

LEMMA JoinQueue ==
  ASSUME TypeOK, InOrder, LateInOrder(late'), cell' = cell, NEW t \in Things, Enqueue(t), saved' = saved \cup {t},
         t \in RollCalls => t \notin saved /\ \A u \in RollCalls : u < t => u \in saved
  PROVE  InOrder'
<1> DEFINE n == Len(queue)
<1>1. queue' = Append(queue, t) /\ Len(queue') = n + 1 /\ n \in Nat
  BY AppendFacts DEF Enqueue, TypeOK
<1>2. (\A i \in 1 .. n : queue'[i] = queue[i]) /\ queue'[n + 1] = t
  BY <1>1, AppendFacts DEF TypeOK
<1>3. RollCalls \subseteq Nat
  BY ThingsAssumption
<1>4. ASSUME t \in RollCalls, NEW u \in RollCalls, u \in saved PROVE u < t
  BY <1>3, <1>4 DEF InOrder
<1>5. ASSUME NEW u \in RollCalls \cup {0}, u # 0 => u \in saved, NotAhead(u) PROVE NotAhead(u)'
  <2> SUFFICES ASSUME NEW i \in 1 .. n + 1, queue'[i] \in RollCalls PROVE u <= queue'[i]
    BY <1>1 DEF NotAhead
  <2>1. CASE i \in 1 .. n
    BY <1>2, <1>5, <2>1 DEF NotAhead
  <2>2. CASE i = n + 1
    <3>1. t \in RollCalls /\ queue'[i] = t
      BY <1>2, <2>2
    <3> QED BY <1>3, <1>4, <1>5, <3>1
  <2> QED BY <1>1, <2>1, <2>2
<1>6. \A i, j \in 1 .. Len(queue') :
        i < j /\ queue'[i] \in RollCalls /\ queue'[j] \in RollCalls => queue'[i] < queue'[j]
  <2> SUFFICES ASSUME NEW i \in 1 .. n + 1, NEW j \in 1 .. n + 1, i < j,
                      queue'[i] \in RollCalls, queue'[j] \in RollCalls
               PROVE  queue'[i] < queue'[j]
    BY <1>1
  <2>1. i \in 1 .. n /\ queue'[i] = queue[i]
    BY <1>1, <1>2
  <2>2. CASE j \in 1 .. n
    BY <1>2, <2>1, <2>2 DEF InOrder
  <2>3. CASE j = n + 1
    <3>1. queue[i] \in saved /\ queue'[j] = t
      BY <1>2, <2>1, <2>3 DEF InOrder
    <3> QED BY <1>4, <2>1, <3>1
  <2> QED BY <1>1, <2>2, <2>3
<1>7. \A i \in 1 .. Len(queue') : queue'[i] \in RollCalls => queue'[i] \in saved'
  <2> SUFFICES ASSUME NEW i \in 1 .. n + 1, queue'[i] \in RollCalls PROVE queue'[i] \in saved'
    BY <1>1
  <2>1. CASE i \in 1 .. n
    BY <1>2, <2>1 DEF InOrder
  <2>2. CASE i = n + 1
    BY <1>2, <2>2
  <2> QED BY <1>1, <2>1, <2>2
<1>8. \A v, u \in RollCalls : u < v /\ v \in saved' => u \in saved'
  BY DEF InOrder
<1>9. NotAhead(cell)' /\ (cell' # 0 => cell' \in saved')
  <2>1. NotAhead(cell)'
    BY <1>5 DEF InOrder, TypeOK
  <2> QED BY <2>1 DEF InOrder
<1>10. LateInOrder(late)'
  BY <1>5 DEF LateInOrder
<1> QED BY <1>6, <1>7, <1>8, <1>9, <1>10 DEF InOrder

LEMMA LeaveQueue ==
  ASSUME TypeOK, InOrder, late' = late, cell' = cell, saved' = saved, queue # <<>>, queue' = Tail(queue)
  PROVE  InOrder'
<1>1. Len(queue') = Len(queue) - 1 /\ Len(queue) \in Nat
  BY TailFacts DEF TypeOK
<1>2. \A i \in 1 .. Len(queue') : i + 1 \in 1 .. Len(queue) /\ queue'[i] = queue[i + 1]
  BY <1>1, TailFacts DEF TypeOK
<1>3. ASSUME NEW i \in 1 .. Len(queue'), NEW j \in 1 .. Len(queue'), i < j,
             queue'[i] \in RollCalls, queue'[j] \in RollCalls
      PROVE  queue'[i] < queue'[j]
  <2>1. i + 1 \in 1 .. Len(queue) /\ j + 1 \in 1 .. Len(queue) /\ i + 1 < j + 1
    BY <1>2, <1>3
  <2> QED BY <1>2, <1>3, <2>1 DEF InOrder
<1>4. \A i \in 1 .. Len(queue') : queue'[i] \in RollCalls => queue'[i] \in saved'
  BY <1>2 DEF InOrder
<1>5. ASSUME NEW u, NotAhead(u) PROVE NotAhead(u)'
  BY <1>2, <1>5 DEF NotAhead
<1>6. NotAhead(cell)' /\ LateInOrder(late)'
  BY <1>5 DEF InOrder, LateInOrder
<1> QED BY <1>3, <1>4, <1>6 DEF InOrder

(* The front of the queue is the oldest roll call in it. *)
LEMMA FrontIsOldest ==
  ASSUME TypeOK, InOrder, queue # <<>>, Head(queue) \in RollCalls
  PROVE  NotAhead(Head(queue)) /\ Head(queue) \in saved /\ cell <= Head(queue)
<1>1. Head(queue) = queue[1] /\ Len(queue) \in Nat \ {0}
  BY TailFacts DEF TypeOK
<1>2. ASSUME NEW i \in 1 .. Len(queue), queue[i] \in RollCalls PROVE queue[1] <= queue[i]
  <2>0. queue[1] \in Nat /\ queue[i] \in Nat
    BY <1>1, <1>2, ThingsAssumption
  <2>1. CASE i = 1
    BY <2>0, <2>1
  <2>2. CASE i # 1
    <3>1. 1 \in 1 .. Len(queue) /\ 1 < i
      BY <1>1, <2>2
    <3>2. queue[1] < queue[i]
      BY <1>1, <1>2, <3>1 DEF InOrder
    <3> QED BY <2>0, <3>2
  <2> QED BY <2>1, <2>2
<1> QED BY <1>1, <1>2 DEF InOrder, NotAhead

LEMMA LateStep ==
  ASSUME TypeOK, InOrder, NEW ms \in SUBSET (Sending \cup Trying), Abandon(ms)
  PROVE  LateInOrder(late')
<1>1. ASSUME NEW m \in Sending, m.t \in RollCalls PROVE m.t \in saved /\ NotAhead(m.t)
  <2>1. m.t = Head(queue) /\ queue # <<>>
    BY DEF Sending, TypeOK
  <2> QED BY <1>1, <2>1, FrontIsOldest
<1>2. ASSUME NEW m \in Trying PROVE m.t \notin RollCalls
  <2>1. m.t = attempt.t /\ attempt.t \in Posts
    BY DEF Trying, TypeOK, NoAttempt
  <2> QED BY <2>1, ThingsAssumption
<1>3. late' \subseteq late \cup Sending \cup Trying
  BY DEF Abandon
<1> QED BY <1>1, <1>2, <1>3 DEF InOrder, LateInOrder

(* A roll call is put in the row: what waits is no older. *)
LEMMA UpsertStep ==
  ASSUME InOrder, NEW t \in RollCalls, Upsert(t), UNCHANGED <<queue, saved>>, late' \subseteq late,
         NotAhead(t), t \in saved
  PROVE  InOrder'
<1>1. NotAhead(cell)' /\ cell' \in saved'
  BY DEF Upsert, NotAhead
<1>2. LateInOrder(late)'
  BY DEF InOrder, LateInOrder, NotAhead
<1> QED BY <1>1, <1>2 DEF InOrder

(* Each step keeps the order, and takes the server back only with a late copy. *)
LEMMA OrderStep ==
  ASSUME TypeOK, InOrder, [Next]_vars
  PROVE  InOrder' /\ [cell' < cell => \E m \in late \ late' : cell' = m.t]_cell
<1> USE DEF phone, server
<1> DEFINE Back == [cell' < cell => \E m \in late \ late' : cell' = m.t]_cell
<1>0. ASSUME UNCHANGED <<queue, saved, cell>>, LateInOrder(late') PROVE InOrder' /\ Back
  BY <1>0 DEF InOrder, LateInOrder, NotAhead
<1>00. ASSUME UNCHANGED <<queue, saved, cell>>, late' \subseteq late PROVE InOrder' /\ Back
  BY <1>0, <1>00 DEF InOrder, LateInOrder
<1>1. CASE Recording
  <2>1. ASSUME NEW t \in RollCalls, SaveRollCall(t) PROVE InOrder' /\ Back
    <3>1. t \in Things /\ LateInOrder(late') /\ cell' = cell
      BY <2>1 DEF Things, SaveRollCall, InOrder
    <3> QED BY <2>1, <3>1, JoinQueue DEF SaveRollCall
  <2>2. ASSUME NEW t \in Posts, TryPost(t) PROVE InOrder' /\ Back
    BY <1>00, <2>2 DEF TryPost
  <2>3. CASE ServePost
    BY <1>00, <2>3 DEF ServePost, MakePlain
  <2>4. CASE PostRefused
    BY <1>00, <2>4 DEF PostRefused
  <2>5. CASE PostAnswered
    <3>1. attempt.t \in Posts
      BY <2>5 DEF PostAnswered, TypeOK, NoAttempt
    <3>2. attempt.t \notin RollCalls /\ UNCHANGED <<queue, cell, late>> /\ saved' = saved \cup {attempt.t}
      BY <2>5, <3>1, ThingsAssumption DEF PostAnswered
    <3> QED BY <3>2 DEF InOrder, LateInOrder, NotAhead
  <2>6. CASE QueuePost
    <3>1. attempt.t \in Posts
      BY <2>6 DEF QueuePost, TypeOK, NoAttempt
    <3>2. attempt.t \notin RollCalls /\ attempt.t \in Things
      BY <3>1, ThingsAssumption DEF Things
    <3>3. LateInOrder(late')
      BY <2>6, LateStep DEF QueuePost
    <3> QED BY <2>6, <3>2, <3>3, JoinQueue DEF QueuePost
  <2> QED BY <1>1, <2>1, <2>2, <2>3, <2>4, <2>5, <2>6 DEF Recording
<1>2. CASE Drain
  <2>1. CASE Wake \/ NothingWaiting \/ SendFront \/ Refresh
    BY <1>00, <2>1 DEF Wake, NothingWaiting, SendFront, Refresh
  <2>2. CASE Unauthorised \/ Accepted \/ Refused
    <3>1. queue # <<>>
      BY <2>2 DEF Unauthorised, Accepted, Refused, TypeOK
    <3> QED BY <2>2, <3>1, LeaveQueue DEF Unauthorised, Accepted, Refused, Block
  <2>3. CASE GiveUp
    BY <1>0, <2>3, LateStep DEF GiveUp
  <2> QED BY <1>2, <2>1, <2>2, <2>3 DEF Drain
<1>3. CASE Network
  <2>1. CASE ServeRollCall
    <3>1. queue # <<>> /\ Head(queue) \in RollCalls /\ Upsert(Head(queue)) /\ UNCHANGED <<queue, saved, late>>
      BY <2>1 DEF ServeRollCall, TypeOK
    <3>2. NotAhead(Head(queue)) /\ Head(queue) \in saved /\ cell <= Head(queue)
      BY <3>1, FrontIsOldest
    <3>3. InOrder'
      BY <3>1, <3>2, UpsertStep
    <3> DEFINE t == Head(queue)
    <3>4. cell' = t /\ t \in RollCalls
      BY <3>1 DEF Upsert
    <3>5. ~(cell' < cell)
      <4>1. cell' = t /\ t \in Nat /\ cell <= t /\ cell \in Nat
        <5>1. RollCalls \subseteq Nat /\ cell \in RollCalls \cup {0}
          BY ThingsAssumption DEF TypeOK
        <5>2. cell <= t
          BY <3>2
        <5> HIDE DEF t
        <5> QED BY <3>4, <5>1, <5>2
      <4> HIDE DEF t
      <4> QED BY <4>1
    <3> QED BY <3>3, <3>5
  <2>2. CASE LookUp \/ InsertLookedUp \/ Refuse
    BY <1>00, <2>2 DEF LookUp, InsertLookedUp, Refuse
  <2>3. ASSUME NEW m \in late, ServeLate(m) PROVE InOrder' /\ Back
    <3>1. CASE m.t \in RollCalls /\ Upsert(m.t)
      <4>1. NotAhead(m.t) /\ m.t \in saved
        BY <3>1 DEF InOrder, LateInOrder
      <4>2. late' = late \ {m} /\ UNCHANGED <<queue, saved>> /\ cell' = m.t
        BY <2>3, <3>1 DEF ServeLate, Upsert
      <4> QED BY <3>1, <4>1, <4>2, UpsertStep
    <3>2. CASE m.t \in Posts /\ ~m.keyed /\ MakePlain(m.t)
      BY <1>00, <2>3, <3>2 DEF ServeLate, MakePlain
    <3>3. CASE m.looked /\ InsertUnlessThere(m.t) /\ UNCHANGED <<cell, plain>>
      BY <1>00, <2>3, <3>3 DEF ServeLate
    <3> QED BY <2>3, <3>1, <3>2, <3>3 DEF ServeLate
  <2>4. ASSUME NEW m \in late, LookUpLate(m) PROVE InOrder' /\ Back
    <3>1. m.t \notin RollCalls /\ late' \subseteq late \cup {[m EXCEPT !.looked = TRUE]}
      BY <2>4, ThingsAssumption DEF LookUpLate
    <3>2. [m EXCEPT !.looked = TRUE].t = m.t
      BY DEF TypeOK, Requests
    <3>3. LateInOrder(late')
      BY <3>1, <3>2 DEF InOrder, LateInOrder
    <3> QED BY <1>0, <2>4, <3>3 DEF LookUpLate
  <2> QED BY <1>3, <2>1, <2>2, <2>3, <2>4 DEF Network
<1>4. CASE Expire \/ SessionLost \/ SignIn \/ Start
  BY <1>00, <1>4 DEF Expire, SessionLost, SignIn, Start
<1>5. CASE Crash
  BY <1>0, <1>5, LateStep DEF Crash
<1>6. CASE UNCHANGED vars
  BY <1>00, <1>6 DEF vars
<1> QED BY <1>1, <1>2, <1>3, <1>4, <1>5, <1>6 DEF Next

LEMMA OrderInit == Init => InOrder
<1> SUFFICES ASSUME Init PROVE InOrder
  OBVIOUS
<1>1. Len(queue) = 0
  BY DEF Init
<1> QED BY <1>1 DEF Init, InOrder, LateInOrder, NotAhead

(* In order: whatever is lost, sent again or given up on, the server goes back to an older *)
(* roll call only when a copy the phone had given up on is carried out late.               *)
THEOREM CorrectionsStand == Spec => OnlyLateGoesBack
<1>1. TypeOK /\ InOrder /\ [Next]_vars => InOrder'
  BY OrderStep
<1>2. TypeOK /\ InOrder /\ [Next]_vars => [cell' < cell => \E m \in late \ late' : cell' = m.t]_cell
  BY OrderStep
<1> QED BY <1>1, <1>2, TypeInit, TypeStep, OrderInit, PTL DEF Spec, OnlyLateGoesBack
=============================================================================
