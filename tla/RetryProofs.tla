---------------------------- MODULE RetryProofs -----------------------------
(***************************************************************************)
(* Proofs about Retry for every number of holds, keys, calls and pages.    *)
(* Bookings only move on, so that what a call was told stays told; each    *)
(* part of the invariant then has one step for each action.                *)
(***************************************************************************)
EXTENDS RetryProperties, TLAPS

\* Bookings are made, and end, once; references stay and deadlines pass.
Grows ==
  /\ reference \subseteq reference' /\ overdue \subseteq overdue'
  /\ \A h \in Holds : \/ booking'[h] = booking[h]
                      \/ booking[h] \in {"NONE", "PENDING"} /\ booking'[h] # "NONE"

(***************************************************************************)
(* Views and calls.                                                        *)
(***************************************************************************)
LEMMA NoViewFact == NoView \in Views /\ NoView.of = NoHold /\ NoView.status = "NONE"
BY DEF NoView, Views, Ends

LEMMA IdleFact ==
  /\ Idle \in Calls /\ Idle.pc = "idle" /\ Idle.key = NoKey /\ Idle.of = NoHold
  /\ Idle.by = Nobody /\ Idle.for = "begin" /\ Idle.late = FALSE
BY NoViewFact DEF Idle, Calls, Pcs, Purposes

LEMMA ViewFact ==
  ASSUME StoreOK, NEW h \in Holds
  PROVE  /\ View(h) \in Views /\ View(h).of = h /\ View(h).status = booking[h]
         /\ View(h).payable = (h \in reference)
<1>1. View(h).of = h /\ View(h).status = booking[h]
  BY DEF View
<1>2. View(h).payable = (h \in reference)
  BY Zenon DEF View
<1>3. View(h) \in Views
  BY DEF StoreOK, View, Views
<1> QED
  BY <1>1, <1>2, <1>3

LEMMA ViewTells ==
  ASSUME StoreOK, NEW h \in Holds, booking[h] # "NONE"
  PROVE  Tells(View(h), h)
BY ViewFact DEF Tells

LEMMA TellsStable ==
  ASSUME StoreOK, Grows, NEW v, NEW h \in Holds, Tells(v, h)
  PROVE  Tells(v, h)'
BY DEF StoreOK, Grows, Tells, Ends

LEMMA CallStable ==
  ASSUME StoreOK, Grows, NEW c, CallInv(c)
  PROVE  CallInv(c)'
<1>1. CASE c.pc = "idle"
  BY <1>1 DEF CallInv, Current
<1>2. CASE c.pc # "idle"
  <2>1. c.of \in Holds
    BY <1>2 DEF CallInv
  <2>2. Tells(c.answer, c.of) => Tells(c.answer, c.of)'
    BY <2>1, TellsStable
  <2>3. /\ booking[c.of] # "NONE" => booking'[c.of] # "NONE"
        /\ booking[c.of] \in Ends => booking'[c.of] \in Ends
    BY <2>1 DEF Grows, Ends
  <2> QED
    BY <2>1, <2>2, <2>3 DEF CallInv, Current, Grows
<1> QED
  BY <1>1, <1>2

\* One call moves, and the others stay where they are.
LEMMA StepInv ==
  ASSUME StoreOK, CallsOK, CallsInv, Grows, NEW r \in Requests, NEW c \in Calls, CallInv(c)',
         request' = [request EXCEPT ![r] = c]
  PROVE  CallsOK' /\ CallsInv'
<1>1. ASSUME NEW q \in Requests, q # r PROVE request'[q] = request[q] /\ CallInv(request[q])'
  <2>1. CallInv(request[q])
    BY DEF CallsInv
  <2> DEFINE d == request[q]
  <2>2. request'[q] = request[q]
    BY <1>1 DEF CallsOK
  <2>3. ASSUME NEW e, CallInv(e) PROVE CallInv(e)'
    BY <2>3, CallStable
  <2> QED
    BY <2>1, <2>2, <2>3 DEF CallInv, Current, Tells
<1>2. request'[r] = c
  BY DEF CallsOK
<1> QED
  BY <1>1, <1>2 DEF CallsOK, CallsInv

LEMMA StepNow ==
  ASSUME StoreOK, CallsOK, CallsInv, Grows, NEW r \in Requests, NEW c \in Calls, CallInv(c),
         request' = [request EXCEPT ![r] = c]
  PROVE  CallsOK' /\ CallsInv'
<1>1. ASSUME NEW e, CallInv(e) PROVE CallInv(e)'
  BY <1>1, CallStable
<1>2. PICK d : d = c
  OBVIOUS
<1>3. d \in Calls /\ CallInv(d)' /\ request' = [request EXCEPT ![r] = d]
  BY <1>1, <1>2
<1> QED
  BY <1>3, StepInv

\* What the steps may assume.
Context ==
  /\ StoreOK /\ RecordsOK /\ CallsOK /\ TabsOK
  /\ RecordsInv /\ CallsInv /\ ViewsInv /\ Grows

LEMMA CallFact ==
  ASSUME Context, NEW r \in Requests
  PROVE  /\ request[r] \in Calls /\ CallInv(request[r])
         /\ request[r].pc \in Pcs /\ request[r].by \in Tabs \cup {Nobody}
         /\ request[r].key \in Keys \cup {NoKey} /\ request[r].of \in Holds \cup {NoHold}
         /\ request[r].for \in Purposes /\ request[r].try \in BOOLEAN
         /\ request[r].seen \in Holds \cup {NoHold} /\ request[r].answer \in Views
         /\ request[r].late \in BOOLEAN
BY DEF Context, CallsOK, Calls, CallsInv

LEMMA StoredFact ==
  ASSUME Context, NEW r \in Requests, request[r].key \in Keys
  PROVE  /\ Stored(r).of \in Holds \cup {NoHold} /\ Stored(r).body \in Views
         /\ Stored(r) # NoRecord => Stored(r).of \in Holds /\ booking[Stored(r).of] # "NONE"
         /\ Stored(r) # NoRecord /\ Stored(r).body # NoView
              => Tells(Stored(r).body, Stored(r).of) /\ Stored(r).body.payable
BY DEF Context, RecordsOK, Records, RecordsInv, RecordInv, Stored

\* A new call, by a page for its hold or by nobody.
LEMMA BeginInv ==
  ASSUME Context, NEW r \in Requests, NEW pc \in {"check", "lookup", "read", "complete"},
         NEW by \in Tabs \cup {Nobody}, NEW k \in Keys \cup {NoKey}, NEW h \in Holds,
         Begin(r, pc, by, k, h), pc = "lookup" => k \in Keys,
         pc \in {"read", "complete"} => booking[h] # "NONE", by \in Tabs => h = TabHold[by]
  PROVE  CallsOK' /\ CallsInv'
<1> DEFINE late == booking[h] \in Ends /\ (k = NoKey \/ h \in overdue)
           c == [Idle EXCEPT !.pc = pc, !.by = by, !.key = k, !.of = h, !.late = late]
<1>1. c \in Calls
  BY NoViewFact DEF Idle, Calls, Pcs, Purposes
<1>2. c.pc = pc /\ c.by = by /\ c.key = k /\ c.of = h /\ c.for = "begin" /\ c.late = late
  BY DEF Idle
<1>3. request' = [request EXCEPT ![r] = c]
  BY DEF Begin
<1> HIDE DEF c
<1>4. CallInv(c)
  BY <1>2 DEF CallInv, Current
<1> QED
  BY <1>1, <1>3, <1>4, StepNow DEF Context

LEMMA ThrowInv ==
  ASSUME Context, NEW r \in Requests, request' = [request EXCEPT ![r] = Idle]
  PROVE  CallsOK' /\ CallsInv'
<1>1. CallInv(Idle)
  BY IdleFact, RetryAssumption DEF CallInv, Current
<1> QED
  BY <1>1, IdleFact, StepNow DEF Context

LEMMA ReplyInv ==
  ASSUME Context, NEW r \in Requests, NEW v \in Views, Tells(v, request[r].of), ~At(r, "idle"),
         request[r].late => v.status # "PENDING", Reply(r, v)
  PROVE  CallsOK' /\ CallsInv'
<1>1. CASE request[r].by \in Tabs
  <2> DEFINE c == [Idle EXCEPT !.pc = "answered", !.by = request[r].by, !.of = request[r].of,
                              !.answer = v, !.late = request[r].late]
  <2>1. c \in Calls
    BY CallFact, NoViewFact DEF Idle, Calls, Pcs, Purposes
  <2>2. /\ c.pc = "answered" /\ c.by = request[r].by /\ c.of = request[r].of /\ c.answer = v
        /\ c.for = "begin" /\ c.late = request[r].late /\ c.key = NoKey
    BY IdleFact DEF Idle
  <2>3. request' = [request EXCEPT ![r] = c]
    BY <1>1 DEF Reply, Step
  <2> HIDE DEF c
  <2>4. request[r].of \in Holds /\ request[r].of = TabHold[request[r].by]
    BY <1>1, CallFact DEF CallInv, At
  <2>5. CallInv(c)
    BY <1>1, <2>2, <2>4, CallFact DEF CallInv, Current
  <2> QED
    BY <2>1, <2>3, <2>5, StepNow DEF Context
<1>2. CASE request[r].by \notin Tabs
  BY <1>2, ThrowInv DEF Reply, Step
<1> QED
  BY <1>1, <1>2

LEMMA MissingInv ==
  ASSUME Context, NEW r \in Requests, At(r, "lookup") \/ At(r, "forget"), Missing(r)
  PROVE  CallsOK' /\ CallsInv'
<1> DEFINE pc == After[request[r].for]
           c == [request[r] EXCEPT !.pc = pc, !.seen = NoHold]
<1>1. /\ pc \in {"check", "recover", "insert"}
      /\ pc = "insert" => request[r].for = "store"
  BY CallFact DEF After, Purposes
<1>2. request' = [request EXCEPT ![r] = c]
  BY DEF Missing, Step
<1> HIDE DEF pc
<1>3. c \in Calls
  BY CallFact, <1>1 DEF Calls, Pcs
<1>4. /\ c.pc = pc /\ c.by = request[r].by /\ c.key = request[r].key /\ c.of = request[r].of
      /\ c.for = request[r].for /\ c.answer = request[r].answer
      /\ c.late = request[r].late
  BY CallFact DEF Calls
<1> HIDE DEF c
<1>5. CallInv(c)
  BY <1>1, <1>4, CallFact DEF CallInv, Current, At
<1> QED
  BY <1>2, <1>3, <1>5, StepNow DEF Context

LEMMA CollideInv ==
  ASSUME Context, NEW r \in Requests, ~At(r, "idle"), Collide(r)
  PROVE  CallsOK' /\ CallsInv'
<1> DEFINE pc == IF request[r].key = NoKey THEN "recover" ELSE "lookup"
           c == [request[r] EXCEPT !.pc = pc, !.for = "conflict", !.try = FALSE]
<1>1. pc \in {"recover", "lookup"} /\ (pc = "lookup" => request[r].key \in Keys)
  BY CallFact
<1>2. request' = [request EXCEPT ![r] = c]
  BY DEF Collide, Step
<1> HIDE DEF pc
<1>3. c \in Calls
  BY CallFact, <1>1 DEF Calls, Pcs, Purposes
<1>4. /\ c.pc = pc /\ c.by = request[r].by /\ c.key = request[r].key /\ c.of = request[r].of
      /\ c.for = "conflict" /\ c.late = request[r].late
  BY CallFact DEF Calls
<1> HIDE DEF c
<1>5. CallInv(c)
  BY <1>1, <1>4, CallFact DEF CallInv, Current, At
<1> QED
  BY <1>2, <1>3, <1>5, StepNow DEF Context

(***************************************************************************)
(* The steps of a call.                                                    *)
(***************************************************************************)
LEMMA FoundInv ==
  ASSUME Context, NEW r \in Requests, At(r, "lookup"), Stored(r) # NoRecord, ~Expired(r),
         Found(r)
  PROVE  CallsOK' /\ CallsInv'
<1>1. request[r].key \in Keys /\ request[r].of \in Holds
  BY CallFact DEF CallInv, Current, At
<1>2. CASE Throw(r)
  BY <1>2, ThrowInv DEF Throw, Step
<1>3. CASE SameRequest(r) /\ Replay(r)
  <2>1. CASE Stored(r).body # NoView
    <3>1. Tells(Stored(r).body, request[r].of) /\ Stored(r).body \in Views
      BY <1>1, <1>3, <2>1, StoredFact DEF SameRequest
    <3>2. Reply(r, Stored(r).body)
      BY <1>3, <2>1 DEF Replay
    <3>3. ~request[r].late
      BY <1>1, <1>3, CallFact, RetryAssumption DEF CallInv, SameRequest, Expired
    <3> QED
      BY <3>1, <3>2, <3>3, ReplyInv DEF At
  <2>2. CASE Stored(r).body = NoView
    <3> DEFINE c == [request[r] EXCEPT !.pc = "read", !.of = Stored(r).of, !.for = "begin",
                                       !.try = FALSE]
    <3>1. request' = [request EXCEPT ![r] = c]
      BY <1>3, <2>2 DEF Replay, Step
    <3>2. Stored(r).of = request[r].of /\ booking[request[r].of] # "NONE"
      BY <1>1, <1>3, StoredFact DEF SameRequest
    <3>3. c \in Calls
      BY CallFact, <1>1, <3>2 DEF Calls, Pcs, Purposes
    <3>4. /\ c.pc = "read" /\ c.by = request[r].by /\ c.of = request[r].of /\ c.for = "begin"
          /\ c.key = request[r].key /\ c.late = request[r].late
      BY CallFact, <3>2 DEF Calls
    <3> HIDE DEF c
    <3>5. CallInv(c)
      BY <1>1, <3>2, <3>4, CallFact DEF CallInv, Current, At
    <3> QED
      BY <3>1, <3>3, <3>5, StepNow DEF Context
  <2> QED
    BY <2>1, <2>2
<1>4. CASE /\ SameRequest(r) /\ request[r].for = "store"
           /\ Step(r, [request[r] EXCEPT !.pc = "update", !.seen = Stored(r).of])
  <2> DEFINE c == [request[r] EXCEPT !.pc = "update", !.seen = Stored(r).of]
  <2>1. request' = [request EXCEPT ![r] = c]
    BY <1>4 DEF Step
  <2>2. Stored(r).of = request[r].of
    BY <1>4 DEF SameRequest
  <2>3. c \in Calls
    BY CallFact, <2>2 DEF Calls, Pcs
  <2>4. /\ c.pc = "update" /\ c.by = request[r].by /\ c.key = request[r].key
        /\ c.of = request[r].of /\ c.seen = request[r].of /\ c.answer = request[r].answer
        /\ c.late = request[r].late
    BY CallFact, <2>2 DEF Calls
  <2> HIDE DEF c
  <2>5. CallInv(c)
    BY <1>1, <1>4, <2>4, CallFact DEF CallInv, Current, At
  <2> QED
    BY <2>1, <2>3, <2>5, StepNow DEF Context
<1> QED
  BY <1>2, <1>3, <1>4 DEF Found

LEMMA LookupInv ==
  ASSUME Context, NEW r \in Requests, Lookup(r)
  PROVE  CallsOK' /\ CallsInv'
<1>1. At(r, "lookup") /\ request[r].key \in Keys /\ request[r].of \in Holds
  BY CallFact DEF Lookup, CallInv, At
<1>2. CASE Missing(r)
  BY <1>1, <1>2, MissingInv
<1>3. CASE /\ Expired(r)
           /\ Step(r, [request[r] EXCEPT !.pc = "forget", !.seen = Stored(r).of])
  <2> DEFINE c == [request[r] EXCEPT !.pc = "forget", !.seen = Stored(r).of]
  <2>1. request' = [request EXCEPT ![r] = c]
    BY <1>3 DEF Step
  <2>2. c \in Calls
    BY CallFact, <1>1, StoredFact DEF Calls, Pcs
  <2>3. /\ c.pc = "forget" /\ c.by = request[r].by /\ c.key = request[r].key
        /\ c.of = request[r].of /\ c.seen = Stored(r).of /\ c.for = request[r].for
        /\ c.answer = request[r].answer /\ c.late = request[r].late
    BY CallFact DEF Calls
  <2> HIDE DEF c
  <2>4. CallInv(c)
    BY <1>1, <1>3, <2>3, CallFact DEF CallInv, Current, At, Expired
  <2> QED
    BY <2>1, <2>2, <2>4, StepNow DEF Context
<1>4. CASE Stored(r) # NoRecord /\ ~Expired(r) /\ Found(r)
  BY <1>1, <1>4, FoundInv
<1> QED
  BY <1>2, <1>3, <1>4 DEF Lookup

LEMMA CheckHoldInv ==
  ASSUME Context, NEW r \in Requests, CheckHold(r)
  PROVE  CallsOK' /\ CallsInv'
<1>1. CASE Goto(r, "checked")
  <2> DEFINE c == [request[r] EXCEPT !.pc = "checked"]
  <2>1. request' = [request EXCEPT ![r] = c]
    BY <1>1 DEF Goto, Step
  <2>2. c \in Calls
    BY CallFact DEF Calls, Pcs
  <2>3. /\ c.pc = "checked" /\ c.by = request[r].by /\ c.of = request[r].of
        /\ c.key = request[r].key /\ c.late = request[r].late
    BY CallFact DEF Calls
  <2> HIDE DEF c
  <2>4. CallInv(c)
    BY <2>3, CallFact DEF CallInv, Current, CheckHold, At
  <2> QED
    BY <2>1, <2>2, <2>4, StepNow DEF Context
<1>2. CASE Throw(r)
  BY <1>2, ThrowInv DEF Throw, Step
<1> QED
  BY <1>1, <1>2 DEF CheckHold

LEMMA CompleteInv ==
  ASSUME Context, NEW r \in Requests, Complete(r)
  PROVE  CallsOK' /\ CallsInv'
<1>1. CASE Goto(r, "read")
  <2> DEFINE c == [request[r] EXCEPT !.pc = "read"]
  <2>1. request' = [request EXCEPT ![r] = c]
    BY <1>1 DEF Goto, Step
  <2>2. c \in Calls
    BY CallFact DEF Calls, Pcs
  <2>3. /\ c.pc = "read" /\ c.by = request[r].by /\ c.of = request[r].of
        /\ c.key = request[r].key /\ c.late = request[r].late
    BY CallFact DEF Calls
  <2> HIDE DEF c
  <2>4. CallInv(c)
    BY <2>3, CallFact DEF CallInv, Current, Complete, At
  <2> QED
    BY <2>1, <2>2, <2>4, StepNow DEF Context
<1>2. CASE Throw(r)
  BY <1>2, ThrowInv DEF Throw, Step
<1> QED
  BY <1>1, <1>2 DEF Complete

LEMMA CommitInv ==
  ASSUME Context, NEW r \in Requests, Commit(r)
  PROVE  CallsOK' /\ CallsInv'
<1> PICK c : c = [request[r] EXCEPT !.pc = "read", !.try = TRUE]
  OBVIOUS
<1>1. request' = [request EXCEPT ![r] = c]
  BY DEF Commit, Context, CallsOK
<1>2. c \in Calls
  BY CallFact DEF Calls, Pcs
<1>3. /\ c.pc = "read" /\ c.by = request[r].by /\ c.of = request[r].of
      /\ c.late = request[r].late
  BY CallFact DEF Calls
<1>4. c.of \in Holds
  BY <1>3, CallFact DEF CallInv, Commit, At
<1>5. booking'[c.of] = "PENDING"
  BY <1>3, <1>4 DEF Commit, Life!Make, Context, StoreOK
<1>6. c.by \in Tabs => c.of = TabHold[c.by]
  BY <1>3, CallFact DEF CallInv, Commit, At
<1>7. ~c.late
  BY <1>3, CallFact DEF CallInv, Commit, Insertable, Ends
<1>8. CallInv(c)'
  BY <1>3, <1>4, <1>5, <1>6, <1>7 DEF CallInv, Current
<1> QED
  BY <1>1, <1>2, <1>8, StepInv DEF Context

LEMMA RecoverInv ==
  ASSUME Context, NEW r \in Requests, Recover(r)
  PROVE  CallsOK' /\ CallsInv'
<1>1. CASE booking[request[r].of] # "NONE"
  <2> DEFINE c == [request[r] EXCEPT !.pc = "read", !.for = "begin"]
  <2>1. request' = [request EXCEPT ![r] = c]
    BY <1>1 DEF Recover, Step
  <2>2. c \in Calls
    BY CallFact DEF Calls, Pcs, Purposes
  <2>3. /\ c.pc = "read" /\ c.by = request[r].by /\ c.of = request[r].of /\ c.for = "begin"
        /\ c.key = request[r].key /\ c.late = request[r].late
    BY CallFact DEF Calls
  <2> HIDE DEF c
  <2>4. CallInv(c)
    BY <1>1, <2>3, CallFact DEF CallInv, Current, Recover, At
  <2> QED
    BY <2>1, <2>2, <2>4, StepNow DEF Context
<1>2. CASE booking[request[r].of] = "NONE"
  BY <1>2, ThrowInv DEF Recover, Throw, Step
<1> QED
  BY <1>1, <1>2

LEMMA ReadInv ==
  ASSUME Context, NEW r \in Requests, Read(r)
  PROVE  CallsOK' /\ CallsInv'
<1> DEFINE h == request[r].of
           v == View(h)
<1>1. h \in Holds /\ booking[h] # "NONE" /\ StoreOK /\ ~At(r, "idle")
  BY CallFact DEF CallInv, Read, At, Context
<1>2. /\ v \in Views /\ Tells(v, h)
      /\ request[r].late => v.status # "PENDING"
  <2>1. v \in Views /\ v.status = booking[h]
    BY <1>1, ViewFact
  <2>2. Tells(v, h)
    BY <1>1, ViewTells
  <2>3. request[r].late => booking[h] # "PENDING"
    BY CallFact DEF CallInv, Ends
  <2> QED
    BY <2>1, <2>2, <2>3
<1>3. CASE /\ request[r].key # NoKey /\ v.payable
           /\ Step(r, [request[r] EXCEPT !.pc = "lookup", !.for = "store", !.answer = v])
  <2> HIDE DEF v
  <2> DEFINE c == [request[r] EXCEPT !.pc = "lookup", !.for = "store", !.answer = v]
  <2>1. request' = [request EXCEPT ![r] = c]
    BY <1>3 DEF Step
  <2>2. c \in Calls
    BY CallFact, <1>2 DEF Calls, Pcs, Purposes
  <2>3. /\ c.pc = "lookup" /\ c.by = request[r].by /\ c.key = request[r].key /\ c.of = h
        /\ c.for = "store" /\ c.answer = v /\ c.late = request[r].late
    BY CallFact DEF Calls
  <2> HIDE DEF c
  <2>4. CallInv(c)
    BY <1>1, <1>2, <1>3, <2>3, CallFact DEF CallInv, Current, At
  <2> QED
    BY <2>1, <2>2, <2>4, StepNow DEF Context
<1>4. CASE Reply(r, v)
  BY <1>1, <1>2, <1>4, ReplyInv
<1> QED
  BY <1>3, <1>4 DEF Read

LEMMA UpdateInv ==
  ASSUME Context, NEW r \in Requests, Update(r)
  PROVE  CallsOK' /\ CallsInv'
<1>1. /\ request[r].answer \in Views /\ Tells(request[r].answer, request[r].of) /\ ~At(r, "idle")
      /\ request[r].late => request[r].answer.status # "PENDING"
  BY CallFact DEF CallInv, Current, Update, At
<1>2. CASE Reply(r, request[r].answer)
  BY <1>1, <1>2, ReplyInv
<1>3. CASE Throw(r)
  BY <1>3, ThrowInv DEF Throw, Step
<1> QED
  BY <1>2, <1>3 DEF Update

LEMMA InsertInv ==
  ASSUME Context, NEW r \in Requests, Insert(r)
  PROVE  CallsOK' /\ CallsInv'
<1>1. /\ request[r].answer \in Views /\ Tells(request[r].answer, request[r].of) /\ ~At(r, "idle")
      /\ request[r].late => request[r].answer.status # "PENDING"
  BY CallFact DEF CallInv, Current, Insert, At
<1>2. CASE Reply(r, request[r].answer)
  BY <1>1, <1>2, ReplyInv
<1>3. CASE Throw(r)
  BY <1>3, ThrowInv DEF Throw, Step
<1>4. CASE Collide(r)
  BY <1>1, <1>4, CollideInv
<1> QED
  BY <1>2, <1>3, <1>4 DEF Insert

LEMMA CloseInv ==
  ASSUME Context, NEW t \in Tabs, Close(t)
  PROVE  CallsOK' /\ CallsInv'
<1>1. ASSUME NEW q \in Requests PROVE \E d \in Calls : d = request'[q] /\ CallInv(d)'
  <2> PICK d : d = request'[q]
    OBVIOUS
  <2>1. CASE d = request[q] \/ d = Idle
    <3>1. d \in Calls /\ CallInv(d)
      BY <2>1, CallFact, IdleFact, RetryAssumption DEF CallInv, Current
    <3> QED
      BY <3>1, CallStable DEF Context
  <2>2. CASE d = [request[q] EXCEPT !.by = Nobody] /\ ~At(q, "answered")
    <3>1. d \in Calls
      BY <2>2, CallFact DEF Calls
    <3>2. /\ d.pc = request[q].pc /\ d.by = Nobody /\ d.key = request[q].key
          /\ d.of = request[q].of /\ d.for = request[q].for /\ d.seen = request[q].seen
          /\ d.answer = request[q].answer /\ d.late = request[q].late
      BY <2>2, CallFact DEF Calls
    <3>3. CallInv(d)
      BY <2>2, <3>2, CallFact, RetryAssumption DEF CallInv, Current, At
    <3> QED
      BY <3>1, <3>3, CallStable DEF Context
  <2> QED
    BY <2>1, <2>2 DEF Close
<1>2. request' = [q \in Requests |-> request'[q]]
  BY DEF Close
<1>3. CallsOK'
  BY <1>1, <1>2 DEF CallsOK
<1>4. ASSUME NEW q \in Requests PROVE CallInv(request[q])'
  <2>1. PICK d \in Calls : d = request'[q] /\ CallInv(d)'
    BY <1>1
  <2> QED
    BY <2>1 DEF CallInv, Current, Tells
<1> QED
  BY <1>3, <1>4 DEF CallsInv

(***************************************************************************)
(* The records.                                                            *)
(***************************************************************************)
LEMMA RecordStable ==
  ASSUME StoreOK, Grows, NEW e, RecordInv(e)
  PROVE  RecordInv(e)'
<1>1. CASE e = NoRecord
  BY <1>1 DEF RecordInv
<1>2. CASE e # NoRecord
  <2>1. e.of \in Holds /\ booking[e.of] # "NONE"
    BY <1>2 DEF RecordInv
  <2>2. booking'[e.of] # "NONE"
    BY <2>1 DEF Grows
  <2>3. Tells(e.body, e.of) => Tells(e.body, e.of)'
    BY <2>1, TellsStable
  <2> QED
    BY <1>2, <2>1, <2>2, <2>3 DEF RecordInv
<1> QED
  BY <1>1, <1>2

LEMMA RecordsKeep ==
  ASSUME StoreOK, RecordsInv, Grows, record' = record
  PROVE  RecordsInv'
<1> SUFFICES ASSUME NEW k \in Keys PROVE RecordInv(record[k])'
  BY DEF RecordsInv
<1> PICK e : e = record[k]
  OBVIOUS
<1>1. RecordInv(e)
  BY DEF RecordsInv
<1>2. RecordInv(e)'
  BY <1>1, RecordStable
<1> QED
  BY <1>2 DEF RecordInv, Tells

LEMMA RecordsChange ==
  ASSUME StoreOK, RecordsOK, RecordsInv, Grows, NEW k \in Keys, NEW e \in Records, RecordInv(e)',
         record' = [record EXCEPT ![k] = e]
  PROVE  RecordsInv'
<1> SUFFICES ASSUME NEW q \in Keys PROVE RecordInv(record[q])'
  BY DEF RecordsInv
<1>1. CASE q = k
  BY <1>1 DEF RecordsOK, RecordInv, Tells
<1>2. CASE q # k
  <2> PICK d : d = record[q]
    OBVIOUS
  <2>1. RecordInv(d)
    BY DEF RecordsInv
  <2>2. RecordInv(d)' /\ record'[q] = d
    BY <1>2, <2>1, RecordStable DEF RecordsOK
  <2> QED
    BY <2>2 DEF RecordInv, Tells
<1> QED
  BY <1>1, <1>2

LEMMA NoRecordFact == NoRecord \in Records /\ NoRecord.of = NoHold /\ NoRecord.body = NoView
BY NoViewFact DEF NoRecord, Records

\* An answer that was told may be frozen.
LEMMA FrozenInv ==
  ASSUME Context, NEW k \in Keys, NEW h \in Holds, NEW v \in Views, Tells(v, h), v.payable,
         record' = [record EXCEPT ![k] = [of |-> h, body |-> v]]
  PROVE  RecordsInv'
<1> PICK e : e = [of |-> h, body |-> v]
  OBVIOUS
<1>1. e \in Records /\ e.of = h /\ e.body = v
  BY DEF Records
<1>2. RecordInv(e)
  BY <1>1 DEF RecordInv, Tells
<1>3. RecordInv(e)'
  BY <1>2, RecordStable DEF Context
<1> QED
  BY <1>1, <1>3, RecordsChange DEF Context

LEMMA ForgetRecords ==
  ASSUME Context, NEW r \in Requests, Forget(r)
  PROVE  RecordsInv'
<1>1. CASE record' = record
  BY <1>1, RecordsKeep DEF Context
<1>2. CASE record' = [record EXCEPT ![request[r].key] = NoRecord]
  <2>1. request[r].key \in Keys
    BY CallFact DEF Forget, At, CallInv
  <2>2. RecordInv(NoRecord)'
    BY DEF RecordInv
  <2> QED
    BY <1>2, <2>1, <2>2, NoRecordFact, RecordsChange DEF Context
<1> QED
  BY <1>1, <1>2 DEF Forget

LEMMA CommitRecords ==
  ASSUME Context, NEW r \in Requests, Commit(r)
  PROVE  RecordsInv'
<1>1. request[r].of \in Holds
  BY CallFact DEF Commit, At, CallInv
<1>2. CASE record' = record
  BY <1>2, RecordsKeep DEF Context
<1>3. CASE /\ request[r].key # NoKey
           /\ record' = [record EXCEPT ![request[r].key] = [of |-> request[r].of, body |-> NoView]]
  <2> PICK e : e = [of |-> request[r].of, body |-> NoView]
    OBVIOUS
  <2>1. e \in Records /\ e.of = request[r].of /\ e.body = NoView
    BY <1>1, NoViewFact DEF Records
  <2>2. booking'[e.of] = "PENDING"
    BY <1>1, <2>1 DEF Commit, Life!Make, Context, StoreOK
  <2>3. RecordInv(e)'
    BY <1>1, <2>1, <2>2 DEF RecordInv
  <2>4. request[r].key \in Keys
    BY <1>3, CallFact
  <2> QED
    BY <1>3, <2>1, <2>3, <2>4, RecordsChange DEF Context
<1> QED
  BY <1>2, <1>3 DEF Commit, Bind, recordVars

LEMMA UpdateRecords ==
  ASSUME Context, NEW r \in Requests, Update(r)
  PROVE  RecordsInv'
<1>1. /\ request[r].key \in Keys /\ request[r].of \in Holds /\ request[r].answer \in Views
      /\ Tells(request[r].answer, request[r].of) /\ request[r].answer.payable
  BY CallFact DEF Update, At, CallInv
<1>2. CASE record' = record
  BY <1>2, RecordsKeep DEF Context
<1>3. CASE record' = [record EXCEPT ![request[r].key] =
                        [of |-> request[r].of, body |-> request[r].answer]]
  BY <1>1, <1>3, FrozenInv
<1> QED
  BY <1>2, <1>3 DEF Update

LEMMA InsertRecords ==
  ASSUME Context, NEW r \in Requests, Insert(r)
  PROVE  RecordsInv'
<1>1. /\ request[r].key \in Keys /\ request[r].of \in Holds /\ request[r].answer \in Views
      /\ Tells(request[r].answer, request[r].of) /\ request[r].answer.payable
  BY CallFact DEF Insert, At, CallInv
<1>2. CASE record' = record
  BY <1>2, RecordsKeep DEF Context
<1>3. CASE record' = [record EXCEPT ![request[r].key] =
                        [of |-> request[r].of, body |-> request[r].answer]]
  BY <1>1, <1>3, FrozenInv
<1> QED
  BY <1>2, <1>3 DEF Insert, Bind, recordVars

\* A record is deleted only when the deadline of its booking has passed.
LEMMA ForgetKept ==
  ASSUME Context, RecordKept, NEW r \in Requests, Forget(r)
  PROVE  RecordKept'
<1>1. request[r].key \in Keys /\ request[r].seen \in overdue
  BY CallFact DEF Forget, At, CallInv
<1>2. bound' = bound /\ overdue \subseteq overdue'
  BY DEF Forget, Context, Grows
<1>3. CASE record' = record
  BY <1>2, <1>3 DEF RecordKept
<1>4. CASE SameRecord(r) /\ record' = [record EXCEPT ![request[r].key] = NoRecord]
  <2>1. record[request[r].key].of \in overdue
    BY <1>1, <1>4 DEF SameRecord, Stored
  <2>2. ASSUME NEW b \in bound PROVE b[2] \in overdue' \/ record'[b[1]].of = b[2]
    <3>1. b[1] \in Keys
      BY DEF Context, RecordsOK
    <3>2. CASE b[1] = request[r].key
      BY <1>2, <2>1, <3>2 DEF RecordKept
    <3>3. CASE b[1] # request[r].key
      BY <1>2, <1>4, <3>1, <3>3 DEF RecordKept, Context, RecordsOK
    <3> QED
      BY <3>2, <3>3
  <2> QED
    BY <1>2, <2>2 DEF RecordKept
<1> QED
  BY <1>3, <1>4 DEF Forget

\* A booking is bound to a key that has no record.
LEMMA BindKept ==
  ASSUME Context, RecordKept, NEW k \in Keys, NEW h \in Holds, NEW v, record[k] = NoRecord,
         record' = [record EXCEPT ![k] = [of |-> h, body |-> v]], bound' = bound \cup {<<k, h>>}
  PROVE  RecordKept'
<1> SUFFICES ASSUME NEW b \in bound' PROVE b[2] \in overdue' \/ record'[b[1]].of = b[2]
  BY DEF RecordKept
<1>1. record'[k].of = h
  BY DEF Context, RecordsOK
<1>2. CASE b = <<k, h>>
  BY <1>1, <1>2
<1>3. CASE b \in bound
  <2>1. b \in Keys \X Holds /\ overdue \subseteq overdue'
    BY <1>3 DEF Context, RecordsOK, Grows
  <2>2. b[2] \in overdue \/ record[b[1]].of = b[2]
    BY <1>3 DEF RecordKept
  <2>3. CASE b[1] = k
    BY <2>1, <2>2, <2>3, NoRecordFact, RetryAssumption
  <2>4. CASE b[1] # k
    BY <2>1, <2>2, <2>4 DEF Context, RecordsOK
  <2> QED
    BY <2>3, <2>4
<1> QED
  BY <1>2, <1>3

LEMMA CommitKept ==
  ASSUME Context, RecordKept, NEW r \in Requests, Commit(r)
  PROVE  RecordKept'
<1>1. request[r].of \in Holds
  BY CallFact DEF Commit, At, CallInv
<1>2. CASE request[r].key = NoKey
  BY <1>2 DEF Commit, Bind, recordVars, RecordKept, Context, Grows
<1>3. CASE request[r].key # NoKey
  BY <1>1, <1>3, CallFact, BindKept DEF Commit, Bind, Insertable, Stored
<1> QED
  BY <1>2, <1>3

LEMMA InsertKept ==
  ASSUME Context, RecordKept, NEW r \in Requests, Insert(r)
  PROVE  RecordKept'
<1>1. request[r].key \in Keys /\ request[r].of \in Holds
  BY CallFact DEF Insert, At, CallInv
<1>2. CASE UNCHANGED recordVars
  BY <1>2 DEF recordVars, RecordKept, Context, Grows
<1>3. CASE Stored(r) = NoRecord /\ Bind(request[r].key, request[r].of, request[r].answer)
  BY <1>1, <1>3, BindKept, RetryAssumption DEF Bind, Stored
<1> QED
  BY <1>2, <1>3 DEF Insert

LEMMA UpdateKept ==
  ASSUME Context, RecordKept, NEW r \in Requests, Update(r)
  PROVE  RecordKept'
<1>1. request[r].key \in Keys /\ request[r].seen = request[r].of
  BY CallFact DEF Update, At, CallInv
<1>2. bound' = bound /\ overdue \subseteq overdue'
  BY DEF Update, Context, Grows
<1>3. CASE record' = record
  BY <1>2, <1>3 DEF RecordKept
<1>4. CASE SameRecord(r) /\ record' = [record EXCEPT ![request[r].key] =
                                         [of |-> request[r].of, body |-> request[r].answer]]
  <2>1. \A k \in Keys : record'[k].of = record[k].of
    BY <1>1, <1>4 DEF SameRecord, Stored, Context, RecordsOK
  <2>2. \A b \in bound : b[1] \in Keys
    BY DEF Context, RecordsOK
  <2> QED
    BY <1>2, <2>1, <2>2 DEF RecordKept
<1> QED
  BY <1>3, <1>4 DEF Update

(***************************************************************************)
(* The pages.                                                              *)
(***************************************************************************)
LEMMA ViewsKeep ==
  ASSUME StoreOK, ViewsInv, Grows, view' = view
  PROVE  ViewsInv'
<1> SUFFICES ASSUME NEW t \in Tabs, view[t] # NoView PROVE Tells(view[t], TabHold[t])'
  BY DEF ViewsInv
<1> PICK v : v = view[t]
  OBVIOUS
<1>1. TabHold[t] \in Holds /\ Tells(v, TabHold[t])
  BY RetryAssumption DEF ViewsInv
<1>2. Tells(v, TabHold[t])'
  BY <1>1, TellsStable
<1> QED
  BY <1>2 DEF Tells

LEMMA ReceiveViews ==
  ASSUME Context, NEW r \in Requests, Receive(r)
  PROVE  ViewsInv'
<1> DEFINE t == request[r].by
<1>1. t \in Tabs /\ request[r].of = TabHold[t] /\ Tells(request[r].answer, TabHold[t])
  BY CallFact DEF Receive, At, CallInv
<1>2. view' = [view EXCEPT ![t] = request[r].answer] /\ booking' = booking /\ reference' = reference
  BY DEF Receive, storeVars
<1> HIDE DEF t
<1> QED
  BY <1>1, <1>2 DEF ViewsInv, Tells, Context, TabsOK

LEMMA CloseViews ==
  ASSUME Context, NEW t \in Tabs, Close(t)
  PROVE  ViewsInv'
BY DEF Close, storeVars, ViewsInv, Tells, Context, TabsOK

LEMMA ReceiveTabs ==
  ASSUME Context, NEW r \in Requests, Receive(r)
  PROVE  TabsOK'
BY CallFact DEF Receive, At, CallInv, Context, TabsOK, bounds

(***************************************************************************)
(* One step for each action.                                               *)
(***************************************************************************)
LEMMA StoreStep == Context /\ [Next]_vars => StoreOK'
<1> SUFFICES ASSUME Context, [Next]_vars PROVE StoreOK'
  OBVIOUS
<1> USE DEF Context, StoreOK, Ends, storeVars, recordVars, tabVars, bounds
<1>1. ASSUME NEW r \in Requests, Lookup(r) PROVE StoreOK'
  BY <1>1 DEF Lookup, Found, Missing, Replay, Step, Goto, Throw, Reply, Collide
<1>2. ASSUME NEW r \in Requests, Forget(r) PROVE StoreOK'
  BY <1>2 DEF Forget, Found, Missing, Replay, Step, Goto, Throw, Reply, Collide
<1>3. ASSUME NEW r \in Requests, CheckHold(r) PROVE StoreOK'
  BY <1>3 DEF CheckHold, Found, Missing, Replay, Step, Goto, Throw, Reply, Collide
<1>18. ASSUME NEW r \in Requests, Complete(r) PROVE StoreOK'
  BY <1>18 DEF Complete, Found, Missing, Replay, Step, Goto, Throw, Reply, Collide
<1>4. ASSUME NEW r \in Requests, Commit(r) PROVE StoreOK'
  BY <1>4, CallFact DEF Commit, Life!Make, At, CallInv
<1>5. ASSUME NEW r \in Requests, Violate(r) PROVE StoreOK'
  BY <1>5 DEF Violate, Found, Missing, Replay, Step, Goto, Throw, Reply, Collide
<1>6. ASSUME NEW r \in Requests, Recover(r) PROVE StoreOK'
  BY <1>6 DEF Recover, Found, Missing, Replay, Step, Goto, Throw, Reply, Collide
<1>7. ASSUME NEW r \in Requests, Read(r) PROVE StoreOK'
  BY <1>7 DEF Read, Found, Missing, Replay, Step, Goto, Throw, Reply, Collide
<1>8. ASSUME NEW r \in Requests, Update(r) PROVE StoreOK'
  BY <1>8 DEF Update, Found, Missing, Replay, Step, Goto, Throw, Reply, Collide
<1>9. ASSUME NEW r \in Requests, Insert(r) PROVE StoreOK'
  BY <1>9 DEF Insert, Found, Missing, Replay, Step, Goto, Throw, Reply, Collide
<1>10. ASSUME NEW r \in Requests, Receive(r) PROVE StoreOK'
  BY <1>10 DEF Receive
<1>11. ASSUME NEW r \in Requests, Fail(r) PROVE StoreOK'
  BY <1>11 DEF Fail
<1>12. ASSUME NEW r \in Requests, NEW t \in Tabs, Open(r, t) PROVE StoreOK'
  BY <1>12 DEF Open
<1>13. ASSUME NEW r \in Requests, NEW t \in Tabs, Poll(r, t) PROVE StoreOK'
  BY <1>13 DEF Poll
<1>19. ASSUME NEW r \in Requests, NEW t \in Tabs, CompletePayment(r, t) PROVE StoreOK'
  BY <1>19 DEF CompletePayment
<1>14. ASSUME NEW r \in Requests, NEW k \in Keys \cup {NoKey}, NEW h \in Holds, OthersAsk(r, k, h) PROVE StoreOK'
  BY <1>14 DEF OthersAsk
<1>15. ASSUME NEW t \in Tabs, Close(t) PROVE StoreOK'
  BY <1>15 DEF Close
<1>16. ASSUME NEW h \in Holds, Proceed(h) PROVE StoreOK'
  BY <1>16 DEF Proceed, Life!Proceed, Life!DeadlinePasses, Life!Initialise, Life!GiveUp, Life!SettleByEvent
<1>17. CASE UNCHANGED vars
  BY <1>17 DEF vars
<1> QED
  BY <1>1, <1>2, <1>3, <1>4, <1>5, <1>6, <1>7, <1>8, <1>9, <1>10, <1>11, <1>12, <1>13, <1>14, <1>15, <1>16, <1>17, <1>18, <1>19 DEF Next, Serve

LEMMA GrowsStep == StoreOK /\ [Next]_vars => Grows
<1> SUFFICES ASSUME StoreOK, [Next]_vars PROVE Grows
  OBVIOUS
<1> USE DEF StoreOK, Grows, Ends, storeVars, recordVars, tabVars, bounds
<1>1. ASSUME NEW r \in Requests, Lookup(r) PROVE Grows
  BY <1>1 DEF Lookup, Found, Missing, Replay, Step, Goto, Throw, Reply, Collide
<1>2. ASSUME NEW r \in Requests, Forget(r) PROVE Grows
  BY <1>2 DEF Forget, Found, Missing, Replay, Step, Goto, Throw, Reply, Collide
<1>3. ASSUME NEW r \in Requests, CheckHold(r) PROVE Grows
  BY <1>3 DEF CheckHold, Found, Missing, Replay, Step, Goto, Throw, Reply, Collide
<1>18. ASSUME NEW r \in Requests, Complete(r) PROVE Grows
  BY <1>18 DEF Complete, Found, Missing, Replay, Step, Goto, Throw, Reply, Collide
<1>4. ASSUME NEW r \in Requests, Commit(r) PROVE Grows
  BY <1>4 DEF Commit, Life!Make
<1>5. ASSUME NEW r \in Requests, Violate(r) PROVE Grows
  BY <1>5 DEF Violate, Found, Missing, Replay, Step, Goto, Throw, Reply, Collide
<1>6. ASSUME NEW r \in Requests, Recover(r) PROVE Grows
  BY <1>6 DEF Recover, Found, Missing, Replay, Step, Goto, Throw, Reply, Collide
<1>7. ASSUME NEW r \in Requests, Read(r) PROVE Grows
  BY <1>7 DEF Read, Found, Missing, Replay, Step, Goto, Throw, Reply, Collide
<1>8. ASSUME NEW r \in Requests, Update(r) PROVE Grows
  BY <1>8 DEF Update, Found, Missing, Replay, Step, Goto, Throw, Reply, Collide
<1>9. ASSUME NEW r \in Requests, Insert(r) PROVE Grows
  BY <1>9 DEF Insert, Found, Missing, Replay, Step, Goto, Throw, Reply, Collide
<1>10. ASSUME NEW r \in Requests, Receive(r) PROVE Grows
  BY <1>10 DEF Receive
<1>11. ASSUME NEW r \in Requests, Fail(r) PROVE Grows
  BY <1>11 DEF Fail
<1>12. ASSUME NEW r \in Requests, NEW t \in Tabs, Open(r, t) PROVE Grows
  BY <1>12 DEF Open
<1>13. ASSUME NEW r \in Requests, NEW t \in Tabs, Poll(r, t) PROVE Grows
  BY <1>13 DEF Poll
<1>19. ASSUME NEW r \in Requests, NEW t \in Tabs, CompletePayment(r, t) PROVE Grows
  BY <1>19 DEF CompletePayment
<1>14. ASSUME NEW r \in Requests, NEW k \in Keys \cup {NoKey}, NEW h \in Holds, OthersAsk(r, k, h) PROVE Grows
  BY <1>14 DEF OthersAsk
<1>15. ASSUME NEW t \in Tabs, Close(t) PROVE Grows
  BY <1>15 DEF Close
<1>16. ASSUME NEW h \in Holds, Proceed(h) PROVE Grows
  BY <1>16 DEF Proceed, Life!Proceed, Life!DeadlinePasses, Life!Initialise, Life!GiveUp, Life!SettleByEvent
<1>17. CASE UNCHANGED vars
  BY <1>17 DEF vars
<1> QED
  BY <1>1, <1>2, <1>3, <1>4, <1>5, <1>6, <1>7, <1>8, <1>9, <1>10, <1>11, <1>12, <1>13, <1>14, <1>15, <1>16, <1>17, <1>18, <1>19 DEF Next, Serve

LEMMA RecordsTypeStep == Context /\ [Next]_vars => RecordsOK'
<1> SUFFICES ASSUME Context, [Next]_vars PROVE RecordsOK'
  OBVIOUS
<1> USE DEF Context, RecordsOK, Records, Stored, Bind, storeVars, recordVars, tabVars, bounds
<1>1. ASSUME NEW r \in Requests, Lookup(r) PROVE RecordsOK'
  BY <1>1 DEF Lookup, Found, Missing, Replay, Step, Goto, Throw, Reply, Collide
<1>2. ASSUME NEW r \in Requests, Forget(r) PROVE RecordsOK'
  BY <1>2, CallFact, NoRecordFact DEF Forget, Missing, Step, At, CallInv
<1>3. ASSUME NEW r \in Requests, CheckHold(r) PROVE RecordsOK'
  BY <1>3 DEF CheckHold, Found, Missing, Replay, Step, Goto, Throw, Reply, Collide
<1>18. ASSUME NEW r \in Requests, Complete(r) PROVE RecordsOK'
  BY <1>18 DEF Complete, Found, Missing, Replay, Step, Goto, Throw, Reply, Collide
<1>4. ASSUME NEW r \in Requests, Commit(r) PROVE RecordsOK'
  BY <1>4, CallFact, NoViewFact DEF Commit, At, CallInv
<1>5. ASSUME NEW r \in Requests, Violate(r) PROVE RecordsOK'
  BY <1>5 DEF Violate, Found, Missing, Replay, Step, Goto, Throw, Reply, Collide
<1>6. ASSUME NEW r \in Requests, Recover(r) PROVE RecordsOK'
  BY <1>6 DEF Recover, Found, Missing, Replay, Step, Goto, Throw, Reply, Collide
<1>7. ASSUME NEW r \in Requests, Read(r) PROVE RecordsOK'
  BY <1>7 DEF Read, Found, Missing, Replay, Step, Goto, Throw, Reply, Collide
<1>8. ASSUME NEW r \in Requests, Update(r) PROVE RecordsOK'
  BY <1>8, CallFact DEF Update, Reply, Throw, Step, At, CallInv
<1>9. ASSUME NEW r \in Requests, Insert(r) PROVE RecordsOK'
  BY <1>9, CallFact DEF Insert, Reply, Throw, Collide, Step, At, CallInv
<1>10. ASSUME NEW r \in Requests, Receive(r) PROVE RecordsOK'
  BY <1>10 DEF Receive
<1>11. ASSUME NEW r \in Requests, Fail(r) PROVE RecordsOK'
  BY <1>11 DEF Fail
<1>12. ASSUME NEW r \in Requests, NEW t \in Tabs, Open(r, t) PROVE RecordsOK'
  BY <1>12 DEF Open
<1>13. ASSUME NEW r \in Requests, NEW t \in Tabs, Poll(r, t) PROVE RecordsOK'
  BY <1>13 DEF Poll
<1>19. ASSUME NEW r \in Requests, NEW t \in Tabs, CompletePayment(r, t) PROVE RecordsOK'
  BY <1>19 DEF CompletePayment
<1>14. ASSUME NEW r \in Requests, NEW k \in Keys \cup {NoKey}, NEW h \in Holds, OthersAsk(r, k, h) PROVE RecordsOK'
  BY <1>14 DEF OthersAsk
<1>15. ASSUME NEW t \in Tabs, Close(t) PROVE RecordsOK'
  BY <1>15 DEF Close
<1>16. ASSUME NEW h \in Holds, Proceed(h) PROVE RecordsOK'
  BY <1>16 DEF Proceed
<1>17. CASE UNCHANGED vars
  BY <1>17 DEF vars
<1> QED
  BY <1>1, <1>2, <1>3, <1>4, <1>5, <1>6, <1>7, <1>8, <1>9, <1>10, <1>11, <1>12, <1>13, <1>14, <1>15, <1>16, <1>17, <1>18, <1>19 DEF Next, Serve

LEMMA TabsStep == Context /\ [Next]_vars => TabsOK'
<1> SUFFICES ASSUME Context, [Next]_vars PROVE TabsOK'
  OBVIOUS
<1> USE DEF Context, TabsOK, Fault, storeVars, recordVars, tabVars, bounds
<1>1. ASSUME NEW r \in Requests, Lookup(r) PROVE TabsOK'
  BY <1>1 DEF Lookup, Found, Missing, Replay, Step, Goto, Throw, Reply, Collide
<1>2. ASSUME NEW r \in Requests, Forget(r) PROVE TabsOK'
  BY <1>2 DEF Forget, Found, Missing, Replay, Step, Goto, Throw, Reply, Collide
<1>3. ASSUME NEW r \in Requests, CheckHold(r) PROVE TabsOK'
  BY <1>3 DEF CheckHold, Found, Missing, Replay, Step, Goto, Throw, Reply, Collide
<1>18. ASSUME NEW r \in Requests, Complete(r) PROVE TabsOK'
  BY <1>18 DEF Complete, Found, Missing, Replay, Step, Goto, Throw, Reply, Collide
<1>4. ASSUME NEW r \in Requests, Commit(r) PROVE TabsOK'
  BY <1>4 DEF Commit
<1>5. ASSUME NEW r \in Requests, Violate(r) PROVE TabsOK'
  BY <1>5 DEF Violate, Found, Missing, Replay, Step, Goto, Throw, Reply, Collide
<1>6. ASSUME NEW r \in Requests, Recover(r) PROVE TabsOK'
  BY <1>6 DEF Recover, Found, Missing, Replay, Step, Goto, Throw, Reply, Collide
<1>7. ASSUME NEW r \in Requests, Read(r) PROVE TabsOK'
  BY <1>7 DEF Read, Found, Missing, Replay, Step, Goto, Throw, Reply, Collide
<1>8. ASSUME NEW r \in Requests, Update(r) PROVE TabsOK'
  BY <1>8 DEF Update, Found, Missing, Replay, Step, Goto, Throw, Reply, Collide
<1>9. ASSUME NEW r \in Requests, Insert(r) PROVE TabsOK'
  BY <1>9 DEF Insert, Found, Missing, Replay, Step, Goto, Throw, Reply, Collide
<1>10. ASSUME NEW r \in Requests, Receive(r) PROVE TabsOK'
  BY <1>10, ReceiveTabs
<1>11. ASSUME NEW r \in Requests, Fail(r) PROVE TabsOK'
  BY <1>11 DEF Fail
<1>12. ASSUME NEW r \in Requests, NEW t \in Tabs, Open(r, t) PROVE TabsOK'
  BY <1>12 DEF Open
<1>13. ASSUME NEW r \in Requests, NEW t \in Tabs, Poll(r, t) PROVE TabsOK'
  BY <1>13 DEF Poll
<1>19. ASSUME NEW r \in Requests, NEW t \in Tabs, CompletePayment(r, t) PROVE TabsOK'
  BY <1>19 DEF CompletePayment
<1>14. ASSUME NEW r \in Requests, NEW k \in Keys \cup {NoKey}, NEW h \in Holds, OthersAsk(r, k, h) PROVE TabsOK'
  BY <1>14 DEF OthersAsk
<1>15. ASSUME NEW t \in Tabs, Close(t) PROVE TabsOK'
  BY <1>15, NoViewFact DEF Close
<1>16. ASSUME NEW h \in Holds, Proceed(h) PROVE TabsOK'
  BY <1>16 DEF Proceed
<1>17. CASE UNCHANGED vars
  BY <1>17 DEF vars
<1> QED
  BY <1>1, <1>2, <1>3, <1>4, <1>5, <1>6, <1>7, <1>8, <1>9, <1>10, <1>11, <1>12, <1>13, <1>14, <1>15, <1>16, <1>17, <1>18, <1>19 DEF Next, Serve

LEMMA CallsKeep ==
  ASSUME Context, request' = request
  PROVE  CallsOK' /\ CallsInv'
<1>1. ASSUME NEW r \in Requests PROVE CallInv(request[r])'
  <2> PICK c : c = request[r]
    OBVIOUS
  <2>1. CallInv(c)'
    BY CallFact, CallStable DEF Context
  <2> QED
    BY <2>1 DEF CallInv, Current, Tells
<1> QED
  BY <1>1 DEF Context, CallsOK, CallsInv

LEMMA AskInv ==
  ASSUME Context, NEW r \in Requests, NEW k \in Keys \cup {NoKey}, NEW h \in Holds,
         OthersAsk(r, k, h)
  PROVE  CallsOK' /\ CallsInv'
<1>1. CASE k = NoKey
  BY <1>1, BeginInv, RetryAssumption DEF OthersAsk, Ask
<1>2. CASE k # NoKey
  BY <1>2, BeginInv, RetryAssumption DEF OthersAsk, Ask
<1> QED
  BY <1>1, <1>2

LEMMA PollInv ==
  ASSUME Context, NEW r \in Requests, NEW t \in Tabs, Poll(r, t)
  PROVE  CallsOK' /\ CallsInv'
<1>1. Tells(view[t], TabHold[t]) /\ TabHold[t] \in Holds
  BY NoViewFact, RetryAssumption DEF Poll, Polls, Context, ViewsInv
<1>2. view[t].of = TabHold[t] /\ booking[TabHold[t]] # "NONE"
  BY <1>1 DEF Tells
<1> QED
  BY <1>1, <1>2, BeginInv DEF Poll

LEMMA CompletePaymentInv ==
  ASSUME Context, NEW r \in Requests, NEW t \in Tabs, CompletePayment(r, t)
  PROVE  CallsOK' /\ CallsInv'
<1>1. Tells(view[t], TabHold[t]) /\ TabHold[t] \in Holds
  BY NoViewFact, RetryAssumption DEF CompletePayment, Polls, Context, ViewsInv
<1>2. view[t].of = TabHold[t] /\ booking[TabHold[t]] # "NONE"
  BY <1>1 DEF Tells
<1> QED
  BY <1>1, <1>2, BeginInv DEF CompletePayment

LEMMA CallsStep == Context /\ [Next]_vars => (CallsOK /\ CallsInv)'
<1> SUFFICES ASSUME Context, [Next]_vars PROVE (CallsOK /\ CallsInv)'
  OBVIOUS
<1> USE DEF storeVars, recordVars, tabVars, bounds
<1>1. ASSUME NEW r \in Requests, Lookup(r) PROVE (CallsOK /\ CallsInv)'
  BY <1>1, LookupInv
<1>2. ASSUME NEW r \in Requests, Forget(r) PROVE (CallsOK /\ CallsInv)'
  BY <1>2, MissingInv DEF Forget
<1>3. ASSUME NEW r \in Requests, CheckHold(r) PROVE (CallsOK /\ CallsInv)'
  BY <1>3, CheckHoldInv
<1>18. ASSUME NEW r \in Requests, Complete(r) PROVE (CallsOK /\ CallsInv)'
  BY <1>18, CompleteInv
<1>4. ASSUME NEW r \in Requests, Commit(r) PROVE (CallsOK /\ CallsInv)'
  BY <1>4, CommitInv
<1>5. ASSUME NEW r \in Requests, Violate(r) PROVE (CallsOK /\ CallsInv)'
  BY <1>5, CollideInv DEF Violate, At
<1>6. ASSUME NEW r \in Requests, Recover(r) PROVE (CallsOK /\ CallsInv)'
  BY <1>6, RecoverInv
<1>7. ASSUME NEW r \in Requests, Read(r) PROVE (CallsOK /\ CallsInv)'
  BY <1>7, ReadInv
<1>8. ASSUME NEW r \in Requests, Update(r) PROVE (CallsOK /\ CallsInv)'
  BY <1>8, UpdateInv
<1>9. ASSUME NEW r \in Requests, Insert(r) PROVE (CallsOK /\ CallsInv)'
  BY <1>9, InsertInv
<1>10. ASSUME NEW r \in Requests, Receive(r) PROVE (CallsOK /\ CallsInv)'
  BY <1>10, ThrowInv DEF Receive
<1>11. ASSUME NEW r \in Requests, Fail(r) PROVE (CallsOK /\ CallsInv)'
  BY <1>11, ThrowInv DEF Fail
<1>12. ASSUME NEW r \in Requests, NEW t \in Tabs, Open(r, t) PROVE (CallsOK /\ CallsInv)'
  BY <1>12, BeginInv, RetryAssumption DEF Open, Ask
<1>13. ASSUME NEW r \in Requests, NEW t \in Tabs, Poll(r, t) PROVE (CallsOK /\ CallsInv)'
  BY <1>13, PollInv
<1>19. ASSUME NEW r \in Requests, NEW t \in Tabs, CompletePayment(r, t) PROVE (CallsOK /\ CallsInv)'
  BY <1>19, CompletePaymentInv
<1>14. ASSUME NEW r \in Requests, NEW k \in Keys \cup {NoKey}, NEW h \in Holds, OthersAsk(r, k, h) PROVE (CallsOK /\ CallsInv)'
  BY <1>14, AskInv
<1>15. ASSUME NEW t \in Tabs, Close(t) PROVE (CallsOK /\ CallsInv)'
  BY <1>15, CloseInv
<1>16. ASSUME NEW h \in Holds, Proceed(h) PROVE (CallsOK /\ CallsInv)'
  BY <1>16, CallsKeep DEF Proceed
<1>17. CASE UNCHANGED vars
  BY <1>17, CallsKeep DEF vars
<1> QED
  BY <1>1, <1>2, <1>3, <1>4, <1>5, <1>6, <1>7, <1>8, <1>9, <1>10, <1>11, <1>12, <1>13, <1>14, <1>15, <1>16, <1>17, <1>18, <1>19 DEF Next, Serve

LEMMA RecordsStep == Context /\ [Next]_vars => RecordsInv'
<1> SUFFICES ASSUME Context, [Next]_vars PROVE RecordsInv'
  OBVIOUS
<1> USE DEF Context, storeVars, recordVars, tabVars, bounds
<1>1. ASSUME NEW r \in Requests, Lookup(r) PROVE RecordsInv'
  BY <1>1, RecordsKeep DEF Lookup, Found, Missing, Replay, Step, Goto, Throw, Reply, Collide
<1>2. ASSUME NEW r \in Requests, Forget(r) PROVE RecordsInv'
  BY <1>2, ForgetRecords
<1>3. ASSUME NEW r \in Requests, CheckHold(r) PROVE RecordsInv'
  BY <1>3, RecordsKeep DEF CheckHold, Found, Missing, Replay, Step, Goto, Throw, Reply, Collide
<1>18. ASSUME NEW r \in Requests, Complete(r) PROVE RecordsInv'
  BY <1>18, RecordsKeep DEF Complete, Found, Missing, Replay, Step, Goto, Throw, Reply, Collide
<1>4. ASSUME NEW r \in Requests, Commit(r) PROVE RecordsInv'
  BY <1>4, CommitRecords
<1>5. ASSUME NEW r \in Requests, Violate(r) PROVE RecordsInv'
  BY <1>5, RecordsKeep DEF Violate, Found, Missing, Replay, Step, Goto, Throw, Reply, Collide
<1>6. ASSUME NEW r \in Requests, Recover(r) PROVE RecordsInv'
  BY <1>6, RecordsKeep DEF Recover, Found, Missing, Replay, Step, Goto, Throw, Reply, Collide
<1>7. ASSUME NEW r \in Requests, Read(r) PROVE RecordsInv'
  BY <1>7, RecordsKeep DEF Read, Found, Missing, Replay, Step, Goto, Throw, Reply, Collide
<1>8. ASSUME NEW r \in Requests, Update(r) PROVE RecordsInv'
  BY <1>8, UpdateRecords
<1>9. ASSUME NEW r \in Requests, Insert(r) PROVE RecordsInv'
  BY <1>9, InsertRecords
<1>10. ASSUME NEW r \in Requests, Receive(r) PROVE RecordsInv'
  BY <1>10, RecordsKeep DEF Receive
<1>11. ASSUME NEW r \in Requests, Fail(r) PROVE RecordsInv'
  BY <1>11, RecordsKeep DEF Fail
<1>12. ASSUME NEW r \in Requests, NEW t \in Tabs, Open(r, t) PROVE RecordsInv'
  BY <1>12, RecordsKeep DEF Open
<1>13. ASSUME NEW r \in Requests, NEW t \in Tabs, Poll(r, t) PROVE RecordsInv'
  BY <1>13, RecordsKeep DEF Poll
<1>19. ASSUME NEW r \in Requests, NEW t \in Tabs, CompletePayment(r, t) PROVE RecordsInv'
  BY <1>19, RecordsKeep DEF CompletePayment
<1>14. ASSUME NEW r \in Requests, NEW k \in Keys \cup {NoKey}, NEW h \in Holds, OthersAsk(r, k, h) PROVE RecordsInv'
  BY <1>14, RecordsKeep DEF OthersAsk
<1>15. ASSUME NEW t \in Tabs, Close(t) PROVE RecordsInv'
  BY <1>15, RecordsKeep DEF Close
<1>16. ASSUME NEW h \in Holds, Proceed(h) PROVE RecordsInv'
  BY <1>16, RecordsKeep DEF Proceed
<1>17. CASE UNCHANGED vars
  BY <1>17, RecordsKeep DEF vars
<1> QED
  BY <1>1, <1>2, <1>3, <1>4, <1>5, <1>6, <1>7, <1>8, <1>9, <1>10, <1>11, <1>12, <1>13, <1>14, <1>15, <1>16, <1>17, <1>18, <1>19 DEF Next, Serve

LEMMA KeptStep == Context /\ RecordKept /\ [Next]_vars => RecordKept'
<1> SUFFICES ASSUME Context, RecordKept, [Next]_vars PROVE RecordKept'
  OBVIOUS
<1> USE DEF Context, Grows, RecordKept, storeVars, recordVars, tabVars, bounds
<1>1. ASSUME NEW r \in Requests, Lookup(r) PROVE RecordKept'
  BY <1>1 DEF Lookup, Found, Missing, Replay, Step, Goto, Throw, Reply, Collide
<1>2. ASSUME NEW r \in Requests, Forget(r) PROVE RecordKept'
  BY <1>2, ForgetKept
<1>3. ASSUME NEW r \in Requests, CheckHold(r) PROVE RecordKept'
  BY <1>3 DEF CheckHold, Found, Missing, Replay, Step, Goto, Throw, Reply, Collide
<1>18. ASSUME NEW r \in Requests, Complete(r) PROVE RecordKept'
  BY <1>18 DEF Complete, Found, Missing, Replay, Step, Goto, Throw, Reply, Collide
<1>4. ASSUME NEW r \in Requests, Commit(r) PROVE RecordKept'
  BY <1>4, CommitKept
<1>5. ASSUME NEW r \in Requests, Violate(r) PROVE RecordKept'
  BY <1>5 DEF Violate, Found, Missing, Replay, Step, Goto, Throw, Reply, Collide
<1>6. ASSUME NEW r \in Requests, Recover(r) PROVE RecordKept'
  BY <1>6 DEF Recover, Found, Missing, Replay, Step, Goto, Throw, Reply, Collide
<1>7. ASSUME NEW r \in Requests, Read(r) PROVE RecordKept'
  BY <1>7 DEF Read, Found, Missing, Replay, Step, Goto, Throw, Reply, Collide
<1>8. ASSUME NEW r \in Requests, Update(r) PROVE RecordKept'
  BY <1>8, UpdateKept
<1>9. ASSUME NEW r \in Requests, Insert(r) PROVE RecordKept'
  BY <1>9, InsertKept
<1>10. ASSUME NEW r \in Requests, Receive(r) PROVE RecordKept'
  BY <1>10 DEF Receive
<1>11. ASSUME NEW r \in Requests, Fail(r) PROVE RecordKept'
  BY <1>11 DEF Fail
<1>12. ASSUME NEW r \in Requests, NEW t \in Tabs, Open(r, t) PROVE RecordKept'
  BY <1>12 DEF Open
<1>13. ASSUME NEW r \in Requests, NEW t \in Tabs, Poll(r, t) PROVE RecordKept'
  BY <1>13 DEF Poll
<1>19. ASSUME NEW r \in Requests, NEW t \in Tabs, CompletePayment(r, t) PROVE RecordKept'
  BY <1>19 DEF CompletePayment
<1>14. ASSUME NEW r \in Requests, NEW k \in Keys \cup {NoKey}, NEW h \in Holds, OthersAsk(r, k, h) PROVE RecordKept'
  BY <1>14 DEF OthersAsk
<1>15. ASSUME NEW t \in Tabs, Close(t) PROVE RecordKept'
  BY <1>15 DEF Close
<1>16. ASSUME NEW h \in Holds, Proceed(h) PROVE RecordKept'
  BY <1>16 DEF Proceed
<1>17. CASE UNCHANGED vars
  BY <1>17 DEF vars
<1> QED
  BY <1>1, <1>2, <1>3, <1>4, <1>5, <1>6, <1>7, <1>8, <1>9, <1>10, <1>11, <1>12, <1>13, <1>14, <1>15, <1>16, <1>17, <1>18, <1>19 DEF Next, Serve

LEMMA ViewsStep == Context /\ [Next]_vars => ViewsInv'
<1> SUFFICES ASSUME Context, [Next]_vars PROVE ViewsInv'
  OBVIOUS
<1> USE DEF Context, storeVars, recordVars, tabVars, bounds
<1>1. ASSUME NEW r \in Requests, Lookup(r) PROVE ViewsInv'
  BY <1>1, ViewsKeep DEF Lookup, Found, Missing, Replay, Step, Goto, Throw, Reply, Collide
<1>2. ASSUME NEW r \in Requests, Forget(r) PROVE ViewsInv'
  BY <1>2, ViewsKeep DEF Forget, Found, Missing, Replay, Step, Goto, Throw, Reply, Collide
<1>3. ASSUME NEW r \in Requests, CheckHold(r) PROVE ViewsInv'
  BY <1>3, ViewsKeep DEF CheckHold, Found, Missing, Replay, Step, Goto, Throw, Reply, Collide
<1>18. ASSUME NEW r \in Requests, Complete(r) PROVE ViewsInv'
  BY <1>18, ViewsKeep DEF Complete, Found, Missing, Replay, Step, Goto, Throw, Reply, Collide
<1>4. ASSUME NEW r \in Requests, Commit(r) PROVE ViewsInv'
  BY <1>4, ViewsKeep DEF Commit
<1>5. ASSUME NEW r \in Requests, Violate(r) PROVE ViewsInv'
  BY <1>5, ViewsKeep DEF Violate, Found, Missing, Replay, Step, Goto, Throw, Reply, Collide
<1>6. ASSUME NEW r \in Requests, Recover(r) PROVE ViewsInv'
  BY <1>6, ViewsKeep DEF Recover, Found, Missing, Replay, Step, Goto, Throw, Reply, Collide
<1>7. ASSUME NEW r \in Requests, Read(r) PROVE ViewsInv'
  BY <1>7, ViewsKeep DEF Read, Found, Missing, Replay, Step, Goto, Throw, Reply, Collide
<1>8. ASSUME NEW r \in Requests, Update(r) PROVE ViewsInv'
  BY <1>8, ViewsKeep DEF Update, Found, Missing, Replay, Step, Goto, Throw, Reply, Collide
<1>9. ASSUME NEW r \in Requests, Insert(r) PROVE ViewsInv'
  BY <1>9, ViewsKeep DEF Insert, Found, Missing, Replay, Step, Goto, Throw, Reply, Collide
<1>10. ASSUME NEW r \in Requests, Receive(r) PROVE ViewsInv'
  BY <1>10, ReceiveViews
<1>11. ASSUME NEW r \in Requests, Fail(r) PROVE ViewsInv'
  BY <1>11, ViewsKeep DEF Fail
<1>12. ASSUME NEW r \in Requests, NEW t \in Tabs, Open(r, t) PROVE ViewsInv'
  BY <1>12, ViewsKeep DEF Open
<1>13. ASSUME NEW r \in Requests, NEW t \in Tabs, Poll(r, t) PROVE ViewsInv'
  BY <1>13, ViewsKeep DEF Poll
<1>19. ASSUME NEW r \in Requests, NEW t \in Tabs, CompletePayment(r, t) PROVE ViewsInv'
  BY <1>19, ViewsKeep DEF CompletePayment
<1>14. ASSUME NEW r \in Requests, NEW k \in Keys \cup {NoKey}, NEW h \in Holds, OthersAsk(r, k, h) PROVE ViewsInv'
  BY <1>14, ViewsKeep DEF OthersAsk
<1>15. ASSUME NEW t \in Tabs, Close(t) PROVE ViewsInv'
  BY <1>15, CloseViews
<1>16. ASSUME NEW h \in Holds, Proceed(h) PROVE ViewsInv'
  BY <1>16, ViewsKeep DEF Proceed
<1>17. CASE UNCHANGED vars
  BY <1>17, ViewsKeep DEF vars
<1> QED
  BY <1>1, <1>2, <1>3, <1>4, <1>5, <1>6, <1>7, <1>8, <1>9, <1>10, <1>11, <1>12, <1>13, <1>14, <1>15, <1>16, <1>17, <1>18, <1>19 DEF Next, Serve

(***************************************************************************)
(* The theorems.                                                           *)
(***************************************************************************)
LEMMA InitInv == Init => RetryTypeOK /\ RetryInv
<1> SUFFICES ASSUME Init PROVE RetryTypeOK /\ RetryInv
  OBVIOUS
<1>1. StoreOK
  BY DEF Init, StoreOK
<1>2. RecordsOK
  BY NoRecordFact DEF Init, RecordsOK
<1>3. CallsOK
  BY IdleFact DEF Init, CallsOK
<1>4. TabsOK
  BY NoViewFact DEF Init, TabsOK
<1>5. RecordKept
  BY DEF Init, RecordKept
<1>6. RecordsInv
  BY DEF Init, RecordsInv, RecordInv
<1>7. CallsInv
  <2>1. CallInv(Idle)
    BY IdleFact, RetryAssumption DEF CallInv, Current
  <2> QED
    BY <2>1 DEF Init, CallsInv
<1>8. ViewsInv
  BY DEF Init, ViewsInv
<1> QED
  BY <1>1, <1>2, <1>3, <1>4, <1>5, <1>6, <1>7, <1>8 DEF RetryTypeOK, RetryInv

\* The types and the invariant hold however calls, retries and faults interleave.
THEOREM RetryCorrect == Spec => [](RetryTypeOK /\ RetryInv)
<1>1. RetryTypeOK /\ RetryInv /\ [Next]_vars => (RetryTypeOK /\ RetryInv)'
  <2> SUFFICES ASSUME RetryTypeOK, RetryInv, [Next]_vars
               PROVE  (RetryTypeOK /\ RetryInv)'
    OBVIOUS
  <2>1. Context /\ RecordKept
    BY GrowsStep DEF RetryTypeOK, RetryInv, Context
  <2>2. StoreOK' /\ RecordsOK' /\ TabsOK' /\ CallsOK' /\ CallsInv'
    BY <2>1, StoreStep, RecordsTypeStep, TabsStep, CallsStep DEF Context
  <2>3. RecordsInv' /\ RecordKept' /\ ViewsInv'
    BY <2>1, RecordsStep, KeptStep, ViewsStep
  <2> QED
    BY <2>2, <2>3 DEF RetryTypeOK, RetryInv
<1> QED
  BY <1>1, InitInv, PTL DEF Spec

\* Two bookings that one key was bound to never both await their deadline.
THEOREM KeyBindsOneBookingHolds == Spec => []KeyBindsOneBooking
<1>1. RetryInv => KeyBindsOneBooking
  BY DEF RetryInv, RecordKept, KeyBindsOneBooking
<1> QED
  BY <1>1, RetryCorrect, PTL

\* Answers, frozen or fresh, and pages tell of the booking that was asked for, and
\* of an end only when it is the end; a call that begins after that end, with no
\* key or one past its deadline, is told of it.
THEOREM AnswersTrueHolds == Spec => []AnswersTrue
<1>1. RetryTypeOK /\ RetryInv => AnswersTrue
  <2> SUFFICES ASSUME RetryTypeOK, RetryInv PROVE AnswersTrue
    OBVIOUS
  <2>1. \A r \in Requests : request[r].pc = "answered" =>
          Tells(request[r].answer, request[r].of) /\ Current(request[r])
    BY DEF RetryInv, CallsInv, CallInv
  <2>2. \A k \in Keys : record[k].body # NoView =>
          Tells(record[k].body, record[k].of) /\ record[k].body.payable
    BY NoRecordFact DEF RetryInv, RecordsInv, RecordInv
  <2>3. \A t \in Tabs : view[t] # NoView => Tells(view[t], TabHold[t])
    BY DEF RetryInv, ViewsInv
  <2> QED
    BY <2>1, <2>2, <2>3 DEF AnswersTrue
<1> QED
  BY <1>1, RetryCorrect, PTL
==============================================================================
