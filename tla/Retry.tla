------------------------------- MODULE Retry -------------------------------
(***************************************************************************)
(* Asking for a booking more than once: BookingsService.create and get     *)
(* under concurrent and repeated calls, the idempotency records it keeps,  *)
(* and the checkout page (checkout-panel.tsx) that calls it, polls and is  *)
(* loaded again.                                                           *)
(*                                                                         *)
(* One customer, because keys are stored per user.  A booking is unique    *)
(* for its hold, and session, seats and token are the hold's own: so the   *)
(* hold stands for the booking and for the fingerprint of a request.  What *)
(* becomes of a booking and of its payment is the life of module           *)
(* BookingLife, which module Checkout implements.  A record's expiresAt is *)
(* always that of its booking.                                             *)
(***************************************************************************)
EXTENDS Naturals

CONSTANTS
  Holds,
  Keys,       \* the idempotency keys
  Requests,   \* slots for the calls in progress
  Tabs,       \* the checkout pages
  TabHold,    \* the hold each tab brings from the seat map
  TabKey,     \* the key it draws for it, a fresh UUID
  NoHold, NoKey, Nobody,
  MaxAsks,    \* bound on the customer's calls of create that no page makes
  MaxFaults   \* bound on calls that fail or lose their answer, and on reloads

ASSUME RetryAssumption ==
  /\ TabHold \in [Tabs -> Holds] /\ TabKey \in [Tabs -> Keys]
  /\ NoHold \notin Holds /\ NoKey \notin Keys /\ Nobody \notin Tabs
  /\ MaxAsks \in Nat /\ MaxFaults \in Nat

VARIABLES
  (* PostgreSQL *)
  booking,    \* Booking.status, or "NONE"
  reference,  \* the bookings whose payment has a provider reference
  overdue,    \* the bookings whose expiresAt has passed
  record,     \* the idempotency record of each key
  bound,      \* history: <<key, booking>> for each record inserted
  (* processes *)
  request,    \* the calls in progress
  page,       \* the checkout page of each tab: "closed" or "open"
  view,       \* the booking it shows
  kept,       \* the tabs whose hold and key are in sessionStorage
  asks, faults

Life == INSTANCE BookingLife WITH Bookings <- Holds, status <- booking, payable <- reference

storeVars == <<booking, reference, overdue>>
recordVars == <<record, bound>>
tabVars == <<page, view, kept>>
bounds == <<asks, faults>>
vars == <<storeVars, recordVars, request, tabVars, bounds>>

\* PAYMENT_FAILED and EXPIRED look alike from here.
Ends == {"CONFIRMED", "FAILED"}
Pcs == {"idle", "lookup", "forget", "check", "checked", "recover", "read", "complete",
        "update", "insert", "answered"}
\* What a lookup of the record is for: to begin, to explain a unique violation, to store.
Purposes == {"begin", "conflict", "store"}
\* A view of a booking: what BookingView says of it.
NoView == [of |-> NoHold, status |-> "NONE", payable |-> FALSE]
\* A record answers 202 and has no body of use, or 201 and has a frozen view.
NoRecord == [of |-> NoHold, body |-> NoView]
\* late is history: the call began after the end of its booking, and with no key
\* or one that is past its deadline.
Idle == [pc |-> "idle", by |-> Nobody, key |-> NoKey, of |-> NoHold, for |-> "begin",
         try |-> FALSE, seen |-> NoHold, answer |-> NoView, late |-> FALSE]

Init ==
  /\ booking = [h \in Holds |-> "NONE"] /\ reference = {} /\ overdue = {}
  /\ record = [k \in Keys |-> NoRecord] /\ bound = {}
  /\ request = [r \in Requests |-> Idle]
  /\ page = [t \in Tabs |-> "closed"] /\ view = [t \in Tabs |-> NoView]
  /\ kept = Tabs
  /\ asks = 0 /\ faults = 0

(***************************************************************************)
(* A call is a record that moves from step to step.                        *)
(***************************************************************************)
At(r, pc) == request[r].pc = pc

Step(r, c) == request' = [request EXCEPT ![r] = c] /\ UNCHANGED <<storeVars, tabVars, bounds>>
Goto(r, pc) == Step(r, [request[r] EXCEPT !.pc = pc])
Throw(r) == Step(r, Idle)
\* The call answers, if a page is waiting for it.
Reply(r, v) ==
  Step(r, IF request[r].by \in Tabs
          THEN [Idle EXCEPT !.pc = "answered", !.by = request[r].by, !.of = request[r].of,
                            !.answer = v, !.late = request[r].late]
          ELSE Idle)

Fault == faults < MaxFaults /\ faults' = faults + 1

View(h) == [of |-> h, status |-> booking[h], payable |-> h \in reference]

Begin(r, pc, by, k, h) ==
  /\ At(r, "idle")
  /\ request' = [request EXCEPT ![r] =
       [Idle EXCEPT !.pc = pc, !.by = by, !.key = k, !.of = h,
                    !.late = booking[h] \in Ends /\ (k = NoKey \/ h \in overdue)]]

\* POST bookings, without a key or with one.
Ask(r, by, k, h) == Begin(r, IF k = NoKey THEN "check" ELSE "lookup", by, k, h)

\* The customer may use the API as well, with whatever key.
OthersAsk(r, k, h) ==
  /\ asks < MaxAsks /\ asks' = asks + 1
  /\ Ask(r, Nobody, k, h)
  /\ UNCHANGED <<storeVars, recordVars, tabVars, faults>>

(***************************************************************************)
(* findIdempotent: the record is read; one past its time is deleted and    *)
(* counts as none.                                                         *)
(***************************************************************************)
Stored(r) == record[request[r].key]

After == [begin |-> "check", conflict |-> "recover", store |-> "insert"]
Missing(r) == Step(r, [request[r] EXCEPT !.pc = After[request[r].for], !.seen = NoHold])

\* replayIdempotency: the frozen answer, or the booking's own.
Replay(r) ==
  IF Stored(r).body # NoView
  THEN Reply(r, Stored(r).body)
  ELSE Step(r, [request[r] EXCEPT !.pc = "read", !.of = Stored(r).of, !.for = "begin", !.try = FALSE])

\* A mistake to catch: the fingerprints are not compared.
Unbound(r) == TRUE
SameRequest(r) == Stored(r).of = request[r].of

Found(r) ==
  \/ ~SameRequest(r) /\ Throw(r)
  \/ SameRequest(r) /\ request[r].for # "store" /\ Replay(r)
  \/ /\ SameRequest(r) /\ request[r].for = "store"
     /\ Step(r, [request[r] EXCEPT !.pc = "update", !.seen = Stored(r).of])

\* A mistake to catch: an expired record is replayed.
NeverExpired(r) == FALSE
Expired(r) == Stored(r).of \in overdue

Lookup(r) ==
  /\ At(r, "lookup")
  /\ \/ Stored(r) = NoRecord /\ Missing(r)
     \/ /\ Expired(r)
        /\ Step(r, [request[r] EXCEPT !.pc = "forget", !.seen = Stored(r).of])
     \/ Stored(r) # NoRecord /\ ~Expired(r) /\ Found(r)
  /\ UNCHANGED recordVars

\* Records are told apart by their ids; one inserted again for the same
\* booking is as expired as the first was.
SameRecord(r) == Stored(r) # NoRecord /\ Stored(r).of = request[r].seen

Forget(r) ==
  /\ At(r, "forget")
  /\ record' = IF SameRecord(r) THEN [record EXCEPT ![request[r].key] = NoRecord] ELSE record
  /\ UNCHANGED bound
  /\ Missing(r)

(***************************************************************************)
(* create.                                                                 *)
(***************************************************************************)
\* The hold is found live in Redis, by its token and by its id, its seats are on
\* sale, the price is the same twice and the deadline is ahead - or one of
\* these fails.  They are the business of modules SeatHolds and Checkout, and
\* here either may be.
CheckHold(r) ==
  /\ At(r, "check")
  /\ Goto(r, "checked") \/ Throw(r)
  /\ UNCHANGED recordVars

\* The transaction inserts the booking and the record, or violates the
\* uniqueness of either.
\* A mistake to catch: keys are not unique.
NewBooking(r) == booking[request[r].of] = "NONE"
Insertable(r) ==
  /\ booking[request[r].of] = "NONE"
  /\ request[r].key # NoKey => Stored(r) = NoRecord

Bind(k, h, body) ==
  IF k = NoKey THEN UNCHANGED recordVars
  ELSE /\ record' = [record EXCEPT ![k] = [of |-> h, body |-> body]]
       /\ bound' = bound \cup {<<k, h>>}

Commit(r) ==
  LET h == request[r].of
  IN /\ At(r, "checked") /\ Insertable(r)
     /\ Life!Make(h)
     /\ Bind(request[r].key, h, NoView)
     /\ request' = [request EXCEPT ![r].pc = "read", ![r].try = TRUE]
     /\ UNCHANGED <<tabVars, bounds>>

\* The unique violation is explained by the record of the key, or else by the
\* booking of the hold.
Collide(r) ==
  Step(r, [request[r] EXCEPT !.pc = IF request[r].key = NoKey THEN "recover" ELSE "lookup",
                             !.for = "conflict", !.try = FALSE])

Violate(r) ==
  /\ At(r, "checked") /\ ~Insertable(r)
  /\ Collide(r)
  /\ UNCHANGED recordVars

Recover(r) ==
  /\ At(r, "recover")
  /\ IF booking[request[r].of] # "NONE"
     THEN Step(r, [request[r] EXCEPT !.pc = "read", !.for = "begin"]) ELSE Throw(r)
  /\ UNCHANGED recordVars

\* ensureProviderPayment: whatever it did to the payment, its last read of the
\* booking is the answer.  An answer without a payment is not stored.
Read(r) ==
  /\ At(r, "read")
  /\ LET v == View(request[r].of)
     IN IF request[r].key # NoKey /\ v.payable
        THEN Step(r, [request[r] EXCEPT !.pc = "lookup", !.for = "store", !.answer = v])
        ELSE Reply(r, v)
  /\ UNCHANGED recordVars

\* completeMockPayment: the payment is found by its reference, and its event is
\* handled as a webhook is; what comes of that is Proceed's to say.  The answer
\* is the booking, read after it.
Complete(r) ==
  /\ At(r, "complete")
  /\ Goto(r, "read") \/ Throw(r)
  /\ UNCHANGED recordVars

(***************************************************************************)
(* storeIdempotency.                                                       *)
(***************************************************************************)
\* A record that another call has deleted cannot be updated, and the call fails.
Update(r) ==
  /\ At(r, "update")
  /\ IF SameRecord(r)
     THEN /\ record' = [record EXCEPT ![request[r].key] =
                          [of |-> request[r].of, body |-> request[r].answer]]
          /\ Reply(r, request[r].answer)
     ELSE UNCHANGED record /\ Throw(r)
  /\ UNCHANGED bound

Insert(r) ==
  /\ At(r, "insert")
  /\ \/ /\ Stored(r) = NoRecord
        /\ Bind(request[r].key, request[r].of, request[r].answer)
        /\ Reply(r, request[r].answer)
     \/ /\ Stored(r) # NoRecord
        /\ IF request[r].try THEN Collide(r) ELSE Throw(r)
        /\ UNCHANGED recordVars

(***************************************************************************)
(* The checkout page.                                                      *)
(***************************************************************************)
\* It is loaded with the hold and the key of sessionStorage, and asks once.
Open(r, t) ==
  /\ page[t] = "closed" /\ t \in kept
  /\ page' = [page EXCEPT ![t] = "open"]
  /\ Ask(r, t, TabKey[t], TabHold[t])
  /\ UNCHANGED <<storeVars, recordVars, view, kept, bounds>>

\* What was in memory is lost, and nobody waits for the calls.
Close(t) ==
  /\ page[t] = "open" /\ Fault
  /\ page' = [page EXCEPT ![t] = "closed"]
  /\ view' = [view EXCEPT ![t] = NoView]
  /\ request' = [r \in Requests |->
       IF request[r].by # t THEN request[r]
       ELSE IF At(r, "answered") THEN Idle ELSE [request[r] EXCEPT !.by = Nobody]]
  /\ UNCHANGED <<storeVars, recordVars, kept, asks>>

\* A mistake to catch: a page that can pay does not ask any more.
AwaitsPayment(t) == view[t].status = "PENDING" /\ ~view[t].payable
Polls(t) == view[t].status = "PENDING"

\* The timer: GET bookings/:id.
Poll(r, t) ==
  /\ Polls(t)
  /\ Begin(r, "read", t, NoKey, view[t].of)
  /\ UNCHANGED <<storeVars, recordVars, tabVars, bounds>>

\* The customer pays, by the reference that the page shows.
CompletePayment(r, t) ==
  /\ Polls(t) /\ view[t].payable
  /\ Begin(r, "complete", t, NoKey, view[t].of)
  /\ UNCHANGED <<storeVars, recordVars, tabVars, bounds>>

\* Answers arrive in any order.  The storage is cleared when the booking shown
\* is confirmed.
Receive(r) ==
  LET t == request[r].by
      v == request[r].answer
  IN /\ At(r, "answered")
     /\ view' = [view EXCEPT ![t] = v]
     /\ kept' = IF v.status = "CONFIRMED" THEN kept \ {t} ELSE kept
     /\ request' = [request EXCEPT ![r] = Idle]
     /\ UNCHANGED <<storeVars, recordVars, page, bounds>>

\* A call fails on its way, or its answer is lost.
Fail(r) ==
  /\ ~At(r, "idle") /\ Fault
  /\ request' = [request EXCEPT ![r] = Idle]
  /\ UNCHANGED <<storeVars, recordVars, tabVars, asks>>

(***************************************************************************)
(* What happens to the bookings meanwhile: whatever a life of theirs may   *)
(* bring, with no call of this module taking part.                         *)
(***************************************************************************)
Proceed(h) == Life!Proceed(h) /\ UNCHANGED <<recordVars, request, tabVars, bounds>>

Serve(r) ==
  \/ Lookup(r) \/ Forget(r) \/ CheckHold(r) \/ Commit(r) \/ Violate(r)
  \/ Recover(r) \/ Read(r) \/ Complete(r) \/ Update(r) \/ Insert(r) \/ Receive(r)

Next ==
  \/ \E r \in Requests :
       \/ Serve(r) \/ Fail(r)
       \/ \E t \in Tabs : Open(r, t) \/ Poll(r, t) \/ CompletePayment(r, t)
       \/ \E k \in Keys \cup {NoKey}, h \in Holds : OthersAsk(r, k, h)
  \/ \E t \in Tabs : Close(t)
  \/ \E h \in Holds : Proceed(h)

Spec == Init /\ [][Next]_vars

\* Calls are served; the timer fires for ever, though only this model bounds
\* the slots for calls, so that one need not be free each time.
FairSpec ==
  /\ Spec
  /\ \A r \in Requests : WF_vars(Serve(r))
  /\ \A t \in Tabs : SF_vars(\E r \in Requests : Poll(r, t))
==============================================================================
