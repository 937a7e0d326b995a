------------------------------ MODULE Checkout ------------------------------
(***************************************************************************)
(* The checkout of Eventory: bookings.service.ts over PostgreSQL, composed *)
(* with the Redis seat holds, the payment provider and the in-process      *)
(* reconciliation worker.                                                  *)
(*                                                                         *)
(* A booking and its payment are created together and are unique per hold  *)
(* ("bookings"."holdId", "payments"."bookingId"), so both are indexed by   *)
(* the hold.  A committed transaction is one step, except where the code   *)
(* decides on what it read in an earlier statement that nothing protects:  *)
(* there the read and the write are two steps.  The row lock taken by      *)
(* SELECT ... FOR UPDATE on the booking is Locked(h).  What runs in a      *)
(* process's memory - a checkout request, a provider call, a webhook       *)
(* handler, the expiry transaction - is lost when the process crashes.     *)
(***************************************************************************)
EXTENDS SeatHolds, Naturals, FiniteSets

CONSTANTS
  TicketTypes,  \* the ticket types of the session
  TypeOf,       \* the ticket type of each seat
  Capacity,     \* the capacity of each ticket type
  Events,       \* the identities of the provider's events
  HoldOf,       \* the booking each event is about (its reference)
  KindOf,       \* the type of each event
  Mismatched,   \* the events whose amount or currency is not the payment's
  Calls,        \* the slots for concurrent calls of ensureProviderPayment
  Handlers,     \* the slots for concurrent calls of handlePaymentWebhook
  NoCall,
  NoEvent,
  MaxFaults     \* bound on crashes and provider errors

Kinds == {"payment.succeeded", "payment.failed", "payment.expired"}

Wanted(h, t) == Cardinality({s \in SeatsOf[h] : TypeOf[s] = t})

ASSUME CheckoutAssumption ==
  /\ IsFiniteSet(Seats)
  /\ TypeOf \in [Seats -> TicketTypes]
  /\ Capacity \in [TicketTypes -> Nat]
  /\ HoldOf \in [Events -> Holds]
  /\ KindOf \in [Events -> Kinds]
  /\ Mismatched \in SUBSET Events
  /\ NoCall \notin Calls
  /\ NoEvent \notin Events
  /\ MaxFaults \in Nat

VARIABLES
  (* PostgreSQL *)
  seatStatus,      \* SeatAllocation.status of each seat
  soldQuantity,    \* TicketType.soldQuantity
  tickets,         \* the tickets issued, as <<booking, seat>>
  booking,         \* Booking.status, or "NONE" before the row exists
  payment,         \* Payment.status, or "NONE"
  reference,       \* whether Payment.providerReference is set
  attemptId,       \* Payment.providerAttemptId: the call holding the claim
  attemptedAt,     \* Payment.providerAttemptedAt against the 30 s lease
  reconciliation,  \* PaymentReconciliation.status, or "NONE"
  paymentEvent,    \* PaymentEvent.status, or "NONE"
  inbox,           \* PaymentWebhookInbox.status, or "NONE"
  outbox,          \* the outbox rows written, as <<topic, booking>>
  (* the world outside *)
  overdue,         \* the bookings whose expiresAt has passed
  charge,          \* the bookings the provider has created a payment for
  faults,          \* crashes and provider errors so far
  (* processes *)
  checkout,        \* create() between its reads and its insert
  call,            \* the calls of ensureProviderPayment
  webhook,         \* the calls of handlePaymentWebhook
  expiring         \* payment status read by the open expiry transaction, or "no"

saleVars == <<seatStatus, soldQuantity, tickets>>
paymentVars == <<payment, reference, attemptId, attemptedAt, reconciliation>>
eventVars == <<paymentEvent, inbox>>
dbVars == <<saleVars, booking, paymentVars, eventVars, outbox>>
envVars == <<overdue, charge, faults>>
procVars == <<checkout, call, webhook, expiring>>
vars == <<holdVars, dbVars, envVars, procVars>>

BookingStatus == {"PENDING", "CONFIRMED", "PAYMENT_FAILED", "EXPIRED"}
PaymentStatus == {"PENDING", "PROCESSING", "SUCCEEDED", "FAILED", "EXPIRED",
                  "REQUIRES_RECONCILIATION"}
EventStatus == {"NONE", "RECEIVED", "PROCESSED", "IGNORED"}
Topics == {"booking.created", "booking.confirmed", "booking.payment_failed"}

CallPc == {"idle", "checked", "checkedStale", "calling", "replied", "late",
           "lateLocked", "failed", "failedLocked"}
WebhookPc == {"idle", "recorded", "fulfilling", "conflict", "release", "draining"}

IdleCall == [pc |-> "idle", hold |-> NoHold]
IdleWebhook == [pc |-> "idle", event |-> NoEvent, drain |-> FALSE]

TypeOK ==
  /\ HoldTypeOK
  /\ seatStatus \in [Seats -> {"AVAILABLE", "SOLD"}]
  /\ soldQuantity \in [TicketTypes -> Nat]
  /\ tickets \in SUBSET (Holds \X Seats)
  /\ booking \in [Holds -> BookingStatus \cup {"NONE"}]
  /\ payment \in [Holds -> PaymentStatus \cup {"NONE"}]
  /\ reference \in [Holds -> BOOLEAN]
  /\ attemptId \in [Holds -> Calls \cup {NoCall}]
  /\ attemptedAt \in [Holds -> {"null", "recent", "stale"}]
  /\ reconciliation \in [Holds -> {"NONE", "OPEN", "RESOLVED"}]
  /\ paymentEvent \in [Events -> EventStatus]
  /\ inbox \in [Events -> EventStatus]
  /\ outbox \in SUBSET (Topics \X Holds)
  /\ overdue \in SUBSET Holds
  /\ charge \in SUBSET Holds
  /\ faults \in 0..MaxFaults
  /\ checkout \in SUBSET Holds
  /\ call \in [Calls -> [pc: CallPc, hold: Holds \cup {NoHold}]]
  /\ webhook \in [Handlers -> [pc: WebhookPc, event: Events \cup {NoEvent}, drain: BOOLEAN]]
  /\ expiring \in [Holds -> PaymentStatus \cup {"NONE", "no"}]

Init ==
  /\ HoldInit
  /\ seatStatus = [s \in Seats |-> "AVAILABLE"]
  /\ soldQuantity = [t \in TicketTypes |-> 0]
  /\ tickets = {}
  /\ booking = [h \in Holds |-> "NONE"]
  /\ payment = [h \in Holds |-> "NONE"]
  /\ reference = [h \in Holds |-> FALSE]
  /\ attemptId = [h \in Holds |-> NoCall]
  /\ attemptedAt = [h \in Holds |-> "null"]
  /\ reconciliation = [h \in Holds |-> "NONE"]
  /\ paymentEvent = [e \in Events |-> "NONE"]
  /\ inbox = [e \in Events |-> "NONE"]
  /\ outbox = {}
  /\ overdue = {}
  /\ charge = {}
  /\ faults = 0
  /\ checkout = {}
  /\ call = [a \in Calls |-> IdleCall]
  /\ webhook = [w \in Handlers |-> IdleWebhook]
  /\ expiring = [h \in Holds |-> "no"]

(***************************************************************************)
(* A transaction that has done SELECT ... FOR UPDATE on the booking and    *)
(* has not ended.  Claiming the payment, storing the reference on the fast *)
(* path and reading never wait for this lock.                              *)
(***************************************************************************)
CallLocks(a, h) ==
  call[a].hold = h /\ call[a].pc \in {"lateLocked", "failedLocked"}

HandlerLocks(w, h) ==
  webhook[w].pc = "fulfilling" /\ HoldOf[webhook[w].event] = h

\* A mistake to catch: transactions that read before they write, without the lock.
LockedByNobody(h) == FALSE

Locked(h) ==
  \/ expiring[h] # "no"
  \/ \E a \in Calls : CallLocks(a, h)
  \/ \E w \in Handlers : HandlerLocks(w, h)

Fault == faults < MaxFaults /\ faults' = faults + 1

(***************************************************************************)
(* Seat holds, and the clock.  A booking's expiresAt is fixed before it is *)
(* inserted (the hold's expiry or ten minutes from now, whichever is       *)
(* sooner); a hold may outlive it by a renewal or be given back before it. *)
(***************************************************************************)
AcquireHold(h) == Acquire(h) /\ UNCHANGED <<dbVars, envVars, procVars>>

ReleaseHold(h) == Release(h) /\ UNCHANGED <<dbVars, envVars, procVars>>

LapseHold(h) == Lapse(h) /\ UNCHANGED <<dbVars, envVars, procVars>>

DeadlinePasses(h) ==
  /\ h \notin overdue
  /\ h \in checkout \/ booking[h] # "NONE"
  /\ overdue' = overdue \cup {h}
  /\ UNCHANGED <<holdVars, dbVars, charge, faults, procVars>>

\* PROVIDER_ATTEMPT_LEASE_MS passes.  A call that has read the payment
\* compares with its own, older, staleBefore: "checked" stays "checked".
LeasePasses(h) ==
  /\ attemptedAt[h] = "recent"
  /\ attemptedAt' = [attemptedAt EXCEPT ![h] = "stale"]
  /\ call' = [a \in Calls |-> IF call[a].pc = "checkedStale" /\ call[a].hold = h
                              THEN [call[a] EXCEPT !.pc = "checked"] ELSE call[a]]
  /\ UNCHANGED <<holdVars, saleVars, booking, payment, reference, attemptId, reconciliation,
                 eventVars, outbox, envVars, checkout, webhook, expiring>>

SeatsFree(h) == \A s \in SeatsOf[h] : seatStatus[s] = "AVAILABLE"

(***************************************************************************)
(* create(): the hold is read from Redis, then the allocations twice, the  *)
(* second time in the transaction, with the deadline; then the rows are    *)
(* inserted.  Nothing locks the allocations, so hold, seats and deadline   *)
(* may all have changed when the insert commits.  A seat once sold is not  *)
(* available again and a deadline once passed stays so: the second read    *)
(* succeeds only in a state where the first would have, and one step       *)
(* stands for both.                                                        *)
(***************************************************************************)
BeginCheckout(h) ==
  /\ booking[h] = "NONE"  \* otherwise the unique holdId ends in EnsureOnRequest
  /\ h \notin checkout
  /\ Live(h)
  /\ SeatsFree(h)
  /\ checkout' = checkout \cup {h}
  /\ UNCHANGED <<holdVars, dbVars, envVars, call, webhook, expiring>>

CommitBooking(h) ==
  /\ h \in checkout
  /\ booking' = [booking EXCEPT ![h] = "PENDING"]
  /\ payment' = [payment EXCEPT ![h] = "PENDING"]
  /\ outbox' = outbox \cup {<<"booking.created", h>>}
  /\ checkout' = checkout \ {h}
  /\ UNCHANGED <<holdVars, saleVars, reference, attemptId, attemptedAt, reconciliation,
                 eventVars, envVars, call, webhook, expiring>>

\* The transaction fails, or the process dies, before the commit.
AbandonCheckout(h) ==
  /\ h \in checkout
  /\ checkout' = checkout \ {h}
  /\ overdue' = overdue \ {h}
  /\ UNCHANGED <<holdVars, dbVars, charge, faults, call, webhook, expiring>>

(***************************************************************************)
(* ensureProviderPayment(): read, claim, call the provider, store what it  *)
(* answered.  Only the guards of the updates and, on the slow paths, the   *)
(* booking's row lock stand between two calls.                             *)
(***************************************************************************)
At(a, h, pc) == call[a].pc = pc /\ call[a].hold = h

Goto(a, h, pc) == call' = [call EXCEPT ![a] = [pc |-> pc, hold |-> h]]

EndCall(a) == call' = [call EXCEPT ![a] = IdleCall]

\* A mistake to catch: only the clock is looked at.
EndedByClock(h) == h \in overdue

Ended(h) == booking[h] # "PENDING" \/ h \in overdue

StaleAttempt(h) == payment[h] = "PROCESSING" /\ attemptedAt[h] \in {"null", "stale"}

ReadPayment(a, h) ==
  /\ call[a].pc = "idle"
  /\ booking[h] # "NONE"
  /\ ~reference[h]
  /\ Goto(a, h, IF attemptedAt[h] = "stale" THEN "checkedStale" ELSE "checked")
  /\ UNCHANGED <<holdVars, dbVars, envVars, checkout, webhook, expiring>>

\* From create(), a replay of it, or get().
EnsureOnRequest(a, h) == ~Ended(h) /\ ReadPayment(a, h)

\* From the worker: the candidate's conditions, and the check that lets an
\* ended booking through only to retry a stale claim.
RecoverProviderPayment(a, h) ==
  /\ payment[h] \in {"PENDING", "PROCESSING"}
  /\ attemptedAt[h] \in {"null", "stale"}
  /\ Ended(h) => StaleAttempt(h)
  /\ ReadPayment(a, h)

Unclaimed(a, h) ==
  /\ payment[h] \in {"PENDING", "PROCESSING"}
  /\ attemptedAt[h] = "null" \/ (attemptedAt[h] = "stale" /\ call[a].pc = "checkedStale")

Claimable(a, h) == ~reference[h] /\ Unclaimed(a, h)

\* The conditional update of the payment, which takes no booking lock.
ClaimAttempt(a, h) ==
  /\ At(a, h, "checked") \/ At(a, h, "checkedStale")
  /\ Claimable(a, h)
  /\ payment' = [payment EXCEPT ![h] = "PROCESSING"]
  /\ attemptId' = [attemptId EXCEPT ![h] = a]
  /\ attemptedAt' = [attemptedAt EXCEPT ![h] = "recent"]
  /\ Goto(a, h, "calling")
  /\ UNCHANGED <<holdVars, saleVars, booking, reference, reconciliation, eventVars, outbox,
                 envVars, checkout, webhook, expiring>>

\* The claim matched no row: wait for the other call, and answer.
LoseClaim(a, h) ==
  /\ At(a, h, "checked") \/ At(a, h, "checkedStale")
  /\ ~Claimable(a, h)
  /\ EndCall(a)
  /\ UNCHANGED <<holdVars, dbVars, envVars, checkout, webhook, expiring>>

\* createPayment() is idempotent in the booking's key: one charge, one
\* reference.  The clock that the fast path compares is read on return.
ProviderAccepts(a, h) ==
  /\ At(a, h, "calling")
  /\ charge' = charge \cup {h}
  /\ Goto(a, h, IF h \in overdue THEN "late" ELSE "replied")
  /\ UNCHANGED <<holdVars, dbVars, overdue, faults, checkout, webhook, expiring>>

\* The call to the provider, or a statement storing its answer, throws.  The
\* provider may have created the payment all the same.
CallErrors(a, h) ==
  /\ \E pc \in {"calling", "replied", "late", "lateLocked"} : At(a, h, pc)
  /\ charge' \in {charge, charge \cup {h}}
  /\ Goto(a, h, "failed")
  /\ Fault
  /\ UNCHANGED <<holdVars, dbVars, overdue, checkout, webhook, expiring>>

SetReference(h) ==
  /\ reference' = [reference EXCEPT ![h] = TRUE]
  /\ payment' = [payment EXCEPT ![h] = "PENDING"]
  /\ attemptId' = [attemptId EXCEPT ![h] = NoCall]
  /\ attemptedAt' = [attemptedAt EXCEPT ![h] = "null"]

\* The guarded UPDATE ... FROM "bookings" of persistProviderPayment().
Matches(a, h) ==
  /\ attemptId[h] = a
  /\ ~reference[h]
  /\ payment[h] = "PROCESSING"
  /\ booking[h] = "PENDING"

PersistReference(a, h) ==
  /\ At(a, h, "replied")
  /\ Matches(a, h)
  /\ SetReference(h)
  /\ EndCall(a)
  /\ UNCHANGED <<holdVars, saleVars, booking, reconciliation, eventVars, outbox, envVars,
                 checkout, webhook, expiring>>

PersistMisses(a, h) ==
  /\ At(a, h, "replied")
  /\ ~Matches(a, h)
  /\ Goto(a, h, "late")
  /\ UNCHANGED <<holdVars, dbVars, envVars, checkout, webhook, expiring>>

\* A mistake to catch: the booking is left to pend.
ReconcilePaymentOnly(h) ==
  /\ payment' = [payment EXCEPT ![h] = "REQUIRES_RECONCILIATION"]
  /\ reconciliation' = [reconciliation EXCEPT ![h] = IF @ = "NONE" THEN "OPEN" ELSE @]
  /\ UNCHANGED booking

\* What every late path writes: the payment needs an operator, a pending
\* booking ends, and the payment's only reconciliation row exists.  The upsert
\* leaves a row that is there, open or resolved, as it is.
RequireReconciliation(h) ==
  /\ payment' = [payment EXCEPT ![h] = "REQUIRES_RECONCILIATION"]
  /\ booking' = [booking EXCEPT ![h] = IF @ = "PENDING" THEN "EXPIRED" ELSE @]
  /\ reconciliation' = [reconciliation EXCEPT ![h] = IF @ = "NONE" THEN "OPEN" ELSE @]

\* A transaction of the slow path locks the booking and then reads the payment.
\* A claim may replace the attempt between that read and the write.
\* A mistake to catch: the fencing token is not compared.
SupersededByReference(a, h) == reference[h]

Superseded(a, h) == reference[h] \/ attemptId[h] # a

LockLateReply(a, h) ==
  /\ At(a, h, "late")
  /\ ~Locked(h)
  /\ IF Superseded(a, h) THEN EndCall(a) ELSE Goto(a, h, "lateLocked")
  /\ UNCHANGED <<holdVars, dbVars, envVars, checkout, webhook, expiring>>

\* The code first looks again for a booking in time, to store its reference
\* after all.  It never finds one (LateReplyTooLate in CheckoutProperties).
ReconcileLateReply(a, h) ==
  /\ At(a, h, "lateLocked")
  /\ RequireReconciliation(h)
  /\ reference' = [reference EXCEPT ![h] = TRUE]
  /\ attemptId' = [attemptId EXCEPT ![h] = NoCall]
  /\ attemptedAt' = [attemptedAt EXCEPT ![h] = "null"]
  /\ EndCall(a)
  /\ UNCHANGED <<holdVars, saleVars, eventVars, outbox, envVars, checkout, webhook, expiring>>

LockFailure(a, h) ==
  /\ At(a, h, "failed")
  /\ ~Locked(h)
  /\ IF Superseded(a, h) THEN EndCall(a) ELSE Goto(a, h, "failedLocked")
  /\ UNCHANGED <<holdVars, dbVars, envVars, checkout, webhook, expiring>>

\* providerAttemptedAt goes back to this call's own time, the retry's backoff:
\* what it is already, unless a stale claim was taken over since the read.
RetryAfterFailure(a, h) ==
  /\ At(a, h, "failedLocked")
  /\ ~Ended(h)
  /\ payment' = [payment EXCEPT ![h] = "PENDING"]
  /\ attemptId' = [attemptId EXCEPT ![h] = NoCall]
  /\ attemptedAt' = [attemptedAt EXCEPT ![h] = IF attemptId[h] = a THEN @ ELSE "stale"]
  /\ EndCall(a)
  /\ UNCHANGED <<holdVars, saleVars, booking, reference, reconciliation, eventVars, outbox,
                 envVars, checkout, webhook, expiring>>

ReconcileFailure(a, h) ==
  /\ At(a, h, "failedLocked")
  /\ Ended(h)
  /\ RequireReconciliation(h)
  /\ attemptId' = [attemptId EXCEPT ![h] = NoCall]
  /\ attemptedAt' = [attemptedAt EXCEPT ![h] = "null"]
  /\ EndCall(a)
  /\ UNCHANGED <<holdVars, saleVars, reference, eventVars, outbox, envVars, checkout,
                 webhook, expiring>>

CrashCall(a) ==
  /\ call[a].pc # "idle"
  /\ EndCall(a)
  /\ Fault
  /\ UNCHANGED <<holdVars, dbVars, overdue, charge, checkout, webhook, expiring>>

(***************************************************************************)
(* handlePaymentWebhook(): the provider delivers an event as often as it   *)
(* likes, in any order, once it has the charge.  An event whose reference  *)
(* is not stored yet waits in the inbox.                                   *)
(***************************************************************************)
Deliverable(e) == HoldOf[e] \in charge

StoreUnmatched(e) ==
  /\ Deliverable(e)
  /\ ~reference[HoldOf[e]]
  /\ inbox[e] = "NONE"  \* a repeated delivery finds the row and changes nothing
  /\ inbox' = [inbox EXCEPT ![e] = "RECEIVED"]
  /\ UNCHANGED <<holdVars, saleVars, booking, paymentVars, paymentEvent, outbox, envVars, procVars>>

\* A mistake to catch: the amount is not compared.
RecordAnyAmount(w, e, drain) ==
  /\ webhook[w].pc = "idle"
  /\ reference[HoldOf[e]]
  /\ paymentEvent' = [paymentEvent EXCEPT ![e] = IF @ = "NONE" THEN "RECEIVED" ELSE @]
  /\ webhook' = [webhook EXCEPT ![w] = [pc |-> "recorded", event |-> e, drain |-> drain]]
  /\ UNCHANGED <<holdVars, saleVars, booking, paymentVars, inbox, outbox, envVars, checkout,
                 call, expiring>>

\* The reference is known, the amount is right: the event is recorded once.
RecordEvent(w, e, drain) ==
  /\ webhook[w].pc = "idle"
  /\ reference[HoldOf[e]]
  /\ e \notin Mismatched
  /\ paymentEvent' = [paymentEvent EXCEPT ![e] = IF @ = "NONE" THEN "RECEIVED" ELSE @]
  /\ webhook' = [webhook EXCEPT ![w] = [pc |-> "recorded", event |-> e, drain |-> drain]]
  /\ UNCHANGED <<holdVars, saleVars, booking, paymentVars, inbox, outbox, envVars, checkout,
                 call, expiring>>

Deliver(w, e) == Deliverable(e) /\ RecordEvent(w, e, FALSE)

DrainInbox(w, e) == inbox[e] = "RECEIVED" /\ RecordEvent(w, e, TRUE)

\* The worker gives up on an event that can never be applied.
IgnoreInbox(e) ==
  /\ inbox[e] = "RECEIVED"
  /\ reference[HoldOf[e]]
  /\ e \in Mismatched
  /\ inbox' = [inbox EXCEPT ![e] = "IGNORED"]
  /\ UNCHANGED <<holdVars, saleVars, booking, paymentVars, paymentEvent, outbox, envVars, procVars>>

In(w, e, pc) == webhook[w].pc = pc /\ webhook[w].event = e

\* A mistake to catch: the inbox row is left as it was.
AnswerOnly(w) == webhook' = [webhook EXCEPT ![w] = IdleWebhook]

\* The handler returns: to the provider, or to the worker draining the inbox.
Answer(w) ==
  webhook' = [webhook EXCEPT ![w] = IF @.drain THEN [@ EXCEPT !.pc = "draining"]
                                    ELSE IdleWebhook]

\* After applyPaymentWebhook() a confirmed booking's hold is released first.
Settle(w, status) ==
  \/ status = "CONFIRMED" /\ webhook' = [webhook EXCEPT ![w].pc = "release"]
  \/ status # "CONFIRMED" /\ Answer(w)

MarkEvent(e, status) == paymentEvent' = [paymentEvent EXCEPT ![e] = status]

\* applyPaymentWebhook() holds the booking's lock from here to its commit.
Applying(w, e) ==
  /\ In(w, e, "recorded")
  /\ ~Locked(HoldOf[e])

\* A mistake to catch: an event for any booking that has ended is ignored.
SettledOnceEnded(h) == booking[h] # "PENDING"

Settled(h) ==
  \/ booking[h] = "CONFIRMED"
  \/ payment[h] \in {"SUCCEEDED", "REQUIRES_RECONCILIATION"}

\* A mistake to catch: an event is applied again when it is delivered again.
FreshEveryTime(w, e) == Applying(w, e) /\ ~Settled(HoldOf[e])

Fresh(w, e) ==
  /\ Applying(w, e)
  /\ paymentEvent[e] = "RECEIVED"
  /\ ~Settled(HoldOf[e])

SkipHandled(w, e) ==
  /\ Applying(w, e)
  /\ paymentEvent[e] # "RECEIVED"
  /\ Settle(w, booking[HoldOf[e]])
  /\ UNCHANGED <<holdVars, dbVars, envVars, checkout, call, expiring>>

IgnoreSettled(w, e) ==
  /\ Applying(w, e)
  /\ paymentEvent[e] = "RECEIVED"
  /\ Settled(HoldOf[e])
  /\ MarkEvent(e, "IGNORED")
  /\ Settle(w, booking[HoldOf[e]])
  /\ UNCHANGED <<holdVars, saleVars, booking, paymentVars, inbox, outbox, envVars, checkout,
                 call, expiring>>

\* A capture that came too late, or whose hold is gone.
MarkLatePayment(w, e) ==
  LET h == HoldOf[e] IN
  /\ Fresh(w, e)
  /\ KindOf[e] = "payment.succeeded"
  /\ Ended(h) \/ ~Live(h)
  /\ RequireReconciliation(h)
  /\ MarkEvent(e, "PROCESSED")
  /\ Answer(w)
  /\ UNCHANGED <<holdVars, saleVars, reference, attemptId, attemptedAt, inbox, outbox, envVars,
                 checkout, call, expiring>>

\* Redis has answered that the hold is live; PostgreSQL has not been asked yet.
BeginFulfilment(w, e) ==
  LET h == HoldOf[e] IN
  /\ Fresh(w, e)
  /\ KindOf[e] = "payment.succeeded"
  /\ ~Ended(h)
  /\ Live(h)
  /\ webhook' = [webhook EXCEPT ![w].pc = "fulfilling"]
  /\ UNCHANGED <<holdVars, dbVars, envVars, checkout, call, expiring>>

\* The guards of the conditional updates in applyPaymentWebhook() and
\* incrementTicketTypeCounts(): all of them match, or nothing is sold.
RoomLeft(h) ==
  \A t \in TicketTypes : Wanted(h, t) > 0 => soldQuantity[t] + Wanted(h, t) <= Capacity[t]

CanSell(h) == SeatsFree(h) /\ RoomLeft(h)

Fulfil(w, e) ==
  LET h == HoldOf[e] IN
  /\ In(w, e, "fulfilling")
  /\ CanSell(h)
  /\ seatStatus' = [s \in Seats |-> IF s \in SeatsOf[h] THEN "SOLD" ELSE seatStatus[s]]
  /\ soldQuantity' = [t \in TicketTypes |-> soldQuantity[t] + Wanted(h, t)]
  /\ tickets' = tickets \cup ({h} \X SeatsOf[h])
  /\ booking' = [booking EXCEPT ![h] = "CONFIRMED"]
  /\ payment' = [payment EXCEPT ![h] = "SUCCEEDED"]
  /\ outbox' = outbox \cup {<<"booking.confirmed", h>>}
  /\ MarkEvent(e, "PROCESSED")
  /\ Settle(w, "CONFIRMED")
  /\ UNCHANGED <<holdVars, reference, attemptId, attemptedAt, reconciliation, inbox, envVars,
                 checkout, call, expiring>>

\* SEAT_ALREADY_SOLD or TICKET_CAPACITY_REACHED: the transaction rolls back.
FulfilmentConflict(w, e) ==
  /\ In(w, e, "fulfilling")
  /\ ~CanSell(HoldOf[e])
  /\ webhook' = [webhook EXCEPT ![w].pc = "conflict"]
  /\ UNCHANGED <<holdVars, dbVars, envVars, checkout, call, expiring>>

\* reconcileFulfillmentFailure(): a transaction of its own, under the lock.
ReconcileConflict(w, e) ==
  LET h == HoldOf[e] IN
  /\ In(w, e, "conflict")
  /\ ~Locked(h)
  /\ paymentEvent[e] = "RECEIVED"
  /\ booking[h] # "CONFIRMED"
  /\ payment[h] # "SUCCEEDED"
  /\ RequireReconciliation(h)
  /\ MarkEvent(e, "PROCESSED")
  /\ Answer(w)
  /\ UNCHANGED <<holdVars, saleVars, reference, attemptId, attemptedAt, inbox, outbox, envVars,
                 checkout, call, expiring>>

\* Another delivery of the event, or another event, settled it meanwhile.  This
\* path answers without releasing the hold.
DropConflict(w, e) ==
  LET h == HoldOf[e] IN
  /\ In(w, e, "conflict")
  /\ ~Locked(h)
  /\ \/ paymentEvent[e] # "RECEIVED" /\ UNCHANGED paymentEvent
     \/ /\ paymentEvent[e] = "RECEIVED"
        /\ booking[h] = "CONFIRMED" \/ payment[h] = "SUCCEEDED"
        /\ MarkEvent(e, "IGNORED")
  /\ Answer(w)
  /\ UNCHANGED <<holdVars, saleVars, booking, paymentVars, inbox, outbox, envVars, checkout,
                 call, expiring>>

\* payment.failed or payment.expired for a booking that already ended.
IgnoreFailure(w, e) ==
  /\ Fresh(w, e)
  /\ KindOf[e] # "payment.succeeded"
  /\ booking[HoldOf[e]] # "PENDING"
  /\ MarkEvent(e, "IGNORED")
  /\ Settle(w, booking[HoldOf[e]])
  /\ UNCHANGED <<holdVars, saleVars, booking, paymentVars, inbox, outbox, envVars, checkout,
                 call, expiring>>

\* expirePendingBookingInTransaction(), given the payment status it has read.
ExpireBooking(h, seen) ==
  /\ booking' = [booking EXCEPT ![h] = "EXPIRED"]
  /\ payment' = [payment EXCEPT ![h] = IF seen = "PENDING" THEN "EXPIRED" ELSE @]

ExpireByEvent(w, e) ==
  LET h == HoldOf[e] IN
  /\ Fresh(w, e)
  /\ KindOf[e] # "payment.succeeded"
  /\ booking[h] = "PENDING"
  /\ KindOf[e] = "payment.expired" \/ h \in overdue
  /\ ExpireBooking(h, payment[h])
  /\ MarkEvent(e, "PROCESSED")
  /\ Answer(w)
  /\ UNCHANGED <<holdVars, saleVars, reference, attemptId, attemptedAt, reconciliation, inbox,
                 outbox, envVars, checkout, call, expiring>>

FailPayment(w, e) ==
  LET h == HoldOf[e] IN
  /\ Fresh(w, e)
  /\ KindOf[e] = "payment.failed"
  /\ booking[h] = "PENDING"
  /\ h \notin overdue
  /\ booking' = [booking EXCEPT ![h] = "PAYMENT_FAILED"]
  /\ payment' = [payment EXCEPT ![h] = "FAILED"]
  /\ outbox' = outbox \cup {<<"booking.payment_failed", h>>}
  /\ MarkEvent(e, "PROCESSED")
  /\ Answer(w)
  /\ UNCHANGED <<holdVars, saleVars, reference, attemptId, attemptedAt, reconciliation, inbox,
                 envVars, checkout, call, expiring>>

\* releaseConfirmedSeatHold(), after the commit; a failure is only logged.
ReleaseSeats(w, e) ==
  /\ In(w, e, "release")
  /\ ReleaseConfirmedHold(HoldOf[e])
  /\ Answer(w)
  /\ UNCHANGED <<dbVars, envVars, checkout, call, expiring>>

\* The worker marks the row it drained; a row no longer RECEIVED throws.
MarkDrained(w, e) ==
  /\ In(w, e, "draining")
  /\ inbox' = [inbox EXCEPT ![e] = IF @ = "RECEIVED" THEN "PROCESSED" ELSE @]
  /\ webhook' = [webhook EXCEPT ![w] = IdleWebhook]
  /\ UNCHANGED <<holdVars, saleVars, booking, paymentVars, paymentEvent, outbox, envVars,
                 checkout, call, expiring>>

CrashWebhook(w) ==
  /\ webhook[w].pc # "idle"
  /\ webhook' = [webhook EXCEPT ![w] = IdleWebhook]
  /\ Fault
  /\ UNCHANGED <<holdVars, dbVars, overdue, charge, checkout, call, expiring>>

(***************************************************************************)
(* The worker's expiry transaction reads booking and payment under the     *)
(* booking's lock, which a claim of the payment does not wait for.         *)
(***************************************************************************)
\* A mistake to catch: a booking the provider knows of is left to the provider.
ReadExpiredUnpaid(h) ==
  /\ booking[h] = "PENDING"
  /\ h \in overdue
  /\ ~reference[h]
  /\ ~Locked(h)
  /\ expiring' = [expiring EXCEPT ![h] = payment[h]]
  /\ UNCHANGED <<holdVars, dbVars, envVars, checkout, call, webhook>>

ReadExpired(h) ==
  /\ booking[h] = "PENDING"
  /\ h \in overdue
  /\ ~Locked(h)
  /\ expiring' = [expiring EXCEPT ![h] = payment[h]]
  /\ UNCHANGED <<holdVars, dbVars, envVars, checkout, call, webhook>>

CommitExpired(h) ==
  /\ expiring[h] # "no"
  /\ ExpireBooking(h, expiring[h])
  /\ expiring' = [expiring EXCEPT ![h] = "no"]
  /\ UNCHANGED <<holdVars, saleVars, reference, attemptId, attemptedAt, reconciliation, eventVars,
                 outbox, envVars, checkout, call, webhook>>

CrashExpiry(h) ==
  /\ expiring[h] # "no"
  /\ expiring' = [expiring EXCEPT ![h] = "no"]
  /\ Fault
  /\ UNCHANGED <<holdVars, dbVars, overdue, charge, checkout, call, webhook>>

\* An operator closes the reconciliation row; the payment stays as it is.
ResolveReconciliation(h) ==
  /\ reconciliation[h] = "OPEN"
  /\ reconciliation' = [reconciliation EXCEPT ![h] = "RESOLVED"]
  /\ UNCHANGED <<holdVars, saleVars, booking, payment, reference, attemptId, attemptedAt,
                 eventVars, outbox, envVars, procVars>>

HoldStep(h) ==
  \/ AcquireHold(h) \/ ReleaseHold(h) \/ LapseHold(h) \/ DeadlinePasses(h) \/ LeasePasses(h)
  \/ BeginCheckout(h) \/ CommitBooking(h) \/ AbandonCheckout(h)
  \/ ReadExpired(h) \/ CommitExpired(h) \/ CrashExpiry(h) \/ ResolveReconciliation(h)

\* What a call that is under way does next, when nothing goes wrong.
CallProgress(a, h) ==
  \/ ClaimAttempt(a, h) \/ LoseClaim(a, h) \/ ProviderAccepts(a, h)
  \/ PersistReference(a, h) \/ PersistMisses(a, h)
  \/ LockLateReply(a, h) \/ ReconcileLateReply(a, h)
  \/ LockFailure(a, h) \/ RetryAfterFailure(a, h) \/ ReconcileFailure(a, h)

CallStep(a, h) ==
  \/ EnsureOnRequest(a, h) \/ RecoverProviderPayment(a, h) \/ CallErrors(a, h)
  \/ CallProgress(a, h)

\* What a handler that is under way does next, when nothing goes wrong.
WebhookProgress(w, e) ==
  \/ SkipHandled(w, e) \/ IgnoreSettled(w, e) \/ MarkLatePayment(w, e)
  \/ BeginFulfilment(w, e) \/ Fulfil(w, e) \/ FulfilmentConflict(w, e)
  \/ ReconcileConflict(w, e) \/ DropConflict(w, e)
  \/ IgnoreFailure(w, e) \/ ExpireByEvent(w, e) \/ FailPayment(w, e)
  \/ ReleaseSeats(w, e) \/ MarkDrained(w, e)

WebhookStep(w, e) == Deliver(w, e) \/ DrainInbox(w, e) \/ WebhookProgress(w, e)

Next ==
  \/ \E h \in Holds : HoldStep(h)
  \/ \E a \in Calls, h \in Holds : CallStep(a, h)
  \/ \E a \in Calls : CrashCall(a)
  \/ \E e \in Events : StoreUnmatched(e) \/ IgnoreInbox(e)
  \/ \E w \in Handlers, e \in Events : WebhookStep(w, e)
  \/ \E w \in Handlers : CrashWebhook(w)

Spec == Init /\ [][Next]_vars

(***************************************************************************)
(* Fair scheduling.  Time passes.  A call or handler that is under way     *)
(* goes on, unless it crashes, and the provider answers or fails.  The     *)
(* worker's timer fires every five seconds, so what stays a candidate is   *)
(* taken up.  The provider repeats an event whose delivery failed after it *)
(* was recorded.  Nobody has to hold seats, check out, pay or resolve.     *)
(***************************************************************************)
TimeFairness == \A h \in Holds : WF_vars(DeadlinePasses(h)) /\ WF_vars(LeasePasses(h))

ProcessFairness ==
  /\ \A a \in Calls : WF_vars(\E h \in Holds : CallProgress(a, h))
  /\ \A w \in Handlers : WF_vars(\E e \in Events : WebhookProgress(w, e))
  /\ \A h \in Holds : WF_vars(CommitExpired(h))

WorkerFairness ==
  /\ \A h \in Holds : WF_vars(ReadExpired(h))
  /\ \A h \in Holds : WF_vars(\E a \in Calls : RecoverProviderPayment(a, h))
  /\ \A e \in Events : WF_vars(IgnoreInbox(e)) /\ SF_vars(\E w \in Handlers : DrainInbox(w, e))

Redeliver(w, e) == paymentEvent[e] = "RECEIVED" /\ Deliver(w, e)

ProviderFairness == \A e \in Events : SF_vars(\E w \in Handlers : Redeliver(w, e))

FairSpec ==
  Spec /\ TimeFairness /\ ProcessFairness /\ WorkerFairness /\ ProviderFairness
====
