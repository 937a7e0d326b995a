------------------------- MODULE CheckoutProperties -------------------------
(***************************************************************************)
(* What must hold of Checkout: the invariants, the steps that must never   *)
(* happen, and what must eventually happen under fair scheduling.          *)
(***************************************************************************)
EXTENDS Checkout

Confirmed(h) == booking[h] = "CONFIRMED"

(***************************************************************************)
(* No seat is sold to two bookings, although the hold is read from Redis   *)
(* before the seats are taken in PostgreSQL and may lapse in between, and  *)
(* a rival booking with a hold of its own may be confirming meanwhile.     *)
(***************************************************************************)
SeatsSoldOnce ==
  \A g, h \in Holds : Confirmed(g) /\ Confirmed(h) /\ g # h => SeatsOf[g] \cap SeatsOf[h] = {}

(***************************************************************************)
(* The tables written by a confirmation never drift apart: a seat is SOLD  *)
(* exactly when a ticket for it was issued, tickets are those of confirmed *)
(* bookings, one for each seat, and the outbox holds the confirmation or   *)
(* the failure notice of exactly the bookings that ended that way.         *)
(***************************************************************************)
SalesLedger ==
  /\ tickets = {t \in Holds \X Seats : Confirmed(t[1]) /\ t[2] \in SeatsOf[t[1]]}
  /\ \A s \in Seats : seatStatus[s] = "SOLD" <=> \E h \in Holds : <<h, s>> \in tickets
  /\ \A h \in Holds : <<"booking.confirmed", h>> \in outbox <=> Confirmed(h)
  /\ \A h \in Holds : <<"booking.payment_failed", h>> \in outbox
                        <=> booking[h] = "PAYMENT_FAILED"

SoldSeats(t) == {s \in Seats : TypeOf[s] = t /\ seatStatus[s] = "SOLD"}

(***************************************************************************)
(* soldQuantity, a counter incremented by hand, counts the seats sold, and *)
(* never exceeds the capacity of the ticket type.                          *)
(***************************************************************************)
CapacityKept ==
  \A t \in TicketTypes : /\ soldQuantity[t] = Cardinality(SoldSeats(t))
                         /\ soldQuantity[t] <= Capacity[t]

(***************************************************************************)
(* Booking and payment are two rows with two statuses, written by webhook  *)
(* handlers, provider calls and the worker.  They agree: tickets exactly   *)
(* for money taken, and no money expected of a booking that still pends.   *)
(***************************************************************************)
PaymentsOf(status) ==
  CASE status = "NONE" -> {"NONE"}
    [] status = "PENDING" -> {"PENDING", "PROCESSING"}
    [] status = "CONFIRMED" -> {"SUCCEEDED"}
    [] status = "PAYMENT_FAILED" -> {"FAILED", "REQUIRES_RECONCILIATION"}
    [] status = "EXPIRED" -> {"PENDING", "PROCESSING", "EXPIRED", "REQUIRES_RECONCILIATION"}

PaymentAgreesWithBooking == \A h \in Holds : payment[h] \in PaymentsOf(booking[h])

(***************************************************************************)
(* A payment is marked REQUIRES_RECONCILIATION exactly when it has its one *)
(* reconciliation row, so an operator can find it.                         *)
(***************************************************************************)
ReconciliationExists ==
  \A h \in Holds : payment[h] = "REQUIRES_RECONCILIATION" <=> reconciliation[h] # "NONE"

\* The three rows of a booking tell one story between any two steps.
TablesAgree == PaymentAgreesWithBooking /\ ReconciliationExists

(***************************************************************************)
(* Once the API has disposed of a capture (PROCESSED or IGNORED, and so    *)
(* never looked at again), the customer has the seats or the payment has a *)
(* reconciliation row.                                                     *)
(***************************************************************************)
CaptureAccounted ==
  \A e \in Events :
    KindOf[e] = "payment.succeeded" /\ paymentEvent[e] \in {"PROCESSED", "IGNORED"}
      => Confirmed(HoldOf[e]) \/ reconciliation[HoldOf[e]] # "NONE"

(***************************************************************************)
(* The way back: a booking ended only for a reason that is on record.  It  *)
(* was confirmed by a capture that was applied, of a payment the provider  *)
(* made, for the right amount; it failed by the provider's word; it        *)
(* expired past its deadline or by an event.  Neither a conflict, a late   *)
(* answer nor a repeated delivery sells a seat that nobody paid for.       *)
(***************************************************************************)
Applied(e, h) == HoldOf[e] = h /\ e \notin Mismatched /\ paymentEvent[e] = "PROCESSED"

EndsExplained ==
  \A h \in Holds :
    /\ Confirmed(h) =>
         h \in charge /\ \E e \in Events : Applied(e, h) /\ KindOf[e] = "payment.succeeded"
    /\ booking[h] = "PAYMENT_FAILED" =>
         \E e \in Events : Applied(e, h) /\ KindOf[e] = "payment.failed"
    /\ booking[h] = "EXPIRED" => h \in overdue \/ \E e \in Events : Applied(e, h)

(***************************************************************************)
(* A payment in PROCESSING has a claimant and no reference; once it has a  *)
(* reference nobody holds or takes a claim on it, and it is PENDING again  *)
(* or further: a slow provider call that lost its lease cannot reopen it.  *)
(***************************************************************************)
AttemptFence ==
  \A h \in Holds :
    /\ payment[h] = "PROCESSING" => attemptId[h] # NoCall /\ ~reference[h]
    /\ reference[h] => attemptId[h] = NoCall

(***************************************************************************)
(* A reply of the provider that the fast path could not store, and whose   *)
(* claim nobody took over, belongs to a booking that has ended: putting    *)
(* its payment up for reconciliation never ends a checkout in time, and    *)
(* the slow path has no reference left to store for a booking in time.     *)
(***************************************************************************)
LateReplyTooLate ==
  \A a \in Calls, h \in Holds :
    \/ At(a, h, "late") /\ ~Superseded(a, h)
    \/ At(a, h, "lateLocked")
    => Ended(h)

(***************************************************************************)
(* A hold some of whose keys are gone while others remain lost them to a   *)
(* confirmed rival: releaseConfirmedHold deletes keys without looking whose *)
(* they are, but only for seats that are sold for good.                    *)
(***************************************************************************)
BrokenHoldOnlyForSoldSeats ==
  \A h \in Holds : \A r, s \in SeatsOf[h] :
    seatKey[r] = h /\ seatKey[s] # h => seatStatus[s] = "SOLD"

(***************************************************************************)
(* The worker marks an inbox row PROCESSED in a statement of its own, after *)
(* the transaction that applied the event: never before it, and IGNORED    *)
(* only for an event that can never be applied.                            *)
(***************************************************************************)
InboxFollowsEvent ==
  \A e \in Events :
    /\ inbox[e] = "PROCESSED" => paymentEvent[e] \in {"PROCESSED", "IGNORED"}
    /\ inbox[e] = "IGNORED" => e \in Mismatched /\ paymentEvent[e] = "NONE"

(***************************************************************************)
(* What is settled stays settled, whatever arrives late: a booking that    *)
(* ended keeps its status, money taken or handed to an operator is not     *)
(* touched again, a resolved reconciliation is not reopened, a provider    *)
(* reference is never lost, and an event is disposed of once.              *)
(***************************************************************************)
SettledStays ==
  /\ \A h \in Holds :
       /\ booking[h] \notin {"NONE", "PENDING"} => booking'[h] = booking[h]
       /\ payment[h] \in {"SUCCEEDED", "REQUIRES_RECONCILIATION"} => payment'[h] = payment[h]
       /\ reconciliation[h] = "RESOLVED" => reconciliation'[h] = "RESOLVED"
       /\ reference[h] => reference'[h]
  /\ \A e \in Events :
       paymentEvent[e] \in {"PROCESSED", "IGNORED"} => paymentEvent'[e] = paymentEvent[e]

OutcomesStick == [][SettledStays]_vars

(***************************************************************************)
(* A booking in checkout is given up only when its own deadline has passed *)
(* or because of an event the provider sent for it: a provider answer that *)
(* comes late, or fails, never ends a checkout that still has time.        *)
(***************************************************************************)
GivenUpInTime ==
  \A h \in Holds :
    booking[h] = "PENDING" /\ booking'[h] = "EXPIRED"
      => \/ h \in overdue
         \/ \E e \in Events : /\ HoldOf[e] = h
                             /\ paymentEvent[e] = "RECEIVED"
                             /\ paymentEvent'[e] = "PROCESSED"

ExpiryJustified == [][GivenUpInTime]_vars

\* The seat sale that a state of the checkout shows: a booking is open until
\* it is confirmed or can no longer be.
SaleOutcome ==
  [h \in Holds |-> CASE booking[h] \in {"NONE", "PENDING"} -> "open"
                     [] booking[h] = "CONFIRMED" -> "sold"
                     [] OTHER -> "closed"]

SaleOwner ==
  [s \in Seats |-> IF \E h \in Holds : <<h, s>> \in tickets
                  THEN CHOOSE h \in Holds : <<h, s>> \in tickets ELSE NoHold]

Sale == INSTANCE SeatSale WITH Bookings <- Holds, Nobody <- NoHold,
                               owner <- SaleOwner, outcome <- SaleOutcome

\* The checkout implements the abstract sale: every step of it either sells all
\* the seats of one open booking, ends one booking, or changes neither.
ImplementsSeatSale == Sale!Spec

\* The life of a booking that a state of the checkout shows to its customer.
LifeStatus ==
  [h \in Holds |-> IF booking[h] \in {"PAYMENT_FAILED", "EXPIRED"} THEN "FAILED" ELSE booking[h]]

Payable == {h \in Holds : reference[h]}

\* Before its row is written, nobody sees the deadline of a booking.
OverdueBookings == {h \in overdue : booking[h] # "NONE"}

Life == INSTANCE BookingLife WITH Bookings <- Holds, status <- LifeStatus, payable <- Payable,
                                  overdue <- OverdueBookings

(***************************************************************************)
(* The checkout implements the life of a booking that module Retry builds  *)
(* on: with calls, handlers and the worker racing over the booking and its *)
(* payment, a booking without a reference ends by its deadline only, and   *)
(* one that ended never changes its end.                                   *)
(***************************************************************************)
ImplementsBookingLife == Life!Spec

SeatsSold == {s \in Seats : seatStatus[s] = "SOLD"}

Store == INSTANCE SeatStore WITH key <- seatKey, taken <- issued, sold <- SeatsSold

(***************************************************************************)
(* The checkout keeps its side of the contract over the seats' two stores: *)
(* it sells the seats of a hold that was taken, and however late after the *)
(* commit it deletes the keys of a hold, they are the keys of seats sold   *)
(* to that hold.                                                           *)
(***************************************************************************)
CheckoutKeepsSeatStore == Store!Spec

(***************************************************************************)
(* A checkout that is abandoned ends: holdless, unpaid, with the provider  *)
(* down or the process restarted, the booking does not pend for ever.      *)
(***************************************************************************)
PendingEnds == \A h \in Holds : booking[h] = "PENDING" ~> booking[h] # "PENDING"

Captured(e) == KindOf[e] = "payment.succeeded" /\ e \notin Mismatched

Accounted(h) == Confirmed(h) \/ reconciliation[h] # "NONE"

(***************************************************************************)
(* A capture that was matched to its payment is settled in the end, even   *)
(* if handlers crash between recording the event and applying it, or       *)
(* between a fulfilment conflict and its reconciliation.                   *)
(***************************************************************************)
RecordedCaptureSettles ==
  \A e \in Events :
    Captured(e) /\ paymentEvent[e] = "RECEIVED" ~> Accounted(HoldOf[e])

(***************************************************************************)
(* An event that came before the reference was stored does not stay in the *)
(* inbox once the reference is there.                                      *)
(***************************************************************************)
MatchedInboxDrains ==
  \A e \in Events : inbox[e] = "RECEIVED" /\ reference[HoldOf[e]] ~> inbox[e] # "RECEIVED"

(***************************************************************************)
(* What the release plan ticks off: a first successful payment gets a      *)
(* fulfilment or a reconciliation, and a captured payment is never         *)
(* stranded (phase-02-booking-and-payment-integrity.md).                   *)
(***************************************************************************)
CaptureNeverStranded ==
  \A e \in Events :
    Captured(e) /\ (inbox[e] # "NONE" \/ paymentEvent[e] # "NONE") ~> Accounted(HoldOf[e])

(***************************************************************************)
(* What the payment sequence documents: a capture that is not fulfilled    *)
(* stays visible to the operator, in the table and in the count of open    *)
(* reconciliations, when the API disposes of it.                           *)
(***************************************************************************)
LateCaptureLeftOpen ==
  \A e \in Events :
    /\ Captured(e)
    /\ paymentEvent[e] = "RECEIVED"
    /\ paymentEvent'[e] \in {"PROCESSED", "IGNORED"}
    => booking'[HoldOf[e]] = "CONFIRMED" \/ reconciliation'[HoldOf[e]] = "OPEN"

LateCapturesVisible == [][LateCaptureLeftOpen]_vars
==============================================================================
