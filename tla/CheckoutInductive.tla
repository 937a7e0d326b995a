-------------------------- MODULE CheckoutInductive --------------------------
(***************************************************************************)
(* The inductive invariant of Checkout: the properties, strengthened with  *)
(* what each process knows while it is between two of its steps.           *)
(***************************************************************************)
EXTENDS CheckoutProperties

\* A key carries only a hold that was issued and asked for its seat.
HoldInv ==
  /\ \A s \in Seats : seatKey[s] # NoHold => s \in SeatsOf[seatKey[s]] /\ seatKey[s] \in issued
  /\ BrokenHoldOnlyForSoldSeats

SaleInv == SalesLedger /\ SeatsSoldOnce

\* Before the booking is inserted there is nothing, and only a booking whose
\* reference is stored can be confirmed or fail.
PaymentInv ==
  /\ PaymentAgreesWithBooking
  /\ ReconciliationExists
  /\ AttemptFence
  /\ \A h \in Holds :
       /\ h \in checkout => booking[h] = "NONE"
       /\ booking[h] = "NONE" => ~reference[h] /\ attemptId[h] = NoCall
       /\ booking[h] \in {"CONFIRMED", "PAYMENT_FAILED"} => reference[h]
       /\ attemptId[h] # NoCall => payment[h] = "PROCESSING" \/ booking[h] = "EXPIRED"

EventInv ==
  /\ CaptureAccounted
  /\ InboxFollowsEvent
  /\ \A e \in Mismatched : paymentEvent[e] = "NONE"

\* Who holds the row lock of a booking holds it alone.
LockInv ==
  /\ \A h \in Holds : expiring[h] # "no" =>
       /\ \A a \in Calls : ~CallLocks(a, h)
       /\ \A w \in Handlers : ~HandlerLocks(w, h)
  /\ \A h \in Holds, a \in Calls, w \in Handlers : ~(CallLocks(a, h) /\ HandlerLocks(w, h))
  /\ \A h \in Holds, a, b \in Calls : CallLocks(a, h) /\ CallLocks(b, h) => a = b
  /\ \A h \in Holds, v, w \in Handlers : HandlerLocks(v, h) /\ HandlerLocks(w, h) => v = w

\* The open expiry transaction found a pending booking, overdue.
ExpiryInv ==
  \A h \in Holds : expiring[h] # "no" => booking[h] = "PENDING" /\ h \in overdue

\* A call works for a booking that exists; under the lock, for one that has
\* not been confirmed and has not failed, and after its reply came late for one
\* that has ended.
CallInv ==
  \A a \in Calls :
    LET h == call[a].hold IN
    /\ call[a].pc # "idle" => h \in Holds /\ booking[h] # "NONE"
    /\ call[a].pc \in {"lateLocked", "failedLocked"} => booking[h] \in {"PENDING", "EXPIRED"}

\* A handler works for a recorded event whose payment has its reference.
HandlerInv ==
  \A w \in Handlers :
    LET e == webhook[w].event IN
    /\ webhook[w].pc # "idle" =>
         e \in Events /\ e \notin Mismatched /\ reference[HoldOf[e]] /\ paymentEvent[e] # "NONE"
    /\ webhook[w].pc = "fulfilling" =>
         /\ KindOf[e] = "payment.succeeded"
         /\ booking[HoldOf[e]] = "PENDING"
         /\ paymentEvent[e] = "RECEIVED"
    /\ webhook[w].pc = "conflict" => KindOf[e] = "payment.succeeded"
    /\ webhook[w].pc = "release" => Confirmed(HoldOf[e])
    /\ webhook[w].pc \in {"release", "draining"} => paymentEvent[e] \in {"PROCESSED", "IGNORED"}

\* A reference is stored only of a payment that the provider has made.
ChargeInv ==
  /\ \A h \in Holds : reference[h] => h \in charge
  /\ \A a \in Calls : call[a].pc \in {"replied", "late", "lateLocked"} => call[a].hold \in charge

CheckoutInv ==
  /\ TypeOK
  /\ HoldInv
  /\ SaleInv
  /\ CapacityKept
  /\ PaymentInv
  /\ EventInv
  /\ LockInv
  /\ ExpiryInv
  /\ LateReplyTooLate
  /\ CallInv
  /\ HandlerInv
==============================================================================
