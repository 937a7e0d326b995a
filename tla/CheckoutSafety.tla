--------------------------- MODULE CheckoutSafety ---------------------------
(***************************************************************************)
(* CheckoutInv is an invariant of Checkout.  One lemma per part of it, with *)
(* one step per action that can disturb the part.                          *)
(***************************************************************************)
EXTENDS CheckoutProofs

(***************************************************************************)
(* What the steps leave alone.                                             *)
(***************************************************************************)
LEMMA CallStepFrame ==
  ASSUME NEW a \in Calls, NEW h \in Holds, CallStep(a, h)
  PROVE  UNCHANGED <<holdVars, saleVars, eventVars, outbox, overdue, checkout, webhook, expiring>>
<1> USE DEF dbVars, envVars, CallStep, CallProgress
<1>1. CASE EnsureOnRequest(a, h) \/ RecoverProviderPayment(a, h)
  BY <1>1 DEF EnsureOnRequest, RecoverProviderPayment, ReadPayment
<1>2. CASE CallErrors(a, h) \/ ClaimAttempt(a, h) \/ LoseClaim(a, h) \/ ProviderAccepts(a, h)
  BY <1>2 DEF CallErrors, ClaimAttempt, LoseClaim, ProviderAccepts
<1>3. CASE \/ PersistReference(a, h) \/ PersistMisses(a, h) \/ LockLateReply(a, h)
           \/ ReconcileLateReply(a, h)
  BY <1>3 DEF PersistReference, PersistMisses, LockLateReply, ReconcileLateReply
<1>4. CASE LockFailure(a, h) \/ RetryAfterFailure(a, h) \/ ReconcileFailure(a, h)
  BY <1>4 DEF LockFailure, RetryAfterFailure, ReconcileFailure
<1> QED
  BY <1>1, <1>2, <1>3, <1>4

LEMMA CrashFrame ==
  ASSUME \/ \E a \in Calls : CrashCall(a)
         \/ \E w \in Handlers : CrashWebhook(w)
  PROVE  UNCHANGED <<holdVars, dbVars, overdue, checkout, expiring>>
BY DEF CrashCall, CrashWebhook

LEMMA InboxFrame ==
  ASSUME NEW e \in Events, StoreUnmatched(e) \/ IgnoreInbox(e)
  PROVE  UNCHANGED <<holdVars, saleVars, booking, paymentVars, paymentEvent, outbox, envVars,
                     procVars>>
BY DEF StoreUnmatched, IgnoreInbox

LEMMA HoldStepFrame ==
  ASSUME NEW h \in Holds, HoldStep(h)
  PROVE  /\ UNCHANGED <<saleVars, eventVars, webhook>>
         /\ \/ UNCHANGED holdVars
            \/ AcquireHold(h) \/ ReleaseHold(h) \/ LapseHold(h)
         /\ \/ UNCHANGED <<booking, outbox>>
            \/ CommitBooking(h) \/ CommitExpired(h)
<1> USE DEF dbVars, envVars, procVars
<1>1. CASE AcquireHold(h) \/ ReleaseHold(h) \/ LapseHold(h)
  BY <1>1 DEF AcquireHold, ReleaseHold, LapseHold
<1>2. CASE DeadlinePasses(h) \/ LeasePasses(h) \/ BeginCheckout(h) \/ AbandonCheckout(h)
  BY <1>2 DEF DeadlinePasses, LeasePasses, BeginCheckout, AbandonCheckout
<1>3. CASE CommitBooking(h) \/ CommitExpired(h)
  BY <1>3 DEF CommitBooking, CommitExpired
<1>4. CASE ReadExpired(h) \/ CrashExpiry(h) \/ ResolveReconciliation(h)
  BY <1>4 DEF ReadExpired, CrashExpiry, ResolveReconciliation
<1> QED
  BY <1>1, <1>2, <1>3, <1>4 DEF HoldStep

LEMMA WebhookStepFrame ==
  ASSUME NEW w \in Handlers, NEW e \in Events, WebhookStep(w, e)
  PROVE  /\ UNCHANGED <<envVars, checkout, call, expiring>>
         /\ UNCHANGED holdVars \/ ReleaseSeats(w, e)
         /\ UNCHANGED saleVars \/ Fulfil(w, e)
         /\ UNCHANGED <<reference, attemptId, attemptedAt>>
<1> USE DEF dbVars, paymentVars, WebhookStep, WebhookProgress
<1>1. CASE Deliver(w, e) \/ DrainInbox(w, e)
  BY <1>1 DEF Deliver, DrainInbox, RecordEvent
<1>2. CASE SkipHandled(w, e) \/ IgnoreSettled(w, e) \/ MarkLatePayment(w, e)
  BY <1>2 DEF SkipHandled, IgnoreSettled, MarkLatePayment
<1>3. CASE BeginFulfilment(w, e) \/ Fulfil(w, e) \/ FulfilmentConflict(w, e)
  BY <1>3 DEF BeginFulfilment, Fulfil, FulfilmentConflict
<1>4. CASE ReconcileConflict(w, e) \/ DropConflict(w, e) \/ IgnoreFailure(w, e)
  BY <1>4 DEF ReconcileConflict, DropConflict, IgnoreFailure
<1>5. CASE ExpireByEvent(w, e) \/ FailPayment(w, e) \/ ReleaseSeats(w, e) \/ MarkDrained(w, e)
  BY <1>5 DEF ExpireByEvent, FailPayment, ReleaseSeats, MarkDrained
<1> QED
  BY <1>1, <1>2, <1>3, <1>4, <1>5

(***************************************************************************)
(* Holds.                                                                  *)
(***************************************************************************)
LEMMA HoldInvStep ==
  ASSUME TypeOK, HoldInv, SaleInv, HandlerInv, Next
  PROVE  HoldInv'
<1> USE HoldsAssumption, CheckoutAssumption
<1> DEFINE Frame == UNCHANGED <<seatKey, issued, seatStatus>>
<1>1. ASSUME NEW h \in Holds, AcquireHold(h)
      PROVE  HoldInv'
  BY <1>1 DEF AcquireHold, Acquire, HoldInv, BrokenHoldOnlyForSoldSeats, dbVars, saleVars, TypeOK,
              HoldTypeOK
<1>2. ASSUME NEW h \in Holds, ReleaseHold(h)
      PROVE  HoldInv'
  BY <1>2 DEF ReleaseHold, Release, Live, DeleteKeys, HoldInv, BrokenHoldOnlyForSoldSeats, dbVars,
              saleVars, TypeOK, HoldTypeOK
<1>3. ASSUME NEW h \in Holds, LapseHold(h)
      PROVE  HoldInv'
  BY <1>3 DEF LapseHold, Lapse, DeleteKeys, HoldInv, BrokenHoldOnlyForSoldSeats, dbVars,
              saleVars, TypeOK, HoldTypeOK
<1>4. ASSUME NEW w \in Handlers, NEW e \in Events, ReleaseSeats(w, e)
      PROVE  HoldInv'
  <2> DEFINE h == HoldOf[e]
  <2>1. \A s \in SeatsOf[h] : seatStatus[s] = "SOLD"
    <3>1. h \in Holds /\ Confirmed(h)
      BY <1>4 DEF ReleaseSeats, In, HandlerInv
    <3> QED
      BY <3>1 DEF SaleInv, SalesLedger
  <2>2. seatKey' = [s \in Seats |-> IF s \in SeatsOf[h] THEN NoHold ELSE seatKey[s]]
    BY <1>4 DEF ReleaseSeats, ReleaseConfirmedHold, DeleteKeys
  <2>3. UNCHANGED <<issued, seatStatus>>
    BY <1>4 DEF ReleaseSeats, ReleaseConfirmedHold, dbVars, saleVars
  <2> QED
    BY <2>1, <2>2, <2>3 DEF HoldInv, BrokenHoldOnlyForSoldSeats, TypeOK, HoldTypeOK
<1>5. ASSUME NEW w \in Handlers, NEW e \in Events, Fulfil(w, e)
      PROVE  HoldInv'
  BY <1>5 DEF Fulfil, holdVars, HoldInv, BrokenHoldOnlyForSoldSeats, TypeOK, HoldTypeOK
<1>6. CASE Frame
  BY <1>6 DEF HoldInv, BrokenHoldOnlyForSoldSeats
<1>7. ASSUME NEW h \in Holds, HoldStep(h)
      PROVE  HoldInv'
  BY <1>1, <1>2, <1>3, <1>6, <1>7, HoldStepFrame DEF holdVars, saleVars
<1>8. ASSUME NEW w \in Handlers, NEW e \in Events, WebhookStep(w, e)
      PROVE  HoldInv'
  BY <1>4, <1>5, <1>6, <1>8, WebhookStepFrame DEF holdVars, saleVars
<1> QED
  BY <1>6, <1>7, <1>8, CallStepFrame, CrashFrame, InboxFrame DEF Next, holdVars, saleVars, dbVars

(***************************************************************************)
(* Sales.  Only a fulfilment and a failed payment are seen by the tables a *)
(* sale writes: everything else that ends a booking expires it.            *)
(***************************************************************************)
Quiet ==
  /\ UNCHANGED saleVars
  /\ \A h \in Holds :
       /\ booking'[h] = "CONFIRMED" <=> booking[h] = "CONFIRMED"
       /\ booking'[h] = "PAYMENT_FAILED" <=> booking[h] = "PAYMENT_FAILED"
       /\ <<"booking.confirmed", h>> \in outbox' <=> <<"booking.confirmed", h>> \in outbox
       /\ <<"booking.payment_failed", h>> \in outbox'
            <=> <<"booking.payment_failed", h>> \in outbox

LEMMA RequireReconciliationQuiet ==
  ASSUME TypeOK, NEW h \in Holds, RequireReconciliation(h), UNCHANGED <<saleVars, outbox>>
  PROVE  Quiet
BY DEF TypeOK, RequireReconciliation, Quiet

LEMMA QuietHoldStep ==
  ASSUME TypeOK, PaymentInv, ExpiryInv, NEW h \in Holds, HoldStep(h)
  PROVE  Quiet
<1> USE DEF TypeOK, Quiet
<1>1. CASE CommitBooking(h)
  BY <1>1, HoldStepFrame DEF CommitBooking, PaymentInv
<1>2. CASE CommitExpired(h)
  BY <1>2, HoldStepFrame DEF CommitExpired, ExpireBooking, ExpiryInv
<1> QED
  BY <1>1, <1>2, HoldStepFrame

LEMMA QuietCallStep ==
  ASSUME TypeOK, NEW a \in Calls, NEW h \in Holds, CallStep(a, h)
  PROVE  Quiet
<1> USE DEF CallStep, CallProgress, dbVars
<1>1. UNCHANGED <<saleVars, outbox>>
  BY CallStepFrame
<1>2. CASE ReconcileLateReply(a, h) \/ ReconcileFailure(a, h)
  BY <1>1, <1>2, RequireReconciliationQuiet DEF ReconcileLateReply, ReconcileFailure
<1>3. CASE UNCHANGED booking
  BY <1>1, <1>3 DEF Quiet
<1>4. CASE EnsureOnRequest(a, h) \/ RecoverProviderPayment(a, h)
  BY <1>3, <1>4 DEF EnsureOnRequest, RecoverProviderPayment, ReadPayment
<1>5. CASE CallErrors(a, h) \/ ClaimAttempt(a, h) \/ LoseClaim(a, h) \/ ProviderAccepts(a, h)
  BY <1>3, <1>5 DEF CallErrors, ClaimAttempt, LoseClaim, ProviderAccepts
<1>6. CASE PersistReference(a, h) \/ PersistMisses(a, h) \/ LockLateReply(a, h)
  BY <1>3, <1>6 DEF PersistReference, PersistMisses, LockLateReply
<1>7. CASE LockFailure(a, h) \/ RetryAfterFailure(a, h)
  BY <1>3, <1>7 DEF LockFailure, RetryAfterFailure
<1> QED
  BY <1>2, <1>4, <1>5, <1>6, <1>7

LEMMA QuietWebhookStep ==
  ASSUME TypeOK, NEW w \in Handlers, NEW e \in Events, WebhookStep(w, e),
         ~Fulfil(w, e), ~FailPayment(w, e)
  PROVE  Quiet
<1> USE CheckoutAssumption DEF dbVars
<1>0. HoldOf[e] \in Holds
  OBVIOUS
<1>1. UNCHANGED saleVars
  BY WebhookStepFrame
<1>2. CASE UNCHANGED <<booking, outbox>>
  BY <1>1, <1>2 DEF Quiet
<1>3. CASE MarkLatePayment(w, e) \/ ReconcileConflict(w, e)
  BY <1>0, <1>1, <1>3, RequireReconciliationQuiet DEF MarkLatePayment, ReconcileConflict
<1>4. CASE ExpireByEvent(w, e)
  BY <1>0, <1>1, <1>4 DEF ExpireByEvent, ExpireBooking, Quiet, TypeOK
<1>5. CASE Deliver(w, e) \/ DrainInbox(w, e)
  BY <1>2, <1>5 DEF Deliver, DrainInbox, RecordEvent
<1>6. CASE \/ SkipHandled(w, e) \/ IgnoreSettled(w, e) \/ BeginFulfilment(w, e)
           \/ FulfilmentConflict(w, e)
  BY <1>2, <1>6 DEF SkipHandled, IgnoreSettled, BeginFulfilment, FulfilmentConflict
<1>7. CASE \/ DropConflict(w, e) \/ IgnoreFailure(w, e) \/ ReleaseSeats(w, e) \/ MarkDrained(w, e)
  BY <1>2, <1>7 DEF DropConflict, IgnoreFailure, ReleaseSeats, MarkDrained
<1> QED
  BY <1>3, <1>4, <1>5, <1>6, <1>7 DEF WebhookStep, WebhookProgress

LEMMA QuietStep ==
  ASSUME TypeOK, PaymentInv, ExpiryInv, Next
  PROVE  \/ Quiet
         \/ \E w \in Handlers, e \in Events : Fulfil(w, e) \/ FailPayment(w, e)
<1>1. CASE \E e \in Events : StoreUnmatched(e) \/ IgnoreInbox(e)
  BY <1>1, InboxFrame DEF Quiet
<1>2. CASE (\E a \in Calls : CrashCall(a)) \/ (\E w \in Handlers : CrashWebhook(w))
  BY <1>2, CrashFrame DEF Quiet, dbVars
<1> QED
  BY <1>1, <1>2, QuietHoldStep, QuietCallStep, QuietWebhookStep DEF Next

LEMMA SaleInvQuiet ==
  ASSUME SaleInv, Quiet
  PROVE  SaleInv'
<1>1. /\ seatStatus' = seatStatus /\ tickets' = tickets
      /\ \A h \in Holds : Confirmed(h)' <=> Confirmed(h)
  BY DEF Quiet, saleVars, Confirmed
<1>2. tickets' = {t \in Holds \X Seats : Confirmed(t[1])' /\ t[2] \in SeatsOf[t[1]]}
  <2>1. {t \in Holds \X Seats : Confirmed(t[1]) /\ t[2] \in SeatsOf[t[1]]}
          = {t \in Holds \X Seats : Confirmed(t[1])' /\ t[2] \in SeatsOf[t[1]]}
    BY <1>1
  <2> QED
    BY <1>1, <2>1 DEF SaleInv, SalesLedger
<1>3. \A s \in Seats : seatStatus'[s] = "SOLD" <=> \E h \in Holds : <<h, s>> \in tickets'
  BY <1>1 DEF SaleInv, SalesLedger
<1>4. \A h \in Holds : <<"booking.confirmed", h>> \in outbox' <=> Confirmed(h)'
  BY <1>1 DEF SaleInv, SalesLedger, Quiet
<1>5. \A h \in Holds : <<"booking.payment_failed", h>> \in outbox' <=> booking'[h] = "PAYMENT_FAILED"
  BY DEF SaleInv, SalesLedger, Quiet
<1>6. SeatsSoldOnce'
  BY <1>1 DEF SaleInv, SeatsSoldOnce
<1> QED
  BY <1>2, <1>3, <1>4, <1>5, <1>6 DEF SaleInv, SalesLedger

LEMMA SaleInvStep ==
  ASSUME TypeOK, SaleInv, PaymentInv, ExpiryInv, HandlerInv, Next
  PROVE  SaleInv'
<1> USE HoldsAssumption, CheckoutAssumption
<1>1. CASE Quiet
  BY <1>1, SaleInvQuiet
<1>2. ASSUME NEW w \in Handlers, NEW e \in Events, FailPayment(w, e)
      PROVE  SaleInv'
  <2> DEFINE h == HoldOf[e]
  <2>1. h \in Holds /\ booking[h] = "PENDING"
    BY <1>2 DEF FailPayment
  <2>2. /\ booking' = [booking EXCEPT ![h] = "PAYMENT_FAILED"]
        /\ outbox' = outbox \cup {<<"booking.payment_failed", h>>}
        /\ UNCHANGED <<seatStatus, tickets>>
    BY <1>2 DEF FailPayment, saleVars
  <2>3. \A g \in Holds : Confirmed(g)' <=> Confirmed(g)
    BY <2>1, <2>2 DEF Confirmed, TypeOK
  <2>4. tickets' = {t \in Holds \X Seats : Confirmed(t[1])' /\ t[2] \in SeatsOf[t[1]]}
    <3>1. {t \in Holds \X Seats : Confirmed(t[1]) /\ t[2] \in SeatsOf[t[1]]}
            = {t \in Holds \X Seats : Confirmed(t[1])' /\ t[2] \in SeatsOf[t[1]]}
      BY <2>3
    <3> QED
      BY <2>2, <3>1 DEF SaleInv, SalesLedger
  <2>5. \A s \in Seats : seatStatus'[s] = "SOLD" <=> \E g \in Holds : <<g, s>> \in tickets'
    BY <2>2 DEF SaleInv, SalesLedger
  <2>6. ASSUME NEW g \in Holds
        PROVE  /\ <<"booking.confirmed", g>> \in outbox' <=> Confirmed(g)'
               /\ <<"booking.payment_failed", g>> \in outbox' <=> booking'[g] = "PAYMENT_FAILED"
    <3>1. <<"booking.confirmed", g>> \in outbox' <=> Confirmed(g)'
      BY <2>2, <2>3 DEF SaleInv, SalesLedger
    <3>2. <<"booking.payment_failed", g>> = <<"booking.payment_failed", h>> <=> g = h
      OBVIOUS
    <3>3. booking'[g] = "PAYMENT_FAILED" <=> booking[g] = "PAYMENT_FAILED" \/ g = h
      BY <2>1, <2>2 DEF TypeOK
    <3>4. <<"booking.payment_failed", g>> \in outbox' <=> booking'[g] = "PAYMENT_FAILED"
      BY <2>2, <3>2, <3>3 DEF SaleInv, SalesLedger
    <3> QED
      BY <3>1, <3>4
  <2>7. SeatsSoldOnce'
    BY <2>3 DEF SaleInv, SeatsSoldOnce
  <2> QED
    BY <2>4, <2>5, <2>6, <2>7 DEF SaleInv, SalesLedger
<1>3. ASSUME NEW w \in Handlers, NEW e \in Events, Fulfil(w, e)
      PROVE  SaleInv'
  <2> DEFINE h == HoldOf[e]
  <2>1. h \in Holds /\ booking[h] = "PENDING"
    BY <1>3 DEF Fulfil, In, HandlerInv
  <2>2. /\ seatStatus' = [s \in Seats |-> IF s \in SeatsOf[h] THEN "SOLD" ELSE seatStatus[s]]
        /\ tickets' = tickets \cup ({h} \X SeatsOf[h])
        /\ booking' = [booking EXCEPT ![h] = "CONFIRMED"]
        /\ outbox' = outbox \cup {<<"booking.confirmed", h>>}
        /\ \A s \in SeatsOf[h] : seatStatus[s] = "AVAILABLE"
    BY <1>3 DEF Fulfil, CanSell, SeatsFree
  <2>3. \A g \in Holds : Confirmed(g)' <=> Confirmed(g) \/ g = h
    BY <2>1, <2>2 DEF Confirmed, TypeOK
  <2>4. tickets' = {t \in Holds \X Seats : Confirmed(t[1])' /\ t[2] \in SeatsOf[t[1]]}
    <3>1. tickets = {t \in Holds \X Seats : Confirmed(t[1]) /\ t[2] \in SeatsOf[t[1]]}
      BY DEF SaleInv, SalesLedger
    <3>2. SeatsOf[h] \subseteq Seats
      BY <2>1
    <3> HIDE DEF h
    <3>3. {t \in Holds \X Seats : Confirmed(t[1])' /\ t[2] \in SeatsOf[t[1]]}
            = tickets \cup ({h} \X SeatsOf[h])
      BY <2>1, <2>3, <3>1, <3>2
    <3> QED
      BY <2>2, <3>3
  <2>5. \A s \in Seats : seatStatus'[s] = "SOLD" <=> \E g \in Holds : <<g, s>> \in tickets'
    <3> TAKE s \in Seats
    <3>1. CASE s \in SeatsOf[h]
      BY <2>1, <2>2, <3>1
    <3>2. CASE s \notin SeatsOf[h]
      <4>1. \A g \in Holds : <<g, s>> \in tickets' <=> <<g, s>> \in tickets
        BY <2>2, <3>2
      <4>2. seatStatus'[s] = seatStatus[s]
        BY <2>2, <3>2
      <4> QED
        BY <4>1, <4>2 DEF SaleInv, SalesLedger
    <3> QED
      BY <3>1, <3>2
  <2>6. \A g \in Holds : /\ <<"booking.confirmed", g>> \in outbox' <=> Confirmed(g)'
                         /\ <<"booking.payment_failed", g>> \in outbox'
                              <=> booking'[g] = "PAYMENT_FAILED"
    <3> TAKE g \in Holds
    <3>1. booking'[g] = "PAYMENT_FAILED" <=> booking[g] = "PAYMENT_FAILED"
      BY <2>1, <2>2 DEF TypeOK
    <3>2. <<"booking.payment_failed", g>> # <<"booking.confirmed", h>>
      OBVIOUS
    <3>3. <<"booking.confirmed", g>> = <<"booking.confirmed", h>> <=> g = h
      OBVIOUS
    <3> HIDE DEF h
    <3> QED
      BY <2>2, <2>3, <3>1, <3>2, <3>3 DEF SaleInv, SalesLedger
  <2>7. \A g \in Holds : Confirmed(g) => SeatsOf[g] \cap SeatsOf[h] = {}
    <3> SUFFICES ASSUME NEW g \in Holds, Confirmed(g), NEW s \in SeatsOf[g], s \in SeatsOf[h]
                 PROVE  FALSE
      OBVIOUS
    <3>1. s \in Seats /\ <<g, s>> \in Holds \X Seats
      OBVIOUS
    <3>2. <<g, s>> \in tickets
      BY <3>1 DEF SaleInv, SalesLedger
    <3>3. seatStatus[s] = "SOLD"
      BY <3>1, <3>2 DEF SaleInv, SalesLedger
    <3> QED
      BY <2>2, <3>3
  <2>8. SeatsSoldOnce'
    BY <2>3, <2>7 DEF SaleInv, SeatsSoldOnce
  <2> QED
    BY <2>4, <2>5, <2>6, <2>8 DEF SaleInv, SalesLedger
<1> QED
  BY <1>1, <1>2, <1>3, QuietStep

(***************************************************************************)
(* Capacity: the seats of a fulfilment are new, so the counter and the set *)
(* of sold seats of each type grow by the same number.                     *)
(***************************************************************************)
LEMMA CapacityStep ==
  ASSUME TypeOK, CapacityKept, Next
  PROVE  CapacityKept'
<1> USE HoldsAssumption, CheckoutAssumption
<1>1. CASE UNCHANGED saleVars
  BY <1>1 DEF CapacityKept, SoldSeats, saleVars
<1>2. ASSUME NEW w \in Handlers, NEW e \in Events, Fulfil(w, e)
      PROVE  CapacityKept'
  <2> DEFINE h == HoldOf[e]
             New(t) == {s \in SeatsOf[h] : TypeOf[s] = t}
  <2>1. h \in Holds /\ SeatsOf[h] \subseteq Seats
    OBVIOUS
  <2>2. /\ seatStatus' = [s \in Seats |-> IF s \in SeatsOf[h] THEN "SOLD" ELSE seatStatus[s]]
        /\ soldQuantity' = [t \in TicketTypes |-> soldQuantity[t] + Wanted(h, t)]
        /\ SeatsFree(h)
        /\ RoomLeft(h)
    BY <1>2 DEF Fulfil, CanSell
  <2>3. SUFFICES ASSUME NEW t \in TicketTypes
                 PROVE  /\ soldQuantity'[t] = Cardinality(SoldSeats(t)')
                        /\ soldQuantity'[t] <= Capacity[t]
    BY DEF CapacityKept
  <2>4. IsFiniteSet(SoldSeats(t)) /\ IsFiniteSet(New(t))
    BY <2>1, FS_Subset DEF SoldSeats
  <2>5. SoldSeats(t)' = SoldSeats(t) \cup New(t)
    BY <2>1, <2>2 DEF SoldSeats, TypeOK
  <2>6. SoldSeats(t) \cap New(t) = {}
    BY <2>2 DEF SoldSeats, SeatsFree
  <2>7. Cardinality(SoldSeats(t)') = Cardinality(SoldSeats(t)) + Wanted(h, t)
    <3>1. Cardinality(SoldSeats(t) \cup New(t))
            = Cardinality(SoldSeats(t)) + Cardinality(New(t))
                - Cardinality(SoldSeats(t) \cap New(t))
      BY <2>4, FS_Union
    <3>2. Cardinality(SoldSeats(t) \cap New(t)) = 0
      BY <2>6, FS_EmptySet
    <3>3. Cardinality(SoldSeats(t)) \in Nat /\ Cardinality(New(t)) \in Nat
      BY <2>4, FS_CardinalityType
    <3> QED
      BY <2>5, <3>1, <3>2, <3>3 DEF Wanted
  <2>8. Wanted(h, t) \in Nat /\ soldQuantity[t] \in Nat /\ Capacity[t] \in Nat
    BY <2>1, WantedType DEF TypeOK
  <2> QED
    BY <2>2, <2>7, <2>8 DEF CapacityKept, RoomLeft
<1> QED
  BY <1>1, <1>2, HoldStepFrame, CallStepFrame, CrashFrame, InboxFrame, WebhookStepFrame
     DEF Next, dbVars

(***************************************************************************)
(* Payments.  PaymentInv speaks of one booking at a time, and a step that  *)
(* touches it touches one booking.                                         *)
(***************************************************************************)
PaymentRow(h) ==
  /\ payment[h] \in PaymentsOf(booking[h])
  /\ payment[h] = "REQUIRES_RECONCILIATION" <=> reconciliation[h] # "NONE"
  /\ payment[h] = "PROCESSING" => attemptId[h] # NoCall /\ ~reference[h]
  /\ reference[h] => attemptId[h] = NoCall
  /\ h \in checkout => booking[h] = "NONE"
  /\ booking[h] = "NONE" => ~reference[h] /\ attemptId[h] = NoCall
  /\ booking[h] \in {"CONFIRMED", "PAYMENT_FAILED"} => reference[h]
  /\ attemptId[h] # NoCall => payment[h] = "PROCESSING" \/ booking[h] = "EXPIRED"

SameRow(h) ==
  /\ booking'[h] = booking[h]
  /\ payment'[h] = payment[h]
  /\ reference'[h] = reference[h]
  /\ attemptId'[h] = attemptId[h]
  /\ reconciliation'[h] = reconciliation[h]
  /\ h \in checkout' <=> h \in checkout

LEMMA PaymentRowOf ==
  ASSUME PaymentInv, NEW h \in Holds
  PROVE  PaymentRow(h)
BY DEF PaymentInv, PaymentAgreesWithBooking, ReconciliationExists, AttemptFence, PaymentRow

LEMMA PaymentOneRow ==
  ASSUME PaymentInv, NEW h \in Holds, PaymentRow(h)', \A g \in Holds \ {h} : SameRow(g)
  PROVE  PaymentInv'
<1>1. ASSUME NEW g \in Holds
      PROVE  PaymentRow(g)'
  <2>1. CASE g = h
    BY <2>1
  <2>2. CASE g # h
    BY <2>2, PaymentRowOf DEF SameRow, PaymentRow
  <2> QED
    BY <2>1, <2>2
<1> QED
  BY <1>1 DEF PaymentInv, PaymentAgreesWithBooking, ReconciliationExists, AttemptFence, PaymentRow

LEMMA PaymentSameRows ==
  ASSUME PaymentInv, \A g \in Holds : SameRow(g)
  PROVE  PaymentInv'
BY DEF PaymentInv, PaymentAgreesWithBooking, ReconciliationExists, AttemptFence, SameRow

LEMMA PaymentHoldStep ==
  ASSUME TypeOK, PaymentInv, ExpiryInv, NEW h \in Holds, HoldStep(h)
  PROVE  PaymentInv'
<1> USE DEF dbVars, envVars, procVars, paymentVars, TypeOK
<1>0. PaymentRow(h)
  BY PaymentRowOf
<1>1. CASE BeginCheckout(h)
  <2>1. \A g \in Holds \ {h} : SameRow(g)
    BY <1>1 DEF BeginCheckout, SameRow
  <2>2. PaymentRow(h)'
    BY <1>0, <1>1 DEF BeginCheckout, PaymentRow
  <2> QED
    BY <2>1, <2>2, PaymentOneRow
<1>2. CASE CommitBooking(h)
  <2>1. \A g \in Holds \ {h} : SameRow(g)
    BY <1>2 DEF CommitBooking, SameRow
  <2>2. PaymentRow(h)'
    BY <1>0, <1>2 DEF CommitBooking, PaymentRow, PaymentsOf
  <2> QED
    BY <2>1, <2>2, PaymentOneRow
<1>3. CASE AbandonCheckout(h)
  <2>1. \A g \in Holds \ {h} : SameRow(g)
    BY <1>3 DEF AbandonCheckout, SameRow
  <2>2. PaymentRow(h)'
    BY <1>0, <1>3 DEF AbandonCheckout, PaymentRow
  <2> QED
    BY <2>1, <2>2, PaymentOneRow
<1>4. CASE CommitExpired(h)
  <2>1. \A g \in Holds \ {h} : SameRow(g)
    BY <1>4 DEF CommitExpired, ExpireBooking, SameRow
  <2>2. booking[h] = "PENDING"
    BY <1>4 DEF CommitExpired, ExpiryInv
  <2>3. PaymentRow(h)'
    BY <1>0, <1>4, <2>2 DEF CommitExpired, ExpireBooking, PaymentRow, PaymentsOf
  <2> QED
    BY <2>1, <2>3, PaymentOneRow
<1>5. CASE ResolveReconciliation(h)
  <2>1. \A g \in Holds \ {h} : SameRow(g)
    BY <1>5 DEF ResolveReconciliation, SameRow
  <2>2. PaymentRow(h)'
    BY <1>0, <1>5 DEF ResolveReconciliation, PaymentRow
  <2> QED
    BY <2>1, <2>2, PaymentOneRow
<1>6. CASE AcquireHold(h) \/ ReleaseHold(h) \/ LapseHold(h) \/ DeadlinePasses(h) \/ LeasePasses(h)
  <2>1. \A g \in Holds : SameRow(g)
    BY <1>6 DEF AcquireHold, ReleaseHold, LapseHold, DeadlinePasses, LeasePasses, SameRow
  <2> QED
    BY <2>1, PaymentSameRows
<1>7. CASE ReadExpired(h) \/ CrashExpiry(h)
  <2>1. \A g \in Holds : SameRow(g)
    BY <1>7 DEF ReadExpired, CrashExpiry, SameRow
  <2> QED
    BY <2>1, PaymentSameRows
<1> QED
  BY <1>1, <1>2, <1>3, <1>4, <1>5, <1>6, <1>7 DEF HoldStep

\* What RequireReconciliation does to the row, given what it does not write.
LEMMA RequireReconciliationRow ==
  ASSUME TypeOK, NEW h \in Holds, PaymentRow(h), RequireReconciliation(h),
         booking[h] \notin {"NONE", "CONFIRMED"},
         UNCHANGED checkout, attemptId'[h] = NoCall,
         reference'[h] \/ reference'[h] = reference[h],
         \A g \in Holds \ {h} : reference'[g] = reference[g] /\ attemptId'[g] = attemptId[g]
  PROVE  PaymentRow(h)' /\ \A g \in Holds \ {h} : SameRow(g)
<1> USE DEF TypeOK, RequireReconciliation
<1>1. \A g \in Holds \ {h} : SameRow(g)
  BY DEF SameRow
<1>2. PaymentRow(h)'
  BY DEF PaymentRow, PaymentsOf, BookingStatus
<1> QED
  BY <1>1, <1>2

LEMMA PaymentCallStep ==
  ASSUME TypeOK, PaymentInv, CallInv, NEW a \in Calls, NEW h \in Holds, CallStep(a, h)
  PROVE  PaymentInv'
<1> USE CheckoutAssumption DEF dbVars, envVars, paymentVars
<1>0. PaymentRow(h)
  BY PaymentRowOf
<1>1. CASE ClaimAttempt(a, h)
  <2>1. \A g \in Holds \ {h} : SameRow(g)
    BY <1>1 DEF ClaimAttempt, SameRow, TypeOK
  <2>2. booking[h] # "NONE"
    BY <1>1 DEF ClaimAttempt, At, CallInv
  <2>3. PaymentRow(h)'
    BY <1>0, <1>1, <2>2
       DEF ClaimAttempt, Claimable, Unclaimed, PaymentRow, PaymentsOf, TypeOK, BookingStatus
  <2> QED
    BY <2>1, <2>3, PaymentOneRow
<1>2. CASE PersistReference(a, h)
  <2>1. \A g \in Holds \ {h} : SameRow(g)
    BY <1>2 DEF PersistReference, SetReference, SameRow, TypeOK
  <2>2. PaymentRow(h)'
    BY <1>0, <1>2
       DEF PersistReference, SetReference, Matches, PaymentRow, PaymentsOf, TypeOK, BookingStatus
  <2> QED
    BY <2>1, <2>2, PaymentOneRow
<1>3. CASE ReconcileLateReply(a, h)
  <2>1. booking[h] \in {"PENDING", "EXPIRED"}
    BY <1>3 DEF ReconcileLateReply, At, CallInv
  <2>2. RequireReconciliation(h) /\ UNCHANGED checkout
    BY <1>3 DEF ReconcileLateReply
  <2>3. /\ attemptId'[h] = NoCall
        /\ reference'[h]
        /\ \A g \in Holds \ {h} : reference'[g] = reference[g] /\ attemptId'[g] = attemptId[g]
    BY <1>3 DEF ReconcileLateReply, TypeOK
  <2> QED
    BY <1>0, <2>1, <2>2, <2>3, RequireReconciliationRow, PaymentOneRow
<1>4. CASE RetryAfterFailure(a, h)
  <2>1. \A g \in Holds \ {h} : SameRow(g)
    BY <1>4 DEF RetryAfterFailure, SameRow, TypeOK
  <2>2. booking[h] = "PENDING"
    BY <1>4 DEF RetryAfterFailure, Ended
  <2>3. PaymentRow(h)'
    BY <1>0, <1>4, <2>2 DEF RetryAfterFailure, PaymentRow, PaymentsOf, TypeOK
  <2> QED
    BY <2>1, <2>3, PaymentOneRow
<1>5. CASE ReconcileFailure(a, h)
  <2>1. booking[h] \in {"PENDING", "EXPIRED"}
    BY <1>5 DEF ReconcileFailure, At, CallInv
  <2>2. RequireReconciliation(h) /\ UNCHANGED <<checkout, reference>>
    BY <1>5 DEF ReconcileFailure
  <2>3. /\ attemptId'[h] = NoCall
        /\ \A g \in Holds \ {h} : attemptId'[g] = attemptId[g]
    BY <1>5 DEF ReconcileFailure, TypeOK
  <2> QED
    BY <1>0, <2>1, <2>2, <2>3, RequireReconciliationRow, PaymentOneRow
<1>6. CASE \A g \in Holds : SameRow(g)
  BY <1>6, PaymentSameRows
<1>7. CASE EnsureOnRequest(a, h) \/ RecoverProviderPayment(a, h) \/ CallErrors(a, h)
  BY <1>6, <1>7 DEF EnsureOnRequest, RecoverProviderPayment, ReadPayment, CallErrors, SameRow
<1>8. CASE LoseClaim(a, h) \/ ProviderAccepts(a, h) \/ PersistMisses(a, h)
  BY <1>6, <1>8 DEF LoseClaim, ProviderAccepts, PersistMisses, SameRow
<1>9. CASE LockLateReply(a, h) \/ LockFailure(a, h)
  BY <1>6, <1>9 DEF LockLateReply, LockFailure, SameRow
<1> QED
  BY <1>1, <1>2, <1>3, <1>4, <1>5, <1>7, <1>8, <1>9 DEF CallStep, CallProgress

LEMMA PaymentWebhookStep ==
  ASSUME TypeOK, PaymentInv, HandlerInv, NEW w \in Handlers, NEW e \in Events, WebhookStep(w, e)
  PROVE  PaymentInv'
<1> USE CheckoutAssumption DEF dbVars, paymentVars
<1> DEFINE h == HoldOf[e]
<1>0. h \in Holds /\ PaymentRow(h)
  BY PaymentRowOf
<1>1. UNCHANGED <<checkout, reference, attemptId>>
  BY WebhookStepFrame
<1>2. ASSUME webhook[w].pc # "idle", webhook[w].event = e
      PROVE  reference[h] /\ attemptId[h] = NoCall /\ booking[h] # "NONE"
  BY <1>0, <1>2 DEF HandlerInv, PaymentRow
<1>3. CASE MarkLatePayment(w, e)
  <2>1. attemptId[h] = NoCall /\ booking[h] \notin {"NONE", "CONFIRMED"}
    BY <1>2, <1>3 DEF MarkLatePayment, Fresh, Applying, In, Settled
  <2>2. RequireReconciliation(h)
    BY <1>3 DEF MarkLatePayment
  <2> QED
    BY <1>0, <1>1, <2>1, <2>2, RequireReconciliationRow, PaymentOneRow
<1>4. CASE ReconcileConflict(w, e)
  <2>1. attemptId[h] = NoCall /\ booking[h] \notin {"NONE", "CONFIRMED"}
    BY <1>2, <1>4 DEF ReconcileConflict, In
  <2>2. RequireReconciliation(h)
    BY <1>4 DEF ReconcileConflict
  <2> QED
    BY <1>0, <1>1, <2>1, <2>2, RequireReconciliationRow, PaymentOneRow
<1>5. CASE Fulfil(w, e)
  <2>1. booking[h] = "PENDING" /\ reference[h]
    BY <1>5 DEF Fulfil, In, HandlerInv
  <2>2. \A g \in Holds \ {h} : SameRow(g)
    BY <1>5 DEF Fulfil, SameRow, TypeOK
  <2>3. PaymentRow(h)'
    BY <1>0, <1>5, <2>1 DEF Fulfil, PaymentRow, PaymentsOf, TypeOK
  <2> QED
    BY <1>0, <2>2, <2>3, PaymentOneRow
<1>6. CASE ExpireByEvent(w, e)
  <2>1. booking[h] = "PENDING" /\ reference[h]
    BY <1>2, <1>6 DEF ExpireByEvent, Fresh, Applying, In
  <2>2. \A g \in Holds \ {h} : SameRow(g)
    BY <1>6 DEF ExpireByEvent, ExpireBooking, SameRow, TypeOK
  <2>3. PaymentRow(h)'
    BY <1>0, <1>6, <2>1 DEF ExpireByEvent, ExpireBooking, PaymentRow, PaymentsOf, TypeOK
  <2> QED
    BY <1>0, <2>2, <2>3, PaymentOneRow
<1>7. CASE FailPayment(w, e)
  <2>1. booking[h] = "PENDING" /\ reference[h]
    BY <1>2, <1>7 DEF FailPayment, Fresh, Applying, In
  <2>2. \A g \in Holds \ {h} : SameRow(g)
    BY <1>7 DEF FailPayment, SameRow, TypeOK
  <2>3. PaymentRow(h)'
    BY <1>0, <1>7, <2>1 DEF FailPayment, PaymentRow, PaymentsOf, TypeOK
  <2> QED
    BY <1>0, <2>2, <2>3, PaymentOneRow
<1>8. CASE \A g \in Holds : SameRow(g)
  BY <1>8, PaymentSameRows
<1>9. CASE Deliver(w, e) \/ DrainInbox(w, e)
  BY <1>8, <1>9 DEF Deliver, DrainInbox, RecordEvent, SameRow
<1>10. CASE \/ SkipHandled(w, e) \/ IgnoreSettled(w, e) \/ BeginFulfilment(w, e)
            \/ FulfilmentConflict(w, e)
  BY <1>8, <1>10 DEF SkipHandled, IgnoreSettled, BeginFulfilment, FulfilmentConflict, SameRow
<1>11. CASE \/ DropConflict(w, e) \/ IgnoreFailure(w, e) \/ ReleaseSeats(w, e)
            \/ MarkDrained(w, e)
  BY <1>8, <1>11 DEF DropConflict, IgnoreFailure, ReleaseSeats, MarkDrained, SameRow
<1> QED
  BY <1>3, <1>4, <1>5, <1>6, <1>7, <1>9, <1>10, <1>11 DEF WebhookStep, WebhookProgress

LEMMA PaymentInvStep ==
  ASSUME TypeOK, PaymentInv, ExpiryInv, CallInv, HandlerInv, Next
  PROVE  PaymentInv'
<1>1. CASE \E e \in Events : StoreUnmatched(e) \/ IgnoreInbox(e)
  BY <1>1, InboxFrame, PaymentSameRows DEF SameRow, paymentVars, procVars
<1>2. CASE (\E a \in Calls : CrashCall(a)) \/ (\E w \in Handlers : CrashWebhook(w))
  BY <1>2, CrashFrame, PaymentSameRows DEF SameRow, paymentVars, dbVars
<1> QED
  BY <1>1, <1>2, PaymentHoldStep, PaymentCallStep, PaymentWebhookStep DEF Next

(***************************************************************************)
(* Nothing settled is undone: SettledStays, and no row disappears.         *)
(***************************************************************************)
RowAdvances(h) ==
  /\ booking[h] \notin {"NONE", "PENDING"} => booking'[h] = booking[h]
  /\ payment[h] \in {"SUCCEEDED", "REQUIRES_RECONCILIATION"} => payment'[h] = payment[h]
  /\ reconciliation[h] = "RESOLVED" => reconciliation'[h] = "RESOLVED"
  /\ reference[h] => reference'[h]
  /\ booking[h] # "NONE" => booking'[h] # "NONE"
  /\ reconciliation[h] # "NONE" => reconciliation'[h] # "NONE"

EventAdvances(e) ==
  /\ paymentEvent[e] \in {"PROCESSED", "IGNORED"} => paymentEvent'[e] = paymentEvent[e]
  /\ paymentEvent[e] # "NONE" => paymentEvent'[e] # "NONE"

Advance == /\ \A h \in Holds : RowAdvances(h)
           /\ \A e \in Events : EventAdvances(e)

LEMMA AdvanceHoldStep ==
  ASSUME TypeOK, PaymentInv, ExpiryInv, NEW h \in Holds, HoldStep(h)
  PROVE  Advance
<1> USE DEF dbVars, paymentVars, TypeOK
<1>0. PaymentRow(h)
  BY PaymentRowOf
<1>1. \A e \in Events : EventAdvances(e)
  BY HoldStepFrame DEF EventAdvances, eventVars
<1>2. CASE CommitBooking(h)
  <2>1. \A g \in Holds \ {h} : RowAdvances(g)
    BY <1>2 DEF CommitBooking, RowAdvances
  <2>2. RowAdvances(h)
    BY <1>0, <1>2 DEF CommitBooking, RowAdvances, PaymentRow, PaymentsOf
  <2> QED
    BY <1>1, <2>1, <2>2 DEF Advance
<1>3. CASE CommitExpired(h)
  <2>1. \A g \in Holds \ {h} : RowAdvances(g)
    BY <1>3 DEF CommitExpired, ExpireBooking, RowAdvances
  <2>2. booking[h] = "PENDING"
    BY <1>3 DEF CommitExpired, ExpiryInv
  <2>3. RowAdvances(h)
    BY <1>0, <1>3, <2>2 DEF CommitExpired, ExpireBooking, RowAdvances, PaymentRow, PaymentsOf
  <2> QED
    BY <1>1, <2>1, <2>3 DEF Advance
<1>4. CASE ResolveReconciliation(h)
  <2>1. \A g \in Holds : RowAdvances(g)
    BY <1>4 DEF ResolveReconciliation, RowAdvances
  <2> QED
    BY <1>1, <2>1 DEF Advance
<1>5. CASE UNCHANGED <<booking, payment, reference, reconciliation>>
  <2>1. \A g \in Holds : RowAdvances(g)
    BY <1>5 DEF RowAdvances
  <2> QED
    BY <1>1, <2>1 DEF Advance
<1>6. CASE AcquireHold(h) \/ ReleaseHold(h) \/ LapseHold(h) \/ DeadlinePasses(h) \/ LeasePasses(h)
  BY <1>5, <1>6 DEF AcquireHold, ReleaseHold, LapseHold, DeadlinePasses, LeasePasses
<1>7. CASE BeginCheckout(h) \/ AbandonCheckout(h) \/ ReadExpired(h) \/ CrashExpiry(h)
  BY <1>5, <1>7 DEF BeginCheckout, AbandonCheckout, ReadExpired, CrashExpiry
<1> QED
  BY <1>2, <1>3, <1>4, <1>6, <1>7 DEF HoldStep

LEMMA RequireReconciliationAdvances ==
  ASSUME TypeOK, NEW h \in Holds, RequireReconciliation(h), payment[h] # "SUCCEEDED",
         \A g \in Holds : reference[g] => reference'[g]
  PROVE  \A g \in Holds : RowAdvances(g)
<1> USE DEF TypeOK, RequireReconciliation
<1>1. \A g \in Holds \ {h} : RowAdvances(g)
  BY DEF RowAdvances
<1>2. RowAdvances(h)
  BY DEF RowAdvances
<1> QED
  BY <1>1, <1>2

LEMMA AdvanceCallStep ==
  ASSUME TypeOK, PaymentInv, CallInv, NEW a \in Calls, NEW h \in Holds, CallStep(a, h)
  PROVE  Advance
<1> USE CheckoutAssumption DEF dbVars, paymentVars
<1>0. PaymentRow(h)
  BY PaymentRowOf
<1>1. \A e \in Events : EventAdvances(e)
  BY CallStepFrame DEF EventAdvances, eventVars
<1>2. SUFFICES \A g \in Holds : RowAdvances(g)
  BY <1>1 DEF Advance
<1>3. CASE ClaimAttempt(a, h)
  BY <1>3 DEF ClaimAttempt, Claimable, Unclaimed, RowAdvances, TypeOK
<1>4. CASE PersistReference(a, h)
  BY <1>4 DEF PersistReference, SetReference, Matches, RowAdvances, TypeOK
<1>5. CASE ReconcileLateReply(a, h) \/ ReconcileFailure(a, h)
  <2>1. booking[h] \in {"PENDING", "EXPIRED"}
    BY <1>5 DEF ReconcileLateReply, ReconcileFailure, At, CallInv
  <2>2. payment[h] # "SUCCEEDED"
    BY <1>0, <2>1 DEF PaymentRow, PaymentsOf
  <2>3. RequireReconciliation(h) /\ \A g \in Holds : reference[g] => reference'[g]
    BY <1>5 DEF ReconcileLateReply, ReconcileFailure, TypeOK
  <2> QED
    BY <2>2, <2>3, RequireReconciliationAdvances
<1>6. CASE RetryAfterFailure(a, h)
  <2>1. payment[h] \in {"PENDING", "PROCESSING"}
    BY <1>0, <1>6 DEF RetryAfterFailure, Ended, PaymentRow, PaymentsOf
  <2> QED
    BY <1>6, <2>1 DEF RetryAfterFailure, RowAdvances, TypeOK
<1>7. CASE EnsureOnRequest(a, h) \/ RecoverProviderPayment(a, h) \/ CallErrors(a, h)
  BY <1>7 DEF EnsureOnRequest, RecoverProviderPayment, ReadPayment, CallErrors, RowAdvances
<1>8. CASE LoseClaim(a, h) \/ ProviderAccepts(a, h) \/ PersistMisses(a, h)
  BY <1>8 DEF LoseClaim, ProviderAccepts, PersistMisses, RowAdvances
<1>9. CASE LockLateReply(a, h) \/ LockFailure(a, h)
  BY <1>9 DEF LockLateReply, LockFailure, RowAdvances
<1> QED
  BY <1>3, <1>4, <1>5, <1>6, <1>7, <1>8, <1>9 DEF CallStep, CallProgress

LEMMA AdvanceWebhookStep ==
  ASSUME TypeOK, PaymentInv, HandlerInv, NEW w \in Handlers, NEW e \in Events, WebhookStep(w, e)
  PROVE  Advance
<1> USE CheckoutAssumption DEF dbVars, paymentVars
<1> DEFINE h == HoldOf[e]
<1>0. h \in Holds /\ PaymentRow(h)
  BY PaymentRowOf
<1>1. \A f \in Events : EventAdvances(f)
  <2> USE DEF EventAdvances, TypeOK, MarkEvent
  <2>1. CASE Deliver(w, e) \/ DrainInbox(w, e)
    BY <2>1 DEF Deliver, DrainInbox, RecordEvent
  <2>2. CASE IgnoreSettled(w, e) \/ MarkLatePayment(w, e) \/ ReconcileConflict(w, e)
    BY <2>2 DEF IgnoreSettled, MarkLatePayment, Fresh, ReconcileConflict
  <2>3. CASE Fulfil(w, e)
    BY <2>3 DEF Fulfil, In, HandlerInv
  <2>4. CASE IgnoreFailure(w, e) \/ ExpireByEvent(w, e) \/ FailPayment(w, e)
    BY <2>4 DEF IgnoreFailure, ExpireByEvent, FailPayment, Fresh
  <2>5. CASE DropConflict(w, e)
    BY <2>5 DEF DropConflict
  <2>6. CASE SkipHandled(w, e) \/ BeginFulfilment(w, e) \/ FulfilmentConflict(w, e)
    BY <2>6 DEF SkipHandled, BeginFulfilment, FulfilmentConflict, eventVars
  <2>7. CASE ReleaseSeats(w, e) \/ MarkDrained(w, e)
    BY <2>7 DEF ReleaseSeats, MarkDrained, eventVars
  <2> QED
    BY <2>1, <2>2, <2>3, <2>4, <2>5, <2>6, <2>7 DEF WebhookStep, WebhookProgress
<1>2. SUFFICES \A g \in Holds : RowAdvances(g)
  BY <1>1 DEF Advance
<1>3. UNCHANGED reference
  BY WebhookStepFrame
<1>4. CASE MarkLatePayment(w, e) \/ ReconcileConflict(w, e)
  <2>1. RequireReconciliation(h) /\ payment[h] # "SUCCEEDED"
    BY <1>4 DEF MarkLatePayment, Fresh, Settled, ReconcileConflict
  <2> QED
    BY <1>0, <1>3, <2>1, RequireReconciliationAdvances
<1>5. CASE Fulfil(w, e)
  <2>1. booking[h] = "PENDING"
    BY <1>5 DEF Fulfil, In, HandlerInv
  <2>2. payment[h] \in {"PENDING", "PROCESSING"}
    BY <1>0, <2>1 DEF PaymentRow, PaymentsOf
  <2> QED
    BY <1>0, <1>5, <2>1, <2>2 DEF Fulfil, RowAdvances, TypeOK
<1>6. CASE ExpireByEvent(w, e) \/ FailPayment(w, e)
  <2>1. booking[h] = "PENDING"
    BY <1>6 DEF ExpireByEvent, FailPayment
  <2>2. payment[h] \in {"PENDING", "PROCESSING"}
    BY <1>0, <2>1 DEF PaymentRow, PaymentsOf
  <2> QED
    BY <1>0, <1>6, <2>1, <2>2 DEF ExpireByEvent, ExpireBooking, FailPayment, RowAdvances, TypeOK
<1>7. CASE UNCHANGED <<booking, payment, reconciliation>>
  BY <1>3, <1>7 DEF RowAdvances
<1>8. CASE Deliver(w, e) \/ DrainInbox(w, e)
  BY <1>7, <1>8 DEF Deliver, DrainInbox, RecordEvent
<1>9. CASE SkipHandled(w, e) \/ IgnoreSettled(w, e) \/ BeginFulfilment(w, e)
  BY <1>7, <1>9 DEF SkipHandled, IgnoreSettled, BeginFulfilment
<1>10. CASE FulfilmentConflict(w, e) \/ DropConflict(w, e) \/ IgnoreFailure(w, e)
  BY <1>7, <1>10 DEF FulfilmentConflict, DropConflict, IgnoreFailure
<1>11. CASE ReleaseSeats(w, e) \/ MarkDrained(w, e)
  BY <1>7, <1>11 DEF ReleaseSeats, MarkDrained
<1> QED
  BY <1>4, <1>5, <1>6, <1>8, <1>9, <1>10, <1>11 DEF WebhookStep, WebhookProgress

LEMMA AdvanceStep ==
  ASSUME TypeOK, PaymentInv, ExpiryInv, CallInv, HandlerInv, Next
  PROVE  Advance
<1> USE DEF Advance, RowAdvances, EventAdvances
<1>1. CASE \E e \in Events : StoreUnmatched(e) \/ IgnoreInbox(e)
  BY <1>1, InboxFrame DEF paymentVars
<1>2. CASE (\E a \in Calls : CrashCall(a)) \/ (\E w \in Handlers : CrashWebhook(w))
  BY <1>2, CrashFrame DEF paymentVars, dbVars, eventVars
<1> QED
  BY <1>1, <1>2, AdvanceHoldStep, AdvanceCallStep, AdvanceWebhookStep DEF Next

(***************************************************************************)
(* The row lock.  Whatever changes a booking that exists, or disposes of   *)
(* an event about it, either waited for the lock and gives it up in the    *)
(* same step, or held it and gives it up.                                  *)
(***************************************************************************)
OwnerCommits(h) ==
  \/ ~Locked(h)
  \/ expiring[h] # "no" /\ expiring'[h] = "no"
  \/ \E a \in Calls : CallLocks(a, h) /\ call'[a].pc = "idle"
  \/ \E w \in Handlers : HandlerLocks(w, h) /\ webhook'[w].pc # "fulfilling"

WritesUnderLock ==
  /\ \A h \in Holds : booking'[h] # booking[h] => booking[h] = "NONE" \/ OwnerCommits(h)
  /\ \A e \in Events : paymentEvent'[e] # paymentEvent[e]
                         => paymentEvent[e] = "NONE" \/ OwnerCommits(HoldOf[e])

LEMMA LockedHoldWrites ==
  ASSUME TypeOK, PaymentInv, NEW h \in Holds, HoldStep(h)
  PROVE  WritesUnderLock
<1> USE DEF TypeOK
<1>1. UNCHANGED paymentEvent
  BY HoldStepFrame DEF eventVars
<1>2. CASE CommitBooking(h)
  BY <1>1, <1>2 DEF CommitBooking, PaymentInv, WritesUnderLock
<1>3. CASE CommitExpired(h)
  BY <1>1, <1>3 DEF CommitExpired, ExpireBooking, OwnerCommits, WritesUnderLock
<1>4. CASE UNCHANGED booking
  BY <1>1, <1>4 DEF WritesUnderLock
<1> QED
  BY <1>2, <1>3, <1>4, HoldStepFrame

LEMMA LockedCallWrites ==
  ASSUME TypeOK, NEW a \in Calls, NEW h \in Holds, CallStep(a, h)
  PROVE  WritesUnderLock
<1> USE DEF dbVars
<1>1. UNCHANGED paymentEvent
  BY CallStepFrame DEF eventVars
<1>2. CASE ReconcileLateReply(a, h) \/ ReconcileFailure(a, h)
  <2>1. CallLocks(a, h) /\ call'[a].pc = "idle"
    BY <1>2 DEF ReconcileLateReply, ReconcileFailure, At, CallLocks, EndCall, IdleCall, TypeOK
  <2>2. \A g \in Holds : booking'[g] # booking[g] => g = h
    BY <1>2 DEF ReconcileLateReply, ReconcileFailure, RequireReconciliation, TypeOK
  <2> QED
    BY <1>1, <2>1, <2>2 DEF OwnerCommits, WritesUnderLock
<1>3. CASE UNCHANGED booking
  BY <1>1, <1>3 DEF WritesUnderLock
<1>4. CASE EnsureOnRequest(a, h) \/ RecoverProviderPayment(a, h)
  BY <1>3, <1>4 DEF EnsureOnRequest, RecoverProviderPayment, ReadPayment
<1>5. CASE CallErrors(a, h) \/ ClaimAttempt(a, h) \/ LoseClaim(a, h) \/ ProviderAccepts(a, h)
  BY <1>3, <1>5 DEF CallErrors, ClaimAttempt, LoseClaim, ProviderAccepts
<1>6. CASE PersistReference(a, h) \/ PersistMisses(a, h) \/ LockLateReply(a, h)
  BY <1>3, <1>6 DEF PersistReference, PersistMisses, LockLateReply
<1>7. CASE LockFailure(a, h) \/ RetryAfterFailure(a, h)
  BY <1>3, <1>7 DEF LockFailure, RetryAfterFailure
<1> QED
  BY <1>2, <1>4, <1>5, <1>6, <1>7 DEF CallStep, CallProgress

\* How a handler leaves its step, as seen by the invariants.
LEMMA AnswerShape ==
  ASSUME TypeOK, NEW w \in Handlers, Answer(w)
  PROVE  /\ \/ webhook'[w].pc = "idle"
            \/ webhook'[w].pc = "draining" /\ webhook'[w].event = webhook[w].event
         /\ \A v \in Handlers \ {w} : webhook'[v] = webhook[v]
<1>1. webhook[w] \in WebhookCall
  BY DEF TypeOK, WebhookCall
<1>2. /\ [webhook[w] EXCEPT !.pc = "draining"].pc = "draining"
      /\ [webhook[w] EXCEPT !.pc = "draining"].event = webhook[w].event
  BY <1>1 DEF WebhookCall
<1>3. webhook' = [webhook EXCEPT ![w] = webhook'[w]]
  BY DEF Answer, TypeOK
<1>4. webhook'[w] = [webhook[w] EXCEPT !.pc = "draining"] \/ webhook'[w] = IdleWebhook
  BY DEF Answer, TypeOK
<1>5. \A v \in Handlers \ {w} : webhook'[v] = webhook[v]
  BY <1>3 DEF TypeOK
<1>6. CASE webhook'[w] = [webhook[w] EXCEPT !.pc = "draining"]
  <2>1. webhook'[w].pc = "draining" /\ webhook'[w].event = webhook[w].event
    BY <1>2, <1>6, Zenon
  <2> QED
    BY <2>1, <1>5
<1>7. CASE webhook'[w] = IdleWebhook
  BY <1>5, <1>7 DEF IdleWebhook
<1> QED
  BY <1>4, <1>6, <1>7

LEMMA SettleShape ==
  ASSUME TypeOK, NEW w \in Handlers, NEW status, Settle(w, status)
  PROVE  /\ \/ webhook'[w].pc = "idle"
            \/ webhook'[w].pc = "draining" /\ webhook'[w].event = webhook[w].event
            \/ /\ status = "CONFIRMED"
               /\ webhook'[w].pc = "release"
               /\ webhook'[w].event = webhook[w].event
         /\ \A v \in Handlers \ {w} : webhook'[v] = webhook[v]
<1>1. webhook[w] \in WebhookCall
  BY DEF TypeOK, WebhookCall
<1>2. /\ [webhook[w] EXCEPT !.pc = "release"].pc = "release"
      /\ [webhook[w] EXCEPT !.pc = "release"].event = webhook[w].event
  BY <1>1 DEF WebhookCall
<1>3. CASE Answer(w)
  BY <1>3, AnswerShape
<1>4. CASE status = "CONFIRMED" /\ webhook' = [webhook EXCEPT ![w].pc = "release"]
  <2>1. webhook'[w] = [webhook[w] EXCEPT !.pc = "release"]
    BY <1>4 DEF TypeOK
  <2>2. \A v \in Handlers \ {w} : webhook'[v] = webhook[v]
    BY <1>4 DEF TypeOK
  <2> QED
    BY <1>2, <1>4, <2>1, <2>2
<1> QED
  BY <1>3, <1>4 DEF Settle

LEMMA LockedWebhookWrites ==
  ASSUME TypeOK, HandlerInv, NEW w \in Handlers, NEW e \in Events, WebhookStep(w, e)
  PROVE  WritesUnderLock
<1> USE CheckoutAssumption DEF dbVars
<1> DEFINE h == HoldOf[e]
<1>0. h \in Holds
  OBVIOUS
<1>1. ASSUME OwnerCommits(h),
             \A g \in Holds : booking'[g] # booking[g] => g = h,
             \A f \in Events : paymentEvent'[f] # paymentEvent[f] => f = e
      PROVE  WritesUnderLock
  BY <1>1 DEF WritesUnderLock
<1>2. CASE UNCHANGED <<booking, paymentEvent>>
  BY <1>2 DEF WritesUnderLock
<1>3. CASE Deliver(w, e) \/ DrainInbox(w, e)
  BY <1>3 DEF Deliver, DrainInbox, RecordEvent, WritesUnderLock, TypeOK
<1>4. CASE IgnoreSettled(w, e) \/ IgnoreFailure(w, e)
  <2>1. OwnerCommits(h)
    BY <1>4 DEF IgnoreSettled, IgnoreFailure, Fresh, Applying, OwnerCommits
  <2>2. UNCHANGED booking /\ MarkEvent(e, "IGNORED")
    BY <1>4 DEF IgnoreSettled, IgnoreFailure
  <2> QED
    BY <1>1, <2>1, <2>2 DEF MarkEvent, TypeOK
<1>5. CASE MarkLatePayment(w, e) \/ ReconcileConflict(w, e)
  <2>1. OwnerCommits(h)
    BY <1>5 DEF MarkLatePayment, ReconcileConflict, Fresh, Applying, OwnerCommits
  <2>2. RequireReconciliation(h) /\ MarkEvent(e, "PROCESSED")
    BY <1>5 DEF MarkLatePayment, ReconcileConflict
  <2> QED
    BY <1>1, <2>1, <2>2 DEF RequireReconciliation, MarkEvent, TypeOK
<1>6. CASE ExpireByEvent(w, e) \/ FailPayment(w, e)
  <2>1. OwnerCommits(h)
    BY <1>6 DEF ExpireByEvent, FailPayment, Fresh, Applying, OwnerCommits
  <2>2. MarkEvent(e, "PROCESSED") /\ \A g \in Holds : booking'[g] # booking[g] => g = h
    BY <1>6 DEF ExpireByEvent, ExpireBooking, FailPayment, TypeOK
  <2> QED
    BY <1>1, <2>1, <2>2 DEF MarkEvent, TypeOK
<1>7. CASE Fulfil(w, e)
  <2>1. Settle(w, "CONFIRMED") /\ HandlerLocks(w, h)
    BY <1>7 DEF Fulfil, In, HandlerLocks
  <2>2. OwnerCommits(h)
    BY <2>1, SettleShape DEF OwnerCommits
  <2>3. MarkEvent(e, "PROCESSED") /\ \A g \in Holds : booking'[g] # booking[g] => g = h
    BY <1>7 DEF Fulfil, TypeOK
  <2> QED
    BY <1>1, <2>2, <2>3 DEF MarkEvent, TypeOK
<1>8. CASE DropConflict(w, e)
  <2>1. OwnerCommits(h) /\ UNCHANGED booking
    BY <1>8 DEF DropConflict, OwnerCommits
  <2>2. UNCHANGED paymentEvent \/ MarkEvent(e, "IGNORED")
    BY <1>8 DEF DropConflict
  <2> QED
    BY <1>1, <2>1, <2>2 DEF MarkEvent, TypeOK
<1>9. CASE SkipHandled(w, e) \/ BeginFulfilment(w, e) \/ FulfilmentConflict(w, e)
  BY <1>2, <1>9 DEF SkipHandled, BeginFulfilment, FulfilmentConflict, eventVars
<1>10. CASE ReleaseSeats(w, e) \/ MarkDrained(w, e)
  BY <1>2, <1>10 DEF ReleaseSeats, MarkDrained, eventVars
<1> QED
  BY <1>3, <1>4, <1>5, <1>6, <1>7, <1>8, <1>9, <1>10 DEF WebhookStep, WebhookProgress

LEMMA WritesUnderLockStep ==
  ASSUME TypeOK, PaymentInv, HandlerInv, Next
  PROVE  WritesUnderLock
<1>1. CASE \E e \in Events : StoreUnmatched(e) \/ IgnoreInbox(e)
  BY <1>1, InboxFrame DEF WritesUnderLock
<1>2. CASE (\E a \in Calls : CrashCall(a)) \/ (\E w \in Handlers : CrashWebhook(w))
  BY <1>2, CrashFrame DEF WritesUnderLock, dbVars, eventVars
<1> QED
  BY <1>1, <1>2, LockedHoldWrites, LockedCallWrites, LockedWebhookWrites DEF Next

(***************************************************************************)
(* The lock has one owner: it is taken only when nobody has it.            *)
(***************************************************************************)
LEMMA HoldStepLocks ==
  ASSUME TypeOK, NEW h \in Holds, HoldStep(h)
  PROVE  /\ \A a \in Calls, g \in Holds : CallLocks(a, g)' <=> CallLocks(a, g)
         /\ \A w \in Handlers, g \in Holds : HandlerLocks(w, g)' <=> HandlerLocks(w, g)
         /\ \A g \in Holds : expiring'[g] # "no" =>
              expiring[g] # "no" \/ (~Locked(g) /\ booking[g] = "PENDING" /\ g \in overdue)
<1> USE DEF dbVars, envVars, procVars
<1>1. \A w \in Handlers, g \in Holds : HandlerLocks(w, g)' <=> HandlerLocks(w, g)
  BY HoldStepFrame DEF HandlerLocks
<1>2. CASE UNCHANGED <<call, expiring>>
  BY <1>1, <1>2 DEF CallLocks
<1>3. CASE LeasePasses(h)
  <2>1. ASSUME NEW a \in Calls, NEW g \in Holds
        PROVE  CallLocks(a, g)' <=> CallLocks(a, g)
    <3>1. CASE call[a].pc = "checkedStale" /\ call[a].hold = h
      <4>1. call[a] \in [pc: CallPc, hold: Holds \cup {NoHold}]
        BY DEF TypeOK
      <4>2. [call[a] EXCEPT !.pc = "checked"].pc = "checked"
        BY <4>1
      <4>3. call'[a] = [call[a] EXCEPT !.pc = "checked"]
        BY <1>3, <3>1 DEF LeasePasses
      <4>4. call'[a].pc = "checked"
        BY <4>2, <4>3, Zenon
      <4> QED
        BY <3>1, <4>4 DEF CallLocks
    <3>2. CASE ~(call[a].pc = "checkedStale" /\ call[a].hold = h)
      BY <1>3, <3>2 DEF LeasePasses, CallLocks
    <3> QED
      BY <3>1, <3>2
  <2>2. UNCHANGED expiring
    BY <1>3 DEF LeasePasses
  <2> QED
    BY <1>1, <2>1, <2>2
<1>4. CASE ReadExpired(h)
  BY <1>1, <1>4 DEF ReadExpired, CallLocks, TypeOK
<1>5. CASE CommitExpired(h) \/ CrashExpiry(h)
  BY <1>1, <1>5 DEF CommitExpired, CrashExpiry, CallLocks, TypeOK
<1>6. CASE AcquireHold(h) \/ ReleaseHold(h) \/ LapseHold(h) \/ DeadlinePasses(h)
  BY <1>2, <1>6 DEF AcquireHold, ReleaseHold, LapseHold, DeadlinePasses
<1>7. CASE \/ BeginCheckout(h) \/ CommitBooking(h) \/ AbandonCheckout(h)
           \/ ResolveReconciliation(h)
  BY <1>2, <1>7 DEF BeginCheckout, CommitBooking, AbandonCheckout, ResolveReconciliation
<1> QED
  BY <1>3, <1>4, <1>5, <1>6, <1>7 DEF HoldStep

(***************************************************************************)
(* A step of a call is its own, works for one booking, and locks it only   *)
(* when nobody does and the call still holds the claim.                    *)
(***************************************************************************)
CallMoves(a, h) ==
  /\ \A b \in Calls \ {a} : call'[b] = call[b]
  /\ call'[a].pc # "idle" => /\ call'[a].hold = h
                             /\ \/ call[a].pc # "idle" /\ call[a].hold = h
                                \/ booking[h] # "NONE"
  /\ call'[a].pc \in {"lateLocked", "failedLocked"} => ~Locked(h) /\ ~Superseded(a, h)
  /\ call'[a].pc = "late" => PersistMisses(a, h) \/ h \in overdue
  /\ call'[a].pc = "lateLocked" => At(a, h, "late")

LEMMA CallStepMoves ==
  ASSUME TypeOK, NEW a \in Calls, NEW h \in Holds, CallStep(a, h)
  PROVE  CallMoves(a, h)
<1> USE DEF TypeOK, Goto, EndCall, IdleCall, At, CallMoves
<1>1. CASE EnsureOnRequest(a, h) \/ RecoverProviderPayment(a, h)
  BY <1>1 DEF EnsureOnRequest, RecoverProviderPayment, ReadPayment
<1>2. CASE CallErrors(a, h) \/ ClaimAttempt(a, h) \/ LoseClaim(a, h)
  BY <1>2 DEF CallErrors, ClaimAttempt, LoseClaim
<1>3. CASE ProviderAccepts(a, h)
  BY <1>3 DEF ProviderAccepts
<1>4. CASE PersistReference(a, h) \/ PersistMisses(a, h)
  BY <1>4 DEF PersistReference, PersistMisses
<1>5. CASE LockLateReply(a, h)
  <2>1. CASE Superseded(a, h)
    BY <1>5, <2>1 DEF LockLateReply
  <2>2. CASE ~Superseded(a, h)
    BY <1>5, <2>2 DEF LockLateReply
  <2> QED
    BY <2>1, <2>2
<1>6. CASE LockFailure(a, h)
  <2>1. CASE Superseded(a, h)
    BY <1>6, <2>1 DEF LockFailure
  <2>2. CASE ~Superseded(a, h)
    BY <1>6, <2>2 DEF LockFailure
  <2> QED
    BY <2>1, <2>2
<1>7. CASE ReconcileLateReply(a, h) \/ RetryAfterFailure(a, h) \/ ReconcileFailure(a, h)
  BY <1>7 DEF ReconcileLateReply, RetryAfterFailure, ReconcileFailure
<1> QED
  BY <1>1, <1>2, <1>3, <1>4, <1>5, <1>6, <1>7 DEF CallStep, CallProgress

\* The webhook handlers: one moves, and it enters the lock only if it is free.
LEMMA WebhookStepMoves ==
  ASSUME TypeOK, NEW w \in Handlers, NEW e \in Events, WebhookStep(w, e)
  PROVE  /\ \A v \in Handlers \ {w} : webhook'[v] = webhook[v]
         /\ webhook'[w].pc # "idle" => webhook'[w].event = e
         /\ webhook'[w].pc = "fulfilling" => BeginFulfilment(w, e)
<1> USE DEF In
<1>0. webhook[w] \in WebhookCall
  BY DEF TypeOK, WebhookCall
<1>1. CASE Deliver(w, e) \/ DrainInbox(w, e)
  BY <1>1 DEF Deliver, DrainInbox, RecordEvent, TypeOK
<1>2. CASE BeginFulfilment(w, e)
  <2>1. webhook' = [webhook EXCEPT ![w].pc = "fulfilling"] /\ webhook[w].event = e
    BY <1>2 DEF BeginFulfilment, Fresh, Applying
  <2>2. webhook'[w] = [webhook[w] EXCEPT !.pc = "fulfilling"]
    BY <2>1 DEF TypeOK
  <2>3. [webhook[w] EXCEPT !.pc = "fulfilling"].event = webhook[w].event
    BY <1>0 DEF WebhookCall
  <2>4. webhook'[w].event = e
    BY <2>1, <2>2, <2>3, Zenon
  <2> QED
    BY <1>2, <2>1, <2>4 DEF TypeOK
<1>3. CASE FulfilmentConflict(w, e)
  <2>1. webhook' = [webhook EXCEPT ![w].pc = "conflict"] /\ webhook[w].event = e
    BY <1>3 DEF FulfilmentConflict
  <2>2. webhook'[w] = [webhook[w] EXCEPT !.pc = "conflict"]
    BY <2>1 DEF TypeOK
  <2>3. /\ [webhook[w] EXCEPT !.pc = "conflict"].event = webhook[w].event
        /\ [webhook[w] EXCEPT !.pc = "conflict"].pc = "conflict"
    BY <1>0 DEF WebhookCall
  <2>4. webhook'[w].event = e /\ webhook'[w].pc = "conflict"
    BY <2>1, <2>2, <2>3, Zenon
  <2> QED
    BY <2>1, <2>4 DEF TypeOK
<1>4. CASE SkipHandled(w, e) \/ IgnoreSettled(w, e) \/ Fulfil(w, e) \/ IgnoreFailure(w, e)
  <2>1. webhook[w].event = e /\ \E status : Settle(w, status)
    BY <1>4 DEF SkipHandled, IgnoreSettled, Fulfil, IgnoreFailure, Fresh, Applying
  <2> QED
    BY <2>1, SettleShape
<1>5. CASE \/ MarkLatePayment(w, e) \/ ReconcileConflict(w, e) \/ DropConflict(w, e)
           \/ ExpireByEvent(w, e) \/ FailPayment(w, e) \/ ReleaseSeats(w, e)
  <2>1. webhook[w].event = e /\ Answer(w)
    BY <1>5 DEF MarkLatePayment, ReconcileConflict, DropConflict, ExpireByEvent, FailPayment,
                ReleaseSeats, Fresh, Applying
  <2> QED
    BY <2>1, AnswerShape
<1>6. CASE MarkDrained(w, e)
  BY <1>6 DEF MarkDrained, IdleWebhook, TypeOK
<1> QED
  BY <1>1, <1>2, <1>3, <1>4, <1>5, <1>6 DEF WebhookStep, WebhookProgress

LEMMA LockInvStep ==
  ASSUME TypeOK, LockInv, Next
  PROVE  LockInv'
<1> USE CheckoutAssumption
<1>1. ASSUME NEW h \in Holds, HoldStep(h)
      PROVE  LockInv'
  BY <1>1, HoldStepLocks DEF LockInv, Locked
<1>2. ASSUME NEW a \in Calls, NEW h \in Holds, CallStep(a, h)
      PROVE  LockInv'
  <2>1. \A b \in Calls, g \in Holds :
          CallLocks(b, g)' => CallLocks(b, g) \/ (b = a /\ g = h /\ ~Locked(g))
    BY <1>2, CallStepMoves DEF CallMoves, CallLocks
  <2>2. UNCHANGED <<expiring, webhook>>
    BY <1>2, CallStepFrame
  <2> QED
    BY <2>1, <2>2 DEF LockInv, Locked, HandlerLocks
<1>3. ASSUME NEW w \in Handlers, NEW e \in Events, WebhookStep(w, e)
      PROVE  LockInv'
  <2>1. \A v \in Handlers, g \in Holds :
          HandlerLocks(v, g)' => HandlerLocks(v, g) \/ (v = w /\ g = HoldOf[e] /\ ~Locked(g))
    BY <1>3, WebhookStepMoves DEF HandlerLocks, BeginFulfilment, Fresh, Applying
  <2>2. UNCHANGED <<expiring, call>>
    BY <1>3, WebhookStepFrame
  <2> QED
    BY <2>1, <2>2 DEF LockInv, Locked, CallLocks
<1>4. CASE (\E a \in Calls : CrashCall(a)) \/ (\E w \in Handlers : CrashWebhook(w))
  <2>1. /\ \A a \in Calls, g \in Holds : CallLocks(a, g)' => CallLocks(a, g)
        /\ \A w \in Handlers, g \in Holds : HandlerLocks(w, g)' => HandlerLocks(w, g)
    <3>1. CASE \E a \in Calls : CrashCall(a)
      BY <3>1 DEF CrashCall, CallLocks, HandlerLocks, EndCall, IdleCall, TypeOK
    <3>2. CASE \E w \in Handlers : CrashWebhook(w)
      BY <3>2 DEF CrashWebhook, CallLocks, HandlerLocks, IdleWebhook, TypeOK
    <3> QED
      BY <1>4, <3>1, <3>2
  <2> QED
    BY <1>4, <2>1, CrashFrame DEF LockInv
<1>5. CASE \E e \in Events : StoreUnmatched(e) \/ IgnoreInbox(e)
  BY <1>5, InboxFrame DEF LockInv, CallLocks, HandlerLocks, procVars
<1> QED
  BY <1>1, <1>2, <1>3, <1>4, <1>5 DEF Next

LEMMA ExpiryInvStep ==
  ASSUME TypeOK, PaymentInv, LockInv, ExpiryInv, HandlerInv, Next
  PROVE  ExpiryInv'
<1> USE CheckoutAssumption
<1> SUFFICES ASSUME NEW g \in Holds, expiring'[g] # "no"
             PROVE  booking'[g] = "PENDING" /\ g \in overdue'
  BY DEF ExpiryInv
<1>1. CASE expiring[g] # "no"
  <2>1. booking[g] = "PENDING" /\ g \in overdue
    BY <1>1 DEF ExpiryInv
  <2>2. ~OwnerCommits(g)
    BY <1>1 DEF OwnerCommits, Locked, LockInv
  <2>3. booking'[g] = booking[g]
    BY <2>1, <2>2, WritesUnderLockStep DEF WritesUnderLock
  <2>4. g \in overdue'
    <3>1. ~\E h \in Holds : AbandonCheckout(h) /\ h = g
      BY <2>1 DEF AbandonCheckout, PaymentInv
    <3>2. ASSUME NEW h \in Holds, HoldStep(h)
          PROVE  overdue \subseteq overdue' \/ AbandonCheckout(h)
      BY <3>2 DEF HoldStep, AcquireHold, ReleaseHold, LapseHold, DeadlinePasses, LeasePasses,
                  BeginCheckout, CommitBooking, ReadExpired, CommitExpired, CrashExpiry,
                  ResolveReconciliation, envVars
    <3> QED
      BY <2>1, <3>1, <3>2, CallStepFrame, WebhookStepFrame, CrashFrame, InboxFrame
         DEF Next, envVars, AbandonCheckout
  <2> QED
    BY <2>1, <2>3, <2>4
<1>2. CASE expiring[g] = "no"
  <2>1. PICK h \in Holds : HoldStep(h)
    BY <1>2, CallStepFrame, WebhookStepFrame, CrashFrame, InboxFrame DEF Next, procVars
  <2>2. CASE ReadExpired(h)
    BY <1>2, <2>2 DEF ReadExpired, TypeOK, dbVars, envVars
  <2>3. CASE ~ReadExpired(h)
    BY <1>2, <2>1, <2>3
       DEF HoldStep, AcquireHold, ReleaseHold, LapseHold, DeadlinePasses, LeasePasses,
           BeginCheckout, CommitBooking, AbandonCheckout, CommitExpired, CrashExpiry,
           ResolveReconciliation, procVars, TypeOK
  <2> QED
    BY <2>2, <2>3
<1> QED
  BY <1>1, <1>2

(***************************************************************************)
(* A booking that has ended has ended for good: only a checkout that never *)
(* inserted its booking forgets its deadline.                              *)
(***************************************************************************)
LEMMA OverdueStays ==
  ASSUME PaymentInv, Next, NEW h \in Holds, booking[h] # "NONE", h \in overdue
  PROVE  h \in overdue'
<1>1. ASSUME NEW g \in Holds, HoldStep(g)
      PROVE  h \in overdue'
  <2>1. CASE AbandonCheckout(g)
    BY <2>1 DEF AbandonCheckout, PaymentInv
  <2> QED
    BY <1>1, <2>1
       DEF HoldStep, AcquireHold, ReleaseHold, LapseHold, DeadlinePasses, LeasePasses,
           BeginCheckout, CommitBooking, ReadExpired, CommitExpired, CrashExpiry,
           ResolveReconciliation, envVars
<1> QED
  BY <1>1, CallStepFrame, WebhookStepFrame, CrashFrame, InboxFrame DEF Next, envVars

LEMMA EndedStays ==
  ASSUME TypeOK, PaymentInv, ExpiryInv, CallInv, HandlerInv, Next,
         NEW h \in Holds, booking[h] # "NONE", Ended(h)
  PROVE  Ended(h)'
<1>1. CASE booking[h] # "PENDING"
  BY <1>1, AdvanceStep DEF Advance, RowAdvances, Ended
<1>2. CASE h \in overdue
  BY <1>2, OverdueStays DEF Ended
<1> QED
  BY <1>1, <1>2 DEF Ended

\* Nobody is given the claim on a payment but the call that takes it.
LEMMA ClaimIsOwn ==
  ASSUME TypeOK, Next, NEW b \in Calls, NEW g \in Holds,
         attemptId'[g] = b, attemptId[g] # b
  PROVE  call'[b].pc = "calling"
<1> USE CheckoutAssumption DEF TypeOK, dbVars, paymentVars
<1>1. ASSUME NEW h \in Holds, HoldStep(h)
      PROVE  UNCHANGED attemptId
  BY <1>1 DEF HoldStep, AcquireHold, ReleaseHold, LapseHold, DeadlinePasses, LeasePasses,
              BeginCheckout, CommitBooking, AbandonCheckout, ReadExpired, CommitExpired,
              CrashExpiry, ResolveReconciliation
<1>2. ASSUME NEW a \in Calls, NEW h \in Holds, CallStep(a, h)
      PROVE  call'[b].pc = "calling"
  <2>1. CASE ClaimAttempt(a, h)
    BY <2>1 DEF ClaimAttempt, Goto
  <2>2. CASE \A f \in Holds : attemptId'[f] \in {attemptId[f], NoCall}
    BY <2>2
  <2>3. CASE EnsureOnRequest(a, h) \/ RecoverProviderPayment(a, h) \/ CallErrors(a, h)
    BY <2>2, <2>3 DEF EnsureOnRequest, RecoverProviderPayment, ReadPayment, CallErrors
  <2>4. CASE LoseClaim(a, h) \/ ProviderAccepts(a, h) \/ PersistMisses(a, h)
    BY <2>2, <2>4 DEF LoseClaim, ProviderAccepts, PersistMisses
  <2>5. CASE PersistReference(a, h) \/ ReconcileLateReply(a, h)
    BY <2>2, <2>5 DEF PersistReference, SetReference, ReconcileLateReply
  <2>6. CASE RetryAfterFailure(a, h) \/ ReconcileFailure(a, h)
    BY <2>2, <2>6 DEF RetryAfterFailure, ReconcileFailure
  <2>7. CASE LockLateReply(a, h) \/ LockFailure(a, h)
    BY <2>2, <2>7 DEF LockLateReply, LockFailure
  <2> QED
    BY <1>2, <2>1, <2>3, <2>4, <2>5, <2>6, <2>7 DEF CallStep, CallProgress
<1> QED
  BY <1>1, <1>2, WebhookStepFrame, CrashFrame, InboxFrame DEF Next

\* A call that does not move is a call whose record is unchanged, or one whose
\* own time limit has passed.
LEMMA OtherCalls ==
  ASSUME TypeOK, Next, NEW b \in Calls
  PROVE  \/ call'[b] = call[b]
         \/ call'[b].pc = "idle"
         \/ /\ call[b].pc = "checkedStale"
            /\ call'[b].pc = "checked"
            /\ call'[b].hold = call[b].hold
         \/ \E h \in Holds : CallStep(b, h) /\ CallMoves(b, h)
<1>1. ASSUME NEW h \in Holds, HoldStep(h), ~LeasePasses(h)
      PROVE  UNCHANGED call
  BY <1>1 DEF HoldStep, AcquireHold, ReleaseHold, LapseHold, DeadlinePasses,
              BeginCheckout, CommitBooking, AbandonCheckout, ReadExpired, CommitExpired,
              CrashExpiry, ResolveReconciliation, procVars
<1>2. ASSUME NEW h \in Holds, LeasePasses(h), call'[b] # call[b]
      PROVE  /\ call[b].pc = "checkedStale"
             /\ call'[b].pc = "checked"
             /\ call'[b].hold = call[b].hold
  <2>1. call[b] \in [pc: CallPc, hold: Holds \cup {NoHold}]
    BY DEF TypeOK
  <2>2. /\ [call[b] EXCEPT !.pc = "checked"].pc = "checked"
        /\ [call[b] EXCEPT !.pc = "checked"].hold = call[b].hold
    BY <2>1
  <2>3. call[b].pc = "checkedStale" /\ call'[b] = [call[b] EXCEPT !.pc = "checked"]
    BY <1>2 DEF LeasePasses
  <2> QED
    BY <2>2, <2>3, Zenon
<1>3. ASSUME NEW a \in Calls, NEW h \in Holds, CallStep(a, h)
      PROVE  call'[b] = call[b] \/ (CallStep(b, h) /\ CallMoves(b, h))
  BY <1>3, CallStepMoves DEF CallMoves
<1>4. ASSUME NEW a \in Calls, CrashCall(a)
      PROVE  call'[b] = call[b] \/ call'[b].pc = "idle"
  BY <1>4 DEF CrashCall, EndCall, IdleCall, TypeOK
<1>5. ASSUME NEW w \in Handlers, CrashWebhook(w)
      PROVE  UNCHANGED call
  BY <1>5 DEF CrashWebhook
<1> QED
  BY <1>1, <1>2, <1>3, <1>4, <1>5, WebhookStepFrame, InboxFrame DEF Next, procVars

LEMMA LateReplyTooLateStep ==
  ASSUME TypeOK, PaymentInv, ExpiryInv, LateReplyTooLate, CallInv, HandlerInv, Next
  PROVE  LateReplyTooLate'
<1> USE CheckoutAssumption
<1> SUFFICES ASSUME NEW b \in Calls, NEW g \in Holds,
                    \/ At(b, g, "late")' /\ ~Superseded(b, g)'
                    \/ At(b, g, "lateLocked")'
             PROVE  Ended(g)'
  BY DEF LateReplyTooLate
<1>1. ASSUME At(b, g, "late")'
      PROVE  ~Superseded(b, g)
  <2>1. ~Superseded(b, g)' /\ call'[b].pc = "late"
    BY <1>1 DEF At
  <2>2. ~reference[g]
    BY <2>1, AdvanceStep DEF Superseded, Advance, RowAdvances
  <2>3. attemptId[g] = b
    BY <2>1, ClaimIsOwn DEF Superseded
  <2> QED
    BY <2>2, <2>3 DEF Superseded
<1>2. CASE call'[b] = call[b]
  <2>1. \/ At(b, g, "late") /\ ~Superseded(b, g)
        \/ At(b, g, "lateLocked")
    BY <1>1, <1>2 DEF At
  <2>2. Ended(g) /\ booking[g] # "NONE"
    BY <2>1 DEF LateReplyTooLate, CallInv, At
  <2> QED
    BY <2>2, EndedStays
<1>3. ASSUME NEW h \in Holds, CallStep(b, h), CallMoves(b, h)
      PROVE  Ended(g)'
  <2>1. h = g
    BY <1>3 DEF CallMoves, At
  <2>2. CASE At(b, g, "lateLocked")'
    <3>1. At(b, g, "late") /\ ~Superseded(b, g)
      BY <1>3, <2>1, <2>2 DEF CallMoves, At
    <3>2. Ended(g) /\ booking[g] # "NONE"
      BY <3>1 DEF LateReplyTooLate, CallInv, At
    <3> QED
      BY <3>2, EndedStays
  <2>3. CASE At(b, g, "late")'
    <3>1. PersistMisses(b, g) \/ g \in overdue
      BY <1>3, <2>1, <2>3 DEF CallMoves, At
    <3>2. ~reference[g] /\ attemptId[g] = b
      BY <1>1, <2>3 DEF Superseded
    <3>3. booking[g] # "NONE"
      BY <3>2 DEF PaymentInv
    <3>4. Ended(g)
      BY <3>1, <3>2 DEF PersistMisses, Matches, PaymentInv, Ended
    <3> QED
      BY <3>3, <3>4, EndedStays
  <2> QED
    BY <2>2, <2>3
<1> QED
  BY <1>2, <1>3, OtherCalls DEF At

LEMMA CallInvStep ==
  ASSUME TypeOK, PaymentInv, LockInv, ExpiryInv, CallInv, HandlerInv, Next
  PROVE  CallInv'
<1> USE CheckoutAssumption
<1> SUFFICES ASSUME NEW b \in Calls, call'[b].pc # "idle"
             PROVE  /\ call'[b].hold \in Holds
                    /\ booking'[call'[b].hold] # "NONE"
                    /\ call'[b].pc \in {"lateLocked", "failedLocked"}
                         => booking'[call'[b].hold] \in {"PENDING", "EXPIRED"}
  BY DEF CallInv
<1> DEFINE g == call'[b].hold
<1>1. CASE call'[b] = call[b]
  <2>1. g \in Holds /\ booking[g] # "NONE"
    BY <1>1 DEF CallInv
  <2>2. booking'[g] # "NONE"
    BY <2>1, AdvanceStep DEF Advance, RowAdvances
  <2>3. ASSUME call[b].pc \in {"lateLocked", "failedLocked"}
        PROVE  booking'[g] \in {"PENDING", "EXPIRED"}
    <3>1. booking[g] \in {"PENDING", "EXPIRED"} /\ CallLocks(b, g)
      BY <1>1, <2>3 DEF CallInv, CallLocks
    <3>2. ~OwnerCommits(g)
      BY <1>1, <2>1, <2>3, <3>1 DEF OwnerCommits, Locked, LockInv
    <3> QED
      BY <2>1, <3>1, <3>2, WritesUnderLockStep DEF WritesUnderLock
  <2> QED
    BY <1>1, <2>1, <2>2, <2>3
<1>2. CASE /\ call[b].pc = "checkedStale"
           /\ call'[b].pc = "checked"
           /\ call'[b].hold = call[b].hold
  <2>1. g \in Holds /\ booking[g] # "NONE"
    BY <1>2 DEF CallInv
  <2> QED
    BY <1>2, <2>1, AdvanceStep DEF Advance, RowAdvances
<1>3. ASSUME NEW h \in Holds, CallStep(b, h), CallMoves(b, h)
      PROVE  /\ g \in Holds
             /\ booking'[g] # "NONE"
             /\ call'[b].pc \in {"lateLocked", "failedLocked"}
                  => booking'[g] \in {"PENDING", "EXPIRED"}
  <2>1. g = h /\ booking[g] # "NONE"
    BY <1>3 DEF CallMoves, CallInv
  <2>2. booking'[g] # "NONE"
    BY <2>1, AdvanceStep DEF Advance, RowAdvances
  <2>3. ASSUME call'[b].pc \in {"lateLocked", "failedLocked"}
        PROVE  booking'[g] \in {"PENDING", "EXPIRED"}
    <3>1. attemptId[g] = b
      BY <1>3, <2>1, <2>3 DEF CallMoves, Superseded
    <3>2. payment[g] = "PROCESSING" \/ booking[g] = "EXPIRED"
      BY <2>1, <3>1 DEF PaymentInv
    <3>3. booking[g] \in {"PENDING", "EXPIRED"}
      BY <2>1, <3>2, PaymentRowOf DEF PaymentRow, PaymentsOf, TypeOK, BookingStatus
    <3>4. LockLateReply(b, h) \/ LockFailure(b, h)
      BY <1>3, <2>3
         DEF CallStep, CallProgress, EnsureOnRequest, RecoverProviderPayment, ReadPayment,
             CallErrors, ClaimAttempt, LoseClaim, ProviderAccepts, PersistReference,
             PersistMisses, ReconcileLateReply, RetryAfterFailure, ReconcileFailure,
             Goto, EndCall, IdleCall, TypeOK
    <3>5. UNCHANGED booking
      BY <3>4 DEF LockLateReply, LockFailure, dbVars
    <3> QED
      BY <3>3, <3>5
  <2> QED
    BY <2>1, <2>2, <2>3
<1> QED
  BY <1>1, <1>2, <1>3, OtherCalls

(***************************************************************************)
(* Handlers and events.                                                    *)
(***************************************************************************)
Disposed(e) == paymentEvent[e] \in {"PROCESSED", "IGNORED"}

\* A handler leaves the event it is about to answer for disposed of, and goes
\* on to release the hold only of a confirmed booking.
LEMMA AnswersForDisposed ==
  ASSUME TypeOK, HandlerInv, NEW w \in Handlers, NEW e \in Events, WebhookStep(w, e),
         webhook'[w].pc \in {"release", "draining"}
  PROVE  Disposed(e)' /\ (webhook'[w].pc = "release" => Confirmed(HoldOf[e])')
<1> USE CheckoutAssumption DEF dbVars, In
<1> DEFINE h == HoldOf[e]
<1>0. h \in Holds /\ webhook[w] \in WebhookCall
  BY DEF TypeOK, WebhookCall
<1>1. CASE SkipHandled(w, e)
  <2>1. paymentEvent[e] # "RECEIVED" /\ paymentEvent[e] # "NONE"
    BY <1>1 DEF SkipHandled, Applying, HandlerInv
  <2>2. Disposed(e)'
    BY <1>1, <2>1 DEF SkipHandled, Disposed, TypeOK, EventStatus, eventVars
  <2>3. webhook'[w].pc = "release" => Confirmed(h)'
    BY <1>1, SettleShape DEF SkipHandled, Confirmed
  <2> QED
    BY <2>2, <2>3
<1>2. CASE IgnoreSettled(w, e) \/ IgnoreFailure(w, e)
  <2>1. Disposed(e)'
    BY <1>2 DEF IgnoreSettled, IgnoreFailure, MarkEvent, Disposed, TypeOK
  <2>2. webhook'[w].pc = "release" => Confirmed(h)'
    BY <1>2, SettleShape DEF IgnoreSettled, IgnoreFailure, Confirmed
  <2> QED
    BY <2>1, <2>2
<1>3. CASE Fulfil(w, e)
  BY <1>0, <1>3 DEF Fulfil, MarkEvent, Disposed, Confirmed, TypeOK
<1>4. CASE \/ MarkLatePayment(w, e) \/ ReconcileConflict(w, e) \/ ExpireByEvent(w, e)
           \/ FailPayment(w, e)
  <2>1. Disposed(e)'
    BY <1>4 DEF MarkLatePayment, ReconcileConflict, ExpireByEvent, FailPayment, MarkEvent,
                Disposed, TypeOK
  <2>2. Answer(w)
    BY <1>4 DEF MarkLatePayment, ReconcileConflict, ExpireByEvent, FailPayment
  <2> QED
    BY <2>1, <2>2, AnswerShape
<1>5. CASE DropConflict(w, e)
  <2>1. paymentEvent[e] # "NONE"
    BY <1>5 DEF DropConflict, HandlerInv
  <2>2. Disposed(e)'
    BY <1>5, <2>1 DEF DropConflict, MarkEvent, Disposed, TypeOK, EventStatus
  <2>3. Answer(w)
    BY <1>5 DEF DropConflict
  <2> QED
    BY <2>2, <2>3, AnswerShape
<1>6. CASE ReleaseSeats(w, e)
  <2>1. Disposed(e)'
    BY <1>6 DEF ReleaseSeats, HandlerInv, Disposed, eventVars
  <2>2. Answer(w)
    BY <1>6 DEF ReleaseSeats
  <2> QED
    BY <2>1, <2>2, AnswerShape
<1>7. CASE Deliver(w, e) \/ DrainInbox(w, e) \/ MarkDrained(w, e)
  BY <1>7 DEF Deliver, DrainInbox, RecordEvent, MarkDrained, IdleWebhook, TypeOK
<1>8. CASE BeginFulfilment(w, e) \/ FulfilmentConflict(w, e)
  <2>1. \E pc \in {"fulfilling", "conflict"} : webhook' = [webhook EXCEPT ![w].pc = pc]
    BY <1>8 DEF BeginFulfilment, FulfilmentConflict
  <2>2. PICK pc \in {"fulfilling", "conflict"} : webhook'[w] = [webhook[w] EXCEPT !.pc = pc]
    BY <2>1 DEF TypeOK
  <2>3. [webhook[w] EXCEPT !.pc = pc].pc = pc
    BY <1>0 DEF WebhookCall
  <2>4. webhook'[w].pc = pc
    BY <2>2, <2>3, Zenon
  <2> QED
    BY <2>4
<1> QED
  BY <1>1, <1>2, <1>3, <1>4, <1>5, <1>6, <1>7, <1>8 DEF WebhookStep, WebhookProgress

LEMMA OtherHandlers ==
  ASSUME TypeOK, Next, NEW v \in Handlers
  PROVE  \/ webhook'[v] = webhook[v]
         \/ webhook'[v].pc = "idle"
         \/ \E e \in Events : WebhookStep(v, e)
<1>1. ASSUME NEW a \in Calls, CrashCall(a)
      PROVE  UNCHANGED webhook
  BY <1>1 DEF CrashCall
<1>2. ASSUME NEW w \in Handlers, CrashWebhook(w)
      PROVE  webhook'[v] = webhook[v] \/ webhook'[v].pc = "idle"
  BY <1>2 DEF CrashWebhook, IdleWebhook, TypeOK
<1> QED
  BY <1>1, <1>2, HoldStepFrame, CallStepFrame, InboxFrame, WebhookStepMoves DEF Next, procVars

LEMMA HandlerInvStep ==
  ASSUME TypeOK, PaymentInv, LockInv, ExpiryInv, CallInv, HandlerInv, Next
  PROVE  HandlerInv'
<1> USE CheckoutAssumption
<1> SUFFICES ASSUME NEW v \in Handlers, webhook'[v].pc # "idle"
             PROVE  LET e == webhook'[v].event IN
                    /\ e \in Events /\ e \notin Mismatched
                    /\ reference'[HoldOf[e]] /\ paymentEvent'[e] # "NONE"
                    /\ webhook'[v].pc = "fulfilling" =>
                         /\ KindOf[e] = "payment.succeeded"
                         /\ booking'[HoldOf[e]] = "PENDING"
                         /\ paymentEvent'[e] = "RECEIVED"
                    /\ webhook'[v].pc = "conflict" => KindOf[e] = "payment.succeeded"
                    /\ webhook'[v].pc = "release" => booking'[HoldOf[e]] = "CONFIRMED"
                    /\ webhook'[v].pc \in {"release", "draining"}
                         => paymentEvent'[e] \in {"PROCESSED", "IGNORED"}
  BY DEF HandlerInv, Confirmed
<1>1. Advance
  BY AdvanceStep
<1>2. CASE webhook'[v] = webhook[v]
  <2>0. PICK e \in Events : e = webhook[v].event
    BY <1>2 DEF HandlerInv
  <2> DEFINE h == HoldOf[e]
  <2>1. h \in Holds /\ e \notin Mismatched /\ reference[h] /\ paymentEvent[e] # "NONE"
    BY <1>2, <2>0 DEF HandlerInv
  <2>2. reference'[h] /\ paymentEvent'[e] # "NONE"
    BY <1>1, <2>1 DEF Advance, RowAdvances, EventAdvances
  <2>3. ASSUME webhook[v].pc = "fulfilling"
        PROVE  /\ KindOf[e] = "payment.succeeded"
               /\ booking'[h] = "PENDING"
               /\ paymentEvent'[e] = "RECEIVED"
    <3>1. /\ KindOf[e] = "payment.succeeded"
          /\ booking[h] = "PENDING"
          /\ paymentEvent[e] = "RECEIVED"
          /\ HandlerLocks(v, h)
      BY <2>0, <2>3 DEF HandlerInv, HandlerLocks
    <3>2. ~OwnerCommits(h)
      BY <1>2, <2>1, <2>3, <3>1 DEF OwnerCommits, Locked, LockInv
    <3> QED
      BY <2>1, <3>1, <3>2, WritesUnderLockStep DEF WritesUnderLock
  <2>4. webhook[v].pc = "conflict" => KindOf[e] = "payment.succeeded"
    BY <2>0 DEF HandlerInv
  <2>5. webhook[v].pc = "release" => booking'[h] = "CONFIRMED"
    BY <1>1, <2>0, <2>1 DEF HandlerInv, Confirmed, Advance, RowAdvances
  <2>6. webhook[v].pc \in {"release", "draining"} => paymentEvent'[e] \in {"PROCESSED", "IGNORED"}
    BY <1>1, <2>0 DEF HandlerInv, Advance, EventAdvances
  <2> QED
    BY <1>2, <2>0, <2>1, <2>2, <2>3, <2>4, <2>5, <2>6
<1>3. ASSUME NEW e \in Events, WebhookStep(v, e)
      PROVE  /\ webhook'[v].event = e
             /\ e \notin Mismatched
             /\ reference'[HoldOf[e]] /\ paymentEvent'[e] # "NONE"
             /\ webhook'[v].pc = "fulfilling" =>
                  /\ KindOf[e] = "payment.succeeded"
                  /\ booking'[HoldOf[e]] = "PENDING"
                  /\ paymentEvent'[e] = "RECEIVED"
             /\ webhook'[v].pc = "conflict" => KindOf[e] = "payment.succeeded"
             /\ webhook'[v].pc = "release" => booking'[HoldOf[e]] = "CONFIRMED"
             /\ webhook'[v].pc \in {"release", "draining"}
                  => paymentEvent'[e] \in {"PROCESSED", "IGNORED"}
  <2>1. webhook'[v].event = e
    BY <1>3, WebhookStepMoves
  <2>2. e \notin Mismatched /\ reference'[HoldOf[e]] /\ paymentEvent'[e] # "NONE"
    <3>1. CASE Deliver(v, e) \/ DrainInbox(v, e)
      BY <3>1 DEF Deliver, DrainInbox, RecordEvent, paymentVars, TypeOK
    <3>2. CASE WebhookProgress(v, e)
      <4>1. webhook[v].pc # "idle" /\ webhook[v].event = e
        BY <3>2 DEF WebhookProgress, SkipHandled, IgnoreSettled, MarkLatePayment,
                    BeginFulfilment, Fulfil, FulfilmentConflict, ReconcileConflict, DropConflict,
                    IgnoreFailure, ExpireByEvent, FailPayment, ReleaseSeats, MarkDrained, Fresh,
                    Applying, In
      <4>2. e \notin Mismatched /\ reference[HoldOf[e]] /\ paymentEvent[e] # "NONE"
        BY <4>1 DEF HandlerInv
      <4> QED
        BY <1>1, <4>2 DEF Advance, RowAdvances, EventAdvances
    <3> QED
      BY <1>3, <3>1, <3>2 DEF WebhookStep
  <2>3. ASSUME webhook'[v].pc = "fulfilling"
        PROVE  /\ KindOf[e] = "payment.succeeded"
               /\ booking'[HoldOf[e]] = "PENDING"
               /\ paymentEvent'[e] = "RECEIVED"
    BY <1>3, <2>3, WebhookStepMoves DEF BeginFulfilment, Fresh, Ended, dbVars, eventVars
  <2>4. ASSUME webhook'[v].pc = "conflict"
        PROVE  KindOf[e] = "payment.succeeded"
    <3>1. CASE FulfilmentConflict(v, e)
      BY <3>1 DEF FulfilmentConflict, In, HandlerInv
    <3>2. CASE BeginFulfilment(v, e)
      BY <3>2 DEF BeginFulfilment
    <3>3. CASE Deliver(v, e) \/ DrainInbox(v, e) \/ MarkDrained(v, e)
      BY <2>4, <3>3 DEF Deliver, DrainInbox, RecordEvent, MarkDrained, IdleWebhook, TypeOK
    <3>4. CASE SkipHandled(v, e) \/ IgnoreSettled(v, e) \/ Fulfil(v, e) \/ IgnoreFailure(v, e)
      BY <2>4, <3>4, SettleShape DEF SkipHandled, IgnoreSettled, Fulfil, IgnoreFailure
    <3>5. CASE \/ MarkLatePayment(v, e) \/ ReconcileConflict(v, e) \/ DropConflict(v, e)
               \/ ExpireByEvent(v, e) \/ FailPayment(v, e) \/ ReleaseSeats(v, e)
      BY <2>4, <3>5, AnswerShape
         DEF MarkLatePayment, ReconcileConflict, DropConflict, ExpireByEvent, FailPayment,
             ReleaseSeats
    <3> QED
      BY <1>3, <3>1, <3>2, <3>3, <3>4, <3>5 DEF WebhookStep, WebhookProgress
  <2>5. webhook'[v].pc \in {"release", "draining"}
          => Disposed(e)' /\ (webhook'[v].pc = "release" => Confirmed(HoldOf[e])')
    BY <1>3, AnswersForDisposed
  <2> USE DEF Disposed, Confirmed
  <2> QED
    BY <2>1, <2>2, <2>3, <2>4, <2>5
<1> QED
  BY <1>2, <1>3, OtherHandlers

LEMMA EventInvStep ==
  ASSUME TypeOK, PaymentInv, EventInv, ExpiryInv, CallInv, HandlerInv, Next
  PROVE  EventInv'
<1> USE CheckoutAssumption
<1>1. Advance
  BY AdvanceStep
<1>2. ASSUME NEW e \in Events, KindOf[e] = "payment.succeeded", Disposed(e)',
             ~(Confirmed(HoldOf[e]) \/ reconciliation[HoldOf[e]] # "NONE")
      PROVE  Confirmed(HoldOf[e])' \/ reconciliation'[HoldOf[e]] # "NONE"
  <2> DEFINE h == HoldOf[e]
  <2>1. h \in Holds /\ PaymentRow(h)
    BY PaymentRowOf
  <2>2. ~Disposed(e)
    BY <1>2 DEF EventInv, CaptureAccounted, Disposed
  <2>3. ~Settled(h)
    BY <1>2, <2>1 DEF Settled, PaymentRow, PaymentsOf, TypeOK, BookingStatus, Confirmed
  <2>4. PICK w \in Handlers, f \in Events : WebhookStep(w, f)
    <3>1. CASE UNCHANGED paymentEvent
      BY <1>2, <2>2, <3>1 DEF Disposed
    <3> QED
      BY <3>1, HoldStepFrame, CallStepFrame, CrashFrame, InboxFrame DEF Next, dbVars, eventVars
  <2>5. CASE MarkLatePayment(w, f) \/ ReconcileConflict(w, f)
    <3>1. f = e
      BY <1>2, <2>2, <2>5 DEF MarkLatePayment, ReconcileConflict, MarkEvent, Disposed, TypeOK
    <3> QED
      BY <2>1, <2>5, <3>1 DEF MarkLatePayment, ReconcileConflict, RequireReconciliation, TypeOK
  <2>6. CASE Fulfil(w, f)
    <3>1. f = e
      BY <1>2, <2>2, <2>6 DEF Fulfil, MarkEvent, Disposed, TypeOK
    <3> QED
      BY <2>1, <2>6, <3>1 DEF Fulfil, Confirmed, TypeOK
  <2>7. CASE IgnoreSettled(w, f) \/ IgnoreFailure(w, f) \/ ExpireByEvent(w, f) \/ FailPayment(w, f)
    <3>1. f = e
      BY <1>2, <2>2, <2>7
         DEF IgnoreSettled, IgnoreFailure, ExpireByEvent, FailPayment, MarkEvent, Disposed, TypeOK
    <3> QED
      BY <1>2, <2>3, <2>7, <3>1 DEF IgnoreSettled, IgnoreFailure, ExpireByEvent, FailPayment
  <2>8. CASE DropConflict(w, f)
    <3>1. f = e /\ (booking[h] = "CONFIRMED" \/ payment[h] = "SUCCEEDED")
      BY <1>2, <2>2, <2>8 DEF DropConflict, MarkEvent, Disposed, TypeOK
    <3> QED
      BY <2>3, <3>1 DEF Settled
  <2>9. CASE Deliver(w, f) \/ DrainInbox(w, f)
    BY <1>2, <2>2, <2>9 DEF Deliver, DrainInbox, RecordEvent, Disposed, TypeOK
  <2>10. CASE \/ SkipHandled(w, f) \/ BeginFulfilment(w, f) \/ FulfilmentConflict(w, f)
              \/ ReleaseSeats(w, f) \/ MarkDrained(w, f)
    BY <1>2, <2>2, <2>10
       DEF SkipHandled, BeginFulfilment, FulfilmentConflict, ReleaseSeats, MarkDrained, dbVars,
           eventVars, Disposed
  <2> QED
    BY <2>4, <2>5, <2>6, <2>7, <2>8, <2>9, <2>10 DEF WebhookStep, WebhookProgress
<1>3. ASSUME NEW e \in Events, Confirmed(HoldOf[e]) \/ reconciliation[HoldOf[e]] # "NONE"
      PROVE  Confirmed(HoldOf[e])' \/ reconciliation'[HoldOf[e]] # "NONE"
  <2>1. RowAdvances(HoldOf[e])
    BY <1>1 DEF Advance
  <2> QED
    BY <1>3, <2>1 DEF RowAdvances, Confirmed
<1>4. CaptureAccounted'
  BY <1>2, <1>3 DEF CaptureAccounted, Disposed
\* An event that is not the payment's is never recorded.
<1>5. ASSUME NEW e \in Mismatched
      PROVE  paymentEvent'[e] = "NONE"
  <2>1. paymentEvent[e] = "NONE"
    BY DEF EventInv
  <2>2. ASSUME NEW w \in Handlers, NEW f \in Events, WebhookStep(w, f)
        PROVE  paymentEvent'[e] = paymentEvent[e]
    <3>1. CASE Deliver(w, f) \/ DrainInbox(w, f)
      BY <3>1 DEF Deliver, DrainInbox, RecordEvent, TypeOK
    <3>2. CASE WebhookProgress(w, f)
      <4>1. f \notin Mismatched
        BY <3>2 DEF HandlerInv, WebhookProgress, SkipHandled, IgnoreSettled, MarkLatePayment,
                    BeginFulfilment, Fulfil, FulfilmentConflict, ReconcileConflict, DropConflict,
                    IgnoreFailure, ExpireByEvent, FailPayment, ReleaseSeats, MarkDrained, Fresh,
                    Applying, In
      <4>2. UNCHANGED paymentEvent \/ \E status : MarkEvent(f, status)
        BY <3>2 DEF WebhookProgress, SkipHandled, IgnoreSettled, MarkLatePayment,
                    BeginFulfilment, Fulfil, FulfilmentConflict, ReconcileConflict, DropConflict,
                    IgnoreFailure, ExpireByEvent, FailPayment, ReleaseSeats, MarkDrained,
                    dbVars, eventVars
      <4> QED
        BY <4>1, <4>2 DEF MarkEvent, TypeOK
    <3> QED
      BY <2>2, <3>1, <3>2 DEF WebhookStep
  <2> QED
    BY <2>1, <2>2, HoldStepFrame, CallStepFrame, CrashFrame, InboxFrame DEF Next, dbVars, eventVars
\* Who writes the inbox row of an event.
<1>6. ASSUME NEW e \in Events, inbox'[e] # inbox[e]
      PROVE  \/ inbox'[e] = "RECEIVED"
             \/ inbox'[e] = "IGNORED" /\ e \in Mismatched
             \/ inbox'[e] = "PROCESSED" /\ Disposed(e)
  <2>1. ASSUME NEW f \in Events, StoreUnmatched(f) \/ IgnoreInbox(f)
        PROVE  inbox'[e] = "RECEIVED" \/ (inbox'[e] = "IGNORED" /\ e \in Mismatched)
    BY <1>6, <2>1 DEF StoreUnmatched, IgnoreInbox, TypeOK
  <2>2. ASSUME NEW w \in Handlers, NEW f \in Events, WebhookStep(w, f)
        PROVE  inbox'[e] = "PROCESSED" /\ Disposed(e)
    <3>1. CASE MarkDrained(w, f)
      <4>1. Disposed(f)
        BY <3>1 DEF MarkDrained, In, HandlerInv, Disposed
      <4> QED
        BY <1>6, <3>1, <4>1 DEF MarkDrained, TypeOK
    <3>2. CASE ~MarkDrained(w, f)
      <4>1. UNCHANGED inbox
        BY <2>2, <3>2
           DEF WebhookStep, WebhookProgress, Deliver, DrainInbox, RecordEvent, SkipHandled,
               IgnoreSettled, MarkLatePayment, BeginFulfilment, Fulfil, FulfilmentConflict,
               ReconcileConflict, DropConflict, IgnoreFailure, ExpireByEvent, FailPayment,
               ReleaseSeats, dbVars, eventVars
      <4> QED
        BY <1>6, <4>1
    <3> QED
      BY <3>1, <3>2
  <2> QED
    BY <1>6, <2>1, <2>2, HoldStepFrame, CallStepFrame, CrashFrame DEF Next, dbVars, eventVars
<1>7. InboxFollowsEvent'
  <2> SUFFICES ASSUME NEW e \in Events
               PROVE  /\ inbox'[e] = "PROCESSED" => Disposed(e)'
                      /\ inbox'[e] = "IGNORED" => e \in Mismatched /\ paymentEvent'[e] = "NONE"
    BY DEF InboxFollowsEvent, Disposed
  <2>1. Disposed(e) => Disposed(e)'
    BY <1>1 DEF Advance, EventAdvances, Disposed
  <2>2. CASE inbox'[e] = inbox[e]
    BY <1>5, <2>1, <2>2 DEF EventInv, InboxFollowsEvent, Disposed
  <2>3. CASE inbox'[e] # inbox[e]
    BY <1>5, <1>6, <2>1, <2>3
  <2> QED
    BY <2>2, <2>3
<1> QED
  BY <1>4, <1>5, <1>7 DEF EventInv

(***************************************************************************)
(* The invariant.                                                          *)
(***************************************************************************)
LEMMA InitCheckoutInv == Init => CheckoutInv
<1> SUFFICES ASSUME Init
             PROVE  CheckoutInv
  OBVIOUS
<1> USE HoldsAssumption, CheckoutAssumption DEF Init, HoldInit
<1>1. TypeOK
  BY InitTypeOK
<1>2. HoldInv
  BY DEF HoldInv, BrokenHoldOnlyForSoldSeats
<1>3. SaleInv
  BY DEF SaleInv, SalesLedger, SeatsSoldOnce, Confirmed
<1>4. CapacityKept
  <2>1. \A t \in TicketTypes : SoldSeats(t) = {}
    BY DEF SoldSeats
  <2>2. Cardinality({}) = 0
    BY FS_EmptySet, Zenon
  <2>3. \A t \in TicketTypes : Cardinality(SoldSeats(t)) = 0
    BY <2>1, <2>2
  <2> HIDE DEF Init
  <2>4. \A t \in TicketTypes : soldQuantity[t] = 0 /\ Capacity[t] \in Nat
    BY DEF Init
  <2> QED
    BY <2>3, <2>4 DEF CapacityKept
<1>5. PaymentInv
  BY DEF PaymentInv, PaymentAgreesWithBooking, PaymentsOf, ReconciliationExists, AttemptFence
<1>6. EventInv
  BY DEF EventInv, CaptureAccounted, InboxFollowsEvent
<1>7. LockInv /\ ExpiryInv
  BY DEF LockInv, ExpiryInv, CallLocks, HandlerLocks, IdleCall, IdleWebhook
<1>8. LateReplyTooLate /\ CallInv /\ HandlerInv
  BY DEF LateReplyTooLate, At, CallInv, HandlerInv, IdleCall, IdleWebhook
<1> QED
  BY <1>1, <1>2, <1>3, <1>4, <1>5, <1>6, <1>7, <1>8 DEF CheckoutInv

LEMMA CheckoutInvStep == CheckoutInv /\ [Next]_vars => CheckoutInv'
<1>1. ASSUME CheckoutInv, Next
      PROVE  CheckoutInv'
  <2>1. TypeOK'
    BY <1>1, TypeOKStep DEF CheckoutInv
  <2>2. HoldInv' /\ SaleInv' /\ CapacityKept'
    BY <1>1, HoldInvStep, SaleInvStep, CapacityStep DEF CheckoutInv
  <2>3. PaymentInv' /\ EventInv'
    BY <1>1, PaymentInvStep, EventInvStep DEF CheckoutInv
  <2>4. LockInv' /\ ExpiryInv'
    BY <1>1, LockInvStep, ExpiryInvStep DEF CheckoutInv
  <2>5. LateReplyTooLate' /\ CallInv' /\ HandlerInv'
    BY <1>1, LateReplyTooLateStep, CallInvStep, HandlerInvStep DEF CheckoutInv
  <2> QED
    BY <2>1, <2>2, <2>3, <2>4, <2>5 DEF CheckoutInv
<1>2. ASSUME CheckoutInv, UNCHANGED vars
      PROVE  CheckoutInv'
  <2> USE <1>2 DEF CheckoutInv, vars, holdVars, dbVars, saleVars, paymentVars, eventVars, envVars,
                   procVars
  <2>1. TypeOK'
    BY TypeOKStep
  <2>2. HoldInv'
    BY DEF HoldInv, BrokenHoldOnlyForSoldSeats
  <2>3. SaleInv'
    BY DEF SaleInv, SalesLedger, SeatsSoldOnce, Confirmed
  <2>4. CapacityKept'
    BY DEF CapacityKept, SoldSeats
  <2>5. PaymentInv'
    BY DEF PaymentInv, PaymentAgreesWithBooking, ReconciliationExists, AttemptFence
  <2>6. EventInv'
    BY DEF EventInv, CaptureAccounted, InboxFollowsEvent, Confirmed
  <2>7. LockInv'
    BY DEF LockInv, CallLocks, HandlerLocks
  <2>8. ExpiryInv' /\ CallInv'
    BY DEF ExpiryInv, CallInv
  <2>9. LateReplyTooLate'
    BY DEF LateReplyTooLate, At, Superseded, Ended
  <2>10. HandlerInv'
    BY DEF HandlerInv, Confirmed
  <2> QED
    BY <2>1, <2>2, <2>3, <2>4, <2>5, <2>6, <2>7, <2>8, <2>9, <2>10
<1> QED
  BY <1>1, <1>2

(***************************************************************************)
(* The strengthened invariant holds in every reachable state: what the     *)
(* tables say to each other, and what each process may rely on between two *)
(* of its steps.                                                           *)
(***************************************************************************)
THEOREM CheckoutInvariant == Spec => []CheckoutInv
BY InitCheckoutInv, CheckoutInvStep, PTL DEF Spec

(***************************************************************************)
(* applyPaymentWebhook() never sells a seat twice.                         *)
(***************************************************************************)
THEOREM NoSeatSoldTwice == Spec => []SeatsSoldOnce
<1>1. CheckoutInv => SeatsSoldOnce
  BY DEF CheckoutInv, SaleInv
<1> QED
  BY <1>1, CheckoutInvariant, PTL

(***************************************************************************)
(* Seats, tickets, bookings and the outbox tell the same story.            *)
(***************************************************************************)
THEOREM LedgerAgrees == Spec => []SalesLedger
<1>1. CheckoutInv => SalesLedger
  BY DEF CheckoutInv, SaleInv
<1> QED
  BY <1>1, CheckoutInvariant, PTL

(***************************************************************************)
(* soldQuantity counts the seats sold and stays within the capacity.       *)
(***************************************************************************)
THEOREM NeverOversold == Spec => []CapacityKept
<1>1. CheckoutInv => CapacityKept
  BY DEF CheckoutInv
<1> QED
  BY <1>1, CheckoutInvariant, PTL

(***************************************************************************)
(* releaseConfirmedHold() breaks only holds whose seats are sold.          *)
(***************************************************************************)
THEOREM OnlySoldSeatsAreTaken == Spec => []BrokenHoldOnlyForSoldSeats
<1>1. CheckoutInv => BrokenHoldOnlyForSoldSeats
  BY DEF CheckoutInv, HoldInv
<1> QED
  BY <1>1, CheckoutInvariant, PTL

(***************************************************************************)
(* The two statuses a webhook, a provider call and the worker all write    *)
(* agree: tickets for money taken, and for nothing else.                   *)
(***************************************************************************)
THEOREM StatusesAgree == Spec => []PaymentAgreesWithBooking
<1>1. CheckoutInv => PaymentAgreesWithBooking
  BY DEF CheckoutInv, PaymentInv
<1> QED
  BY <1>1, CheckoutInvariant, PTL

(***************************************************************************)
(* Every late path leaves the payment it gives up with the one row an      *)
(* operator finds it by.                                                   *)
(***************************************************************************)
THEOREM OperatorsFindPayments == Spec => []ReconciliationExists
<1>1. CheckoutInv => ReconciliationExists
  BY DEF CheckoutInv, PaymentInv
<1> QED
  BY <1>1, CheckoutInvariant, PTL

(***************************************************************************)
(* So the three rows of a booking tell an operator one story, whichever of *)
(* the five places that write them ran last.                               *)
(***************************************************************************)
THEOREM TablesAlwaysAgree == Spec => []TablesAgree
BY StatusesAgree, OperatorsFindPayments, PTL DEF TablesAgree

(***************************************************************************)
(* A claim lasts until the reference it was taken for is stored: what      *)
(* claimProviderPaymentAttempt() and persistProviderPayment() guard.       *)
(***************************************************************************)
THEOREM ClaimsFenced == Spec => []AttemptFence
<1>1. CheckoutInv => AttemptFence
  BY DEF CheckoutInv, PaymentInv
<1> QED
  BY <1>1, CheckoutInvariant, PTL

(***************************************************************************)
(* A capture the API has disposed of gave the seats or a reconciliation.   *)
(***************************************************************************)
THEOREM CapturesAccounted == Spec => []CaptureAccounted
<1>1. CheckoutInv => CaptureAccounted
  BY DEF CheckoutInv, EventInv
<1> QED
  BY <1>1, CheckoutInvariant, PTL

(***************************************************************************)
(* The inbox never runs ahead of the events it stores.                     *)
(***************************************************************************)
THEOREM InboxAfterEvent == Spec => []InboxFollowsEvent
<1>1. CheckoutInv => InboxFollowsEvent
  BY DEF CheckoutInv, EventInv
<1> QED
  BY <1>1, CheckoutInvariant, PTL

(***************************************************************************)
(* The slow path of a provider reply only meets bookings that have ended:  *)
(* its branch for a booking still in time is never taken.                  *)
(***************************************************************************)
THEOREM LateRepliesTooLate == Spec => []LateReplyTooLate
<1>1. CheckoutInv => LateReplyTooLate
  BY DEF CheckoutInv
<1> QED
  BY <1>1, CheckoutInvariant, PTL

(***************************************************************************)
(* Actions.                                                                *)
(***************************************************************************)
\* Nothing settled is undone by what arrives late.
THEOREM OutcomesAreFinal == Spec => OutcomesStick
<1>1. CheckoutInv /\ [Next]_vars => [SettledStays]_vars
  <2>1. ASSUME CheckoutInv, Next
        PROVE  SettledStays
    BY <2>1, AdvanceStep DEF CheckoutInv, Advance, RowAdvances, EventAdvances, SettledStays
  <2> QED
    BY <2>1
<1> QED
  BY <1>1, CheckoutInvariant, PTL DEF Spec, OutcomesStick

\* What a step of the checkout does to bookings.
LEMMA OneBookingEnds ==
  ASSUME CheckoutInv, Next
  PROVE  \/ \A h \in Holds : \/ booking'[h] = booking[h]
                             \/ booking[h] = "NONE" /\ booking'[h] = "PENDING"
         \/ \E h \in Holds : /\ booking[h] = "PENDING"
                             /\ booking'[h] \in {"EXPIRED", "PAYMENT_FAILED"}
                             /\ \A g \in Holds \ {h} : booking'[g] = booking[g]
                             /\ UNCHANGED tickets
         \/ \E w \in Handlers, e \in Events : Fulfil(w, e)
<1> USE CheckoutAssumption DEF CheckoutInv, TypeOK
<1> DEFINE Stutter == \A h \in Holds : \/ booking'[h] = booking[h]
                                       \/ booking[h] = "NONE" /\ booking'[h] = "PENDING"
           Ends(h) == /\ booking[h] = "PENDING"
                      /\ booking'[h] \in {"EXPIRED", "PAYMENT_FAILED"}
                      /\ \A g \in Holds \ {h} : booking'[g] = booking[g]
<1>1. ASSUME NEW h \in Holds, RequireReconciliation(h)
      PROVE  Stutter \/ Ends(h)
  BY <1>1 DEF RequireReconciliation
<1>2. ASSUME NEW h \in Holds, HoldStep(h)
      PROVE  Stutter \/ Ends(h)
  <2>1. CASE CommitBooking(h)
    BY <2>1 DEF CommitBooking, PaymentInv
  <2>2. CASE CommitExpired(h)
    BY <2>2 DEF CommitExpired, ExpireBooking, ExpiryInv
  <2> QED
    BY <1>2, <2>1, <2>2, HoldStepFrame
<1>3. ASSUME NEW a \in Calls, NEW h \in Holds, CallStep(a, h)
      PROVE  Stutter \/ Ends(h)
  <2>1. CASE ReconcileLateReply(a, h) \/ ReconcileFailure(a, h)
    BY <1>1, <2>1 DEF ReconcileLateReply, ReconcileFailure
  <2>2. CASE UNCHANGED booking
    BY <2>2
  <2>3. CASE EnsureOnRequest(a, h) \/ RecoverProviderPayment(a, h) \/ CallErrors(a, h)
    BY <2>2, <2>3 DEF EnsureOnRequest, RecoverProviderPayment, ReadPayment, CallErrors, dbVars
  <2>4. CASE ClaimAttempt(a, h) \/ LoseClaim(a, h) \/ ProviderAccepts(a, h)
    BY <2>2, <2>4 DEF ClaimAttempt, LoseClaim, ProviderAccepts, dbVars
  <2>5. CASE PersistReference(a, h) \/ PersistMisses(a, h) \/ LockLateReply(a, h)
    BY <2>2, <2>5 DEF PersistReference, PersistMisses, LockLateReply, dbVars
  <2>6. CASE LockFailure(a, h) \/ RetryAfterFailure(a, h)
    BY <2>2, <2>6 DEF LockFailure, RetryAfterFailure, dbVars
  <2> QED
    BY <1>3, <2>1, <2>3, <2>4, <2>5, <2>6 DEF CallStep, CallProgress
<1>4. ASSUME NEW w \in Handlers, NEW e \in Events, WebhookStep(w, e), ~Fulfil(w, e)
      PROVE  Stutter \/ Ends(HoldOf[e])
  <2>1. HoldOf[e] \in Holds
    OBVIOUS
  <2>2. CASE MarkLatePayment(w, e) \/ ReconcileConflict(w, e)
    BY <1>1, <2>1, <2>2 DEF MarkLatePayment, ReconcileConflict
  <2>3. CASE ExpireByEvent(w, e) \/ FailPayment(w, e)
    BY <2>1, <2>3 DEF ExpireByEvent, ExpireBooking, FailPayment
  <2>4. CASE UNCHANGED booking
    BY <2>4
  <2>5. CASE Deliver(w, e) \/ DrainInbox(w, e)
    BY <2>4, <2>5 DEF Deliver, DrainInbox, RecordEvent
  <2>6. CASE SkipHandled(w, e) \/ IgnoreSettled(w, e) \/ BeginFulfilment(w, e)
    BY <2>4, <2>6 DEF SkipHandled, IgnoreSettled, BeginFulfilment, dbVars
  <2>7. CASE FulfilmentConflict(w, e) \/ DropConflict(w, e) \/ IgnoreFailure(w, e)
    BY <2>4, <2>7 DEF FulfilmentConflict, DropConflict, IgnoreFailure, dbVars
  <2>8. CASE ReleaseSeats(w, e) \/ MarkDrained(w, e)
    BY <2>4, <2>8 DEF ReleaseSeats, MarkDrained, dbVars
  <2> QED
    BY <1>4, <2>2, <2>3, <2>5, <2>6, <2>7, <2>8 DEF WebhookStep, WebhookProgress
<1>5. CASE (\E a \in Calls : CrashCall(a)) \/ (\E w \in Handlers : CrashWebhook(w))
  BY <1>5, CrashFrame DEF dbVars
<1>6. CASE \E e \in Events : StoreUnmatched(e) \/ IgnoreInbox(e)
  BY <1>6, InboxFrame
<1>7. UNCHANGED tickets \/ \E w \in Handlers, e \in Events : Fulfil(w, e)
  BY HoldStepFrame, CallStepFrame, CrashFrame, InboxFrame, WebhookStepFrame
     DEF Next, dbVars, saleVars
<1> HIDE DEF CheckoutInv, TypeOK
<1> QED
  BY <1>2, <1>3, <1>4, <1>5, <1>6, <1>7 DEF Next

\* A pending booking ends without a sale only in a step of its own deadline or
\* of an event about it.
LEMMA GivenUpStep ==
  ASSUME CheckoutInv, Next
  PROVE  GivenUpInTime
<1> USE HoldsAssumption, CheckoutAssumption DEF CheckoutInv, TypeOK
<1> SUFFICES ASSUME NEW g \in Holds, booking[g] = "PENDING", booking'[g] = "EXPIRED",
                    g \notin overdue
             PROVE  \E e \in Events : /\ HoldOf[e] = g
                                     /\ paymentEvent[e] = "RECEIVED"
                                     /\ paymentEvent'[e] = "PROCESSED"
  BY DEF GivenUpInTime
<1>1. ASSUME NEW h \in Holds, HoldStep(h)
      PROVE  FALSE
  <2>1. CASE CommitBooking(h)
    BY <2>1 DEF CommitBooking
  <2>2. CASE CommitExpired(h)
    <3>1. h = g
      BY <2>2 DEF CommitExpired, ExpireBooking
    <3> QED
      BY <2>2, <3>1 DEF CommitExpired, ExpiryInv
  <2> QED
    BY <1>1, <2>1, <2>2, HoldStepFrame
<1>2. ASSUME NEW a \in Calls, NEW h \in Holds, CallStep(a, h)
      PROVE  FALSE
  <2>1. CASE ReconcileLateReply(a, h)
    <3>1. h = g
      BY <2>1 DEF ReconcileLateReply, RequireReconciliation
    <3>2. Ended(g)
      BY <2>1, <3>1 DEF ReconcileLateReply, LateReplyTooLate
    <3> QED
      BY <3>2 DEF Ended
  <2>2. CASE ReconcileFailure(a, h)
    <3>1. h = g
      BY <2>2 DEF ReconcileFailure, RequireReconciliation
    <3> QED
      BY <2>2, <3>1 DEF ReconcileFailure, Ended
  <2>3. CASE UNCHANGED booking
    BY <2>3
  <2>4. CASE EnsureOnRequest(a, h) \/ RecoverProviderPayment(a, h) \/ CallErrors(a, h)
    BY <2>3, <2>4 DEF EnsureOnRequest, RecoverProviderPayment, ReadPayment, CallErrors, dbVars
  <2>5. CASE ClaimAttempt(a, h) \/ LoseClaim(a, h) \/ ProviderAccepts(a, h)
    BY <2>3, <2>5 DEF ClaimAttempt, LoseClaim, ProviderAccepts, dbVars
  <2>6. CASE PersistReference(a, h) \/ PersistMisses(a, h) \/ LockLateReply(a, h)
    BY <2>3, <2>6 DEF PersistReference, PersistMisses, LockLateReply, dbVars
  <2>7. CASE LockFailure(a, h) \/ RetryAfterFailure(a, h)
    BY <2>3, <2>7 DEF LockFailure, RetryAfterFailure, dbVars
  <2> QED
    BY <1>2, <2>1, <2>2, <2>4, <2>5, <2>6, <2>7 DEF CallStep, CallProgress
<1>3. ASSUME NEW w \in Handlers, NEW e \in Events, WebhookStep(w, e)
      PROVE  HoldOf[e] = g /\ paymentEvent[e] = "RECEIVED" /\ paymentEvent'[e] = "PROCESSED"
  <2>1. CASE MarkLatePayment(w, e) \/ ReconcileConflict(w, e)
    <3>1. HoldOf[e] = g
      BY <2>1 DEF MarkLatePayment, ReconcileConflict, RequireReconciliation
    <3> QED
      BY <2>1, <3>1 DEF MarkLatePayment, Fresh, ReconcileConflict, MarkEvent
  <2>2. CASE ExpireByEvent(w, e)
    <3>1. HoldOf[e] = g
      BY <2>2 DEF ExpireByEvent, ExpireBooking
    <3> QED
      BY <2>2, <3>1 DEF ExpireByEvent, Fresh, MarkEvent
  <2>3. CASE Fulfil(w, e) \/ FailPayment(w, e)
    <3>1. PICK status \in {"CONFIRMED", "PAYMENT_FAILED"} :
            booking' = [booking EXCEPT ![HoldOf[e]] = status]
      BY <2>3 DEF Fulfil, FailPayment
    <3> QED
      BY <3>1
  <2>4. CASE UNCHANGED booking
    BY <2>4
  <2>5. CASE Deliver(w, e) \/ DrainInbox(w, e)
    BY <2>4, <2>5 DEF Deliver, DrainInbox, RecordEvent
  <2>6. CASE SkipHandled(w, e) \/ IgnoreSettled(w, e) \/ BeginFulfilment(w, e)
    BY <2>4, <2>6 DEF SkipHandled, IgnoreSettled, BeginFulfilment, dbVars
  <2>7. CASE FulfilmentConflict(w, e) \/ DropConflict(w, e) \/ IgnoreFailure(w, e)
    BY <2>4, <2>7 DEF FulfilmentConflict, DropConflict, IgnoreFailure, dbVars
  <2>8. CASE ReleaseSeats(w, e) \/ MarkDrained(w, e)
    BY <2>4, <2>8 DEF ReleaseSeats, MarkDrained, dbVars
  <2> QED
    BY <1>3, <2>1, <2>2, <2>3, <2>5, <2>6, <2>7, <2>8 DEF WebhookStep, WebhookProgress
<1> QED
  BY <1>1, <1>2, <1>3, CrashFrame, InboxFrame DEF Next, dbVars

(***************************************************************************)
(* A checkout is given up only because its own deadline has passed or an   *)
(* event of the provider says so.                                          *)
(***************************************************************************)
THEOREM GivenUpOnlyInTime == Spec => ExpiryJustified
<1>1. CheckoutInv /\ [Next]_vars => [GivenUpInTime]_vars
  BY GivenUpStep
<1> QED
  BY <1>1, CheckoutInvariant, PTL DEF Spec, ExpiryJustified

(***************************************************************************)
(* The way back from the end of a booking to what ended it.                *)
(***************************************************************************)
LEMMA InitChargeInv == Init => ChargeInv
BY DEF Init, ChargeInv, IdleCall

LEMMA ChargeGrows ==
  ASSUME Next
  PROVE  charge \subseteq charge'
<1> USE DEF envVars
<1>1. ASSUME NEW h \in Holds, HoldStep(h)
      PROVE  UNCHANGED charge
  BY <1>1 DEF HoldStep, AcquireHold, ReleaseHold, LapseHold, DeadlinePasses, LeasePasses,
              BeginCheckout, CommitBooking, AbandonCheckout, ReadExpired, CommitExpired,
              CrashExpiry, ResolveReconciliation
<1>2. ASSUME NEW a \in Calls, NEW h \in Holds, CallStep(a, h)
      PROVE  charge \subseteq charge'
  BY <1>2 DEF CallStep, CallProgress, EnsureOnRequest, RecoverProviderPayment, ReadPayment,
              CallErrors, ClaimAttempt, LoseClaim, ProviderAccepts, PersistReference,
              PersistMisses, LockLateReply, ReconcileLateReply, LockFailure,
              RetryAfterFailure, ReconcileFailure
<1>3. ASSUME \/ \E a \in Calls : CrashCall(a)
             \/ \E w \in Handlers : CrashWebhook(w)
      PROVE  UNCHANGED charge
  BY <1>3 DEF CrashCall, CrashWebhook
<1> QED
  BY <1>1, <1>2, <1>3, WebhookStepFrame, InboxFrame DEF Next

\* A reference is stored by a call that has the provider's answer.
LEMMA ReferenceFromReply ==
  ASSUME TypeOK, Next, NEW h \in Holds, reference'[h], ~reference[h]
  PROVE  \E a \in Calls : call[a].pc \in {"replied", "lateLocked"} /\ call[a].hold = h
<1> USE DEF dbVars, paymentVars
<1>1. ASSUME NEW g \in Holds, HoldStep(g)
      PROVE  UNCHANGED reference
  BY <1>1 DEF HoldStep, AcquireHold, ReleaseHold, LapseHold, DeadlinePasses, LeasePasses,
              BeginCheckout, CommitBooking, AbandonCheckout, ReadExpired, CommitExpired,
              CrashExpiry, ResolveReconciliation
<1>2. ASSUME NEW a \in Calls, NEW g \in Holds, CallStep(a, g)
      PROVE  call[a].pc \in {"replied", "lateLocked"} /\ call[a].hold = h
  <2>1. CASE PersistReference(a, g)
    BY <2>1 DEF PersistReference, SetReference, At, TypeOK
  <2>2. CASE ReconcileLateReply(a, g)
    BY <2>2 DEF ReconcileLateReply, At, TypeOK
  <2>3. CASE UNCHANGED reference
    BY <2>3
  <2>4. CASE EnsureOnRequest(a, g) \/ RecoverProviderPayment(a, g) \/ CallErrors(a, g)
    BY <2>3, <2>4 DEF EnsureOnRequest, RecoverProviderPayment, ReadPayment, CallErrors
  <2>5. CASE ClaimAttempt(a, g) \/ LoseClaim(a, g) \/ ProviderAccepts(a, g)
    BY <2>3, <2>5 DEF ClaimAttempt, LoseClaim, ProviderAccepts
  <2>6. CASE PersistMisses(a, g) \/ LockLateReply(a, g) \/ LockFailure(a, g)
    BY <2>3, <2>6 DEF PersistMisses, LockLateReply, LockFailure
  <2>7. CASE RetryAfterFailure(a, g) \/ ReconcileFailure(a, g)
    BY <2>3, <2>7 DEF RetryAfterFailure, ReconcileFailure
  <2> QED
    BY <1>2, <2>1, <2>2, <2>4, <2>5, <2>6, <2>7 DEF CallStep, CallProgress
<1> QED
  BY <1>1, <1>2, WebhookStepFrame, CrashFrame, InboxFrame DEF Next

Answered == {"replied", "late", "lateLocked"}

LEMMA AnswerFromProvider ==
  ASSUME TypeOK, NEW a \in Calls, NEW h \in Holds, CallStep(a, h), call'[a].pc \in Answered
  PROVE  (call[a].pc \in Answered /\ call[a].hold = h) \/ h \in charge'
<1> USE DEF Answered, TypeOK, Goto, EndCall, IdleCall, At
<1>1. CASE EnsureOnRequest(a, h) \/ RecoverProviderPayment(a, h)
  BY <1>1 DEF EnsureOnRequest, RecoverProviderPayment, ReadPayment
<1>2. CASE CallErrors(a, h) \/ ClaimAttempt(a, h) \/ LoseClaim(a, h)
  BY <1>2 DEF CallErrors, ClaimAttempt, LoseClaim
<1>3. CASE ProviderAccepts(a, h) \/ PersistReference(a, h) \/ PersistMisses(a, h)
  BY <1>3 DEF ProviderAccepts, PersistReference, PersistMisses
<1>4. CASE LockLateReply(a, h) \/ ReconcileLateReply(a, h)
  BY <1>4 DEF LockLateReply, ReconcileLateReply
<1>5. CASE LockFailure(a, h) \/ RetryAfterFailure(a, h) \/ ReconcileFailure(a, h)
  BY <1>5 DEF LockFailure, RetryAfterFailure, ReconcileFailure
<1> QED
  BY <1>1, <1>2, <1>3, <1>4, <1>5 DEF CallStep, CallProgress

LEMMA ChargeInvStep ==
  ASSUME TypeOK, CallInv, ChargeInv, Next
  PROVE  ChargeInv'
<1>1. ASSUME NEW h \in Holds, reference'[h]
      PROVE  h \in charge'
  BY <1>1, ReferenceFromReply, ChargeGrows DEF ChargeInv
<1>2. ASSUME NEW b \in Calls, call'[b].pc \in Answered
      PROVE  call'[b].hold \in charge'
  <2>1. CASE call'[b] = call[b]
    BY <1>2, <2>1, ChargeGrows DEF ChargeInv, Answered
  <2>2. ASSUME NEW h \in Holds, CallStep(b, h), CallMoves(b, h)
        PROVE  call'[b].hold \in charge'
    <3>1. call'[b].hold = h
      BY <1>2, <2>2 DEF CallMoves, Answered
    <3> QED
      BY <1>2, <2>2, <3>1, AnswerFromProvider, ChargeGrows DEF ChargeInv, Answered
  <2> QED
    BY <1>2, <2>1, <2>2, OtherCalls DEF Answered
<1> QED
  BY <1>1, <1>2 DEF ChargeInv, Answered

(***************************************************************************)
(* What the API stores of a payment, or goes on to store, the provider has *)
(* made.                                                                   *)
(***************************************************************************)
THEOREM ReferencesAreCharges == Spec => []ChargeInv
<1>1. CheckoutInv /\ ChargeInv /\ [Next]_vars => ChargeInv'
  <2>1. CASE UNCHANGED vars
    BY <2>1 DEF vars, dbVars, paymentVars, envVars, procVars, ChargeInv
  <2> QED
    BY <2>1, ChargeInvStep DEF CheckoutInv
<1> QED
  BY <1>1, InitChargeInv, CheckoutInvariant, PTL DEF Spec

\* A booking fails only by the event that says so.
LEMMA FailedByEvent ==
  ASSUME CheckoutInv, Next, NEW h \in Holds,
         booking'[h] = "PAYMENT_FAILED", booking[h] # "PAYMENT_FAILED"
  PROVE  \E w \in Handlers, e \in Events : FailPayment(w, e) /\ HoldOf[e] = h
<1> USE CheckoutAssumption DEF CheckoutInv, TypeOK
<1>1. ASSUME NEW g \in Holds, RequireReconciliation(g) \/ \E seen : ExpireBooking(g, seen)
      PROVE  FALSE
  BY <1>1 DEF RequireReconciliation, ExpireBooking
<1>2. ASSUME NEW g \in Holds, HoldStep(g)
      PROVE  FALSE
  <2>1. CASE CommitBooking(g)
    BY <2>1 DEF CommitBooking
  <2>2. CASE CommitExpired(g)
    BY <1>1, <2>2 DEF CommitExpired
  <2> QED
    BY <1>2, <2>1, <2>2, HoldStepFrame
<1>3. ASSUME NEW a \in Calls, NEW g \in Holds, CallStep(a, g)
      PROVE  FALSE
  <2>1. CASE ReconcileLateReply(a, g) \/ ReconcileFailure(a, g)
    BY <1>1, <2>1 DEF ReconcileLateReply, ReconcileFailure
  <2>2. CASE UNCHANGED booking
    BY <2>2
  <2>3. CASE EnsureOnRequest(a, g) \/ RecoverProviderPayment(a, g) \/ CallErrors(a, g)
    BY <2>2, <2>3 DEF EnsureOnRequest, RecoverProviderPayment, ReadPayment, CallErrors, dbVars
  <2>4. CASE ClaimAttempt(a, g) \/ LoseClaim(a, g) \/ ProviderAccepts(a, g)
    BY <2>2, <2>4 DEF ClaimAttempt, LoseClaim, ProviderAccepts, dbVars
  <2>5. CASE PersistReference(a, g) \/ PersistMisses(a, g) \/ LockLateReply(a, g)
    BY <2>2, <2>5 DEF PersistReference, PersistMisses, LockLateReply, dbVars
  <2>6. CASE LockFailure(a, g) \/ RetryAfterFailure(a, g)
    BY <2>2, <2>6 DEF LockFailure, RetryAfterFailure, dbVars
  <2> QED
    BY <1>3, <2>1, <2>3, <2>4, <2>5, <2>6 DEF CallStep, CallProgress
<1>4. ASSUME NEW w \in Handlers, NEW e \in Events, WebhookStep(w, e)
      PROVE  FailPayment(w, e) /\ HoldOf[e] = h
  <2>1. CASE MarkLatePayment(w, e) \/ ReconcileConflict(w, e) \/ ExpireByEvent(w, e)
    BY <1>1, <2>1 DEF MarkLatePayment, ReconcileConflict, ExpireByEvent
  <2>2. CASE Fulfil(w, e)
    BY <2>2 DEF Fulfil
  <2>3. CASE FailPayment(w, e)
    BY <2>3 DEF FailPayment
  <2>4. CASE UNCHANGED booking
    BY <2>4
  <2>5. CASE Deliver(w, e) \/ DrainInbox(w, e)
    BY <2>4, <2>5 DEF Deliver, DrainInbox, RecordEvent
  <2>6. CASE SkipHandled(w, e) \/ IgnoreSettled(w, e) \/ BeginFulfilment(w, e)
    BY <2>4, <2>6 DEF SkipHandled, IgnoreSettled, BeginFulfilment, dbVars
  <2>7. CASE FulfilmentConflict(w, e) \/ DropConflict(w, e) \/ IgnoreFailure(w, e)
    BY <2>4, <2>7 DEF FulfilmentConflict, DropConflict, IgnoreFailure, dbVars
  <2>8. CASE ReleaseSeats(w, e) \/ MarkDrained(w, e)
    BY <2>4, <2>8 DEF ReleaseSeats, MarkDrained, dbVars
  <2> QED
    BY <1>4, <2>1, <2>2, <2>3, <2>5, <2>6, <2>7, <2>8 DEF WebhookStep, WebhookProgress
<1> QED
  BY <1>2, <1>3, <1>4, CrashFrame, InboxFrame DEF Next, dbVars

\* A booking is confirmed only by the capture that sells its seats.
LEMMA ConfirmedByCapture ==
  ASSUME CheckoutInv, Next, NEW h \in Holds, Confirmed(h)', ~Confirmed(h)
  PROVE  \E w \in Handlers, e \in Events : Fulfil(w, e) /\ HoldOf[e] = h
<1>1. PICK w \in Handlers, e \in Events : Fulfil(w, e)
  BY OneBookingEnds DEF Confirmed
<1>2. HoldOf[e] = h
  BY <1>1 DEF Fulfil, Confirmed, CheckoutInv, TypeOK
<1> QED
  BY <1>1, <1>2

LEMMA InitEndsExplained == Init => EndsExplained
BY DEF Init, EndsExplained, Confirmed

LEMMA AppliedStays ==
  ASSUME CheckoutInv, Next, NEW e \in Events, NEW h \in Holds, Applied(e, h)
  PROVE  Applied(e, h)'
BY AdvanceStep DEF CheckoutInv, Advance, EventAdvances, Applied

LEMMA EndsExplainedStep ==
  ASSUME CheckoutInv, CheckoutInv', ChargeInv, EndsExplained, Next
  PROVE  EndsExplained'
<1> USE CheckoutAssumption
<1> SUFFICES ASSUME NEW h \in Holds
             PROVE  /\ Confirmed(h)' =>
                         /\ h \in charge'
                         /\ \E e \in Events : Applied(e, h)' /\ KindOf[e] = "payment.succeeded"
                    /\ booking'[h] = "PAYMENT_FAILED" =>
                         \E e \in Events : Applied(e, h)' /\ KindOf[e] = "payment.failed"
                    /\ booking'[h] = "EXPIRED" => h \in overdue' \/ \E e \in Events : Applied(e, h)'
  BY DEF EndsExplained
<1>1. ASSUME Confirmed(h)'
      PROVE  /\ h \in charge'
             /\ \E e \in Events : Applied(e, h)' /\ KindOf[e] = "payment.succeeded"
  <2>1. CASE Confirmed(h)
    BY <2>1, ChargeGrows, AppliedStays DEF EndsExplained
  <2>2. CASE ~Confirmed(h)
    <3>1. PICK w \in Handlers, e \in Events : Fulfil(w, e) /\ HoldOf[e] = h
      BY <1>1, <2>2, ConfirmedByCapture
    <3>2. /\ reference[h]
          /\ e \notin Mismatched
          /\ KindOf[e] = "payment.succeeded"
      BY <3>1 DEF Fulfil, In, CheckoutInv, HandlerInv
    <3>3. paymentEvent'[e] = "PROCESSED"
      BY <3>1 DEF Fulfil, MarkEvent, CheckoutInv, TypeOK
    <3> QED
      BY <3>1, <3>2, <3>3, ChargeGrows DEF ChargeInv, Applied
  <2> QED
    BY <2>1, <2>2
<1>2. ASSUME booking'[h] = "PAYMENT_FAILED"
      PROVE  \E e \in Events : Applied(e, h)' /\ KindOf[e] = "payment.failed"
  <2>1. CASE booking[h] = "PAYMENT_FAILED"
    BY <2>1, AppliedStays DEF EndsExplained
  <2>2. CASE booking[h] # "PAYMENT_FAILED"
    <3>1. PICK w \in Handlers, e \in Events : FailPayment(w, e) /\ HoldOf[e] = h
      BY <1>2, <2>2, FailedByEvent
    <3>2. e \notin Mismatched /\ KindOf[e] = "payment.failed"
      BY <3>1 DEF FailPayment, Fresh, Applying, In, CheckoutInv, HandlerInv
    <3>3. paymentEvent'[e] = "PROCESSED"
      BY <3>1 DEF FailPayment, MarkEvent, CheckoutInv, TypeOK
    <3> QED
      BY <3>1, <3>2, <3>3 DEF Applied
  <2> QED
    BY <2>1, <2>2
<1>3. ASSUME booking'[h] = "EXPIRED"
      PROVE  h \in overdue' \/ \E e \in Events : Applied(e, h)'
  <2>1. CASE booking[h] = "EXPIRED"
    BY <2>1, OverdueStays, AppliedStays DEF EndsExplained, CheckoutInv
  <2>2. CASE booking[h] # "EXPIRED"
    <3>1. booking[h] = "PENDING"
      BY <1>3, <2>2, OneBookingEnds DEF Fulfil, CheckoutInv, TypeOK
    <3>2. CASE h \in overdue
      BY <3>1, <3>2, OverdueStays DEF CheckoutInv
    <3>3. ASSUME NEW e \in Events, HoldOf[e] = h, paymentEvent'[e] = "PROCESSED"
          PROVE  Applied(e, h)'
      BY <3>3 DEF Applied, CheckoutInv, EventInv
    <3> QED
      BY <1>3, <3>1, <3>2, <3>3, GivenUpStep DEF GivenUpInTime
  <2> QED
    BY <2>1, <2>2
<1> QED
  BY <1>1, <1>2, <1>3

(***************************************************************************)
(* Whoever holds a ticket has paid the right amount; whoever lost his      *)
(* booking lost it to his own deadline or to the provider's word.          *)
(***************************************************************************)
THEOREM EveryEndExplained == Spec => []EndsExplained
<1>1. CheckoutInv /\ CheckoutInv' /\ ChargeInv /\ EndsExplained /\ [Next]_vars => EndsExplained'
  <2>1. CASE UNCHANGED vars
    BY <2>1 DEF vars, dbVars, eventVars, envVars, EndsExplained, Confirmed, Applied
  <2> QED
    BY <2>1, EndsExplainedStep
<1> QED
  BY <1>1, InitEndsExplained, CheckoutInvariant, ReferencesAreCharges, PTL DEF Spec
==============================================================================
