--------------------------- MODULE CheckoutProofs ---------------------------
(***************************************************************************)
(* Proofs about Checkout for every number of seats, holds, events, calls   *)
(* and handlers.                                                           *)
(***************************************************************************)
EXTENDS CheckoutInductive, FiniteSetTheorems, TLAPS

LEMMA InitTypeOK == Init => TypeOK
BY HoldsAssumption, CheckoutAssumption
   DEF Init, TypeOK, HoldInit, HoldTypeOK, EventStatus, IdleCall, IdleWebhook, CallPc, WebhookPc

\* The set sizes the counters are incremented by are natural numbers.
LEMMA WantedType == \A h \in Holds, t \in TicketTypes : Wanted(h, t) \in Nat
<1> TAKE h \in Holds, t \in TicketTypes
<1> DEFINE S == {s \in SeatsOf[h] : TypeOf[s] = t}
<1>1. S \subseteq Seats
  BY HoldsAssumption
<1>2. IsFiniteSet(S)
  BY <1>1, CheckoutAssumption, FS_Subset
<1> QED
  BY <1>2, FS_CardinalityType DEF Wanted

LEMMA TypeOKHoldStep ==
  ASSUME TypeOK, NEW h \in Holds, HoldStep(h)
  PROVE  TypeOK'
<1> USE HoldsAssumption, CheckoutAssumption
        DEF TypeOK, HoldTypeOK, holdVars, dbVars, saleVars, paymentVars, eventVars, envVars,
            procVars, Fault, BookingStatus, PaymentStatus, Topics
<1>1. CASE AcquireHold(h)
  BY <1>1 DEF AcquireHold, Acquire
<1>2. CASE ReleaseHold(h)
  BY <1>2 DEF ReleaseHold, Release, DeleteKeys
<1>3. CASE LapseHold(h)
  BY <1>3 DEF LapseHold, Lapse, DeleteKeys
<1>4. CASE DeadlinePasses(h)
  BY <1>4 DEF DeadlinePasses
<1>5. CASE LeasePasses(h)
  <2> DEFINE Call == [pc: CallPc, hold: Holds \cup {NoHold}]
  <2>1. ASSUME NEW a \in Calls
        PROVE  [call[a] EXCEPT !.pc = "checked"] \in Call
    <3>1. call[a] \in Call
      OBVIOUS
    <3> QED
      BY <3>1 DEF CallPc
  <2>2. call' \in [Calls -> Call]
    BY <1>5, <2>1 DEF LeasePasses
  <2> QED
    BY <1>5, <2>2 DEF LeasePasses
<1>6. CASE BeginCheckout(h)
  BY <1>6 DEF BeginCheckout
<1>7. CASE CommitBooking(h)
  BY <1>7 DEF CommitBooking
<1>8. CASE AbandonCheckout(h)
  BY <1>8 DEF AbandonCheckout
<1>9. CASE ReadExpired(h)
  BY <1>9 DEF ReadExpired
<1>10. CASE CommitExpired(h)
  BY <1>10 DEF CommitExpired, ExpireBooking
<1>11. CASE CrashExpiry(h)
  BY <1>11 DEF CrashExpiry
<1>12. CASE ResolveReconciliation(h)
  BY <1>12 DEF ResolveReconciliation
<1> QED
  BY <1>1, <1>2, <1>3, <1>4, <1>5, <1>6, <1>7, <1>8, <1>9, <1>10, <1>11, <1>12 DEF HoldStep

LEMMA TypeOKCallStep ==
  ASSUME TypeOK, NEW a \in Calls, NEW h \in Holds, CallStep(a, h)
  PROVE  TypeOK'
<1> USE HoldsAssumption, CheckoutAssumption
        DEF TypeOK, HoldTypeOK, holdVars, dbVars, saleVars, paymentVars, eventVars, envVars,
            procVars, Fault, BookingStatus, PaymentStatus, Topics, CallPc, Goto, EndCall, IdleCall
<1>1. CASE EnsureOnRequest(a, h)
  BY <1>1 DEF EnsureOnRequest, ReadPayment
<1>2. CASE RecoverProviderPayment(a, h)
  BY <1>2 DEF RecoverProviderPayment, ReadPayment
<1>3. CASE CallErrors(a, h)
  BY <1>3 DEF CallErrors
<1>4. CASE ClaimAttempt(a, h)
  BY <1>4 DEF ClaimAttempt
<1>5. CASE LoseClaim(a, h)
  BY <1>5 DEF LoseClaim
<1>6. CASE ProviderAccepts(a, h)
  BY <1>6 DEF ProviderAccepts
<1>7. CASE PersistReference(a, h)
  BY <1>7 DEF PersistReference, SetReference
<1>8. CASE PersistMisses(a, h)
  BY <1>8 DEF PersistMisses
<1>9. CASE LockLateReply(a, h)
  <2>1. CASE EndCall(a)
    BY <1>9, <2>1 DEF LockLateReply
  <2>2. CASE Goto(a, h, "lateLocked")
    BY <1>9, <2>2 DEF LockLateReply
  <2> QED
    BY <1>9, <2>1, <2>2 DEF LockLateReply
<1>11. CASE ReconcileLateReply(a, h)
  BY <1>11 DEF ReconcileLateReply, RequireReconciliation
<1>12. CASE LockFailure(a, h)
  <2>1. CASE EndCall(a)
    BY <1>12, <2>1 DEF LockFailure
  <2>2. CASE Goto(a, h, "failedLocked")
    BY <1>12, <2>2 DEF LockFailure
  <2> QED
    BY <1>12, <2>1, <2>2 DEF LockFailure
<1>13. CASE RetryAfterFailure(a, h)
  BY <1>13 DEF RetryAfterFailure
<1>14. CASE ReconcileFailure(a, h)
  BY <1>14 DEF ReconcileFailure, RequireReconciliation
<1> QED
  BY <1>1, <1>2, <1>3, <1>4, <1>5, <1>6, <1>7, <1>8, <1>9, <1>11, <1>12, <1>13,
     <1>14 DEF CallStep, CallProgress

WebhookCall == [pc: WebhookPc, event: Events \cup {NoEvent}, drain: BOOLEAN]

LEMMA WebhookTypeGoto ==
  ASSUME webhook \in [Handlers -> WebhookCall], NEW w \in Handlers, NEW pc \in WebhookPc
  PROVE  [webhook EXCEPT ![w].pc = pc] \in [Handlers -> WebhookCall]
<1>1. webhook[w] \in WebhookCall
  OBVIOUS
<1>2. [webhook[w] EXCEPT !.pc = pc] \in WebhookCall
  BY <1>1 DEF WebhookCall
<1>3. [webhook EXCEPT ![w].pc = pc] = [webhook EXCEPT ![w] = [webhook[w] EXCEPT !.pc = pc]]
  OBVIOUS
<1> QED
  BY <1>2, <1>3

LEMMA WebhookTypeAnswer ==
  ASSUME webhook \in [Handlers -> WebhookCall], NEW w \in Handlers, Answer(w)
  PROVE  webhook' \in [Handlers -> WebhookCall]
<1>1. webhook[w] \in WebhookCall
  OBVIOUS
<1>2. [webhook[w] EXCEPT !.pc = "draining"] \in WebhookCall
  BY <1>1 DEF WebhookCall, WebhookPc
<1>3. IdleWebhook \in WebhookCall
  BY DEF WebhookCall, WebhookPc, IdleWebhook
<1> QED
  BY <1>2, <1>3 DEF Answer

LEMMA WebhookTypeSettle ==
  ASSUME webhook \in [Handlers -> WebhookCall], NEW w \in Handlers, NEW status, Settle(w, status)
  PROVE  webhook' \in [Handlers -> WebhookCall]
<1>1. [webhook EXCEPT ![w].pc = "release"] \in [Handlers -> WebhookCall]
  BY WebhookTypeGoto DEF WebhookPc
<1> QED
  BY <1>1, WebhookTypeAnswer DEF Settle

LEMMA WebhookType ==
  ASSUME TypeOK, NEW w \in Handlers, NEW e \in Events, WebhookStep(w, e)
  PROVE  webhook' \in [Handlers -> WebhookCall]
<1>1. webhook \in [Handlers -> WebhookCall]
  BY DEF TypeOK, WebhookCall
<1>2. CASE Deliver(w, e) \/ DrainInbox(w, e)
  <2>1. PICK drain \in BOOLEAN : RecordEvent(w, e, drain)
    BY <1>2 DEF Deliver, DrainInbox
  <2>2. [pc |-> "recorded", event |-> e, drain |-> drain] \in WebhookCall
    BY DEF WebhookCall, WebhookPc
  <2> QED
    BY <1>1, <2>1, <2>2 DEF RecordEvent
<1>3. CASE BeginFulfilment(w, e)
  BY <1>1, <1>3, WebhookTypeGoto DEF BeginFulfilment, WebhookPc
<1>4. CASE FulfilmentConflict(w, e)
  BY <1>1, <1>4, WebhookTypeGoto DEF FulfilmentConflict, WebhookPc
<1>5. CASE SkipHandled(w, e) \/ IgnoreSettled(w, e) \/ Fulfil(w, e) \/ IgnoreFailure(w, e)
  BY <1>1, <1>5, WebhookTypeSettle DEF SkipHandled, IgnoreSettled, Fulfil, IgnoreFailure
<1>6. CASE \/ MarkLatePayment(w, e) \/ ReconcileConflict(w, e) \/ DropConflict(w, e)
           \/ ExpireByEvent(w, e) \/ FailPayment(w, e) \/ ReleaseSeats(w, e)
  BY <1>1, <1>6, WebhookTypeAnswer
     DEF MarkLatePayment, ReconcileConflict, DropConflict, ExpireByEvent, FailPayment, ReleaseSeats
<1>7. CASE MarkDrained(w, e)
  BY <1>1, <1>7 DEF MarkDrained, WebhookCall, WebhookPc, IdleWebhook
<1> QED
  BY <1>2, <1>3, <1>4, <1>5, <1>6, <1>7 DEF WebhookStep, WebhookProgress

LEMMA TypeOKWebhookStep ==
  ASSUME TypeOK, NEW w \in Handlers, NEW e \in Events, WebhookStep(w, e)
  PROVE  TypeOK'
<1> USE HoldsAssumption, CheckoutAssumption
        DEF TypeOK, HoldTypeOK, holdVars, dbVars, saleVars, paymentVars, eventVars, envVars,
            procVars, BookingStatus, PaymentStatus, Topics, EventStatus, MarkEvent
<1>1. webhook' \in [Handlers -> [pc: WebhookPc, event: Events \cup {NoEvent}, drain: BOOLEAN]]
  BY WebhookType DEF WebhookCall
<1>2. HoldOf[e] \in Holds
  OBVIOUS
<1>3. CASE Deliver(w, e)
  BY <1>3, <1>1, <1>2 DEF Deliver, RecordEvent
<1>4. CASE DrainInbox(w, e)
  BY <1>4, <1>1, <1>2 DEF DrainInbox, RecordEvent
<1>5. CASE SkipHandled(w, e)
  BY <1>5, <1>1, <1>2 DEF SkipHandled
<1>6. CASE IgnoreSettled(w, e)
  BY <1>6, <1>1, <1>2 DEF IgnoreSettled
<1>7. CASE MarkLatePayment(w, e)
  BY <1>7, <1>1, <1>2 DEF MarkLatePayment, RequireReconciliation
<1>8. CASE BeginFulfilment(w, e)
  BY <1>8, <1>1, <1>2 DEF BeginFulfilment
<1>9. CASE Fulfil(w, e)
  <2>1. soldQuantity' \in [TicketTypes -> Nat]
    BY <1>9, <1>2, WantedType DEF Fulfil
  <2>2. tickets' \in SUBSET (Holds \X Seats)
    BY <1>9, <1>2 DEF Fulfil
  <2> QED
    BY <1>9, <1>1, <1>2, <2>1, <2>2 DEF Fulfil
<1>10. CASE FulfilmentConflict(w, e)
  BY <1>10, <1>1, <1>2 DEF FulfilmentConflict
<1>11. CASE ReconcileConflict(w, e)
  BY <1>11, <1>1, <1>2 DEF ReconcileConflict, RequireReconciliation
<1>12. CASE DropConflict(w, e)
  BY <1>12, <1>1, <1>2 DEF DropConflict
<1>13. CASE IgnoreFailure(w, e)
  BY <1>13, <1>1, <1>2 DEF IgnoreFailure
<1>14. CASE ExpireByEvent(w, e)
  BY <1>14, <1>1, <1>2 DEF ExpireByEvent, ExpireBooking
<1>15. CASE FailPayment(w, e)
  BY <1>15, <1>1, <1>2 DEF FailPayment
<1>16. CASE ReleaseSeats(w, e)
  BY <1>16, <1>1, <1>2 DEF ReleaseSeats, ReleaseConfirmedHold, DeleteKeys
<1>17. CASE MarkDrained(w, e)
  BY <1>17, <1>1, <1>2 DEF MarkDrained
<1> QED
  BY <1>3, <1>4, <1>5, <1>6, <1>7, <1>8, <1>9, <1>10, <1>11, <1>12, <1>13,
     <1>14, <1>15, <1>16, <1>17 DEF WebhookStep, WebhookProgress

\* TypeOK is inductive by itself: no conversion of the model leaves the types.
LEMMA TypeOKStep == TypeOK /\ [Next]_vars => TypeOK'
<1> SUFFICES ASSUME TypeOK, [Next]_vars
             PROVE  TypeOK'
  OBVIOUS
<1> USE HoldsAssumption, CheckoutAssumption
<1>1. ASSUME NEW h \in Holds, HoldStep(h)
      PROVE  TypeOK'
  BY <1>1, TypeOKHoldStep
<1>2. ASSUME NEW a \in Calls, NEW h \in Holds, CallStep(a, h)
      PROVE  TypeOK'
  BY <1>2, TypeOKCallStep
<1>3. ASSUME NEW a \in Calls, CrashCall(a)
      PROVE  TypeOK'
  BY <1>3 DEF CrashCall, TypeOK, HoldTypeOK, holdVars, dbVars, saleVars, paymentVars, eventVars,
              Fault, EndCall, IdleCall, CallPc
<1>4. ASSUME NEW e \in Events, StoreUnmatched(e) \/ IgnoreInbox(e)
      PROVE  TypeOK'
  BY <1>4 DEF StoreUnmatched, IgnoreInbox, TypeOK, HoldTypeOK, holdVars, saleVars, paymentVars,
              envVars, procVars, EventStatus
<1>5. ASSUME NEW w \in Handlers, NEW e \in Events, WebhookStep(w, e)
      PROVE  TypeOK'
  BY <1>5, TypeOKWebhookStep
<1>6. ASSUME NEW w \in Handlers, CrashWebhook(w)
      PROVE  TypeOK'
  BY <1>6 DEF CrashWebhook, TypeOK, HoldTypeOK, holdVars, dbVars, saleVars, paymentVars, eventVars,
              Fault, IdleWebhook, WebhookPc
<1>7. CASE UNCHANGED vars
  BY <1>7 DEF vars, TypeOK, HoldTypeOK, holdVars, dbVars, saleVars, paymentVars, eventVars,
              envVars, procVars
<1> QED
  BY <1>1, <1>2, <1>3, <1>4, <1>5, <1>6, <1>7 DEF Next

(***************************************************************************)
(* Every reachable state is well typed.                                    *)
(***************************************************************************)
THEOREM TypeCorrect == Spec => []TypeOK
BY InitTypeOK, TypeOKStep, PTL DEF Spec
==============================================================================
