------------------------- MODULE CheckoutRefinement -------------------------
(***************************************************************************)
(* Checkout implements SeatSale: however holds, provider calls, webhooks,  *)
(* the worker and crashes interleave, a customer sees a sale in which a    *)
(* booking takes all of its seats or none, and takes them for ever.        *)
(***************************************************************************)
EXTENDS CheckoutSafety

\* The owner of a sold seat is the booking with its ticket, which is unique.
LEMMA OwnerOfSeat ==
  ASSUME SaleInv, NEW s \in Seats
  PROVE  /\ \A h \in Holds : <<h, s>> \in tickets => SaleOwner[s] = h
         /\ (~\E h \in Holds : <<h, s>> \in tickets) => SaleOwner[s] = NoHold
<1>1. ASSUME NEW g \in Holds, NEW h \in Holds, <<g, s>> \in tickets, <<h, s>> \in tickets
      PROVE  g = h
  BY <1>1 DEF SaleInv, SalesLedger, SeatsSoldOnce
<1>2. ASSUME NEW h \in Holds, <<h, s>> \in tickets
      PROVE  SaleOwner[s] = h
  <2>1. SaleOwner[s] = CHOOSE g \in Holds : <<g, s>> \in tickets
    BY <1>2 DEF SaleOwner
  <2>2. (CHOOSE g \in Holds : <<g, s>> \in tickets) = h
    BY <1>1, <1>2
  <2> QED
    BY <2>1, <2>2
<1>3. ASSUME ~\E h \in Holds : <<h, s>> \in tickets
      PROVE  SaleOwner[s] = NoHold
  BY <1>3 DEF SaleOwner
<1> QED
  BY <1>2, <1>3

LEMMA InitIsSaleInit == Init => Sale!Init
<1> SUFFICES ASSUME Init
             PROVE  Sale!Init
  OBVIOUS
<1>1. SaleOwner = [s \in Seats |-> NoHold]
  BY DEF Init, SaleOwner
<1>2. SaleOutcome = [h \in Holds |-> "open"]
  BY DEF Init, SaleOutcome
<1> QED
  BY <1>1, <1>2 DEF Sale!Init

\* Steps that touch no ticket and end no booking stutter.
LEMMA SaleStutters ==
  ASSUME UNCHANGED tickets,
         \A h \in Holds : \/ booking'[h] = booking[h]
                          \/ booking[h] = "NONE" /\ booking'[h] = "PENDING"
  PROVE  UNCHANGED <<SaleOwner, SaleOutcome>>
<1>1. UNCHANGED SaleOwner
  BY DEF SaleOwner
<1>2. ASSUME NEW h \in Holds
      PROVE  SaleOutcome'[h] = SaleOutcome[h]
  BY DEF SaleOutcome
<1>3. UNCHANGED SaleOutcome
  BY <1>2 DEF SaleOutcome
<1> QED
  BY <1>1, <1>3

\* A booking that ends without its seats closes the abstract one.
LEMMA SaleCloses ==
  ASSUME TypeOK, UNCHANGED tickets, NEW h \in Holds, booking[h] = "PENDING",
         booking'[h] \in {"EXPIRED", "PAYMENT_FAILED"},
         \A g \in Holds \ {h} : booking'[g] = booking[g]
  PROVE  Sale!Close(h)
<1>1. UNCHANGED SaleOwner
  BY DEF SaleOwner
<1>2. SaleOutcome[h] = "open"
  BY DEF SaleOutcome
<1>3. SaleOutcome' = [SaleOutcome EXCEPT ![h] = "closed"]
  BY DEF SaleOutcome
<1> QED
  BY <1>1, <1>2, <1>3 DEF Sale!Close

LEMMA FulfilSells ==
  ASSUME TypeOK, SaleInv, SaleInv', HandlerInv, NEW w \in Handlers, NEW e \in Events, Fulfil(w, e)
  PROVE  Sale!Sell(HoldOf[e])
<1> USE HoldsAssumption, CheckoutAssumption
<1> DEFINE h == HoldOf[e]
<1>1. h \in Holds /\ booking[h] = "PENDING"
  BY DEF Fulfil, In, HandlerInv
<1>2. /\ tickets' = tickets \cup ({h} \X SeatsOf[h])
      /\ booking' = [booking EXCEPT ![h] = "CONFIRMED"]
      /\ \A s \in SeatsOf[h] : seatStatus[s] = "AVAILABLE"
  BY DEF Fulfil, CanSell, SeatsFree
<1> HIDE DEF h
<1>3. SaleOutcome[h] = "open"
  BY <1>1 DEF SaleOutcome
<1>4. SaleOutcome' = [SaleOutcome EXCEPT ![h] = "sold"]
  BY <1>1, <1>2 DEF SaleOutcome, TypeOK
<1>5. SeatsOf[h] \subseteq Seats
  BY <1>1
<1>6. \A s \in SeatsOf[h] : SaleOwner[s] = NoHold
  <2> TAKE s \in SeatsOf[h]
  <2>1. ~\E g \in Holds : <<g, s>> \in tickets
    BY <1>2, <1>5 DEF SaleInv, SalesLedger
  <2> QED
    BY <1>5, <2>1, OwnerOfSeat
<1>7. ASSUME NEW s \in Seats
      PROVE  SaleOwner'[s] = IF s \in SeatsOf[h] THEN h ELSE SaleOwner[s]
  <2>1. CASE s \in SeatsOf[h]
    <3>1. \A g \in Holds : <<g, s>> \in tickets' => g = h
      BY <1>1, <1>2, <1>5, <2>1 DEF SaleInv, SalesLedger
    <3>2. <<h, s>> \in tickets'
      BY <1>2, <2>1
    <3>3. SaleOwner'[s] = CHOOSE g \in Holds : <<g, s>> \in tickets'
      BY <1>1, <3>2 DEF SaleOwner
    <3> QED
      BY <1>1, <2>1, <3>1, <3>2, <3>3
  <2>2. CASE s \notin SeatsOf[h]
    <3>1. \A g \in Holds : <<g, s>> \in tickets' <=> <<g, s>> \in tickets
      BY <1>2, <2>2
    <3> QED
      BY <2>2, <3>1 DEF SaleOwner
  <2> QED
    BY <2>1, <2>2
<1>8. SaleOwner' = [s \in Seats |-> IF s \in SeatsOf[h] THEN h ELSE SaleOwner[s]]
  BY <1>7 DEF SaleOwner
<1> QED
  BY <1>3, <1>4, <1>6, <1>8 DEF Sale!Sell, h

LEMMA StepIsSaleStep ==
  ASSUME CheckoutInv, CheckoutInv', [Next]_vars
  PROVE  [Sale!Next]_(Sale!saleVars)
<1> USE DEF CheckoutInv
<1>1. CASE UNCHANGED vars
  <2>1. UNCHANGED <<SaleOwner, SaleOutcome>>
    BY <1>1, SaleStutters DEF vars, dbVars, saleVars
  <2> QED
    BY <2>1 DEF Sale!saleVars
<1>2. CASE Next
  <2>1. ASSUME NEW w \in Handlers, NEW e \in Events, Fulfil(w, e)
        PROVE  Sale!Next
    <3>1. Sale!Sell(HoldOf[e]) /\ HoldOf[e] \in Holds
      BY <2>1, FulfilSells, CheckoutAssumption
    <3> QED
      BY <3>1 DEF Sale!Next
  <2>2. ASSUME NEW h \in Holds, booking[h] = "PENDING", UNCHANGED tickets,
               booking'[h] \in {"EXPIRED", "PAYMENT_FAILED"},
               \A g \in Holds \ {h} : booking'[g] = booking[g]
        PROVE  Sale!Next
    <3>1. Sale!Close(h)
      BY <2>2, SaleCloses
    <3> QED
      BY <3>1 DEF Sale!Next
  <2>3. ASSUME ~\E w \in Handlers, e \in Events : Fulfil(w, e),
               \A h \in Holds : \/ booking'[h] = booking[h]
                                \/ booking[h] = "NONE" /\ booking'[h] = "PENDING"
        PROVE  UNCHANGED Sale!saleVars
    <3>1. UNCHANGED tickets
      BY <1>2, <2>3, HoldStepFrame, CallStepFrame, CrashFrame, InboxFrame, WebhookStepFrame
         DEF Next, dbVars, saleVars
    <3>2. UNCHANGED <<SaleOwner, SaleOutcome>>
      BY <2>3, <3>1, SaleStutters
    <3> QED
      BY <3>2 DEF Sale!saleVars
  <2> QED
    BY <1>2, <2>1, <2>2, <2>3, OneBookingEnds
<1> QED
  BY <1>1, <1>2

(***************************************************************************)
(* Every behaviour of the checkout is, seen through tickets and booking    *)
(* statuses, a behaviour of the abstract seat sale.                        *)
(***************************************************************************)
THEOREM CheckoutSellsSeats == Spec => ImplementsSeatSale
<1>1. CheckoutInv /\ CheckoutInv' /\ [Next]_vars => [Sale!Next]_(Sale!saleVars)
  BY StepIsSaleStep
<1> QED
  BY <1>1, InitIsSaleInit, CheckoutInvariant, PTL DEF Spec, ImplementsSeatSale, Sale!Spec

(***************************************************************************)
(* The life of a booking.  What a step does to the status that a customer  *)
(* sees, to the references and to the deadlines is one action of           *)
(* BookingLife, or nothing.                                                *)
(***************************************************************************)
LEMMA InitIsLifeInit == Init => Life!Init
<1> SUFFICES ASSUME Init
             PROVE  Life!Init
  OBVIOUS
<1>1. LifeStatus = [h \in Holds |-> "NONE"]
  BY DEF Init, LifeStatus
<1>2. Payable = {} /\ OverdueBookings = {}
  BY DEF Init, Payable, OverdueBookings
<1> QED
  BY <1>1, <1>2 DEF Life!Init

LEMMA LifeStutters ==
  ASSUME UNCHANGED <<booking, reference>>,
         \A h \in Holds : booking[h] # "NONE" => (h \in overdue' <=> h \in overdue),
         TypeOK, TypeOK'
  PROVE  UNCHANGED Life!lifeVars
<1>1. UNCHANGED LifeStatus /\ UNCHANGED Payable
  BY DEF LifeStatus, Payable
<1>2. UNCHANGED OverdueBookings
  BY DEF OverdueBookings, TypeOK
<1> QED
  BY <1>1, <1>2 DEF Life!lifeVars

\* The status of one booking changes.
LEMMA LifeStatusChange ==
  ASSUME TypeOK, NEW h \in Holds, NEW end, booking' = [booking EXCEPT ![h] = end]
  PROVE  LifeStatus' = [LifeStatus EXCEPT ![h] = IF end \in {"PAYMENT_FAILED", "EXPIRED"}
                                                 THEN "FAILED" ELSE end]
BY DEF LifeStatus, TypeOK

\* Nobody sees other deadlines when a booking that is there changes its status.
LEMMA OverdueSame ==
  ASSUME TypeOK, NEW h \in Holds, booking[h] # "NONE", UNCHANGED overdue,
         NEW end, end # "NONE", booking' = [booking EXCEPT ![h] = end]
  PROVE  UNCHANGED OverdueBookings
BY DEF OverdueBookings, TypeOK

LEMMA PayableGrows ==
  ASSUME TypeOK, NEW h \in Holds, reference' = [reference EXCEPT ![h] = TRUE]
  PROVE  Payable' = Payable \cup {h}
BY DEF Payable, TypeOK

LEMMA MakesBooking ==
  ASSUME TypeOK, PaymentInv, NEW h \in Holds, CommitBooking(h)
  PROVE  Life!Make(h)
<1>1. booking[h] = "NONE" /\ booking' = [booking EXCEPT ![h] = "PENDING"]
  BY DEF CommitBooking, PaymentInv
<1>2. UNCHANGED <<reference, overdue>>
  BY DEF CommitBooking, envVars
<1>3. LifeStatus[h] = "NONE" /\ LifeStatus' = [LifeStatus EXCEPT ![h] = "PENDING"]
  BY <1>1, LifeStatusChange DEF LifeStatus
<1>4. UNCHANGED Payable
  BY <1>2 DEF Payable
<1>5. OverdueBookings' = {g \in overdue : g = h \/ booking[g] # "NONE"}
  BY <1>1, <1>2 DEF OverdueBookings, TypeOK
<1>6. OverdueBookings' \in {OverdueBookings, OverdueBookings \cup {h}}
  BY <1>1, <1>5 DEF OverdueBookings
<1> QED
  BY <1>3, <1>4, <1>6 DEF Life!Make

\* A pending booking ends: known to the provider, or past its deadline.
LEMMA SettlesBooking ==
  ASSUME TypeOK, NEW h \in Holds, booking[h] = "PENDING", UNCHANGED <<reference, overdue>>,
         NEW end \in {"CONFIRMED", "PAYMENT_FAILED", "EXPIRED"},
         booking' = [booking EXCEPT ![h] = end],
         reference[h] \/ (end # "CONFIRMED" /\ h \in overdue)
  PROVE  Life!Proceed(h)
<1> DEFINE shown == IF end \in {"PAYMENT_FAILED", "EXPIRED"} THEN "FAILED" ELSE end
<1>1. LifeStatus[h] = "PENDING" /\ LifeStatus' = [LifeStatus EXCEPT ![h] = shown]
  BY LifeStatusChange DEF LifeStatus
<1>2. UNCHANGED <<Payable, OverdueBookings>>
  BY OverdueSame DEF Payable
<1>3. CASE reference[h]
  <2>1. h \in Payable /\ shown \in {"CONFIRMED", "FAILED"}
    BY <1>3 DEF Payable
  <2>2. Life!SettleByEvent(h, shown)
    BY <1>1, <1>2, <2>1 DEF Life!SettleByEvent
  <2> QED
    BY <2>1, <2>2 DEF Life!Proceed
<1>4. CASE end # "CONFIRMED" /\ h \in overdue
  <2>1. h \in OverdueBookings /\ shown = "FAILED"
    BY <1>4 DEF OverdueBookings
  <2>2. Life!GiveUp(h)
    BY <1>1, <1>2, <2>1 DEF Life!GiveUp
  <2> QED
    BY <2>2 DEF Life!Proceed
<1> QED
  BY <1>3, <1>4

\* A payment that goes to reconciliation ends a pending booking or none.
LEMMA ReconcilesBooking ==
  ASSUME TypeOK, TypeOK', NEW h \in Holds, RequireReconciliation(h), booking[h] # "NONE",
         UNCHANGED <<reference, overdue>>,
         booking[h] = "PENDING" => reference[h] \/ h \in overdue
  PROVE  Life!Proceed(h) \/ UNCHANGED Life!lifeVars
<1>1. CASE booking[h] = "PENDING"
  <2>1. booking' = [booking EXCEPT ![h] = "EXPIRED"]
    BY <1>1 DEF RequireReconciliation
  <2> QED
    BY <1>1, <2>1, SettlesBooking
<1>2. CASE booking[h] # "PENDING"
  <2>1. UNCHANGED booking
    BY <1>2 DEF RequireReconciliation, TypeOK
  <2> QED
    BY <2>1, LifeStutters
<1> QED
  BY <1>1, <1>2

LEMMA HoldStepLives ==
  ASSUME CheckoutInv, CheckoutInv', NEW h \in Holds, HoldStep(h)
  PROVE  Life!Make(h) \/ Life!Proceed(h) \/ UNCHANGED Life!lifeVars
<1> USE DEF CheckoutInv
<1>1. CASE UNCHANGED <<booking, reference, overdue>>
  BY <1>1, LifeStutters
<1>2. CASE AcquireHold(h) \/ ReleaseHold(h) \/ LapseHold(h)
  BY <1>1, <1>2 DEF AcquireHold, ReleaseHold, LapseHold, dbVars, envVars, paymentVars
<1>3. CASE DeadlinePasses(h)
  <2>1. UNCHANGED <<booking, reference>> /\ overdue' = overdue \cup {h}
    BY <1>3 DEF DeadlinePasses, dbVars, paymentVars
  <2>2. CASE booking[h] = "NONE"
    BY <2>1, <2>2, LifeStutters
  <2>3. CASE booking[h] # "NONE"
    <3>1. UNCHANGED <<LifeStatus, Payable>>
      BY <2>1 DEF LifeStatus, Payable
    <3>2. OverdueBookings' = OverdueBookings \cup {h}
      BY <2>1, <2>3 DEF OverdueBookings
    <3>3. LifeStatus[h] # "NONE"
      BY <2>3 DEF LifeStatus
    <3> QED
      BY <3>1, <3>2, <3>3 DEF Life!Proceed, Life!DeadlinePasses
  <2> QED
    BY <2>2, <2>3
<1>4. CASE LeasePasses(h) \/ BeginCheckout(h) \/ ReadExpired(h)
  BY <1>1, <1>4 DEF LeasePasses, BeginCheckout, ReadExpired, dbVars, envVars, paymentVars
<1>5. CASE CommitBooking(h)
  BY <1>5, MakesBooking
<1>6. CASE AbandonCheckout(h)
  <2>1. booking[h] = "NONE"
    BY <1>6 DEF AbandonCheckout, PaymentInv
  <2>2. UNCHANGED <<booking, reference>> /\ overdue' = overdue \ {h}
    BY <1>6 DEF AbandonCheckout, dbVars, paymentVars
  <2> QED
    BY <2>1, <2>2, LifeStutters
<1>7. CASE CommitExpired(h)
  <2>1. booking[h] = "PENDING" /\ h \in overdue
    BY <1>7 DEF CommitExpired, ExpiryInv
  <2>2. booking' = [booking EXCEPT ![h] = "EXPIRED"] /\ UNCHANGED <<reference, overdue>>
    BY <1>7 DEF CommitExpired, ExpireBooking, envVars
  <2> QED
    BY <2>1, <2>2, SettlesBooking
<1>8. CASE CrashExpiry(h) \/ ResolveReconciliation(h)
  BY <1>1, <1>8 DEF CrashExpiry, ResolveReconciliation, dbVars, envVars, paymentVars
<1> QED
  BY <1>2, <1>3, <1>4, <1>5, <1>6, <1>7, <1>8 DEF HoldStep

\* A reference is stored for a booking in time, or together with its end.
LEMMA ReferenceLives ==
  ASSUME TypeOK, NEW h \in Holds, booking[h] # "NONE", UNCHANGED overdue,
         reference' = [reference EXCEPT ![h] = TRUE],
         \/ UNCHANGED booking
         \/ /\ booking[h] = "PENDING" /\ h \in overdue
            /\ booking' = [booking EXCEPT ![h] = "EXPIRED"]
  PROVE  Life!Proceed(h)
<1>1. Payable' = Payable \cup {h}
  BY PayableGrows
<1>2. CASE UNCHANGED booking
  <2>1. UNCHANGED <<LifeStatus, OverdueBookings>> /\ LifeStatus[h] # "NONE"
    BY <1>2 DEF LifeStatus, OverdueBookings
  <2> QED
    BY <1>1, <2>1 DEF Life!Proceed, Life!Initialise
<1>3. CASE /\ booking[h] = "PENDING" /\ h \in overdue
           /\ booking' = [booking EXCEPT ![h] = "EXPIRED"]
  <2>1. LifeStatus[h] = "PENDING" /\ LifeStatus' = [LifeStatus EXCEPT ![h] = "FAILED"]
    BY <1>3, LifeStatusChange DEF LifeStatus
  <2>2. UNCHANGED OverdueBookings
    BY <1>3, OverdueSame
  <2>3. h \in OverdueBookings
    BY <1>3 DEF OverdueBookings
  <2> QED
    BY <1>1, <2>1, <2>2, <2>3 DEF Life!Proceed, Life!GiveUp
<1> QED
  BY <1>2, <1>3

LEMMA CallStepLives ==
  ASSUME CheckoutInv, CheckoutInv', NEW a \in Calls, NEW h \in Holds, CallStep(a, h)
  PROVE  Life!Proceed(h) \/ UNCHANGED Life!lifeVars
<1> USE DEF CheckoutInv
<1>1. CASE UNCHANGED <<booking, reference, overdue>>
  BY <1>1, LifeStutters
<1>2. CASE EnsureOnRequest(a, h) \/ RecoverProviderPayment(a, h) \/ CallErrors(a, h)
  BY <1>1, <1>2 DEF EnsureOnRequest, RecoverProviderPayment, ReadPayment, CallErrors, dbVars,
                    envVars, paymentVars
<1>3. CASE ClaimAttempt(a, h) \/ LoseClaim(a, h) \/ ProviderAccepts(a, h)
  BY <1>1, <1>3 DEF ClaimAttempt, LoseClaim, ProviderAccepts, dbVars, envVars, paymentVars
<1>4. CASE PersistMisses(a, h) \/ LockLateReply(a, h) \/ LockFailure(a, h)
  BY <1>1, <1>4 DEF PersistMisses, LockLateReply, LockFailure, dbVars, envVars, paymentVars
<1>5. CASE RetryAfterFailure(a, h)
  BY <1>1, <1>5 DEF RetryAfterFailure, envVars
<1>6. CASE PersistReference(a, h)
  BY <1>6, ReferenceLives DEF PersistReference, Matches, SetReference, envVars
<1>7. CASE ReconcileLateReply(a, h)
  <2>1. booking[h] # "NONE" /\ (booking[h] = "PENDING" => h \in overdue)
    BY <1>7 DEF ReconcileLateReply, At, CallInv, LateReplyTooLate, Ended
  <2>2. RequireReconciliation(h) /\ reference' = [reference EXCEPT ![h] = TRUE]
    BY <1>7 DEF ReconcileLateReply
  <2>3. UNCHANGED overdue
    BY <1>7 DEF ReconcileLateReply, envVars
  <2>4. UNCHANGED booking \/ (booking[h] = "PENDING" /\ booking' = [booking EXCEPT ![h] = "EXPIRED"])
    <3>1. booking \in [Holds -> BookingStatus \cup {"NONE"}]
      BY DEF TypeOK
    <3>2. booking' = [booking EXCEPT ![h] = IF @ = "PENDING" THEN "EXPIRED" ELSE @]
      BY <2>2 DEF RequireReconciliation
    <3> HIDE DEF CheckoutInv
    <3> QED
      BY <3>1, <3>2
  <2> QED
    BY <2>1, <2>2, <2>3, <2>4, ReferenceLives
<1>8. CASE ReconcileFailure(a, h)
  <2>1. booking[h] # "NONE" /\ (booking[h] = "PENDING" => h \in overdue)
    BY <1>8 DEF ReconcileFailure, At, CallInv, Ended
  <2>2. RequireReconciliation(h) /\ UNCHANGED <<reference, overdue>>
    BY <1>8 DEF ReconcileFailure, envVars
  <2> QED
    BY <2>1, <2>2, ReconcilesBooking
<1> QED
  BY <1>2, <1>3, <1>4, <1>5, <1>6, <1>7, <1>8 DEF CallStep, CallProgress

LEMMA WebhookStepLives ==
  ASSUME CheckoutInv, CheckoutInv', NEW w \in Handlers, NEW e \in Events, WebhookStep(w, e)
  PROVE  Life!Proceed(HoldOf[e]) \/ UNCHANGED Life!lifeVars
<1> USE DEF CheckoutInv
<1> DEFINE h == HoldOf[e]
<1>0. h \in Holds
  BY CheckoutAssumption
<1>1. UNCHANGED <<reference, overdue>>
  BY WebhookStepFrame DEF envVars
<1>2. webhook[w].pc # "idle" /\ webhook[w].event = e => reference[h] /\ booking[h] # "NONE"
  BY <1>0 DEF HandlerInv, PaymentInv
<1>3. CASE UNCHANGED booking
  BY <1>1, <1>3, LifeStutters
<1>4. CASE MarkLatePayment(w, e) \/ ReconcileConflict(w, e)
  <2>1. webhook[w].pc # "idle" /\ webhook[w].event = e /\ RequireReconciliation(h)
    BY <1>4 DEF MarkLatePayment, Fresh, Applying, ReconcileConflict, In
  <2> QED
    BY <1>0, <1>1, <1>2, <2>1, ReconcilesBooking
<1>5. CASE ExpireByEvent(w, e) \/ FailPayment(w, e) \/ Fulfil(w, e)
  <2>1. webhook[w].pc # "idle" /\ webhook[w].event = e
    BY <1>5 DEF ExpireByEvent, FailPayment, Fulfil, Fresh, Applying, In
  <2>2. booking[h] = "PENDING"
    BY <1>5 DEF ExpireByEvent, FailPayment, Fulfil, In, HandlerInv
  <2>3. \E end \in {"CONFIRMED", "PAYMENT_FAILED", "EXPIRED"} : booking' = [booking EXCEPT ![h] = end]
    BY <1>5 DEF ExpireByEvent, ExpireBooking, FailPayment, Fulfil
  <2>4. PICK end \in {"CONFIRMED", "PAYMENT_FAILED", "EXPIRED"} : booking' = [booking EXCEPT ![h] = end]
    BY <2>3
  <2>5. reference[h]
    BY <1>2, <2>1
  <2>6. \A g \in Holds : g = h => Life!Proceed(g)
    <3> HIDE DEF h
    <3> QED
      BY <1>1, <2>2, <2>4, <2>5, SettlesBooking
  <2> QED
    BY <1>0, <2>6
<1>6. CASE Deliver(w, e) \/ DrainInbox(w, e)
  BY <1>3, <1>6 DEF Deliver, DrainInbox, RecordEvent
<1>7. CASE SkipHandled(w, e) \/ IgnoreSettled(w, e) \/ BeginFulfilment(w, e)
  BY <1>3, <1>7 DEF SkipHandled, IgnoreSettled, BeginFulfilment, dbVars
<1>8. CASE FulfilmentConflict(w, e) \/ DropConflict(w, e) \/ IgnoreFailure(w, e)
  BY <1>3, <1>8 DEF FulfilmentConflict, DropConflict, IgnoreFailure, dbVars
<1>9. CASE ReleaseSeats(w, e) \/ MarkDrained(w, e)
  BY <1>3, <1>9 DEF ReleaseSeats, MarkDrained, dbVars
<1> QED
  BY <1>4, <1>5, <1>6, <1>7, <1>8, <1>9 DEF WebhookStep, WebhookProgress

LEMMA StepIsLifeStep ==
  ASSUME CheckoutInv, CheckoutInv', [Next]_vars
  PROVE  [Life!Next]_(Life!lifeVars)
<1>1. CASE UNCHANGED <<booking, reference, overdue>>
  BY <1>1, LifeStutters DEF CheckoutInv
<1>2. CASE UNCHANGED vars
  BY <1>1, <1>2 DEF vars, dbVars, paymentVars, envVars
<1>3. ASSUME NEW h \in Holds, HoldStep(h)
      PROVE  [Life!Next]_(Life!lifeVars)
  BY <1>3, HoldStepLives DEF Life!Next
<1>4. ASSUME NEW a \in Calls, NEW h \in Holds, CallStep(a, h)
      PROVE  [Life!Next]_(Life!lifeVars)
  BY <1>4, CallStepLives DEF Life!Next
<1>5. ASSUME NEW w \in Handlers, NEW e \in Events, WebhookStep(w, e)
      PROVE  [Life!Next]_(Life!lifeVars)
  BY <1>5, WebhookStepLives, CheckoutAssumption DEF Life!Next
<1>6. CASE (\E a \in Calls : CrashCall(a)) \/ (\E w \in Handlers : CrashWebhook(w))
  BY <1>1, <1>6, CrashFrame DEF dbVars, paymentVars
<1>7. CASE \E e \in Events : StoreUnmatched(e) \/ IgnoreInbox(e)
  BY <1>1, <1>7, InboxFrame DEF paymentVars, envVars
<1> QED
  BY <1>2, <1>3, <1>4, <1>5, <1>6, <1>7 DEF Next

(***************************************************************************)
(* Every behaviour of the checkout shows each customer a life of his       *)
(* booking that module Retry allows for.                                   *)
(***************************************************************************)
THEOREM CheckoutLivesBookings == Spec => ImplementsBookingLife
<1>1. CheckoutInv /\ CheckoutInv' /\ [Next]_vars => [Life!Next]_(Life!lifeVars)
  BY StepIsLifeStep
<1> QED
  BY <1>1, InitIsLifeInit, CheckoutInvariant, PTL DEF Spec, ImplementsBookingLife, Life!Spec

(***************************************************************************)
(* The seats' two stores.  A booking is made only under a hold that was    *)
(* live, and a hold once issued stays so: what is sold was taken before,   *)
(* although the keys may be gone, or a rival's, when the sale commits.     *)
(***************************************************************************)
BookedInv == \A h \in Holds : h \in checkout \/ booking[h] # "NONE" => h \in issued

LEMMA InitBookedInv == Init => BookedInv
BY DEF Init, BookedInv

LEMMA BookedInvKept ==
  ASSUME BookedInv, issued \subseteq issued',
         \A h \in Holds : (h \in checkout' => h \in checkout)
                          /\ (booking[h] = "NONE" => booking'[h] = "NONE")
  PROVE  BookedInv'
BY DEF BookedInv

LEMMA IssuedGrows ==
  ASSUME Next
  PROVE  issued \subseteq issued'
<1>1. ASSUME NEW h \in Holds, HoldStep(h)
      PROVE  issued \subseteq issued'
  BY <1>1, HoldStepFrame
     DEF AcquireHold, Acquire, ReleaseHold, Release, LapseHold, Lapse, holdVars
<1>2. ASSUME NEW w \in Handlers, NEW e \in Events, WebhookStep(w, e)
      PROVE  issued \subseteq issued'
  BY <1>2, WebhookStepFrame DEF ReleaseSeats, ReleaseConfirmedHold, holdVars
<1> QED
  BY <1>1, <1>2, CallStepFrame, CrashFrame, InboxFrame DEF Next, holdVars

\* Who enters or leaves create().
LEMMA CheckoutOnlyShrinks ==
  ASSUME NEW h \in Holds, HoldStep(h)
  PROVE  checkout' \subseteq checkout \/ BeginCheckout(h)
<1> USE DEF procVars
<1>1. CASE AcquireHold(h) \/ ReleaseHold(h) \/ LapseHold(h) \/ DeadlinePasses(h) \/ LeasePasses(h)
  BY <1>1 DEF AcquireHold, ReleaseHold, LapseHold, DeadlinePasses, LeasePasses
<1>2. CASE CommitBooking(h) \/ AbandonCheckout(h)
  BY <1>2 DEF CommitBooking, AbandonCheckout
<1>3. CASE ReadExpired(h) \/ CommitExpired(h) \/ CrashExpiry(h) \/ ResolveReconciliation(h)
  BY <1>3 DEF ReadExpired, CommitExpired, CrashExpiry, ResolveReconciliation
<1> QED
  BY <1>1, <1>2, <1>3 DEF HoldStep

\* Only an insert makes a booking, whatever else a step of its life does.
LEMMA NoBookingFromNothing ==
  ASSUME TypeOK, NEW g \in Holds, Life!Proceed(g) \/ UNCHANGED Life!lifeVars
  PROVE  \A h \in Holds : booking[h] = "NONE" => booking'[h] = "NONE"
<1> TAKE h \in Holds
<1> SUFFICES ASSUME booking[h] = "NONE"
             PROVE  booking'[h] = "NONE"
  OBVIOUS
<1>1. LifeStatus[h] = "NONE"
  BY DEF LifeStatus
<1>2. LifeStatus'[h] = "NONE"
  <2>1. CASE UNCHANGED Life!lifeVars
    BY <1>1, <2>1 DEF Life!lifeVars
  <2>2. CASE Life!Proceed(g)
    BY <1>1, <2>2 DEF Life!Proceed, Life!DeadlinePasses, Life!Initialise, Life!GiveUp,
                      Life!SettleByEvent, LifeStatus
  <2> QED
    BY <2>1, <2>2
<1> QED
  BY <1>2 DEF LifeStatus

LEMMA BookedInvStep ==
  ASSUME CheckoutInv, CheckoutInv', BookedInv, [Next]_vars
  PROVE  BookedInv'
<1> USE DEF CheckoutInv
<1>1. CASE UNCHANGED vars
  BY <1>1 DEF BookedInv, vars, holdVars, dbVars, procVars
<1>2. ASSUME NEW h \in Holds, BeginCheckout(h)
      PROVE  BookedInv'
  <2>1. PICK s \in SeatsOf[h] : TRUE
    BY HoldsAssumption
  <2>2. s \in Seats /\ seatKey[s] = h /\ h # NoHold
    BY <1>2, HoldsAssumption DEF BeginCheckout, Live
  <2>3. h \in issued
    BY <2>2 DEF HoldInv
  <2> QED
    BY <1>2, <2>3 DEF BeginCheckout, BookedInv, holdVars, dbVars
<1>3. ASSUME NEW h \in Holds, CommitBooking(h)
      PROVE  BookedInv'
  BY <1>3 DEF CommitBooking, BookedInv, holdVars, TypeOK
<1>4. ASSUME NEW h \in Holds, HoldStep(h), ~BeginCheckout(h), ~CommitBooking(h)
      PROVE  BookedInv'
  <2>1. issued \subseteq issued' /\ checkout' \subseteq checkout
    BY <1>4, IssuedGrows, CheckoutOnlyShrinks DEF Next
  <2>2. \A g \in Holds : booking[g] = "NONE" => booking'[g] = "NONE"
    BY <1>4, HoldStepFrame DEF CommitExpired, ExpireBooking, ExpiryInv, TypeOK
  <2> QED
    BY <2>1, <2>2, BookedInvKept
<1>5. ASSUME NEW a \in Calls, NEW h \in Holds, CallStep(a, h)
      PROVE  BookedInv'
  BY <1>5, CallStepFrame, CallStepLives, NoBookingFromNothing, BookedInvKept DEF holdVars
<1>6. ASSUME NEW w \in Handlers, NEW e \in Events, WebhookStep(w, e)
      PROVE  BookedInv'
  <2>1. issued \subseteq issued' /\ UNCHANGED checkout
    BY <1>6, IssuedGrows, WebhookStepFrame DEF Next
  <2>2. \A g \in Holds : booking[g] = "NONE" => booking'[g] = "NONE"
    BY <1>6, WebhookStepLives, NoBookingFromNothing, CheckoutAssumption
  <2> QED
    BY <2>1, <2>2, BookedInvKept
<1>7. CASE (\E a \in Calls : CrashCall(a)) \/ (\E w \in Handlers : CrashWebhook(w))
  BY <1>7, CrashFrame, BookedInvKept DEF holdVars, dbVars
<1>8. CASE \E e \in Events : StoreUnmatched(e) \/ IgnoreInbox(e)
  BY <1>8, InboxFrame, BookedInvKept DEF holdVars, procVars
<1> QED
  BY <1>1, <1>2, <1>3, <1>4, <1>5, <1>6, <1>7, <1>8 DEF Next

(***************************************************************************)
(* No booking, and no request that makes one, without a hold that the seat *)
(* map handed out.                                                         *)
(***************************************************************************)
THEOREM BookedUnderHold == Spec => []BookedInv
BY InitBookedInv, BookedInvStep, CheckoutInvariant, PTL DEF Spec

LEMMA InitIsStoreInit == Init => Store!Init
BY DEF Init, HoldInit, Store!Init, SeatsSold

LEMMA StoreStutters ==
  ASSUME UNCHANGED <<holdVars, saleVars>>
  PROVE  UNCHANGED Store!storeVars
BY DEF holdVars, saleVars, Store!storeVars, SeatsSold

LEMMA HoldsAreTaken ==
  ASSUME CheckoutInv, NEW h \in Holds, AcquireHold(h) \/ ReleaseHold(h) \/ LapseHold(h)
  PROVE  Store!Take(h) \/ Store!GiveUp(h)
<1> USE HoldsAssumption
<1>1. UNCHANGED SeatsSold
  BY DEF AcquireHold, ReleaseHold, LapseHold, dbVars, saleVars, SeatsSold
<1>2. CASE AcquireHold(h)
  BY <1>1, <1>2 DEF AcquireHold, Acquire, Store!Take
<1>3. \A s \in Seats : seatKey[s] = h => s \in SeatsOf[h]
  BY DEF CheckoutInv, HoldInv
<1>4. CASE ReleaseHold(h)
  <2>1. \A s \in Seats : seatKey[s] = h <=> s \in SeatsOf[h]
    BY <1>3, <1>4 DEF ReleaseHold, Release, Live
  <2>2. seatKey' = [s \in Seats |-> IF seatKey[s] = h THEN NoHold ELSE seatKey[s]]
    BY <1>4, <2>1 DEF ReleaseHold, Release, DeleteKeys
  <2> QED
    BY <1>1, <1>4, <2>2 DEF ReleaseHold, Release, Store!GiveUp
<1>5. CASE LapseHold(h)
  <2>1. seatKey' = [s \in Seats |-> IF seatKey[s] = h THEN NoHold ELSE seatKey[s]]
    BY <1>3, <1>5 DEF LapseHold, Lapse, DeleteKeys
  <2> QED
    BY <1>1, <1>5, <2>1 DEF LapseHold, Lapse, Store!GiveUp
<1> QED
  BY <1>2, <1>4, <1>5

LEMMA FulfilSellsHold ==
  ASSUME CheckoutInv, BookedInv, NEW w \in Handlers, NEW e \in Events, Fulfil(w, e)
  PROVE  Store!Sell(HoldOf[e])
<1> USE HoldsAssumption, CheckoutAssumption DEF CheckoutInv
<1> DEFINE h == HoldOf[e]
<1>1. h \in Holds /\ h \in issued
  BY DEF Fulfil, In, HandlerInv, BookedInv
<1>2. SeatsOf[h] \cap SeatsSold = {}
  BY DEF Fulfil, CanSell, SeatsFree, SeatsSold
<1>3. seatStatus' = [s \in Seats |-> IF s \in SeatsOf[h] THEN "SOLD" ELSE seatStatus[s]]
  BY DEF Fulfil
<1>4. SeatsSold' = SeatsSold \cup SeatsOf[h]
  BY <1>1, <1>3 DEF SeatsSold
<1>5. UNCHANGED holdVars
  BY DEF Fulfil
<1> QED
  BY <1>1, <1>2, <1>4, <1>5 DEF Store!Sell, holdVars

\* However late it runs, the release meets only seats sold to its booking.
LEMMA ReleaseFreesSold ==
  ASSUME CheckoutInv, BookedInv, NEW w \in Handlers, NEW e \in Events, ReleaseSeats(w, e)
  PROVE  Store!Free(HoldOf[e])
<1> USE HoldsAssumption, CheckoutAssumption DEF CheckoutInv
<1> DEFINE h == HoldOf[e]
<1>1. h \in Holds /\ Confirmed(h)
  BY DEF ReleaseSeats, In, HandlerInv
<1>2. h \in issued
  BY <1>1 DEF Confirmed, BookedInv
<1>3. SeatsOf[h] \subseteq SeatsSold
  BY <1>1 DEF SaleInv, SalesLedger, SeatsSold
<1>4. seatKey' = [s \in Seats |-> IF s \in SeatsOf[h] THEN NoHold ELSE seatKey[s]]
  BY DEF ReleaseSeats, ReleaseConfirmedHold, DeleteKeys
<1>5. UNCHANGED <<issued, SeatsSold>>
  BY DEF ReleaseSeats, ReleaseConfirmedHold, dbVars, saleVars, SeatsSold
<1> QED
  BY <1>2, <1>3, <1>4, <1>5 DEF Store!Free

LEMMA StepIsStoreStep ==
  ASSUME CheckoutInv, BookedInv, [Next]_vars
  PROVE  [Store!Next]_(Store!storeVars)
<1>1. CASE UNCHANGED <<holdVars, saleVars>>
  BY <1>1, StoreStutters
<1>2. CASE UNCHANGED vars
  BY <1>1, <1>2 DEF vars, dbVars
<1>3. ASSUME NEW h \in Holds, HoldStep(h)
      PROVE  [Store!Next]_(Store!storeVars)
  <2>1. CASE AcquireHold(h) \/ ReleaseHold(h) \/ LapseHold(h)
    BY <2>1, HoldsAreTaken DEF Store!Next
  <2> QED
    BY <1>1, <1>3, <2>1, HoldStepFrame
<1>4. ASSUME NEW a \in Calls, NEW h \in Holds, CallStep(a, h)
      PROVE  [Store!Next]_(Store!storeVars)
  BY <1>1, <1>4, CallStepFrame
<1>5. ASSUME NEW w \in Handlers, NEW e \in Events, WebhookStep(w, e)
      PROVE  [Store!Next]_(Store!storeVars)
  <2>1. CASE Fulfil(w, e)
    BY <2>1, FulfilSellsHold, CheckoutAssumption DEF Store!Next
  <2>2. CASE ReleaseSeats(w, e)
    BY <2>2, ReleaseFreesSold, CheckoutAssumption DEF Store!Next
  <2> QED
    BY <1>1, <1>5, <2>1, <2>2, WebhookStepFrame
<1>6. CASE (\E a \in Calls : CrashCall(a)) \/ (\E w \in Handlers : CrashWebhook(w))
  BY <1>1, <1>6, CrashFrame DEF dbVars
<1>7. CASE \E e \in Events : StoreUnmatched(e) \/ IgnoreInbox(e)
  BY <1>1, <1>7, InboxFrame
<1> QED
  BY <1>2, <1>3, <1>4, <1>5, <1>6, <1>7 DEF Next

(***************************************************************************)
(* The checkout keeps the contract over Redis and PostgreSQL: it sells and *)
(* frees the seats of holds that were taken, and nobody else's.            *)
(***************************************************************************)
THEOREM CheckoutKeepsContract == Spec => CheckoutKeepsSeatStore
<1>1. CheckoutInv /\ BookedInv /\ [Next]_vars => [Store!Next]_(Store!storeVars)
  BY StepIsStoreStep
<1> QED
  BY <1>1, InitIsStoreInit, CheckoutInvariant, BookedUnderHold, PTL
     DEF Spec, CheckoutKeepsSeatStore, Store!Spec

(***************************************************************************)
(* The other side of the contract: every step that it allows the seat map, *)
(* while the checkout does nothing, is one that Checkout reckons with, so  *)
(* what is proved of Checkout does not depend on how holds come and go.    *)
(***************************************************************************)
THEOREM CheckoutReckonsWithSeatMap ==
  ASSUME CheckoutInv, NEW h \in Holds, Store!Take(h) \/ Store!GiveUp(h),
         UNCHANGED <<dbVars, envVars, procVars>>
  PROVE  [Next]_vars
<1> USE HoldsAssumption
<1>1. CASE Store!Take(h)
  <2>1. AcquireHold(h)
    BY <1>1 DEF Store!Take, AcquireHold, Acquire
  <2> QED
    BY <2>1 DEF Next, HoldStep
<1>2. CASE Store!GiveUp(h)
  <2>1. /\ seatKey' = [s \in Seats |-> IF seatKey[s] = h THEN NoHold ELSE seatKey[s]]
        /\ UNCHANGED issued
    BY <1>2 DEF Store!GiveUp
  <2>2. \A s \in Seats : seatKey[s] = h => s \in SeatsOf[h]
    BY DEF CheckoutInv, HoldInv
  <2>3. DeleteKeys({s \in SeatsOf[h] : seatKey[s] = h})
    BY <2>1, <2>2 DEF DeleteKeys
  <2>4. CASE \E s \in SeatsOf[h] : seatKey[s] = h
    <3>1. LapseHold(h)
      BY <2>1, <2>3, <2>4 DEF LapseHold, Lapse
    <3> QED
      BY <3>1 DEF Next, HoldStep
  <2>5. CASE ~\E s \in SeatsOf[h] : seatKey[s] = h
    <3>1. seatKey \in [Seats -> Holds \cup {NoHold}]
      BY DEF CheckoutInv, TypeOK, HoldTypeOK
    <3>2. \A s \in Seats : seatKey[s] # h
      BY <2>2, <2>5
    <3>3. UNCHANGED seatKey
      BY <2>1, <3>1, <3>2
    <3> QED
      BY <2>1, <3>3 DEF vars, holdVars
  <2> QED
    BY <2>4, <2>5
<1> QED
  BY <1>1, <1>2
==============================================================================
