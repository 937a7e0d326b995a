-------------------------- MODULE OutboxProperties --------------------------
(***************************************************************************)
(* What the outbox promises, the abstract notice it implements, and the    *)
(* invariant the proofs rest on.                                           *)
(***************************************************************************)
EXTENDS Outbox

\* The types, and that a worker is in the middle of one row at most.
OutboxTypeOK ==
  /\ status \in [Rows -> RowStatus]
  /\ attempts \in [Rows -> Nat]
  /\ ready \in SUBSET Rows
  /\ delivery \in [Rows -> DeliveryStatus]
  /\ tries \in [Rows -> Nat]
  /\ stage \in [Workers -> [Rows -> Stages]]
  /\ claim \in [Workers -> [Rows -> Nat]]
  /\ tried \in [Workers -> [Rows -> Nat]]
  /\ waiting \in SUBSET Workers
  /\ emails \in [Rows -> Nat]
  /\ faults \in 0 .. MaxFaults
  /\ \A w \in Workers, q, r \in Rows :
       q # r => stage[w][q] \in {"none", "queued"} \/ stage[w][r] \in {"none", "queued"}

\* Delivery is at least once and no more often than it must be: every e-mail
\* for a row beyond the first is paid for by a fault - a crash, an overrun
\* lease, a lost answer or a failing statement.  Refusals of the SMTP server
\* and the races of workers repeat nothing by themselves.
EmailsPaidFor == \A r \in Rows : emails[r] <= 1 + faults

\* Retries are bounded: every claim of a row beyond MAX_ATTEMPTS is paid for
\* by a fault, although the claim itself does not look at the attempts and a
\* worker that lost its lease puts a dead row back to PENDING.
RetriesPaidFor == \A r \in Rows : attempts[r] <= MaxAttempts + faults

\* No notice is lost without a trace: a delivery that is SENT, and the row of
\* a notice that is PROCESSED, had their e-mail accepted, whichever worker
\* marked them.
ProcessedIsSent ==
  \A r \in Rows :
    /\ delivery[r] = "SENT" => emails[r] > 0
    /\ status[r] = "PROCESSED" /\ KindOf[r] = "notice" => emails[r] > 0

\* Nothing is given up early: a row or delivery in the dead letter had all its
\* attempts, and a delivery is not tried more often than its row is claimed.
DeadIsExhausted ==
  \A r \in Rows :
    /\ status[r] = "DEAD" => attempts[r] >= MaxAttempts
    /\ delivery[r] = "DEAD" => tries[r] >= MaxAttempts
    /\ tries[r] <= attempts[r]

\* As long as nothing has failed, a closed row stays closed and a delivery
\* that was sent stays sent: workers do not undo each other's work.
OutcomesNeedFault ==
  [][faults' = 0 =>
       \A r \in Rows :
         /\ status[r] \in Closed => status'[r] = status[r]
         /\ delivery[r] = "SENT" => delivery'[r] = "SENT"]_vars

\* Every row that is written ends PROCESSED or DEAD for good.
OutboxSettles == \A r \in Rows : status[r] # "NONE" ~> [](status[r] \in Closed)

\* ADR-005: "notification status" is "the contract".  A worker that lost its
\* lease overwrites SENT.
SentIsFinal == [][\A r \in Rows : delivery[r] = "SENT" => delivery'[r] = "SENT"]_vars

\* What the customer and the operator see of a row and its delivery.
RowOutcome == [r \in Rows |-> IF status[r] \in {"PENDING", "PROCESSING"} THEN "OPEN" ELSE status[r]]

DeliveryOutcome == [r \in Rows |-> IF delivery[r] \in {"SENT", "DEAD"} THEN delivery[r] ELSE "OPEN"]

Notice == INSTANCE NoticeLife WITH outcome <- RowOutcome, told <- DeliveryOutcome,
                                   claims <- attempts, mishaps <- faults

\* However workers, leases and batches interleave, a row is taken up, tried and
\* sent in this order, an e-mail goes out only for a notice, within its tries
\* and with one repetition for each fault, and until something has failed no
\* outcome is undone.
ImplementsNoticeLife == Notice!Spec

(***************************************************************************)
(* The inductive invariant.  What can still lead to an e-mail for a row is *)
(* a worker that has not sent it and has not seen it sent, or a row that   *)
(* the workers will claim (again).                                         *)
(***************************************************************************)
Unsent == {"queued", "looked", "begun", "refused", "thrown"}

Senders(r) == {w \in Workers : stage[w][r] \in Unsent}

Returned(r) == status[r] = "PENDING" \/ (status[r] = "PROCESSING" /\ (r \in ready \/ ~InHand(r)))

Again(r) == IF Returned(r) THEN 1 ELSE 0

\* Of those, the workers whose failure puts the row back to PENDING.
Retriers(r) == {w \in Senders(r) : ~Exhausted(claim[w][r])}

EmailBudget ==
  \A r \in Rows :
    /\ emails[r] + Cardinality(Senders(r)) + Again(r) <= 1 + faults
    /\ status[r] = "NONE" => emails[r] = 0 /\ attempts[r] = 0

RetryBudget ==
  \A r \in Rows :
    Exhausted(attempts[r]) =>
      attempts[r] + Cardinality(Retriers(r)) + Again(r) <= MaxAttempts + faults

\* A claim knows the attempts of its time; claims of one row are distinct.
ClaimInv ==
  /\ \A w \in Workers, r \in Rows :
       /\ stage[w][r] # "none" => status[r] # "NONE" /\ claim[w][r] \in 1 .. attempts[r]
       /\ stage[w][r] = "none" => claim[w][r] = 0
  /\ \A v, w \in Workers, r \in Rows :
       stage[v][r] # "none" /\ stage[w][r] # "none" /\ claim[v][r] = claim[w][r] => v = w

\* Before a worker has tried the delivery, its claim is not among the tries.
Untried(r) == {w \in Workers : stage[w][r] \in {"queued", "looked"}}

TriesInv ==
  \A r \in Rows :
    /\ tries[r] + Cardinality(Untried(r)) <= attempts[r]
    /\ \A w \in Workers : tried[w][r] <= tries[r]

\* A worker that saw SENT, or has its own e-mail accepted, is right.
SentInv ==
  /\ ProcessedIsSent
  /\ \A w \in Workers, r \in Rows :
       /\ stage[w][r] = "accepted" => emails[r] > 0
       /\ stage[w][r] = "seen" /\ KindOf[r] = "notice" => emails[r] > 0

\* Without a fault whoever has a row has it alone, under a lease.
QuietInv ==
  faults = 0 =>
    /\ \A w \in Workers, r \in Rows :
         /\ stage[w][r] # "none" =>
              status[r] = "PROCESSING" /\ r \notin ready /\ claim[w][r] = attempts[r]
         /\ stage[w][r] \in {"looked", "begun", "accepted", "refused"} => delivery[r] # "SENT"
    /\ \A r \in Rows : delivery[r] = "SENT" => status[r] = "PROCESSED"

\* Only a notice is looked up and tried; an orphan is never taken for done.
JobInv ==
  \A w \in Workers, r \in Rows :
    /\ stage[w][r] \in {"looked", "begun", "accepted", "refused"} => KindOf[r] = "notice"
    /\ stage[w][r] = "seen" => KindOf[r] # "orphan"

\* A try is written down before its e-mail goes out.
Begun(r) == {w \in Workers : stage[w][r] = "begun"}

TriedFirst == \A r \in Rows : emails[r] + Cardinality(Begun(r)) <= tries[r]

OutboxInv ==
  /\ OutboxTypeOK
  /\ EmailBudget
  /\ RetryBudget
  /\ ClaimInv
  /\ TriesInv
  /\ SentInv
  /\ DeadIsExhausted
  /\ QuietInv

\* What the refinement needs besides.
DispatchInv == JobInv /\ TriedFirst
==============================================================================
