------------------------------- MODULE Outbox -------------------------------
(***************************************************************************)
(* The transactional outbox: outbox.service.ts and outbox.worker.ts over   *)
(* PostgreSQL and an SMTP server.                                          *)
(*                                                                         *)
(* Every API process runs a worker.  One statement claims a batch of rows; *)
(* the worker then dispatches them one by one, and each statement of a     *)
(* dispatch is a step.  Nothing but the claim looks at the lease: a worker *)
(* that lost it goes on, and its writes name the row only by its id.       *)
(* A row and its delivery (unique by topic and booking) go together.       *)
(***************************************************************************)
EXTENDS Naturals, FiniteSets

CONSTANTS
  Rows,         \* the outbox rows ever written
  Workers,      \* the API processes that run an outbox worker
  KindOf,       \* what a row asks for: a "notice", a notice of no booking ("orphan"),
                \* or a topic nobody is notified of ("silent")
  BatchSize,    \* the limit of a claim
  MaxAttempts,  \* MAX_ATTEMPTS
  MaxFaults     \* bound on crashes, overrun leases, lost answers and failing statements

ASSUME OutboxAssumption ==
  /\ IsFiniteSet(Workers)
  /\ KindOf \in [Rows -> {"notice", "orphan", "silent"}]
  /\ BatchSize \in Nat
  /\ MaxAttempts \in Nat \ {0}
  /\ MaxFaults \in Nat

VARIABLES
  (* PostgreSQL *)
  status,     \* OutboxEvent.status of each row, or "NONE" before it is written
  attempts,   \* OutboxEvent.attempts
  ready,      \* the rows whose nextAttemptAt or, while PROCESSING, lease has passed
  delivery,   \* NotificationDelivery.status, or "NONE"
  tries,      \* NotificationDelivery.attempts
  (* what each worker has in memory *)
  stage,      \* how far it is with each row of its batch
  claim,      \* the attempts that its claim of the row returned (event.attempts)
  tried,      \* the attempts its update of the delivery returned (processing.attempts)
  waiting,    \* the workers that wait after a failed claim (retryNotBefore)
  (* the environment *)
  emails,     \* how many e-mails the SMTP server accepted for each row
  faults      \* how many faults have happened

rowVars == <<status, attempts, ready>>
deliveryVars == <<delivery, tries>>
workerVars == <<stage, claim, tried>>
vars == <<rowVars, deliveryVars, workerVars, waiting, emails, faults>>

Closed == {"PROCESSED", "DEAD"}
RowStatus == {"NONE", "PENDING", "PROCESSING"} \cup Closed
DeliveryStatus == {"NONE", "PENDING", "PROCESSING", "SENT", "FAILED", "DEAD"}

\* Queued; delivery looked up; SENT was seen; attempt begun; e-mail accepted;
\* thrown inside the inner try, and out of dispatch().
Stages == {"none", "queued", "looked", "seen", "begun", "accepted", "refused", "thrown"}

Init ==
  /\ status = [r \in Rows |-> "NONE"]
  /\ attempts = [r \in Rows |-> 0]
  /\ ready = {}
  /\ delivery = [r \in Rows |-> "NONE"]
  /\ tries = [r \in Rows |-> 0]
  /\ stage = [w \in Workers |-> [r \in Rows |-> "none"]]
  /\ claim = [w \in Workers |-> [r \in Rows |-> 0]]
  /\ tried = [w \in Workers |-> [r \in Rows |-> 0]]
  /\ waiting = {}
  /\ emails = [r \in Rows |-> 0]
  /\ faults = 0

Fault == faults < MaxFaults /\ faults' = faults + 1

Idle(w) == \A r \in Rows : stage[w][r] = "none"

Goto(w, r, next) == stage' = [stage EXCEPT ![w][r] = next] /\ UNCHANGED <<claim, tried>>

EndJob(w, r) ==
  /\ stage' = [stage EXCEPT ![w][r] = "none"]
  /\ claim' = [claim EXCEPT ![w][r] = 0]
  /\ tried' = [tried EXCEPT ![w][r] = 0]

\* The statement has committed; its answer arrives, or is lost and throws.
Answered(w, r, next, onError) ==
  \/ Goto(w, r, next) /\ UNCHANGED faults
  \/ Goto(w, r, onError) /\ Fault

AnsweredLast(w, r, onError) ==
  \/ EndJob(w, r) /\ UNCHANGED faults
  \/ Goto(w, r, onError) /\ Fault

\* The row is written by the transaction of a booking.
Enqueue(r) ==
  /\ status[r] = "NONE"
  /\ status' = [status EXCEPT ![r] = "PENDING"]
  /\ ready' = ready \cup {r}
  /\ UNCHANGED <<attempts, deliveryVars, workerVars, waiting, emails, faults>>

(***************************************************************************)
(* Claiming.  Rows that another statement has locked are skipped, so a     *)
(* claim may get any of the candidates; their age is left out.             *)
(***************************************************************************)
\* A mistake to catch: the lease is not looked at.
ClaimableAnyTime(r) ==
  \/ status[r] = "PENDING" /\ r \in ready
  \/ status[r] = "PROCESSING"

\* A mistake to catch: a row that was claimed is never claimed again.
ClaimableOnce(r) == status[r] = "PENDING" /\ r \in ready

Claimable(r) ==
  \/ status[r] = "PENDING" /\ r \in ready
  \/ status[r] = "PROCESSING" /\ r \in ready

\* What the claim of the rows S writes.
TakeRows(S) ==
  /\ status' = [r \in Rows |-> IF r \in S THEN "PROCESSING" ELSE status[r]]
  /\ attempts' = [r \in Rows |-> IF r \in S THEN attempts[r] + 1 ELSE attempts[r]]
  /\ ready' = ready \ S

Candidates(w, S) ==
  /\ w \notin waiting
  /\ Idle(w)
  /\ S # {}
  /\ Cardinality(S) <= BatchSize
  /\ \A r \in S : Claimable(r)

Claim(w, S) ==
  /\ Candidates(w, S)
  /\ TakeRows(S)
  /\ stage' = [stage EXCEPT ![w] = [r \in Rows |-> IF r \in S THEN "queued" ELSE "none"]]
  /\ claim' = [claim EXCEPT ![w] = [r \in Rows |-> IF r \in S THEN attempts[r] + 1 ELSE 0]]
  /\ UNCHANGED <<deliveryVars, tried, waiting, emails, faults>>

\* The claim commits, but the worker does not learn of it.
LoseClaim(w, S) ==
  /\ Candidates(w, S)
  /\ TakeRows(S)
  /\ waiting' = waiting \cup {w}
  /\ Fault
  /\ UNCHANGED <<deliveryVars, workerVars, emails>>

ClaimFails(w) ==
  /\ w \notin waiting
  /\ Idle(w)
  /\ waiting' = waiting \cup {w}
  /\ Fault
  /\ UNCHANGED <<rowVars, deliveryVars, workerVars, emails>>

BackoffPasses(w) ==
  /\ w \in waiting
  /\ waiting' = waiting \ {w}
  /\ UNCHANGED <<rowVars, deliveryVars, workerVars, emails, faults>>

\* Some worker is still busy with the row's latest claim.
InHand(r) ==
  status[r] = "PROCESSING" /\ \E w \in Workers : stage[w][r] # "none" /\ claim[w][r] = attempts[r]

TimePasses(r) ==
  /\ status[r] \in {"PENDING", "PROCESSING"}
  /\ r \notin ready
  /\ ~InHand(r)
  /\ ready' = ready \cup {r}
  /\ UNCHANGED <<status, attempts, deliveryVars, workerVars, waiting, emails, faults>>

\* The worker takes longer over its batch than the lease lasts.
LeaseOverruns(r) ==
  /\ r \notin ready
  /\ InHand(r)
  /\ ready' = ready \cup {r}
  /\ Fault
  /\ UNCHANGED <<status, attempts, deliveryVars, workerVars, waiting, emails>>

(***************************************************************************)
(* Dispatch.  A batch is worked off one row at a time.                     *)
(***************************************************************************)
Startable(w, r) ==
  /\ stage[w][r] = "queued"
  /\ \A q \in Rows \ {r} : stage[w][q] \in {"none", "queued"}

\* A mistake to catch: a delivery that exists is taken for one that was sent.
AnyDelivery(r) == delivery[r] # "NONE"

AlreadySent(r) == delivery[r] = "SENT"

SkipTopic(w, r) ==
  /\ Startable(w, r)
  /\ KindOf[r] = "silent"
  /\ Goto(w, r, "seen")
  /\ UNCHANGED <<rowVars, deliveryVars, waiting, emails, faults>>

RejectOrphan(w, r) ==
  /\ Startable(w, r)
  /\ KindOf[r] = "orphan"
  /\ Goto(w, r, "thrown")
  /\ UNCHANGED <<rowVars, deliveryVars, waiting, emails, faults>>

\* The upsert, which leaves a delivery that exists as it is.
FindDelivery(w, r) ==
  /\ Startable(w, r)
  /\ KindOf[r] = "notice"
  /\ delivery' = [delivery EXCEPT ![r] = IF @ = "NONE" THEN "PENDING" ELSE @]
  /\ Answered(w, r, IF AlreadySent(r) THEN "seen" ELSE "looked", "thrown")
  /\ UNCHANGED <<rowVars, tries, waiting, emails>>

MarkProcessed(w, r) ==
  /\ stage[w][r] = "seen"
  /\ status' = [status EXCEPT ![r] = "PROCESSED"]
  /\ AnsweredLast(w, r, "thrown")
  /\ UNCHANGED <<attempts, ready, deliveryVars, waiting, emails>>

\* Whatever became of the delivery since it was looked up.
BeginDelivery(w, r) ==
  /\ stage[w][r] = "looked"
  /\ delivery' = [delivery EXCEPT ![r] = "PROCESSING"]
  /\ tries' = [tries EXCEPT ![r] = @ + 1]
  /\ \/ /\ stage' = [stage EXCEPT ![w][r] = "begun"]
        /\ tried' = [tried EXCEPT ![w][r] = tries[r] + 1]
        /\ UNCHANGED <<claim, faults>>
     \/ Goto(w, r, "thrown") /\ Fault
  /\ UNCHANGED <<rowVars, waiting, emails>>

\* A timeout may hide that the server accepted the e-mail.
SmtpAccepts(w, r) ==
  /\ stage[w][r] = "begun"
  /\ emails' = [emails EXCEPT ![r] = @ + 1]
  /\ Answered(w, r, "accepted", "refused")
  /\ UNCHANGED <<rowVars, deliveryVars, waiting>>

SmtpRefuses(w, r) ==
  /\ stage[w][r] = "begun"
  /\ Goto(w, r, "refused")
  /\ UNCHANGED <<rowVars, deliveryVars, waiting, emails, faults>>

\* One transaction updates the delivery and the row.
RecordSent(w, r) ==
  /\ stage[w][r] = "accepted"
  /\ delivery' = [delivery EXCEPT ![r] = "SENT"]
  /\ status' = [status EXCEPT ![r] = "PROCESSED"]
  /\ AnsweredLast(w, r, "refused")
  /\ UNCHANGED <<attempts, ready, tries, waiting, emails>>

\* A mistake to catch: one attempt more than the limit.
ExhaustedLater(n) == n > MaxAttempts

\* A mistake to catch: one attempt less than the limit.
ExhaustedSooner(n) == n + 1 >= MaxAttempts

Exhausted(n) == n >= MaxAttempts

RecordFailure(w, r) ==
  /\ stage[w][r] = "refused"
  /\ delivery' = [delivery EXCEPT ![r] = IF Exhausted(tried[w][r]) THEN "DEAD" ELSE "FAILED"]
  /\ Goto(w, r, "thrown")
  /\ UNCHANGED <<rowVars, tries, waiting, emails, faults>>

\* Written by the row's id, whoever has the row by now.
MarkFailure(w, r) ==
  /\ stage[w][r] = "thrown"
  /\ status' = [status EXCEPT ![r] = IF Exhausted(claim[w][r]) THEN "DEAD" ELSE "PENDING"]
  /\ ready' = ready \ {r}
  /\ EndJob(w, r)
  /\ UNCHANGED <<attempts, deliveryVars, waiting, emails, faults>>

\* A statement throws and changes nothing; one inside the inner try is followed
\* by RecordFailure, and a failing markFailure is only logged.
StatementFails(w, r) ==
  /\ \/ Startable(w, r) /\ KindOf[r] = "notice" /\ Goto(w, r, "thrown")
     \/ stage[w][r] \in {"seen", "looked", "refused"} /\ Goto(w, r, "thrown")
     \/ stage[w][r] = "accepted" /\ Goto(w, r, "refused")
     \/ stage[w][r] = "thrown" /\ EndJob(w, r)
  /\ Fault
  /\ UNCHANGED <<rowVars, deliveryVars, waiting, emails>>

Crash(w) ==
  /\ ~Idle(w)
  /\ stage' = [stage EXCEPT ![w] = [r \in Rows |-> "none"]]
  /\ claim' = [claim EXCEPT ![w] = [r \in Rows |-> 0]]
  /\ tried' = [tried EXCEPT ![w] = [r \in Rows |-> 0]]
  /\ Fault
  /\ UNCHANGED <<rowVars, deliveryVars, waiting, emails>>

\* What a worker does next with a row of its batch, when no statement fails.
Dispatch(w, r) ==
  \/ SkipTopic(w, r) \/ RejectOrphan(w, r) \/ FindDelivery(w, r) \/ MarkProcessed(w, r)
  \/ BeginDelivery(w, r) \/ SmtpAccepts(w, r) \/ SmtpRefuses(w, r)
  \/ RecordSent(w, r) \/ RecordFailure(w, r) \/ MarkFailure(w, r)

Next ==
  \/ \E r \in Rows : Enqueue(r) \/ TimePasses(r) \/ LeaseOverruns(r)
  \/ \E w \in Workers, S \in SUBSET Rows : Claim(w, S) \/ LoseClaim(w, S)
  \/ \E w \in Workers : ClaimFails(w) \/ BackoffPasses(w) \/ Crash(w)
  \/ \E w \in Workers, r \in Rows : Dispatch(w, r) \/ StatementFails(w, r)

Spec == Init /\ [][Next]_vars

(***************************************************************************)
(* Fair scheduling.  Time passes, a dispatch under way goes on unless its  *)
(* process crashes, and the timers claim a row that is a candidate again   *)
(* and again: older rows go first, but leave after their last attempt.     *)
(***************************************************************************)
FairSpec ==
  /\ Spec
  /\ \A r \in Rows : WF_vars(TimePasses(r))
  /\ \A w \in Workers : WF_vars(BackoffPasses(w))
  /\ \A w \in Workers, r \in Rows : WF_vars(Dispatch(w, r))
  /\ \A r \in Rows : SF_vars(\E w \in Workers, S \in SUBSET Rows : r \in S /\ Claim(w, S))
==============================================================================
