# Verification of Eventory

Eventory sells seats. This directory holds TLA+ models of the parts of it where
several processes, two stores and a payment provider have to agree, the TLC runs
that check them on small instances, and proofs, checked by TLAPS, that the most
important properties hold for instances of every size. Paths below are relative to
`src/apps/api/src/modules/` unless they start with `src/`.

## The system

| Part | State | Operations | What is hard |
|---|---|---|---|
| Seat holds (`seating/seating.service.ts`, `seat-hold.constants.ts`) | Redis: one expiring key per seat, a request key per idempotent request | hold, renew, release, ownership checks, release after confirmation | expiry at any moment, two stores that disagree, a crash between two keys |
| Bookings (`bookings/bookings.service.ts`) | PostgreSQL: booking, items, payment, events, inbox, reconciliation, tickets, allocations, counters, idempotency records | create, get, webhook, expiry, provider payment, inbox | row locks that some statements do not take, leases, late answers, crashes between transactions |
| Payment provider (`payments/`) | external | create payment (idempotent), send events | repeated, reordered, early and late events |
| Reconciliation worker (`bookings/booking-reconciliation.worker.ts`) | none (a timer per process) | recover provider payments, expire bookings, drain the inbox | runs beside the requests, in several processes |
| Operators (`admin/admin.service.ts`) | reconciliation rows, user status | resolve a reconciliation, suspend a user | a row resolved before the money it is about arrives |
| Outbox (`outbox/`) | outbox rows, deliveries | claim, dispatch, retry, dead letter | leases, crash after sending, late failure |
| Sessions (`identity/`) | refresh tokens in families | log in, rotate, detect reuse, log out | rotation racing revocation |
| Events (`events/`) | event status, sessions, ticket types | edit, transition | checks before unlocked writes |
| Check-in (`check-in/`), tickets (`tickets/`) | ticket status, check-in rows | verify, check in | two scanners, cancellation in between |
| Live updates (`seating/seating.gateway.ts`) | counters per address, rooms | connect, join, publish | counters that must return to zero, updates over an old snapshot |
| Web client (`src/apps/web/src/components/`) | seats shown, the hold and the key in `sessionStorage`, the booking shown | choose, hold, give back, check out, pay, poll | lost answers, reloads, answers and updates out of order |
| Guards (`src/apps/api/src/common/`) | rate-limit buckets | admit a request | window edges, eviction |
| Organizations, venues, analytics, audit, health, packages | rows | single transactions, queries, formatting | nothing that several actors do together |

A customer holds seats (Redis), checks out (a booking and a payment row, under one
transaction), the API asks the provider for a payment under a lease
(`providerAttemptId`, `providerAttemptedAt`), and the provider reports by webhook. A
webhook whose reference is not stored yet waits in the inbox. A successful payment is
fulfilled in one transaction if the deadline has not passed and Redis still knows the
hold; otherwise the payment becomes `REQUIRES_RECONCILIATION` and an operator gets a
row. A worker in every API process repeats provider calls whose lease ran out, expires
overdue bookings and drains the inbox. Notices to customers are rows that the
transactions of a booking write beside their own changes; an outbox worker in every API
process claims a batch of them under a lease of five minutes, sends the e-mails one by
one and records what became of each.

Around this, organizers bring events from draft to sale, customers log in and look at a
live seat map, and staff scan tickets. The seat map loads a snapshot, applies updates that
the gateway sends to the room of a session, and keeps the hold of its tab in
`sessionStorage`; the checkout page takes that hold and a fresh idempotency key, asks for
a booking and polls it. Issued tickets carry the version of the key that signs their QR
codes, and the door verifies them with whatever keys its process runs with.

What makes each part correct:

- holds: a seat is held by one customer, a hold is whole or broken only by a sale;
- bookings: a seat is sold once, all of a booking's seats or none; tickets, seats,
  counters, outbox and statuses agree; what is settled stays settled; no money is
  forgotten; no booking pends for ever;
- outbox: every notification is sent or ends in the dead letter, and a stale worker
  cannot undo what another did;
- sessions: a session does not fork, a reused token ends its family, a suspension ends
  the user's sessions;
- events, tickets, check-in: what is on sale has an inventory that no longer changes, a
  cancelled event stays cancelled, a ticket admits once and can be read as long as it is good;
- seat map: what it shows is a hint that a conflict corrects, the hold it believes in is real, and
  connections are counted right;
- asking again: a key stands for one booking, every answer is about that booking, and only a key
  before its deadline can hide that it has ended.

## Modules

| Module | Models | Correspondence |
|---|---|---|
| `SeatHolds` | the Redis keys of the seats | `seatKey[s]` is the hold in the key of seat `s`; one action per Lua script or `DEL` |
| `Checkout` (extends `SeatHolds`) | `bookings.service.ts`, the provider, the worker, operators | see below |
| `SeatSale` | the abstract promise: a seat has at most one owner, for ever | implemented by `Checkout` through `SaleOwner` and `SaleOutcome` |
| `BookingLife` | the life of a booking as its customer sees it | implemented by `Checkout` through `LifeStatus`, `Payable` and `OverdueBookings`; `Retry` is built on its actions |
| `SeatStore` | the contract over the keys and the allocations of the seats | kept by `Checkout` and by `SeatView`, each for its own steps |
| `SessionLife` | a session as one user's chain of tokens | implemented by `Sessions` through `CurrentSession` |
| `CheckoutProperties` | invariants, action properties, liveness, the three refinement mappings | |
| `CheckoutInductive` | the inductive invariant `CheckoutInv`, in named parts | |
| `CheckoutProofs` | type correctness, proved | see *Proofs* |
| `CheckoutSafety` | the invariants and the action properties, proved | see *Proofs* |
| `CheckoutRefinement` | the refinements of `SeatSale`, `BookingLife` and `SeatStore`, proved | see *Proofs* |
| `MCCheckout` | the instances of the checkout that TLC checks | one `.cfg` per run |
| `Outbox` | `outbox/outbox.service.ts`, `outbox.worker.ts`, `email.service.ts` | see below |
| `NoticeLife` | a row and its delivery as the customer and the operator know them | implemented by `Outbox` through `RowOutcome` and `DeliveryOutcome` |
| `OutboxProperties` | what the outbox promises, and the inductive invariant `OutboxInv` | |
| `OutboxProofs` | the invariant, the safety properties, the action property and the refinement, proved | see *Proofs* |
| `MCOutbox` | the instances of the outbox that TLC checks | one `.cfg` per run |
| `Sessions` | `identity/identity.service.ts`, the suspension in `admin/admin.service.ts` | see below |
| `Admission` | `events/`, `tickets/`, `check-in/` | see below |
| `SeatView` (extends `SeatHolds`) | `seating/`, `src/apps/web/src/components/seat-map.tsx` | see below |
| `Retry` (uses `BookingLife`) | `create`, `get` and the idempotency records of `bookings.service.ts`, `src/apps/web/src/components/checkout-panel.tsx` | see below |
| `SessionsProperties`, `AdmissionProperties`, `SeatViewProperties`, `RetryProperties` | what each promises, its types and its inductive invariant | |
| `SessionsProofs`, `AdmissionProofs`, `SeatViewProofs`, `RetryProofs` | the types, the invariant, every safety property and the refinements, proved | see *Proofs* |
| `MCSessions`, `MCAdmission`, `MCSeatView`, `MCRetry` | the instances that TLC checks | one `.cfg` each |

`SeatHolds` is shared: `Checkout` and `SeatView` act on the same Redis keys, each with a rough
picture of the other. `SeatView` knows that seats are sold, not how; `Checkout` knows that holds
come, go and lapse, not which tab asked. `SeatStore` is what each relies on from the other: its
actions are all that either does to a seat's key or allocation.

`Checkout` and `Retry` look at `create()` from two sides. `Checkout` has the stores and the
provider in detail and lets each hold be checked out once; `Retry` has the calls, the keys and
the records in detail, and of the booking only what an answer tells. What it assumes of the
booking is `BookingLife` - it takes that module's actions as they are - and `Checkout`
implements the same module, so the two fit by proof and not by a reader's comparison.

A booking and its payment are created together and are unique per hold
(`bookings.holdId`, `payments.bookingId`), so both are functions of the hold. A committed
transaction is one step when a row lock or a conditional update protects what it read.
Where the code decides on something nothing protects, the read and the write are separate
steps:

- `create()` reads Redis and the allocations, then inserts: `BeginCheckout`, `CommitBooking`;
- `ensureProviderPayment()` reads, claims (`ClaimAttempt` - a conditional update that takes
  no booking lock), calls the provider (`ProviderAccepts`, `CallErrors`), and stores the
  answer on the fast path (`PersistReference`) or under the booking's lock
  (`LockLateReply`, then `ReconcileLateReply`; `LockFailure`, then
  `RetryAfterFailure` or `ReconcileFailure`): a claim may come between lock and write;
- the expiry transaction locks and reads (`ReadExpired`), then writes (`CommitExpired`);
- `handlePaymentWebhook()` records the event (`RecordEvent`), applies it under the lock,
  where asking Redis (`BeginFulfilment`) and updating the seats (`Fulfil`,
  `FulfilmentConflict`) are two steps, reconciles a conflict in a second transaction
  (`ReconcileConflict`), releases the hold after the commit (`ReleaseSeats`), and, when
  called by the worker, marks the inbox row in a statement of its own (`MarkDrained`).

`Locked(h)` is the row lock of the booking: some process is between its
`SELECT ... FOR UPDATE` and its commit. Anything a process holds in memory is lost by
`CrashCall`, `CrashWebhook`, `CrashExpiry` or `AbandonCheckout`; a statement that throws
(Redis unreachable, a deadlock PostgreSQL breaks) rolls its transaction back and ends the
handler, which is the same step. `StoreUnmatched` is one step although the look-up and the
insert are two statements: the insert touches only the row of that event, which nothing
else waits for to be absent, so the two can be taken together.

Data is abstracted to what the properties tell apart. The token and the owner of a hold
are part of its identity; the amount and currency of an event are right or wrong
(`Mismatched`); the lease of an attempt is `null`, `recent` or `stale`; deadlines are the
set `overdue`; audit rows, reasons, error texts and `clientSecret` are left out. A hold may
lapse at any moment, so a renewal changes nothing here (it is an action of `SeatView`). The
events of a booking exist once the provider has its charge.

The outbox is modelled apart. `Checkout` writes its rows (`Topics`), and nothing but the
outbox reads them or writes them again, so `Enqueue` stands for that transaction.
A row is claimed for one topic and one booking, its delivery is unique by
the same two (`dedupeKey`), so both are functions of the row. `KindOf` says what a row
asks for: an e-mail, an e-mail about no booking, or nothing.

| In the code | In `Outbox` |
|---|---|
| `status`, `attempts` of `outbox_events` and of `notification_deliveries` | `status`, `attempts`; `delivery`, `tries` |
| `nextAttemptAt <= NOW()` for a pending row, the lease for one in processing | `r \in ready` |
| where `dispatch()` is with a row of the batch | `stage[w][r]` |
| `event.attempts` and `processing.attempts` in memory | `claim[w][r]`, `tried[w][r]` |
| `running`, `retryNotBefore` | `Idle(w)`, `waiting` |
| the claim, in one statement | `Claim`; `LoseClaim` when its answer is lost; `ClaimFails` |
| the statements of `dispatch()` and `markFailure()` | `FindDelivery`, `BeginDelivery`, `RecordSent`, `MarkProcessed`, `RecordFailure`, `MarkFailure` |
| `email.send()` | `SmtpAccepts`, `SmtpRefuses` |

Every statement is a step, because nothing but the claim looks at the lease: a worker that
lost it goes on. Four things count as faults, and `faults` counts them: a crash, a lease
that overruns, a statement that throws, and a statement that commits but whose answer is
lost (`Answered`), which the code takes for a failure. A refusal by the SMTP server is no
fault. `FOR UPDATE SKIP LOCKED` skips what another claim has locked, so a claim may get any
of the candidates, up to the limit; the order by `createdAt` comes back as fairness. The
lengths of the backoff and the lease are left out: while a worker has the latest claim of a
row the lease passes only as a fault (`LeaseOverruns`), and otherwise at any time
(`TimePasses`).

### Sessions

Every request is a handler with a step and what it has read (`step`, `user`, `tok`).
`IdentityService.refresh` is `ReadToken` (the look-up), `Consume` (the conditional update,
which waits for whoever holds the row and sees its result), `Rotate` (the insertion and the
commit), and, when the token turns out to be used, revoked or expired, `BeginRevocation` and
`RevokeFamily`: the revocation is a statement of its own, which fixes its rows when it starts
(`seen`), waits for those that are held, and does not see a row inserted meanwhile. `Suspend`
works alike in a transaction with the user's status. A log-in reads the status (`Login`) and
creates the session later (`IssueSession`). `Abort` loses what has not committed. A token may
expire at any time, by the clock of whichever process reads it. `overtaken`, `ended` and
`raced` are history: they say which revocations met such an insertion. Of the access token,
which lives for minutes and is checked against the user's status on each request, nothing is
kept.

### Admission

A manager's request reads the event and checks it (`CheckEdit`, `CheckTransition`), then
writes in a statement that looks at nothing (`WriteEdit`, `WriteStatus`), as the code does. The transitions are
those that have a route (`Targets`); none leads to `ONGOING` or `COMPLETED`. `edits` counts the
writes of each kind. A booking looks at the event's status (`Book`), the payment does not
(`Issue`). A scan verifies the code and finds the ticket and its event (`Scan`), then admits in a
transaction that looks at the ticket only (`CheckIn`); an operator rotates keys in the order
ADR-009 asks for (`AddKey`, `ActivateKey`, `RetireKey`), and each process gets its new
configuration when it restarts. Dates and the rights of members are left out: they refuse more
requests. `frozen` and `closed` are history: they mark the events whose sale opened, or that
were cancelled, while no other request was about them.

### SeatView

`request` holds the calls in progress, of the tabs, of other customers, and of the servers
themselves (a confirmed booking, an expired key). A customer chooses
among the seats shown as available (`Toggle`), and the tab asks for what was chosen (`selected`),
whatever the map shows of it by now. `POST holds` reads the allocations (`Ask`), replays what the request key stored or runs the script (`Replay`, `TakeHold`, `MissHold`), and
then writes the request key and tells the room (`Answer`): `Fail` in between is the crash after
which the request key is missing. A release runs its script (`Delete`), reads the allocations
(`ReadStates`) and publishes them (`Publish`), as the listener for expired keys does. `GET
availability` reads PostgreSQL (`LoadMap`), then Redis (`ReadHolds`), and its answer (`Show`)
travels beside the updates (`news`). A tab that reloads keeps only `mine`, from
`sessionStorage`. The gateway counts a socket when it connects and hears later, if ever, that it
is gone (`ghosts`, `refusals`).

### Retry

A call of `create` is `Lookup` (with `Forget` for an expired record), `CheckHold`, `Commit` or
`Violate` (a unique violation, explained by the key's record or by the hold's booking,
`Recover`), `Read` and the storing of the answer (`Lookup` again, then `Update` or `Insert`). A record
is 202 without a body, or 201 with the frozen answer. A hold stands for its booking and for the
fingerprint of a request, because session, seats and token are the hold's own; the total that a
client may send along is left out, since no page sends it. The life of the booking is seen from
outside: `Commit` makes it (`Make` of `BookingLife`), and what becomes of it meanwhile is
`Proceed`. The page is loaded with the hold and key of its tab,
asks once, polls while it shows `PENDING`, may pay, and shows whichever answer comes last.
`late` is history: it marks the calls that began after the end of their booking with no key, or
with one past its deadline (`Expired`).

Operators introduced by "A mistake to catch" are wrong forms of the definition that
follows them. No behaviour uses them: for every property, replacing a definition by such
a form makes TLC report a violation, which shows that the property can fail.

## Runs

| Run | Instance | Checks |
|---|---|---|
| `rivals` | two holds over three seats, sharing the middle one; one event each; one provider call, two handlers | `SeatsSoldOnce`, `SalesLedger`, `BrokenHoldOnlyForSoldSeats`, `ImplementsSeatSale`, `CheckoutKeepsSeatStore` |
| `payment` | one booking, two provider calls, two handlers, a success, a failure and an expiry event, one fault | `TablesAgree`, `EndsExplained`, `CaptureAccounted`, `AttemptFence`, `LateReplyTooLate`, `OutcomesStick`, `ExpiryJustified`, `ImplementsBookingLife` |
| `capacity` | two disjoint holds, two ticket types, room for one seat of the type both want | `CapacityKept` |
| `live` | one booking, a good and a mismatched event, two handlers, one fault, fairness | `InboxFollowsEvent`, `PendingEnds`, `RecordedCaptureSettles`, `MatchedInboxDrains` |
| `stranded` | one booking, one capture, one fault, fairness | finds `CaptureNeverStranded` violated |
| `visible` | one booking, one capture, one fault | finds `LateCapturesVisible` violated |
| `outbox` | two workers, one row of each kind, batches of two, two attempts, one fault, fairness | `EmailsPaidFor`, `RetriesPaidFor`, `ProcessedIsSent`, `DeadIsExhausted`, `ImplementsNoticeLife`, `OutboxSettles` |
| `sentfinal` | two workers, one row, one fault | finds `SentIsFinal` violated |
| `sessions` | two users, three tokens, two requests | `OneOpenToken`, `ReplayEndsFamily`, `SuspensionEndsSessions`, `ImplementsSessionLife` |
| `admission` | one event, two tickets, two managers, two scanners, two processes, two keys, one edit of each kind | `AdmitsOnce`, `CodesReadable`, `SoldHasInventory`, `InventoryFrozen`, `CancellationHolds` |
| `seatview` | one seat, two holds, one tab and other customers, two calls at a time, one connection, one update under way, one fault, fairness | `BelievedHoldsReal`, `ConnectionsCounted`, `MapLearns`, `SeatMapKeepsSeatStore` |
| `retry` | two holds, one key, one page, one call by other means, two calls at a time, one fault, fairness | `KeyBindsOneBooking`, `AnswersTrue`, `PagesSettle` |

Why these bounds: interference over seats needs two bookings that share a seat and a seat
that they do not share (a hold can then be broken in part); interference over a payment is
between two calls, two handlers and the worker, all of one booking; the third event of the
`payment` run makes every order of two different outcomes and a repetition possible. One
fault (`MaxFaults = 1`, a crash or a provider error) is enough to leave each intermediate
state behind; the lease takeover it allows brings two calls into the same claim. Handlers,
calls and deliveries are reused without bound. Deadlock is not checked: a system whose
bookings have all ended and whose holds are all issued stops.

For the outbox, a worker that lost its lease needs a second one to lose it to; a batch
needs two rows, and a third is left for the other worker; two attempts tell the first failure
from the last; one fault makes a first e-mail repeat and a dead row come back. More faults
add more repetitions of the same kind: the theorems below hold for any number. An outbox
whose rows are all closed stops, so deadlock is not checked.

For sessions, every race is between two requests; three tokens are a log-in and two
rotations of it, or a rotation and another log-in of the same user or of another. For admission, two
managers race each other, two scanners one ticket, two processes are the ones with and without
the new configuration; one event is enough, since nothing relates two events, and one edit of
each kind makes an inventory. The edits are what `MaxEdits` bounds. For the seat map, the holds of a
tab and of a rival want the same seat, two calls are one call that another overtakes, and one
fault is a lost answer, a crash between two steps, a dropped connection or a reload;
`MaxConnections` of one makes the second socket of the address (after a reload or a drop the
gateway has not heard of) a refused one. For retries, the second hold is what makes a reused key
wrong, and one call beside those of the page may use it. These three have no deadlock check
for the same reason: bookings end, bounds are used up. The theorems hold for every number of
all of these.

The types and the inductive invariants of all modules were checked by TLC on these instances
before they were proved; now that they are theorems the runs no longer check them.

Three runs show a disagreement between the code and what its documents say.

- `stranded`: the claim in `bookings.service.ts:893` takes no booking lock and does not look
  at the booking. The expiry transaction read the payment as `PENDING`, the claim makes it
  `PROCESSING`, the expiry writes `EXPIRED` over it; or a provider call fails in time, the
  payment goes back to `PENDING` and the booking expires. The provider created the payment
  in both cases, its capture finds no reference and waits in the inbox, and no one retries an
  `EXPIRED` payment. The release plan promises that a first successful payment after expiry
  is never stranded.
- `visible`: a provider reply that came late opens the payment's only reconciliation row; an
  operator resolves it; the capture that arrives then is `IGNORED`, and no `OPEN` row shows
  it. The payment sequence promises that late captures remain visible in the count of open
  reconciliations.
- `sentfinal`: the `catch` of `dispatch()` (`outbox.service.ts:140-149`) covers the
  transaction that records `SENT` as well as the e-mail, and names the delivery by its id
  alone. When that transaction commits and its answer is lost, or another worker recorded
  `SENT` since the lease passed, `SENT` becomes `FAILED` or `DEAD` and the e-mail is sent
  again or the row is buried, although the customer was told. `BeginDelivery` overwrites
  `SENT` in the same way. ADR-005 allows duplicates but calls the notification status the
  contract: retries that observe `SENT` are to skip the delivery. `EmailsPaidFor` and
  `RetriesPaidFor` show that the damage is bounded, and `OutcomesNeedFault` that it never
  comes from the workers' races alone.

## Fairness

`FairSpec` assumes what the code schedules. Time passes (`TimeFairness`). A call or
handler under way goes on unless it crashes: every `await` returns or throws, the provider
client included (`ProcessFairness`). The worker's timer fires every five seconds and looks
for candidates again, so what stays a candidate is taken up; draining needs strong fairness
because other handlers may occupy the slots (`WorkerFairness`) - this stands for fewer
than fifty rows in the inbox that cannot be matched, the worker's batch. The provider
repeats a delivery that was answered with an error after the event was recorded
(`ProviderFairness`). Nothing is assumed of customers and operators.

`FairSpec` of `SeatView` assumes only that a tab whose call failed goes on to load the map
(the `finally` of its handlers): calls may hang, answers and updates may never come, and no
connection need be made. `FairSpec` of `Retry` assumes that calls are served, and that the
two-second timer of an open page gets its poll through again and again. The latter is strong
fairness because the model bounds the calls in progress, which the program does not: a slot
need not be free each time. Neither assumes that a customer asks, pays or reloads.

`FairSpec` of `Outbox` assumes that backoffs and leases pass; that a dispatch under way goes
on unless its process crashes, each statement and the SMTP client (which has timeouts, in
`email.service.ts:16-18`) succeeding or throwing; and that a row that is a candidate again
and again is claimed again and again: the timers fire every second, the oldest candidates go
first, and since a row that only fails leaves after its last attempt, no row has older ones
before it for ever. The last is strong fairness, because a worker is busy or waiting in
between. SMTP may refuse for ever, and nothing is assumed of when rows are written.

## Proofs

The theorems hold for every number of seats, holds, ticket types, events, calls, handlers
and faults, and every choice of seats per hold and capacity. They assume `HoldsAssumption`
(every hold asks for at least one seat of the session) and `CheckoutAssumption` (finitely
many seats, the types of the constants) and nothing about scheduling.

- `CheckoutProofs`: `TypeCorrect`. `TypeOK` is inductive by itself.
- `CheckoutSafety`: `CheckoutInvariant`, `Spec => []CheckoutInv`, and what follows from it:
  one theorem for each safety invariant the runs check, and for the action properties
  `OutcomesStick` and `ExpiryJustified`; then `ReferencesAreCharges` and `EveryEndExplained`.
- `CheckoutRefinement`: `CheckoutSellsSeats`, `CheckoutLivesBookings` and
  `CheckoutKeepsContract`, the refinements of `SeatSale`, `BookingLife` and `SeatStore`, and
  `CheckoutReckonsWithSeatMap`.
- `OutboxProofs`: `OutboxInvariant`, one theorem for each safety property of the outbox, and
  `NoticesLive`, the refinement of `NoticeLife`.
- `SessionsProofs`, `AdmissionProofs`, `SeatViewProofs`, `RetryProofs`: the types and the
  inductive invariant (`SessionsCorrect`, `AdmissionCorrect`, `SeatViewCorrect`,
  `RetryCorrect`), and one theorem for each safety invariant and action property of the module;
  `SeatMapKeepsContract` and `SessionsLive`, the refinements of `SeatStore` and `SessionLife`.

Only `TypeOK` and `CapacityKept` are inductive as they stand. The other properties need to
know what a process relies on between two of its steps, so `CheckoutInv` adds:

| Part | Says | Needed because |
|---|---|---|
| `HoldInv` | a key carries only an issued hold that asked for its seat | a fresh hold must not be broken already |
| `SaleInv` | the ledger, and with it that no seat is sold twice | the seats of a confirmed booking are `SOLD`, so the conditional update of a rival misses |
| `PaymentInv` | which payment statuses go with which booking status, claim and reference | a late reply or a webhook must find a payment it may move |
| `EventInv` | an event of the wrong amount is never recorded | the worker's `IGNORED` must be final |
| `LockInv` | the row lock has one owner | makes the next three parts stable |
| `ExpiryInv` | the open expiry transaction found a pending, overdue booking | it writes `EXPIRED` without looking again |
| `CallInv` | a call that has the lock works for a booking that pends or has expired | it must not reopen a confirmed one |
| `HandlerInv` | a handler's event is recorded, and its booking pends while it fulfils | Redis was asked before PostgreSQL is |
| `LateReplyTooLate` | a reply the fast path refused is for a booking that ended | `ExpiryJustified` rests on it |

The proof is in three layers. Frame lemmas say what each kind of step leaves alone.
`AdvanceStep` says that nothing settled is undone, and `WritesUnderLockStep` that whoever
changes an existing booking or disposes of an event either found the lock free or owns it
and gives it up in that step; with `LockInv` this shows that what a lock owner has read is
still true when it writes. Then there is one lemma per part of `CheckoutInv`, by cases on
the action. The claim of a payment is the update that does not respect the lock: it
changes neither bookings nor events, so it does not disturb the argument, and `CallInv`,
which must survive a claim taken over, is about the booking only.

`EndsExplained` looks back: whoever has a ticket paid for it. `CheckoutInv` knows that a
confirmed booking has a reference, and that a fulfilling handler has a recorded capture of the
right amount; what is missing is that the reference is of a payment the provider made, although
calls crash, time out and are taken over between its answer and the storing of it. That is
`ChargeInv`. The events that explain an end are never unmade (`AdvanceStep`), and a deadline is
forgotten only of a booking that was never inserted (`OverdueStays`).

### The refinements

Each is a mapping of the state, and a proof that the initial states map to initial states and
every step to a step or a stutter. What the mapped step's guard asks for comes from the inductive
invariant, or from a further one proved beside it:

| Theorem | Mapping | Needs besides the inductive invariant |
|---|---|---|
| `CheckoutSellsSeats` | `SaleOwner` is the booking with a ticket for the seat, unique by `SaleInv`; a fulfilment is `Sell`, any other end of a pending booking `Close` | - |
| `CheckoutLivesBookings` | `EXPIRED` and `PAYMENT_FAILED` both show as `FAILED`; `Payable` are the bookings with a reference; a deadline counts once the row is there | - |
| `CheckoutKeepsContract` | the keys, the holds issued, the seats that are `SOLD` | `BookedInv`: a booking, or a request about to insert one, has a hold that was issued |
| `SeatMapKeepsContract` | the same, from the seat map's state | `KeysInv`: a key carries only a hold that asked for its seat |
| `SessionsLive` | `CurrentSession` is the owner and the open token of a family, unique by `OneOpenToken`; tokens are drawn when their row is there | `TokensInv`: only rows that exist are used, revoked or seen by an `UPDATE` |
| `NoticesLive` | pending and processing rows show as `OPEN`, deliveries that are neither `SENT` nor `DEAD` too; faults are mishaps | `DispatchInv`: only notices are tried, and e-mails and workers about to send come to no more than the tries |

`BookingLife` is where `Checkout` and `Retry` meet. The hard half is that without a reference only
the deadline ends a booking. A handler has a recorded event, whose booking has its reference
(`HandlerInv`); the worker found the booking overdue (`ExpiryInv`); and the reply of a provider
that comes too late for the fast path belongs to a booking whose time is over (`LateReplyTooLate`).
What the proofs of `Retry` take from the module: an end is final, so an answer that reports one
stays true however long it is kept; a reference is never lost, so a payment once offered is
still there; and a deadline stays passed, so a record may be forgotten after it.

`SeatStore` is where `Checkout` and `SeatView` meet. Both keep it, and
`CheckoutReckonsWithSeatMap` closes the circle: every step it allows the seat map is one that
`Checkout` allows its environment. So nothing proved of the checkout depends on how tabs, retries
and renewals come by their holds. From the contract alone follows that a hold that kept a seat
kept all of them, but for seats sold (`ContractKeepsHoldsWhole`); by refinement it holds of
the seat map (`SeatMapKeepsHoldsWhole`).

`SessionLife` says what `OneOpenToken` does not: that the next token is a new one, of the same
user, and that a family which lost its last token stays without - a rotation that overtakes a
revocation is still a rotation, of a session that has not ended yet. `SessionsEndForGoodHolds`, an
action property, says which statements end a session - a log-out with the good token, and the
revocation after a replay or a suspension unless an insertion overtook it (`EndsSession`) - and
that a session without a good token stays without.

`NoticeLife` knows no workers, batches or leases. Its guards are the promises of the outbox in one
place: e-mails within tries within claims, claims and repetitions paid for by mishaps, the dead
letter only after the last attempt, and no outcome undone before something has gone wrong. Each
follows from `OutboxInv` (below) in the state before the step, so a mishap cannot pay for the step
it comes with. `OutcomesNeedFault`, that workers' races alone undo no outcome, is proved from these
guards (`OutcomesHoldWithoutFault`) and is therefore checked by no run of its own.

### The outbox

The theorems about the outbox hold for every set of rows, finitely many workers, every batch
size, limit of attempts and number of faults (`OutboxAssumption`). Only the types are
inductive as they stand. A bound on e-mails has to count what may still lead to one:

| Part of `OutboxInv` | Says | Used for |
|---|---|---|
| `EmailBudget` | e-mails of a row, workers that have a claim of it and no accepted e-mail (`Senders`), and one more if it will be claimed (`Again`), come to at most one more than the faults | `EmailsPaidFor` |
| `RetryBudget` | once a row has used its attempts, the same for attempts and the workers that would put it back to `PENDING` (`Retriers`) | `RetriesPaidFor` |
| `ClaimInv` | a claim knows the attempts of its time, and claims of one row are distinct | at most one worker has the latest claim, so a lease that passes harmlessly (`TimePasses`) is nobody's |
| `TriesInv` | each try of a delivery is a claim's own | `DeadIsExhausted` for deliveries |
| `SentInv` | a worker that saw `SENT`, or had its e-mail accepted, is right about it | `ProcessedIsSent` |
| `QuietInv` | without a fault, whoever has a row has it alone | `OutcomesNeedFault` |

A claim moves one unit of the budget from the row to a worker, an accepted e-mail moves it
from the worker to the e-mails, a failure moves it back to the row, and a second worker comes
to a row only by an overrun lease, which pays for it. `Shape` gathers what all the steps of a
dispatch have in common - one worker, one row, where its stage goes - so that each part is
proved once for all of them, and once for claims, for time and for crashes.

### The other modules

The other four modules are proved along the same lines, for every value of their constants
under the `ASSUME` of each. What their invariants add to the properties:

| Module | Part | Says | Used for |
|---|---|---|---|
| `Sessions` | `RequestInv` | who rotates a token has its row locked, alone, and the token is open | `OneOpenToken`: the new token takes the place of the old one |
| | `FamilyInv`, `EndedInv` | a family is named after a token that exists, so no fresh token joins an ended family | `ReplayEndsFamily` |
| | `UpdateInv` | an update that no insertion overtook sees every open token it is about | both revocations |
| | `SuspensionInv` | a log-in under way for a suspended user raced the suspension | `SuspensionEndsSessions` |
| `Admission` | `TransitionInv` | a pending write of a status saw the inventory, which only grows | `SoldHasInventory` |
| | `FrozenInv` | requests about a frozen event write statuses past the draft only | `InventoryFrozen` |
| | `ClosedInv` | nothing is under way for a closed event | `CancellationHolds` |
| | `KeysInv` | each process runs the planned or the prior configuration, and both verify what either signs | `CodesReadable`, of single issued tickets |
| `SeatView` | `LifeInv` | an issued hold is live, due, given back or sold | `BelievedHoldsReal` |
| | `MineInv`, `CallsInv` | tabs and calls know only issued holds | the steps of `LifeInv` |
| `Retry` | `RecordKept` | a bound key has its record until the deadline | `KeyBindsOneBooking` |
| | `RecordsInv`, `CallsInv`, `ViewsInv` | each record, call and page tells of its own booking, and of an end only when it is the end; a late call carries no `PENDING` answer; a call that forgets a record saw it overdue | `AnswersTrue` |

Liveness needs fairness and `ENABLED`, which are out of the prover's reach: `PendingEnds`,
`RecordedCaptureSettles`, `MatchedInboxDrains`, `OutboxSettles`, `MapLearns` and
`PagesSettle` are checked by TLC only.

## Where documents and code differ

Three differences have runs (`stranded`, `visible`, `sentfinal`). The others met on the way are
modelled as the code has them:

- The map and reconnects: `docs/adr/ADR-003-redis-temporary-seat-holds.md:19` and
  `docs/architecture/seat-reservation-sequence.md:33` say that clients refresh the availability
  after a reconnect. `seat-map.tsx:86-89` only joins the room again, so updates missed in between
  stay missed until the next conflict, release or expiry of the tab's own hold. `MapLearns`
  says what is left of the promise: a tab that keeps being turned away from a sold seat ends by
  showing it as sold.
- Conflicts and the choice: after a refusal the map is loaded again, as the same documents say, but
  the seats chosen before it stay chosen (`seat-map.tsx:150-160`). One that is held or sold by now
  cannot be deselected (127, 218) and the button stays enabled (290), so the tab may ask again for
  the same seat, and be refused, until the page is loaded again. `Ask` and `Toggle` have it so,
  and no property says that the refusals end.
- Frozen answers: `plans/20260801-release-hardening/reports/260801-payment-integrity-prediction.md:48`
  asks to "reject expired keys rather than replaying stale JSON". An expired record is indeed not
  replayed; but until its deadline a key replays the answer frozen while the booking was `PENDING`
  (`bookings.service.ts:1177`), with its payment, even when the booking has failed meanwhile, and
  the page offers that payment (`checkout-panel.tsx:150`) until its poll tells it better.
  `AnswersTrue` says how far this goes: a call that begins after the end is told of it if it has
  no key or its key's deadline has passed. `PagesSettle` says that the page learns it.
- Used tickets and retired keys: ADR-009 lets a key be removed once every ticket signed with it
  has expired or been reissued. `tickets.service.ts:48-59` signs the codes of all tickets of a user, used and
  past ones too, so that one such ticket fails the whole list. The model's operators retire a
  key when no *issued* ticket has it. `CodesReadable` is about verifying an issued ticket, and
  opening it singly (`getForUser`); the list is neither modelled nor promised.
- Revocations are statements that a rotation or a log-in can overtake:
  `docs/adr/ADR-006-cookie-based-authentication.md:12` says "Reuse or replay revokes every token
  in the family". `ReplayEndsFamily` and `SuspensionEndsSessions` name the exceptions (`ended`,
  `raced`); a suspended user's requests are refused by the guard as long as he is suspended, but
  the session comes back with his reinstatement.
- Unlocked transitions: `event-lifecycle.ts` has no way out of `CANCELLED`, but a request that
  read the event before the cancellation writes its own status after it. `CancellationHolds`
  is about cancellations that nothing races.

Smaller observations, none of which breaks a property: the availability is read from PostgreSQL,
then Redis, and may show as available a seat that was held, then sold, throughout; the
notification of an expired key publishes the allocations over a newer `held`; a tab that lost
the answer to its hold asks again under a fresh request key (`seat-map.tsx:143`) and is refused
its own seats until they lapse.

## Not modelled

- The batch of the worker: it takes the fifty oldest inbox rows, and a row that throws ends the
  cycle. `Checkout` drains any row, under the fairness stated above; an instance with more than
  fifty rows is beyond TLC.
- The rate limiter: a counter per process, window and address that nothing else reads.
- The guards: predicates on one request. What they look up (the user's status, a member's role)
  only refuses requests.
- In the gateway, the limit of joins per minute; in the web client, the camera loop of the
  scanner, forms and the remaining pages.
- Of events, dates and the mapping of seats to ticket types; of the outbox, the age of rows
  (`ORDER BY "createdAt"`) and the lengths of delays.
- Organizations, venues, analytics, audit, health, metrics and error formatting: single
  transactions, queries, formatting. QR signing itself is cryptography. Configuration and contracts
  are data.
