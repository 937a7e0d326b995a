-------------------------- MODULE RetryProperties ---------------------------
(***************************************************************************)
(* What asking again promises, and the invariant the proofs rest on.       *)
(***************************************************************************)
EXTENDS Retry

Views == [of : Holds \cup {NoHold}, status : Ends \cup {"NONE", "PENDING"}, payable : BOOLEAN]
Records == [of : Holds \cup {NoHold}, body : Views]
Calls == [pc : Pcs, by : Tabs \cup {Nobody}, key : Keys \cup {NoKey}, of : Holds \cup {NoHold},
          for : Purposes, try : BOOLEAN, seen : Holds \cup {NoHold}, answer : Views,
          late : BOOLEAN]

StoreOK ==
  /\ reference \subseteq Holds /\ overdue \subseteq Holds
  /\ booking \in [Holds -> Ends \cup {"NONE", "PENDING"}]
RecordsOK == record \in [Keys -> Records] /\ bound \subseteq Keys \X Holds
CallsOK == request \in [Requests -> Calls]
TabsOK ==
  /\ page \in [Tabs -> {"closed", "open"}]
  /\ view \in [Tabs -> Views]
  /\ kept \subseteq Tabs
  /\ asks \in Nat /\ faults \in Nat

\* The types of the stores, the records, the calls and the pages.
RetryTypeOK == StoreOK /\ RecordsOK /\ CallsOK /\ TabsOK

\* Under one key there is one booking at a time: however calls with the key
\* interleave, fail and find its record expired, two bookings that the key was
\* bound to never both await their deadline.
KeyBindsOneBooking ==
  \A b, c \in bound : b[1] = c[1] /\ b[2] # c[2] => b[2] \in overdue \/ c[2] \in overdue

\* What an answer, a frozen record or a page says of a booking: that it exists,
\* a payment it offers is the provider's, and an end it reports is the end.  One
\* that says PENDING may be out of date.
Tells(v, h) ==
  /\ v.of = h
  /\ booking[h] # "NONE" /\ v.status # "NONE"
  /\ v.payable => h \in reference
  /\ v.status # "PENDING" => booking[h] = v.status

\* A late call is not told PENDING.
Current(c) == c.late => c.answer.status # "PENDING"

\* Who asks for a booking of a hold is told of the booking of that hold,
\* whichever of two racing calls made it, and of an end only when it is the end.
\* That it has ended may be kept from him by a key alone, which replays the
\* answer it froze while it was PENDING, and only until the deadline: a call that
\* begins after the end is told of it when it has no key, as polls and payments
\* have none, or when the deadline of its key has passed.
AnswersTrue ==
  /\ \A r \in Requests : request[r].pc = "answered" =>
       Tells(request[r].answer, request[r].of) /\ Current(request[r])
  /\ \A k \in Keys : record[k].body # NoView =>
       Tells(record[k].body, record[k].of) /\ record[k].body.payable
  /\ \A t \in Tabs : view[t] # NoView => Tells(view[t], TabHold[t])

\* A page that shows as pending a booking that has ended learns better or is
\* closed: stale answers, frozen or overtaken, do not stay.
PagesSettle ==
  \A t \in Tabs :
    (view[t].status = "PENDING" /\ booking[TabHold[t]] \in Ends) ~> view[t].status # "PENDING"

(***************************************************************************)
(* The inductive invariant.                                                *)
(***************************************************************************)
\* A key that was bound to a booking has its record until the deadline.
RecordKept == \A b \in bound : b[2] \in overdue \/ record[b[1]].of = b[2]

\* A record is of a booking that exists, and its frozen answer was told.
RecordInv(e) ==
  \/ e = NoRecord
  \/ /\ e.of \in Holds /\ booking[e.of] # "NONE"
     /\ e.body # NoView => Tells(e.body, e.of) /\ e.body.payable

RecordsInv == \A k \in Keys : RecordInv(record[k])

\* Where a call stands, and what it has found out so far.
CallInv(c) ==
  /\ c.pc = "idle" \/ c.of \in Holds
  /\ c.pc \in {"lookup", "forget", "update", "insert"} => c.key \in Keys
  /\ c.pc = "forget" => c.seen \in overdue
  /\ c.pc = "update" => c.seen = c.of
  /\ c.pc \in {"read", "complete"} => booking[c.of] # "NONE"
  /\ c.pc \in {"update", "insert"} \/ (c.pc \in {"lookup", "forget"} /\ c.for = "store")
       => Tells(c.answer, c.of) /\ c.answer.payable /\ Current(c)
  /\ c.pc = "answered" => Tells(c.answer, c.of) /\ c.by \in Tabs /\ Current(c)
  /\ c.late => c.pc # "idle" /\ booking[c.of] \in Ends /\ (c.key = NoKey \/ c.of \in overdue)
  /\ c.pc # "idle" /\ c.by \in Tabs => c.of = TabHold[c.by]

CallsInv == \A r \in Requests : CallInv(request[r])

ViewsInv == \A t \in Tabs : view[t] # NoView => Tells(view[t], TabHold[t])

RetryInv == RecordKept /\ RecordsInv /\ CallsInv /\ ViewsInv
==============================================================================
