----------------------------- MODULE BookingLife -----------------------------
(***************************************************************************)
(* The life of a booking as its customer may see it: what module Checkout  *)
(* promises of the rows, and all that module Retry relies on.  A booking   *)
(* is made once and ends once.  Until the provider knows of it, nothing    *)
(* but its deadline ends it, and it is never confirmed.  A reference is    *)
(* never lost and a deadline, once passed, stays so.                       *)
(***************************************************************************)

CONSTANT Bookings

VARIABLES
  status,   \* "NONE", "PENDING", "CONFIRMED" or "FAILED": EXPIRED looks like FAILED
  payable,  \* the bookings whose payment has a provider reference
  overdue   \* the bookings whose deadline has passed

lifeVars == <<status, payable, overdue>>

Init ==
  /\ status = [b \in Bookings |-> "NONE"]
  /\ payable = {} /\ overdue = {}

\* The deadline is fixed before the row is written, and may have passed by then.
Make(b) ==
  /\ status[b] = "NONE"
  /\ status' = [status EXCEPT ![b] = "PENDING"]
  /\ overdue' \in {overdue, overdue \cup {b}}
  /\ UNCHANGED payable

DeadlinePasses(b) ==
  /\ status[b] # "NONE"
  /\ overdue' = overdue \cup {b}
  /\ UNCHANGED <<status, payable>>

\* The provider's answer may also come too late, for a booking that has ended.
Initialise(b) ==
  /\ status[b] # "NONE"
  /\ payable' = payable \cup {b}
  /\ UNCHANGED <<status, overdue>>

\* By an event of the provider, for which the reference must be known.
SettleByEvent(b, end) ==
  /\ status[b] = "PENDING" /\ b \in payable
  /\ status' = [status EXCEPT ![b] = end]
  /\ UNCHANGED <<payable, overdue>>

\* By the clock; a reference that comes with it comes too late.
GiveUp(b) ==
  /\ status[b] = "PENDING" /\ b \in overdue
  /\ status' = [status EXCEPT ![b] = "FAILED"]
  /\ payable' \in {payable, payable \cup {b}}
  /\ UNCHANGED overdue

Proceed(b) ==
  \/ DeadlinePasses(b) \/ Initialise(b) \/ GiveUp(b)
  \/ \E end \in {"CONFIRMED", "FAILED"} : SettleByEvent(b, end)

Next == \E b \in Bookings : Make(b) \/ Proceed(b)

Spec == Init /\ [][Next]_lifeVars
==============================================================================
