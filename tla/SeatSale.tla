------------------------------ MODULE SeatSale ------------------------------
(***************************************************************************)
(* What the checkout promises about seats, whatever holds, retries,        *)
(* webhooks and crashes there are in between: a booking takes all of its   *)
(* seats or none, a seat belongs to at most one booking, for ever, and a   *)
(* booking that has ended without its seats never gets them.               *)
(***************************************************************************)

CONSTANTS Seats, Bookings, SeatsOf, Nobody

VARIABLES
  owner,    \* the booking each seat was sold to, or Nobody
  outcome   \* "open", "sold" or "closed", of each booking

saleVars == <<owner, outcome>>

Init ==
  /\ owner = [s \in Seats |-> Nobody]
  /\ outcome = [b \in Bookings |-> "open"]

Sell(b) ==
  /\ outcome[b] = "open"
  /\ \A s \in SeatsOf[b] : owner[s] = Nobody
  /\ owner' = [s \in Seats |-> IF s \in SeatsOf[b] THEN b ELSE owner[s]]
  /\ outcome' = [outcome EXCEPT ![b] = "sold"]

Close(b) ==
  /\ outcome[b] = "open"
  /\ outcome' = [outcome EXCEPT ![b] = "closed"]
  /\ UNCHANGED owner

Next == \E b \in Bookings : Sell(b) \/ Close(b)

Spec == Init /\ [][Next]_saleVars
==============================================================================
