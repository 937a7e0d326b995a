------------------------------ MODULE SeatStore ------------------------------
(***************************************************************************)
(* The contract over the two stores that know of a seat, its Redis key and *)
(* its allocation in PostgreSQL, between the seat map, which holds and     *)
(* gives back, and the checkout, which sells.  A hold takes all of its     *)
(* keys at once, and only free ones; nobody but a hold itself gives up its *)
(* keys, unless its seats are sold; only a hold that was once taken is     *)
(* sold, all of it at once, and a seat is sold once.                       *)
(***************************************************************************)

CONSTANTS Seats, Holds, SeatsOf, NoHold

VARIABLES
  key,    \* the hold that has each seat, or NoHold
  taken,  \* the holds ever taken
  sold    \* the seats that are sold

storeVars == <<key, taken, sold>>

Init ==
  /\ key = [s \in Seats |-> NoHold]
  /\ taken = {} /\ sold = {}

Take(h) ==
  /\ h \notin taken
  /\ \A s \in SeatsOf[h] : key[s] = NoHold
  /\ key' = [s \in Seats |-> IF s \in SeatsOf[h] THEN h ELSE key[s]]
  /\ taken' = taken \cup {h}
  /\ UNCHANGED sold

\* The customer gives the hold back, or its time is up: whatever is left of it goes.
GiveUp(h) ==
  /\ key' = [s \in Seats |-> IF key[s] = h THEN NoHold ELSE key[s]]
  /\ UNCHANGED <<taken, sold>>

Sell(h) ==
  /\ h \in taken
  /\ SeatsOf[h] \cap sold = {}
  /\ sold' = sold \cup SeatsOf[h]
  /\ UNCHANGED <<key, taken>>

\* The keys of seats sold to h go, whichever hold they carry by then.
Free(h) ==
  /\ h \in taken
  /\ SeatsOf[h] \subseteq sold
  /\ key' = [s \in Seats |-> IF s \in SeatsOf[h] THEN NoHold ELSE key[s]]
  /\ UNCHANGED <<taken, sold>>

Next == \E h \in Holds : Take(h) \/ GiveUp(h) \/ Sell(h) \/ Free(h)

Spec == Init /\ [][Next]_storeVars

\* What both sides may rely on: a hold that kept one of its seats kept them all,
\* but for those that were sold to somebody.
Whole == \A h \in Holds : \A r, s \in SeatsOf[h] : key[r] = h /\ key[s] # h => s \in sold
==============================================================================
