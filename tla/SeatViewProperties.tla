------------------------- MODULE SeatViewProperties -------------------------
(***************************************************************************)
(* What the live seat map promises, and the invariant the proofs rest on.  *)
(***************************************************************************)
EXTENDS SeatView

Shown == [Seats -> SeatStates \cup {"unknown"}]
Updates == UNION {[S -> SeatStates \cup {"unknown"}] : S \in SUBSET Seats}
Calls == [pc : Pcs, by : Tabs \cup {Others, Nobody}, seats : SUBSET Seats,
          hold : Holds \cup {NoHold}, shot : Shown]

StoreOK ==
  /\ HoldTypeOK
  /\ sold \subseteq Seats /\ due \subseteq Holds /\ released \subseteq Holds
CallsOK == request \in [Requests -> Calls]
TabsOK ==
  /\ view \in [Tabs -> Shown]
  /\ selected \in [Tabs -> SUBSET Seats]
  /\ news \in [Tabs -> Seq(Updates)]
SocketsOK ==
  /\ socket \in [Tabs -> {"off", "joined", "refused"}]
  /\ count \in Nat /\ ghosts \in Nat /\ refusals \in Nat /\ faults \in Nat

\* The types of the stores, the calls, the tabs and the gateway.
SeatViewTypeOK ==
  StoreOK /\ CallsOK /\ TabsOK /\ SocketsOK /\ mine \in [Tabs -> Holds \cup {NoHold}]

\* A hold that a tab believes it has, and has not given back, is live in Redis
\* with all of its seats until its time is up or its seats are sold: whatever
\* was lost, repeated or opened again, nobody else frees or takes them.
BelievedHoldsReal ==
  \A t \in Tabs :
    \/ mine[t] \in {NoHold} \cup due \cup released
    \/ SeatsOf[mine[t]] \cap sold # {}
    \/ Live(mine[t])

\* The count of connections that admits a socket is the number of sockets that
\* were admitted and whose end was not handled, however refused, dropped and
\* reconnected sockets interleave.
Connected == {t \in Tabs : socket[t] = "joined"}
ConnectionsCounted ==
  /\ count = Cardinality(Connected) + ghosts
  /\ count <= MaxConnections

\* A tab that is turned away again and again from a seat that is sold ends by
\* showing that it is not to be had: whatever stale snapshots and updates arrive
\* after the sale, the map that is loaded after a conflict puts them right.
TurnedAway(t, s) ==
  \E r \in Requests : /\ request[r].by = t /\ request[r].pc = "refused"
                     /\ s \in request[r].seats \cap sold
MapLearns ==
  \A t \in Tabs, s \in Seats : []<>TurnedAway(t, s) => <>[](view[t][s] # "available")

Store == INSTANCE SeatStore WITH key <- seatKey, taken <- issued

\* The seat map keeps its side of the contract over the seats' two stores:
\* whatever tabs and other customers ask for, repeat, give back and renew, only a
\* hold itself gives up its keys, and other keys go only when they are sold.
SeatMapKeepsSeatStore == Store!Spec

(***************************************************************************)
(* The inductive invariant: a hold once issued is live, or one of its ways *)
(* to end has happened.                                                    *)
(***************************************************************************)
Ended(h) == h \in due \cup released \/ SeatsOf[h] \cap sold # {}

LifeInv == \A h \in issued : Ended(h) \/ Live(h)

\* A key carries only a hold that asked for its seat.
KeysInv == \A s \in Seats : seatKey[s] # NoHold => s \in SeatsOf[seatKey[s]]

MineInv == mine \in [Tabs -> issued \cup {NoHold}]

CallsInv ==
  \A r \in Requests :
    /\ request[r].hold \in issued \cup {NoHold}
    /\ request[r].pc \in {"acquired", "answered", "release", "confirmed"} => request[r].hold # NoHold
    /\ request[r].pc = "confirmed" => SeatsOf[request[r].hold] \subseteq sold

SeatViewInv == LifeInv /\ MineInv /\ CallsInv /\ ConnectionsCounted
==============================================================================
