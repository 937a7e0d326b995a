------------------------------ MODULE SeatView ------------------------------
(***************************************************************************)
(* The live seat map: the tabs of the web client (seat-map.tsx), the seat  *)
(* holds they ask for and give back (seating.service.ts over SeatHolds),   *)
(* and the updates that reach them over the seating WebSocket              *)
(* (seating.gateway.ts).                                                   *)
(*                                                                         *)
(* What a tab shows is a hint: a snapshot is read from PostgreSQL and from *)
(* Redis in two steps, and travels over HTTP while the updates travel over *)
(* the socket.  What must not be a hint is the hold a tab believes it has. *)
(*                                                                         *)
(* Other customers use the API without a tab of this model.  A seat that   *)
(* is BLOCKED is never offered and is left out.                            *)
(***************************************************************************)
EXTENDS SeatHolds, Naturals, FiniteSets, Sequences

CONSTANTS
  Tabs,
  Requests,        \* slots for the calls in progress
  Others,          \* the customers without a tab
  Nobody,          \* whoever asked is not listening any more
  MaxConnections,  \* MAX_CONNECTIONS_PER_IP; the tabs share one address
  MaxNews,         \* bound on the updates on their way to a tab
  MaxFaults        \* bound on lost answers, crashes and dropped connections

ASSUME SeatViewAssumption ==
  /\ Others \notin Tabs /\ Nobody \notin Tabs /\ Others # Nobody
  /\ IsFiniteSet(Tabs)
  /\ MaxConnections \in Nat /\ MaxNews \in Nat /\ MaxFaults \in Nat

VARIABLES
  (* the servers *)
  sold,        \* PostgreSQL: the seats whose allocation is SOLD
  due,         \* the holds whose expiresAt has passed
  released,    \* history: the holds that were given back
  request,     \* the calls in progress
  (* the tabs *)
  view,        \* what a tab shows of each seat
  selected,    \* the seats its customer has chosen
  mine,        \* the hold a tab keeps, in React and in sessionStorage
  news,        \* the updates on their way to a tab
  (* the seating gateway *)
  socket,      \* the connection of a tab
  count,       \* connectionsByIp
  ghosts,      \* counted sockets that are gone, and the gateway not told
  refusals,    \* refused sockets, and the gateway not told
  faults

storeVars == <<holdVars, sold, due, released>>
tabVars == <<view, selected, mine, news>>
socketVars == <<socket, count, ghosts, refusals>>
vars == <<storeVars, request, tabVars, socketVars, faults>>

SeatStates == {"available", "held", "sold"}
Pcs == {"idle", "checked", "acquired", "answered", "refused", "failed", "release", "deleted",
        "stated", "done", "loading", "loaded", "confirmed", "freed"}
Unloaded == [s \in Seats |-> "unknown"]
Idle == [pc |-> "idle", by |-> Nobody, seats |-> {}, hold |-> NoHold, shot |-> Unloaded]
\* What PostgreSQL says of each seat.
Persistent == [s \in Seats |-> IF s \in sold THEN "sold" ELSE "available"]

Init ==
  /\ HoldInit
  /\ sold = {} /\ due = {} /\ released = {}
  /\ request = [r \in Requests |-> Idle]
  /\ view = [t \in Tabs |-> Unloaded]
  /\ selected = [t \in Tabs |-> {}]
  /\ mine = [t \in Tabs |-> NoHold]
  /\ news = [t \in Tabs |-> <<>>]
  /\ socket = [t \in Tabs |-> "off"]
  /\ count = 0 /\ ghosts = 0 /\ refusals = 0 /\ faults = 0

(***************************************************************************)
(* A call is a record that moves from step to step.                        *)
(***************************************************************************)
At(r, pc) == request[r].pc = pc

Begin(r, pc, by, S, h) ==
  /\ At(r, "idle")
  /\ request' = [request EXCEPT ![r] = [Idle EXCEPT !.pc = pc, !.by = by, !.seats = S, !.hold = h]]

Move(r, from, to) ==
  /\ At(r, from)
  /\ request' = [request EXCEPT ![r].pc = to]

End(r) == request' = [request EXCEPT ![r] = Idle]

\* The call answers, if somebody is waiting for it.
Reply(r, pc) ==
  request' = [request EXCEPT ![r] =
    IF request[r].by \in Tabs THEN [request[r] EXCEPT !.pc = pc] ELSE Idle]

\* The flag "busy" of a tab: it waits for a hold, a release, or for the map
\* that it loads after those.
Busy(t) == \E r \in Requests : request[r].by = t /\ request[r].seats # {}

Fault == faults < MaxFaults /\ faults' = faults + 1

\* publishSeatChange: an update for the tabs in the room of the session.
Emit(S, shot) ==
  /\ \A t \in Tabs : socket[t] = "joined" => Len(news[t]) < MaxNews
  /\ news' = [t \in Tabs |-> IF socket[t] = "joined"
                            THEN Append(news[t], [s \in S |-> shot[s]]) ELSE news[t]]

\* GET availability begins: the allocations are read.
LoadMap(r, by, S) ==
  request' = [request EXCEPT ![r] =
    [Idle EXCEPT !.pc = "loading", !.by = by, !.seats = S, !.shot = Persistent]]

(***************************************************************************)
(* POST holds.                                                             *)
(***************************************************************************)
\* The allocations are read.
Check(S) == IF S \cap sold = {} THEN "checked" ELSE "refused"

\* createHold: the chosen seats, whatever the map shows of them by now, under a
\* new request key.
Ask(r, t) ==
  /\ mine[t] = NoHold /\ ~Busy(t) /\ selected[t] # {}
  /\ Begin(r, Check(selected[t]), t, selected[t], NoHold)
  /\ UNCHANGED <<storeVars, tabVars, socketVars, faults>>

OthersAsk(r, S) ==
  /\ Check(S) = "checked"
  /\ Begin(r, "checked", Others, S, NoHold)
  /\ UNCHANGED <<storeVars, tabVars, socketVars, faults>>

\* A customer of the API asks again, under the same request key.
Resend(r) ==
  /\ Move(r, "failed", Check(request[r].seats))
  /\ UNCHANGED <<storeVars, tabVars, socketVars, faults>>

\* The hold that was stored under the request key still has all its keys.
Replayable(r) == request[r].hold # NoHold /\ Live(request[r].hold)

Replay(r) ==
  /\ Replayable(r)
  /\ Move(r, "checked", "answered")
  /\ UNCHANGED <<storeVars, tabVars, socketVars, faults>>

\* The script takes every key or none.
TakeHold(r, h) ==
  /\ At(r, "checked") /\ ~Replayable(r)
  /\ SeatsOf[h] = request[r].seats
  /\ Acquire(h)
  /\ request' = [request EXCEPT ![r].pc = "acquired", ![r].hold = h]
  /\ UNCHANGED <<sold, due, released, tabVars, socketVars, faults>>

MissHold(r) ==
  /\ ~Replayable(r)
  /\ \E s \in request[r].seats : seatKey[s] # NoHold
  /\ At(r, "checked") /\ Reply(r, "refused")
  /\ UNCHANGED <<storeVars, tabVars, socketVars, faults>>

\* The request key is written, the room is told, the answer is sent.
Answer(r) ==
  /\ At(r, "acquired") /\ Reply(r, "answered")
  /\ Emit(request[r].seats, [s \in Seats |-> "held"])
  /\ UNCHANGED <<storeVars, view, selected, mine, socketVars, faults>>

Receive(r) ==
  /\ At(r, "answered")
  /\ mine' = IF request[r].by \in Tabs
             THEN [mine EXCEPT ![request[r].by] = request[r].hold] ELSE mine
  /\ selected' = IF request[r].by \in Tabs
                 THEN [selected EXCEPT ![request[r].by] = {}] ELSE selected
  /\ End(r)
  /\ UNCHANGED <<storeVars, view, news, socketVars, faults>>

\* A mistake to catch: the map is not loaded again after a conflict.
Dismiss(r) == End(r)
\* A tab that was refused, or got no answer, loads the map before it goes on.
Recover(r) ==
  IF request[r].by \in Tabs THEN LoadMap(r, request[r].by, request[r].seats) ELSE End(r)

AfterError(r) ==
  /\ At(r, "refused") \/ At(r, "failed")
  /\ Recover(r)
  /\ UNCHANGED <<storeVars, tabVars, socketVars, faults>>

(***************************************************************************)
(* DELETE holds, and the updates that tell of a seat what PostgreSQL says. *)
(***************************************************************************)
GiveBack(r, t) ==
  /\ mine[t] # NoHold /\ ~Busy(t)
  /\ Begin(r, "release", t, SeatsOf[mine[t]], mine[t])
  /\ UNCHANGED <<storeVars, tabVars, socketVars, faults>>

\* Other customers keep the tokens of old holds, and repeat themselves.
OfOthers(h) ==
  /\ h \in issued
  /\ \A t \in Tabs : mine[t] # h
  /\ \A q \in Requests : request[q].hold = h => request[q].by \notin Tabs

OthersGiveBack(r, h) ==
  /\ OfOthers(h)
  /\ Begin(r, "release", Others, SeatsOf[h], h)
  /\ UNCHANGED <<storeVars, tabVars, socketVars, faults>>

\* POST holds/renew, which no tab calls: the script finds the token in every key
\* and writes a new deadline, and the room is told once more.
Renew(r, h) ==
  /\ OfOthers(h) /\ Live(h)
  /\ due' = due \ {h}
  /\ Begin(r, "acquired", Others, SeatsOf[h], h)
  /\ UNCHANGED <<holdVars, sold, released, tabVars, socketVars, faults>>

\* A mistake to catch: the token is not compared.
AnyHold(h) == \A s \in SeatsOf[h] : seatKey[s] # NoHold
\* The script finds the token of the hold in every key.
Owned(h) == Live(h)

\* A hold that is not there was released before; what another customer holds,
\* or what is past its time, is refused and the tab keeps what it has.
Delete(r) ==
  /\ At(r, "release")
  /\ LET h == request[r].hold
     IN \/ /\ Owned(h) /\ h \notin due
           /\ DeleteKeys(SeatsOf[h])
           /\ released' = released \cup {h}
           /\ request' = [request EXCEPT ![r].pc = "deleted"]
        \/ /\ ~Owned(h) \/ h \in due
           /\ IF \A s \in SeatsOf[h] : seatKey[s] = NoHold THEN Reply(r, "done") ELSE End(r)
           /\ UNCHANGED <<seatKey, released>>
  /\ UNCHANGED <<issued, sold, due, tabVars, socketVars, faults>>

\* publishPersistentSeatStates: the allocations are read, and then published.
ReadStates(r) ==
  /\ At(r, "deleted")
  /\ request' = [request EXCEPT ![r].pc = "stated", ![r].shot = Persistent]
  /\ UNCHANGED <<storeVars, tabVars, socketVars, faults>>

Publish(r) ==
  /\ At(r, "stated") /\ Reply(r, "done")
  /\ Emit(request[r].seats, request[r].shot)
  /\ UNCHANGED <<storeVars, view, selected, mine, socketVars, faults>>

\* The tab drops its hold, and loads the map before it goes on.
Released(r) ==
  /\ At(r, "done")
  /\ mine' = IF request[r].by \in Tabs THEN [mine EXCEPT ![request[r].by] = NoHold] ELSE mine
  /\ Recover(r)
  /\ UNCHANGED <<storeVars, view, selected, news, socketVars, faults>>

(***************************************************************************)
(* GET availability, and calls that fail.                                  *)
(***************************************************************************)
ReadHolds(r) ==
  /\ At(r, "loading")
  /\ request' = [request EXCEPT ![r].pc = "loaded", ![r].shot =
       [s \in Seats |-> IF @[s] = "available" /\ seatKey[s] # NoHold /\ seatKey[s] \notin due
                       THEN "held" ELSE @[s]]]
  /\ UNCHANGED <<storeVars, tabVars, socketVars, faults>>

\* Snapshots and updates do not wait for each other.
Show(r) ==
  /\ At(r, "loaded")
  /\ view' = IF request[r].by \in Tabs
             THEN [view EXCEPT ![request[r].by] = request[r].shot] ELSE view
  /\ End(r)
  /\ UNCHANGED <<storeVars, selected, mine, news, socketVars, faults>>

\* A call fails on its way, or its answer is lost.  A tab that asked for a hold
\* finds out; other calls are given up.
Fail(r) ==
  /\ ~At(r, "idle") /\ Fault
  /\ IF request[r].pc \in {"checked", "acquired", "answered"} /\ request[r].by \in Tabs
     THEN request' = [request EXCEPT ![r].pc = "failed",
                                     ![r].hold = IF At(r, "acquired") THEN NoHold ELSE @]
     ELSE End(r)
  /\ UNCHANGED <<storeVars, tabVars, socketVars>>

(***************************************************************************)
(* The tab.                                                                *)
(***************************************************************************)
Hang(t) ==
  /\ socket' = [socket EXCEPT ![t] = "off"]
  /\ news' = [news EXCEPT ![t] = <<>>]
  /\ ghosts' = IF socket[t] = "joined" THEN ghosts + 1 ELSE ghosts
  /\ UNCHANGED <<count, refusals>>

\* The page is opened, or opened again: what was in memory is lost, the hold
\* comes back from sessionStorage unless its time is up.
Fresh(t) == view[t] = Unloaded /\ socket[t] = "off" /\ \A r \in Requests : request[r].by # t

Open(r, t) ==
  /\ At(r, "idle")
  /\ IF Fresh(t) THEN UNCHANGED faults ELSE Fault
  /\ request' = [q \in Requests |->
       IF q = r THEN [Idle EXCEPT !.pc = "loading", !.by = t, !.shot = Persistent]
       ELSE IF request[q].by = t THEN [request[q] EXCEPT !.by = Nobody] ELSE request[q]]
  /\ mine' = IF mine[t] \in due THEN [mine EXCEPT ![t] = NoHold] ELSE mine
  /\ view' = [view EXCEPT ![t] = Unloaded]
  /\ selected' = [selected EXCEPT ![t] = {}]
  /\ Hang(t)
  /\ UNCHANGED storeVars

\* toggleSeat: only a seat shown as available changes, so a chosen seat that is
\* shown as held or sold stays chosen.
Toggle(t, s) ==
  /\ mine[t] = NoHold /\ view[t][s] = "available"
  /\ selected' = [selected EXCEPT ![t] = IF s \in @ THEN @ \ {s} ELSE @ \cup {s}]
  /\ UNCHANGED <<storeVars, request, view, mine, news, socketVars, faults>>

\* The timer of the hold runs out.
TimeUp(r, t) ==
  /\ mine[t] \in due /\ At(r, "idle")
  /\ mine' = [mine EXCEPT ![t] = NoHold]
  /\ LoadMap(r, t, {})
  /\ UNCHANGED <<storeVars, view, selected, news, socketVars, faults>>

\* An update arrives; a map that is not loaded has no seats to change.
Deliver(t) ==
  /\ news[t] # <<>>
  /\ LET update == Head(news[t])
     IN view' = [view EXCEPT ![t] = [s \in Seats |->
          IF s \in DOMAIN update /\ @[s] # "unknown" THEN update[s] ELSE @[s]]]
  /\ news' = [news EXCEPT ![t] = Tail(@)]
  /\ UNCHANGED <<storeVars, request, selected, mine, socketVars, faults>>

(***************************************************************************)
(* The sockets.  A tab that connects, again or for the first time, joins   *)
(* the room of the session, no more; one that was refused does not try     *)
(* again.                                                                  *)
(***************************************************************************)
Connect(t) ==
  /\ socket[t] = "off" /\ view[t] # Unloaded
  /\ IF count < MaxConnections
     THEN /\ socket' = [socket EXCEPT ![t] = "joined"]
          /\ count' = count + 1
          /\ UNCHANGED refusals
     ELSE /\ socket' = [socket EXCEPT ![t] = "refused"]
          /\ refusals' = refusals + 1
          /\ UNCHANGED count
  /\ UNCHANGED <<ghosts, storeVars, request, tabVars, faults>>

Drop(t) ==
  /\ socket[t] = "joined" /\ Fault
  /\ Hang(t)
  /\ UNCHANGED <<storeVars, request, view, selected, mine>>

\* A mistake to catch: a refused socket was never counted.
UncountAny ==
  /\ ghosts + refusals > 0
  /\ count' = IF count <= 1 THEN 0 ELSE count - 1
  /\ \/ ghosts > 0 /\ ghosts' = ghosts - 1 /\ UNCHANGED refusals
     \/ refusals > 0 /\ refusals' = refusals - 1 /\ UNCHANGED ghosts
Uncount ==
  \/ /\ ghosts > 0 /\ ghosts' = ghosts - 1
     /\ count' = IF count <= 1 THEN 0 ELSE count - 1
     /\ UNCHANGED refusals
  \/ /\ refusals > 0 /\ refusals' = refusals - 1
     /\ UNCHANGED <<count, ghosts>>

HandleDisconnect ==
  /\ Uncount
  /\ UNCHANGED <<socket, storeVars, request, tabVars, faults>>

(***************************************************************************)
(* Time, and the bookings.                                                 *)
(***************************************************************************)
ComeDue(h) ==
  /\ h \in issued \ due
  /\ due' = due \cup {h}
  /\ UNCHANGED <<holdVars, sold, released, request, tabVars, socketVars, faults>>

\* The listener is told which keys have expired, unless the notification is lost.
Notify(S) ==
  \/ UNCHANGED request
  \/ \E r \in Requests : Begin(r, "deleted", Nobody, S, NoHold)

\* Redis counts from a moment after expiresAt was computed.
RunOut(h) ==
  /\ h \in due
  /\ Lapse(h)
  /\ Notify({s \in SeatsOf[h] : seatKey[s] = h})
  /\ UNCHANGED <<sold, due, released, tabVars, socketVars, faults>>

\* A booking made while its hold was live is confirmed.
Confirm(r, h) ==
  /\ h \in issued /\ SeatsOf[h] \cap sold = {}
  /\ sold' = sold \cup SeatsOf[h]
  /\ Begin(r, "confirmed", Nobody, SeatsOf[h], h)
  /\ UNCHANGED <<holdVars, due, released, tabVars, socketVars, faults>>

FreeKeys(r) ==
  /\ Move(r, "confirmed", "freed")
  /\ ReleaseConfirmedHold(request[r].hold)
  /\ UNCHANGED <<sold, due, released, tabVars, socketVars, faults>>

PublishSold(r) ==
  /\ At(r, "freed")
  /\ Emit(request[r].seats, [s \in Seats |-> "sold"])
  /\ End(r)
  /\ UNCHANGED <<storeVars, view, selected, mine, socketVars, faults>>

Serve(r) ==
  \/ Replay(r) \/ (\E h \in Holds : TakeHold(r, h)) \/ MissHold(r) \/ Answer(r) \/ Receive(r)
  \/ AfterError(r) \/ Delete(r) \/ ReadStates(r) \/ Publish(r) \/ Released(r)
  \/ ReadHolds(r) \/ Show(r) \/ FreeKeys(r) \/ PublishSold(r)

Next ==
  \/ \E r \in Requests :
       \/ Serve(r) \/ Resend(r) \/ Fail(r)
       \/ \E t \in Tabs : Ask(r, t) \/ GiveBack(r, t) \/ Open(r, t) \/ TimeUp(r, t)
       \/ \E h \in Holds : \/ OthersAsk(r, SeatsOf[h]) \/ OthersGiveBack(r, h)
                          \/ Renew(r, h) \/ Confirm(r, h)
  \/ \E t \in Tabs : \/ Deliver(t) \/ Connect(t) \/ Drop(t)
                    \/ \E s \in Seats : Toggle(t, s)
  \/ HandleDisconnect
  \/ \E h \in Holds : ComeDue(h) \/ RunOut(h)

Spec == Init /\ [][Next]_vars

\* A tab that learns that its call failed goes on.  Nothing else need happen:
\* calls may hang and updates may never arrive.
FairSpec == Spec /\ \A r \in Requests : WF_vars(AfterError(r))
==============================================================================
