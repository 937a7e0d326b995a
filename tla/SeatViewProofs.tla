--------------------------- MODULE SeatViewProofs ---------------------------
(***************************************************************************)
(* Proofs about SeatView for every number of seats, holds, tabs, calls and *)
(* connections.  The facts that the larger actions need are lemmas of      *)
(* their own; then each part of the invariant has a lemma with one step    *)
(* for each action.                                                        *)
(***************************************************************************)
EXTENDS SeatViewProperties, FiniteSetTheorems, TLAPS

(***************************************************************************)
(* The types of calls and updates.                                         *)
(***************************************************************************)
LEMMA ShownFacts == Unloaded \in Shown /\ Persistent \in Shown
BY DEF Unloaded, Persistent, Shown, SeatStates

LEMMA IdleFact == Idle \in Calls
BY ShownFacts DEF Idle, Calls, Pcs

LEMMA CheckFact == \A S : Check(S) \in Pcs
BY DEF Check, Pcs

LEMMA CallFact ==
  ASSUME CallsOK, NEW r \in Requests
  PROVE  /\ request[r].pc \in Pcs /\ request[r].by \in Tabs \cup {Others, Nobody}
         /\ request[r].seats \in SUBSET Seats /\ request[r].hold \in Holds \cup {NoHold}
         /\ request[r].shot \in Shown
BY DEF CallsOK, Calls

LEMMA EndType ==
  ASSUME CallsOK, NEW r \in Requests, End(r)
  PROVE  CallsOK'
BY IdleFact DEF End, CallsOK

LEMMA MoveType ==
  ASSUME CallsOK, NEW r \in Requests, NEW from, NEW to \in Pcs, Move(r, from, to)
  PROVE  CallsOK'
<1> DEFINE c == [request[r] EXCEPT !.pc = to]
<1>1. c \in Calls
  BY DEF CallsOK, Calls
<1>2. request' = [request EXCEPT ![r] = c]
  BY DEF Move, CallsOK
<1> QED
  BY <1>1, <1>2 DEF CallsOK

LEMMA ReplyType ==
  ASSUME CallsOK, NEW r \in Requests, NEW pc \in Pcs, Reply(r, pc)
  PROVE  CallsOK'
<1> DEFINE c == [request[r] EXCEPT !.pc = pc]
<1>1. c \in Calls
  BY DEF CallsOK, Calls
<1>2. request' = [request EXCEPT ![r] = c] \/ request' = [request EXCEPT ![r] = Idle]
  BY DEF Reply
<1> HIDE DEF c
<1> QED
  BY <1>1, <1>2, IdleFact DEF CallsOK

LEMMA FailType ==
  ASSUME CallsOK, NEW r \in Requests, Fail(r)
  PROVE  CallsOK'
<1>1. CASE End(r)
  BY <1>1, EndType
<1>2. CASE request' = [request EXCEPT ![r].pc = "failed",
                                     ![r].hold = IF At(r, "acquired") THEN NoHold ELSE @]
  <2> DEFINE c == [request[r] EXCEPT !.pc = "failed",
                                     !.hold = IF At(r, "acquired") THEN NoHold ELSE @]
  <2>1. c \in Calls
    BY DEF CallsOK, Calls, Pcs
  <2>2. request' = [request EXCEPT ![r] = c]
    BY <1>2 DEF CallsOK
  <2> QED
    BY <2>1, <2>2 DEF CallsOK
<1> QED
  BY <1>1, <1>2 DEF Fail

LEMMA DeleteCalls ==
  ASSUME CallsOK, NEW r \in Requests, Delete(r)
  PROVE  CallsOK'
<1>1. CASE request' = [request EXCEPT ![r].pc = "deleted"]
  <2>1. [request[r] EXCEPT !.pc = "deleted"] \in Calls
    BY DEF CallsOK, Calls, Pcs
  <2> QED
    BY <1>1, <2>1 DEF CallsOK
<1>2. "done" \in Pcs
  BY DEF Pcs
<1> QED
  BY <1>1, <1>2, ReplyType, EndType DEF Delete

LEMMA BeginType ==
  ASSUME CallsOK, NEW r \in Requests, NEW pc \in Pcs, NEW by \in Tabs \cup {Others, Nobody},
         NEW S \in SUBSET Seats, NEW h \in Holds \cup {NoHold}, Begin(r, pc, by, S, h)
  PROVE  CallsOK'
<1> DEFINE c == [Idle EXCEPT !.pc = pc, !.by = by, !.seats = S, !.hold = h]
<1>1. c \in Calls
  BY ShownFacts DEF Idle, Calls
<1>2. request' = [request EXCEPT ![r] = c]
  BY DEF Begin
<1> QED
  BY <1>1, <1>2 DEF CallsOK

LEMMA LoadType ==
  ASSUME CallsOK, NEW r \in Requests, NEW by \in Tabs, NEW S \in SUBSET Seats, LoadMap(r, by, S)
  PROVE  CallsOK'
<1> DEFINE c == [Idle EXCEPT !.pc = "loading", !.by = by, !.seats = S, !.shot = Persistent]
<1>1. c \in Calls
  BY ShownFacts DEF Idle, Calls, Pcs
<1>2. request' = [request EXCEPT ![r] = c]
  BY DEF LoadMap
<1> QED
  BY <1>1, <1>2 DEF CallsOK

LEMMA RecoverType ==
  ASSUME CallsOK, NEW r \in Requests, Recover(r)
  PROVE  CallsOK'
<1>1. CASE request[r].by \in Tabs
  BY <1>1, CallFact, LoadType DEF Recover
<1>2. CASE request[r].by \notin Tabs
  BY <1>2, IdleFact DEF Recover, End, CallsOK
<1> QED
  BY <1>1, <1>2

LEMMA TakeHoldType ==
  ASSUME CallsOK, NEW r \in Requests, NEW h \in Holds, TakeHold(r, h)
  PROVE  CallsOK'
<1> DEFINE c == [request[r] EXCEPT !.pc = "acquired", !.hold = h]
<1>1. c \in Calls
  BY DEF CallsOK, Calls, Pcs
<1>2. request' = [request EXCEPT ![r] = c]
  BY DEF TakeHold, CallsOK
<1> QED
  BY <1>1, <1>2 DEF CallsOK

LEMMA ReadStatesType ==
  ASSUME CallsOK, NEW r \in Requests, ReadStates(r)
  PROVE  CallsOK'
<1> DEFINE c == [request[r] EXCEPT !.pc = "stated", !.shot = Persistent]
<1>1. c \in Calls
  BY ShownFacts DEF CallsOK, Calls, Pcs
<1>2. request' = [request EXCEPT ![r] = c]
  BY DEF ReadStates, CallsOK
<1> QED
  BY <1>1, <1>2 DEF CallsOK

LEMMA ReadHoldsType ==
  ASSUME CallsOK, NEW r \in Requests, ReadHolds(r)
  PROVE  CallsOK'
<1> DEFINE m == [s \in Seats |->
                   IF request[r].shot[s] = "available" /\ seatKey[s] # NoHold /\ seatKey[s] \notin due
                   THEN "held" ELSE request[r].shot[s]]
           c == [request[r] EXCEPT !.pc = "loaded", !.shot = m]
<1>1. m \in Shown
  BY CallFact DEF Shown, SeatStates
<1> HIDE DEF m
<1>2. c \in Calls
  BY <1>1 DEF CallsOK, Calls, Pcs
<1>3. request' = [request EXCEPT ![r] = c]
  BY DEF ReadHolds, CallsOK, m
<1> QED
  BY <1>2, <1>3 DEF CallsOK

LEMMA GiveBackType ==
  ASSUME CallsOK, mine \in [Tabs -> Holds \cup {NoHold}], NEW r \in Requests, NEW t \in Tabs,
         GiveBack(r, t)
  PROVE  CallsOK'
<1>1. mine[t] \in Holds /\ SeatsOf[mine[t]] \in SUBSET Seats /\ "release" \in Pcs
  BY HoldsAssumption DEF GiveBack, Pcs
<1>2. Begin(r, "release", t, SeatsOf[mine[t]], mine[t])
  BY DEF GiveBack
<1> QED
  BY <1>1, <1>2, BeginType

LEMMA AskType ==
  ASSUME CallsOK, TabsOK, NEW r \in Requests, NEW t \in Tabs, Ask(r, t)
  PROVE  CallsOK'
<1>1. selected[t] \in SUBSET Seats /\ Check(selected[t]) \in Pcs
  BY CheckFact DEF TabsOK
<1>2. Begin(r, Check(selected[t]), t, selected[t], NoHold)
  BY DEF Ask
<1> QED
  BY <1>1, <1>2, BeginType

LEMMA OthersAskType ==
  ASSUME CallsOK, NEW r \in Requests, NEW h \in Holds, OthersAsk(r, SeatsOf[h])
  PROVE  CallsOK'
<1>1. SeatsOf[h] \in SUBSET Seats /\ "checked" \in Pcs
  BY HoldsAssumption DEF Pcs
<1>2. Begin(r, "checked", Others, SeatsOf[h], NoHold)
  BY DEF OthersAsk
<1> QED
  BY <1>1, <1>2, BeginType

LEMMA OthersGiveBackType ==
  ASSUME CallsOK, NEW r \in Requests, NEW h \in Holds, OthersGiveBack(r, h)
  PROVE  CallsOK'
<1>1. SeatsOf[h] \in SUBSET Seats /\ "release" \in Pcs
  BY HoldsAssumption DEF Pcs
<1>2. Begin(r, "release", Others, SeatsOf[h], h)
  BY DEF OthersGiveBack
<1> QED
  BY <1>1, <1>2, BeginType

LEMMA RenewType ==
  ASSUME CallsOK, NEW r \in Requests, NEW h \in Holds, Renew(r, h)
  PROVE  CallsOK'
<1>1. SeatsOf[h] \in SUBSET Seats /\ "acquired" \in Pcs
  BY HoldsAssumption DEF Pcs
<1>2. Begin(r, "acquired", Others, SeatsOf[h], h)
  BY DEF Renew
<1> QED
  BY <1>1, <1>2, BeginType

LEMMA ConfirmType ==
  ASSUME CallsOK, NEW r \in Requests, NEW h \in Holds, Confirm(r, h)
  PROVE  CallsOK'
<1>1. SeatsOf[h] \in SUBSET Seats /\ "confirmed" \in Pcs
  BY HoldsAssumption DEF Pcs
<1>2. Begin(r, "confirmed", Nobody, SeatsOf[h], h)
  BY DEF Confirm
<1> QED
  BY <1>1, <1>2, BeginType

LEMMA RunOutType ==
  ASSUME CallsOK, NEW h \in Holds, RunOut(h)
  PROVE  CallsOK'
<1> DEFINE S == {s \in SeatsOf[h] : seatKey[s] = h}
<1>1. S \in SUBSET Seats /\ "deleted" \in Pcs
  BY HoldsAssumption DEF Pcs
<1>2. CASE UNCHANGED request
  BY <1>2 DEF CallsOK
<1>3. ASSUME NEW r \in Requests, Begin(r, "deleted", Nobody, S, NoHold) PROVE CallsOK'
  <2> HIDE DEF S
  <2> QED
    BY <1>1, <1>3, BeginType
<1> QED
  BY <1>2, <1>3 DEF RunOut, Notify

LEMMA OpenType ==
  ASSUME CallsOK, NEW r \in Requests, NEW t \in Tabs, Open(r, t)
  PROVE  CallsOK'
<1> DEFINE c == [Idle EXCEPT !.pc = "loading", !.by = t, !.shot = Persistent]
<1>1. c \in Calls
  BY ShownFacts DEF Idle, Calls, Pcs
<1>2. \A q \in Requests : [request[q] EXCEPT !.by = Nobody] \in Calls
  BY DEF CallsOK, Calls
<1>3. request' = [q \in Requests |->
        IF q = r THEN c
        ELSE IF request[q].by = t THEN [request[q] EXCEPT !.by = Nobody] ELSE request[q]]
  BY DEF Open
<1> HIDE DEF c
<1> QED
  BY <1>1, <1>2, <1>3 DEF CallsOK

LEMMA TimeUpType ==
  ASSUME CallsOK, NEW r \in Requests, NEW t \in Tabs, TimeUp(r, t)
  PROVE  CallsOK'
BY LoadType DEF TimeUp

LEMMA DeleteType ==
  ASSUME StoreOK, CallsOK, CallsInv, NEW r \in Requests, Delete(r)
  PROVE  StoreOK'
<1>1. request[r].hold \in Holds
  BY DEF Delete, At, CallsInv, StoreOK, HoldTypeOK
<1>2. seatKey' \in [Seats -> Holds \cup {NoHold}] /\ released' \subseteq Holds
  BY <1>1 DEF Delete, DeleteKeys, StoreOK, HoldTypeOK
<1> QED
  BY <1>2 DEF Delete, StoreOK, HoldTypeOK

(***************************************************************************)
(* Updates.                                                                *)
(***************************************************************************)
LEMMA EmitType ==
  ASSUME TabsOK, NEW S \in SUBSET Seats, NEW shot \in Shown, Emit(S, shot)
  PROVE  news' \in [Tabs -> Seq(Updates)]
<1> DEFINE update == [s \in S |-> shot[s]]
<1>1. update \in Updates
  <2>1. update \in [S -> SeatStates \cup {"unknown"}]
    BY DEF Shown
  <2> QED
    BY <2>1 DEF Updates
<1>2. news' = [t \in Tabs |-> IF socket[t] = "joined" THEN Append(news[t], update) ELSE news[t]]
  BY DEF Emit
<1> HIDE DEF update
<1>3. \A t \in Tabs : news[t] \in Seq(Updates) /\ Append(news[t], update) \in Seq(Updates)
  BY <1>1 DEF TabsOK
<1> QED
  BY <1>2, <1>3

LEMMA AnswerNews ==
  ASSUME TabsOK, CallsOK, NEW r \in Requests, Answer(r)
  PROVE  TabsOK'
<1>1. [s \in Seats |-> "held"] \in Shown
  BY DEF Shown, SeatStates
<1>2. news' \in [Tabs -> Seq(Updates)]
  BY <1>1, CallFact, EmitType DEF Answer
<1> QED
  BY <1>2 DEF TabsOK, Answer

LEMMA PublishNews ==
  ASSUME TabsOK, CallsOK, NEW r \in Requests, Publish(r)
  PROVE  TabsOK'
<1>1. news' \in [Tabs -> Seq(Updates)]
  BY CallFact, EmitType DEF Publish
<1> QED
  BY <1>1 DEF TabsOK, Publish

LEMMA PublishSoldNews ==
  ASSUME TabsOK, CallsOK, NEW r \in Requests, PublishSold(r)
  PROVE  TabsOK'
<1>1. [s \in Seats |-> "sold"] \in Shown
  BY DEF Shown, SeatStates
<1>2. news' \in [Tabs -> Seq(Updates)]
  BY <1>1, CallFact, EmitType DEF PublishSold
<1> QED
  BY <1>2 DEF TabsOK, PublishSold

LEMMA HangNews ==
  ASSUME TabsOK, NEW t \in Tabs, Hang(t)
  PROVE  news' \in [Tabs -> Seq(Updates)]
<1>1. <<>> \in Seq(Updates)
  OBVIOUS
<1> QED
  BY <1>1 DEF TabsOK, Hang

LEMMA DeliverType ==
  ASSUME TabsOK, NEW t \in Tabs, Deliver(t)
  PROVE  TabsOK'
<1> DEFINE update == Head(news[t])
           m == [s \in Seats |->
                   IF s \in DOMAIN update /\ view[t][s] # "unknown" THEN update[s] ELSE view[t][s]]
<1>1. news[t] \in Seq(Updates) /\ news[t] # <<>>
  BY DEF TabsOK, Deliver
<1>2. update \in Updates /\ Tail(news[t]) \in Seq(Updates)
  BY <1>1
<1>3. view[t] \in Shown
  BY DEF TabsOK
<1> HIDE DEF update
<1>4. m \in Shown
  <2>1. PICK S \in SUBSET Seats : update \in [S -> SeatStates \cup {"unknown"}]
    BY <1>2 DEF Updates
  <2> QED
    BY <1>3, <2>1 DEF Shown
<1>5. view' = [view EXCEPT ![t] = m] /\ news' = [news EXCEPT ![t] = Tail(news[t])]
  BY DEF Deliver, TabsOK, update
<1> HIDE DEF m
<1>6. selected' = selected
  BY DEF Deliver
<1> QED
  BY <1>2, <1>4, <1>5, <1>6 DEF TabsOK

(***************************************************************************)
(* The holds.                                                              *)
(***************************************************************************)
LEMMA TakeHoldLife ==
  ASSUME StoreOK, LifeInv, NEW r \in Requests, NEW h \in Holds, TakeHold(r, h)
  PROVE  LifeInv'
<1>1. seatKey' = [s \in Seats |-> IF s \in SeatsOf[h] THEN h ELSE seatKey[s]]
  BY DEF TakeHold, Acquire
<1>2. (\A s \in SeatsOf[h] : seatKey[s] = NoHold) /\ issued' = issued \cup {h}
  BY DEF TakeHold, Acquire
<1>3. Live(h)'
  BY <1>1, HoldsAssumption DEF Live
<1>4. ASSUME NEW g \in issued, Live(g) PROVE Live(g)'
  <2>1. g \in Holds /\ \A s \in SeatsOf[g] : s \in Seats /\ seatKey[s] = g /\ g # NoHold
    BY <1>4, HoldsAssumption DEF StoreOK, HoldTypeOK, Live
  <2> QED
    BY <1>1, <1>2, <2>1 DEF Live
<1>5. sold' = sold /\ due' = due /\ released' = released
  BY DEF TakeHold
<1> QED
  BY <1>2, <1>3, <1>4, <1>5 DEF LifeInv, Ended

\* Deleting keys ends no hold but those that are ended for another reason.
LEMMA DeletedLife ==
  ASSUME StoreOK, LifeInv, NEW S \in SUBSET Seats, DeleteKeys(S), issued' = issued,
         sold \subseteq sold', due \subseteq due', released \subseteq released',
         \A g \in issued : Live(g) /\ SeatsOf[g] \cap S # {} => Ended(g)'
  PROVE  LifeInv'
<1>1. ASSUME NEW g \in issued, Live(g), SeatsOf[g] \cap S = {} PROVE Live(g)'
  <2>1. SeatsOf[g] \subseteq Seats
    BY HoldsAssumption DEF StoreOK, HoldTypeOK
  <2> QED
    BY <1>1, <2>1 DEF Live, DeleteKeys
<1>2. \A g \in issued : Ended(g) => Ended(g)'
  BY DEF Ended
<1> QED
  BY <1>1, <1>2 DEF LifeInv

LEMMA FreeKeysLife ==
  ASSUME StoreOK, CallsInv, LifeInv, NEW r \in Requests, FreeKeys(r)
  PROVE  LifeInv'
<1> DEFINE h == request[r].hold
<1>1. SeatsOf[h] \subseteq sold /\ sold' = sold /\ due' = due /\ released' = released
  BY DEF FreeKeys, Move, At, CallsInv
<1>2. DeleteKeys(SeatsOf[h]) /\ issued' = issued
  BY DEF FreeKeys, ReleaseConfirmedHold
<1>3. \A g \in issued : SeatsOf[g] \cap SeatsOf[h] # {} => Ended(g)'
  BY <1>1 DEF Ended
<1>4. SeatsOf[h] \in SUBSET Seats
  BY <1>1 DEF StoreOK
<1> HIDE DEF h
<1> QED
  BY <1>1, <1>2, <1>3, <1>4, DeletedLife

LEMMA DeleteLife ==
  ASSUME StoreOK, CallsInv, LifeInv, NEW r \in Requests, Delete(r)
  PROVE  LifeInv'
<1> DEFINE h == request[r].hold
<1>1. issued' = issued /\ sold' = sold /\ due' = due
  BY DEF Delete
<1>2. CASE UNCHANGED <<seatKey, released>>
  BY <1>1, <1>2 DEF LifeInv, Ended, Live
<1>3. CASE Owned(h) /\ DeleteKeys(SeatsOf[h]) /\ released' = released \cup {h}
  <2>1. h \in Holds /\ SeatsOf[h] \in SUBSET Seats
    BY HoldsAssumption DEF Delete, At, CallsInv, StoreOK, HoldTypeOK
  <2>2. \A g \in issued : Live(g) /\ SeatsOf[g] \cap SeatsOf[h] # {} => Ended(g)'
    BY <1>3 DEF Owned, Live, Ended
  <2> HIDE DEF h
  <2> QED
    BY <1>1, <1>3, <2>1, <2>2, DeletedLife
<1> QED
  BY <1>2, <1>3 DEF Delete

LEMMA RunOutLife ==
  ASSUME StoreOK, LifeInv, NEW h \in Holds, RunOut(h)
  PROVE  LifeInv'
<1> DEFINE S == {s \in SeatsOf[h] : seatKey[s] = h}
<1>1. h \in due /\ sold' = sold /\ due' = due /\ released' = released
  BY DEF RunOut, Notify
<1>2. DeleteKeys(S) /\ issued' = issued
  BY DEF RunOut, Notify, Lapse
<1>3. \A g \in issued : Live(g) /\ SeatsOf[g] \cap S # {} => Ended(g)'
  BY <1>1 DEF Live, Ended
<1>4. S \in SUBSET Seats
  BY HoldsAssumption
<1> HIDE DEF S
<1> QED
  BY <1>1, <1>2, <1>3, <1>4, DeletedLife

LEMMA IdleInv == Idle.hold = NoHold /\ Idle.pc = "idle"
BY DEF Idle

LEMMA BeginInv ==
  ASSUME CallsOK, CallsInv, NEW r \in Requests, NEW pc, NEW by, NEW S, NEW h \in issued \cup {NoHold},
         Begin(r, pc, by, S, h), issued' = issued, sold \subseteq sold',
         pc \in {"acquired", "answered", "release", "confirmed"} => h # NoHold,
         pc = "confirmed" => SeatsOf[h] \subseteq sold'
  PROVE  CallsInv'
<1> DEFINE c == [Idle EXCEPT !.pc = pc, !.by = by, !.seats = S, !.hold = h]
<1>1. c.hold = h /\ c.pc = pc
  BY DEF Idle
<1>2. request' = [request EXCEPT ![r] = c]
  BY DEF Begin
<1> HIDE DEF c
<1> QED
  BY <1>1, <1>2 DEF CallsInv, CallsOK

LEMMA LoadInv ==
  ASSUME CallsOK, CallsInv, NEW r \in Requests, NEW by, NEW S, LoadMap(r, by, S),
         issued' = issued, sold' = sold
  PROVE  CallsInv'
<1> DEFINE c == [Idle EXCEPT !.pc = "loading", !.by = by, !.seats = S, !.shot = Persistent]
<1>1. c.hold = NoHold /\ c.pc = "loading"
  BY DEF Idle
<1>2. request' = [request EXCEPT ![r] = c]
  BY DEF LoadMap
<1> HIDE DEF c
<1> QED
  BY <1>1, <1>2 DEF CallsInv, CallsOK

LEMMA TakeHoldInv ==
  ASSUME CallsOK, CallsInv, NEW r \in Requests, NEW h \in Holds, TakeHold(r, h)
  PROVE  CallsInv'
<1> DEFINE c == [request[r] EXCEPT !.pc = "acquired", !.hold = h]
<1>1. c.pc = "acquired" /\ c.hold = h /\ h # NoHold
  BY HoldsAssumption DEF CallsOK, Calls
<1>2. request' = [request EXCEPT ![r] = c]
  BY DEF TakeHold, CallsOK
<1>3. issued' = issued \cup {h} /\ sold' = sold
  BY DEF TakeHold, Acquire
<1> HIDE DEF c
<1> QED
  BY <1>1, <1>2, <1>3 DEF CallsInv, CallsOK

LEMMA EndInv ==
  ASSUME CallsOK, CallsInv, NEW r \in Requests, End(r), issued' = issued, sold' = sold
  PROVE  CallsInv'
BY IdleInv DEF CallsInv, CallsOK, End

LEMMA ReplyInv ==
  ASSUME CallsOK, CallsInv, NEW r \in Requests, NEW pc, Reply(r, pc), issued' = issued, sold' = sold,
         pc \in {"refused", "done"} \/ (pc = "answered" /\ request[r].pc = "acquired")
  PROVE  CallsInv'
<1> DEFINE c == [request[r] EXCEPT !.pc = pc]
<1>1. c.hold = request[r].hold /\ c.pc = pc
  BY DEF CallsOK, Calls
<1>2. request' = [request EXCEPT ![r] = c] \/ request' = [request EXCEPT ![r] = Idle]
  BY DEF Reply
<1> HIDE DEF c
<1> QED
  BY <1>1, <1>2, IdleInv DEF CallsInv, CallsOK

LEMMA RecoverInv ==
  ASSUME CallsOK, CallsInv, NEW r \in Requests, Recover(r), issued' = issued, sold' = sold
  PROVE  CallsInv'
BY LoadInv, EndInv DEF Recover

LEMMA OpenInv ==
  ASSUME CallsOK, CallsInv, NEW r \in Requests, NEW t \in Tabs, Open(r, t)
  PROVE  CallsInv'
<1> DEFINE c == [Idle EXCEPT !.pc = "loading", !.by = t, !.shot = Persistent]
<1>1. c.hold = NoHold /\ c.pc = "loading"
  BY DEF Idle
<1>2. request' = [q \in Requests |->
        IF q = r THEN c
        ELSE IF request[q].by = t THEN [request[q] EXCEPT !.by = Nobody] ELSE request[q]]
  BY DEF Open
<1>3. \A q \in Requests : /\ [request[q] EXCEPT !.by = Nobody].hold = request[q].hold
                          /\ [request[q] EXCEPT !.by = Nobody].pc = request[q].pc
  BY DEF CallsOK, Calls
<1>4. issued' = issued /\ sold' = sold
  BY DEF Open, storeVars, holdVars
<1> HIDE DEF c
<1> QED
  BY <1>1, <1>2, <1>3, <1>4 DEF CallsInv

LEMMA RunOutInv ==
  ASSUME CallsOK, CallsInv, NEW h \in Holds, RunOut(h)
  PROVE  CallsInv'
<1>1. issued' = issued /\ sold' = sold
  BY DEF RunOut, Notify, Lapse
<1>2. CASE UNCHANGED request
  BY <1>1, <1>2 DEF CallsInv
<1>3. ASSUME NEW r \in Requests, NEW S, Begin(r, "deleted", Nobody, S, NoHold) PROVE CallsInv'
  BY <1>1, <1>3, BeginInv
<1> QED
  BY <1>2, <1>3 DEF RunOut, Notify

LEMMA FailInv ==
  ASSUME CallsOK, CallsInv, NEW r \in Requests, Fail(r)
  PROVE  CallsInv'
<1>1. issued' = issued /\ sold' = sold
  BY DEF Fail, storeVars, holdVars
<1>2. CASE request' = [request EXCEPT ![r].pc = "failed",
                                     ![r].hold = IF At(r, "acquired") THEN NoHold ELSE @]
  BY <1>1, <1>2 DEF CallsInv, CallsOK, Calls
<1> QED
  BY <1>1, <1>2, EndInv DEF Fail

(***************************************************************************)
(* The connections.                                                        *)
(***************************************************************************)
LEMMA ConnectedFinite ==
  /\ IsFiniteSet(Connected) /\ Cardinality(Connected) \in Nat
  /\ IsFiniteSet(Connected') /\ Cardinality(Connected') \in Nat
<1>1. Connected \subseteq Tabs /\ Connected' \subseteq Tabs
  BY DEF Connected
<1> QED
  BY <1>1, SeatViewAssumption, FS_Subset, FS_CardinalityType

LEMMA HangCounts ==
  ASSUME SocketsOK, ConnectionsCounted, NEW t \in Tabs, Hang(t)
  PROVE  ConnectionsCounted'
<1>1. Connected' = Connected \ {t}
  BY DEF Hang, Connected, SocketsOK
<1>2. Cardinality(Connected') = IF t \in Connected THEN Cardinality(Connected) - 1
                                                   ELSE Cardinality(Connected)
  BY <1>1, ConnectedFinite, FS_RemoveElement
<1>3. t \in Connected <=> socket[t] = "joined"
  BY DEF Connected
<1>4. count' = count /\ ghosts' = IF socket[t] = "joined" THEN ghosts + 1 ELSE ghosts
  BY DEF Hang
<1> QED
  BY <1>2, <1>3, <1>4, ConnectedFinite DEF ConnectionsCounted, SocketsOK

LEMMA ConnectCounts ==
  ASSUME SocketsOK, ConnectionsCounted, NEW t \in Tabs, Connect(t)
  PROVE  ConnectionsCounted'
<1>1. CASE count < MaxConnections
  <2>1. Connected' = Connected \cup {t} /\ t \notin Connected
    BY <1>1 DEF Connect, Connected, SocketsOK
  <2>2. Cardinality(Connected') = Cardinality(Connected) + 1
    BY <2>1, ConnectedFinite, FS_AddElement
  <2> QED
    BY <1>1, <2>2, ConnectedFinite, SeatViewAssumption DEF Connect, ConnectionsCounted, SocketsOK
<1>2. CASE ~(count < MaxConnections)
  <2>1. Connected' = Connected
    BY <1>2 DEF Connect, Connected, SocketsOK
  <2> QED
    BY <1>2, <2>1 DEF Connect, ConnectionsCounted
<1> QED
  BY <1>1, <1>2

LEMMA DisconnectCounts ==
  ASSUME SocketsOK, ConnectionsCounted, HandleDisconnect
  PROVE  ConnectionsCounted'
<1>1. Connected' = Connected
  BY DEF HandleDisconnect, Connected
<1> QED
  BY <1>1, ConnectedFinite, SeatViewAssumption
  DEF HandleDisconnect, Uncount, ConnectionsCounted, SocketsOK

(***************************************************************************)
(* One step for each action.                                               *)
(***************************************************************************)
LEMMA StoreStep == StoreOK /\ CallsOK /\ CallsInv /\ [Next]_vars => StoreOK'
<1> SUFFICES ASSUME StoreOK, CallsOK, CallsInv, [Next]_vars PROVE StoreOK'
  OBVIOUS
<1> USE DEF StoreOK, HoldTypeOK, Acquire, Lapse, ReleaseConfirmedHold, DeleteKeys, Live, Owned, holdVars, storeVars, tabVars, socketVars
<1>1. ASSUME NEW r \in Requests, Replay(r) PROVE StoreOK'
  BY <1>1 DEF Replay
<1>2. ASSUME NEW r \in Requests, NEW h \in Holds, TakeHold(r, h) PROVE StoreOK'
  BY <1>2 DEF TakeHold
<1>3. ASSUME NEW r \in Requests, MissHold(r) PROVE StoreOK'
  BY <1>3 DEF MissHold
<1>4. ASSUME NEW r \in Requests, Answer(r) PROVE StoreOK'
  BY <1>4 DEF Answer
<1>5. ASSUME NEW r \in Requests, Receive(r) PROVE StoreOK'
  BY <1>5 DEF Receive
<1>6. ASSUME NEW r \in Requests, AfterError(r) PROVE StoreOK'
  BY <1>6 DEF AfterError
<1>7. ASSUME NEW r \in Requests, Delete(r) PROVE StoreOK'
  BY <1>7, DeleteType
<1>8. ASSUME NEW r \in Requests, ReadStates(r) PROVE StoreOK'
  BY <1>8 DEF ReadStates
<1>9. ASSUME NEW r \in Requests, Publish(r) PROVE StoreOK'
  BY <1>9 DEF Publish
<1>10. ASSUME NEW r \in Requests, Released(r) PROVE StoreOK'
  BY <1>10 DEF Released
<1>11. ASSUME NEW r \in Requests, ReadHolds(r) PROVE StoreOK'
  BY <1>11 DEF ReadHolds
<1>12. ASSUME NEW r \in Requests, Show(r) PROVE StoreOK'
  BY <1>12 DEF Show
<1>13. ASSUME NEW r \in Requests, FreeKeys(r) PROVE StoreOK'
  BY <1>13 DEF FreeKeys
<1>14. ASSUME NEW r \in Requests, PublishSold(r) PROVE StoreOK'
  BY <1>14 DEF PublishSold
<1>15. ASSUME NEW r \in Requests, Resend(r) PROVE StoreOK'
  BY <1>15 DEF Resend
<1>16. ASSUME NEW r \in Requests, Fail(r) PROVE StoreOK'
  BY <1>16 DEF Fail
<1>17. ASSUME NEW r \in Requests, NEW t \in Tabs, GiveBack(r, t) PROVE StoreOK'
  BY <1>17 DEF GiveBack
<1>18. ASSUME NEW r \in Requests, NEW t \in Tabs, Open(r, t) PROVE StoreOK'
  BY <1>18 DEF Open
<1>19. ASSUME NEW r \in Requests, NEW t \in Tabs, TimeUp(r, t) PROVE StoreOK'
  BY <1>19 DEF TimeUp
<1>20. ASSUME NEW r \in Requests, NEW t \in Tabs, Ask(r, t) PROVE StoreOK'
  BY <1>20 DEF Ask
<1>21. ASSUME NEW r \in Requests, NEW h \in Holds, OthersAsk(r, SeatsOf[h]) PROVE StoreOK'
  BY <1>21 DEF OthersAsk
<1>22. ASSUME NEW r \in Requests, NEW h \in Holds, OthersGiveBack(r, h) PROVE StoreOK'
  BY <1>22 DEF OthersGiveBack
<1>31. ASSUME NEW r \in Requests, NEW h \in Holds, Renew(r, h) PROVE StoreOK'
  BY <1>31 DEF Renew
<1>23. ASSUME NEW r \in Requests, NEW h \in Holds, Confirm(r, h) PROVE StoreOK'
  BY <1>23, HoldsAssumption DEF Confirm
<1>24. ASSUME NEW t \in Tabs, Deliver(t) PROVE StoreOK'
  BY <1>24 DEF Deliver
<1>32. ASSUME NEW t \in Tabs, NEW s \in Seats, Toggle(t, s) PROVE StoreOK'
  BY <1>32 DEF Toggle
<1>25. ASSUME NEW t \in Tabs, Connect(t) PROVE StoreOK'
  BY <1>25 DEF Connect
<1>26. ASSUME NEW t \in Tabs, Drop(t) PROVE StoreOK'
  BY <1>26 DEF Drop
<1>27. ASSUME HandleDisconnect PROVE StoreOK'
  BY <1>27 DEF HandleDisconnect, Uncount
<1>28. ASSUME NEW h \in Holds, ComeDue(h) PROVE StoreOK'
  BY <1>28 DEF ComeDue
<1>29. ASSUME NEW h \in Holds, RunOut(h) PROVE StoreOK'
  BY <1>29 DEF RunOut, Notify
<1>30. CASE UNCHANGED vars
  BY <1>30 DEF vars
<1> QED
  BY <1>1, <1>2, <1>3, <1>4, <1>5, <1>6, <1>7, <1>8, <1>9, <1>10, <1>11, <1>12, <1>13, <1>14, <1>15, <1>16, <1>17, <1>18, <1>19, <1>20, <1>21, <1>22, <1>23, <1>24, <1>25, <1>26, <1>27, <1>28, <1>29, <1>30, <1>31, <1>32 DEF Next, Serve

LEMMA CallsStep ==
  CallsOK /\ TabsOK /\ (mine \in [Tabs -> Holds \cup {NoHold}]) /\ [Next]_vars => CallsOK'
<1> SUFFICES ASSUME CallsOK, TabsOK, (mine \in [Tabs -> Holds \cup {NoHold}]), [Next]_vars PROVE CallsOK'
  OBVIOUS
<1> USE DEF CallsOK, Calls, Pcs, Shown, SeatStates, At, Begin, Move, End, Reply, LoadMap, Recover, Idle
<1>1. ASSUME NEW r \in Requests, Replay(r) PROVE CallsOK'
  BY <1>1, MoveType DEF Replay, Pcs
<1>2. ASSUME NEW r \in Requests, NEW h \in Holds, TakeHold(r, h) PROVE CallsOK'
  BY <1>2, TakeHoldType
<1>3. ASSUME NEW r \in Requests, MissHold(r) PROVE CallsOK'
  BY <1>3, ReplyType DEF MissHold
<1>4. ASSUME NEW r \in Requests, Answer(r) PROVE CallsOK'
  BY <1>4, ReplyType DEF Answer
<1>5. ASSUME NEW r \in Requests, Receive(r) PROVE CallsOK'
  BY <1>5, EndType DEF Receive
<1>6. ASSUME NEW r \in Requests, AfterError(r) PROVE CallsOK'
  BY <1>6, RecoverType DEF AfterError
<1>7. ASSUME NEW r \in Requests, Delete(r) PROVE CallsOK'
  BY <1>7, DeleteCalls
<1>8. ASSUME NEW r \in Requests, ReadStates(r) PROVE CallsOK'
  BY <1>8, ReadStatesType
<1>9. ASSUME NEW r \in Requests, Publish(r) PROVE CallsOK'
  BY <1>9, ReplyType DEF Publish
<1>10. ASSUME NEW r \in Requests, Released(r) PROVE CallsOK'
  BY <1>10, RecoverType DEF Released
<1>11. ASSUME NEW r \in Requests, ReadHolds(r) PROVE CallsOK'
  BY <1>11, ReadHoldsType
<1>12. ASSUME NEW r \in Requests, Show(r) PROVE CallsOK'
  BY <1>12, EndType DEF Show
<1>13. ASSUME NEW r \in Requests, FreeKeys(r) PROVE CallsOK'
  BY <1>13, MoveType DEF FreeKeys, Pcs
<1>14. ASSUME NEW r \in Requests, PublishSold(r) PROVE CallsOK'
  BY <1>14, EndType DEF PublishSold
<1>15. ASSUME NEW r \in Requests, Resend(r) PROVE CallsOK'
  BY <1>15, CheckFact, MoveType DEF Resend
<1>16. ASSUME NEW r \in Requests, Fail(r) PROVE CallsOK'
  BY <1>16, FailType
<1>17. ASSUME NEW r \in Requests, NEW t \in Tabs, GiveBack(r, t) PROVE CallsOK'
  BY <1>17, GiveBackType
<1>18. ASSUME NEW r \in Requests, NEW t \in Tabs, Open(r, t) PROVE CallsOK'
  BY <1>18, OpenType
<1>19. ASSUME NEW r \in Requests, NEW t \in Tabs, TimeUp(r, t) PROVE CallsOK'
  BY <1>19, TimeUpType
<1>20. ASSUME NEW r \in Requests, NEW t \in Tabs, Ask(r, t) PROVE CallsOK'
  BY <1>20, AskType
<1>21. ASSUME NEW r \in Requests, NEW h \in Holds, OthersAsk(r, SeatsOf[h]) PROVE CallsOK'
  BY <1>21, OthersAskType
<1>22. ASSUME NEW r \in Requests, NEW h \in Holds, OthersGiveBack(r, h) PROVE CallsOK'
  BY <1>22, OthersGiveBackType
<1>31. ASSUME NEW r \in Requests, NEW h \in Holds, Renew(r, h) PROVE CallsOK'
  BY <1>31, RenewType
<1>23. ASSUME NEW r \in Requests, NEW h \in Holds, Confirm(r, h) PROVE CallsOK'
  BY <1>23, ConfirmType
<1>24. ASSUME NEW t \in Tabs, Deliver(t) PROVE CallsOK'
  BY <1>24 DEF Deliver
<1>32. ASSUME NEW t \in Tabs, NEW s \in Seats, Toggle(t, s) PROVE CallsOK'
  BY <1>32 DEF Toggle
<1>25. ASSUME NEW t \in Tabs, Connect(t) PROVE CallsOK'
  BY <1>25 DEF Connect
<1>26. ASSUME NEW t \in Tabs, Drop(t) PROVE CallsOK'
  BY <1>26 DEF Drop
<1>27. ASSUME HandleDisconnect PROVE CallsOK'
  BY <1>27 DEF HandleDisconnect, Uncount
<1>28. ASSUME NEW h \in Holds, ComeDue(h) PROVE CallsOK'
  BY <1>28 DEF ComeDue
<1>29. ASSUME NEW h \in Holds, RunOut(h) PROVE CallsOK'
  BY <1>29, RunOutType
<1>30. CASE UNCHANGED vars
  BY <1>30 DEF vars
<1> QED
  BY <1>1, <1>2, <1>3, <1>4, <1>5, <1>6, <1>7, <1>8, <1>9, <1>10, <1>11, <1>12, <1>13, <1>14, <1>15, <1>16, <1>17, <1>18, <1>19, <1>20, <1>21, <1>22, <1>23, <1>24, <1>25, <1>26, <1>27, <1>28, <1>29, <1>30, <1>31, <1>32 DEF Next, Serve

LEMMA TabsStep == TabsOK /\ CallsOK /\ [Next]_vars => TabsOK'
<1> SUFFICES ASSUME TabsOK, CallsOK, [Next]_vars PROVE TabsOK'
  OBVIOUS
<1> USE DEF TabsOK, holdVars, storeVars, tabVars, socketVars
<1>1. ASSUME NEW r \in Requests, Replay(r) PROVE TabsOK'
  BY <1>1 DEF Replay
<1>2. ASSUME NEW r \in Requests, NEW h \in Holds, TakeHold(r, h) PROVE TabsOK'
  BY <1>2 DEF TakeHold
<1>3. ASSUME NEW r \in Requests, MissHold(r) PROVE TabsOK'
  BY <1>3 DEF MissHold
<1>4. ASSUME NEW r \in Requests, Answer(r) PROVE TabsOK'
  BY <1>4, AnswerNews
<1>5. ASSUME NEW r \in Requests, Receive(r) PROVE TabsOK'
  BY <1>5 DEF Receive
<1>6. ASSUME NEW r \in Requests, AfterError(r) PROVE TabsOK'
  BY <1>6 DEF AfterError
<1>7. ASSUME NEW r \in Requests, Delete(r) PROVE TabsOK'
  BY <1>7 DEF Delete
<1>8. ASSUME NEW r \in Requests, ReadStates(r) PROVE TabsOK'
  BY <1>8 DEF ReadStates
<1>9. ASSUME NEW r \in Requests, Publish(r) PROVE TabsOK'
  BY <1>9, PublishNews
<1>10. ASSUME NEW r \in Requests, Released(r) PROVE TabsOK'
  BY <1>10 DEF Released
<1>11. ASSUME NEW r \in Requests, ReadHolds(r) PROVE TabsOK'
  BY <1>11 DEF ReadHolds
<1>12. ASSUME NEW r \in Requests, Show(r) PROVE TabsOK'
  BY <1>12, CallFact DEF Show
<1>13. ASSUME NEW r \in Requests, FreeKeys(r) PROVE TabsOK'
  BY <1>13 DEF FreeKeys
<1>14. ASSUME NEW r \in Requests, PublishSold(r) PROVE TabsOK'
  BY <1>14, PublishSoldNews
<1>15. ASSUME NEW r \in Requests, Resend(r) PROVE TabsOK'
  BY <1>15 DEF Resend
<1>16. ASSUME NEW r \in Requests, Fail(r) PROVE TabsOK'
  BY <1>16 DEF Fail
<1>17. ASSUME NEW r \in Requests, NEW t \in Tabs, GiveBack(r, t) PROVE TabsOK'
  BY <1>17 DEF GiveBack
<1>18. ASSUME NEW r \in Requests, NEW t \in Tabs, Open(r, t) PROVE TabsOK'
  BY <1>18, HangNews, ShownFacts DEF Open
<1>19. ASSUME NEW r \in Requests, NEW t \in Tabs, TimeUp(r, t) PROVE TabsOK'
  BY <1>19 DEF TimeUp
<1>20. ASSUME NEW r \in Requests, NEW t \in Tabs, Ask(r, t) PROVE TabsOK'
  BY <1>20 DEF Ask
<1>21. ASSUME NEW r \in Requests, NEW h \in Holds, OthersAsk(r, SeatsOf[h]) PROVE TabsOK'
  BY <1>21 DEF OthersAsk
<1>22. ASSUME NEW r \in Requests, NEW h \in Holds, OthersGiveBack(r, h) PROVE TabsOK'
  BY <1>22 DEF OthersGiveBack
<1>31. ASSUME NEW r \in Requests, NEW h \in Holds, Renew(r, h) PROVE TabsOK'
  BY <1>31 DEF Renew
<1>23. ASSUME NEW r \in Requests, NEW h \in Holds, Confirm(r, h) PROVE TabsOK'
  BY <1>23 DEF Confirm
<1>24. ASSUME NEW t \in Tabs, Deliver(t) PROVE TabsOK'
  BY <1>24, DeliverType
<1>32. ASSUME NEW t \in Tabs, NEW s \in Seats, Toggle(t, s) PROVE TabsOK'
  BY <1>32 DEF Toggle
<1>25. ASSUME NEW t \in Tabs, Connect(t) PROVE TabsOK'
  BY <1>25 DEF Connect
<1>26. ASSUME NEW t \in Tabs, Drop(t) PROVE TabsOK'
  BY <1>26, HangNews DEF Drop
<1>27. ASSUME HandleDisconnect PROVE TabsOK'
  BY <1>27 DEF HandleDisconnect, Uncount
<1>28. ASSUME NEW h \in Holds, ComeDue(h) PROVE TabsOK'
  BY <1>28 DEF ComeDue
<1>29. ASSUME NEW h \in Holds, RunOut(h) PROVE TabsOK'
  BY <1>29 DEF RunOut, Notify
<1>30. CASE UNCHANGED vars
  BY <1>30 DEF vars
<1> QED
  BY <1>1, <1>2, <1>3, <1>4, <1>5, <1>6, <1>7, <1>8, <1>9, <1>10, <1>11, <1>12, <1>13, <1>14, <1>15, <1>16, <1>17, <1>18, <1>19, <1>20, <1>21, <1>22, <1>23, <1>24, <1>25, <1>26, <1>27, <1>28, <1>29, <1>30, <1>31, <1>32 DEF Next, Serve

LEMMA SocketsStep == SocketsOK /\ [Next]_vars => SocketsOK'
<1> SUFFICES ASSUME SocketsOK, [Next]_vars PROVE SocketsOK'
  OBVIOUS
<1> USE DEF SocketsOK, Hang, Fault, holdVars, storeVars, tabVars, socketVars
<1>1. ASSUME NEW r \in Requests, Replay(r) PROVE SocketsOK'
  BY <1>1 DEF Replay
<1>2. ASSUME NEW r \in Requests, NEW h \in Holds, TakeHold(r, h) PROVE SocketsOK'
  BY <1>2 DEF TakeHold
<1>3. ASSUME NEW r \in Requests, MissHold(r) PROVE SocketsOK'
  BY <1>3 DEF MissHold
<1>4. ASSUME NEW r \in Requests, Answer(r) PROVE SocketsOK'
  BY <1>4 DEF Answer
<1>5. ASSUME NEW r \in Requests, Receive(r) PROVE SocketsOK'
  BY <1>5 DEF Receive
<1>6. ASSUME NEW r \in Requests, AfterError(r) PROVE SocketsOK'
  BY <1>6 DEF AfterError
<1>7. ASSUME NEW r \in Requests, Delete(r) PROVE SocketsOK'
  BY <1>7 DEF Delete
<1>8. ASSUME NEW r \in Requests, ReadStates(r) PROVE SocketsOK'
  BY <1>8 DEF ReadStates
<1>9. ASSUME NEW r \in Requests, Publish(r) PROVE SocketsOK'
  BY <1>9 DEF Publish
<1>10. ASSUME NEW r \in Requests, Released(r) PROVE SocketsOK'
  BY <1>10 DEF Released
<1>11. ASSUME NEW r \in Requests, ReadHolds(r) PROVE SocketsOK'
  BY <1>11 DEF ReadHolds
<1>12. ASSUME NEW r \in Requests, Show(r) PROVE SocketsOK'
  BY <1>12 DEF Show
<1>13. ASSUME NEW r \in Requests, FreeKeys(r) PROVE SocketsOK'
  BY <1>13 DEF FreeKeys
<1>14. ASSUME NEW r \in Requests, PublishSold(r) PROVE SocketsOK'
  BY <1>14 DEF PublishSold
<1>15. ASSUME NEW r \in Requests, Resend(r) PROVE SocketsOK'
  BY <1>15 DEF Resend
<1>16. ASSUME NEW r \in Requests, Fail(r) PROVE SocketsOK'
  BY <1>16 DEF Fail
<1>17. ASSUME NEW r \in Requests, NEW t \in Tabs, GiveBack(r, t) PROVE SocketsOK'
  BY <1>17 DEF GiveBack
<1>18. ASSUME NEW r \in Requests, NEW t \in Tabs, Open(r, t) PROVE SocketsOK'
  BY <1>18 DEF Open
<1>19. ASSUME NEW r \in Requests, NEW t \in Tabs, TimeUp(r, t) PROVE SocketsOK'
  BY <1>19 DEF TimeUp
<1>20. ASSUME NEW r \in Requests, NEW t \in Tabs, Ask(r, t) PROVE SocketsOK'
  BY <1>20 DEF Ask
<1>21. ASSUME NEW r \in Requests, NEW h \in Holds, OthersAsk(r, SeatsOf[h]) PROVE SocketsOK'
  BY <1>21 DEF OthersAsk
<1>22. ASSUME NEW r \in Requests, NEW h \in Holds, OthersGiveBack(r, h) PROVE SocketsOK'
  BY <1>22 DEF OthersGiveBack
<1>31. ASSUME NEW r \in Requests, NEW h \in Holds, Renew(r, h) PROVE SocketsOK'
  BY <1>31 DEF Renew
<1>23. ASSUME NEW r \in Requests, NEW h \in Holds, Confirm(r, h) PROVE SocketsOK'
  BY <1>23 DEF Confirm
<1>24. ASSUME NEW t \in Tabs, Deliver(t) PROVE SocketsOK'
  BY <1>24 DEF Deliver
<1>32. ASSUME NEW t \in Tabs, NEW s \in Seats, Toggle(t, s) PROVE SocketsOK'
  BY <1>32 DEF Toggle
<1>25. ASSUME NEW t \in Tabs, Connect(t) PROVE SocketsOK'
  BY <1>25 DEF Connect
<1>26. ASSUME NEW t \in Tabs, Drop(t) PROVE SocketsOK'
  BY <1>26 DEF Drop
<1>27. ASSUME HandleDisconnect PROVE SocketsOK'
  BY <1>27 DEF HandleDisconnect, Uncount
<1>28. ASSUME NEW h \in Holds, ComeDue(h) PROVE SocketsOK'
  BY <1>28 DEF ComeDue
<1>29. ASSUME NEW h \in Holds, RunOut(h) PROVE SocketsOK'
  BY <1>29 DEF RunOut, Notify
<1>30. CASE UNCHANGED vars
  BY <1>30 DEF vars
<1> QED
  BY <1>1, <1>2, <1>3, <1>4, <1>5, <1>6, <1>7, <1>8, <1>9, <1>10, <1>11, <1>12, <1>13, <1>14, <1>15, <1>16, <1>17, <1>18, <1>19, <1>20, <1>21, <1>22, <1>23, <1>24, <1>25, <1>26, <1>27, <1>28, <1>29, <1>30, <1>31, <1>32 DEF Next, Serve

\* A hold whose deadline moves on is live.
LEMMA RenewLife ==
  ASSUME LifeInv, NEW r \in Requests, NEW h \in Holds, Renew(r, h)
  PROVE  LifeInv'
<1>1. issued' = issued /\ seatKey' = seatKey /\ sold' = sold /\ released' = released
  BY DEF Renew, holdVars
<1>2. Live(h) /\ due' = due \ {h}
  BY DEF Renew
<1>3. ASSUME NEW g \in issued PROVE Ended(g)' \/ Live(g)'
  <2>1. CASE g = h
    BY <1>1, <1>2, <2>1 DEF Live
  <2>2. CASE g # h
    BY <1>1, <1>2, <2>2 DEF LifeInv, Ended, Live
  <2> QED
    BY <2>1, <2>2
<1> QED
  BY <1>1, <1>3 DEF LifeInv

LEMMA LifeStep == StoreOK /\ CallsInv /\ LifeInv /\ [Next]_vars => LifeInv'
<1> SUFFICES ASSUME StoreOK, CallsInv, LifeInv, [Next]_vars PROVE LifeInv'
  OBVIOUS
<1> USE DEF LifeInv, Ended, Live, holdVars, storeVars, tabVars, socketVars
<1>1. ASSUME NEW r \in Requests, Replay(r) PROVE LifeInv'
  BY <1>1 DEF Replay
<1>2. ASSUME NEW r \in Requests, NEW h \in Holds, TakeHold(r, h) PROVE LifeInv'
  BY <1>2, TakeHoldLife
<1>3. ASSUME NEW r \in Requests, MissHold(r) PROVE LifeInv'
  BY <1>3 DEF MissHold
<1>4. ASSUME NEW r \in Requests, Answer(r) PROVE LifeInv'
  BY <1>4 DEF Answer
<1>5. ASSUME NEW r \in Requests, Receive(r) PROVE LifeInv'
  BY <1>5 DEF Receive
<1>6. ASSUME NEW r \in Requests, AfterError(r) PROVE LifeInv'
  BY <1>6 DEF AfterError
<1>7. ASSUME NEW r \in Requests, Delete(r) PROVE LifeInv'
  BY <1>7, DeleteLife
<1>8. ASSUME NEW r \in Requests, ReadStates(r) PROVE LifeInv'
  BY <1>8 DEF ReadStates
<1>9. ASSUME NEW r \in Requests, Publish(r) PROVE LifeInv'
  BY <1>9 DEF Publish
<1>10. ASSUME NEW r \in Requests, Released(r) PROVE LifeInv'
  BY <1>10 DEF Released
<1>11. ASSUME NEW r \in Requests, ReadHolds(r) PROVE LifeInv'
  BY <1>11 DEF ReadHolds
<1>12. ASSUME NEW r \in Requests, Show(r) PROVE LifeInv'
  BY <1>12 DEF Show
<1>13. ASSUME NEW r \in Requests, FreeKeys(r) PROVE LifeInv'
  BY <1>13, FreeKeysLife
<1>14. ASSUME NEW r \in Requests, PublishSold(r) PROVE LifeInv'
  BY <1>14 DEF PublishSold
<1>15. ASSUME NEW r \in Requests, Resend(r) PROVE LifeInv'
  BY <1>15 DEF Resend
<1>16. ASSUME NEW r \in Requests, Fail(r) PROVE LifeInv'
  BY <1>16 DEF Fail
<1>17. ASSUME NEW r \in Requests, NEW t \in Tabs, GiveBack(r, t) PROVE LifeInv'
  BY <1>17 DEF GiveBack
<1>18. ASSUME NEW r \in Requests, NEW t \in Tabs, Open(r, t) PROVE LifeInv'
  BY <1>18 DEF Open
<1>19. ASSUME NEW r \in Requests, NEW t \in Tabs, TimeUp(r, t) PROVE LifeInv'
  BY <1>19 DEF TimeUp
<1>20. ASSUME NEW r \in Requests, NEW t \in Tabs, Ask(r, t) PROVE LifeInv'
  BY <1>20 DEF Ask
<1>21. ASSUME NEW r \in Requests, NEW h \in Holds, OthersAsk(r, SeatsOf[h]) PROVE LifeInv'
  BY <1>21 DEF OthersAsk
<1>22. ASSUME NEW r \in Requests, NEW h \in Holds, OthersGiveBack(r, h) PROVE LifeInv'
  BY <1>22 DEF OthersGiveBack
<1>31. ASSUME NEW r \in Requests, NEW h \in Holds, Renew(r, h) PROVE LifeInv'
  BY <1>31, RenewLife
<1>23. ASSUME NEW r \in Requests, NEW h \in Holds, Confirm(r, h) PROVE LifeInv'
  BY <1>23 DEF Confirm
<1>24. ASSUME NEW t \in Tabs, Deliver(t) PROVE LifeInv'
  BY <1>24 DEF Deliver
<1>32. ASSUME NEW t \in Tabs, NEW s \in Seats, Toggle(t, s) PROVE LifeInv'
  BY <1>32 DEF Toggle
<1>25. ASSUME NEW t \in Tabs, Connect(t) PROVE LifeInv'
  BY <1>25 DEF Connect
<1>26. ASSUME NEW t \in Tabs, Drop(t) PROVE LifeInv'
  BY <1>26 DEF Drop
<1>27. ASSUME HandleDisconnect PROVE LifeInv'
  BY <1>27 DEF HandleDisconnect, Uncount
<1>28. ASSUME NEW h \in Holds, ComeDue(h) PROVE LifeInv'
  BY <1>28 DEF ComeDue
<1>29. ASSUME NEW h \in Holds, RunOut(h) PROVE LifeInv'
  BY <1>29, RunOutLife
<1>30. CASE UNCHANGED vars
  BY <1>30 DEF vars
<1> QED
  BY <1>1, <1>2, <1>3, <1>4, <1>5, <1>6, <1>7, <1>8, <1>9, <1>10, <1>11, <1>12, <1>13, <1>14, <1>15, <1>16, <1>17, <1>18, <1>19, <1>20, <1>21, <1>22, <1>23, <1>24, <1>25, <1>26, <1>27, <1>28, <1>29, <1>30, <1>31, <1>32 DEF Next, Serve

LEMMA MineStep == MineInv /\ CallsInv /\ [Next]_vars => MineInv'
<1> SUFFICES ASSUME MineInv, CallsInv, [Next]_vars PROVE MineInv'
  OBVIOUS
<1> USE DEF MineInv, CallsInv, At, Acquire, Lapse, ReleaseConfirmedHold, holdVars, storeVars, tabVars, socketVars
<1>1. ASSUME NEW r \in Requests, Replay(r) PROVE MineInv'
  BY <1>1 DEF Replay
<1>2. ASSUME NEW r \in Requests, NEW h \in Holds, TakeHold(r, h) PROVE MineInv'
  BY <1>2 DEF TakeHold
<1>3. ASSUME NEW r \in Requests, MissHold(r) PROVE MineInv'
  BY <1>3 DEF MissHold
<1>4. ASSUME NEW r \in Requests, Answer(r) PROVE MineInv'
  BY <1>4 DEF Answer
<1>5. ASSUME NEW r \in Requests, Receive(r) PROVE MineInv'
  BY <1>5 DEF Receive
<1>6. ASSUME NEW r \in Requests, AfterError(r) PROVE MineInv'
  BY <1>6 DEF AfterError
<1>7. ASSUME NEW r \in Requests, Delete(r) PROVE MineInv'
  BY <1>7 DEF Delete
<1>8. ASSUME NEW r \in Requests, ReadStates(r) PROVE MineInv'
  BY <1>8 DEF ReadStates
<1>9. ASSUME NEW r \in Requests, Publish(r) PROVE MineInv'
  BY <1>9 DEF Publish
<1>10. ASSUME NEW r \in Requests, Released(r) PROVE MineInv'
  BY <1>10 DEF Released
<1>11. ASSUME NEW r \in Requests, ReadHolds(r) PROVE MineInv'
  BY <1>11 DEF ReadHolds
<1>12. ASSUME NEW r \in Requests, Show(r) PROVE MineInv'
  BY <1>12 DEF Show
<1>13. ASSUME NEW r \in Requests, FreeKeys(r) PROVE MineInv'
  BY <1>13 DEF FreeKeys
<1>14. ASSUME NEW r \in Requests, PublishSold(r) PROVE MineInv'
  BY <1>14 DEF PublishSold
<1>15. ASSUME NEW r \in Requests, Resend(r) PROVE MineInv'
  BY <1>15 DEF Resend
<1>16. ASSUME NEW r \in Requests, Fail(r) PROVE MineInv'
  BY <1>16 DEF Fail
<1>17. ASSUME NEW r \in Requests, NEW t \in Tabs, GiveBack(r, t) PROVE MineInv'
  BY <1>17 DEF GiveBack
<1>18. ASSUME NEW r \in Requests, NEW t \in Tabs, Open(r, t) PROVE MineInv'
  BY <1>18 DEF Open
<1>19. ASSUME NEW r \in Requests, NEW t \in Tabs, TimeUp(r, t) PROVE MineInv'
  BY <1>19 DEF TimeUp
<1>20. ASSUME NEW r \in Requests, NEW t \in Tabs, Ask(r, t) PROVE MineInv'
  BY <1>20 DEF Ask
<1>21. ASSUME NEW r \in Requests, NEW h \in Holds, OthersAsk(r, SeatsOf[h]) PROVE MineInv'
  BY <1>21 DEF OthersAsk
<1>22. ASSUME NEW r \in Requests, NEW h \in Holds, OthersGiveBack(r, h) PROVE MineInv'
  BY <1>22 DEF OthersGiveBack
<1>31. ASSUME NEW r \in Requests, NEW h \in Holds, Renew(r, h) PROVE MineInv'
  BY <1>31 DEF Renew
<1>23. ASSUME NEW r \in Requests, NEW h \in Holds, Confirm(r, h) PROVE MineInv'
  BY <1>23 DEF Confirm
<1>24. ASSUME NEW t \in Tabs, Deliver(t) PROVE MineInv'
  BY <1>24 DEF Deliver
<1>32. ASSUME NEW t \in Tabs, NEW s \in Seats, Toggle(t, s) PROVE MineInv'
  BY <1>32 DEF Toggle
<1>25. ASSUME NEW t \in Tabs, Connect(t) PROVE MineInv'
  BY <1>25 DEF Connect
<1>26. ASSUME NEW t \in Tabs, Drop(t) PROVE MineInv'
  BY <1>26 DEF Drop
<1>27. ASSUME HandleDisconnect PROVE MineInv'
  BY <1>27 DEF HandleDisconnect, Uncount
<1>28. ASSUME NEW h \in Holds, ComeDue(h) PROVE MineInv'
  BY <1>28 DEF ComeDue
<1>29. ASSUME NEW h \in Holds, RunOut(h) PROVE MineInv'
  BY <1>29 DEF RunOut, Notify
<1>30. CASE UNCHANGED vars
  BY <1>30 DEF vars
<1> QED
  BY <1>1, <1>2, <1>3, <1>4, <1>5, <1>6, <1>7, <1>8, <1>9, <1>10, <1>11, <1>12, <1>13, <1>14, <1>15, <1>16, <1>17, <1>18, <1>19, <1>20, <1>21, <1>22, <1>23, <1>24, <1>25, <1>26, <1>27, <1>28, <1>29, <1>30, <1>31, <1>32 DEF Next, Serve

LEMMA CallsInvStep == CallsOK /\ MineInv /\ CallsInv /\ [Next]_vars => CallsInv'
<1> SUFFICES ASSUME CallsOK, MineInv, CallsInv, [Next]_vars PROVE CallsInv'
  OBVIOUS
<1> USE DEF CallsOK, Calls, MineInv, CallsInv, Acquire, Lapse, ReleaseConfirmedHold, Check, Replayable, At, Move, holdVars, storeVars, tabVars, socketVars
<1>1. ASSUME NEW r \in Requests, Replay(r) PROVE CallsInv'
  BY <1>1 DEF Replay
<1>2. ASSUME NEW r \in Requests, NEW h \in Holds, TakeHold(r, h) PROVE CallsInv'
  BY <1>2, TakeHoldInv
<1>3. ASSUME NEW r \in Requests, MissHold(r) PROVE CallsInv'
  BY <1>3, ReplyInv DEF MissHold
<1>4. ASSUME NEW r \in Requests, Answer(r) PROVE CallsInv'
  BY <1>4, ReplyInv DEF Answer
<1>5. ASSUME NEW r \in Requests, Receive(r) PROVE CallsInv'
  BY <1>5, EndInv DEF Receive
<1>6. ASSUME NEW r \in Requests, AfterError(r) PROVE CallsInv'
  BY <1>6, RecoverInv DEF AfterError
<1>7. ASSUME NEW r \in Requests, Delete(r) PROVE CallsInv'
  BY <1>7, ReplyInv, EndInv DEF Delete
<1>8. ASSUME NEW r \in Requests, ReadStates(r) PROVE CallsInv'
  BY <1>8 DEF ReadStates
<1>9. ASSUME NEW r \in Requests, Publish(r) PROVE CallsInv'
  BY <1>9, ReplyInv DEF Publish
<1>10. ASSUME NEW r \in Requests, Released(r) PROVE CallsInv'
  BY <1>10, RecoverInv DEF Released
<1>11. ASSUME NEW r \in Requests, ReadHolds(r) PROVE CallsInv'
  BY <1>11 DEF ReadHolds
<1>12. ASSUME NEW r \in Requests, Show(r) PROVE CallsInv'
  BY <1>12, EndInv DEF Show
<1>13. ASSUME NEW r \in Requests, FreeKeys(r) PROVE CallsInv'
  BY <1>13 DEF FreeKeys
<1>14. ASSUME NEW r \in Requests, PublishSold(r) PROVE CallsInv'
  BY <1>14, EndInv DEF PublishSold
<1>15. ASSUME NEW r \in Requests, Resend(r) PROVE CallsInv'
  BY <1>15 DEF Resend
<1>16. ASSUME NEW r \in Requests, Fail(r) PROVE CallsInv'
  BY <1>16, FailInv
<1>17. ASSUME NEW r \in Requests, NEW t \in Tabs, GiveBack(r, t) PROVE CallsInv'
  BY <1>17, BeginInv DEF GiveBack
<1>18. ASSUME NEW r \in Requests, NEW t \in Tabs, Open(r, t) PROVE CallsInv'
  BY <1>18, OpenInv
<1>19. ASSUME NEW r \in Requests, NEW t \in Tabs, TimeUp(r, t) PROVE CallsInv'
  BY <1>19, LoadInv DEF TimeUp
<1>20. ASSUME NEW r \in Requests, NEW t \in Tabs, Ask(r, t) PROVE CallsInv'
  BY <1>20, BeginInv DEF Ask
<1>21. ASSUME NEW r \in Requests, NEW h \in Holds, OthersAsk(r, SeatsOf[h]) PROVE CallsInv'
  BY <1>21, BeginInv DEF OthersAsk
<1>22. ASSUME NEW r \in Requests, NEW h \in Holds, OthersGiveBack(r, h) PROVE CallsInv'
  BY <1>22, BeginInv, HoldsAssumption DEF OthersGiveBack, OfOthers
<1>31. ASSUME NEW r \in Requests, NEW h \in Holds, Renew(r, h) PROVE CallsInv'
  BY <1>31, BeginInv, HoldsAssumption DEF Renew, OfOthers
<1>23. ASSUME NEW r \in Requests, NEW h \in Holds, Confirm(r, h) PROVE CallsInv'
  BY <1>23, BeginInv, HoldsAssumption DEF Confirm
<1>24. ASSUME NEW t \in Tabs, Deliver(t) PROVE CallsInv'
  BY <1>24 DEF Deliver
<1>32. ASSUME NEW t \in Tabs, NEW s \in Seats, Toggle(t, s) PROVE CallsInv'
  BY <1>32 DEF Toggle
<1>25. ASSUME NEW t \in Tabs, Connect(t) PROVE CallsInv'
  BY <1>25 DEF Connect
<1>26. ASSUME NEW t \in Tabs, Drop(t) PROVE CallsInv'
  BY <1>26 DEF Drop
<1>27. ASSUME HandleDisconnect PROVE CallsInv'
  BY <1>27 DEF HandleDisconnect, Uncount
<1>28. ASSUME NEW h \in Holds, ComeDue(h) PROVE CallsInv'
  BY <1>28 DEF ComeDue
<1>29. ASSUME NEW h \in Holds, RunOut(h) PROVE CallsInv'
  BY <1>29, RunOutInv
<1>30. CASE UNCHANGED vars
  BY <1>30 DEF vars
<1> QED
  BY <1>1, <1>2, <1>3, <1>4, <1>5, <1>6, <1>7, <1>8, <1>9, <1>10, <1>11, <1>12, <1>13, <1>14, <1>15, <1>16, <1>17, <1>18, <1>19, <1>20, <1>21, <1>22, <1>23, <1>24, <1>25, <1>26, <1>27, <1>28, <1>29, <1>30, <1>31, <1>32 DEF Next, Serve

LEMMA CountStep == SocketsOK /\ ConnectionsCounted /\ [Next]_vars => ConnectionsCounted'
<1> SUFFICES ASSUME SocketsOK, ConnectionsCounted, [Next]_vars PROVE ConnectionsCounted'
  OBVIOUS
<1> USE DEF ConnectionsCounted, Connected, holdVars, storeVars, tabVars, socketVars
<1>1. ASSUME NEW r \in Requests, Replay(r) PROVE ConnectionsCounted'
  BY <1>1 DEF Replay
<1>2. ASSUME NEW r \in Requests, NEW h \in Holds, TakeHold(r, h) PROVE ConnectionsCounted'
  BY <1>2 DEF TakeHold
<1>3. ASSUME NEW r \in Requests, MissHold(r) PROVE ConnectionsCounted'
  BY <1>3 DEF MissHold
<1>4. ASSUME NEW r \in Requests, Answer(r) PROVE ConnectionsCounted'
  BY <1>4 DEF Answer
<1>5. ASSUME NEW r \in Requests, Receive(r) PROVE ConnectionsCounted'
  BY <1>5 DEF Receive
<1>6. ASSUME NEW r \in Requests, AfterError(r) PROVE ConnectionsCounted'
  BY <1>6 DEF AfterError
<1>7. ASSUME NEW r \in Requests, Delete(r) PROVE ConnectionsCounted'
  BY <1>7 DEF Delete
<1>8. ASSUME NEW r \in Requests, ReadStates(r) PROVE ConnectionsCounted'
  BY <1>8 DEF ReadStates
<1>9. ASSUME NEW r \in Requests, Publish(r) PROVE ConnectionsCounted'
  BY <1>9 DEF Publish
<1>10. ASSUME NEW r \in Requests, Released(r) PROVE ConnectionsCounted'
  BY <1>10 DEF Released
<1>11. ASSUME NEW r \in Requests, ReadHolds(r) PROVE ConnectionsCounted'
  BY <1>11 DEF ReadHolds
<1>12. ASSUME NEW r \in Requests, Show(r) PROVE ConnectionsCounted'
  BY <1>12 DEF Show
<1>13. ASSUME NEW r \in Requests, FreeKeys(r) PROVE ConnectionsCounted'
  BY <1>13 DEF FreeKeys
<1>14. ASSUME NEW r \in Requests, PublishSold(r) PROVE ConnectionsCounted'
  BY <1>14 DEF PublishSold
<1>15. ASSUME NEW r \in Requests, Resend(r) PROVE ConnectionsCounted'
  BY <1>15 DEF Resend
<1>16. ASSUME NEW r \in Requests, Fail(r) PROVE ConnectionsCounted'
  BY <1>16 DEF Fail
<1>17. ASSUME NEW r \in Requests, NEW t \in Tabs, GiveBack(r, t) PROVE ConnectionsCounted'
  BY <1>17 DEF GiveBack
<1>18. ASSUME NEW r \in Requests, NEW t \in Tabs, Open(r, t) PROVE ConnectionsCounted'
  BY <1>18, HangCounts DEF Open
<1>19. ASSUME NEW r \in Requests, NEW t \in Tabs, TimeUp(r, t) PROVE ConnectionsCounted'
  BY <1>19 DEF TimeUp
<1>20. ASSUME NEW r \in Requests, NEW t \in Tabs, Ask(r, t) PROVE ConnectionsCounted'
  BY <1>20 DEF Ask
<1>21. ASSUME NEW r \in Requests, NEW h \in Holds, OthersAsk(r, SeatsOf[h]) PROVE ConnectionsCounted'
  BY <1>21 DEF OthersAsk
<1>22. ASSUME NEW r \in Requests, NEW h \in Holds, OthersGiveBack(r, h) PROVE ConnectionsCounted'
  BY <1>22 DEF OthersGiveBack
<1>31. ASSUME NEW r \in Requests, NEW h \in Holds, Renew(r, h) PROVE ConnectionsCounted'
  BY <1>31 DEF Renew
<1>23. ASSUME NEW r \in Requests, NEW h \in Holds, Confirm(r, h) PROVE ConnectionsCounted'
  BY <1>23 DEF Confirm
<1>24. ASSUME NEW t \in Tabs, Deliver(t) PROVE ConnectionsCounted'
  BY <1>24 DEF Deliver
<1>32. ASSUME NEW t \in Tabs, NEW s \in Seats, Toggle(t, s) PROVE ConnectionsCounted'
  BY <1>32 DEF Toggle
<1>25. ASSUME NEW t \in Tabs, Connect(t) PROVE ConnectionsCounted'
  BY <1>25, ConnectCounts
<1>26. ASSUME NEW t \in Tabs, Drop(t) PROVE ConnectionsCounted'
  BY <1>26, HangCounts DEF Drop
<1>27. ASSUME HandleDisconnect PROVE ConnectionsCounted'
  BY <1>27, DisconnectCounts
<1>28. ASSUME NEW h \in Holds, ComeDue(h) PROVE ConnectionsCounted'
  BY <1>28 DEF ComeDue
<1>29. ASSUME NEW h \in Holds, RunOut(h) PROVE ConnectionsCounted'
  BY <1>29 DEF RunOut, Notify
<1>30. CASE UNCHANGED vars
  BY <1>30 DEF vars
<1> QED
  BY <1>1, <1>2, <1>3, <1>4, <1>5, <1>6, <1>7, <1>8, <1>9, <1>10, <1>11, <1>12, <1>13, <1>14, <1>15, <1>16, <1>17, <1>18, <1>19, <1>20, <1>21, <1>22, <1>23, <1>24, <1>25, <1>26, <1>27, <1>28, <1>29, <1>30, <1>31, <1>32 DEF Next, Serve


(***************************************************************************)
(* The theorems.                                                           *)
(***************************************************************************)
LEMMA InitInv == Init => SeatViewTypeOK /\ SeatViewInv
<1> SUFFICES ASSUME Init PROVE SeatViewTypeOK /\ SeatViewInv
  OBVIOUS
<1>1. StoreOK
  BY DEF Init, HoldInit, StoreOK, HoldTypeOK
<1>2. CallsOK
  BY IdleFact DEF Init, CallsOK
<1>3. TabsOK
  BY ShownFacts DEF Init, TabsOK
<1>4. SocketsOK
  BY SeatViewAssumption DEF Init, SocketsOK
<1>5. LifeInv /\ MineInv /\ mine \in [Tabs -> Holds \cup {NoHold}]
  BY DEF Init, HoldInit, LifeInv, MineInv
<1>6. CallsInv
  BY IdleInv DEF Init, CallsInv
<1>7. ConnectionsCounted
  <2>1. Connected = {}
    BY DEF Init, Connected
  <2> QED
    BY <2>1, FS_EmptySet, SeatViewAssumption DEF Init, ConnectionsCounted
<1> QED
  BY <1>1, <1>2, <1>3, <1>4, <1>5, <1>6, <1>7 DEF SeatViewTypeOK, SeatViewInv

\* The types and the invariant hold however calls, updates and faults interleave.
THEOREM SeatViewCorrect == Spec => [](SeatViewTypeOK /\ SeatViewInv)
<1>1. SeatViewTypeOK /\ SeatViewInv /\ [Next]_vars => (SeatViewTypeOK /\ SeatViewInv)'
  <2> SUFFICES ASSUME SeatViewTypeOK, SeatViewInv, [Next]_vars
               PROVE  (SeatViewTypeOK /\ SeatViewInv)'
    OBVIOUS
  <2>1. StoreOK /\ CallsOK /\ TabsOK /\ SocketsOK /\ mine \in [Tabs -> Holds \cup {NoHold}]
    BY DEF SeatViewTypeOK
  <2>2. LifeInv /\ MineInv /\ CallsInv /\ ConnectionsCounted
    BY DEF SeatViewInv
  <2>3. StoreOK' /\ CallsOK' /\ TabsOK' /\ SocketsOK'
    BY <2>1, <2>2, StoreStep, CallsStep, TabsStep, SocketsStep
  <2>4. LifeInv' /\ MineInv' /\ CallsInv' /\ ConnectionsCounted'
    BY <2>1, <2>2, LifeStep, MineStep, CallsInvStep, CountStep
  <2>5. (mine \in [Tabs -> Holds \cup {NoHold}])'
    BY <2>3, <2>4 DEF MineInv, StoreOK, HoldTypeOK
  <2> QED
    BY <2>3, <2>4, <2>5 DEF SeatViewTypeOK, SeatViewInv
<1> QED
  BY <1>1, InitInv, PTL DEF Spec

\* A hold that a tab believes it has is live in Redis with all its seats, until
\* it is given back, its time is up or its seats are sold.
THEOREM BelievedHoldsRealHolds == Spec => []BelievedHoldsReal
<1>1. SeatViewInv => BelievedHoldsReal
  BY DEF SeatViewInv, LifeInv, MineInv, Ended, BelievedHoldsReal
<1> QED
  BY <1>1, SeatViewCorrect, PTL

\* The count that admits a connection is the number of admitted connections
\* whose end was not handled, and never above the limit.
THEOREM ConnectionsCountedHolds == Spec => []ConnectionsCounted
BY SeatViewCorrect, PTL DEF SeatViewInv

(***************************************************************************)
(* The seats' two stores.  Few steps touch them; what those do is what the *)
(* contract with the checkout allows.                                      *)
(***************************************************************************)
LEMMA StoresUntouched ==
  ASSUME [Next]_vars
  PROVE  \/ UNCHANGED <<seatKey, issued, sold>>
         \/ \E r \in Requests, h \in Holds : TakeHold(r, h) \/ Confirm(r, h)
         \/ \E r \in Requests : Delete(r) \/ FreeKeys(r)
         \/ \E h \in Holds : RunOut(h)
<1> USE DEF holdVars, storeVars
<1>1. ASSUME NEW r \in Requests,
             \/ Replay(r) \/ MissHold(r) \/ Answer(r) \/ Receive(r) \/ AfterError(r)
             \/ ReadStates(r) \/ Publish(r)
      PROVE  UNCHANGED <<seatKey, issued, sold>>
  BY <1>1 DEF Replay, MissHold, Answer, Receive, AfterError, ReadStates, Publish
<1>2. ASSUME NEW r \in Requests,
             \/ Released(r) \/ ReadHolds(r) \/ Show(r) \/ PublishSold(r) \/ Resend(r) \/ Fail(r)
      PROVE  UNCHANGED <<seatKey, issued, sold>>
  BY <1>2 DEF Released, ReadHolds, Show, PublishSold, Resend, Fail
<1>3. ASSUME NEW r \in Requests, NEW t \in Tabs,
             Ask(r, t) \/ GiveBack(r, t) \/ Open(r, t) \/ TimeUp(r, t)
      PROVE  UNCHANGED <<seatKey, issued, sold>>
  BY <1>3 DEF GiveBack, Open, TimeUp, Ask
<1>4. ASSUME NEW r \in Requests, NEW h \in Holds,
             OthersAsk(r, SeatsOf[h]) \/ OthersGiveBack(r, h) \/ Renew(r, h)
      PROVE  UNCHANGED <<seatKey, issued, sold>>
  BY <1>4 DEF OthersAsk, OthersGiveBack, Renew
<1>5. ASSUME NEW t \in Tabs,
             Deliver(t) \/ Connect(t) \/ Drop(t) \/ \E s \in Seats : Toggle(t, s)
      PROVE  UNCHANGED <<seatKey, issued, sold>>
  BY <1>5 DEF Deliver, Connect, Drop, Toggle
<1>6. CASE HandleDisconnect \/ \E h \in Holds : ComeDue(h)
  BY <1>6 DEF HandleDisconnect, ComeDue
<1>7. CASE UNCHANGED vars
  BY <1>7 DEF vars
<1> QED
  BY <1>1, <1>2, <1>3, <1>4, <1>5, <1>6, <1>7 DEF Next, Serve

\* Deleting keys puts no hold where it does not belong.
LEMMA DeletedKeys ==
  ASSUME KeysInv, NEW S, DeleteKeys(S)
  PROVE  KeysInv'
BY DEF KeysInv, DeleteKeys

LEMMA KeysStep ==
  ASSUME StoreOK, KeysInv, [Next]_vars
  PROVE  KeysInv'
<1>1. CASE UNCHANGED <<seatKey, issued, sold>>
  BY <1>1 DEF KeysInv
<1>2. ASSUME NEW r \in Requests, NEW h \in Holds, TakeHold(r, h)
      PROVE  KeysInv'
  BY <1>2 DEF TakeHold, Acquire, KeysInv
<1>3. ASSUME NEW r \in Requests, NEW h \in Holds, Confirm(r, h)
      PROVE  KeysInv'
  BY <1>3 DEF Confirm, KeysInv, holdVars
<1>4. ASSUME NEW r \in Requests, Delete(r)
      PROVE  KeysInv'
  <2>1. CASE DeleteKeys(SeatsOf[request[r].hold])
    BY <2>1, DeletedKeys
  <2>2. CASE UNCHANGED seatKey
    BY <2>2 DEF KeysInv
  <2> QED
    BY <1>4, <2>1, <2>2 DEF Delete
<1>5. ASSUME NEW r \in Requests, FreeKeys(r)
      PROVE  KeysInv'
  BY <1>5, DeletedKeys DEF FreeKeys, ReleaseConfirmedHold
<1>6. ASSUME NEW h \in Holds, RunOut(h)
      PROVE  KeysInv'
  BY <1>6, DeletedKeys DEF RunOut, Lapse
<1> QED
  BY <1>1, <1>2, <1>3, <1>4, <1>5, <1>6, StoresUntouched

\* Of all seats, the keys of the seats a hold asked for may carry it.
THEOREM KeysBelong == Spec => []KeysInv
<1>1. Init => KeysInv
  BY DEF Init, HoldInit, KeysInv
<1>2. StoreOK /\ KeysInv /\ [Next]_vars => KeysInv'
  BY KeysStep
<1>3. SeatViewTypeOK => StoreOK
  BY DEF SeatViewTypeOK
<1> QED
  BY <1>1, <1>2, <1>3, SeatViewCorrect, PTL DEF Spec

\* A hold gives up its keys when it deletes those that carry it, and no others.
LEMMA GivesUp ==
  ASSUME KeysInv, NEW h \in Holds, NEW S, DeleteKeys(S), UNCHANGED <<issued, sold>>,
         \A s \in SeatsOf[h] : s \in S <=> seatKey[s] = h,
         S \subseteq SeatsOf[h]
  PROVE  Store!GiveUp(h)
<1>1. \A s \in Seats : s \in S <=> seatKey[s] = h
  BY HoldsAssumption DEF KeysInv
<1>2. seatKey' = [s \in Seats |-> IF seatKey[s] = h THEN NoHold ELSE seatKey[s]]
  BY <1>1 DEF DeleteKeys
<1> QED
  BY <1>2 DEF Store!GiveUp

LEMMA DeleteGivesUp ==
  ASSUME StoreOK, CallsInv, KeysInv, NEW r \in Requests, Delete(r)
  PROVE  (\E h \in Holds : Store!GiveUp(h)) \/ UNCHANGED <<seatKey, issued, sold>>
<1> DEFINE h == request[r].hold
<1>1. h \in Holds
  BY DEF Delete, At, CallsInv, StoreOK, HoldTypeOK
<1>2. UNCHANGED <<issued, sold>>
  BY DEF Delete
<1>3. CASE Owned(h) /\ DeleteKeys(SeatsOf[h])
  <2> HIDE DEF h
  <2>1. Store!GiveUp(h)
    BY <1>1, <1>2, <1>3, GivesUp DEF Owned, Live
  <2> QED
    BY <1>1, <2>1
<1> QED
  BY <1>2, <1>3 DEF Delete

LEMMA RunOutGivesUp ==
  ASSUME KeysInv, NEW h \in Holds, RunOut(h)
  PROVE  Store!GiveUp(h)
<1> DEFINE S == {s \in SeatsOf[h] : seatKey[s] = h}
<1>1. DeleteKeys(S) /\ UNCHANGED <<issued, sold>>
  BY DEF RunOut, Lapse
<1>2. S \subseteq SeatsOf[h] /\ \A s \in SeatsOf[h] : s \in S <=> seatKey[s] = h
  OBVIOUS
<1> HIDE DEF S
<1> QED
  BY <1>1, <1>2, GivesUp

LEMMA FreeKeysFrees ==
  ASSUME StoreOK, CallsInv, NEW r \in Requests, FreeKeys(r)
  PROVE  \E h \in Holds : Store!Free(h)
<1> DEFINE h == request[r].hold
<1>1. h \in issued /\ h \in Holds /\ SeatsOf[h] \subseteq sold
  BY DEF FreeKeys, Move, At, CallsInv, StoreOK, HoldTypeOK
<1>2. DeleteKeys(SeatsOf[h]) /\ UNCHANGED <<issued, sold>>
  BY DEF FreeKeys, ReleaseConfirmedHold
<1> HIDE DEF h
<1>3. Store!Free(h)
  BY <1>1, <1>2 DEF DeleteKeys, Store!Free
<1> QED
  BY <1>1, <1>3

LEMMA StepIsStoreStep ==
  ASSUME StoreOK, CallsInv, KeysInv, [Next]_vars
  PROVE  [Store!Next]_(Store!storeVars)
<1>1. CASE UNCHANGED <<seatKey, issued, sold>>
  BY <1>1 DEF Store!storeVars
<1>2. ASSUME NEW r \in Requests, NEW h \in Holds, TakeHold(r, h)
      PROVE  Store!Take(h)
  BY <1>2 DEF TakeHold, Acquire, Store!Take
<1>3. ASSUME NEW r \in Requests, NEW h \in Holds, Confirm(r, h)
      PROVE  Store!Sell(h)
  BY <1>3 DEF Confirm, holdVars, Store!Sell
<1>4. ASSUME NEW r \in Requests, Delete(r)
      PROVE  Store!Next \/ UNCHANGED <<seatKey, issued, sold>>
  BY <1>4, DeleteGivesUp DEF Store!Next
<1>5. ASSUME NEW r \in Requests, FreeKeys(r)
      PROVE  Store!Next
  BY <1>5, FreeKeysFrees DEF Store!Next
<1>6. ASSUME NEW h \in Holds, RunOut(h)
      PROVE  Store!Next
  BY <1>6, RunOutGivesUp DEF Store!Next
<1> QED
  BY <1>1, <1>2, <1>3, <1>4, <1>5, <1>6, StoresUntouched DEF Store!Next

\* Tabs, other customers and lapsing keys, however their calls interleave, keep
\* the contract over the seats' two stores that the checkout relies on.
THEOREM SeatMapKeepsContract == Spec => SeatMapKeepsSeatStore
<1>1. Init => Store!Init
  BY DEF Init, HoldInit, Store!Init
<1>2. StoreOK /\ CallsInv /\ KeysInv /\ [Next]_vars => [Store!Next]_(Store!storeVars)
  BY StepIsStoreStep
<1>3. SeatViewTypeOK /\ SeatViewInv => StoreOK /\ CallsInv
  BY DEF SeatViewTypeOK, SeatViewInv
<1> QED
  BY <1>1, <1>2, <1>3, SeatViewCorrect, KeysBelong, PTL DEF Spec, SeatMapKeepsSeatStore, Store!Spec

LEMMA WholeStep ==
  ASSUME Store!Whole, [Store!Next]_(Store!storeVars)
  PROVE  Store!Whole'
<1> USE HoldsAssumption
<1> SUFFICES ASSUME NEW h \in Holds, NEW r \in SeatsOf[h], NEW s \in SeatsOf[h],
                    seatKey'[r] = h, seatKey'[s] # h
             PROVE  s \in sold'
  BY DEF Store!Whole
<1>0. r \in Seats /\ s \in Seats /\ h # NoHold
  OBVIOUS
<1>1. CASE UNCHANGED Store!storeVars
  BY <1>1 DEF Store!storeVars, Store!Whole
<1>2. ASSUME NEW g \in Holds, Store!Take(g)
      PROVE  s \in sold'
  BY <1>0, <1>2 DEF Store!Take, Store!Whole
<1>3. ASSUME NEW g \in Holds, Store!GiveUp(g)
      PROVE  s \in sold'
  BY <1>0, <1>3 DEF Store!GiveUp, Store!Whole
<1>4. ASSUME NEW g \in Holds, Store!Sell(g)
      PROVE  s \in sold'
  BY <1>4 DEF Store!Sell, Store!Whole
<1>5. ASSUME NEW g \in Holds, Store!Free(g)
      PROVE  s \in sold'
  BY <1>0, <1>5 DEF Store!Free, Store!Whole
<1> QED
  BY <1>1, <1>2, <1>3, <1>4, <1>5 DEF Store!Next

\* From the contract alone, so on both sides of it: acquireHold() takes all keys
\* or none, and what deletes them leaves no hold in part, but for seats sold.
THEOREM ContractKeepsHoldsWhole == Store!Spec => []Store!Whole
<1>1. Store!Init => Store!Whole
  BY HoldsAssumption DEF Store!Init, Store!Whole
<1> QED
  BY <1>1, WholeStep, PTL DEF Store!Spec

\* So a customer of the seat map whose hold kept a seat still has every seat of
\* it that is not sold.
THEOREM SeatMapKeepsHoldsWhole == Spec => []Store!Whole
BY SeatMapKeepsContract, ContractKeepsHoldsWhole, PTL DEF SeatMapKeepsSeatStore
==============================================================================
