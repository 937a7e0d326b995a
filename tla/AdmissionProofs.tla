-------------------------- MODULE AdmissionProofs --------------------------
(***************************************************************************)
(* Proofs about Admission for every number of events, tickets, requests,   *)
(* processes and keys: one lemma for each part of the invariant, one step  *)
(* for each action.                                                        *)
(***************************************************************************)
EXTENDS AdmissionProperties, TLAPS

LEMMA TypeStep == AdmissionTypeOK /\ [Next]_vars => AdmissionTypeOK'
<1> SUFFICES ASSUME AdmissionTypeOK, [Next]_vars PROVE AdmissionTypeOK'
  OBVIOUS
<1> USE AdmissionAssumption DEF AdmissionTypeOK, Configs, EditKinds, EventStatus, TicketStatus, Ask, Answer, Plan, eventVars, ticketVars, requestVars, configVars
<1>1. ASSUME NEW e \in Events, Create(e) PROVE AdmissionTypeOK'
  BY <1>1 DEF Create
<1>2. ASSUME NEW m \in Managers, NEW e \in Events, NEW k \in EditKinds, CheckEdit(m, e, k) PROVE AdmissionTypeOK'
  BY <1>2 DEF CheckEdit
<1>3. ASSUME NEW m \in Managers, NEW e \in Events, NEW to \in Targets, CheckTransition(m, e, to) PROVE AdmissionTypeOK'
  BY <1>3 DEF CheckTransition, Targets, Allowed
<1>4. ASSUME NEW m \in Managers, WriteEdit(m) PROVE AdmissionTypeOK'
  BY <1>4 DEF WriteEdit
<1>5. ASSUME NEW m \in Managers, WriteStatus(m) PROVE AdmissionTypeOK'
  BY <1>5 DEF WriteStatus
<1>6. ASSUME NEW m \in Managers, AbortRequest(m) PROVE AdmissionTypeOK'
  BY <1>6 DEF AbortRequest
<1>7. ASSUME NEW t \in Tickets, Book(t) PROVE AdmissionTypeOK'
  BY <1>7 DEF Book
<1>8. ASSUME NEW p \in Processes, NEW t \in Tickets, Issue(p, t) PROVE AdmissionTypeOK'
  BY <1>8 DEF Issue
<1>9. ASSUME NEW v \in Versions, AddKey(v) PROVE AdmissionTypeOK'
  BY <1>9 DEF AddKey
<1>10. ASSUME NEW v \in Versions, ActivateKey(v) PROVE AdmissionTypeOK'
  BY <1>10 DEF ActivateKey
<1>11. ASSUME NEW v \in Versions, RetireKey(v) PROVE AdmissionTypeOK'
  BY <1>11 DEF RetireKey
<1>12. ASSUME NEW p \in Processes, Restart(p) PROVE AdmissionTypeOK'
  BY <1>12 DEF Restart
<1>13. ASSUME NEW s \in Scanners, NEW p \in Processes, NEW t \in Tickets, Scan(s, p, t) PROVE AdmissionTypeOK'
  BY <1>13 DEF Scan, Admissible
<1>14. ASSUME NEW s \in Scanners, CheckIn(s) PROVE AdmissionTypeOK'
  <2>1. scanned[s] \in Tickets
    BY <1>14 DEF CheckIn
  <2>2. CASE Admit(s, scanned[s])
    BY <1>14, <2>1, <2>2 DEF CheckIn, Admit
  <2>3. CASE Refuse(scanned[s])
    BY <1>14, <2>3 DEF CheckIn, Refuse
  <2> QED
    BY <1>14, <2>2, <2>3 DEF CheckIn
<1>15. CASE UNCHANGED vars
  BY <1>15 DEF vars, Ask, Answer, Plan, eventVars, ticketVars, requestVars, configVars
<1> HIDE DEF AdmissionTypeOK
<1> QED
  BY <1>1, <1>2, <1>3, <1>4, <1>5, <1>6, <1>7, <1>8, <1>9, <1>10, <1>11, <1>12, <1>13, <1>14, <1>15 DEF Next

LEMMA AdmitsStep == AdmissionTypeOK /\ AdmitsOnce /\ [Next]_vars => AdmitsOnce'
<1> SUFFICES ASSUME AdmissionTypeOK, AdmitsOnce, [Next]_vars PROVE AdmitsOnce'
  OBVIOUS
<1> USE AdmissionAssumption DEF AdmissionTypeOK, Configs, EditKinds, EventStatus, TicketStatus, AdmitsOnce, HasCheckIn, Ask, Answer, Plan, eventVars, ticketVars, requestVars, configVars
<1>1. ASSUME NEW e \in Events, Create(e) PROVE AdmitsOnce'
  BY <1>1 DEF Create
<1>2. ASSUME NEW m \in Managers, NEW e \in Events, NEW k \in EditKinds, CheckEdit(m, e, k) PROVE AdmitsOnce'
  BY <1>2 DEF CheckEdit
<1>3. ASSUME NEW m \in Managers, NEW e \in Events, NEW to \in Targets, CheckTransition(m, e, to) PROVE AdmitsOnce'
  BY <1>3 DEF CheckTransition, Targets, Allowed
<1>4. ASSUME NEW m \in Managers, WriteEdit(m) PROVE AdmitsOnce'
  BY <1>4 DEF WriteEdit
<1>5. ASSUME NEW m \in Managers, WriteStatus(m) PROVE AdmitsOnce'
  BY <1>5 DEF WriteStatus
<1>6. ASSUME NEW m \in Managers, AbortRequest(m) PROVE AdmitsOnce'
  BY <1>6 DEF AbortRequest
<1>7. ASSUME NEW t \in Tickets, Book(t) PROVE AdmitsOnce'
  BY <1>7 DEF Book
<1>8. ASSUME NEW p \in Processes, NEW t \in Tickets, Issue(p, t) PROVE AdmitsOnce'
  BY <1>8 DEF Issue
<1>9. ASSUME NEW v \in Versions, AddKey(v) PROVE AdmitsOnce'
  BY <1>9 DEF AddKey
<1>10. ASSUME NEW v \in Versions, ActivateKey(v) PROVE AdmitsOnce'
  BY <1>10 DEF ActivateKey
<1>11. ASSUME NEW v \in Versions, RetireKey(v) PROVE AdmitsOnce'
  BY <1>11 DEF RetireKey
<1>12. ASSUME NEW p \in Processes, Restart(p) PROVE AdmitsOnce'
  BY <1>12 DEF Restart
<1>13. ASSUME NEW s \in Scanners, NEW p \in Processes, NEW t \in Tickets, Scan(s, p, t) PROVE AdmitsOnce'
  BY <1>13 DEF Scan, Admissible
<1>14. ASSUME NEW s \in Scanners, CheckIn(s) PROVE AdmitsOnce'
  <2>1. scanned[s] \in Tickets
    BY <1>14 DEF CheckIn
  <2>2. CASE Admit(s, scanned[s])
    <3> DEFINE q == scanned[s]
    <3>1. /\ ticket[q] = "ISSUED" /\ admitted[q] = 0
          /\ \A r \in Scanners : <<q, r>> \notin checkIns
      BY <2>1, <2>2 DEF Admit
    <3>2. /\ ticket' = [ticket EXCEPT ![q] = "CHECKED_IN"]
          /\ admitted' = [admitted EXCEPT ![q] = admitted[q] + 1]
          /\ checkIns' = checkIns \cup {<<q, s>>}
      BY <2>2 DEF Admit
    <3>3. ASSUME NEW t \in Tickets, t # q
          PROVE  /\ ticket'[t] = ticket[t] /\ admitted'[t] = admitted[t]
                 /\ \A r \in Scanners : <<t, r>> \in checkIns' <=> <<t, r>> \in checkIns
      BY <2>1, <3>2, <3>3
    <3>4. /\ ticket'[q] = "CHECKED_IN" /\ admitted'[q] = 1
          /\ \A r \in Scanners : <<q, r>> \in checkIns' <=> r = s
      BY <2>1, <3>1, <3>2
    <3>5. ASSUME NEW t \in Tickets
          PROVE  admitted'[t] = IF ticket'[t] = "CHECKED_IN" THEN 1 ELSE 0
      BY <2>1, <3>3, <3>4
    <3>6. ASSUME NEW t \in Tickets
          PROVE  ticket'[t] = "CHECKED_IN" <=> \E r \in Scanners : <<t, r>> \in checkIns'
      <4>1. CASE t = q
        BY <2>1, <3>4, <4>1
      <4>2. CASE t # q
        BY <2>1, <3>3, <4>2
      <4> QED
        BY <4>1, <4>2
    <3>7. ASSUME NEW t \in Tickets, NEW r \in Scanners, NEW z \in Scanners,
                 <<t, r>> \in checkIns', <<t, z>> \in checkIns'
          PROVE  r = z
      BY <2>1, <3>3, <3>4, <3>7
    <3> QED
      BY <3>5, <3>6, <3>7
  <2>3. CASE Refuse(scanned[s])
    BY <1>14, <2>3 DEF CheckIn, Refuse
  <2> QED
    BY <1>14, <2>2, <2>3 DEF CheckIn
<1>15. CASE UNCHANGED vars
  BY <1>15 DEF vars, Ask, Answer, Plan, eventVars, ticketVars, requestVars, configVars
<1> HIDE DEF AdmitsOnce, AdmissionTypeOK
<1> QED
  BY <1>1, <1>2, <1>3, <1>4, <1>5, <1>6, <1>7, <1>8, <1>9, <1>10, <1>11, <1>12, <1>13, <1>14, <1>15 DEF Next

LEMMA InventoryStep == AdmissionTypeOK /\ SoldHasInventory /\ TransitionInv /\ [Next]_vars => (SoldHasInventory /\ TransitionInv)'
<1> SUFFICES ASSUME AdmissionTypeOK, SoldHasInventory, TransitionInv, [Next]_vars PROVE (SoldHasInventory /\ TransitionInv)'
  OBVIOUS
<1> USE AdmissionAssumption DEF AdmissionTypeOK, Configs, EditKinds, EventStatus, TicketStatus, SoldHasInventory, TransitionInv, HasInventory, Ask, Answer, Plan, eventVars, ticketVars, requestVars, configVars
<1>1. ASSUME NEW e \in Events, Create(e) PROVE (SoldHasInventory /\ TransitionInv)'
  BY <1>1 DEF Create
<1>2. ASSUME NEW m \in Managers, NEW e \in Events, NEW k \in EditKinds, CheckEdit(m, e, k) PROVE (SoldHasInventory /\ TransitionInv)'
  BY <1>2 DEF CheckEdit
<1>3. ASSUME NEW m \in Managers, NEW e \in Events, NEW to \in Targets, CheckTransition(m, e, to) PROVE (SoldHasInventory /\ TransitionInv)'
  BY <1>3 DEF CheckTransition, Targets, Allowed, Transitions
<1>4. ASSUME NEW m \in Managers, WriteEdit(m) PROVE (SoldHasInventory /\ TransitionInv)'
  BY <1>4 DEF WriteEdit
<1>5. ASSUME NEW m \in Managers, WriteStatus(m) PROVE (SoldHasInventory /\ TransitionInv)'
  BY <1>5 DEF WriteStatus
<1>6. ASSUME NEW m \in Managers, AbortRequest(m) PROVE (SoldHasInventory /\ TransitionInv)'
  BY <1>6 DEF AbortRequest
<1>7. ASSUME NEW t \in Tickets, Book(t) PROVE (SoldHasInventory /\ TransitionInv)'
  BY <1>7 DEF Book
<1>8. ASSUME NEW p \in Processes, NEW t \in Tickets, Issue(p, t) PROVE (SoldHasInventory /\ TransitionInv)'
  BY <1>8 DEF Issue
<1>9. ASSUME NEW v \in Versions, AddKey(v) PROVE (SoldHasInventory /\ TransitionInv)'
  BY <1>9 DEF AddKey
<1>10. ASSUME NEW v \in Versions, ActivateKey(v) PROVE (SoldHasInventory /\ TransitionInv)'
  BY <1>10 DEF ActivateKey
<1>11. ASSUME NEW v \in Versions, RetireKey(v) PROVE (SoldHasInventory /\ TransitionInv)'
  BY <1>11 DEF RetireKey
<1>12. ASSUME NEW p \in Processes, Restart(p) PROVE (SoldHasInventory /\ TransitionInv)'
  BY <1>12 DEF Restart
<1>13. ASSUME NEW s \in Scanners, NEW p \in Processes, NEW t \in Tickets, Scan(s, p, t) PROVE (SoldHasInventory /\ TransitionInv)'
  BY <1>13 DEF Scan, Admissible
<1>14. ASSUME NEW s \in Scanners, CheckIn(s) PROVE (SoldHasInventory /\ TransitionInv)'
  BY <1>14 DEF CheckIn, Admit, Refuse
<1>15. CASE UNCHANGED vars
  BY <1>15 DEF vars, Ask, Answer, Plan, eventVars, ticketVars, requestVars, configVars
<1> QED
  BY <1>1, <1>2, <1>3, <1>4, <1>5, <1>6, <1>7, <1>8, <1>9, <1>10, <1>11, <1>12, <1>13, <1>14, <1>15 DEF Next

LEMMA FrozenStep == AdmissionTypeOK /\ FrozenInv /\ [Next]_vars => FrozenInv'
<1> SUFFICES ASSUME AdmissionTypeOK, FrozenInv, [Next]_vars PROVE FrozenInv'
  OBVIOUS
<1> USE AdmissionAssumption DEF AdmissionTypeOK, Configs, EditKinds, EventStatus, TicketStatus, FrozenInv, About, Alone, DraftLike, Ask, Answer, Plan, eventVars, ticketVars, requestVars, configVars
<1>1. ASSUME NEW e \in Events, Create(e) PROVE FrozenInv'
  BY <1>1 DEF Create
<1>2. ASSUME NEW m \in Managers, NEW e \in Events, NEW k \in EditKinds, CheckEdit(m, e, k) PROVE FrozenInv'
  BY <1>2 DEF CheckEdit
<1>3. ASSUME NEW m \in Managers, NEW e \in Events, NEW to \in Targets, CheckTransition(m, e, to) PROVE FrozenInv'
  BY <1>3 DEF CheckTransition, Targets, Allowed, Transitions
<1>4. ASSUME NEW m \in Managers, WriteEdit(m) PROVE FrozenInv'
  BY <1>4 DEF WriteEdit
<1>5. ASSUME NEW m \in Managers, WriteStatus(m) PROVE FrozenInv'
  BY <1>5 DEF WriteStatus
<1>6. ASSUME NEW m \in Managers, AbortRequest(m) PROVE FrozenInv'
  BY <1>6 DEF AbortRequest
<1>7. ASSUME NEW t \in Tickets, Book(t) PROVE FrozenInv'
  BY <1>7 DEF Book
<1>8. ASSUME NEW p \in Processes, NEW t \in Tickets, Issue(p, t) PROVE FrozenInv'
  BY <1>8 DEF Issue
<1>9. ASSUME NEW v \in Versions, AddKey(v) PROVE FrozenInv'
  BY <1>9 DEF AddKey
<1>10. ASSUME NEW v \in Versions, ActivateKey(v) PROVE FrozenInv'
  BY <1>10 DEF ActivateKey
<1>11. ASSUME NEW v \in Versions, RetireKey(v) PROVE FrozenInv'
  BY <1>11 DEF RetireKey
<1>12. ASSUME NEW p \in Processes, Restart(p) PROVE FrozenInv'
  BY <1>12 DEF Restart
<1>13. ASSUME NEW s \in Scanners, NEW p \in Processes, NEW t \in Tickets, Scan(s, p, t) PROVE FrozenInv'
  BY <1>13 DEF Scan, Admissible
<1>14. ASSUME NEW s \in Scanners, CheckIn(s) PROVE FrozenInv'
  BY <1>14 DEF CheckIn, Admit, Refuse
<1>15. CASE UNCHANGED vars
  BY <1>15 DEF vars, Ask, Answer, Plan, eventVars, ticketVars, requestVars, configVars
<1> QED
  BY <1>1, <1>2, <1>3, <1>4, <1>5, <1>6, <1>7, <1>8, <1>9, <1>10, <1>11, <1>12, <1>13, <1>14, <1>15 DEF Next

LEMMA ClosedStep == AdmissionTypeOK /\ ClosedInv /\ [Next]_vars => ClosedInv'
<1> SUFFICES ASSUME AdmissionTypeOK, ClosedInv, [Next]_vars PROVE ClosedInv'
  OBVIOUS
<1> USE AdmissionAssumption DEF AdmissionTypeOK, Configs, EditKinds, EventStatus, TicketStatus, ClosedInv, About, Alone, DraftLike, Ask, Answer, Plan, eventVars, ticketVars, requestVars, configVars
<1>1. ASSUME NEW e \in Events, Create(e) PROVE ClosedInv'
  BY <1>1 DEF Create
<1>2. ASSUME NEW m \in Managers, NEW e \in Events, NEW k \in EditKinds, CheckEdit(m, e, k) PROVE ClosedInv'
  BY <1>2 DEF CheckEdit
<1>3. ASSUME NEW m \in Managers, NEW e \in Events, NEW to \in Targets, CheckTransition(m, e, to) PROVE ClosedInv'
  BY <1>3 DEF CheckTransition, Targets, Allowed, Transitions
<1>4. ASSUME NEW m \in Managers, WriteEdit(m) PROVE ClosedInv'
  BY <1>4 DEF WriteEdit
<1>5. ASSUME NEW m \in Managers, WriteStatus(m) PROVE ClosedInv'
  BY <1>5 DEF WriteStatus
<1>6. ASSUME NEW m \in Managers, AbortRequest(m) PROVE ClosedInv'
  BY <1>6 DEF AbortRequest
<1>7. ASSUME NEW t \in Tickets, Book(t) PROVE ClosedInv'
  BY <1>7 DEF Book
<1>8. ASSUME NEW p \in Processes, NEW t \in Tickets, Issue(p, t) PROVE ClosedInv'
  BY <1>8 DEF Issue
<1>9. ASSUME NEW v \in Versions, AddKey(v) PROVE ClosedInv'
  BY <1>9 DEF AddKey
<1>10. ASSUME NEW v \in Versions, ActivateKey(v) PROVE ClosedInv'
  BY <1>10 DEF ActivateKey
<1>11. ASSUME NEW v \in Versions, RetireKey(v) PROVE ClosedInv'
  BY <1>11 DEF RetireKey
<1>12. ASSUME NEW p \in Processes, Restart(p) PROVE ClosedInv'
  BY <1>12 DEF Restart
<1>13. ASSUME NEW s \in Scanners, NEW p \in Processes, NEW t \in Tickets, Scan(s, p, t) PROVE ClosedInv'
  BY <1>13 DEF Scan, Admissible
<1>14. ASSUME NEW s \in Scanners, CheckIn(s) PROVE ClosedInv'
  BY <1>14 DEF CheckIn, Admit, Refuse
<1>15. CASE UNCHANGED vars
  BY <1>15 DEF vars, Ask, Answer, Plan, eventVars, ticketVars, requestVars, configVars
<1> QED
  BY <1>1, <1>2, <1>3, <1>4, <1>5, <1>6, <1>7, <1>8, <1>9, <1>10, <1>11, <1>12, <1>13, <1>14, <1>15 DEF Next

LEMMA KeysStep == AdmissionTypeOK /\ KeysInv /\ [Next]_vars => KeysInv'
<1> SUFFICES ASSUME AdmissionTypeOK, KeysInv, [Next]_vars PROVE KeysInv'
  OBVIOUS
<1> USE AdmissionAssumption DEF AdmissionTypeOK, Configs, EditKinds, EventStatus, TicketStatus, KeysInv, Deployed, Ask, Answer, Plan, eventVars, ticketVars, requestVars, configVars
<1>1. ASSUME NEW e \in Events, Create(e) PROVE KeysInv'
  BY <1>1 DEF Create
<1>2. ASSUME NEW m \in Managers, NEW e \in Events, NEW k \in EditKinds, CheckEdit(m, e, k) PROVE KeysInv'
  BY <1>2 DEF CheckEdit
<1>3. ASSUME NEW m \in Managers, NEW e \in Events, NEW to \in Targets, CheckTransition(m, e, to) PROVE KeysInv'
  BY <1>3 DEF CheckTransition, Targets, Allowed
<1>4. ASSUME NEW m \in Managers, WriteEdit(m) PROVE KeysInv'
  BY <1>4 DEF WriteEdit
<1>5. ASSUME NEW m \in Managers, WriteStatus(m) PROVE KeysInv'
  BY <1>5 DEF WriteStatus
<1>6. ASSUME NEW m \in Managers, AbortRequest(m) PROVE KeysInv'
  BY <1>6 DEF AbortRequest
<1>7. ASSUME NEW t \in Tickets, Book(t) PROVE KeysInv'
  BY <1>7 DEF Book
<1>8. ASSUME NEW p \in Processes, NEW t \in Tickets, Issue(p, t) PROVE KeysInv'
  BY <1>8 DEF Issue
<1>9. ASSUME NEW v \in Versions, AddKey(v) PROVE KeysInv'
  BY <1>9 DEF AddKey
<1>10. ASSUME NEW v \in Versions, ActivateKey(v) PROVE KeysInv'
  BY <1>10 DEF ActivateKey
<1>11. ASSUME NEW v \in Versions, RetireKey(v) PROVE KeysInv'
  BY <1>11 DEF RetireKey
<1>12. ASSUME NEW p \in Processes, Restart(p) PROVE KeysInv'
  BY <1>12 DEF Restart
<1>13. ASSUME NEW s \in Scanners, NEW p \in Processes, NEW t \in Tickets, Scan(s, p, t) PROVE KeysInv'
  BY <1>13 DEF Scan, Admissible
<1>14. ASSUME NEW s \in Scanners, CheckIn(s) PROVE KeysInv'
  BY <1>14 DEF CheckIn, Admit, Refuse
<1>15. CASE UNCHANGED vars
  BY <1>15 DEF vars, Ask, Answer, Plan, eventVars, ticketVars, requestVars, configVars
<1> QED
  BY <1>1, <1>2, <1>3, <1>4, <1>5, <1>6, <1>7, <1>8, <1>9, <1>10, <1>11, <1>12, <1>13, <1>14, <1>15 DEF Next

(***************************************************************************)
(* The theorems.                                                           *)
(***************************************************************************)
LEMMA InitInv == Init => AdmissionTypeOK /\ AdmissionInv
BY AdmissionAssumption
DEF Init, AdmissionTypeOK, Configs, EditKinds, EventStatus, TicketStatus, AdmissionInv, AdmitsOnce,
    HasCheckIn, SoldHasInventory, TransitionInv, FrozenInv, ClosedInv, KeysInv, About

\* The tables are well typed and the invariant of events and tickets holds.
THEOREM AdmissionCorrect == Spec => [](AdmissionTypeOK /\ AdmissionInv)
<1>1. AdmissionTypeOK /\ AdmissionInv /\ [Next]_vars => (AdmissionTypeOK /\ AdmissionInv)'
  BY TypeStep, AdmitsStep, InventoryStep, FrozenStep, ClosedStep, KeysStep DEF AdmissionInv
<1> QED
  BY InitInv, <1>1, PTL DEF Spec

\* One scan of a ticket is told VALID, and the ticket says so.
THEOREM AdmitsOnceHolds == Spec => []AdmitsOnce
<1>1. AdmissionInv => AdmitsOnce
  BY DEF AdmissionInv
<1> QED
  BY <1>1, AdmissionCorrect, PTL

\* Every process verifies the code of every single ticket in use, and can sign it.
THEOREM CodesReadableHolds == Spec => []CodesReadable
<1>1. AdmissionInv => CodesReadable
  <2> SUFFICES ASSUME AdmissionInv, NEW t \in Tickets, NEW p \in Processes, ticket[t] = "ISSUED"
               PROVE  key[t] \in config[p].ring
    BY DEF CodesReadable, Supports
  <2>1. key[t] \in planned.ring \cap prior.ring /\ config[p] \in {planned, prior}
    BY DEF AdmissionInv, KeysInv
  <2> QED
    BY <2>1
<1> QED
  BY <1>1, AdmissionCorrect, PTL

\* Tickets exist only for events that have something to sell.
THEOREM SoldHasInventoryHolds == Spec => []SoldHasInventory
<1>1. AdmissionInv => SoldHasInventory
  BY DEF AdmissionInv
<1> QED
  BY <1>1, AdmissionCorrect, PTL

\* What is on sale does not change.
THEOREM InventoryFrozenHolds == Spec => InventoryFrozen
<1>1. ASSUME AdmissionTypeOK, AdmissionInv, [Next]_vars, NEW e \in frozen
      PROVE  edits'[e] = edits[e]
  <2> USE DEF AdmissionTypeOK, eventVars, ticketVars, requestVars, configVars
  <2>1. CASE \E m \in Managers : WriteEdit(m)
    <3>1. PICK m \in Managers : WriteEdit(m)
      BY <2>1
    <3>2. event[m] # e /\ event[m] \in Events
      BY <1>1, <3>1 DEF WriteEdit, AdmissionInv, FrozenInv, About, EditKinds, EventStatus
    <3> QED
      BY <1>1, <3>1, <3>2 DEF WriteEdit
  <2>2. CASE ~(\E m \in Managers : WriteEdit(m))
    <3>1. edits' = edits
      BY <1>1, <2>2
      DEF Next, vars, Create, CheckEdit, CheckTransition, WriteStatus, AbortRequest, Book, Issue,
          AddKey, ActivateKey, RetireKey, Plan, Restart, Scan, CheckIn
    <3> QED
      BY <3>1
  <2> QED
    BY <2>1, <2>2
<1>2. AdmissionTypeOK /\ AdmissionInv /\ [Next]_vars => \A e \in frozen : edits'[e] = edits[e]
  BY <1>1
<1>3. AdmissionTypeOK /\ AdmissionInv /\ [Next]_vars => [\A e \in frozen : edits'[e] = edits[e]]_vars
  BY <1>2
<1> QED
  BY <1>3, AdmissionCorrect, PTL DEF Spec, InventoryFrozen

\* A cancellation that nothing races is final, at the door, too.
LEMMA CancelledStep ==
  ASSUME AdmissionTypeOK, AdmissionInv, [Next]_vars, NEW e \in closed
  PROVE  /\ status'[e] = "CANCELLED"
         /\ \A t \in Tickets : EventOf[t] = e => admitted'[t] = admitted[t]
<1> USE DEF AdmissionTypeOK, eventVars, ticketVars, requestVars, configVars
<1>1. closed \subseteq closed'
  BY DEF Next, vars, Create, CheckEdit, CheckTransition, WriteEdit, WriteStatus, AbortRequest, Book,
         Issue, AddKey, ActivateKey, RetireKey, Plan, Restart, Scan, CheckIn
<1>2. status'[e] = "CANCELLED"
  BY <1>1, ClosedStep DEF AdmissionInv, ClosedInv
<1>3. CASE \E s \in Scanners : CheckIn(s)
  <2>1. PICK s \in Scanners : CheckIn(s)
    BY <1>3
  <2>2. scanned[s] \in Tickets /\ EventOf[scanned[s]] # e
    BY <2>1 DEF CheckIn, AdmissionInv, ClosedInv
  <2> QED
    BY <1>2, <2>1, <2>2 DEF CheckIn, Admit, Refuse
<1>4. CASE ~(\E s \in Scanners : CheckIn(s))
  <2>1. admitted' = admitted
    BY <1>4
    DEF Next, vars, Create, CheckEdit, CheckTransition, WriteEdit, WriteStatus, AbortRequest, Book,
        Issue, AddKey, ActivateKey, RetireKey, Plan, Restart, Scan
  <2> QED
    BY <1>2, <2>1
<1> QED
  BY <1>3, <1>4

THEOREM CancellationHoldsHolds == Spec => CancellationHolds
<1>1. AdmissionTypeOK /\ AdmissionInv /\ [Next]_vars =>
        [\A e \in closed :
           /\ status'[e] = "CANCELLED"
           /\ \A t \in Tickets : EventOf[t] = e => admitted'[t] = admitted[t]]_vars
  BY CancelledStep
<1> QED
  BY <1>1, AdmissionCorrect, PTL DEF Spec, CancellationHolds
==============================================================================
