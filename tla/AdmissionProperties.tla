------------------------ MODULE AdmissionProperties ------------------------
(***************************************************************************)
(* What events, tickets and the door promise, and the invariant the proofs *)
(* rest on.                                                                *)
(***************************************************************************)
EXTENDS Admission

Configs == [active : Versions, ring : SUBSET Versions]

\* The types of the tables, the requests and the configuration.
AdmissionTypeOK ==
  /\ status \in [Events -> EventStatus \cup {"NONE"}]
  /\ edits \in [Events -> [EditKinds -> Nat]]
  /\ ticket \in [Tickets -> TicketStatus]
  /\ key \in [Tickets -> Versions]
  /\ checkIns \subseteq Tickets \X Scanners
  /\ event \in [Managers -> Events \cup {NoEvent}]
  /\ write \in [Managers -> EditKinds \cup EventStatus \cup {"none"}]
  /\ scanned \in [Scanners -> Tickets \cup {NoTicket}]
  /\ config \in [Processes -> Configs] /\ planned \in Configs /\ prior \in Configs
  /\ admitted \in [Tickets -> Nat]
  /\ frozen \subseteq Events /\ closed \subseteq Events
  /\ \A m \in Managers : write[m] = "none" <=> event[m] = NoEvent

\* However many scanners read a ticket at once, one of them is told VALID, and
\* the ticket, its check-in row and that answer never disagree.
AdmitsOnce ==
  \A t \in Tickets :
    /\ admitted[t] = IF ticket[t] = "CHECKED_IN" THEN 1 ELSE 0
    /\ ticket[t] = "CHECKED_IN" <=> HasCheckIn(t)
    /\ \A r, s \in Scanners : <<t, r>> \in checkIns /\ <<t, s>> \in checkIns => r = s

\* Whichever process issued a ticket, and however far a key rotation has got,
\* every process verifies the code of a ticket in use at the door, and shows the
\* code to a holder who opens that ticket.  The list of a user's tickets signs
\* used ones too, whose key may be retired, and is not promised here.
CodesReadable ==
  \A p \in Processes, t \in Tickets : ticket[t] = "ISSUED" => Supports(p, key[t])

\* An event that was ever published has a session and a ticket type, and
\* tickets exist only for such events, in whatever order requests write.
SoldHasInventory ==
  \A e \in Events :
    \/ HasInventory(e)
    \/ /\ status[e] \in {"NONE", "DRAFT", "CANCELLED"}
       /\ \A t \in Tickets : EventOf[t] = e => ticket[t] = "NONE"

\* Once sales opened with no other request about the event under way, its
\* details, sessions and ticket types never change again, although every
\* later edit and transition checks one statement and writes in another.
InventoryFrozen == [][\A e \in frozen : edits'[e] = edits[e]]_vars

\* An event that was cancelled while no request and no scan was about it stays
\* cancelled, and nobody is admitted to it any more.
CancellationHolds ==
  [][\A e \in closed :
       /\ status'[e] = "CANCELLED"
       /\ \A t \in Tickets : EventOf[t] = e => admitted'[t] = admitted[t]]_vars

(***************************************************************************)
(* The inductive invariant.                                                *)
(***************************************************************************)
\* A request whose transition needs the inventory has seen it.
TransitionInv ==
  \A m \in Managers :
    write[m] \in EventStatus \ {"CANCELLED"} => HasInventory(event[m])

\* The sale of a frozen event has begun, for every request that is under way.
FrozenInv ==
  \A e \in frozen :
    /\ ~DraftLike(status[e]) /\ status[e] # "NONE"
    /\ \A m \in Managers : About(m, e) =>
         write[m] \in EventStatus /\ ~DraftLike(write[m])

\* Nothing is under way for a closed event.
ClosedInv ==
  \A e \in closed :
    /\ status[e] = "CANCELLED"
    /\ \A m \in Managers : ~About(m, e)
    /\ \A s \in Scanners : scanned[s] # NoTicket => EventOf[scanned[s]] # e

\* Every process runs the planned or the prior configuration; both sign with a
\* key that both verify, and both verify every ticket.
KeysInv ==
  /\ \A p \in Processes : config[p] \in {planned, prior}
  /\ {planned.active, prior.active} \subseteq planned.ring \cap prior.ring
  /\ \A t \in Tickets : ticket[t] = "ISSUED" => key[t] \in planned.ring \cap prior.ring

AdmissionInv ==
  /\ AdmitsOnce /\ SoldHasInventory /\ TransitionInv /\ FrozenInv /\ ClosedInv /\ KeysInv
==============================================================================
