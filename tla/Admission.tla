----------------------------- MODULE Admission -----------------------------
(***************************************************************************)
(* From a draft to the door: the life of an event (events.service.ts,      *)
(* event-lifecycle.ts), its tickets and their QR codes (ticket-qr.service  *)
(* .ts), and the check-in (check-in.service.ts), over PostgreSQL.          *)
(*                                                                         *)
(* A manager's request reads the event, checks what it read, and writes in *)
(* another statement that looks at nothing.  A scan reads the ticket and   *)
(* its event, and admits in a transaction that looks at the ticket only.   *)
(* The API processes share the QR keys through their configuration, which  *)
(* changes process by process.  Dates and the rights of members are left   *)
(* out: with them, a request may be refused more often.                    *)
(***************************************************************************)
EXTENDS Naturals

CONSTANTS
  Events, Tickets,
  EventOf,    \* the event a ticket is for
  Managers,   \* the requests of organizers that run side by side
  Scanners,   \* the check-in requests that run side by side
  Processes,  \* the API processes
  Versions,   \* QR key versions
  FirstKey,   \* the version in use at the start
  MaxEdits,   \* bound on the edits of each kind per event
  NoEvent, NoTicket

ASSUME AdmissionAssumption ==
  /\ EventOf \in [Tickets -> Events]
  /\ FirstKey \in Versions
  /\ MaxEdits \in Nat
  /\ NoEvent \notin Events
  /\ NoTicket \notin Tickets

VARIABLES
  (* PostgreSQL *)
  status,    \* Event.status, or "NONE" before it is created
  edits,     \* how often the details of an event were written, and how many
             \* sessions and ticket types it has
  ticket,    \* Ticket.status; "NONE" before, "BOOKED" between checkout and payment
  key,       \* Ticket.qrKeyVersion
  checkIns,  \* TicketCheckIn: <<ticket, scanner>>
  (* what requests have in memory *)
  event,     \* the event that the request of a manager is about
  write,     \* what it is about to write
  scanned,   \* the ticket a scan has found admissible
  (* the configuration *)
  config,    \* the keys each process runs with
  planned,   \* the configuration that is being deployed
  prior,     \* the one before
  (* history *)
  admitted,  \* how many scans of a ticket were answered VALID
  frozen,    \* the events whose sales were opened while no other request was about them
  closed     \* the events cancelled while no request and no scan was about them

eventVars == <<status, edits>>
ticketVars == <<ticket, key, checkIns, admitted>>
requestVars == <<event, write>>
configVars == <<config, planned, prior>>
vars == <<eventVars, ticketVars, requestVars, scanned, configVars, frozen, closed>>

EditKinds == {"details", "session", "ticketType"}
EventStatus ==
  {"DRAFT", "PUBLISHED", "SALES_OPEN", "SALES_CLOSED", "ONGOING", "COMPLETED", "CANCELLED"}
TicketStatus == {"NONE", "BOOKED", "ISSUED", "CHECKED_IN"}

Init ==
  /\ status = [e \in Events |-> "NONE"]
  /\ edits = [e \in Events |-> [k \in EditKinds |-> 0]]
  /\ ticket = [t \in Tickets |-> "NONE"]
  /\ key = [t \in Tickets |-> FirstKey]
  /\ checkIns = {}
  /\ event = [m \in Managers |-> NoEvent]
  /\ write = [m \in Managers |-> "none"]
  /\ scanned = [s \in Scanners |-> NoTicket]
  /\ planned = [active |-> FirstKey, ring |-> {FirstKey}]
  /\ prior = planned
  /\ config = [p \in Processes |-> planned]
  /\ admitted = [t \in Tickets |-> 0]
  /\ frozen = {} /\ closed = {}

(***************************************************************************)
(* Managing an event.                                                      *)
(***************************************************************************)
Transitions(from) ==
  CASE from = "DRAFT" -> {"PUBLISHED", "CANCELLED"}
    [] from = "PUBLISHED" -> {"SALES_OPEN", "CANCELLED"}
    [] from = "SALES_OPEN" -> {"SALES_CLOSED", "CANCELLED"}
    [] from = "SALES_CLOSED" -> {"ONGOING", "CANCELLED"}
    [] from = "ONGOING" -> {"COMPLETED", "CANCELLED"}
    [] OTHER -> {}

HasInventory(e) == edits[e]["session"] > 0 /\ edits[e]["ticketType"] > 0

About(m, e) == event[m] = e
Alone(m, e) == \A n \in Managers \ {m} : ~About(n, e)

Create(e) ==
  /\ status[e] = "NONE"
  /\ status' = [status EXCEPT ![e] = "DRAFT"]
  /\ UNCHANGED <<edits, ticketVars, requestVars, scanned, configVars, frozen, closed>>

Ask(m, e, w) ==
  /\ write[m] = "none"
  /\ event' = [event EXCEPT ![m] = e]
  /\ write' = [write EXCEPT ![m] = w]

Answer(m) ==
  /\ event' = [event EXCEPT ![m] = NoEvent]
  /\ write' = [write EXCEPT ![m] = "none"]

\* A mistake to catch: sessions and ticket types may come during the sale, too.
SellLike(s) == s \in {"DRAFT", "PUBLISHED", "SALES_OPEN"}
DraftLike(s) == s \in {"DRAFT", "PUBLISHED"}

CheckEdit(m, e, k) ==
  /\ DraftLike(status[e])
  /\ Ask(m, e, k)
  /\ UNCHANGED <<eventVars, ticketVars, scanned, configVars, frozen, closed>>

WriteEdit(m) ==
  /\ write[m] \in EditKinds
  /\ edits[event[m]][write[m]] < MaxEdits
  /\ edits' = [edits EXCEPT ![event[m]][write[m]] = @ + 1]
  /\ Answer(m)
  /\ UNCHANGED <<status, ticketVars, scanned, configVars, frozen, closed>>

\* A mistake to catch: publishing an event without a ticket type.
AllowedEmpty(e, to) ==
  /\ to \in Transitions(status[e])
  /\ to = "PUBLISHED" => edits[e]["session"] > 0
Allowed(e, to) ==
  /\ to \in Transitions(status[e])
  /\ to = "PUBLISHED" => HasInventory(e)

\* The API has a route for each of these; none leads to ONGOING or COMPLETED.
Targets == {"PUBLISHED", "SALES_OPEN", "SALES_CLOSED", "CANCELLED"}

CheckTransition(m, e, to) ==
  /\ Allowed(e, to)
  /\ Ask(m, e, to)
  /\ UNCHANGED <<eventVars, ticketVars, scanned, configVars, frozen, closed>>

WriteStatus(m) ==
  /\ write[m] \in EventStatus
  /\ LET e == event[m]
         quiet == Alone(m, e) /\ \A s \in Scanners : scanned[s] # NoTicket => EventOf[scanned[s]] # e
     IN /\ status' = [status EXCEPT ![e] = write[m]]
        /\ frozen' = IF write[m] = "SALES_OPEN" /\ Alone(m, e) THEN frozen \cup {e} ELSE frozen
        /\ closed' = IF write[m] = "CANCELLED" /\ quiet THEN closed \cup {e} ELSE closed
  /\ Answer(m)
  /\ UNCHANGED <<edits, ticketVars, scanned, configVars>>

\* The statement fails or the process dies.
AbortRequest(m) ==
  /\ write[m] # "none"
  /\ Answer(m)
  /\ UNCHANGED <<eventVars, ticketVars, scanned, configVars, frozen, closed>>

(***************************************************************************)
(* Tickets.  Checkout looks at the status of the event; the payment that   *)
(* comes later does not.                                                   *)
(***************************************************************************)
Book(t) ==
  /\ status[EventOf[t]] = "SALES_OPEN"
  /\ ticket[t] = "NONE"
  /\ ticket' = [ticket EXCEPT ![t] = "BOOKED"]
  /\ UNCHANGED <<eventVars, key, checkIns, admitted, requestVars, scanned, configVars, frozen, closed>>

Issue(p, t) ==
  /\ ticket[t] = "BOOKED"
  /\ ticket' = [ticket EXCEPT ![t] = "ISSUED"]
  /\ key' = [key EXCEPT ![t] = config[p].active]
  /\ UNCHANGED <<eventVars, checkIns, admitted, requestVars, scanned, configVars, frozen, closed>>

\* A process can sign the code of a ticket, for who opens it by its public code,
\* and verify it at the door.
\* A mistake to catch: only the active key counts.
ActiveOnly(p, v) == v = config[p].active
Supports(p, v) == v \in config[p].ring

(***************************************************************************)
(* The rotation of the keys, as ADR-009 asks the operators to do it: one   *)
(* change at a time, each deployed everywhere before the next.             *)
(***************************************************************************)
Deployed == \A p \in Processes : config[p] = planned

Plan(next) ==
  /\ Deployed
  /\ planned' = next
  /\ prior' = planned
  /\ UNCHANGED <<config, eventVars, ticketVars, requestVars, scanned, frozen, closed>>

AddKey(v) ==
  /\ v \notin planned.ring
  /\ Plan([planned EXCEPT !.ring = @ \cup {v}])

ActivateKey(v) ==
  /\ v \in planned.ring \ {planned.active}
  /\ Plan([planned EXCEPT !.active = v])

RetireKey(v) ==
  /\ v \in planned.ring \ {planned.active}
  /\ \A t \in Tickets : ticket[t] = "ISSUED" => key[t] # v
  /\ Plan([planned EXCEPT !.ring = @ \ {v}])

Restart(p) ==
  /\ config[p] # planned
  /\ config' = [config EXCEPT ![p] = planned]
  /\ UNCHANGED <<planned, prior, eventVars, ticketVars, requestVars, scanned, frozen, closed>>

(***************************************************************************)
(* Check-in.                                                               *)
(***************************************************************************)
\* A mistake to catch: the event is not looked at.
AdmissibleAnyEvent(p, t) == ticket[t] = "ISSUED" /\ Supports(p, key[t])
Admissible(p, t) ==
  /\ ticket[t] = "ISSUED" /\ Supports(p, key[t])
  /\ status[EventOf[t]] # "CANCELLED"

Scan(s, p, t) ==
  /\ scanned[s] = NoTicket
  /\ Admissible(p, t)
  /\ scanned' = [scanned EXCEPT ![s] = t]
  /\ UNCHANGED <<eventVars, ticketVars, requestVars, configVars, frozen, closed>>

HasCheckIn(t) == \E s \in Scanners : <<t, s>> \in checkIns

\* A mistake to catch: the row is inserted, but the ticket is not updated.
AdmitUnmarked(s, t) ==
  /\ ticket[t] = "ISSUED" /\ ~HasCheckIn(t)
  /\ checkIns' = checkIns \cup {<<t, s>>}
  /\ admitted' = [admitted EXCEPT ![t] = @ + 1]
  /\ UNCHANGED ticket
\* The conditional update finds the ticket and the unique check-in row goes in.
Admit(s, t) ==
  /\ ticket[t] = "ISSUED" /\ ~HasCheckIn(t)
  /\ ticket' = [ticket EXCEPT ![t] = "CHECKED_IN"]
  /\ checkIns' = checkIns \cup {<<t, s>>}
  /\ admitted' = [admitted EXCEPT ![t] = @ + 1]

\* Another scan was first (or the transaction fails): nothing is written.
Refuse(t) == UNCHANGED <<ticket, checkIns, admitted>>

CheckIn(s) ==
  /\ scanned[s] # NoTicket
  /\ Admit(s, scanned[s]) \/ Refuse(scanned[s])
  /\ scanned' = [scanned EXCEPT ![s] = NoTicket]
  /\ UNCHANGED <<eventVars, key, requestVars, configVars, frozen, closed>>

Next ==
  \/ \E e \in Events : Create(e)
  \/ \E m \in Managers, e \in Events :
       \/ \E k \in EditKinds : CheckEdit(m, e, k)
       \/ \E to \in Targets : CheckTransition(m, e, to)
  \/ \E m \in Managers : WriteEdit(m) \/ WriteStatus(m) \/ AbortRequest(m)
  \/ \E t \in Tickets : Book(t) \/ \E p \in Processes : Issue(p, t)
  \/ \E v \in Versions : AddKey(v) \/ ActivateKey(v) \/ RetireKey(v)
  \/ \E p \in Processes : Restart(p)
  \/ \E s \in Scanners, p \in Processes, t \in Tickets : Scan(s, p, t)
  \/ \E s \in Scanners : CheckIn(s)

Spec == Init /\ [][Next]_vars
==============================================================================
