------------------------------ MODULE SeatHolds ------------------------------
(***************************************************************************)
(* The temporary seat holds that seating.service.ts keeps in Redis: one    *)
(* expiring key per seat of a session, all keys of a hold written by one   *)
(* Lua script.  A hold is identified by its holdId, and SeatsOf[h] is the  *)
(* normalised set of seats the request asked for (at most twelve).  The    *)
(* token and the user id of a key are part of the identity of the hold:    *)
(* every script that compares them compares them with the hold's own.      *)
(*                                                                         *)
(* Redis runs a script alone, so each script is one step.  There is no     *)
(* clock: a TTL may run out at any time, and renewing a hold (which        *)
(* rewrites the same keys with a new TTL) leaves the keys as they are.     *)
(***************************************************************************)

CONSTANTS
  Seats,    \* the seats of the event session
  Holds,    \* the holdIds that requests may be given
  SeatsOf,  \* the seats each hold request asks for
  NoHold    \* the value of a seat key that does not exist

ASSUME HoldsAssumption ==
  /\ SeatsOf \in [Holds -> SUBSET Seats]
  /\ \A h \in Holds : SeatsOf[h] # {}
  /\ NoHold \notin Holds

VARIABLES
  seatKey,  \* the hold written in the Redis key of each seat, or NoHold
  issued    \* the holdIds handed out so far: a holdId is a fresh UUID

holdVars == <<seatKey, issued>>

HoldTypeOK ==
  /\ seatKey \in [Seats -> Holds \cup {NoHold}]
  /\ issued \in SUBSET Holds

HoldInit ==
  /\ seatKey = [s \in Seats |-> NoHold]
  /\ issued = {}

(***************************************************************************)
(* A hold is live when all of its keys still carry it: what                *)
(* assertOwnedHold and getHoldByToken require of the keys they read.       *)
(***************************************************************************)
Live(h) == \A s \in SeatsOf[h] : seatKey[s] = h

DeleteKeys(S) == seatKey' = [s \in Seats |-> IF s \in S THEN NoHold ELSE seatKey[s]]

\* A mistake to catch: the keys are written over whatever they carry.
AcquireAnyway(h) ==
  /\ h \notin issued
  /\ seatKey' = [s \in Seats |-> IF s \in SeatsOf[h] THEN h ELSE seatKey[s]]
  /\ issued' = issued \cup {h}

(***************************************************************************)
(* hold(): the acquire script refuses when a single key exists, and        *)
(* otherwise writes every key.  The allocations were read before the       *)
(* script ran, at a time when every seat may still have been available, so *)
(* what PostgreSQL says now does not stop it.                              *)
(***************************************************************************)
Acquire(h) ==
  /\ h \notin issued
  /\ \A s \in SeatsOf[h] : seatKey[s] = NoHold
  /\ seatKey' = [s \in Seats |-> IF s \in SeatsOf[h] THEN h ELSE seatKey[s]]
  /\ issued' = issued \cup {h}

\* release(): the owner gives a whole hold back.
Release(h) ==
  /\ Live(h)
  /\ DeleteKeys(SeatsOf[h])
  /\ UNCHANGED issued

\* The keys of one hold share a deadline, so what is left of it goes at once.
Lapse(h) ==
  /\ \E s \in SeatsOf[h] : seatKey[s] = h
  /\ DeleteKeys({s \in SeatsOf[h] : seatKey[s] = h})
  /\ UNCHANGED issued

\* releaseConfirmedHold(): deletes the keys of a confirmed booking's seats,
\* whichever hold they carry.
ReleaseConfirmedHold(h) ==
  /\ DeleteKeys(SeatsOf[h])
  /\ UNCHANGED issued
==============================================================================
