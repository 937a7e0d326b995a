------------------------------ MODULE MCOutbox ------------------------------
(***************************************************************************)
(* Small instances of Outbox for TLC: two workers, a batch that may hold   *)
(* two rows, and two attempts instead of five.                             *)
(***************************************************************************)
EXTENDS OutboxProperties, TLC

CONSTANTS r1, r2, r3

OneNotice == r1 :> "notice"
EveryKind == (r1 :> "notice") @@ (r2 :> "orphan") @@ (r3 :> "silent")
==============================================================================
