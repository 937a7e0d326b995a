----------------------------- MODULE MCSeatView -----------------------------
(***************************************************************************)
(* Model values for SeatView.                                              *)
(***************************************************************************)
EXTENDS SeatViewProperties, TLC

CONSTANTS s1, h1, h2
MCSeatsOf == h1 :> {s1} @@ h2 :> {s1}
==============================================================================
