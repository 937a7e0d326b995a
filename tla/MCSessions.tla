----------------------------- MODULE MCSessions -----------------------------
(***************************************************************************)
(* Two users, three tokens, and requests side by side.                     *)
(***************************************************************************)
EXTENDS SessionsProperties, TLC

Alike == Permutations(Tokens) \cup Permutations(Requests) \cup Permutations(Users)
==============================================================================
