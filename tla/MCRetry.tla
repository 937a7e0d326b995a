------------------------------ MODULE MCRetry -------------------------------
(***************************************************************************)
(* Model values for Retry.                                                 *)
(***************************************************************************)
EXTENDS RetryProperties, TLC

CONSTANTS h1, h2, k1, t1
MCTabHold == t1 :> h1
MCTabKey == t1 :> k1
==============================================================================
