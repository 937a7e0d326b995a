----------------------------- MODULE SessionLife -----------------------------
(***************************************************************************)
(* A session as its user knows it, whatever requests run side by side: a   *)
(* chain of refresh tokens of one user.  One token is good at a time, the  *)
(* next takes its place and was never used before, and a session that has  *)
(* ended does not come back.                                               *)
(***************************************************************************)

CONSTANTS Tokens, Users, NoSession

VARIABLES
  session,  \* of each family, <<its user, its good token>>, or NoSession
  drawn     \* the tokens handed out so far

sessionVars == <<session, drawn>>

Init ==
  /\ session = [f \in Tokens |-> NoSession]
  /\ drawn = {}

\* A session is named after its first token.
Start(f, u) ==
  /\ f \notin drawn
  /\ session' = [session EXCEPT ![f] = <<u, f>>]
  /\ drawn' = drawn \cup {f}

Rotate(f, t) ==
  /\ session[f] # NoSession
  /\ t \notin drawn
  /\ session' = [session EXCEPT ![f][2] = t]
  /\ drawn' = drawn \cup {t}

\* Log-out and reuse end one session, a suspension those of a user.
End(F) ==
  /\ session' = [f \in Tokens |-> IF f \in F THEN NoSession ELSE session[f]]
  /\ UNCHANGED drawn

Next ==
  \/ \E f \in Tokens : \/ \E u \in Users : Start(f, u)
                       \/ \E t \in Tokens : Rotate(f, t)
  \/ \E F \in SUBSET Tokens : End(F)

Spec == Init /\ [][Next]_sessionVars
==============================================================================
