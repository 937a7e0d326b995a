--------------------------- MODULE SessionsProofs ---------------------------
(***************************************************************************)
(* Proofs about Sessions for every number of users, tokens and requests:   *)
(* one lemma for each part of the invariant, one step for each action.     *)
(***************************************************************************)
EXTENDS SessionsProperties, TLAPS

LEMMA TypeStep == SessionsTypeOK /\ RequestInv /\ [Next]_vars => SessionsTypeOK'
<1> SUFFICES ASSUME SessionsTypeOK, RequestInv, [Next]_vars PROVE SessionsTypeOK'
  OBVIOUS
<1> USE DEF SessionsTypeOK, Steps, Begin, Continue, Finish, tokenVars, historyVars, requestVars
<1>1. ASSUME NEW r \in Requests, NEW u \in Users, Register(r, u) PROVE SessionsTypeOK'
  BY <1>1 DEF Register
<1>2. ASSUME NEW r \in Requests, NEW u \in Users, Login(r, u) PROVE SessionsTypeOK'
  BY <1>2 DEF Login
<1>3. ASSUME NEW r \in Requests, NEW u \in Users, BeginSuspension(r, u) PROVE SessionsTypeOK'
  BY <1>3 DEF BeginSuspension, Unrevoked, SessionsOf
<1>4. ASSUME NEW r \in Requests, NEW t \in Tokens, IssueSession(r, t) PROVE SessionsTypeOK'
  BY <1>4 DEF IssueSession, Overtakes, RequestInv
<1>5. ASSUME NEW r \in Requests, NEW t \in Tokens, ReadToken(r, t) PROVE SessionsTypeOK'
  BY <1>5 DEF ReadToken
<1>6. ASSUME NEW r \in Requests, NEW t \in Tokens, Rotate(r, t) PROVE SessionsTypeOK'
  BY <1>6 DEF Rotate, Overtakes, RequestInv
<1>7. ASSUME NEW r \in Requests, Consume(r) PROVE SessionsTypeOK'
  BY <1>7 DEF Consume
<1>8. ASSUME NEW r \in Requests, BeginRevocation(r) PROVE SessionsTypeOK'
  BY <1>8 DEF BeginRevocation, Unrevoked, FamilyOf
<1>9. ASSUME NEW r \in Requests, RevokeFamily(r) PROVE SessionsTypeOK'
  BY <1>9 DEF RevokeFamily, RequestInv
<1>10. ASSUME NEW r \in Requests, Suspend(r) PROVE SessionsTypeOK'
  BY <1>10 DEF Suspend, RequestInv
<1>11. ASSUME NEW r \in Requests, Abort(r) PROVE SessionsTypeOK'
  BY <1>11 DEF Abort
<1>12. ASSUME NEW t \in Tokens, Logout(t) PROVE SessionsTypeOK'
  BY <1>12 DEF Logout
<1>13. ASSUME NEW u \in Users, Reinstate(u) PROVE SessionsTypeOK'
  BY <1>13 DEF Reinstate
<1>14. CASE UNCHANGED vars
  BY <1>14 DEF vars
<1> QED
  BY <1>1, <1>2, <1>3, <1>4, <1>5, <1>6, <1>7, <1>8, <1>9, <1>10, <1>11, <1>12, <1>13, <1>14 DEF Next

LEMMA RequestStep == SessionsTypeOK /\ RequestInv /\ [Next]_vars => RequestInv'
<1> SUFFICES ASSUME SessionsTypeOK, RequestInv, [Next]_vars PROVE RequestInv'
  OBVIOUS
<1> USE DEF SessionsTypeOK, Steps, RequestInv, Exists, Open, Held, Consumable, Begin, Continue, Finish, tokenVars, historyVars, requestVars
<1>1. ASSUME NEW r \in Requests, NEW u \in Users, Register(r, u) PROVE RequestInv'
  BY <1>1 DEF Register
<1>2. ASSUME NEW r \in Requests, NEW u \in Users, Login(r, u) PROVE RequestInv'
  BY <1>2 DEF Login
<1>3. ASSUME NEW r \in Requests, NEW u \in Users, BeginSuspension(r, u) PROVE RequestInv'
  BY <1>3 DEF BeginSuspension
<1>4. ASSUME NEW r \in Requests, NEW t \in Tokens, IssueSession(r, t) PROVE RequestInv'
  BY <1>4 DEF IssueSession
<1>5. ASSUME NEW r \in Requests, NEW t \in Tokens, ReadToken(r, t) PROVE RequestInv'
  BY <1>5 DEF ReadToken
<1>6. ASSUME NEW r \in Requests, NEW t \in Tokens, Rotate(r, t) PROVE RequestInv'
  BY <1>6 DEF Rotate
<1>7. ASSUME NEW r \in Requests, Consume(r) PROVE RequestInv'
  BY <1>7 DEF Consume
<1>8. ASSUME NEW r \in Requests, BeginRevocation(r) PROVE RequestInv'
  BY <1>8 DEF BeginRevocation
<1>9. ASSUME NEW r \in Requests, RevokeFamily(r) PROVE RequestInv'
  BY <1>9 DEF RevokeFamily, Unrevoked
<1>10. ASSUME NEW r \in Requests, Suspend(r) PROVE RequestInv'
  BY <1>10 DEF Suspend
<1>11. ASSUME NEW r \in Requests, Abort(r) PROVE RequestInv'
  BY <1>11 DEF Abort
<1>12. ASSUME NEW t \in Tokens, Logout(t) PROVE RequestInv'
  BY <1>12 DEF Logout
<1>13. ASSUME NEW u \in Users, Reinstate(u) PROVE RequestInv'
  BY <1>13 DEF Reinstate
<1>14. CASE UNCHANGED vars
  BY <1>14 DEF vars
<1> QED
  BY <1>1, <1>2, <1>3, <1>4, <1>5, <1>6, <1>7, <1>8, <1>9, <1>10, <1>11, <1>12, <1>13, <1>14 DEF Next

LEMMA FamilyStep == SessionsTypeOK /\ RequestInv /\ FamilyInv /\ [Next]_vars => FamilyInv'
<1> SUFFICES ASSUME SessionsTypeOK, RequestInv, FamilyInv, [Next]_vars PROVE FamilyInv'
  OBVIOUS
<1> USE DEF SessionsTypeOK, Steps, RequestInv, FamilyInv, Exists, Begin, Continue, Finish, tokenVars, historyVars, requestVars
<1>1. ASSUME NEW r \in Requests, NEW u \in Users, Register(r, u) PROVE FamilyInv'
  BY <1>1 DEF Register
<1>2. ASSUME NEW r \in Requests, NEW u \in Users, Login(r, u) PROVE FamilyInv'
  BY <1>2 DEF Login
<1>3. ASSUME NEW r \in Requests, NEW u \in Users, BeginSuspension(r, u) PROVE FamilyInv'
  BY <1>3 DEF BeginSuspension
<1>4. ASSUME NEW r \in Requests, NEW t \in Tokens, IssueSession(r, t) PROVE FamilyInv'
  BY <1>4 DEF IssueSession
<1>5. ASSUME NEW r \in Requests, NEW t \in Tokens, ReadToken(r, t) PROVE FamilyInv'
  BY <1>5 DEF ReadToken
<1>6. ASSUME NEW r \in Requests, NEW t \in Tokens, Rotate(r, t) PROVE FamilyInv'
  BY <1>6 DEF Rotate
<1>7. ASSUME NEW r \in Requests, Consume(r) PROVE FamilyInv'
  BY <1>7 DEF Consume
<1>8. ASSUME NEW r \in Requests, BeginRevocation(r) PROVE FamilyInv'
  BY <1>8 DEF BeginRevocation
<1>9. ASSUME NEW r \in Requests, RevokeFamily(r) PROVE FamilyInv'
  BY <1>9 DEF RevokeFamily
<1>10. ASSUME NEW r \in Requests, Suspend(r) PROVE FamilyInv'
  BY <1>10 DEF Suspend
<1>11. ASSUME NEW r \in Requests, Abort(r) PROVE FamilyInv'
  BY <1>11 DEF Abort
<1>12. ASSUME NEW t \in Tokens, Logout(t) PROVE FamilyInv'
  BY <1>12 DEF Logout
<1>13. ASSUME NEW u \in Users, Reinstate(u) PROVE FamilyInv'
  BY <1>13 DEF Reinstate
<1>14. CASE UNCHANGED vars
  BY <1>14 DEF vars
<1> QED
  BY <1>1, <1>2, <1>3, <1>4, <1>5, <1>6, <1>7, <1>8, <1>9, <1>10, <1>11, <1>12, <1>13, <1>14 DEF Next

LEMMA OpenStep == SessionsTypeOK /\ RequestInv /\ FamilyInv /\ OneOpenToken /\ [Next]_vars => OneOpenToken'
<1> SUFFICES ASSUME SessionsTypeOK, RequestInv, FamilyInv, OneOpenToken, [Next]_vars PROVE OneOpenToken'
  OBVIOUS
<1> USE DEF SessionsTypeOK, Steps, RequestInv, FamilyInv, OneOpenToken, Exists, Open, Begin, Continue, Finish, tokenVars, historyVars, requestVars
<1>1. ASSUME NEW r \in Requests, NEW u \in Users, Register(r, u) PROVE OneOpenToken'
  BY <1>1 DEF Register
<1>2. ASSUME NEW r \in Requests, NEW u \in Users, Login(r, u) PROVE OneOpenToken'
  BY <1>2 DEF Login
<1>3. ASSUME NEW r \in Requests, NEW u \in Users, BeginSuspension(r, u) PROVE OneOpenToken'
  BY <1>3 DEF BeginSuspension
<1>4. ASSUME NEW r \in Requests, NEW t \in Tokens, IssueSession(r, t) PROVE OneOpenToken'
  BY <1>4 DEF IssueSession
<1>5. ASSUME NEW r \in Requests, NEW t \in Tokens, ReadToken(r, t) PROVE OneOpenToken'
  BY <1>5 DEF ReadToken
<1>6. ASSUME NEW r \in Requests, NEW t \in Tokens, Rotate(r, t) PROVE OneOpenToken'
  BY <1>6 DEF Rotate
<1>7. ASSUME NEW r \in Requests, Consume(r) PROVE OneOpenToken'
  BY <1>7 DEF Consume
<1>8. ASSUME NEW r \in Requests, BeginRevocation(r) PROVE OneOpenToken'
  BY <1>8 DEF BeginRevocation
<1>9. ASSUME NEW r \in Requests, RevokeFamily(r) PROVE OneOpenToken'
  BY <1>9 DEF RevokeFamily
<1>10. ASSUME NEW r \in Requests, Suspend(r) PROVE OneOpenToken'
  BY <1>10 DEF Suspend
<1>11. ASSUME NEW r \in Requests, Abort(r) PROVE OneOpenToken'
  BY <1>11 DEF Abort
<1>12. ASSUME NEW t \in Tokens, Logout(t) PROVE OneOpenToken'
  BY <1>12 DEF Logout
<1>13. ASSUME NEW u \in Users, Reinstate(u) PROVE OneOpenToken'
  BY <1>13 DEF Reinstate
<1>14. CASE UNCHANGED vars
  BY <1>14 DEF vars
<1> QED
  BY <1>1, <1>2, <1>3, <1>4, <1>5, <1>6, <1>7, <1>8, <1>9, <1>10, <1>11, <1>12, <1>13, <1>14 DEF Next

LEMMA EndedStep == SessionsTypeOK /\ RequestInv /\ FamilyInv /\ UpdateInv /\ EndedInv /\ [Next]_vars => EndedInv'
<1> SUFFICES ASSUME SessionsTypeOK, RequestInv, FamilyInv, UpdateInv, EndedInv, [Next]_vars PROVE EndedInv'
  OBVIOUS
<1> USE DEF SessionsTypeOK, Steps, RequestInv, FamilyInv, UpdateInv, EndedInv, ReplayEndsFamily, Exists, Open, Begin, Continue, Finish, tokenVars, historyVars, requestVars
<1>1. ASSUME NEW r \in Requests, NEW u \in Users, Register(r, u) PROVE EndedInv'
  BY <1>1 DEF Register
<1>2. ASSUME NEW r \in Requests, NEW u \in Users, Login(r, u) PROVE EndedInv'
  BY <1>2 DEF Login
<1>3. ASSUME NEW r \in Requests, NEW u \in Users, BeginSuspension(r, u) PROVE EndedInv'
  BY <1>3 DEF BeginSuspension
<1>4. ASSUME NEW r \in Requests, NEW t \in Tokens, IssueSession(r, t) PROVE EndedInv'
  BY <1>4 DEF IssueSession
<1>5. ASSUME NEW r \in Requests, NEW t \in Tokens, ReadToken(r, t) PROVE EndedInv'
  BY <1>5 DEF ReadToken
<1>6. ASSUME NEW r \in Requests, NEW t \in Tokens, Rotate(r, t) PROVE EndedInv'
  BY <1>6 DEF Rotate
<1>7. ASSUME NEW r \in Requests, Consume(r) PROVE EndedInv'
  BY <1>7 DEF Consume
<1>8. ASSUME NEW r \in Requests, BeginRevocation(r) PROVE EndedInv'
  BY <1>8 DEF BeginRevocation
<1>9. ASSUME NEW r \in Requests, RevokeFamily(r) PROVE EndedInv'
  BY <1>9 DEF RevokeFamily
<1>10. ASSUME NEW r \in Requests, Suspend(r) PROVE EndedInv'
  BY <1>10 DEF Suspend
<1>11. ASSUME NEW r \in Requests, Abort(r) PROVE EndedInv'
  BY <1>11 DEF Abort
<1>12. ASSUME NEW t \in Tokens, Logout(t) PROVE EndedInv'
  BY <1>12 DEF Logout
<1>13. ASSUME NEW u \in Users, Reinstate(u) PROVE EndedInv'
  BY <1>13 DEF Reinstate
<1>14. CASE UNCHANGED vars
  BY <1>14 DEF vars
<1> QED
  BY <1>1, <1>2, <1>3, <1>4, <1>5, <1>6, <1>7, <1>8, <1>9, <1>10, <1>11, <1>12, <1>13, <1>14 DEF Next

LEMMA UpdateStep == SessionsTypeOK /\ RequestInv /\ FamilyInv /\ UpdateInv /\ [Next]_vars => UpdateInv'
<1> SUFFICES ASSUME SessionsTypeOK, RequestInv, FamilyInv, UpdateInv, [Next]_vars PROVE UpdateInv'
  OBVIOUS
<1> USE DEF SessionsTypeOK, Steps, RequestInv, FamilyInv, UpdateInv, Exists, Open, Overtakes, Unrevoked, FamilyOf, SessionsOf, Begin, Continue, Finish, tokenVars, historyVars, requestVars
<1>1. ASSUME NEW r \in Requests, NEW u \in Users, Register(r, u) PROVE UpdateInv'
  BY <1>1 DEF Register
<1>2. ASSUME NEW r \in Requests, NEW u \in Users, Login(r, u) PROVE UpdateInv'
  BY <1>2 DEF Login
<1>3. ASSUME NEW r \in Requests, NEW u \in Users, BeginSuspension(r, u) PROVE UpdateInv'
  BY <1>3 DEF BeginSuspension
<1>4. ASSUME NEW r \in Requests, NEW t \in Tokens, IssueSession(r, t) PROVE UpdateInv'
  BY <1>4 DEF IssueSession
<1>5. ASSUME NEW r \in Requests, NEW t \in Tokens, ReadToken(r, t) PROVE UpdateInv'
  BY <1>5 DEF ReadToken
<1>6. ASSUME NEW r \in Requests, NEW t \in Tokens, Rotate(r, t) PROVE UpdateInv'
  BY <1>6 DEF Rotate
<1>7. ASSUME NEW r \in Requests, Consume(r) PROVE UpdateInv'
  BY <1>7 DEF Consume
<1>8. ASSUME NEW r \in Requests, BeginRevocation(r) PROVE UpdateInv'
  BY <1>8 DEF BeginRevocation
<1>9. ASSUME NEW r \in Requests, RevokeFamily(r) PROVE UpdateInv'
  BY <1>9 DEF RevokeFamily
<1>10. ASSUME NEW r \in Requests, Suspend(r) PROVE UpdateInv'
  BY <1>10 DEF Suspend
<1>11. ASSUME NEW r \in Requests, Abort(r) PROVE UpdateInv'
  BY <1>11 DEF Abort
<1>12. ASSUME NEW t \in Tokens, Logout(t) PROVE UpdateInv'
  BY <1>12 DEF Logout
<1>13. ASSUME NEW u \in Users, Reinstate(u) PROVE UpdateInv'
  BY <1>13 DEF Reinstate
<1>14. CASE UNCHANGED vars
  BY <1>14 DEF vars
<1> QED
  BY <1>1, <1>2, <1>3, <1>4, <1>5, <1>6, <1>7, <1>8, <1>9, <1>10, <1>11, <1>12, <1>13, <1>14 DEF Next

LEMMA SuspensionStep == SessionsTypeOK /\ RequestInv /\ UpdateInv /\ SuspensionInv /\ [Next]_vars => SuspensionInv'
<1> SUFFICES ASSUME SessionsTypeOK, RequestInv, UpdateInv, SuspensionInv, [Next]_vars PROVE SuspensionInv'
  OBVIOUS
<1> USE DEF SessionsTypeOK, Steps, RequestInv, UpdateInv, SuspensionInv, SuspensionEndsSessions, Exists, Open, Begin, Continue, Finish, tokenVars, historyVars, requestVars
<1>1. ASSUME NEW r \in Requests, NEW u \in Users, Register(r, u) PROVE SuspensionInv'
  BY <1>1 DEF Register
<1>2. ASSUME NEW r \in Requests, NEW u \in Users, Login(r, u) PROVE SuspensionInv'
  BY <1>2 DEF Login
<1>3. ASSUME NEW r \in Requests, NEW u \in Users, BeginSuspension(r, u) PROVE SuspensionInv'
  BY <1>3 DEF BeginSuspension
<1>4. ASSUME NEW r \in Requests, NEW t \in Tokens, IssueSession(r, t) PROVE SuspensionInv'
  BY <1>4 DEF IssueSession
<1>5. ASSUME NEW r \in Requests, NEW t \in Tokens, ReadToken(r, t) PROVE SuspensionInv'
  BY <1>5 DEF ReadToken
<1>6. ASSUME NEW r \in Requests, NEW t \in Tokens, Rotate(r, t) PROVE SuspensionInv'
  BY <1>6 DEF Rotate
<1>7. ASSUME NEW r \in Requests, Consume(r) PROVE SuspensionInv'
  BY <1>7 DEF Consume
<1>8. ASSUME NEW r \in Requests, BeginRevocation(r) PROVE SuspensionInv'
  BY <1>8 DEF BeginRevocation
<1>9. ASSUME NEW r \in Requests, RevokeFamily(r) PROVE SuspensionInv'
  BY <1>9 DEF RevokeFamily
<1>10. ASSUME NEW r \in Requests, Suspend(r) PROVE SuspensionInv'
  BY <1>10 DEF Suspend
<1>11. ASSUME NEW r \in Requests, Abort(r) PROVE SuspensionInv'
  BY <1>11 DEF Abort
<1>12. ASSUME NEW t \in Tokens, Logout(t) PROVE SuspensionInv'
  BY <1>12 DEF Logout
<1>13. ASSUME NEW u \in Users, Reinstate(u) PROVE SuspensionInv'
  BY <1>13 DEF Reinstate
<1>14. CASE UNCHANGED vars
  BY <1>14 DEF vars
<1> QED
  BY <1>1, <1>2, <1>3, <1>4, <1>5, <1>6, <1>7, <1>8, <1>9, <1>10, <1>11, <1>12, <1>13, <1>14 DEF Next

(***************************************************************************)
(* The theorems.                                                           *)
(***************************************************************************)
LEMMA InitInv == Init => SessionsTypeOK /\ SessionsInv
BY SessionsAssumption
DEF Init, SessionsTypeOK, Steps, SessionsInv, RequestInv, FamilyInv, OneOpenToken, EndedInv,
    ReplayEndsFamily, UpdateInv, SuspensionInv, SuspensionEndsSessions, Exists, Open

\* The tables are well typed and the invariant of the sessions holds.
THEOREM SessionsCorrect == Spec => [](SessionsTypeOK /\ SessionsInv)
<1>1. SessionsTypeOK /\ SessionsInv /\ [Next]_vars => (SessionsTypeOK /\ SessionsInv)'
  BY TypeStep, RequestStep, FamilyStep, OpenStep, EndedStep, UpdateStep, SuspensionStep
  DEF SessionsInv
<1> QED
  BY InitInv, <1>1, PTL DEF Spec

\* However many requests present its tokens, a session never forks.
THEOREM OneOpenTokenHolds == Spec => []OneOpenToken
<1>1. SessionsInv => OneOpenToken
  BY DEF SessionsInv
<1> QED
  BY <1>1, SessionsCorrect, PTL

\* A family that a revocation ended without being overtaken stays ended.
THEOREM ReplayEndsFamilyHolds == Spec => []ReplayEndsFamily
<1>1. SessionsInv => ReplayEndsFamily
  BY DEF SessionsInv, EndedInv
<1> QED
  BY <1>1, SessionsCorrect, PTL

\* A suspension that no new session races leaves the user without one.
THEOREM SuspensionEndsSessionsHolds == Spec => []SuspensionEndsSessions
<1>1. SessionsInv => SuspensionEndsSessions
  BY DEF SessionsInv, SuspensionInv
<1> QED
  BY <1>1, SessionsCorrect, PTL

(***************************************************************************)
(* The refinement.  First, that marks are put only on rows that are there. *)
(***************************************************************************)
LEMMA TokensStep == SessionsTypeOK /\ RequestInv /\ TokensInv /\ [Next]_vars => TokensInv'
<1> SUFFICES ASSUME SessionsTypeOK, RequestInv, TokensInv, [Next]_vars PROVE TokensInv'
  OBVIOUS
<1> USE DEF SessionsTypeOK, RequestInv, TokensInv, Exists, Begin, Continue, Finish, tokenVars, historyVars, requestVars
<1>1. ASSUME NEW r \in Requests, NEW u \in Users, Register(r, u) PROVE TokensInv'
  BY <1>1 DEF Register
<1>2. ASSUME NEW r \in Requests, NEW u \in Users, Login(r, u) PROVE TokensInv'
  BY <1>2 DEF Login
<1>3. ASSUME NEW r \in Requests, NEW u \in Users, BeginSuspension(r, u) PROVE TokensInv'
  BY <1>3 DEF BeginSuspension, Unrevoked
<1>4. ASSUME NEW r \in Requests, NEW t \in Tokens, IssueSession(r, t) PROVE TokensInv'
  BY <1>4, SessionsAssumption DEF IssueSession
<1>5. ASSUME NEW r \in Requests, NEW t \in Tokens, ReadToken(r, t) PROVE TokensInv'
  BY <1>5 DEF ReadToken
<1>6. ASSUME NEW r \in Requests, NEW t \in Tokens, Rotate(r, t) PROVE TokensInv'
  BY <1>6 DEF Rotate
<1>7. ASSUME NEW r \in Requests, Consume(r) PROVE TokensInv'
  BY <1>7 DEF Consume
<1>8. ASSUME NEW r \in Requests, BeginRevocation(r) PROVE TokensInv'
  BY <1>8 DEF BeginRevocation, Unrevoked
<1>9. ASSUME NEW r \in Requests, RevokeFamily(r) PROVE TokensInv'
  BY <1>9 DEF RevokeFamily
<1>10. ASSUME NEW r \in Requests, Suspend(r) PROVE TokensInv'
  BY <1>10 DEF Suspend
<1>11. ASSUME NEW r \in Requests, Abort(r) PROVE TokensInv'
  BY <1>11 DEF Abort
<1>12. ASSUME NEW t \in Tokens, Logout(t) PROVE TokensInv'
  BY <1>12 DEF Logout
<1>13. ASSUME NEW u \in Users, Reinstate(u) PROVE TokensInv'
  BY <1>13 DEF Reinstate
<1>14. CASE UNCHANGED vars
  BY <1>14 DEF vars
<1> QED
  BY <1>1, <1>2, <1>3, <1>4, <1>5, <1>6, <1>7, <1>8, <1>9, <1>10, <1>11, <1>12, <1>13, <1>14 DEF Next

\* A row that is drawn was never used, and no UPDATE has it in mind.
THEOREM FreshTokens == Spec => []TokensInv
<1>1. Init => TokensInv
  BY DEF Init, TokensInv
<1>2. SessionsTypeOK /\ SessionsInv /\ TokensInv /\ [Next]_vars => TokensInv'
  BY TokensStep DEF SessionsInv
<1> QED
  BY <1>1, <1>2, SessionsCorrect, PTL DEF Spec

\* The session of an open token is that token; a family without one has none.
SessionFacts ==
  /\ \A t \in Tokens : Open(t) => CurrentSession[family[t]] = <<owner[t], t>>
  /\ \A f \in Tokens :
       (\A t \in Tokens : Open(t) => family[t] # f) => CurrentSession[f] = NoSession

LEMMA SessionOfToken == SessionsTypeOK /\ OneOpenToken => SessionFacts
<1> SUFFICES ASSUME SessionsTypeOK, OneOpenToken PROVE SessionFacts
  OBVIOUS
<1>1. ASSUME NEW t \in Tokens, Open(t)
      PROVE  CurrentSession[family[t]] = <<owner[t], t>>
  <2> DEFINE f == family[t]
  <2>1. f \in Tokens
    BY DEF SessionsTypeOK
  <2>2. \A q \in Tokens : Open(q) /\ family[q] = f => q = t
    BY <1>1 DEF OneOpenToken
  <2>3. GoodToken(f) \in Tokens /\ Open(GoodToken(f)) /\ family[GoodToken(f)] = f
    BY <1>1 DEF GoodToken
  <2>4. GoodToken(f) = t
    BY <2>2, <2>3
  <2>5. CurrentSession[f] = <<owner[GoodToken(f)], GoodToken(f)>>
    BY <1>1, <2>1 DEF CurrentSession
  <2> QED
    BY <2>4, <2>5
<1>2. ASSUME NEW f \in Tokens, \A t \in Tokens : Open(t) => family[t] # f
      PROVE  CurrentSession[f] = NoSession
  BY <1>2 DEF CurrentSession
<1> QED
  BY <1>1, <1>2 DEF SessionFacts

LEMMA SessionOfTokenNext == SessionsTypeOK' /\ OneOpenToken' => SessionFacts'
BY SessionOfToken, PTL

LEMMA SessionsStutter ==
  ASSUME UNCHANGED tokenVars
  PROVE  UNCHANGED Life!sessionVars
<1>1. \A t \in Tokens : Exists(t)' = Exists(t) /\ Open(t)' = Open(t)
  BY DEF tokenVars, Exists, Open
<1>2. \A f \in Tokens : GoodToken(f)' = GoodToken(f)
  BY <1>1 DEF GoodToken, tokenVars
<1>3. UNCHANGED CurrentSession
  BY <1>1, <1>2 DEF CurrentSession, tokenVars
<1> QED
  BY <1>1, <1>3 DEF Life!sessionVars

\* What every step of the refinement may use of both of its states.
Good == SessionsTypeOK /\ RequestInv /\ FamilyInv /\ OneOpenToken /\ TokensInv

LEMMA IssueStarts ==
  ASSUME Good, Good', NEW r \in Requests, NEW t \in Tokens, IssueSession(r, t)
  PROVE  \E u \in Users : Life!Start(t, u)
<1> USE DEF Good
<1>1. SessionFacts /\ SessionFacts'
  BY SessionOfToken, SessionOfTokenNext
<1>2. /\ user[r] \in Users /\ ~Exists(t)
      /\ owner' = [owner EXCEPT ![t] = user[r]]
      /\ UNCHANGED <<family, used, revoked>>
  BY DEF IssueSession, RequestInv
<1>3. family[t] = t /\ t \notin used \cup revoked
  BY <1>2 DEF FamilyInv, TokensInv
<1>4. Open(t)' /\ owner'[t] = user[r]
  BY <1>2, <1>3, SessionsAssumption DEF Open, Exists, SessionsTypeOK
<1>5. \A q \in Tokens \ {t} : Open(q)' = Open(q) /\ owner'[q] = owner[q]
  BY <1>2 DEF Open, Exists, SessionsTypeOK
<1>6. ASSUME NEW f \in Tokens
      PROVE  CurrentSession'[f] = IF f = t THEN <<user[r], t>> ELSE CurrentSession[f]
  <2>1. CASE f = t
    BY <1>1, <1>2, <1>3, <1>4, <2>1 DEF SessionFacts
  <2>2. ASSUME f # t, NEW q \in Tokens, Open(q), family[q] = f
        PROVE  CurrentSession'[f] = CurrentSession[f]
    <3>1. q # t
      BY <1>2, <2>2 DEF Open
    <3>2. Open(q)' /\ family'[q] = f /\ owner'[q] = owner[q]
      BY <1>2, <1>5, <2>2, <3>1
    <3>3. CurrentSession[f] = <<owner[q], q>>
      BY <1>1, <2>2 DEF SessionFacts
    <3>4. CurrentSession'[f] = <<owner'[q], q>>
      BY <1>1, <3>2 DEF SessionFacts
    <3> QED
      BY <3>2, <3>3, <3>4
  <2>3. ASSUME f # t, \A q \in Tokens : Open(q) => family[q] # f
        PROVE  CurrentSession'[f] = CurrentSession[f]
    <3>1. \A q \in Tokens : Open(q)' => family'[q] # f
      BY <1>2, <1>3, <1>5, <2>3
    <3> QED
      BY <1>1, <2>3, <3>1 DEF SessionFacts
  <2> QED
    BY <2>1, <2>2, <2>3
<1>7. CurrentSession' = [CurrentSession EXCEPT ![t] = <<user[r], t>>]
  BY <1>6 DEF CurrentSession
<1>8. {q \in Tokens : Exists(q)}' = {q \in Tokens : Exists(q)} \cup {t}
  BY <1>2, SessionsAssumption DEF Exists, SessionsTypeOK
<1> QED
  BY <1>2, <1>7, <1>8 DEF Life!Start

LEMMA RotateRotates ==
  ASSUME Good, Good', NEW r \in Requests, NEW t \in Tokens, Rotate(r, t)
  PROVE  \E f \in Tokens : Life!Rotate(f, t)
<1> USE DEF Good
<1> DEFINE old == tok[r]
           f == family[old]
<1>1. SessionFacts /\ SessionFacts'
  BY SessionOfToken, SessionOfTokenNext
<1>2. old \in Tokens /\ Open(old) /\ f \in Tokens /\ ~Exists(t) /\ old # t
  BY DEF Rotate, RequestInv, SessionsTypeOK, Open
<1>3. /\ owner' = [owner EXCEPT ![t] = owner[old]]
      /\ family' = [family EXCEPT ![t] = f]
      /\ used' = used \cup {old} /\ revoked' = revoked
  BY DEF Rotate
<1> HIDE DEF old, f
<1>4. t \notin used \cup revoked
  BY <1>2 DEF TokensInv
<1>5. Open(t)' /\ owner'[t] = owner[old] /\ family'[t] = f
  BY <1>2, <1>3, <1>4 DEF Open, Exists, SessionsTypeOK
<1>6. \A q \in Tokens \ {t} :
        /\ Open(q)' <=> Open(q) /\ q # old
        /\ owner'[q] = owner[q] /\ family'[q] = family[q]
  BY <1>3 DEF Open, Exists, SessionsTypeOK
<1>7. CurrentSession[f] = <<owner[old], old>> /\ CurrentSession'[f] = <<owner[old], t>>
  BY <1>1, <1>2, <1>5 DEF SessionFacts, f
<1>8. ASSUME NEW g \in Tokens, g # f
      PROVE  CurrentSession'[g] = CurrentSession[g]
  <2>1. ASSUME NEW q \in Tokens, Open(q), family[q] = g
        PROVE  CurrentSession'[g] = CurrentSession[g]
    <3>1. q # t /\ q # old
      BY <1>2, <1>8, <2>1 DEF Open, f
    <3>2. Open(q)' /\ family'[q] = g /\ owner'[q] = owner[q]
      BY <1>6, <2>1, <3>1
    <3>3. CurrentSession[g] = <<owner[q], q>>
      BY <1>1, <2>1 DEF SessionFacts
    <3>4. CurrentSession'[g] = <<owner'[q], q>>
      BY <1>1, <3>2 DEF SessionFacts
    <3> QED
      BY <3>2, <3>3, <3>4
  <2>2. ASSUME \A q \in Tokens : Open(q) => family[q] # g
        PROVE  CurrentSession'[g] = CurrentSession[g]
    <3>1. \A q \in Tokens : Open(q)' => family'[q] # g
      BY <1>5, <1>6, <1>8, <2>2
    <3> QED
      BY <1>1, <2>2, <3>1 DEF SessionFacts
  <2> QED
    BY <2>1, <2>2
<1>9. CurrentSession' = [CurrentSession EXCEPT ![f][2] = t]
  <2>1. CurrentSession = [g \in Tokens |-> CurrentSession[g]]
        /\ CurrentSession' = [g \in Tokens |-> CurrentSession'[g]]
    BY DEF CurrentSession
  <2>2. [CurrentSession[f] EXCEPT ![2] = t] = <<owner[old], t>>
    BY <1>7
  <2>3. CurrentSession' = [CurrentSession EXCEPT ![f] = <<owner[old], t>>]
    BY <1>2, <1>7, <1>8, <2>1
  <2> QED
    BY <2>2, <2>3
<1>10. CurrentSession[f] # NoSession
  BY <1>2, <1>7 DEF NoSession, Open, Exists
<1>11. {q \in Tokens : Exists(q)}' = {q \in Tokens : Exists(q)} \cup {t}
  BY <1>2, <1>3 DEF Open, Exists, SessionsTypeOK
<1> QED
  BY <1>2, <1>9, <1>10, <1>11 DEF Life!Rotate

\* Revoking any rows at all ends the sessions whose good token is among them.
LEMMA RevokingEnds ==
  ASSUME Good, Good', UNCHANGED <<owner, family, used>>, revoked \subseteq revoked'
  PROVE  \E F \in SUBSET Tokens : Life!End(F)
<1> USE DEF Good
<1>1. SessionFacts /\ SessionFacts'
  BY SessionOfToken, SessionOfTokenNext
<1>2. \A q \in Tokens : Exists(q)' = Exists(q) /\ (Open(q)' => Open(q))
  BY DEF Open, Exists
<1> DEFINE F == {f \in Tokens : \A q \in Tokens : Open(q)' => family[q] # f}
<1>3. ASSUME NEW f \in Tokens
      PROVE  CurrentSession'[f] = IF f \in F THEN NoSession ELSE CurrentSession[f]
  <2>1. CASE f \in F
    BY <1>1, <2>1 DEF SessionFacts
  <2>2. CASE f \notin F
    <3>1. PICK q \in Tokens : Open(q)' /\ family[q] = f
      BY <2>2
    <3> QED
      BY <1>1, <1>2, <2>2, <3>1 DEF SessionFacts
  <2> QED
    BY <2>1, <2>2
<1>4. F \in SUBSET Tokens
  OBVIOUS
<1> HIDE DEF F
<1>5. CurrentSession' = [f \in Tokens |-> IF f \in F THEN NoSession ELSE CurrentSession[f]]
  BY <1>3 DEF CurrentSession
<1>6. {q \in Tokens : Exists(q)}' = {q \in Tokens : Exists(q)}
  BY <1>2
<1> QED
  BY <1>4, <1>5, <1>6 DEF Life!End

LEMMA StepIsSessionStep ==
  ASSUME Good, Good', [Next]_vars
  PROVE  [Life!Next]_(Life!sessionVars)
<1>1. CASE UNCHANGED tokenVars
  BY <1>1, SessionsStutter
<1>2. ASSUME NEW r \in Requests, NEW t \in Tokens, IssueSession(r, t)
      PROVE  Life!Next
  BY <1>2, IssueStarts DEF Life!Next
<1>3. ASSUME NEW r \in Requests, NEW t \in Tokens, Rotate(r, t)
      PROVE  Life!Next
  BY <1>3, RotateRotates DEF Life!Next
<1>4. CASE \/ \E r \in Requests : RevokeFamily(r) \/ Suspend(r)
           \/ \E t \in Tokens : Logout(t)
  <2>1. UNCHANGED <<owner, family, used>> /\ revoked \subseteq revoked'
    BY <1>4 DEF RevokeFamily, Suspend, Logout
  <2> QED
    BY <2>1, RevokingEnds DEF Life!Next
<1>5. ASSUME NEW r \in Requests, NEW u \in Users,
             Register(r, u) \/ Login(r, u) \/ BeginSuspension(r, u)
      PROVE  UNCHANGED tokenVars
  BY <1>5 DEF Register, Login, BeginSuspension
<1>6. ASSUME NEW r \in Requests, NEW t \in Tokens, ReadToken(r, t)
      PROVE  UNCHANGED tokenVars
  BY <1>6 DEF ReadToken
<1>7. ASSUME NEW r \in Requests, Consume(r) \/ BeginRevocation(r) \/ Abort(r)
      PROVE  UNCHANGED tokenVars
  BY <1>7 DEF Consume, BeginRevocation, Abort
<1>8. CASE (\E u \in Users : Reinstate(u)) \/ UNCHANGED vars
  BY <1>1, <1>8 DEF Reinstate, vars
<1> QED
  BY <1>1, <1>2, <1>3, <1>4, <1>5, <1>6, <1>7, <1>8 DEF Next

LEMMA InitIsSessionInit == Init => Life!Init
<1> SUFFICES ASSUME Init PROVE Life!Init
  OBVIOUS
<1>1. \A t \in Tokens : ~Exists(t) /\ ~Open(t)
  BY DEF Init, Exists, Open
<1> QED
  BY <1>1 DEF Life!Init, CurrentSession

\* Whatever requests run side by side, a user sees sessions that start, move from
\* token to token and end: refresh(), logout(), reuse and suspension together
\* implement the chain of tokens of SessionLife.
THEOREM SessionsLive == Spec => ImplementsSessionLife
<1>1. Good /\ Good' /\ [Next]_vars => [Life!Next]_(Life!sessionVars)
  BY StepIsSessionStep
<1>2. SessionsTypeOK /\ SessionsInv /\ TokensInv => Good
  BY DEF Good, SessionsInv
<1> QED
  BY <1>1, <1>2, InitIsSessionInit, SessionsCorrect, FreshTokens, PTL
     DEF Spec, ImplementsSessionLife, Life!Spec

LEMMA LifeNeverRevives ==
  ASSUME Good, [Life!Next]_(Life!sessionVars)
  PROVE  EndedStaysEnded
<1> SUFFICES ASSUME NEW f \in Tokens, Exists(f), CurrentSession[f] = NoSession
             PROVE  CurrentSession'[f] = NoSession
  BY DEF EndedStaysEnded
<1> DEFINE current == CurrentSession
           drawn == {t \in Tokens : Exists(t)}
<1>1. f \in drawn
  OBVIOUS
<1>2. current = [g \in Tokens |-> current[g]]
  BY DEF CurrentSession
<1> HIDE DEF current, drawn
<1>3. ASSUME NEW g \in Tokens, NEW u \in Users, g # f,
             current' = [current EXCEPT ![g] = <<u, g>>]
      PROVE  current'[f] = NoSession
  BY <1>2, <1>3 DEF current
<1>4. ASSUME NEW g \in Tokens, NEW t \in Tokens, g # f,
             current' = [current EXCEPT ![g][2] = t]
      PROVE  current'[f] = NoSession
  BY <1>2, <1>4 DEF current
<1>5. ASSUME NEW F \in SUBSET Tokens,
             current' = [g \in Tokens |-> IF g \in F THEN NoSession ELSE current[g]]
      PROVE  current'[f] = NoSession
  BY <1>5 DEF current
<1>6. ASSUME NEW g \in Tokens, NEW u \in Users, Life!Start(g, u)
      PROVE  current'[f] = NoSession
  BY <1>1, <1>3, <1>6 DEF Life!Start, current, drawn
<1>7. ASSUME NEW g \in Tokens, NEW t \in Tokens, Life!Rotate(g, t)
      PROVE  current'[f] = NoSession
  BY <1>4, <1>7 DEF Life!Rotate, current
<1>8. ASSUME NEW F \in SUBSET Tokens, Life!End(F)
      PROVE  current'[f] = NoSession
  BY <1>5, <1>8 DEF Life!End, current
<1>9. CASE UNCHANGED Life!sessionVars
  BY <1>9 DEF Life!sessionVars
<1> QED
  BY <1>6, <1>7, <1>8, <1>9 DEF Life!Next, current

\* A revocation or suspension that is not overtaken has found the good token of
\* each session it is about; a log-out revokes the one it was given.
LEMMA StatementsEndSessions ==
  ASSUME Good, Good', UpdateInv
  PROVE  StatementsEnd
<1> USE DEF Good
<1> SUFFICES ASSUME NEW f \in Tokens, EndsSession(f)
             PROVE  CurrentSession'[f] = NoSession
  BY DEF StatementsEnd
<1>1. SessionFacts /\ SessionFacts'
  BY SessionOfToken, SessionOfTokenNext
<1>2. UNCHANGED <<owner, family, used>> /\ revoked \subseteq revoked'
  BY DEF EndsSession, RevokeFamily, Suspend, Logout
<1>3. SUFFICES ASSUME NEW t \in Tokens, Open(t), family[t] = f
               PROVE  t \in revoked'
  <2>1. \A t \in Tokens : Open(t)' => Open(t) /\ t \notin revoked'
    BY <1>2 DEF Open, Exists
  <2> QED
    BY <1>1, <1>2, <1>3, <2>1 DEF SessionFacts
<1>4. CurrentSession[f] = <<owner[t], t>>
  BY <1>1, <1>3 DEF SessionFacts
<1>5. ASSUME NEW r \in Requests \ overtaken, RevokeFamily(r), f = family[tok[r]]
      PROVE  t \in revoked'
  BY <1>3, <1>5 DEF RevokeFamily, UpdateInv
<1>6. ASSUME NEW r \in Requests \ overtaken, Suspend(r), CurrentSession[f][1] = user[r]
      PROVE  t \in revoked'
  BY <1>3, <1>4, <1>6 DEF Suspend, UpdateInv
<1>7. ASSUME NEW q \in Tokens, Logout(q), CurrentSession[f][2] = q
      PROVE  t \in revoked'
  BY <1>4, <1>7 DEF Logout
<1> QED
  BY <1>5, <1>6, <1>7 DEF EndsSession

\* A log-out with the good token, and a replay or suspension that no insertion
\* overtakes, leave a session without a good token; no statement of any request,
\* however late it runs, gives it one again.
THEOREM SessionsEndForGoodHolds == Spec => SessionsEndForGood
<1>1. Good /\ Good' /\ UpdateInv /\ [Next]_vars => [EndedStaysEnded /\ StatementsEnd]_vars
  BY StepIsSessionStep, LifeNeverRevives, StatementsEndSessions
<1>2. SessionsTypeOK /\ SessionsInv /\ TokensInv => Good /\ UpdateInv
  BY DEF Good, SessionsInv
<1> QED
  BY <1>1, <1>2, SessionsCorrect, FreshTokens, PTL DEF Spec, SessionsEndForGood
==============================================================================
