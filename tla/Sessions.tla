------------------------------ MODULE Sessions ------------------------------
(***************************************************************************)
(* Accounts and refresh tokens: identity.service.ts, and the suspension of *)
(* users in admin.service.ts, over PostgreSQL.                             *)
(*                                                                         *)
(* A request is a handler in some API process; it keeps what it has read   *)
(* while other requests run.  A transaction is invisible until it commits  *)
(* and holds the rows it has updated; an UPDATE of many rows fixes the     *)
(* rows it will look at when it starts and waits for those that are held.  *)
(***************************************************************************)
EXTENDS FiniteSets

CONSTANTS
  Users,     \* the people who have, or may register, an account
  Tokens,    \* the refresh tokens ever drawn
  Requests,  \* the handlers that run side by side
  NoUser, NoToken

ASSUME SessionsAssumption ==
  /\ NoUser \notin Users
  /\ NoToken \notin Tokens

VARIABLES
  (* PostgreSQL *)
  status,   \* User.status, or "NONE" before the account exists
  owner,    \* RefreshToken.userId, or NoUser before the row exists
  family,   \* RefreshToken.familyId: the first token of the family
  used,     \* the tokens with a usedAt
  revoked,  \* the tokens with a revokedAt
  (* what each request has in memory *)
  step,     \* the statement it is about to run
  user,     \* the account it is about
  tok,      \* the token it was given
  seen,     \* the rows its UPDATE has found and may still wait for
  (* history *)
  overtaken, \* the requests during whose UPDATE a row it does not see was inserted
  ended,     \* the families a revocation has ended without being overtaken
  raced      \* the suspended users whose suspension a session was created around

tokenVars == <<owner, family, used, revoked>>
requestVars == <<step, user, tok, seen>>
historyVars == <<overtaken, ended, raced>>
vars == <<status, tokenVars, requestVars, historyVars>>

Steps == {"idle", "issue", "consume", "create", "reuse", "revoke", "suspend"}

Init ==
  /\ status = [u \in Users |-> "NONE"]
  /\ owner = [t \in Tokens |-> NoUser]
  /\ family = [t \in Tokens |-> t]
  /\ used = {} /\ revoked = {}
  /\ step = [r \in Requests |-> "idle"]
  /\ user = [r \in Requests |-> NoUser]
  /\ tok = [r \in Requests |-> NoToken]
  /\ seen = [r \in Requests |-> {}]
  /\ overtaken = {} /\ ended = {} /\ raced = {}

Exists(t) == owner[t] # NoUser
Open(t) == Exists(t) /\ t \notin used \cup revoked

\* The rows an uncommitted transaction holds.
Held(t) == \E r \in Requests : step[r] = "create" /\ tok[r] = t
UserHeld(u) == \E r \in Requests : step[r] = "suspend" /\ user[r] = u

Unrevoked(S) == {t \in S : Exists(t) /\ t \notin revoked}
FamilyOf(t) == {q \in Tokens : family[q] = family[t]}

\* A mistake to catch: only the token of each log-in, none of those it was rotated to.
LoginsOf(u) == {q \in Tokens : owner[q] = u /\ family[q] = q}
SessionsOf(u) == {q \in Tokens : owner[q] = u}

Begin(r, s, u, t) ==
  /\ step[r] = "idle"
  /\ step' = [step EXCEPT ![r] = s]
  /\ user' = [user EXCEPT ![r] = u]
  /\ tok' = [tok EXCEPT ![r] = t]
  /\ UNCHANGED seen

Continue(r, s) == step' = [step EXCEPT ![r] = s] /\ UNCHANGED <<user, tok>>

Finish(r) ==
  /\ step' = [step EXCEPT ![r] = "idle"]
  /\ user' = [user EXCEPT ![r] = NoUser]
  /\ tok' = [tok EXCEPT ![r] = NoToken]
  /\ seen' = [seen EXCEPT ![r] = {}]

\* The UPDATEs under way that the insertion of a row of u, in the family of t,
\* comes too late for.
Overtakes(u, t) ==
  {r \in Requests : \/ step[r] = "revoke" /\ family[tok[r]] = family[t]
                    \/ step[r] = "suspend" /\ user[r] = u}

(***************************************************************************)
(* Register, log in, log out.                                              *)
(***************************************************************************)

\* The unique e-mail address lets one of two registrations through.
Register(r, u) ==
  /\ status[u] = "NONE"
  /\ status' = [status EXCEPT ![u] = "ACTIVE"]
  /\ Begin(r, "issue", u, NoToken)
  /\ UNCHANGED <<tokenVars, historyVars>>

Login(r, u) ==
  /\ status[u] = "ACTIVE"
  /\ Begin(r, "issue", u, NoToken)
  /\ UNCHANGED <<status, tokenVars, historyVars>>

IssueSession(r, t) ==
  /\ step[r] = "issue"
  /\ ~Exists(t)
  /\ owner' = [owner EXCEPT ![t] = user[r]]
  /\ overtaken' = overtaken \cup Overtakes(user[r], t)
  /\ Finish(r)
  /\ UNCHANGED <<status, family, used, revoked, ended, raced>>

\* The guard has looked at the user's status before; the statement does not.
Logout(t) ==
  /\ Exists(t) /\ ~Held(t)
  /\ revoked' = revoked \cup {t}
  /\ UNCHANGED <<status, owner, family, used, requestVars, historyVars>>

(***************************************************************************)
(* Refresh.  Whoever has a token may present it, at any time and again.    *)
(***************************************************************************)

\* A token that has expired counts as replayed.  Whether it has is up to the
\* clock of the process that reads it, so every token may turn out to be.
ReadToken(r, t) ==
  /\ Exists(t)
  /\ \/ Begin(r, "reuse", NoUser, t)
     \/ t \notin used \cup revoked /\ Begin(r, "consume", NoUser, t)
  /\ UNCHANGED <<status, tokenVars, historyVars>>

\* updateMany ... WHERE usedAt IS NULL AND revokedAt IS NULL, after the wait
\* for whoever holds the row.
\* Mistakes to catch: one of the two conditions of the WHERE is missing.
ConsumableTwice(t) == t \notin revoked
ConsumableRevoked(t) == t \notin used
Consumable(t) == t \notin used \cup revoked

Consume(r) ==
  /\ step[r] = "consume" /\ ~Held(tok[r])
  /\ Continue(r, IF Consumable(tok[r]) THEN "create" ELSE "reuse")
  /\ UNCHANGED <<seen, status, tokenVars, historyVars>>

\* The transaction commits: the old row is used and the new one exists.
Rotate(r, t) ==
  /\ step[r] = "create"
  /\ ~Exists(t)
  /\ used' = used \cup {tok[r]}
  /\ owner' = [owner EXCEPT ![t] = owner[tok[r]]]
  /\ family' = [family EXCEPT ![t] = family[tok[r]]]
  /\ overtaken' = overtaken \cup Overtakes(owner[tok[r]], tok[r])
  /\ Finish(r)
  /\ UNCHANGED <<status, revoked, ended, raced>>

\* The revocation of the family is a statement of its own, after the
\* transaction that found the reuse.
BeginRevocation(r) ==
  /\ step[r] = "reuse"
  /\ Continue(r, "revoke")
  /\ seen' = [seen EXCEPT ![r] = Unrevoked(FamilyOf(tok[r]))]
  /\ UNCHANGED <<status, tokenVars, historyVars>>

RevokeFamily(r) ==
  /\ step[r] = "revoke"
  /\ \A t \in seen[r] : ~Held(t)
  /\ revoked' = revoked \cup seen[r]
  /\ ended' = IF r \in overtaken THEN ended ELSE ended \cup {family[tok[r]]}
  /\ overtaken' = overtaken \ {r}
  /\ Finish(r)
  /\ UNCHANGED <<status, owner, family, used, raced>>

(***************************************************************************)
(* Administration.                                                         *)
(***************************************************************************)

\* An administrator asks; the guards and the look-up of the user change nothing.
\* The transaction updates the user, then starts the UPDATE of his tokens.
BeginSuspension(r, u) ==
  /\ status[u] # "NONE" /\ ~UserHeld(u)
  /\ step[r] = "idle"
  /\ step' = [step EXCEPT ![r] = "suspend"]
  /\ user' = [user EXCEPT ![r] = u]
  /\ seen' = [seen EXCEPT ![r] = Unrevoked(SessionsOf(u))]
  /\ UNCHANGED <<tok, status, tokenVars, historyVars>>

Suspend(r) ==
  /\ step[r] = "suspend"
  /\ \A t \in seen[r] : ~Held(t)
  /\ status' = [status EXCEPT ![user[r]] = "SUSPENDED"]
  /\ revoked' = revoked \cup seen[r]
  /\ raced' = IF r \in overtaken \/ \E q \in Requests : step[q] = "issue" /\ user[q] = user[r]
              THEN raced \cup {user[r]}
              ELSE raced \ {user[r]}
  /\ overtaken' = overtaken \ {r}
  /\ Finish(r)
  /\ UNCHANGED <<owner, family, used, ended>>

Reinstate(u) ==
  /\ status[u] # "NONE" /\ ~UserHeld(u)
  /\ status' = [status EXCEPT ![u] = "ACTIVE"]
  /\ UNCHANGED <<tokenVars, requestVars, historyVars>>

\* The process dies or a statement fails; what has not committed is undone.
Abort(r) ==
  /\ step[r] # "idle"
  /\ overtaken' = overtaken \ {r}
  /\ Finish(r)
  /\ UNCHANGED <<status, tokenVars, ended, raced>>

Next ==
  \/ \E r \in Requests, u \in Users : Register(r, u) \/ Login(r, u) \/ BeginSuspension(r, u)
  \/ \E r \in Requests, t \in Tokens : IssueSession(r, t) \/ ReadToken(r, t) \/ Rotate(r, t)
  \/ \E r \in Requests :
       Consume(r) \/ BeginRevocation(r) \/ RevokeFamily(r) \/ Suspend(r) \/ Abort(r)
  \/ \E t \in Tokens : Logout(t)
  \/ \E u \in Users : Reinstate(u)

Spec == Init /\ [][Next]_vars
==============================================================================
