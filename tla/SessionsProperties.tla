------------------------- MODULE SessionsProperties -------------------------
(***************************************************************************)
(* What sessions promise, and the invariant the proofs rest on.            *)
(***************************************************************************)
EXTENDS Sessions

\* The types of the tables and of what a request remembers.
SessionsTypeOK ==
  /\ status \in [Users -> {"NONE", "ACTIVE", "SUSPENDED"}]
  /\ owner \in [Tokens -> Users \cup {NoUser}]
  /\ family \in [Tokens -> Tokens]
  /\ used \subseteq Tokens /\ revoked \subseteq Tokens
  /\ step \in [Requests -> Steps]
  /\ user \in [Requests -> Users \cup {NoUser}]
  /\ tok \in [Requests -> Tokens \cup {NoToken}]
  /\ seen \in [Requests -> SUBSET Tokens]
  /\ overtaken \subseteq Requests /\ ended \subseteq Tokens /\ raced \subseteq Users

\* However many requests present the tokens of a session at once, it never
\* forks: a family has at most one token that is neither used nor revoked.
OneOpenToken ==
  \A t, q \in Tokens : Open(t) /\ Open(q) /\ family[t] = family[q] => t = q

\* A replayed or expired token ends its family for good, unless a rotation
\* committed between the start of the revoking UPDATE and its end: then the
\* new token is not among the rows it revokes.
ReplayEndsFamily == \A t \in Tokens : family[t] \in ended => ~Open(t)

\* A suspended user holds no open token, unless a log-in that had already read
\* him as active, or a rotation, created one around the suspension.
SuspensionEndsSessions ==
  \A t \in Tokens : Open(t) /\ status[owner[t]] = "SUSPENDED" => owner[t] \in raced

\* The good token of each session, and whose it is.
NoSession == <<NoUser, NoToken>>
GoodToken(f) == CHOOSE t \in Tokens : Open(t) /\ family[t] = f
CurrentSession ==
  [f \in Tokens |-> IF \E t \in Tokens : Open(t) /\ family[t] = f
                   THEN <<owner[GoodToken(f)], GoodToken(f)>> ELSE NoSession]

Life == INSTANCE SessionLife WITH session <- CurrentSession, drawn <- {t \in Tokens : Exists(t)}

\* Requests that read, consume, rotate and revoke side by side implement a session
\* that is one user's chain of tokens: one good at a time, each the next of the
\* one before, and nothing after the end, whoever's statement ends it.
ImplementsSessionLife == Life!Spec

\* The statements that end the session of a family: the revocation of the family
\* and the suspension of its user, unless a row was inserted for them to revoke
\* after their UPDATE had looked for rows; and the log-out with its good token.
EndsSession(f) ==
  \/ \E r \in Requests \ overtaken :
       \/ RevokeFamily(r) /\ f = family[tok[r]]
       \/ Suspend(r) /\ CurrentSession[f][1] = user[r]
  \/ \E t \in Tokens : Logout(t) /\ CurrentSession[f][2] = t

\* Those statements leave a session without a good token, and a session that has
\* none never has one again.
EndedStaysEnded ==
  \A f \in Tokens : Exists(f) /\ CurrentSession[f] = NoSession => CurrentSession'[f] = NoSession
StatementsEnd ==
  \A f \in Tokens : EndsSession(f) => CurrentSession'[f] = NoSession

SessionsEndForGood == [][EndedStaysEnded /\ StatementsEnd]_vars

(***************************************************************************)
(* The inductive invariant.                                                *)
(***************************************************************************)

\* A request that rotates a token holds its row, which is open.
RequestInv ==
  \A r \in Requests :
    /\ step[r] \in {"issue", "suspend"} => user[r] \in Users
    /\ step[r] \in {"consume", "create", "reuse", "revoke"} => tok[r] \in Tokens /\ Exists(tok[r])
    /\ step[r] = "create" =>
         Open(tok[r]) /\ \A q \in Requests \ {r} : step[q] = "create" => tok[q] # tok[r]

\* A family is named after a token that exists.
FamilyInv == \A t \in Tokens : IF Exists(t) THEN Exists(family[t]) ELSE family[t] = t

\* Only a token that exists is used, revoked or about to be.
TokensInv ==
  /\ \A t \in used \cup revoked : Exists(t)
  /\ \A r \in Requests : \A t \in seen[r] : Exists(t)

EndedInv ==
  /\ ReplayEndsFamily
  /\ \A f \in ended : Exists(f)

\* An UPDATE that is not overtaken sees every open token it is about.
UpdateInv ==
  \A r \in Requests \ overtaken, t \in Tokens :
    /\ step[r] = "revoke" /\ Open(t) /\ family[t] = family[tok[r]] => t \in seen[r]
    /\ step[r] = "suspend" /\ Open(t) /\ owner[t] = user[r] => t \in seen[r]

SuspensionInv ==
  /\ SuspensionEndsSessions
  /\ \A r \in Requests :
       step[r] = "issue" /\ status[user[r]] = "SUSPENDED" => user[r] \in raced

SessionsInv ==
  /\ RequestInv /\ FamilyInv /\ OneOpenToken /\ EndedInv /\ UpdateInv /\ SuspensionInv
==============================================================================
