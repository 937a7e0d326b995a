----------------------------- MODULE NoticeLife -----------------------------
(***************************************************************************)
(* A row of the outbox and its delivery as their readers know them: the    *)
(* customer, who counts e-mails, and the operator, who sees an outcome.    *)
(* There are no workers, batches or leases here.  A row is taken up, its   *)
(* delivery tried, and an e-mail sent, each within the count of the one    *)
(* before; only a mishap sends again or undoes an outcome.                 *)
(***************************************************************************)
EXTENDS Naturals

CONSTANTS Rows, KindOf, MaxAttempts

VARIABLES
  outcome,  \* of each row: "NONE" before it is written, "OPEN", "PROCESSED" or "DEAD"
  told,     \* what its delivery says: "OPEN", "SENT" or "DEAD"
  claims,   \* how often the row was taken up
  tries,    \* how often its delivery was tried
  emails,   \* how many e-mails went out
  mishaps   \* how many things have gone wrong, with any of the rows

noticeVars == <<outcome, told, claims, tries, emails, mishaps>>

Init ==
  /\ outcome = [r \in Rows |-> "NONE"]
  /\ told = [r \in Rows |-> "OPEN"]
  /\ claims = [r \in Rows |-> 0]
  /\ tries = [r \in Rows |-> 0]
  /\ emails = [r \in Rows |-> 0]
  /\ mishaps = 0

Write(r) ==
  /\ outcome[r] = "NONE"
  /\ outcome' = [outcome EXCEPT ![r] = "OPEN"]
  /\ UNCHANGED <<told, claims, tries, emails>>

TakeUp(S) ==
  /\ \A r \in S : outcome[r] = "OPEN" /\ claims[r] < MaxAttempts + mishaps
  /\ claims' = [r \in Rows |-> IF r \in S THEN claims[r] + 1 ELSE claims[r]]
  /\ UNCHANGED <<outcome, told, tries, emails>>

\* What has come to an end stays so until something goes wrong.
Settle(r, o) ==
  /\ outcome[r] = "OPEN" \/ mishaps > 0
  /\ outcome' = [outcome EXCEPT ![r] = o]

Tell(r, d) ==
  /\ told[r] # "SENT" \/ mishaps > 0
  /\ told' = [told EXCEPT ![r] = d]

Try(r) ==
  /\ tries[r] < claims[r]
  /\ tries' = [tries EXCEPT ![r] = @ + 1]
  /\ Tell(r, "OPEN")
  /\ UNCHANGED <<outcome, claims, emails>>

Send(r) ==
  /\ KindOf[r] = "notice"
  /\ outcome[r] = "OPEN" \/ mishaps > 0
  /\ emails[r] < tries[r]
  /\ emails[r] <= mishaps
  /\ emails' = [emails EXCEPT ![r] = @ + 1]
  /\ UNCHANGED <<outcome, told, claims, tries>>

Record(r) ==
  /\ emails[r] > 0
  /\ Tell(r, "SENT")
  /\ Settle(r, "PROCESSED")
  /\ UNCHANGED <<claims, tries, emails>>

Fail(r) ==
  /\ Tell(r, "OPEN") \/ (tries[r] >= MaxAttempts /\ Tell(r, "DEAD"))
  /\ UNCHANGED <<outcome, claims, tries, emails>>

\* Nobody is to be notified, or somebody was.
Finish(r) ==
  /\ KindOf[r] = "silent" \/ emails[r] > 0
  /\ Settle(r, "PROCESSED")
  /\ UNCHANGED <<told, claims, tries, emails>>

GiveUp(r) ==
  /\ claims[r] >= MaxAttempts
  /\ Settle(r, "DEAD")
  /\ UNCHANGED <<told, claims, tries, emails>>

PutBack(r) ==
  /\ outcome[r] # "NONE"
  /\ Settle(r, "OPEN")
  /\ UNCHANGED <<told, claims, tries, emails>>

Proceed ==
  \/ \E S \in SUBSET Rows : TakeUp(S)
  \/ \E r \in Rows : \/ Write(r) \/ Try(r) \/ Send(r) \/ Record(r) \/ Fail(r)
                     \/ Finish(r) \/ GiveUp(r) \/ PutBack(r)
  \/ UNCHANGED <<outcome, told, claims, tries, emails>>

\* A mishap may come with any step, and counts for the steps after it.
Next == Proceed /\ mishaps' \in {mishaps, mishaps + 1}

Spec == Init /\ [][Next]_noticeVars
==============================================================================
