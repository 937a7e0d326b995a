---------------------------- MODULE OutboxProofs ----------------------------
(***************************************************************************)
(* Proofs about Outbox for every number of rows, workers, attempts and     *)
(* faults, and every size of a batch.                                      *)
(***************************************************************************)
EXTENDS OutboxProperties, FiniteSetTheorems, TLAPS

(***************************************************************************)
(* Counting workers.                                                       *)
(***************************************************************************)
LEMMA CountOne ==
  ASSUME NEW S \in SUBSET Workers, NEW w \in Workers
  PROVE  /\ Cardinality(S) \in Nat
         /\ Cardinality(S \cup {w}) \in Nat
         /\ Cardinality(S \cup {w}) <= Cardinality(S) + 1
         /\ Cardinality(S \ {w}) \in Nat
         /\ Cardinality(S \ {w}) <= Cardinality(S)
         /\ w \in S => Cardinality(S \ {w}) = Cardinality(S) - 1
<1>1. IsFiniteSet(S)
  BY OutboxAssumption, FS_Subset
<1>2. Cardinality(S) \in Nat
  BY <1>1, FS_CardinalityType
<1>3. IsFiniteSet(S \cup {w}) /\ Cardinality(S \cup {w}) = IF w \in S THEN Cardinality(S) ELSE Cardinality(S) + 1
  BY <1>1, FS_AddElement
<1>4. IsFiniteSet(S \ {w}) /\ Cardinality(S \ {w}) = IF w \in S THEN Cardinality(S) - 1 ELSE Cardinality(S)
  BY <1>1, FS_RemoveElement
<1>5. Cardinality(S \ {w}) \in Nat /\ Cardinality(S \cup {w}) \in Nat
  BY <1>3, <1>4, FS_CardinalityType
<1> QED
  BY <1>2, <1>3, <1>4, <1>5

LEMMA CountSubset ==
  ASSUME NEW S \in SUBSET Workers, NEW T \in SUBSET S
  PROVE  Cardinality(T) \in Nat /\ Cardinality(S) \in Nat /\ Cardinality(T) <= Cardinality(S)
<1>1. IsFiniteSet(S)
  BY OutboxAssumption, FS_Subset
<1> QED
  BY <1>1, FS_Subset, FS_CardinalityType

(***************************************************************************)
(* Types.                                                                  *)
(***************************************************************************)
LEMMA InitType == Init => OutboxTypeOK
BY OutboxAssumption DEF Init, OutboxTypeOK, RowStatus, DeliveryStatus, Stages

LEMMA TypeEnvironment ==
  ASSUME OutboxTypeOK, NEW r \in Rows, Enqueue(r) \/ TimePasses(r) \/ LeaseOverruns(r)
  PROVE  OutboxTypeOK'
<1> USE OutboxAssumption
        DEF OutboxTypeOK, RowStatus, Closed, deliveryVars, workerVars, Fault
<1>1. CASE Enqueue(r)
  BY <1>1 DEF Enqueue
<1>2. CASE TimePasses(r)
  BY <1>2 DEF TimePasses
<1>3. CASE LeaseOverruns(r)
  BY <1>3 DEF LeaseOverruns
<1> QED
  BY <1>1, <1>2, <1>3

LEMMA TypeClaim ==
  ASSUME OutboxTypeOK, NEW w \in Workers, NEW S \in SUBSET Rows, Claim(w, S) \/ LoseClaim(w, S)
  PROVE  OutboxTypeOK'
<1> USE OutboxAssumption
        DEF OutboxTypeOK, RowStatus, Stages, deliveryVars, workerVars, Fault, TakeRows
<1>1. CASE Claim(w, S)
  BY <1>1 DEF Claim
<1>2. CASE LoseClaim(w, S)
  BY <1>2 DEF LoseClaim
<1> QED
  BY <1>1, <1>2

LEMMA TypeWorker ==
  ASSUME OutboxTypeOK, NEW w \in Workers, ClaimFails(w) \/ BackoffPasses(w) \/ Crash(w)
  PROVE  OutboxTypeOK'
<1> USE OutboxAssumption
        DEF OutboxTypeOK, RowStatus, Stages, rowVars, deliveryVars, workerVars, Fault
<1>1. CASE ClaimFails(w)
  BY <1>1 DEF ClaimFails
<1>2. CASE BackoffPasses(w)
  BY <1>2 DEF BackoffPasses
<1>3. CASE Crash(w)
  BY <1>3 DEF Crash
<1> QED
  BY <1>1, <1>2, <1>3

\* Only a queued row needs the worker to be free; any other is its one row.
LEMMA StageType ==
  ASSUME OutboxTypeOK, NEW w \in Workers, NEW r \in Rows, NEW x \in Stages,
         stage' = [stage EXCEPT ![w][r] = x],
         Startable(w, r) \/ stage[w][r] \notin {"none", "queued"}
  PROVE  /\ stage' \in [Workers -> [Rows -> Stages]]
         /\ \A v \in Workers, p, q \in Rows :
              p # q => stage'[v][p] \in {"none", "queued"} \/ stage'[v][q] \in {"none", "queued"}
BY DEF OutboxTypeOK, Startable

LEMMA FaultType ==
  ASSUME OutboxTypeOK, Fault \/ UNCHANGED faults
  PROVE  faults' \in 0 .. MaxFaults
BY OutboxAssumption DEF OutboxTypeOK, Fault

\* What a worker remembers keeps its type.
LEMMA MemoryType ==
  ASSUME OutboxTypeOK, NEW w \in Workers, NEW r \in Rows, NEW x, NEW y,
         Goto(w, r, x) \/ EndJob(w, r) \/ Answered(w, r, x, y) \/ AnsweredLast(w, r, y)
  PROVE  claim' \in [Workers -> [Rows -> Nat]] /\ tried' \in [Workers -> [Rows -> Nat]]
<1>1. ASSUME NEW z, Goto(w, r, z)
      PROVE  claim' \in [Workers -> [Rows -> Nat]] /\ tried' \in [Workers -> [Rows -> Nat]]
  BY <1>1 DEF OutboxTypeOK, Goto
<1>2. CASE EndJob(w, r)
  BY <1>2 DEF OutboxTypeOK, EndJob
<1> QED
  BY <1>1, <1>2 DEF Answered, AnsweredLast

LEMMA TypeDispatch ==
  ASSUME OutboxTypeOK, NEW w \in Workers, NEW r \in Rows, Dispatch(w, r) \/ StatementFails(w, r)
  PROVE  OutboxTypeOK'
<1> USE OutboxAssumption
<1>1. /\ \E x \in Stages : stage' = [stage EXCEPT ![w][r] = x]
      /\ Startable(w, r) \/ stage[w][r] \notin {"none", "queued"}
  <2> USE DEF Goto, Answered, AnsweredLast, EndJob, Stages
  <2>1. CASE SkipTopic(w, r)
    BY <2>1 DEF SkipTopic
  <2>2. CASE RejectOrphan(w, r)
    BY <2>2 DEF RejectOrphan
  <2>3. CASE FindDelivery(w, r)
    BY <2>3 DEF FindDelivery
  <2>4. CASE MarkProcessed(w, r)
    BY <2>4 DEF MarkProcessed
  <2>5. CASE BeginDelivery(w, r)
    BY <2>5 DEF BeginDelivery
  <2>6. CASE SmtpAccepts(w, r)
    BY <2>6 DEF SmtpAccepts
  <2>7. CASE SmtpRefuses(w, r)
    BY <2>7 DEF SmtpRefuses
  <2>8. CASE RecordSent(w, r)
    BY <2>8 DEF RecordSent
  <2>9. CASE RecordFailure(w, r)
    BY <2>9 DEF RecordFailure
  <2>10. CASE MarkFailure(w, r)
    BY <2>10 DEF MarkFailure
  <2>11. CASE StatementFails(w, r)
    BY <2>11 DEF StatementFails
  <2> QED
    BY <2>1, <2>2, <2>3, <2>4, <2>5, <2>6, <2>7, <2>8, <2>9, <2>10, <2>11 DEF Dispatch
<1>2. /\ stage' \in [Workers -> [Rows -> Stages]]
      /\ \A v \in Workers, p, q \in Rows :
           p # q => stage'[v][p] \in {"none", "queued"} \/ stage'[v][q] \in {"none", "queued"}
  BY <1>1, StageType
<1>3. /\ claim' \in [Workers -> [Rows -> Nat]] /\ tried' \in [Workers -> [Rows -> Nat]]
      /\ faults' \in 0 .. MaxFaults
  <2>1. CASE SkipTopic(w, r)
    BY <2>1, MemoryType, FaultType DEF SkipTopic
  <2>2. CASE RejectOrphan(w, r)
    BY <2>2, MemoryType, FaultType DEF RejectOrphan
  <2>3. CASE FindDelivery(w, r)
    BY <2>3, MemoryType, FaultType DEF FindDelivery, Answered, AnsweredLast
  <2>4. CASE MarkProcessed(w, r)
    BY <2>4, MemoryType, FaultType DEF MarkProcessed, Answered, AnsweredLast
  <2>5. CASE BeginDelivery(w, r)
    <3>1. CASE Goto(w, r, "thrown")
      BY <2>5, <3>1, MemoryType, FaultType DEF BeginDelivery
    <3>2. CASE tried' = [tried EXCEPT ![w][r] = tries[r] + 1] /\ UNCHANGED <<claim, faults>>
      BY <3>2 DEF OutboxTypeOK
    <3> QED
      BY <2>5, <3>1, <3>2 DEF BeginDelivery
  <2>6. CASE SmtpAccepts(w, r)
    BY <2>6, MemoryType, FaultType DEF SmtpAccepts, Answered, AnsweredLast
  <2>7. CASE SmtpRefuses(w, r)
    BY <2>7, MemoryType, FaultType DEF SmtpRefuses
  <2>8. CASE RecordSent(w, r)
    BY <2>8, MemoryType, FaultType DEF RecordSent, Answered, AnsweredLast
  <2>9. CASE RecordFailure(w, r)
    BY <2>9, MemoryType, FaultType DEF RecordFailure
  <2>10. CASE MarkFailure(w, r)
    BY <2>10, MemoryType, FaultType DEF MarkFailure
  <2>11. CASE StatementFails(w, r)
    BY <2>11, MemoryType, FaultType DEF StatementFails
  <2> QED
    BY <2>1, <2>2, <2>3, <2>4, <2>5, <2>6, <2>7, <2>8, <2>9, <2>10, <2>11 DEF Dispatch
<1>4. /\ status' \in [Rows -> RowStatus] /\ attempts' \in [Rows -> Nat] /\ ready' \in SUBSET Rows
      /\ delivery' \in [Rows -> DeliveryStatus] /\ tries' \in [Rows -> Nat]
      /\ waiting' \in SUBSET Workers /\ emails' \in [Rows -> Nat]
  <2> USE DEF OutboxTypeOK, RowStatus, DeliveryStatus, Closed, rowVars, deliveryVars
  <2>1. CASE SkipTopic(w, r)
    BY <2>1 DEF SkipTopic
  <2>2. CASE RejectOrphan(w, r)
    BY <2>2 DEF RejectOrphan
  <2>3. CASE FindDelivery(w, r)
    BY <2>3 DEF FindDelivery
  <2>4. CASE MarkProcessed(w, r)
    BY <2>4 DEF MarkProcessed
  <2>5. CASE BeginDelivery(w, r)
    BY <2>5 DEF BeginDelivery
  <2>6. CASE SmtpAccepts(w, r)
    BY <2>6 DEF SmtpAccepts
  <2>7. CASE SmtpRefuses(w, r)
    BY <2>7 DEF SmtpRefuses
  <2>8. CASE RecordSent(w, r)
    BY <2>8 DEF RecordSent
  <2>9. CASE RecordFailure(w, r)
    BY <2>9 DEF RecordFailure
  <2>10. CASE MarkFailure(w, r)
    BY <2>10 DEF MarkFailure
  <2>11. CASE StatementFails(w, r)
    BY <2>11 DEF StatementFails
  <2> QED
    BY <2>1, <2>2, <2>3, <2>4, <2>5, <2>6, <2>7, <2>8, <2>9, <2>10, <2>11 DEF Dispatch
<1> QED
  BY <1>2, <1>3, <1>4 DEF OutboxTypeOK

LEMMA TypeStep == OutboxTypeOK /\ [Next]_vars => OutboxTypeOK'
<1> SUFFICES ASSUME OutboxTypeOK, [Next]_vars
             PROVE  OutboxTypeOK'
  OBVIOUS
<1>1. CASE UNCHANGED vars
  BY <1>1 DEF OutboxTypeOK, vars, rowVars, deliveryVars, workerVars
<1>2. CASE Next
  BY <1>2, TypeEnvironment, TypeClaim, TypeWorker, TypeDispatch DEF Next
<1> QED
  BY <1>1, <1>2

\* Every reachable state of the outbox is well typed, and no worker is in the
\* middle of two rows.
THEOREM OutboxTypeCorrect == Spec => []OutboxTypeOK
<1>1. Init => OutboxTypeOK
  BY InitType
<1>2. OutboxTypeOK /\ [Next]_vars => OutboxTypeOK'
  BY TypeStep
<1> QED
  BY <1>1, <1>2, PTL DEF Spec

(***************************************************************************)
(* The shape of a step of a dispatch.                                      *)
(***************************************************************************)
\* It concerns one job, of one worker with one row.
OneJob(w, r, x) ==
  /\ stage[w][r] # "none"
  /\ stage' = [stage EXCEPT ![w][r] = x]
  /\ claim' = IF x = "none" THEN [claim EXCEPT ![w][r] = 0] ELSE claim
  /\ attempts' = attempts
  /\ \A q \in Rows \ {r} :
       /\ status'[q] = status[q]
       /\ q \in ready' <=> q \in ready
       /\ delivery'[q] = delivery[q]
       /\ tries'[q] = tries[q]
       /\ emails'[q] = emails[q]

SameRow(r) == status'[r] = status[r] /\ (r \in ready' <=> r \in ready)

GoesOn(w, r, x) ==
  /\ stage[w][r] \in Unsent
  /\ x \in Unsent \cup {"seen"}
  /\ SameRow(r) /\ emails'[r] = emails[r] /\ faults' = faults

Errs(w, r, x) ==
  /\ x \in Unsent
  /\ SameRow(r) /\ emails'[r] = emails[r] /\ faults' = faults + 1

Sends(w, r, x) ==
  /\ stage[w][r] \in Unsent
  /\ SameRow(r) /\ emails'[r] = emails[r] + 1
  /\ \/ x = "accepted" /\ faults' = faults
     \/ x \in Unsent /\ faults' = faults + 1

Closes(w, r, x) ==
  /\ stage[w][r] \notin Unsent
  /\ status'[r] = "PROCESSED" /\ emails'[r] = emails[r]
  /\ \/ x = "none" /\ faults' = faults
     \/ x \in Unsent /\ faults' = faults + 1

Returns(w, r, x) ==
  /\ stage[w][r] \in Unsent
  /\ x = "none"
  /\ status'[r] = IF Exhausted(claim[w][r]) THEN "DEAD" ELSE "PENDING"
  /\ emails'[r] = emails[r] /\ faults' = faults

Forgets(w, r, x) ==
  /\ stage[w][r] \in Unsent
  /\ x = "none"
  /\ SameRow(r) /\ emails'[r] = emails[r] /\ faults' = faults + 1

Shape(w, r, x) ==
  /\ OneJob(w, r, x)
  /\ \/ GoesOn(w, r, x) \/ Errs(w, r, x) \/ Sends(w, r, x)
     \/ Closes(w, r, x) \/ Returns(w, r, x) \/ Forgets(w, r, x)

LEMMA DispatchShape ==
  ASSUME OutboxTypeOK, NEW w \in Workers, NEW r \in Rows, Dispatch(w, r) \/ StatementFails(w, r)
  PROVE  \E x \in Stages : Shape(w, r, x)
<1> USE DEF OutboxTypeOK, Shape, OneJob, SameRow, Goto, EndJob, Fault, Startable,
            rowVars, deliveryVars, Unsent, Stages
<1>1. CASE SkipTopic(w, r)
  BY <1>1 DEF SkipTopic, GoesOn
<1>2. CASE RejectOrphan(w, r)
  BY <1>2 DEF RejectOrphan, GoesOn
<1>3. CASE FindDelivery(w, r)
  BY <1>3 DEF FindDelivery, GoesOn, Errs, Answered
<1>4. CASE MarkProcessed(w, r)
  BY <1>4 DEF MarkProcessed, Closes, AnsweredLast
<1>5. CASE BeginDelivery(w, r)
  BY <1>5 DEF BeginDelivery, GoesOn, Errs
<1>6. CASE SmtpAccepts(w, r)
  BY <1>6 DEF SmtpAccepts, Sends, Answered
<1>7. CASE SmtpRefuses(w, r)
  BY <1>7 DEF SmtpRefuses, GoesOn
<1>8. CASE RecordSent(w, r)
  BY <1>8 DEF RecordSent, Closes, AnsweredLast
<1>9. CASE RecordFailure(w, r)
  BY <1>9 DEF RecordFailure, GoesOn
<1>10. CASE MarkFailure(w, r)
  BY <1>10 DEF MarkFailure, Returns
<1>11. CASE StatementFails(w, r)
  BY <1>11 DEF StatementFails, Errs, Forgets
<1> QED
  BY <1>1, <1>2, <1>3, <1>4, <1>5, <1>6, <1>7, <1>8, <1>9, <1>10, <1>11 DEF Dispatch

\* How a dispatch step changes who may still send, and whose failure returns
\* the row; nothing changes for the other rows.
LEMMA SendersAfter ==
  ASSUME OutboxTypeOK, NEW w \in Workers, NEW r \in Rows, NEW x \in Stages, OneJob(w, r, x)
  PROVE  /\ Senders(r)' = IF x \in Unsent THEN Senders(r) \cup {w} ELSE Senders(r) \ {w}
         /\ Retriers(r)' = IF x \in Unsent /\ ~Exhausted(claim[w][r])
                             THEN Retriers(r) \cup {w} ELSE Retriers(r) \ {w}
         /\ \A q \in Rows \ {r} : Senders(q)' = Senders(q) /\ Retriers(q)' = Retriers(q)
<1> USE DEF OutboxTypeOK
<1>1. \A v \in Workers, q \in Rows : v # w \/ q # r => stage'[v][q] = stage[v][q] /\ claim'[v][q] = claim[v][q]
  BY DEF OneJob
<1>2. stage'[w][r] = x /\ (x # "none" => claim'[w][r] = claim[w][r])
  BY DEF OneJob
<1>3. /\ Senders(r)' = IF x \in Unsent THEN Senders(r) \cup {w} ELSE Senders(r) \ {w}
      /\ \A q \in Rows \ {r} : Senders(q)' = Senders(q)
  BY <1>1, <1>2 DEF Senders
<1>4. \A q \in Rows \ {r} : Retriers(q)' = Retriers(q)
  BY <1>1, <1>3 DEF Retriers, Senders, Exhausted
<1>5. Retriers(r)' = IF x \in Unsent /\ ~Exhausted(claim[w][r])
                       THEN Retriers(r) \cup {w} ELSE Retriers(r) \ {w}
  <2>1. \A v \in Workers \ {w} : v \in Retriers(r)' <=> v \in Retriers(r)
    BY <1>1 DEF Retriers, Senders, Exhausted
  <2>2. w \in Retriers(r)' <=> x \in Unsent /\ ~Exhausted(claim[w][r])
    BY <1>2 DEF Retriers, Senders, Exhausted, Unsent
  <2>3. Retriers(r) \subseteq Workers /\ Retriers(r)' \subseteq Workers
    BY DEF Retriers, Senders
  <2> QED
    BY <2>1, <2>2, <2>3
<1> QED
  BY <1>3, <1>4, <1>5

\* A row that somebody is busy with stays in hand until that job ends.
LEMMA AgainAfter ==
  ASSUME OutboxTypeOK, NEW w \in Workers, NEW r \in Rows, NEW x \in Stages, OneJob(w, r, x)
  PROVE  /\ \A q \in Rows \ {r} : Again(q)' = Again(q)
         /\ x # "none" /\ SameRow(r) => Again(r)' = Again(r)
<1> USE DEF OutboxTypeOK
<1>1. \A v \in Workers, q \in Rows : v # w \/ q # r => stage'[v][q] = stage[v][q] /\ claim'[v][q] = claim[v][q]
  BY DEF OneJob
<1>2. stage[w][r] # "none" /\ stage'[w][r] = x /\ (x # "none" => claim'[w][r] = claim[w][r])
  BY DEF OneJob
<1>3. \A q \in Rows \ {r} : InHand(q)' <=> InHand(q)
  BY <1>1 DEF InHand, OneJob
<1>4. x # "none" /\ SameRow(r) => (InHand(r)' <=> InHand(r))
  <2> SUFFICES ASSUME x # "none", SameRow(r)
               PROVE  InHand(r)' <=> InHand(r)
    OBVIOUS
  <2>1. \A v \in Workers : /\ stage'[v][r] # "none" <=> stage[v][r] # "none"
                           /\ claim'[v][r] = claim[v][r]
    BY <1>1, <1>2
  <2> QED
    BY <2>1 DEF InHand, SameRow, OneJob
<1> QED
  BY <1>3, <1>4 DEF Again, Returned, SameRow, OneJob

LEMMA CountType ==
  \A r \in Rows : /\ Cardinality(Senders(r)) \in Nat /\ Cardinality(Retriers(r)) \in Nat
                  /\ Cardinality(Retriers(r)) <= Cardinality(Senders(r))
<1> TAKE r \in Rows
<1>1. Senders(r) \in SUBSET Workers /\ Retriers(r) \in SUBSET Senders(r)
  BY DEF Senders, Retriers
<1> QED
  BY <1>1, CountSubset

LEMMA AgainType == \A r \in Rows : Again(r) \in {0, 1} /\ Again(r)' \in {0, 1}
BY DEF Again

LEMMA EmailBudgetDispatch ==
  ASSUME OutboxTypeOK, OutboxTypeOK', EmailBudget, ClaimInv, NEW w \in Workers, NEW r \in Rows,
         NEW x \in Stages, Shape(w, r, x)
  PROVE  EmailBudget'
<1> USE DEF OutboxTypeOK
<1>1. OneJob(w, r, x) /\ status[r] # "NONE"
  BY DEF Shape, OneJob, ClaimInv
<1>2. ASSUME NEW q \in Rows \ {r}
      PROVE  /\ emails'[q] + Cardinality(Senders(q)') + Again(q)' <= 1 + faults'
             /\ status'[q] = "NONE" => emails'[q] = 0 /\ attempts'[q] = 0
  <2>1. Senders(q)' = Senders(q) /\ Again(q)' = Again(q)
    BY <1>1, SendersAfter, AgainAfter
  <2>2. faults' >= faults
    BY DEF Shape, GoesOn, Errs, Sends, Closes, Returns, Forgets
  <2>3. emails'[q] = emails[q] /\ status'[q] = status[q] /\ attempts'[q] = attempts[q]
    BY <1>1 DEF OneJob
  <2>4. Cardinality(Senders(q)) \in Nat /\ Again(q) \in {0, 1}
    BY CountOne, AgainType DEF Senders
  <2>5. emails[q] + Cardinality(Senders(q)) + Again(q) <= 1 + faults
    BY DEF EmailBudget
  <2> QED
    BY <2>1, <2>2, <2>3, <2>4, <2>5 DEF EmailBudget
<1>3. emails'[r] + Cardinality(Senders(r)') + Again(r)' <= 1 + faults'
  <2>1. PICK C \in Nat, D \in Nat :
          /\ C = Cardinality(Senders(r)) /\ D = Cardinality(Senders(r)')
          /\ x \in Unsent => D <= C + 1
          /\ x \notin Unsent => D <= C
          /\ stage[w][r] \in Unsent /\ x \in Unsent => D = C
          /\ stage[w][r] \in Unsent /\ x \notin Unsent => D = C - 1
    <3>1. Senders(r)' = IF x \in Unsent THEN Senders(r) \cup {w} ELSE Senders(r) \ {w}
      BY <1>1, SendersAfter
    <3>2. Senders(r) \in SUBSET Workers
      BY DEF Senders
    <3>3. stage[w][r] \in Unsent <=> w \in Senders(r)
      BY DEF Senders
    <3>4. w \in Senders(r) => Senders(r) \cup {w} = Senders(r)
      OBVIOUS
    <3> QED
      BY <3>1, <3>2, <3>3, <3>4, CountOne
  <2>2. PICK A \in {0, 1}, B \in {0, 1} : A = Again(r) /\ B = Again(r)'
    BY AgainType
  <2>3. x # "none" /\ SameRow(r) => B = A
    BY <1>1, <2>2, AgainAfter
  <2>4. Closes(w, r, x) => B = 0
    BY <2>2 DEF Closes, Again, Returned
  <2>5. emails[r] + C + A <= 1 + faults
    BY <2>1, <2>2 DEF EmailBudget
  <2>6. emails[r] \in Nat /\ faults \in Nat
    BY OutboxAssumption
  <2>7. emails'[r] + D + B <= 1 + faults'
    <3>1. CASE GoesOn(w, r, x)
      BY <3>1, <2>1, <2>3, <2>5, <2>6 DEF GoesOn, Unsent
    <3>2. CASE Errs(w, r, x)
      BY <3>2, <2>1, <2>3, <2>5, <2>6 DEF Errs, Unsent
    <3>3. CASE Sends(w, r, x)
      BY <3>3, <2>1, <2>3, <2>5, <2>6 DEF Sends, Unsent
    <3>4. CASE Closes(w, r, x)
      BY <3>4, <2>1, <2>4, <2>5, <2>6 DEF Closes, Unsent
    <3>5. CASE Returns(w, r, x)
      BY <3>5, <2>1, <2>5, <2>6 DEF Returns, Unsent
    <3>6. CASE Forgets(w, r, x)
      BY <3>6, <2>1, <2>5, <2>6 DEF Forgets, Unsent
    <3> QED
      BY <3>1, <3>2, <3>3, <3>4, <3>5, <3>6 DEF Shape
  <2> QED
    BY <2>1, <2>2, <2>7
<1>4. status'[r] # "NONE"
  BY <1>1 DEF Shape, GoesOn, Errs, Sends, Closes, Returns, Forgets, SameRow
<1>5. ASSUME NEW q \in Rows
      PROVE  /\ emails'[q] + Cardinality(Senders(q)') + Again(q)' <= 1 + faults'
             /\ status'[q] = "NONE" => emails'[q] = 0 /\ attempts'[q] = 0
  BY <1>2, <1>3, <1>4
<1> QED
  BY <1>5 DEF EmailBudget

LEMMA RetryBudgetDispatch ==
  ASSUME OutboxTypeOK, OutboxTypeOK', RetryBudget, NEW w \in Workers, NEW r \in Rows,
         NEW x \in Stages, Shape(w, r, x)
  PROVE  RetryBudget'
<1> USE DEF OutboxTypeOK
<1>1. OneJob(w, r, x) /\ attempts' = attempts
  BY DEF Shape, OneJob
<1>2. ASSUME NEW q \in Rows \ {r}, Exhausted(attempts'[q])
      PROVE  attempts'[q] + Cardinality(Retriers(q)') + Again(q)' <= MaxAttempts + faults'
  <2>1. Retriers(q)' = Retriers(q) /\ Again(q)' = Again(q)
    BY <1>1, SendersAfter, AgainAfter
  <2>2. faults' >= faults
    BY DEF Shape, GoesOn, Errs, Sends, Closes, Returns, Forgets
  <2>3. Cardinality(Retriers(q)) \in Nat /\ Again(q) \in {0, 1}
    BY CountOne, AgainType DEF Retriers, Senders
  <2>4. attempts[q] + Cardinality(Retriers(q)) + Again(q) <= MaxAttempts + faults
    BY <1>1, <1>2 DEF RetryBudget
  <2> QED
    BY <1>1, <2>1, <2>2, <2>3, <2>4, OutboxAssumption
<1>3. ASSUME Exhausted(attempts'[r])
      PROVE  attempts'[r] + Cardinality(Retriers(r)') + Again(r)' <= MaxAttempts + faults'
  <2>1. PICK C \in Nat, D \in Nat :
          /\ C = Cardinality(Retriers(r)) /\ D = Cardinality(Retriers(r)')
          /\ D <= C + 1
          /\ x \notin Unsent => D <= C
          /\ stage[w][r] \in Unsent => D <= C
          /\ stage[w][r] \in Unsent /\ x \notin Unsent /\ ~Exhausted(claim[w][r]) => D = C - 1
    <3>1. Retriers(r)' = IF x \in Unsent /\ ~Exhausted(claim[w][r])
                           THEN Retriers(r) \cup {w} ELSE Retriers(r) \ {w}
      BY <1>1, SendersAfter
    <3>2. Retriers(r) \in SUBSET Workers
      BY DEF Retriers, Senders
    <3>3. stage[w][r] \in Unsent /\ ~Exhausted(claim[w][r]) <=> w \in Retriers(r)
      BY DEF Retriers, Senders
    <3>4. w \in Retriers(r) => Retriers(r) \cup {w} = Retriers(r)
      OBVIOUS
    <3>5. /\ Cardinality(Retriers(r)) \in Nat /\ Cardinality(Retriers(r)') \in Nat
          /\ Cardinality(Retriers(r)') <= Cardinality(Retriers(r)) + 1
          /\ x \notin Unsent => Cardinality(Retriers(r)') <= Cardinality(Retriers(r))
      <4>1. CASE x \in Unsent /\ ~Exhausted(claim[w][r])
        <5>1. Retriers(r)' = Retriers(r) \cup {w}
          BY <4>1, <3>1
        <5> QED
          BY <4>1, <5>1, <3>2, CountOne
      <4>2. CASE ~(x \in Unsent /\ ~Exhausted(claim[w][r]))
        <5>1. Retriers(r)' = Retriers(r) \ {w}
          BY <4>2, <3>1
        <5>2. /\ Cardinality(Retriers(r)) \in Nat /\ Cardinality(Retriers(r) \ {w}) \in Nat
              /\ Cardinality(Retriers(r) \ {w}) <= Cardinality(Retriers(r))
          BY <3>2, CountOne
        <5> QED
          BY <5>1, <5>2
      <4> QED
        BY <4>1, <4>2
    <3>6. stage[w][r] \in Unsent => Cardinality(Retriers(r)') <= Cardinality(Retriers(r))
      <4>1. stage[w][r] \in Unsent => Retriers(r)' \subseteq Retriers(r)
        BY <3>1, <3>3
      <4> QED
        BY <4>1, <3>2, CountSubset
    <3>7. stage[w][r] \in Unsent /\ x \notin Unsent /\ ~Exhausted(claim[w][r])
            => Cardinality(Retriers(r)') = Cardinality(Retriers(r)) - 1
      <4> SUFFICES ASSUME stage[w][r] \in Unsent, x \notin Unsent, ~Exhausted(claim[w][r])
                   PROVE  Cardinality(Retriers(r)') = Cardinality(Retriers(r)) - 1
        OBVIOUS
      <4>1. w \in Retriers(r) /\ Retriers(r)' = Retriers(r) \ {w}
        BY <3>1, <3>3
      <4> QED
        BY <4>1, <3>2, CountOne
    <3> QED
      BY <3>5, <3>6, <3>7
  <2>2. PICK A \in {0, 1}, B \in {0, 1} : A = Again(r) /\ B = Again(r)'
    BY AgainType
  <2>3. x # "none" /\ SameRow(r) => B = A
    BY <1>1, <2>2, AgainAfter
  <2>4. Closes(w, r, x) \/ (Returns(w, r, x) /\ Exhausted(claim[w][r])) => B = 0
    BY <2>2 DEF Closes, Returns, Again, Returned
  <2>5. attempts[r] + C + A <= MaxAttempts + faults
    BY <1>1, <1>3, <2>1, <2>2 DEF RetryBudget
  <2>6. attempts[r] \in Nat /\ faults \in Nat /\ MaxAttempts \in Nat
    BY OutboxAssumption
  <2>7. attempts[r] + D + B <= MaxAttempts + faults'
    <3>1. CASE GoesOn(w, r, x)
      BY <3>1, <2>1, <2>3, <2>5, <2>6 DEF GoesOn, Unsent
    <3>2. CASE Errs(w, r, x)
      BY <3>2, <2>1, <2>3, <2>5, <2>6 DEF Errs, Unsent
    <3>3. CASE Sends(w, r, x)
      BY <3>3, <2>1, <2>3, <2>5, <2>6 DEF Sends, Unsent
    <3>4. CASE Closes(w, r, x)
      BY <3>4, <2>1, <2>4, <2>5, <2>6 DEF Closes, Unsent
    <3>5. CASE Returns(w, r, x)
      BY <3>5, <2>1, <2>4, <2>5, <2>6 DEF Returns, Unsent
    <3>6. CASE Forgets(w, r, x)
      BY <3>6, <2>1, <2>5, <2>6 DEF Forgets, Unsent
    <3> QED
      BY <3>1, <3>2, <3>3, <3>4, <3>5, <3>6 DEF Shape
  <2> QED
    BY <1>1, <2>1, <2>2, <2>7
<1>4. ASSUME NEW q \in Rows, Exhausted(attempts'[q])
      PROVE  attempts'[q] + Cardinality(Retriers(q)') + Again(q)' <= MaxAttempts + faults'
  BY <1>2, <1>3, <1>4
<1> QED
  BY <1>4 DEF RetryBudget, Exhausted

(***************************************************************************)
(* The other steps.                                                        *)
(***************************************************************************)
\* A step that starts and ends no job leaves the workers' counts alone.
LEMMA SameWorkers ==
  ASSUME UNCHANGED <<stage, claim>>
  PROVE  \A q \in Rows : Senders(q)' = Senders(q) /\ Retriers(q)' = Retriers(q)
BY DEF Senders, Retriers, Exhausted

LEMMA EmailBudgetEnvironment ==
  ASSUME OutboxTypeOK, OutboxTypeOK', EmailBudget, ClaimInv, NEW r \in Rows,
         Enqueue(r) \/ TimePasses(r) \/ LeaseOverruns(r)
  PROVE  EmailBudget'
<1> USE DEF OutboxTypeOK
<1>1. /\ \A q \in Rows : Senders(q)' = Senders(q)
      /\ emails' = emails /\ attempts' = attempts /\ faults' >= faults
  BY SameWorkers DEF Enqueue, TimePasses, LeaseOverruns, Fault, workerVars
<1>2. \A q \in Rows : Cardinality(Senders(q)) \in Nat /\ Again(q) \in {0, 1} /\ Again(q)' \in {0, 1}
  BY CountType, AgainType
<1>3. \A q \in Rows : status[q] = "NONE" => Senders(q) = {}
  BY DEF ClaimInv, Senders, Unsent
<1>4. Cardinality({}) = 0
  BY FS_EmptySet
<1>5. ASSUME NEW q \in Rows
      PROVE  /\ status'[q] = "NONE" => status[q] = "NONE"
             /\ \/ Again(q)' <= Again(q)
                \/ faults' = faults + 1
                \/ status[q] = "NONE"
  <2>1. CASE Enqueue(r)
    BY <2>1 DEF Enqueue, Again, Returned, InHand, workerVars
  <2>2. CASE TimePasses(r)
    BY <2>2 DEF TimePasses, Again, Returned, InHand, workerVars
  <2>3. CASE LeaseOverruns(r)
    BY <2>3, <1>2 DEF LeaseOverruns, Fault
  <2> QED
    BY <2>1, <2>2, <2>3
<1>6. ASSUME NEW q \in Rows
      PROVE  /\ emails'[q] + Cardinality(Senders(q)') + Again(q)' <= 1 + faults'
             /\ status'[q] = "NONE" => emails'[q] = 0 /\ attempts'[q] = 0
  <2>1. PICK C \in Nat, A \in {0, 1}, B \in {0, 1} :
          /\ C = Cardinality(Senders(q)) /\ C = Cardinality(Senders(q)')
          /\ A = Again(q) /\ B = Again(q)'
    BY <1>1, <1>2
  <2>2. /\ emails[q] + C + A <= 1 + faults
        /\ status[q] = "NONE" => emails[q] = 0 /\ attempts[q] = 0 /\ C = 0
    BY <2>1, <1>3, <1>4 DEF EmailBudget
  <2>3. B <= A \/ faults' = faults + 1 \/ status[q] = "NONE"
    BY <2>1, <1>5
  <2>4. emails[q] \in Nat /\ faults \in Nat /\ faults' \in Nat
    BY OutboxAssumption
  <2>5. emails[q] + C + B <= 1 + faults'
    BY <2>2, <2>3, <2>4, <1>1
  <2> QED
    BY <2>1, <2>2, <2>5, <1>1, <1>5
<1> QED
  BY <1>6 DEF EmailBudget

LEMMA RetryBudgetEnvironment ==
  ASSUME OutboxTypeOK, OutboxTypeOK', EmailBudget, RetryBudget, NEW r \in Rows,
         Enqueue(r) \/ TimePasses(r) \/ LeaseOverruns(r)
  PROVE  RetryBudget'
<1> USE DEF OutboxTypeOK
<1>1. /\ \A q \in Rows : Retriers(q)' = Retriers(q)
      /\ attempts' = attempts /\ faults' >= faults
  BY SameWorkers DEF Enqueue, TimePasses, LeaseOverruns, Fault, workerVars
<1>2. \A q \in Rows : Cardinality(Retriers(q)) \in Nat /\ Again(q) \in {0, 1} /\ Again(q)' \in {0, 1}
  BY CountType, AgainType
<1>3. \A q \in Rows : status[q] = "NONE" => ~Exhausted(attempts[q])
  BY OutboxAssumption DEF EmailBudget, Exhausted
<1>4. ASSUME NEW q \in Rows
      PROVE  \/ Again(q)' <= Again(q)
             \/ faults' = faults + 1
             \/ status[q] = "NONE"
  <2>1. CASE Enqueue(r)
    BY <2>1 DEF Enqueue, Again, Returned, InHand, workerVars
  <2>2. CASE TimePasses(r)
    BY <2>2 DEF TimePasses, Again, Returned, InHand, workerVars
  <2>3. CASE LeaseOverruns(r)
    BY <2>3 DEF LeaseOverruns, Fault
  <2> QED
    BY <2>1, <2>2, <2>3
<1>5. ASSUME NEW q \in Rows, Exhausted(attempts'[q])
      PROVE  attempts'[q] + Cardinality(Retriers(q)') + Again(q)' <= MaxAttempts + faults'
  <2>1. attempts[q] + Cardinality(Retriers(q)) + Again(q) <= MaxAttempts + faults
    BY <1>1, <1>5 DEF RetryBudget
  <2>2. Again(q)' <= Again(q) \/ faults' = faults + 1
    BY <1>1, <1>3, <1>4, <1>5
  <2>3. PICK C \in Nat, A \in {0, 1}, B \in {0, 1} :
          /\ C = Cardinality(Retriers(q)) /\ C = Cardinality(Retriers(q)')
          /\ A = Again(q) /\ B = Again(q)'
    BY <1>1, <1>2
  <2>4. attempts[q] \in Nat /\ faults \in Nat /\ faults' \in Nat /\ MaxAttempts \in Nat
    BY OutboxAssumption
  <2>5. attempts[q] + C + B <= MaxAttempts + faults'
    BY <2>1, <2>2, <2>3, <2>4, <1>1
  <2> QED
    BY <2>3, <2>5, <1>1
<1> QED
  BY <1>5 DEF RetryBudget, Exhausted

\* What a claim of the rows S does to each row.
LEMMA ClaimAfter ==
  ASSUME OutboxTypeOK, ClaimInv, NEW w \in Workers, NEW S \in SUBSET Rows, Claim(w, S)
  PROVE  /\ \A q \in Rows \ S : /\ Senders(q)' = Senders(q) /\ Retriers(q)' = Retriers(q)
                                /\ Again(q)' = Again(q) /\ attempts'[q] = attempts[q]
         /\ \A q \in S : /\ Senders(q)' = Senders(q) \cup {w}
                         /\ Retriers(q)' \subseteq Retriers(q) \cup {w}
                         /\ Exhausted(attempts[q] + 1) => Retriers(q)' \subseteq Retriers(q)
                         /\ Again(q)' = 0 /\ Again(q) = 1
                         /\ attempts'[q] = attempts[q] + 1
<1> USE DEF OutboxTypeOK
<1>1. /\ \A v \in Workers \ {w}, q \in Rows : stage'[v][q] = stage[v][q] /\ claim'[v][q] = claim[v][q]
      /\ \A q \in Rows : stage[w][q] = "none"
      /\ \A q \in Rows \ S : /\ stage'[w][q] = "none"
                             /\ status'[q] = status[q] /\ attempts'[q] = attempts[q]
                             /\ q \in ready' <=> q \in ready
      /\ \A q \in S : /\ stage'[w][q] = "queued" /\ claim'[w][q] = attempts[q] + 1
                      /\ status'[q] = "PROCESSING" /\ attempts'[q] = attempts[q] + 1
                      /\ q \notin ready' /\ Claimable(q)
  BY DEF Claim, Candidates, TakeRows, Idle
<1>2. ASSUME NEW q \in Rows \ S
      PROVE  /\ Senders(q)' = Senders(q) /\ Retriers(q)' = Retriers(q)
             /\ Again(q)' = Again(q) /\ attempts'[q] = attempts[q]
  <2>1. \A v \in Workers : /\ stage'[v][q] = stage[v][q]
                           /\ stage[v][q] # "none" => claim'[v][q] = claim[v][q]
    <3> TAKE v \in Workers
    <3>1. CASE v = w
      BY <3>1, <1>1
    <3>2. CASE v # w
      BY <3>2, <1>1
    <3> QED
      BY <3>1, <3>2
  <2>2. Senders(q)' = Senders(q)
    BY <2>1 DEF Senders
  <2>3. Retriers(q)' = Retriers(q)
    BY <2>1, <2>2 DEF Retriers, Exhausted, Senders, Unsent
  <2>4. status'[q] = status[q] /\ attempts'[q] = attempts[q] /\ (q \in ready' <=> q \in ready)
    BY <1>1
  <2>5. InHand(q)' <=> InHand(q)
    BY <2>1, <2>4 DEF InHand
  <2> QED
    BY <2>2, <2>3, <2>4, <2>5 DEF Again, Returned
<1>3. ASSUME NEW q \in S
      PROVE  /\ Senders(q)' = Senders(q) \cup {w}
             /\ Retriers(q)' \subseteq Retriers(q) \cup {w}
             /\ Exhausted(attempts[q] + 1) => Retriers(q)' \subseteq Retriers(q)
             /\ Again(q)' = 0 /\ Again(q) = 1
             /\ attempts'[q] = attempts[q] + 1
  <2>1. Senders(q)' = Senders(q) \cup {w}
    BY <1>1 DEF Senders, Unsent
  <2>2. \A v \in Workers \ {w} : v \in Retriers(q)' => v \in Retriers(q)
    BY <1>1 DEF Retriers, Exhausted, Senders
  <2>3. Exhausted(attempts[q] + 1) => w \notin Retriers(q)'
    BY <1>1 DEF Retriers, Exhausted
  <2>4. Retriers(q)' \subseteq Workers
    BY DEF Retriers, Senders
  <2>5. InHand(q)'
    <3>1. status'[q] = "PROCESSING" /\ stage'[w][q] = "queued" /\ claim'[w][q] = attempts'[q]
      BY <1>1
    <3> HIDE DEF OutboxTypeOK
    <3> QED
      BY <3>1 DEF InHand
  <2>6. Again(q)' = 0
    BY <1>1, <2>5 DEF Again, Returned
  <2>7. Again(q) = 1
    BY <1>1 DEF Again, Returned, Claimable
  <2> QED
    BY <1>1, <2>1, <2>2, <2>3, <2>4, <2>6, <2>7
<1> QED
  BY <1>2, <1>3

LEMMA BudgetsClaim ==
  ASSUME OutboxTypeOK, OutboxTypeOK', EmailBudget, RetryBudget, ClaimInv,
         NEW w \in Workers, NEW S \in SUBSET Rows, Claim(w, S)
  PROVE  EmailBudget' /\ RetryBudget'
<1> USE DEF OutboxTypeOK
<1>1. emails' = emails /\ faults' = faults
  BY DEF Claim
<1>2. \A q \in Rows : status'[q] = "NONE" => status[q] = "NONE" /\ q \notin S
  BY DEF Claim, TakeRows
<1> DEFINE Taken(q) == /\ Senders(q)' = Senders(q) \cup {w}
                       /\ Exhausted(attempts[q] + 1) => Retriers(q)' \subseteq Retriers(q)
                       /\ Again(q)' = 0 /\ Again(q) = 1
                       /\ attempts'[q] = attempts[q] + 1
<1>4. \A q \in S : Taken(q)
  BY ClaimAfter
<1>3. ASSUME NEW q \in Rows
      PROVE  /\ emails'[q] + Cardinality(Senders(q)') + Again(q)' <= 1 + faults'
             /\ status'[q] = "NONE" => emails'[q] = 0 /\ attempts'[q] = 0
             /\ Exhausted(attempts'[q]) =>
                  attempts'[q] + Cardinality(Retriers(q)') + Again(q)' <= MaxAttempts + faults'
  <2>1. CASE q \notin S
    BY <2>1, <1>1, <1>2, ClaimAfter DEF EmailBudget, RetryBudget
  <2>2. CASE q \in S
    <3>1. /\ Senders(q)' = Senders(q) \cup {w}
          /\ Exhausted(attempts[q] + 1) => Retriers(q)' \subseteq Retriers(q)
          /\ Again(q)' = 0 /\ Again(q) = 1
          /\ attempts'[q] = attempts[q] + 1
      BY <2>2, <1>4
    <3>2. PICK C \in Nat, D \in Nat :
            /\ C = Cardinality(Senders(q)) /\ D = Cardinality(Senders(q)')
            /\ D <= C + 1
      <4>1. Senders(q) \in SUBSET Workers
        BY DEF Senders
      <4>2. /\ Cardinality(Senders(q)) \in Nat /\ Cardinality(Senders(q) \cup {w}) \in Nat
            /\ Cardinality(Senders(q) \cup {w}) <= Cardinality(Senders(q)) + 1
        BY <4>1, CountOne
      <4> QED
        BY <4>2, <3>1
    <3>3. Exhausted(attempts[q] + 1) =>
            /\ Cardinality(Retriers(q)) \in Nat /\ Cardinality(Retriers(q)') \in Nat
            /\ Cardinality(Retriers(q)') <= Cardinality(Retriers(q))
            /\ Cardinality(Retriers(q)) <= C
      <4>1. Retriers(q) \in SUBSET Workers
        BY DEF Retriers, Senders
      <4> QED
        BY <3>1, <3>2, <4>1, CountSubset, CountType
    <3>4. /\ emails[q] + C + 1 <= 1 + faults
          /\ Exhausted(attempts[q]) =>
               attempts[q] + Cardinality(Retriers(q)) + 1 <= MaxAttempts + faults
      BY <3>1, <3>2 DEF EmailBudget, RetryBudget
    <3>5. emails[q] \in Nat /\ faults \in Nat /\ attempts[q] \in Nat /\ MaxAttempts \in Nat
      BY OutboxAssumption
    <3>6. emails'[q] + D + Again(q)' <= 1 + faults'
      BY <3>1, <3>2, <3>4, <3>5, <1>1
    <3>7. ASSUME Exhausted(attempts'[q])
          PROVE  attempts'[q] + Cardinality(Retriers(q)') + Again(q)' <= MaxAttempts + faults'
      <4>1. PICK R \in Nat, T \in Nat :
              /\ R = Cardinality(Retriers(q)) /\ T = Cardinality(Retriers(q)')
              /\ T <= R /\ R <= C
        BY <3>1, <3>3, <3>7
      <4>2. CASE Exhausted(attempts[q])
        <5>1. attempts[q] + R + 1 <= MaxAttempts + faults
          BY <3>4, <4>1, <4>2
        <5>2. attempts[q] + 1 + T + 0 <= MaxAttempts + faults
          BY <5>1, <4>1, <3>5
        <5> QED
          BY <5>2, <4>1, <3>1, <1>1
      <4>3. CASE ~Exhausted(attempts[q])
        <5>1. attempts[q] + 1 = MaxAttempts
          BY <3>1, <3>5, <3>7, <4>3 DEF Exhausted
        <5>2. attempts[q] + 1 + T + 0 <= MaxAttempts + faults
          BY <5>1, <4>1, <3>4, <3>5
        <5> QED
          BY <5>2, <4>1, <3>1, <1>1
      <4> QED
        BY <4>2, <4>3
    <3> QED
      BY <2>2, <3>2, <3>6, <3>7, <1>2
  <2> QED
    BY <2>1, <2>2
<1> QED
  BY <1>3 DEF EmailBudget, RetryBudget, Exhausted

LEMMA BudgetsLoseClaim ==
  ASSUME OutboxTypeOK, OutboxTypeOK', EmailBudget, RetryBudget,
         NEW w \in Workers, NEW S \in SUBSET Rows, LoseClaim(w, S)
  PROVE  EmailBudget' /\ RetryBudget'
<1> USE DEF OutboxTypeOK
<1>1. /\ emails' = emails /\ faults' = faults + 1
      /\ \A q \in Rows : Senders(q)' = Senders(q) /\ Retriers(q)' = Retriers(q)
  BY SameWorkers DEF LoseClaim, Fault, workerVars
<1>2. ASSUME NEW q \in Rows
      PROVE  /\ status'[q] = "NONE" => status[q] = "NONE" /\ q \notin S
             /\ q \notin S => attempts'[q] = attempts[q] /\ Again(q)' = Again(q)
             /\ q \in S => attempts'[q] = attempts[q] + 1 /\ Again(q) = 1
  <2>1. CASE q \in S
    BY <2>1 DEF LoseClaim, TakeRows, Candidates, Claimable, Again, Returned
  <2>2. CASE q \notin S
    <3>1. status'[q] = status[q] /\ attempts'[q] = attempts[q] /\ (q \in ready' <=> q \in ready)
      BY <2>2 DEF LoseClaim, TakeRows
    <3>2. InHand(q)' <=> InHand(q)
      BY <3>1 DEF LoseClaim, InHand, workerVars
    <3> QED
      BY <2>2, <3>1, <3>2 DEF Again, Returned
  <2> QED
    BY <2>1, <2>2
<1>3. ASSUME NEW q \in Rows
      PROVE  /\ emails'[q] + Cardinality(Senders(q)') + Again(q)' <= 1 + faults'
             /\ status'[q] = "NONE" => emails'[q] = 0 /\ attempts'[q] = 0
             /\ Exhausted(attempts'[q]) =>
                  attempts'[q] + Cardinality(Retriers(q)') + Again(q)' <= MaxAttempts + faults'
  <2>1. PICK C \in Nat, R \in Nat, A \in {0, 1}, B \in {0, 1} :
          /\ C = Cardinality(Senders(q)) /\ C = Cardinality(Senders(q)')
          /\ R = Cardinality(Retriers(q)) /\ R = Cardinality(Retriers(q)')
          /\ A = Again(q) /\ B = Again(q)' /\ R <= C
    BY <1>1, CountType, AgainType
  <2>2. /\ emails[q] + C + A <= 1 + faults
        /\ status[q] = "NONE" => emails[q] = 0 /\ attempts[q] = 0
        /\ Exhausted(attempts[q]) => attempts[q] + R + A <= MaxAttempts + faults
    BY <2>1 DEF EmailBudget, RetryBudget
  <2>3. emails[q] \in Nat /\ faults \in Nat /\ attempts[q] \in Nat /\ MaxAttempts \in Nat
    BY OutboxAssumption
  <2>4. /\ q \notin S => attempts'[q] = attempts[q] /\ B = A
        /\ q \in S => attempts'[q] = attempts[q] + 1 /\ A = 1
    BY <1>2, <2>1
  <2>5. emails[q] + C + B <= 2 + faults
    BY <2>2, <2>3, <2>4
  <2>6. Exhausted(attempts'[q]) => attempts'[q] + R + B <= MaxAttempts + faults + 1
    <3>1. CASE q \notin S
      BY <3>1, <2>2, <2>3, <2>4
    <3>2. CASE q \in S
      BY <3>2, <2>1, <2>2, <2>3, <2>4 DEF Exhausted
    <3> QED
      BY <3>1, <3>2
  <2>7. 1 + faults' = 2 + faults /\ MaxAttempts + faults' = MaxAttempts + faults + 1
    BY <1>1, <2>3
  <2> QED
    BY <1>1, <1>2, <2>1, <2>2, <2>5, <2>6, <2>7
<1> QED
  BY <1>3 DEF EmailBudget, RetryBudget, Exhausted

LEMMA BudgetsWorker ==
  ASSUME OutboxTypeOK, OutboxTypeOK', EmailBudget, RetryBudget, NEW w \in Workers,
         ClaimFails(w) \/ BackoffPasses(w) \/ Crash(w)
  PROVE  EmailBudget' /\ RetryBudget'
<1> USE DEF OutboxTypeOK
<1>1. status' = status /\ attempts' = attempts /\ ready' = ready /\ emails' = emails
  BY DEF ClaimFails, BackoffPasses, Crash, rowVars
<1>2. ASSUME NEW q \in Rows
      PROVE  /\ Senders(q)' \subseteq Senders(q) /\ Retriers(q)' \subseteq Retriers(q)
             /\ faults' = faults + 1 \/ (faults' = faults /\ Again(q)' = Again(q))
  <2>1. CASE Crash(w)
    <3>1. faults' = faults + 1
      BY <2>1 DEF Crash, Fault
    <3>2. /\ \A v \in Workers \ {w} : stage'[v][q] = stage[v][q] /\ claim'[v][q] = claim[v][q]
          /\ stage'[w][q] = "none"
      BY <2>1 DEF Crash
    <3>3. Senders(q)' \subseteq Senders(q)
      BY <3>2 DEF Senders, Unsent
    <3>4. Retriers(q)' \subseteq Retriers(q)
      BY <3>2 DEF Retriers, Senders, Unsent, Exhausted
    <3> QED
      BY <3>1, <3>3, <3>4
  <2>2. CASE ClaimFails(w) \/ BackoffPasses(w)
    <3>1. stage' = stage /\ claim' = claim /\ (faults' = faults + 1 \/ faults' = faults)
      BY <2>2 DEF ClaimFails, BackoffPasses, Fault, workerVars
    <3>2. Senders(q)' = Senders(q) /\ Retriers(q)' = Retriers(q)
      BY <3>1, SameWorkers
    <3>3. Again(q)' = Again(q)
      BY <3>1, <1>1 DEF Again, Returned, InHand
    <3> QED
      BY <3>1, <3>2, <3>3
  <2> QED
    BY <2>1, <2>2
<1>3. ASSUME NEW q \in Rows
      PROVE  /\ emails'[q] + Cardinality(Senders(q)') + Again(q)' <= 1 + faults'
             /\ status'[q] = "NONE" => emails'[q] = 0 /\ attempts'[q] = 0
             /\ Exhausted(attempts'[q]) =>
                  attempts'[q] + Cardinality(Retriers(q)') + Again(q)' <= MaxAttempts + faults'
  <2>1. Senders(q) \in SUBSET Workers /\ Retriers(q) \in SUBSET Workers
    BY DEF Senders, Retriers
  <2>2. PICK C \in Nat, D \in Nat : C = Cardinality(Senders(q)) /\ D = Cardinality(Senders(q)') /\ D <= C
    BY <1>2, <2>1, CountSubset
  <2>3. PICK R \in Nat, T \in Nat : R = Cardinality(Retriers(q)) /\ T = Cardinality(Retriers(q)') /\ T <= R
    BY <1>2, <2>1, CountSubset
  <2>4. PICK A \in {0, 1}, B \in {0, 1} : A = Again(q) /\ B = Again(q)'
    BY AgainType
  <2>5. faults' = faults + 1 \/ (faults' = faults /\ B = A)
    BY <1>2, <2>4
  <2>6. /\ emails[q] + C + A <= 1 + faults
        /\ status[q] = "NONE" => emails[q] = 0 /\ attempts[q] = 0
        /\ Exhausted(attempts[q]) => attempts[q] + R + A <= MaxAttempts + faults
    BY <2>2, <2>3, <2>4 DEF EmailBudget, RetryBudget
  <2>7. emails[q] \in Nat /\ faults \in Nat /\ attempts[q] \in Nat /\ MaxAttempts \in Nat
    BY OutboxAssumption
  <2>8. emails[q] + D + B <= 1 + faults'
    BY <2>2, <2>5, <2>6, <2>7
  <2>9. Exhausted(attempts[q]) => attempts[q] + T + B <= MaxAttempts + faults'
    BY <2>3, <2>5, <2>6, <2>7
  <2> QED
    BY <1>1, <2>2, <2>3, <2>4, <2>6, <2>8, <2>9
<1> QED
  BY <1>3 DEF EmailBudget, RetryBudget, Exhausted

(***************************************************************************)
(* What a claim knows.                                                     *)
(***************************************************************************)
LEMMA ClaimInvEnvironment ==
  ASSUME OutboxTypeOK, ClaimInv, NEW r \in Rows, Enqueue(r) \/ TimePasses(r) \/ LeaseOverruns(r)
  PROVE  ClaimInv'
<1>1. stage' = stage /\ claim' = claim /\ attempts' = attempts
  BY DEF Enqueue, TimePasses, LeaseOverruns, workerVars
<1>2. \A q \in Rows : status[q] # "NONE" => status'[q] # "NONE"
  BY DEF Enqueue, TimePasses, LeaseOverruns, OutboxTypeOK
<1> QED
  BY <1>1, <1>2 DEF ClaimInv

LEMMA ClaimInvClaim ==
  ASSUME OutboxTypeOK, ClaimInv, NEW w \in Workers, NEW S \in SUBSET Rows,
         Claim(w, S) \/ LoseClaim(w, S)
  PROVE  ClaimInv'
<1> USE DEF OutboxTypeOK
<1>1. \A q \in Rows : /\ status[q] # "NONE" => status'[q] # "NONE"
                      /\ q \in S => status'[q] # "NONE" /\ attempts'[q] = attempts[q] + 1
                      /\ q \notin S => attempts'[q] = attempts[q]
  BY DEF Claim, LoseClaim, TakeRows
<1>2. \A v \in Workers, q \in Rows :
        \/ stage'[v][q] = stage[v][q] /\ claim'[v][q] = claim[v][q]
        \/ v = w /\ q \in S /\ stage'[v][q] = "queued" /\ claim'[v][q] = attempts[q] + 1
        \/ stage'[v][q] = "none" /\ claim'[v][q] = 0
  <2>1. CASE LoseClaim(w, S)
    BY <2>1 DEF LoseClaim, workerVars
  <2>2. CASE Claim(w, S)
    <3> TAKE v \in Workers, q \in Rows
    <3>1. CASE v # w
      BY <2>2, <3>1 DEF Claim
    <3>2. CASE v = w
      BY <2>2, <3>2 DEF Claim
    <3> QED
      BY <3>1, <3>2
  <2> QED
    BY <2>1, <2>2
<1>3. \A v \in Workers, q \in Rows :
        /\ stage'[v][q] # "none" => status'[q] # "NONE" /\ claim'[v][q] \in 1 .. attempts'[q]
        /\ stage'[v][q] = "none" => claim'[v][q] = 0
  <2> TAKE v \in Workers, q \in Rows
  <2>1. CASE stage'[v][q] = stage[v][q] /\ claim'[v][q] = claim[v][q]
    <3>1. attempts[q] \in Nat /\ (attempts'[q] = attempts[q] \/ attempts'[q] = attempts[q] + 1)
      BY <1>1
    <3>2. /\ stage[v][q] # "none" => status[q] # "NONE" /\ claim[v][q] \in 1 .. attempts[q]
          /\ stage[v][q] = "none" => claim[v][q] = 0
      BY DEF ClaimInv
    <3> QED
      BY <1>1, <2>1, <3>1, <3>2
  <2>2. CASE q \in S /\ stage'[v][q] = "queued" /\ claim'[v][q] = attempts[q] + 1
    BY <1>1, <2>2
  <2>3. CASE stage'[v][q] = "none" /\ claim'[v][q] = 0
    BY <2>3
  <2> QED
    BY <1>2, <2>1, <2>2, <2>3
<1>4. \A u, v \in Workers, q \in Rows :
        stage'[u][q] # "none" /\ stage'[v][q] # "none" /\ claim'[u][q] = claim'[v][q] => u = v
  <2> SUFFICES ASSUME NEW u \in Workers, NEW v \in Workers, NEW q \in Rows,
                      stage'[u][q] # "none", stage'[v][q] # "none", claim'[u][q] = claim'[v][q]
               PROVE  u = v
    OBVIOUS
  <2>1. /\ stage[u][q] # "none" => claim[u][q] \in 1 .. attempts[q]
        /\ stage[v][q] # "none" => claim[v][q] \in 1 .. attempts[q]
    BY DEF ClaimInv
  <2>2. \/ stage'[u][q] = stage[u][q] /\ claim'[u][q] = claim[u][q]
        \/ u = w /\ claim'[u][q] = attempts[q] + 1
    BY <1>2
  <2>3. \/ stage'[v][q] = stage[v][q] /\ claim'[v][q] = claim[v][q]
        \/ v = w /\ claim'[v][q] = attempts[q] + 1
    BY <1>2
  <2> QED
    BY <2>1, <2>2, <2>3 DEF ClaimInv
<1> QED
  BY <1>3, <1>4 DEF ClaimInv

LEMMA ClaimInvWorker ==
  ASSUME OutboxTypeOK, ClaimInv, NEW w \in Workers, ClaimFails(w) \/ BackoffPasses(w) \/ Crash(w)
  PROVE  ClaimInv'
<1>1. status' = status /\ attempts' = attempts
  BY DEF ClaimFails, BackoffPasses, Crash, rowVars
<1>2. \A v \in Workers, q \in Rows :
        \/ stage'[v][q] = stage[v][q] /\ claim'[v][q] = claim[v][q]
        \/ stage'[v][q] = "none" /\ claim'[v][q] = 0
  BY DEF ClaimFails, BackoffPasses, Crash, workerVars, OutboxTypeOK
<1> QED
  BY <1>1, <1>2 DEF ClaimInv

LEMMA ClaimInvDispatch ==
  ASSUME OutboxTypeOK, ClaimInv, NEW w \in Workers, NEW r \in Rows, NEW x \in Stages, Shape(w, r, x)
  PROVE  ClaimInv'
<1> USE DEF OutboxTypeOK
<1>1. OneJob(w, r, x) /\ attempts' = attempts /\ stage[w][r] # "none"
  BY DEF Shape, OneJob
<1>2. \A q \in Rows : status[q] # "NONE" => status'[q] # "NONE"
  <2>1. \A q \in Rows \ {r} : status'[q] = status[q]
    BY <1>1 DEF OneJob
  <2>2. status[r] # "NONE" => status'[r] # "NONE"
    BY DEF Shape, GoesOn, Errs, Sends, Closes, Returns, Forgets, SameRow
  <2> QED
    BY <2>1, <2>2
<1>3. \A v \in Workers, q \in Rows :
        \/ stage'[v][q] = stage[v][q] /\ claim'[v][q] = claim[v][q]
        \/ stage'[v][q] = "none" /\ claim'[v][q] = 0
        \/ stage[v][q] # "none" /\ stage'[v][q] # "none" /\ claim'[v][q] = claim[v][q]
  BY <1>1 DEF OneJob
<1>4. \A v \in Workers, q \in Rows :
        /\ stage'[v][q] # "none" => status'[q] # "NONE" /\ claim'[v][q] \in 1 .. attempts'[q]
        /\ stage'[v][q] = "none" => claim'[v][q] = 0
  <2> TAKE v \in Workers, q \in Rows
  <2>1. /\ stage[v][q] # "none" => status[q] # "NONE" /\ claim[v][q] \in 1 .. attempts[q]
        /\ stage[v][q] = "none" => claim[v][q] = 0
    BY DEF ClaimInv
  <2> QED
    BY <1>1, <1>2, <1>3, <2>1
<1>5. \A u, v \in Workers, q \in Rows :
        stage'[u][q] # "none" /\ stage'[v][q] # "none" /\ claim'[u][q] = claim'[v][q] => u = v
  <2> SUFFICES ASSUME NEW u \in Workers, NEW v \in Workers, NEW q \in Rows,
                      stage'[u][q] # "none", stage'[v][q] # "none", claim'[u][q] = claim'[v][q]
               PROVE  u = v
    OBVIOUS
  <2>1. stage[u][q] # "none" /\ claim'[u][q] = claim[u][q]
    BY <1>3
  <2>2. stage[v][q] # "none" /\ claim'[v][q] = claim[v][q]
    BY <1>3
  <2>3. claim[u][q] = claim[v][q]
    BY <2>1, <2>2
  <2> QED
    BY <2>1, <2>2, <2>3 DEF ClaimInv
<1> QED
  BY <1>4, <1>5 DEF ClaimInv

(***************************************************************************)
(* Tries of the delivery against claims of the row.                        *)
(***************************************************************************)
LEMMA TriedAfter ==
  ASSUME OutboxTypeOK, NEW w \in Workers, NEW r \in Rows, NEW x, NEW y,
         Goto(w, r, x) \/ EndJob(w, r) \/ Answered(w, r, x, y) \/ AnsweredLast(w, r, y)
  PROVE  \A v \in Workers, q \in Rows : tried'[v][q] \in {0, tried[v][q]}
<1>1. ASSUME NEW z, Goto(w, r, z)
      PROVE  \A v \in Workers, q \in Rows : tried'[v][q] \in {0, tried[v][q]}
  BY <1>1 DEF Goto
<1>2. CASE EndJob(w, r)
  BY <1>2 DEF OutboxTypeOK, EndJob
<1> QED
  BY <1>1, <1>2 DEF Answered, AnsweredLast

\* A step either begins a delivery, or leaves the tries as they are and starts
\* no job anew.
LEMMA TriesAfter ==
  ASSUME OutboxTypeOK, NEW w \in Workers, NEW r \in Rows, Dispatch(w, r) \/ StatementFails(w, r)
  PROVE  \/ BeginDelivery(w, r)
         \/ /\ tries' = tries
            /\ stage'[w][r] \in {"queued", "looked"} => stage[w][r] \in {"queued", "looked"}
            /\ \A v \in Workers, q \in Rows : tried'[v][q] \in {0, tried[v][q]}
<1>1. CASE SkipTopic(w, r)
  <2>1. \A v \in Workers, q \in Rows : tried'[v][q] \in {0, tried[v][q]}
    BY <1>1, TriedAfter DEF SkipTopic
  <2>2. /\ tries' = tries
        /\ stage'[w][r] \in {"queued", "looked"} => stage[w][r] \in {"queued", "looked"}
    BY <1>1 DEF SkipTopic, Goto, EndJob, Answered, AnsweredLast, Startable, deliveryVars, OutboxTypeOK
  <2> QED
    BY <2>1, <2>2
<1>2. CASE RejectOrphan(w, r)
  <2>1. \A v \in Workers, q \in Rows : tried'[v][q] \in {0, tried[v][q]}
    BY <1>2, TriedAfter DEF RejectOrphan
  <2>2. /\ tries' = tries
        /\ stage'[w][r] \in {"queued", "looked"} => stage[w][r] \in {"queued", "looked"}
    BY <1>2 DEF RejectOrphan, Goto, EndJob, Answered, AnsweredLast, Startable, deliveryVars, OutboxTypeOK
  <2> QED
    BY <2>1, <2>2
<1>3. CASE FindDelivery(w, r)
  <2>1. \A v \in Workers, q \in Rows : tried'[v][q] \in {0, tried[v][q]}
    BY <1>3, TriedAfter DEF FindDelivery
  <2>2. /\ tries' = tries
        /\ stage'[w][r] \in {"queued", "looked"} => stage[w][r] \in {"queued", "looked"}
    BY <1>3 DEF FindDelivery, Goto, EndJob, Answered, AnsweredLast, Startable, deliveryVars, OutboxTypeOK
  <2> QED
    BY <2>1, <2>2
<1>4. CASE MarkProcessed(w, r)
  <2>1. \A v \in Workers, q \in Rows : tried'[v][q] \in {0, tried[v][q]}
    BY <1>4, TriedAfter DEF MarkProcessed
  <2>2. /\ tries' = tries
        /\ stage'[w][r] \in {"queued", "looked"} => stage[w][r] \in {"queued", "looked"}
    BY <1>4 DEF MarkProcessed, Goto, EndJob, Answered, AnsweredLast, Startable, deliveryVars, OutboxTypeOK
  <2> QED
    BY <2>1, <2>2
<1>5. CASE SmtpAccepts(w, r)
  <2>1. \A v \in Workers, q \in Rows : tried'[v][q] \in {0, tried[v][q]}
    BY <1>5, TriedAfter DEF SmtpAccepts
  <2>2. /\ tries' = tries
        /\ stage'[w][r] \in {"queued", "looked"} => stage[w][r] \in {"queued", "looked"}
    BY <1>5 DEF SmtpAccepts, Goto, EndJob, Answered, AnsweredLast, Startable, deliveryVars, OutboxTypeOK
  <2> QED
    BY <2>1, <2>2
<1>6. CASE SmtpRefuses(w, r)
  <2>1. \A v \in Workers, q \in Rows : tried'[v][q] \in {0, tried[v][q]}
    BY <1>6, TriedAfter DEF SmtpRefuses
  <2>2. /\ tries' = tries
        /\ stage'[w][r] \in {"queued", "looked"} => stage[w][r] \in {"queued", "looked"}
    BY <1>6 DEF SmtpRefuses, Goto, EndJob, Answered, AnsweredLast, Startable, deliveryVars, OutboxTypeOK
  <2> QED
    BY <2>1, <2>2
<1>7. CASE RecordSent(w, r)
  <2>1. \A v \in Workers, q \in Rows : tried'[v][q] \in {0, tried[v][q]}
    BY <1>7, TriedAfter DEF RecordSent
  <2>2. /\ tries' = tries
        /\ stage'[w][r] \in {"queued", "looked"} => stage[w][r] \in {"queued", "looked"}
    BY <1>7 DEF RecordSent, Goto, EndJob, Answered, AnsweredLast, Startable, deliveryVars, OutboxTypeOK
  <2> QED
    BY <2>1, <2>2
<1>8. CASE RecordFailure(w, r)
  <2>1. \A v \in Workers, q \in Rows : tried'[v][q] \in {0, tried[v][q]}
    BY <1>8, TriedAfter DEF RecordFailure
  <2>2. /\ tries' = tries
        /\ stage'[w][r] \in {"queued", "looked"} => stage[w][r] \in {"queued", "looked"}
    BY <1>8 DEF RecordFailure, Goto, EndJob, Answered, AnsweredLast, Startable, deliveryVars, OutboxTypeOK
  <2> QED
    BY <2>1, <2>2
<1>9. CASE MarkFailure(w, r)
  <2>1. \A v \in Workers, q \in Rows : tried'[v][q] \in {0, tried[v][q]}
    BY <1>9, TriedAfter DEF MarkFailure
  <2>2. /\ tries' = tries
        /\ stage'[w][r] \in {"queued", "looked"} => stage[w][r] \in {"queued", "looked"}
    BY <1>9 DEF MarkFailure, Goto, EndJob, Answered, AnsweredLast, Startable, deliveryVars, OutboxTypeOK
  <2> QED
    BY <2>1, <2>2
<1>10. CASE StatementFails(w, r)
  <2>1. \A v \in Workers, q \in Rows : tried'[v][q] \in {0, tried[v][q]}
    BY <1>10, TriedAfter DEF StatementFails
  <2>2. /\ tries' = tries
        /\ stage'[w][r] \in {"queued", "looked"} => stage[w][r] \in {"queued", "looked"}
    BY <1>10 DEF StatementFails, Goto, EndJob, Answered, AnsweredLast, Startable, deliveryVars, OutboxTypeOK
  <2> QED
    BY <2>1, <2>2
<1> QED
  BY <1>1, <1>2, <1>3, <1>4, <1>5, <1>6, <1>7, <1>8, <1>9, <1>10 DEF Dispatch

LEMMA TriesInvDispatch ==
  ASSUME OutboxTypeOK, OutboxTypeOK', TriesInv, NEW w \in Workers, NEW r \in Rows,
         Dispatch(w, r) \/ StatementFails(w, r)
  PROVE  TriesInv'
<1> USE DEF OutboxTypeOK
<1>1. attempts' = attempts /\ \A v \in Workers, q \in Rows : v # w \/ q # r => stage'[v][q] = stage[v][q]
  BY DispatchShape DEF Shape, OneJob
<1>2. CASE BeginDelivery(w, r)
  <2>1. /\ tries' = [tries EXCEPT ![r] = tries[r] + 1]
        /\ stage[w][r] = "looked" /\ stage'[w][r] \in {"begun", "thrown"}
    BY <1>2 DEF BeginDelivery, Goto
  <2>2. tried' = tried \/ tried' = [tried EXCEPT ![w][r] = tries[r] + 1]
    BY <1>2 DEF BeginDelivery, Goto
  <2>3. ASSUME NEW q \in Rows
        PROVE  tries'[q] + Cardinality(Untried(q)') <= attempts'[q]
    <3>1. tries[q] + Cardinality(Untried(q)) <= attempts[q] /\ Untried(q) \in SUBSET Workers
      BY DEF TriesInv, Untried
    <3>2. CASE q = r
      <4>1. \A v \in Workers : v # w => stage'[v][q] = stage[v][q]
        BY <1>1
      <4>2. w \in Untried(q) /\ Untried(q)' = Untried(q) \ {w}
        BY <3>2, <4>1, <2>1 DEF Untried
      <4>3. /\ Cardinality(Untried(q)) \in Nat
            /\ Cardinality(Untried(q) \ {w}) = Cardinality(Untried(q)) - 1
        BY <4>2, <3>1, CountOne
      <4>4. tries'[q] = tries[q] + 1
        BY <3>2, <2>1
      <4> QED
        BY <3>1, <4>2, <4>3, <4>4, <1>1
    <3>3. CASE q # r
      <4>1. tries'[q] = tries[q] /\ \A v \in Workers : stage'[v][q] = stage[v][q]
        BY <3>3, <1>1, <2>1
      <4>2. Untried(q)' = Untried(q)
        BY <4>1 DEF Untried
      <4> QED
        BY <3>1, <4>1, <4>2, <1>1
    <3> QED
      BY <3>2, <3>3
  <2>4. ASSUME NEW q \in Rows, NEW v \in Workers
        PROVE  tried'[v][q] <= tries'[q]
    <3>1. tried[v][q] <= tries[q]
      BY DEF TriesInv
    <3> QED
      BY <2>1, <2>2, <3>1
  <2> QED
    BY <2>3, <2>4 DEF TriesInv
<1>3. CASE ~BeginDelivery(w, r)
  <2>1. /\ tries' = tries
        /\ stage'[w][r] \in {"queued", "looked"} => stage[w][r] \in {"queued", "looked"}
        /\ \A v \in Workers, q \in Rows : tried'[v][q] \in {0, tried[v][q]}
    BY <1>3, TriesAfter
  <2>2. ASSUME NEW q \in Rows
        PROVE  tries'[q] + Cardinality(Untried(q)') <= attempts'[q]
    <3>1. tries[q] + Cardinality(Untried(q)) <= attempts[q] /\ Untried(q) \in SUBSET Workers
      BY DEF TriesInv, Untried
    <3>2. Untried(q)' \subseteq Untried(q)
      <4>1. ASSUME NEW v \in Workers, stage'[v][q] \in {"queued", "looked"}
            PROVE  stage[v][q] \in {"queued", "looked"}
        <5>1. CASE v = w /\ q = r
          BY <4>1, <5>1, <2>1
        <5>2. CASE ~(v = w /\ q = r)
          BY <4>1, <5>2, <1>1
        <5> QED
          BY <5>1, <5>2
      <4> QED
        BY <4>1 DEF Untried
    <3>3. /\ Cardinality(Untried(q)) \in Nat /\ Cardinality(Untried(q)') \in Nat
          /\ Cardinality(Untried(q)') <= Cardinality(Untried(q))
      BY <3>1, <3>2, CountSubset
    <3> QED
      BY <1>1, <2>1, <3>1, <3>3
  <2>3. ASSUME NEW q \in Rows, NEW v \in Workers
        PROVE  tried'[v][q] <= tries'[q]
    <3>1. tried[v][q] <= tries[q] /\ tries[q] \in Nat
      BY DEF TriesInv
    <3>2. tried'[v][q] \in {0, tried[v][q]} /\ tries'[q] = tries[q]
      BY <2>1
    <3> QED
      BY <3>1, <3>2
  <2> QED
    BY <2>2, <2>3 DEF TriesInv
<1> QED
  BY <1>2, <1>3

LEMMA TriesInvOther ==
  ASSUME OutboxTypeOK, OutboxTypeOK', TriesInv, Next,
         \A w \in Workers, r \in Rows : ~Dispatch(w, r) /\ ~StatementFails(w, r)
  PROVE  TriesInv'
<1> USE DEF OutboxTypeOK
<1>1. CASE \E w \in Workers, S \in SUBSET Rows : Claim(w, S)
  <2>1. PICK w \in Workers, S \in SUBSET Rows : Claim(w, S)
    BY <1>1
  <2>2. tries' = tries /\ tried' = tried
    BY <2>1 DEF Claim, deliveryVars
  <2>3. ASSUME NEW q \in Rows
        PROVE  tries'[q] + Cardinality(Untried(q)') <= attempts'[q]
    <3>1. tries[q] + Cardinality(Untried(q)) <= attempts[q]
      BY DEF TriesInv
    <3>2. Untried(q) \in SUBSET Workers
      BY DEF Untried
    <3>3. CASE q \in S
      <4>1. attempts'[q] = attempts[q] + 1
        BY <2>1, <3>3 DEF Claim, TakeRows
      <4>2. Untried(q)' \subseteq Untried(q) \cup {w}
        BY <2>1 DEF Claim, Untried
      <4>3. Untried(q) \cup {w} \in SUBSET Workers
        BY <3>2
      <4>4. /\ Cardinality(Untried(q)') \in Nat
            /\ Cardinality(Untried(q)') <= Cardinality(Untried(q) \cup {w})
        BY <4>2, <4>3, CountSubset
      <4>5. /\ Cardinality(Untried(q)) \in Nat /\ Cardinality(Untried(q) \cup {w}) \in Nat
            /\ Cardinality(Untried(q) \cup {w}) <= Cardinality(Untried(q)) + 1
        BY <3>2, CountOne
      <4> QED
        BY <2>2, <3>1, <4>1, <4>4, <4>5
    <3>4. CASE q \notin S
      <4>1. attempts'[q] = attempts[q]
        BY <2>1, <3>4 DEF Claim, TakeRows
      <4>2. Untried(q)' \subseteq Untried(q)
        BY <2>1, <3>4 DEF Claim, Untried
      <4>3. /\ Cardinality(Untried(q)) \in Nat /\ Cardinality(Untried(q)') \in Nat
            /\ Cardinality(Untried(q)') <= Cardinality(Untried(q))
        BY <3>2, <4>2, CountSubset
      <4> QED
        BY <2>2, <3>1, <4>1, <4>3
    <3> QED
      BY <3>3, <3>4
  <2> QED
    BY <2>2, <2>3 DEF TriesInv
<1>2. ASSUME ~\E w \in Workers, S \in SUBSET Rows : Claim(w, S)
      PROVE  TriesInv'
  <2>1. /\ tries' = tries
        /\ \A q \in Rows : attempts'[q] >= attempts[q]
        /\ \A v \in Workers, q \in Rows : /\ tried'[v][q] \in {0, tried[v][q]}
                                          /\ stage'[v][q] \in {"none", stage[v][q]}
    <3> USE DEF rowVars, deliveryVars, workerVars
    <3>1. CASE \E r \in Rows : Enqueue(r) \/ TimePasses(r) \/ LeaseOverruns(r)
      BY <3>1 DEF Enqueue, TimePasses, LeaseOverruns
    <3>2. CASE \E w \in Workers, S \in SUBSET Rows : LoseClaim(w, S)
      BY <3>2 DEF LoseClaim, TakeRows
    <3>3. CASE \E w \in Workers : ClaimFails(w) \/ BackoffPasses(w)
      BY <3>3 DEF ClaimFails, BackoffPasses
    <3>4. CASE \E w \in Workers : Crash(w)
      <4>1. PICK w \in Workers : Crash(w)
        BY <3>4
      <4>2. tries' = tries /\ attempts' = attempts
        BY <4>1 DEF Crash
      <4>3. \A v \in Workers, q \in Rows : tried'[v][q] \in {0, tried[v][q]}
        BY <4>1 DEF Crash
      <4>4. \A v \in Workers, q \in Rows : stage'[v][q] \in {"none", stage[v][q]}
        BY <4>1 DEF Crash
      <4> QED
        BY <4>2, <4>3, <4>4
    <3> QED
      BY <3>1, <3>2, <3>3, <3>4, <1>2 DEF Next
  <2>2. ASSUME NEW q \in Rows
        PROVE  tries'[q] + Cardinality(Untried(q)') <= attempts'[q]
    <3>1. tries[q] + Cardinality(Untried(q)) <= attempts[q]
      BY DEF TriesInv
    <3>2. Untried(q)' \subseteq Untried(q) /\ Untried(q) \in SUBSET Workers
      BY <2>1 DEF Untried
    <3>3. /\ Cardinality(Untried(q)) \in Nat /\ Cardinality(Untried(q)') \in Nat
          /\ Cardinality(Untried(q)') <= Cardinality(Untried(q))
      BY <3>2, CountSubset
    <3> QED
      BY <2>1, <3>1, <3>3
  <2>3. ASSUME NEW q \in Rows, NEW v \in Workers
        PROVE  tried'[v][q] <= tries'[q]
    <3>1. tried[v][q] <= tries[q] /\ tries[q] \in Nat
      BY DEF TriesInv
    <3>2. tried'[v][q] \in {0, tried[v][q]} /\ tries'[q] = tries[q]
      BY <2>1
    <3> QED
      BY <3>1, <3>2
  <2> QED
    BY <2>2, <2>3 DEF TriesInv
<1> QED
  BY <1>1, <1>2

(***************************************************************************)
(* Nothing is PROCESSED unsent, and nothing is DEAD early.                 *)
(***************************************************************************)
\* What a dispatch step newly claims to be sent was sent, and what it gives up
\* was exhausted.
LEMMA OutcomeAfter ==
  ASSUME OutboxTypeOK, SentInv, ClaimInv, TriesInv, NEW w \in Workers, NEW r \in Rows,
         Dispatch(w, r) \/ StatementFails(w, r)
  PROVE  /\ emails'[r] >= emails[r] /\ tries'[r] >= tries[r]
         /\ delivery'[r] = "SENT" => delivery[r] = "SENT" \/ emails[r] > 0
         /\ status'[r] = "PROCESSED" /\ KindOf[r] = "notice" => status[r] = "PROCESSED" \/ emails[r] > 0
         /\ stage'[w][r] = "accepted" => emails'[r] > 0
         /\ stage'[w][r] = "seen" /\ KindOf[r] = "notice" => emails[r] > 0
         /\ status'[r] = "DEAD" => status[r] = "DEAD" \/ attempts[r] >= MaxAttempts
         /\ delivery'[r] = "DEAD" => delivery[r] = "DEAD" \/ tries[r] >= MaxAttempts
<1> USE OutboxAssumption
        DEF OutboxTypeOK, Goto, EndJob, Answered, AnsweredLast, Startable, rowVars, deliveryVars,
            AlreadySent, SentInv, ProcessedIsSent, Exhausted
<1>0. /\ stage[w][r] # "none" => claim[w][r] \in Nat /\ claim[w][r] <= attempts[r]
      /\ tried[w][r] <= tries[r]
  BY DEF ClaimInv, TriesInv
<1>1. CASE SkipTopic(w, r)
  BY <1>1 DEF SkipTopic
<1>2. CASE RejectOrphan(w, r)
  BY <1>2 DEF RejectOrphan
<1>3. CASE FindDelivery(w, r)
  BY <1>3 DEF FindDelivery
<1>4. CASE MarkProcessed(w, r)
  BY <1>4 DEF MarkProcessed
<1>5. CASE BeginDelivery(w, r)
  BY <1>5 DEF BeginDelivery
<1>6. CASE SmtpAccepts(w, r)
  BY <1>6 DEF SmtpAccepts
<1>7. CASE SmtpRefuses(w, r)
  BY <1>7 DEF SmtpRefuses
<1>8. CASE RecordSent(w, r)
  BY <1>8 DEF RecordSent
<1>9. CASE RecordFailure(w, r)
  BY <1>9, <1>0 DEF RecordFailure
<1>10. CASE MarkFailure(w, r)
  BY <1>10, <1>0 DEF MarkFailure
<1>11. CASE StatementFails(w, r)
  BY <1>11 DEF StatementFails
<1> QED
  BY <1>1, <1>2, <1>3, <1>4, <1>5, <1>6, <1>7, <1>8, <1>9, <1>10, <1>11 DEF Dispatch

LEMMA TriesWithinAttempts ==
  ASSUME OutboxTypeOK', TriesInv'
  PROVE  \A q \in Rows : tries'[q] <= attempts'[q]
<1> TAKE q \in Rows
<1>1. Untried(q)' \in SUBSET Workers
  BY DEF Untried
<1>2. Cardinality(Untried(q)') \in Nat
  BY <1>1, CountSubset
<1>3. tries'[q] \in Nat /\ attempts'[q] \in Nat
  BY DEF OutboxTypeOK
<1> QED
  BY <1>2, <1>3 DEF TriesInv

LEMMA OutcomeDispatch ==
  ASSUME OutboxTypeOK, OutboxTypeOK', SentInv, DeadIsExhausted, ClaimInv, TriesInv, TriesInv',
         NEW w \in Workers, NEW r \in Rows, Dispatch(w, r) \/ StatementFails(w, r)
  PROVE  SentInv' /\ DeadIsExhausted'
<1> USE DEF OutboxTypeOK
<1>1. PICK x \in Stages : OneJob(w, r, x)
  BY DispatchShape DEF Shape
<1>2. ASSUME NEW q \in Rows
      PROVE  /\ delivery'[q] = "SENT" => emails'[q] > 0
             /\ status'[q] = "PROCESSED" /\ KindOf[q] = "notice" => emails'[q] > 0
             /\ status'[q] = "DEAD" => attempts'[q] >= MaxAttempts
             /\ delivery'[q] = "DEAD" => tries'[q] >= MaxAttempts
             /\ emails'[q] >= emails[q]
  <2>1. CASE q = r
    <3>1. /\ emails'[q] >= emails[q] /\ tries'[q] >= tries[q]
          /\ delivery'[q] = "SENT" => delivery[q] = "SENT" \/ emails[q] > 0
          /\ status'[q] = "PROCESSED" /\ KindOf[q] = "notice" => status[q] = "PROCESSED" \/ emails[q] > 0
          /\ status'[q] = "DEAD" => status[q] = "DEAD" \/ attempts[q] >= MaxAttempts
          /\ delivery'[q] = "DEAD" => delivery[q] = "DEAD" \/ tries[q] >= MaxAttempts
      BY <2>1, OutcomeAfter
    <3>2. /\ delivery[q] = "SENT" => emails[q] > 0
          /\ status[q] = "PROCESSED" /\ KindOf[q] = "notice" => emails[q] > 0
          /\ status[q] = "DEAD" => attempts[q] >= MaxAttempts
          /\ delivery[q] = "DEAD" => tries[q] >= MaxAttempts
      BY DEF SentInv, ProcessedIsSent, DeadIsExhausted
    <3>3. /\ attempts'[q] = attempts[q]
          /\ emails[q] \in Nat /\ emails'[q] \in Nat /\ tries[q] \in Nat /\ tries'[q] \in Nat
      BY <1>1 DEF OneJob
    <3> HIDE DEF OutboxTypeOK
    <3> QED
      BY <3>1, <3>2, <3>3, OutboxAssumption
  <2>2. CASE q # r
    <3>1. /\ delivery'[q] = delivery[q] /\ emails'[q] = emails[q] /\ status'[q] = status[q]
          /\ attempts'[q] = attempts[q] /\ tries'[q] = tries[q]
      BY <2>2, <1>1 DEF OneJob
    <3>2. /\ delivery[q] = "SENT" => emails[q] > 0
          /\ status[q] = "PROCESSED" /\ KindOf[q] = "notice" => emails[q] > 0
          /\ status[q] = "DEAD" => attempts[q] >= MaxAttempts
          /\ delivery[q] = "DEAD" => tries[q] >= MaxAttempts
      BY DEF SentInv, ProcessedIsSent, DeadIsExhausted
    <3>3. emails[q] >= emails[q]
      OBVIOUS
    <3> HIDE DEF OutboxTypeOK
    <3> QED
      BY <3>1, <3>2, <3>3
  <2> QED
    BY <2>1, <2>2
<1>3. ASSUME NEW v \in Workers, NEW q \in Rows
      PROVE  /\ stage'[v][q] = "accepted" => emails'[q] > 0
             /\ stage'[v][q] = "seen" /\ KindOf[q] = "notice" => emails'[q] > 0
  <2>1. CASE v = w /\ q = r
    BY <2>1, OutcomeAfter
  <2>2. CASE v # w \/ q # r
    <3>1. stage'[v][q] = stage[v][q]
      BY <2>2, <1>1 DEF OneJob
    <3> QED
      BY <3>1, <1>2 DEF SentInv
  <2> QED
    BY <2>1, <2>2
<1>4. \A q \in Rows : tries'[q] <= attempts'[q]
  BY TriesWithinAttempts
<1> QED
  BY <1>2, <1>3, <1>4 DEF SentInv, ProcessedIsSent, DeadIsExhausted

\* A step that is not of a dispatch: no worker gets further with a row.
LEMMA OtherShape ==
  ASSUME OutboxTypeOK, Next,
         \A w \in Workers, r \in Rows : ~Dispatch(w, r) /\ ~StatementFails(w, r)
  PROVE  /\ delivery' = delivery /\ tries' = tries /\ emails' = emails
         /\ \A q \in Rows : /\ attempts'[q] >= attempts[q]
                            /\ status'[q] \in Closed => status'[q] = status[q]
         /\ \A v \in Workers, q \in Rows : stage'[v][q] \in {"none", "queued", stage[v][q]}
<1> USE DEF OutboxTypeOK
<1> USE DEF rowVars, deliveryVars, workerVars, Closed
<1>1. CASE \E r \in Rows : Enqueue(r) \/ TimePasses(r) \/ LeaseOverruns(r)
  BY <1>1 DEF Enqueue, TimePasses, LeaseOverruns
<1>2. CASE \E w \in Workers, S \in SUBSET Rows : Claim(w, S) \/ LoseClaim(w, S)
  <2>1. PICK w \in Workers, S \in SUBSET Rows : Claim(w, S) \/ LoseClaim(w, S)
    BY <1>2
  <2>2. /\ delivery' = delivery /\ tries' = tries /\ emails' = emails
        /\ \A q \in Rows : /\ attempts'[q] >= attempts[q]
                           /\ status'[q] \in {status[q], "PROCESSING"}
    BY <2>1 DEF Claim, LoseClaim, TakeRows
  <2>3. ASSUME NEW v \in Workers, NEW q \in Rows
        PROVE  stage'[v][q] \in {"none", "queued", stage[v][q]}
    <3>1. CASE LoseClaim(w, S)
      BY <3>1 DEF LoseClaim
    <3>2. CASE Claim(w, S) /\ v = w
      <4>1. stage'[w][q] = IF q \in S THEN "queued" ELSE "none"
        BY <3>2 DEF Claim
      <4> QED
        BY <3>2, <4>1
    <3>3. CASE Claim(w, S) /\ v # w
      <4>1. stage'[v] = stage[v]
        BY <3>3 DEF Claim
      <4> QED
        BY <4>1
    <3> QED
      BY <2>1, <3>1, <3>2, <3>3
  <2> QED
    BY <2>2, <2>3
<1>3. CASE \E w \in Workers : ClaimFails(w) \/ BackoffPasses(w)
  BY <1>3 DEF ClaimFails, BackoffPasses
<1>4. CASE \E w \in Workers : Crash(w)
  BY <1>4 DEF Crash
<1> QED
  BY <1>1, <1>2, <1>3, <1>4 DEF Next

LEMMA OutcomeOther ==
  ASSUME OutboxTypeOK, OutboxTypeOK', SentInv, DeadIsExhausted, TriesInv', Next,
         \A w \in Workers, r \in Rows : ~Dispatch(w, r) /\ ~StatementFails(w, r)
  PROVE  SentInv' /\ DeadIsExhausted'
<1> USE DEF OutboxTypeOK
<1>1. /\ delivery' = delivery /\ tries' = tries /\ emails' = emails
      /\ \A q \in Rows : /\ attempts'[q] >= attempts[q]
                         /\ status'[q] \in Closed => status'[q] = status[q]
      /\ \A v \in Workers, q \in Rows : stage'[v][q] \in {"none", "queued", stage[v][q]}
  BY OtherShape
<1>2. \A q \in Rows : tries'[q] <= attempts'[q]
  BY TriesWithinAttempts
<1>3. ASSUME NEW q \in Rows
      PROVE  /\ delivery'[q] = "SENT" => emails'[q] > 0
             /\ status'[q] = "PROCESSED" /\ KindOf[q] = "notice" => emails'[q] > 0
             /\ status'[q] = "DEAD" => attempts'[q] >= MaxAttempts
             /\ delivery'[q] = "DEAD" => tries'[q] >= MaxAttempts
  BY <1>1, OutboxAssumption DEF SentInv, ProcessedIsSent, DeadIsExhausted, Closed
<1>4. ASSUME NEW v \in Workers, NEW q \in Rows
      PROVE  /\ stage'[v][q] = "accepted" => emails'[q] > 0
             /\ stage'[v][q] = "seen" /\ KindOf[q] = "notice" => emails'[q] > 0
  <2>1. stage'[v][q] \in {"none", "queued", stage[v][q]} /\ emails'[q] = emails[q]
    BY <1>1
  <2>2. /\ stage[v][q] = "accepted" => emails[q] > 0
        /\ stage[v][q] = "seen" /\ KindOf[q] = "notice" => emails[q] > 0
    BY DEF SentInv
  <2> QED
    BY <2>1, <2>2
<1> QED
  BY <1>2, <1>3, <1>4 DEF SentInv, ProcessedIsSent, DeadIsExhausted

(***************************************************************************)
(* Without a fault.                                                        *)
(***************************************************************************)
\* The job that a dispatch step works on is the only one of its row.
LEMMA QuietJob ==
  ASSUME OutboxTypeOK, QuietInv, ClaimInv, faults = 0, NEW w \in Workers, NEW r \in Rows,
         stage[w][r] # "none"
  PROVE  /\ status[r] = "PROCESSING" /\ r \notin ready /\ claim[w][r] = attempts[r]
         /\ delivery[r] # "SENT"
         /\ \A v \in Workers \ {w} : stage[v][r] = "none"
<1>1. /\ status[r] = "PROCESSING" /\ r \notin ready /\ claim[w][r] = attempts[r]
      /\ \A v \in Workers : stage[v][r] # "none" => claim[v][r] = attempts[r]
      /\ delivery[r] = "SENT" => status[r] = "PROCESSED"
  BY DEF QuietInv
<1>2. \A v \in Workers : stage[v][r] # "none" => v = w
  BY <1>1 DEF ClaimInv
<1> QED
  BY <1>1, <1>2

LEMMA QuietAfter ==
  ASSUME OutboxTypeOK, faults' = 0, NEW w \in Workers, NEW r \in Rows,
         delivery[r] # "SENT", status[r] = "PROCESSING", r \notin ready,
         Dispatch(w, r) \/ StatementFails(w, r)
  PROVE  /\ stage'[w][r] # "none" =>
              status'[r] = "PROCESSING" /\ r \notin ready' /\ claim'[w][r] = claim[w][r]
         /\ stage'[w][r] \in {"looked", "begun", "accepted", "refused"} => delivery'[r] # "SENT"
         /\ delivery'[r] = "SENT" => status'[r] = "PROCESSED"
<1> USE OutboxAssumption
        DEF OutboxTypeOK, Goto, EndJob, Answered, AnsweredLast, Fault, rowVars, deliveryVars
<1>1. CASE SkipTopic(w, r)
  BY <1>1 DEF SkipTopic
<1>2. CASE RejectOrphan(w, r)
  BY <1>2 DEF RejectOrphan
<1>3. CASE FindDelivery(w, r)
  BY <1>3 DEF FindDelivery, AlreadySent
<1>4. CASE MarkProcessed(w, r)
  BY <1>4 DEF MarkProcessed
<1>5. CASE BeginDelivery(w, r)
  BY <1>5 DEF BeginDelivery
<1>6. CASE SmtpAccepts(w, r)
  BY <1>6 DEF SmtpAccepts
<1>7. CASE SmtpRefuses(w, r)
  BY <1>7 DEF SmtpRefuses
<1>8. CASE RecordSent(w, r)
  BY <1>8 DEF RecordSent
<1>9. CASE RecordFailure(w, r)
  BY <1>9 DEF RecordFailure
<1>10. CASE MarkFailure(w, r)
  BY <1>10 DEF MarkFailure
<1>11. CASE StatementFails(w, r)
  BY <1>11 DEF StatementFails
<1> QED
  BY <1>1, <1>2, <1>3, <1>4, <1>5, <1>6, <1>7, <1>8, <1>9, <1>10, <1>11 DEF Dispatch

LEMMA QuietDispatch ==
  ASSUME OutboxTypeOK, QuietInv, ClaimInv, NEW w \in Workers, NEW r \in Rows,
         Dispatch(w, r) \/ StatementFails(w, r)
  PROVE  QuietInv'
<1> SUFFICES ASSUME faults' = 0
             PROVE  QuietInv'
  BY DEF QuietInv
<1> USE DEF OutboxTypeOK
<1>1. PICK x \in Stages : Shape(w, r, x)
  BY DispatchShape
<1>2. faults = 0
  BY <1>1, OutboxAssumption DEF Shape, GoesOn, Errs, Sends, Closes, Returns, Forgets
<1>3. OneJob(w, r, x) /\ stage[w][r] # "none" /\ attempts' = attempts
  BY <1>1 DEF Shape, OneJob
<1>4. /\ status[r] = "PROCESSING" /\ r \notin ready /\ claim[w][r] = attempts[r]
      /\ delivery[r] # "SENT"
      /\ \A v \in Workers \ {w} : stage[v][r] = "none"
  BY <1>2, <1>3, QuietJob
<1>5. /\ stage'[w][r] # "none" =>
           status'[r] = "PROCESSING" /\ r \notin ready' /\ claim'[w][r] = claim[w][r]
      /\ stage'[w][r] \in {"looked", "begun", "accepted", "refused"} => delivery'[r] # "SENT"
      /\ delivery'[r] = "SENT" => status'[r] = "PROCESSED"
  BY <1>4, QuietAfter
<1>6. ASSUME NEW v \in Workers, NEW q \in Rows
      PROVE  /\ stage'[v][q] # "none" =>
                  status'[q] = "PROCESSING" /\ q \notin ready' /\ claim'[v][q] = attempts'[q]
             /\ stage'[v][q] \in {"looked", "begun", "accepted", "refused"} => delivery'[q] # "SENT"
             /\ delivery'[q] = "SENT" => status'[q] = "PROCESSED"
  <2>1. CASE q # r
    <3>1. /\ stage'[v][q] = stage[v][q] /\ claim'[v][q] = claim[v][q]
          /\ status'[q] = status[q] /\ delivery'[q] = delivery[q] /\ (q \in ready' <=> q \in ready)
      BY <2>1, <1>3 DEF OneJob
    <3> QED
      BY <3>1, <1>2, <1>3 DEF QuietInv
  <2>2. CASE q = r /\ v = w
    BY <2>2, <1>3, <1>4, <1>5
  <2>3. CASE q = r /\ v # w
    <3>1. stage'[v][r] = "none"
      BY <2>3, <1>3, <1>4 DEF OneJob
    <3> QED
      BY <3>1, <2>3, <1>5
  <2> QED
    BY <2>1, <2>2, <2>3
<1>7. ASSUME NEW q \in Rows, delivery'[q] = "SENT"
      PROVE  status'[q] = "PROCESSED"
  BY <1>6, <1>7
<1> QED
  BY <1>6, <1>7 DEF QuietInv

LEMMA QuietClaim ==
  ASSUME OutboxTypeOK, QuietInv, ClaimInv, NEW w \in Workers, NEW S \in SUBSET Rows, Claim(w, S)
  PROVE  QuietInv'
<1> SUFFICES ASSUME faults' = 0
             PROVE  QuietInv'
  BY DEF QuietInv
<1> USE DEF OutboxTypeOK
<1>1. faults = 0 /\ delivery' = delivery
  BY DEF Claim, deliveryVars
<1>2. ASSUME NEW q \in S
      PROVE  /\ \A v \in Workers : stage[v][q] = "none"
             /\ delivery[q] # "SENT"
             /\ status'[q] = "PROCESSING" /\ q \notin ready' /\ attempts'[q] = attempts[q] + 1
  <2>1. q \in ready /\ status[q] \in {"PENDING", "PROCESSING"}
    BY DEF Claim, Candidates, Claimable
  <2>2. (\A v \in Workers : stage[v][q] = "none") /\ delivery[q] # "SENT"
    BY <2>1, <1>1 DEF QuietInv
  <2> QED
    BY <2>2 DEF Claim, TakeRows
<1>3. ASSUME NEW q \in Rows \ S
      PROVE  status'[q] = status[q] /\ attempts'[q] = attempts[q] /\ (q \in ready' <=> q \in ready)
  BY DEF Claim, TakeRows
<1>4. ASSUME NEW v \in Workers, NEW q \in Rows
      PROVE  \/ stage'[v][q] = stage[v][q] /\ claim'[v][q] = claim[v][q] /\ (q \in S => v # w)
             \/ v = w /\ q \in S /\ stage'[v][q] = "queued" /\ claim'[v][q] = attempts[q] + 1
             \/ stage'[v][q] = "none"
  <2>1. CASE v = w
    BY <2>1 DEF Claim
  <2>2. CASE v # w
    BY <2>2 DEF Claim
  <2> QED
    BY <2>1, <2>2
<1>5. ASSUME NEW v \in Workers, NEW q \in Rows
      PROVE  /\ stage'[v][q] # "none" =>
                  status'[q] = "PROCESSING" /\ q \notin ready' /\ claim'[v][q] = attempts'[q]
             /\ stage'[v][q] \in {"looked", "begun", "accepted", "refused"} => delivery'[q] # "SENT"
  <2>1. CASE q \in S
    BY <2>1, <1>1, <1>2, <1>4
  <2>2. CASE q \notin S
    <3>1. (stage'[v][q] = stage[v][q] /\ claim'[v][q] = claim[v][q]) \/ stage'[v][q] = "none"
      BY <2>2, <1>4
    <3>2. status'[q] = status[q] /\ attempts'[q] = attempts[q] /\ (q \in ready' <=> q \in ready)
      BY <2>2, <1>3
    <3> QED
      BY <3>1, <3>2, <1>1 DEF QuietInv
  <2> QED
    BY <2>1, <2>2
<1>6. ASSUME NEW q \in Rows, delivery'[q] = "SENT"
      PROVE  status'[q] = "PROCESSED"
  BY <1>1, <1>2, <1>3, <1>6 DEF QuietInv
<1> QED
  BY <1>5, <1>6 DEF QuietInv

LEMMA QuietOther ==
  ASSUME OutboxTypeOK, OutboxTypeOK', QuietInv, ClaimInv,
         \/ \E r \in Rows : Enqueue(r) \/ TimePasses(r) \/ LeaseOverruns(r)
         \/ \E w \in Workers, S \in SUBSET Rows : LoseClaim(w, S)
         \/ \E w \in Workers : ClaimFails(w) \/ BackoffPasses(w) \/ Crash(w)
  PROVE  QuietInv'
<1> SUFFICES ASSUME faults' = 0
             PROVE  QuietInv'
  BY DEF QuietInv
<1> USE OutboxAssumption DEF OutboxTypeOK, Fault
<1>1. ASSUME NEW r \in Rows, Enqueue(r)
      PROVE  QuietInv'
  <2>1. /\ stage' = stage /\ claim' = claim /\ delivery' = delivery /\ attempts' = attempts /\ faults = 0
        /\ \A q \in Rows \ {r} : status'[q] = status[q] /\ (q \in ready' <=> q \in ready)
        /\ status[r] = "NONE"
    BY <1>1 DEF Enqueue, workerVars, deliveryVars
  <2>2. delivery[r] # "SENT" /\ \A v \in Workers : stage[v][r] = "none"
    BY <2>1 DEF QuietInv, ClaimInv
  <2> QED
    BY <2>1, <2>2 DEF QuietInv
<1>2. ASSUME NEW r \in Rows, TimePasses(r)
      PROVE  QuietInv'
  <2>1. /\ stage' = stage /\ claim' = claim /\ delivery' = delivery /\ attempts' = attempts /\ faults = 0
        /\ status' = status /\ ready' = ready \cup {r} /\ ~InHand(r)
    BY <1>2 DEF TimePasses, workerVars, deliveryVars
  <2>2. \A v \in Workers : stage[v][r] = "none"
    BY <2>1 DEF QuietInv, InHand
  <2> QED
    BY <2>1, <2>2 DEF QuietInv
<1>3. ASSUME NEW w \in Workers, BackoffPasses(w)
      PROVE  QuietInv'
  BY <1>3 DEF BackoffPasses, QuietInv, rowVars, deliveryVars, workerVars
<1> QED
  BY <1>1, <1>2, <1>3 DEF LeaseOverruns, LoseClaim, ClaimFails, Crash

(***************************************************************************)
(* The theorems.                                                           *)
(***************************************************************************)
LEMMA InitInv == Init => OutboxInv
<1> SUFFICES ASSUME Init
             PROVE  OutboxInv
  OBVIOUS
<1>1. OutboxTypeOK
  BY InitType
<1>2. \A r \in Rows : /\ Senders(r) = {} /\ Retriers(r) = {} /\ Untried(r) = {} /\ Again(r) = 0
                      /\ ~Exhausted(attempts[r])
  BY OutboxAssumption DEF Init, Senders, Retriers, Untried, Again, Returned, Unsent, Exhausted
<1>3. Cardinality({}) = 0
  BY FS_EmptySet
<1>4. EmailBudget /\ RetryBudget /\ TriesInv
  <2>1. /\ faults = 0
        /\ \A r \in Rows : emails[r] = 0 /\ attempts[r] = 0 /\ tries[r] = 0
        /\ \A w \in Workers, r \in Rows : tried[w][r] = 0
    BY DEF Init
  <2>2. \A r \in Rows : Cardinality(Senders(r)) = 0 /\ Cardinality(Untried(r)) = 0
    BY <1>2, <1>3
  <2>3. EmailBudget
    BY <1>2, <2>1, <2>2 DEF EmailBudget
  <2>4. RetryBudget
    BY <1>2 DEF RetryBudget
  <2>5. TriesInv
    BY <2>1, <2>2 DEF TriesInv
  <2> QED
    BY <2>3, <2>4, <2>5
<1>5. ClaimInv /\ SentInv /\ DeadIsExhausted /\ QuietInv
  BY DEF Init, ClaimInv, SentInv, ProcessedIsSent, DeadIsExhausted, QuietInv
<1> QED
  BY <1>1, <1>4, <1>5 DEF OutboxInv

LEMMA StutterInv == OutboxInv /\ UNCHANGED vars => OutboxInv'
<1> SUFFICES ASSUME OutboxInv, UNCHANGED vars
             PROVE  OutboxInv'
  OBVIOUS
<1> USE DEF OutboxInv
<1>1. /\ status' = status /\ attempts' = attempts /\ ready' = ready
      /\ delivery' = delivery /\ tries' = tries
      /\ stage' = stage /\ claim' = claim /\ tried' = tried
      /\ waiting' = waiting /\ emails' = emails /\ faults' = faults
  BY DEF vars, rowVars, deliveryVars, workerVars
<1>2. \A r \in Rows : /\ Senders(r)' = Senders(r) /\ Retriers(r)' = Retriers(r)
                      /\ Untried(r)' = Untried(r) /\ Again(r)' = Again(r)
  BY <1>1 DEF Senders, Retriers, Untried, Again, Returned, InHand, Exhausted
<1>3. OutboxTypeOK'
  BY <1>1 DEF OutboxTypeOK
<1>4. EmailBudget'
  BY <1>1, <1>2 DEF EmailBudget
<1>5. RetryBudget'
  BY <1>1, <1>2 DEF RetryBudget, Exhausted
<1>6. ClaimInv'
  BY <1>1 DEF ClaimInv
<1>7. TriesInv'
  BY <1>1, <1>2 DEF TriesInv
<1>8. SentInv' /\ DeadIsExhausted'
  BY <1>1 DEF SentInv, ProcessedIsSent, DeadIsExhausted
<1>9. QuietInv'
  BY <1>1 DEF QuietInv
<1> QED
  BY <1>3, <1>4, <1>5, <1>6, <1>7, <1>8, <1>9

LEMMA NextInv == OutboxInv /\ Next => OutboxInv'
<1> SUFFICES ASSUME OutboxInv, Next
             PROVE  OutboxInv'
  OBVIOUS
<1> USE DEF OutboxInv
<1>1. OutboxTypeOK'
  BY TypeStep
<1>2. CASE \E w \in Workers, r \in Rows : Dispatch(w, r) \/ StatementFails(w, r)
  <2>1. PICK w \in Workers, r \in Rows : Dispatch(w, r) \/ StatementFails(w, r)
    BY <1>2
  <2>2. PICK x \in Stages : Shape(w, r, x)
    BY <2>1, DispatchShape
  <2>3. EmailBudget'
    BY <1>1, <2>2, EmailBudgetDispatch
  <2>4. RetryBudget'
    BY <1>1, <2>2, RetryBudgetDispatch
  <2>5. ClaimInv'
    BY <2>2, ClaimInvDispatch
  <2>6. TriesInv'
    BY <1>1, <2>1, TriesInvDispatch
  <2>7. SentInv' /\ DeadIsExhausted'
    BY <1>1, <2>1, <2>6, OutcomeDispatch
  <2>8. QuietInv'
    BY <2>1, QuietDispatch
  <2> QED
    BY <1>1, <2>3, <2>4, <2>5, <2>6, <2>7, <2>8
<1>3. CASE \A w \in Workers, r \in Rows : ~Dispatch(w, r) /\ ~StatementFails(w, r)
  <2>1. TriesInv'
    BY <1>1, <1>3, TriesInvOther
  <2>2. SentInv' /\ DeadIsExhausted'
    BY <1>1, <1>3, <2>1, OutcomeOther
  <2>3. EmailBudget' /\ RetryBudget' /\ ClaimInv' /\ QuietInv'
    <3>1. ASSUME NEW r \in Rows, Enqueue(r) \/ TimePasses(r) \/ LeaseOverruns(r)
          PROVE  EmailBudget' /\ RetryBudget' /\ ClaimInv' /\ QuietInv'
      BY <1>1, <3>1, EmailBudgetEnvironment, RetryBudgetEnvironment, ClaimInvEnvironment, QuietOther
    <3>2. ASSUME NEW w \in Workers, NEW S \in SUBSET Rows, Claim(w, S)
          PROVE  EmailBudget' /\ RetryBudget' /\ ClaimInv' /\ QuietInv'
      BY <1>1, <3>2, BudgetsClaim, ClaimInvClaim, QuietClaim
    <3>3. ASSUME NEW w \in Workers, NEW S \in SUBSET Rows, LoseClaim(w, S)
          PROVE  EmailBudget' /\ RetryBudget' /\ ClaimInv' /\ QuietInv'
      BY <1>1, <3>3, BudgetsLoseClaim, ClaimInvClaim, QuietOther
    <3>4. ASSUME NEW w \in Workers, ClaimFails(w) \/ BackoffPasses(w) \/ Crash(w)
          PROVE  EmailBudget' /\ RetryBudget' /\ ClaimInv' /\ QuietInv'
      BY <1>1, <3>4, BudgetsWorker, ClaimInvWorker, QuietOther
    <3> QED
      BY <1>3, <3>1, <3>2, <3>3, <3>4 DEF Next
  <2> QED
    BY <1>1, <2>1, <2>2, <2>3
<1> QED
  BY <1>2, <1>3

\* The inductive invariant: the budgets of e-mails and retries, what a claim
\* and a worker know, and that nothing interferes as long as nothing fails.
THEOREM OutboxInvariant == Spec => []OutboxInv
<1>1. Init => OutboxInv
  BY InitInv
<1>2. OutboxInv /\ [Next]_vars => OutboxInv'
  BY NextInv, StutterInv
<1> QED
  BY <1>1, <1>2, PTL DEF Spec

\* However many workers and faults there are, each e-mail for a row beyond the
\* first is paid for by a fault.
THEOREM RepeatedEmailsPaidFor == Spec => []EmailsPaidFor
<1>1. OutboxInv => EmailsPaidFor
  <2> SUFFICES ASSUME OutboxInv, NEW r \in Rows
               PROVE  emails[r] <= 1 + faults
    BY DEF EmailsPaidFor
  <2>1. emails[r] + Cardinality(Senders(r)) + Again(r) <= 1 + faults
    BY DEF OutboxInv, EmailBudget
  <2>2. Cardinality(Senders(r)) \in Nat /\ Again(r) \in {0, 1}
    BY CountType, AgainType
  <2>3. emails[r] \in Nat /\ faults \in Nat
    BY OutboxAssumption DEF OutboxInv, OutboxTypeOK
  <2> QED
    BY <2>1, <2>2, <2>3
<1> QED
  BY <1>1, OutboxInvariant, PTL

\* A row is claimed at most MAX_ATTEMPTS times, and once more for each fault.
THEOREM ClaimsBounded == Spec => []RetriesPaidFor
<1>1. OutboxInv => RetriesPaidFor
  <2> SUFFICES ASSUME OutboxInv, NEW r \in Rows
               PROVE  attempts[r] <= MaxAttempts + faults
    BY DEF RetriesPaidFor
  <2>1. Exhausted(attempts[r]) =>
          attempts[r] + Cardinality(Retriers(r)) + Again(r) <= MaxAttempts + faults
    BY DEF OutboxInv, RetryBudget
  <2>2. Cardinality(Retriers(r)) \in Nat /\ Again(r) \in {0, 1}
    BY CountType, AgainType
  <2>3. attempts[r] \in Nat /\ faults \in Nat /\ MaxAttempts \in Nat
    BY OutboxAssumption DEF OutboxInv, OutboxTypeOK
  <2> QED
    BY <2>1, <2>2, <2>3 DEF Exhausted
<1> QED
  BY <1>1, OutboxInvariant, PTL

\* Whichever workers marked them, a SENT delivery and a PROCESSED notice had
\* their e-mail accepted.
THEOREM NoNoticeUnsent == Spec => []ProcessedIsSent
<1>1. OutboxInv => ProcessedIsSent
  BY DEF OutboxInv, SentInv
<1> QED
  BY <1>1, OutboxInvariant, PTL

\* A row or delivery in the dead letter had all its attempts.
THEOREM NoEarlyDeadLetter == Spec => []DeadIsExhausted
<1>1. OutboxInv => DeadIsExhausted
  BY DEF OutboxInv
<1> QED
  BY <1>1, OutboxInvariant, PTL

(***************************************************************************)
(* The order within a dispatch, and the notice it implements.              *)
(***************************************************************************)
\* How far a step of a dispatch gets with its row.
LEMMA DispatchOrder ==
  ASSUME OutboxTypeOK, JobInv, NEW w \in Workers, NEW r \in Rows,
         Dispatch(w, r) \/ StatementFails(w, r)
  PROVE  /\ stage'[w][r] \in {"looked", "begun", "accepted", "refused"} => KindOf[r] = "notice"
         /\ stage'[w][r] = "seen" => KindOf[r] # "orphan"
         /\ \/ emails'[r] = emails[r] /\ tries'[r] = tries[r] + 1
            \/ /\ emails'[r] = emails[r] + 1 /\ tries'[r] = tries[r]
               /\ stage[w][r] = "begun" /\ stage'[w][r] # "begun"
            \/ emails'[r] = emails[r] /\ tries'[r] = tries[r] /\ stage'[w][r] # "begun"
<1> USE DEF OutboxTypeOK, Goto, EndJob, Answered, AnsweredLast, Startable, deliveryVars, JobInv
<1>1. CASE SkipTopic(w, r)
  BY <1>1 DEF SkipTopic
<1>2. CASE RejectOrphan(w, r)
  BY <1>2 DEF RejectOrphan
<1>3. CASE FindDelivery(w, r)
  BY <1>3 DEF FindDelivery
<1>4. CASE MarkProcessed(w, r)
  BY <1>4 DEF MarkProcessed
<1>5. CASE BeginDelivery(w, r)
  BY <1>5 DEF BeginDelivery
<1>6. CASE SmtpAccepts(w, r)
  BY <1>6 DEF SmtpAccepts
<1>7. CASE SmtpRefuses(w, r)
  BY <1>7 DEF SmtpRefuses
<1>8. CASE RecordSent(w, r)
  BY <1>8 DEF RecordSent
<1>9. CASE RecordFailure(w, r)
  BY <1>9 DEF RecordFailure
<1>10. CASE MarkFailure(w, r)
  BY <1>10 DEF MarkFailure
<1>11. CASE StatementFails(w, r)
  BY <1>11 DEF StatementFails
<1> QED
  BY <1>1, <1>2, <1>3, <1>4, <1>5, <1>6, <1>7, <1>8, <1>9, <1>10, <1>11 DEF Dispatch

\* A worker that has begun pays for its e-mail with the try it has written down.
LEMMA DispatchInvDispatch ==
  ASSUME OutboxTypeOK, DispatchInv, NEW w \in Workers, NEW r \in Rows,
         Dispatch(w, r) \/ StatementFails(w, r)
  PROVE  DispatchInv'
<1> USE DEF DispatchInv
<1>1. PICK x \in Stages : OneJob(w, r, x)
  BY DispatchShape DEF Shape
<1>2. \A v \in Workers, q \in Rows : v # w \/ q # r => stage'[v][q] = stage[v][q]
  BY <1>1 DEF OneJob, OutboxTypeOK
<1>3. /\ stage'[w][r] \in {"looked", "begun", "accepted", "refused"} => KindOf[r] = "notice"
      /\ stage'[w][r] = "seen" => KindOf[r] # "orphan"
  BY DispatchOrder
<1>4. JobInv'
  BY <1>2, <1>3 DEF JobInv
<1>5. ASSUME NEW q \in Rows
      PROVE  emails'[q] + Cardinality(Begun(q)') <= tries'[q]
  <2>1. emails[q] + Cardinality(Begun(q)) <= tries[q]
    BY DEF TriedFirst
  <2>2. emails[q] \in Nat /\ tries[q] \in Nat
    BY DEF OutboxTypeOK
  <2>3. CASE q # r
    <3>1. Begun(q)' = Begun(q)
      BY <1>2, <2>3 DEF Begun
    <3>2. emails'[q] = emails[q] /\ tries'[q] = tries[q]
      BY <1>1, <2>3 DEF OneJob
    <3> QED
      BY <2>1, <3>1, <3>2
  <2>4. CASE q = r
    <3> DEFINE B == Begun(r)
    <3>1. B \in SUBSET Workers /\ B' \in SUBSET Workers
      BY DEF Begun
    <3>2. \A v \in Workers \ {w} : v \in B' <=> v \in B
      BY <1>2 DEF Begun
    <3>3. (w \in B <=> stage[w][r] = "begun") /\ (w \in B' <=> stage'[w][r] = "begun")
      BY DEF Begun
    <3> HIDE DEF B
    <3>4. /\ Cardinality(B) \in Nat /\ Cardinality(B') \in Nat
          /\ Cardinality(B') <= Cardinality(B) + 1
          /\ w \notin B' => Cardinality(B') <= Cardinality(B)
          /\ w \notin B' /\ w \in B => Cardinality(B') = Cardinality(B) - 1
      <4>1. w \notin B' => B' = B \ {w}
        BY <3>1, <3>2
      <4>2. /\ Cardinality(B) \in Nat
            /\ Cardinality(B \cup {w}) \in Nat /\ Cardinality(B \cup {w}) <= Cardinality(B) + 1
            /\ Cardinality(B \ {w}) \in Nat /\ Cardinality(B \ {w}) <= Cardinality(B)
            /\ w \in B => Cardinality(B \ {w}) = Cardinality(B) - 1
        BY <3>1, CountOne
      <4>3. CASE w \notin B'
        BY <4>1, <4>2, <4>3
      <4>4. CASE w \in B'
        <5>1. B' = B \cup {w}
          BY <3>1, <3>2, <4>4
        <5> QED
          BY <4>2, <4>4, <5>1
      <4> QED
        BY <4>3, <4>4
    <3>5. \/ emails'[r] = emails[r] /\ tries'[r] = tries[r] + 1
          \/ emails'[r] = emails[r] + 1 /\ tries'[r] = tries[r] /\ w \in B /\ w \notin B'
          \/ emails'[r] = emails[r] /\ tries'[r] = tries[r] /\ w \notin B'
      BY <3>3, DispatchOrder
    <3>6. emails[r] + Cardinality(B) <= tries[r]
      BY <2>1, <2>4 DEF B
    <3>7. emails'[r] + Cardinality(B') <= tries'[r]
      BY <2>2, <2>4, <3>4, <3>5, <3>6
    <3> QED
      BY <2>4, <3>7 DEF B
  <2> QED
    BY <2>3, <2>4
<1> QED
  BY <1>4, <1>5 DEF TriedFirst

LEMMA DispatchInvOther ==
  ASSUME OutboxTypeOK, DispatchInv, Next,
         \A w \in Workers, r \in Rows : ~Dispatch(w, r) /\ ~StatementFails(w, r)
  PROVE  DispatchInv'
<1> USE DEF DispatchInv
<1>1. /\ tries' = tries /\ emails' = emails
      /\ \A v \in Workers, q \in Rows : stage'[v][q] \in {"none", "queued", stage[v][q]}
  BY OtherShape
<1>2. JobInv'
  <2>1. ASSUME NEW v \in Workers, NEW q \in Rows
        PROVE  /\ stage'[v][q] \in {"looked", "begun", "accepted", "refused"} => KindOf[q] = "notice"
               /\ stage'[v][q] = "seen" => KindOf[q] # "orphan"
    BY <1>1 DEF JobInv
  <2> QED
    BY <2>1 DEF JobInv
<1>3. ASSUME NEW q \in Rows
      PROVE  emails'[q] + Cardinality(Begun(q)') <= tries'[q]
  <2>1. emails[q] + Cardinality(Begun(q)) <= tries[q] /\ emails[q] \in Nat /\ tries[q] \in Nat
    BY DEF TriedFirst, OutboxTypeOK
  <2>2. Begun(q)' \subseteq Begun(q) /\ Begun(q) \in SUBSET Workers
    BY <1>1 DEF Begun
  <2>3. /\ Cardinality(Begun(q)) \in Nat /\ Cardinality(Begun(q)') \in Nat
        /\ Cardinality(Begun(q)') <= Cardinality(Begun(q))
    BY <2>2, CountSubset
  <2> QED
    BY <1>1, <2>1, <2>3
<1> QED
  BY <1>2, <1>3 DEF TriedFirst

\* Only notices are tried, and no e-mail goes out before its try is written down.
THEOREM TriesWrittenFirst == Spec => []DispatchInv
<1>1. Init => DispatchInv
  <2> SUFFICES ASSUME Init
               PROVE  DispatchInv
    OBVIOUS
  <2>1. \A w \in Workers, r \in Rows : stage[w][r] = "none"
    BY DEF Init
  <2>2. \A r \in Rows : Begun(r) = {} /\ emails[r] = 0 /\ tries[r] = 0
    BY <2>1 DEF Init, Begun
  <2> QED
    BY <2>1, <2>2, FS_EmptySet DEF DispatchInv, JobInv, TriedFirst
<1>2. OutboxTypeOK /\ DispatchInv /\ [Next]_vars => DispatchInv'
  <2> SUFFICES ASSUME OutboxTypeOK, DispatchInv, [Next]_vars
               PROVE  DispatchInv'
    OBVIOUS
  <2>1. CASE UNCHANGED vars
    BY <2>1 DEF vars, deliveryVars, workerVars, DispatchInv, JobInv, TriedFirst, Begun
  <2>2. CASE Next /\ \E w \in Workers, r \in Rows : Dispatch(w, r) \/ StatementFails(w, r)
    BY <2>2, DispatchInvDispatch
  <2>3. CASE Next /\ \A w \in Workers, r \in Rows : ~Dispatch(w, r) /\ ~StatementFails(w, r)
    BY <2>3, DispatchInvOther
  <2> QED
    BY <2>1, <2>2, <2>3
<1> QED
  BY <1>1, <1>2, OutboxTypeCorrect, PTL DEF Spec

LEMMA InitIsNoticeInit == Init => Notice!Init
<1> SUFFICES ASSUME Init
             PROVE  Notice!Init
  OBVIOUS
<1>1. \A r \in Rows : status[r] = "NONE" /\ delivery[r] = "NONE"
  BY DEF Init
<1>2. /\ RowOutcome = [r \in Rows |-> "NONE"]
      /\ DeliveryOutcome = [r \in Rows |-> "OPEN"]
  BY <1>1 DEF RowOutcome, DeliveryOutcome
<1> QED
  BY <1>2 DEF Init, Notice!Init

\* Writing one row changes one outcome.
LEMMA OutcomeWritten ==
  ASSUME OutboxTypeOK, NEW r \in Rows, NEW s
  PROVE  /\ status' = [status EXCEPT ![r] = s] =>
              RowOutcome' = [RowOutcome EXCEPT ![r] = IF s \in {"PENDING", "PROCESSING"} THEN "OPEN" ELSE s]
         /\ delivery' = [delivery EXCEPT ![r] = s] =>
              DeliveryOutcome' = [DeliveryOutcome EXCEPT ![r] = IF s \in {"SENT", "DEAD"} THEN s ELSE "OPEN"]
BY DEF OutboxTypeOK, RowOutcome, DeliveryOutcome

LEMMA OutcomesKept ==
  /\ status' = status => RowOutcome' = RowOutcome
  /\ delivery' = delivery => DeliveryOutcome' = DeliveryOutcome
BY DEF RowOutcome, DeliveryOutcome

LEMMA FaultIsMishap ==
  ASSUME OutboxTypeOK
  PROVE  Fault \/ UNCHANGED faults => faults' \in {faults, faults + 1}
BY DEF Fault

\* A worker that is busy with a row has it open, unless something has failed.
LEMMA BusyIsOpen ==
  ASSUME OutboxInv, NEW w \in Workers, NEW r \in Rows, stage[w][r] # "none"
  PROVE  /\ RowOutcome[r] = "OPEN" \/ faults > 0
         /\ stage[w][r] \in {"looked", "begun", "accepted", "refused"} =>
              DeliveryOutcome[r] # "SENT" \/ faults > 0
         /\ RowOutcome[r] # "NONE"
<1> USE DEF OutboxInv
<1>1. faults = 0 \/ faults > 0
  BY OutboxAssumption DEF OutboxTypeOK
<1>2. CASE faults = 0
  BY <1>2, QuietJob DEF RowOutcome, DeliveryOutcome
<1>3. status[r] # "NONE"
  BY DEF ClaimInv
<1> QED
  BY <1>1, <1>2, <1>3 DEF RowOutcome

LEMMA ClaimIsTakeUp ==
  ASSUME OutboxInv, NEW w \in Workers, NEW S \in SUBSET Rows, Claim(w, S) \/ LoseClaim(w, S)
  PROVE  Notice!Next
<1> USE DEF OutboxInv
<1>1. /\ Candidates(w, S) /\ TakeRows(S)
      /\ delivery' = delivery /\ tries' = tries /\ emails' = emails
      /\ faults' \in {faults, faults + 1}
  BY FaultIsMishap DEF Claim, LoseClaim, deliveryVars
<1>2. RowOutcome' = RowOutcome
  BY <1>1 DEF Candidates, TakeRows, Claimable, RowOutcome
<1>3. DeliveryOutcome' = DeliveryOutcome
  BY <1>1, OutcomesKept
<1>4. ASSUME NEW r \in S
      PROVE  RowOutcome[r] = "OPEN" /\ attempts[r] < MaxAttempts + faults
  <2>1. r \in ready /\ status[r] \in {"PENDING", "PROCESSING"}
    BY <1>1 DEF Candidates, Claimable
  <2>2. Again(r) = 1
    BY <2>1 DEF Again, Returned
  <2>3. Exhausted(attempts[r]) =>
          attempts[r] + Cardinality(Retriers(r)) + Again(r) <= MaxAttempts + faults
    BY DEF RetryBudget
  <2>4. /\ Cardinality(Retriers(r)) \in Nat
        /\ attempts[r] \in Nat /\ faults \in Nat /\ MaxAttempts \in Nat
    BY CountType, OutboxAssumption DEF OutboxTypeOK
  <2> QED
    BY <2>1, <2>2, <2>3, <2>4 DEF Exhausted, RowOutcome
<1>5. Notice!TakeUp(S)
  BY <1>1, <1>2, <1>3, <1>4 DEF Notice!TakeUp, TakeRows
<1> QED
  BY <1>1, <1>5 DEF Notice!Next, Notice!Proceed

LEMMA EnvironmentIsNotice ==
  ASSUME OutboxInv, NEW r \in Rows, Enqueue(r) \/ TimePasses(r) \/ LeaseOverruns(r)
  PROVE  Notice!Next
<1> USE DEF OutboxInv, deliveryVars, workerVars
<1>1. CASE Enqueue(r)
  <2>1. RowOutcome[r] = "NONE"
    BY <1>1 DEF Enqueue, RowOutcome
  <2>2. RowOutcome' = [RowOutcome EXCEPT ![r] = "OPEN"] /\ DeliveryOutcome' = DeliveryOutcome
    BY <1>1, OutcomeWritten, OutcomesKept DEF Enqueue
  <2>3. Notice!Write(r)
    BY <1>1, <2>1, <2>2 DEF Enqueue, Notice!Write
  <2> QED
    BY <1>1, <2>3 DEF Enqueue, Notice!Next, Notice!Proceed
<1>2. CASE TimePasses(r) \/ LeaseOverruns(r)
  BY <1>2, OutcomesKept, FaultIsMishap DEF TimePasses, LeaseOverruns, Notice!Next, Notice!Proceed
<1> QED
  BY <1>1, <1>2

LEMMA WorkerIsNotice ==
  ASSUME OutboxInv, NEW w \in Workers, ClaimFails(w) \/ BackoffPasses(w) \/ Crash(w)
  PROVE  Notice!Next
BY OutcomesKept, FaultIsMishap
   DEF OutboxInv, ClaimFails, BackoffPasses, Crash, rowVars, deliveryVars, Notice!Next, Notice!Proceed

\* Each statement of a dispatch is a step of the notice, or none that it shows.
LEMMA DispatchIsNotice ==
  ASSUME OutboxInv, DispatchInv, NEW w \in Workers, NEW r \in Rows,
         Dispatch(w, r) \/ StatementFails(w, r)
  PROVE  Notice!Next
<1> DEFINE shown == <<RowOutcome, DeliveryOutcome, attempts, tries, emails>>
<1>1. faults' \in {faults, faults + 1}
  <2>1. Fault \/ UNCHANGED faults
    BY DEF Dispatch, SkipTopic, RejectOrphan, FindDelivery, MarkProcessed, BeginDelivery,
           SmtpAccepts, SmtpRefuses, RecordSent, RecordFailure, MarkFailure, StatementFails,
           Answered, AnsweredLast
  <2> QED
    BY <2>1, FaultIsMishap DEF OutboxInv
<1>2. stage[w][r] # "none"
  BY DispatchShape DEF OutboxInv, Shape, OneJob
<1>3. /\ RowOutcome[r] = "OPEN" \/ faults > 0
      /\ stage[w][r] \in {"looked", "begun", "accepted", "refused"} =>
           DeliveryOutcome[r] # "SENT" \/ faults > 0
      /\ RowOutcome[r] # "NONE"
  BY <1>2, BusyIsOpen
<1>4. attempts[r] \in Nat /\ tries[r] \in Nat /\ emails[r] \in Nat /\ faults \in Nat
  BY OutboxAssumption DEF OutboxInv, OutboxTypeOK
<1> USE DEF OutboxInv
<1>5. CASE SkipTopic(w, r) \/ RejectOrphan(w, r) \/ SmtpRefuses(w, r) \/ StatementFails(w, r)
  <2>1. UNCHANGED shown
    BY <1>5, OutcomesKept
       DEF SkipTopic, RejectOrphan, SmtpRefuses, StatementFails, rowVars, deliveryVars
  <2> QED
    BY <1>1, <2>1 DEF Notice!Next, Notice!Proceed
<1>6. CASE FindDelivery(w, r)
  <2>1. DeliveryOutcome' = DeliveryOutcome
    BY <1>6 DEF FindDelivery, DeliveryOutcome, OutboxTypeOK
  <2>2. UNCHANGED shown
    BY <1>6, <2>1, OutcomesKept DEF FindDelivery, rowVars
  <2> QED
    BY <1>1, <2>2 DEF Notice!Next, Notice!Proceed
<1>7. CASE MarkProcessed(w, r)
  <2>1. KindOf[r] = "silent" \/ emails[r] > 0
    BY <1>7, OutboxAssumption DEF MarkProcessed, DispatchInv, JobInv, SentInv
  <2>2. RowOutcome' = [RowOutcome EXCEPT ![r] = "PROCESSED"]
    BY <1>7, OutcomeWritten DEF MarkProcessed
  <2>3. Notice!Finish(r)
    BY <1>3, <1>7, <2>1, <2>2, OutcomesKept
       DEF MarkProcessed, deliveryVars, Notice!Finish, Notice!Settle
  <2> QED
    BY <1>1, <2>3 DEF Notice!Next, Notice!Proceed
<1>8. CASE BeginDelivery(w, r)
  <2>1. tries[r] < attempts[r]
    <3>1. w \in Untried(r) /\ Untried(r) \in SUBSET Workers
      BY <1>8 DEF BeginDelivery, Untried
    <3>2. Cardinality(Untried(r)) \in Nat /\ Cardinality(Untried(r) \ {w}) \in Nat
          /\ Cardinality(Untried(r) \ {w}) = Cardinality(Untried(r)) - 1
      BY <3>1, CountOne
    <3>3. tries[r] + Cardinality(Untried(r)) <= attempts[r]
      BY DEF TriesInv
    <3> QED
      BY <1>4, <3>2, <3>3
  <2>2. DeliveryOutcome' = [DeliveryOutcome EXCEPT ![r] = "OPEN"]
    BY <1>8, OutcomeWritten DEF BeginDelivery
  <2>3. Notice!Try(r)
    BY <1>3, <1>8, <2>1, <2>2, OutcomesKept
       DEF BeginDelivery, rowVars, Notice!Try, Notice!Tell
  <2> QED
    BY <1>1, <2>3 DEF Notice!Next, Notice!Proceed
<1>9. CASE SmtpAccepts(w, r)
  <2>1. KindOf[r] = "notice"
    BY <1>9 DEF SmtpAccepts, DispatchInv, JobInv
  <2>2. emails[r] < tries[r]
    <3>1. w \in Begun(r) /\ Begun(r) \in SUBSET Workers
      BY <1>9 DEF SmtpAccepts, Begun
    <3>2. Cardinality(Begun(r)) \in Nat /\ Cardinality(Begun(r) \ {w}) \in Nat
          /\ Cardinality(Begun(r) \ {w}) = Cardinality(Begun(r)) - 1
      BY <3>1, CountOne
    <3>3. emails[r] + Cardinality(Begun(r)) <= tries[r]
      BY DEF DispatchInv, TriedFirst
    <3> QED
      BY <1>4, <3>2, <3>3
  <2>3. emails[r] <= faults
    <3>1. w \in Senders(r) /\ Senders(r) \in SUBSET Workers
      BY <1>9 DEF SmtpAccepts, Senders, Unsent
    <3>2. Cardinality(Senders(r)) \in Nat /\ Cardinality(Senders(r) \ {w}) \in Nat
          /\ Cardinality(Senders(r) \ {w}) = Cardinality(Senders(r)) - 1
      BY <3>1, CountOne
    <3>3. emails[r] + Cardinality(Senders(r)) + Again(r) <= 1 + faults /\ Again(r) \in {0, 1}
      BY AgainType DEF EmailBudget
    <3> QED
      BY <1>4, <3>2, <3>3
  <2>4. Notice!Send(r)
    BY <1>3, <1>9, <2>1, <2>2, <2>3, OutcomesKept
       DEF SmtpAccepts, rowVars, deliveryVars, Notice!Send
  <2> QED
    BY <1>1, <2>4 DEF Notice!Next, Notice!Proceed
<1>10. CASE RecordSent(w, r)
  <2>1. emails[r] > 0
    BY <1>10 DEF RecordSent, SentInv
  <2>2. /\ RowOutcome' = [RowOutcome EXCEPT ![r] = "PROCESSED"]
        /\ DeliveryOutcome' = [DeliveryOutcome EXCEPT ![r] = "SENT"]
    BY <1>10, OutcomeWritten DEF RecordSent
  <2>3. Notice!Record(r)
    BY <1>3, <1>10, <2>1, <2>2 DEF RecordSent, Notice!Record, Notice!Tell, Notice!Settle
  <2> QED
    BY <1>1, <2>3 DEF Notice!Next, Notice!Proceed
<1>11. CASE RecordFailure(w, r)
  <2>1. Exhausted(tried[w][r]) => tries[r] >= MaxAttempts
    BY <1>4, OutboxAssumption DEF Exhausted, TriesInv, OutboxTypeOK
  <2>2. DeliveryOutcome' = [DeliveryOutcome EXCEPT ![r] = IF Exhausted(tried[w][r]) THEN "DEAD" ELSE "OPEN"]
    BY <1>11, OutcomeWritten DEF RecordFailure
  <2>3. Notice!Fail(r)
    BY <1>3, <1>11, <2>1, <2>2, OutcomesKept DEF RecordFailure, rowVars, Notice!Fail, Notice!Tell
  <2> QED
    BY <1>1, <2>3 DEF Notice!Next, Notice!Proceed
<1>12. CASE MarkFailure(w, r)
  <2>1. Exhausted(claim[w][r]) => attempts[r] >= MaxAttempts
    BY <1>2, <1>4, OutboxAssumption DEF Exhausted, ClaimInv
  <2>2. RowOutcome' = [RowOutcome EXCEPT ![r] = IF Exhausted(claim[w][r]) THEN "DEAD" ELSE "OPEN"]
    BY <1>12, OutcomeWritten DEF MarkFailure
  <2>3. Notice!GiveUp(r) \/ Notice!PutBack(r)
    BY <1>3, <1>12, <2>1, <2>2, OutcomesKept
       DEF MarkFailure, deliveryVars, Notice!GiveUp, Notice!PutBack, Notice!Settle
  <2> QED
    BY <1>1, <2>3 DEF Notice!Next, Notice!Proceed
<1> QED
  BY <1>5, <1>6, <1>7, <1>8, <1>9, <1>10, <1>11, <1>12 DEF Dispatch

LEMMA StepIsNoticeStep ==
  ASSUME OutboxInv, DispatchInv, [Next]_vars
  PROVE  [Notice!Next]_(Notice!noticeVars)
<1>1. CASE UNCHANGED vars
  BY <1>1, OutcomesKept DEF vars, rowVars, deliveryVars, Notice!noticeVars
<1>2. CASE \E r \in Rows : Enqueue(r) \/ TimePasses(r) \/ LeaseOverruns(r)
  BY <1>2, EnvironmentIsNotice
<1>3. CASE \E w \in Workers, S \in SUBSET Rows : Claim(w, S) \/ LoseClaim(w, S)
  BY <1>3, ClaimIsTakeUp
<1>4. CASE \E w \in Workers : ClaimFails(w) \/ BackoffPasses(w) \/ Crash(w)
  BY <1>4, WorkerIsNotice
<1>5. CASE \E w \in Workers, r \in Rows : Dispatch(w, r) \/ StatementFails(w, r)
  BY <1>5, DispatchIsNotice
<1> QED
  BY <1>1, <1>2, <1>3, <1>4, <1>5 DEF Next

\* Workers, batches and leases implement the notice: what is taken up, tried and
\* sent keeps to its order and its counts, and only a fault sends again or
\* undoes an outcome.
THEOREM NoticesLive == Spec => ImplementsNoticeLife
<1>1. OutboxInv /\ DispatchInv /\ [Next]_vars => [Notice!Next]_(Notice!noticeVars)
  BY StepIsNoticeStep
<1> QED
  BY <1>1, InitIsNoticeInit, OutboxInvariant, TriesWrittenFirst, PTL
     DEF Spec, ImplementsNoticeLife, Notice!Spec

\* The guards of the notice: without a mishap no outcome is undone.
LEMMA NoticeKeepsOutcomes ==
  ASSUME OutboxTypeOK, [Notice!Next]_(Notice!noticeVars), faults = 0, NEW r \in Rows
  PROVE  /\ RowOutcome[r] \in Closed => RowOutcome'[r] = RowOutcome[r]
         /\ DeliveryOutcome[r] = "SENT" => DeliveryOutcome'[r] = "SENT"
<1> DEFINE outcome == RowOutcome
           told == DeliveryOutcome
<1>1. /\ outcome = [q \in Rows |-> outcome[q]]
      /\ told = [q \in Rows |-> told[q]]
  BY DEF RowOutcome, DeliveryOutcome
<1>2. ASSUME NEW q \in Rows, NEW o, outcome[q] \notin Closed, outcome' = [outcome EXCEPT ![q] = o]
      PROVE  outcome[r] \in Closed => outcome'[r] = outcome[r]
  <2> HIDE DEF outcome
  <2> QED
    BY <1>1, <1>2
<1>3. ASSUME NEW q \in Rows, NEW d, told[q] # "SENT", told' = [told EXCEPT ![q] = d]
      PROVE  told[r] = "SENT" => told'[r] = "SENT"
  <2> HIDE DEF told
  <2> QED
    BY <1>1, <1>3
<1>4. ASSUME NEW q \in Rows, NEW o, Notice!Settle(q, o)
      PROVE  outcome[r] \in Closed => outcome'[r] = outcome[r]
  BY <1>2, <1>4 DEF Notice!Settle, Closed
<1>5. ASSUME NEW q \in Rows, NEW d, Notice!Tell(q, d)
      PROVE  told[r] = "SENT" => told'[r] = "SENT"
  BY <1>3, <1>5 DEF Notice!Tell
<1>6. ASSUME NEW q \in Rows, Notice!Write(q)
      PROVE  outcome[r] \in Closed => outcome'[r] = outcome[r]
  BY <1>2, <1>6 DEF Notice!Write, Closed
<1> HIDE DEF outcome, told
<1>7. /\ UNCHANGED RowOutcome => (outcome[r] \in Closed => outcome'[r] = outcome[r])
      /\ UNCHANGED DeliveryOutcome => (told[r] = "SENT" => told'[r] = "SENT")
  BY DEF outcome, told
<1>8. /\ outcome[r] \in Closed => outcome'[r] = outcome[r]
      /\ told[r] = "SENT" => told'[r] = "SENT"
  BY <1>4, <1>5, <1>6, <1>7
     DEF Notice!Next, Notice!Proceed, Notice!noticeVars, Notice!TakeUp, Notice!Write, Notice!Try,
         Notice!Send, Notice!Record, Notice!Fail, Notice!Finish, Notice!GiveUp, Notice!PutBack
<1> QED
  BY <1>8 DEF outcome, told

\* As long as nothing has failed, workers do not undo each other's outcomes.
THEOREM OutcomesHoldWithoutFault == Spec => OutcomesNeedFault
<1>1. ASSUME OutboxInv, DispatchInv, [Next]_vars, faults' = 0, NEW r \in Rows
      PROVE  /\ status[r] \in Closed => status'[r] = status[r]
             /\ delivery[r] = "SENT" => delivery'[r] = "SENT"
  <2>1. [Notice!Next]_(Notice!noticeVars)
    BY <1>1, StepIsNoticeStep
  <2>2. faults = 0
    <3>1. faults' \in {faults, faults + 1}
      BY <2>1 DEF Notice!Next, Notice!noticeVars
    <3>2. faults \in Nat
      BY <1>1, OutboxAssumption DEF OutboxInv, OutboxTypeOK
    <3> QED
      BY <1>1, <3>1, <3>2
  <2>3. /\ RowOutcome[r] \in Closed => RowOutcome'[r] = RowOutcome[r]
        /\ DeliveryOutcome[r] = "SENT" => DeliveryOutcome'[r] = "SENT"
    BY <1>1, <2>1, <2>2, NoticeKeepsOutcomes DEF OutboxInv
  <2> QED
    BY <2>3 DEF RowOutcome, DeliveryOutcome, Closed
<1>2. OutboxInv /\ DispatchInv /\ [Next]_vars =>
        [faults' = 0 =>
           \A r \in Rows :
             /\ status[r] \in Closed => status'[r] = status[r]
             /\ delivery[r] = "SENT" => delivery'[r] = "SENT"]_vars
  BY <1>1
<1> QED
  BY <1>2, OutboxInvariant, TriesWrittenFirst, PTL DEF Spec, OutcomesNeedFault
==============================================================================
