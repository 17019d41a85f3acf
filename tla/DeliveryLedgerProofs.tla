------------------------ MODULE DeliveryLedgerProofs ------------------------
(* Machine-checked facts about DeliveryLedger, for every set of entries and   *)
(* every bound on tries and claims.                                           *)
EXTENDS DeliveryLedger, TLAPS

USE LedgeredAssumption, BoundsAssumption

\* The shapes of row that the queue statements write are rows.
LEMMA RowShapes ==
    ASSUME NEW r \in Row, NEW st \in RowStatus, NEW retry \in {"none", "later", "due"}
    PROVE  /\ Released(r, st, retry) \in Row
           /\ Completed(r) \in Row
           /\ NoRow \in Row /\ NewRow \in Row
  <1>0. 0 \in 0..MaxClaims
    OBVIOUS
  <1>1. Released(r, st, retry) \in Row
    BY <1>0 DEF Row, Released
  <1>2. Completed(r) \in Row
    <2>1. r.retry \in {"none", "later", "due"}
      BY DEF Row
    <2>2. QED
      BY <1>0, <2>1 DEF Row, RowStatus, Released, Completed
  <1>3. NoRow \in Row
    BY DEF Row, RowStatus, NoRow
  <1>4. NewRow \in Row
    BY <1>3 DEF Row, RowStatus, NewRow
  <1>5. QED
    BY <1>1, <1>2, <1>3, <1>4

\* FailClaim and CompleteClaim keep the queue well typed.
LEMMA ClaimWritesTyped ==
    ASSUME TypeOK, NEW i \in Entries, NEW c \in Claims
    PROVE  /\ CompleteClaim(i, c) => row' \in [Entries -> Row]
           /\ \A retry \in {"none", "later", "due"} :
                FailClaim(i, c, retry) => row' \in [Entries -> Row]
  <1>1. Completed(row[i]) \in Row
    BY RowShapes DEF TypeOK, RowStatus
  <1>2. \A retry \in {"none", "later", "due"} : Released(row[i], "failed", retry) \in Row
    BY RowShapes DEF TypeOK, RowStatus
  <1>3. QED
    BY <1>1, <1>2 DEF TypeOK, CompleteClaim, FailClaim

\* A goroutine's phase change keeps the claims well typed.
LEMMA SetPhaseTyped ==
    ASSUME TypeOK, NEW i \in Entries, NEW c \in Claims, NEW p \in Phase, SetPhase(i, c, p)
    PROVE  claim' \in [Entries -> [Claims -> Claim]]
  <1>1. claim[i][c] \in Claim
    BY DEF TypeOK
  <1>2. [claim[i][c] EXCEPT !.phase = p] \in Claim
    BY <1>1 DEF Claim
  <1>3. QED
    BY <1>2 DEF TypeOK, SetPhase

\* RecordAttemptOutcome keeps every table well typed.
LEMMA OutcomeTyped ==
    ASSUME TypeOK, NEW i \in Entries, NEW c \in Claims, NEW st \in IntentStatus,
           RecordAttemptOutcome(i, c, st)
    PROVE  /\ intent' \in [Entries -> IntentStatus]
           /\ row' \in [Entries -> Row]
           /\ attempts' \in [Entries -> Seq(Attempt)]
           /\ accepted' \in [Entries -> SUBSET Claims] /\ misread' \in [Entries -> SUBSET Claims]
           /\ recon' \in [Entries -> SUBSET Nat]
  <1>1. RowAfterOutcome(row[i], st) \in Row
    BY RowShapes DEF TypeOK, RowStatus, RowAfterOutcome
  <1>2. row' \in [Entries -> Row]
    BY <1>1 DEF TypeOK, RecordAttemptOutcome
  <1>3. attempts' \in [Entries -> Seq(Attempt)]
    <2>1. claim[i][c].no \in 1..Len(attempts[i]) /\ attempts[i] \in Seq(Attempt)
      BY DEF TypeOK, RecordAttemptOutcome, OutcomeAllowed, LastNo
    <2>2. attempts[i][claim[i][c].no] \in Attempt
      BY <2>1
    <2>3. [attempts[i][claim[i][c].no] EXCEPT !.st = st] \in Attempt
      BY <2>2 DEF Attempt
    <2>4. [attempts[i] EXCEPT ![claim[i][c].no].st = st] \in Seq(Attempt)
      BY <2>1, <2>3
    <2>5. QED
      BY <2>4 DEF TypeOK, RecordAttemptOutcome
  <1>4. recon' \in [Entries -> SUBSET Nat]
    BY DEF TypeOK, RecordAttemptOutcome, Claim
  <1>5. QED
    BY <1>2, <1>3, <1>4 DEF TypeOK, RecordAttemptOutcome

\* A worker that gives up, and one that writes an outcome, keep the types.
LEMMA GiveUpTyped ==
    ASSUME TypeOK, NEW i \in Entries, NEW c \in Claims, GiveUp(i, c)
    PROVE  TypeOK'
  <1>1. claim' \in [Entries -> [Claims -> Claim]]
    BY SetPhaseTyped DEF GiveUp, Phase
  <1>2. QED
    BY <1>1 DEF TypeOK, GiveUp

\* A transaction of RecordAttemptOutcome followed by a phase change keeps the types.
LEMMA OutcomeStepTyped ==
    ASSUME TypeOK, NEW i \in Entries, NEW c \in Claims, NEW st \in IntentStatus, NEW p \in Phase,
           RecordAttemptOutcome(i, c, st), SetPhase(i, c, p)
    PROVE  TypeOK'
  <1>1. claim' \in [Entries -> [Claims -> Claim]]
    BY SetPhaseTyped
  <1>2. QED
    BY <1>1, OutcomeTyped DEF TypeOK

\* handleError keeps the types.
LEMMA HandleErrorTyped ==
    ASSUME TypeOK, NEW i \in Entries, NEW c \in Claims, NEW retryable \in BOOLEAN,
           HandleError(i, c, retryable)
    PROVE  TypeOK'
  <1>1. claim' \in [Entries -> [Claims -> Claim]]
    BY SetPhaseTyped DEF HandleError, Phase
  <1>2. row' \in [Entries -> Row]
    BY ClaimWritesTyped DEF HandleError
  <1>3. QED
    BY <1>1, <1>2 DEF TypeOK, HandleError

\* Every step of the worker keeps the types.
LEMMA WorkTyped ==
    ASSUME TypeOK, NEW i \in Entries, NEW c \in Claims, Work(i, c)
    PROVE  TypeOK'
  <1>1. CASE IntegrationMissing(i, c)
    BY <1>1, HandleErrorTyped DEF IntegrationMissing
  <1>2. CASE BreakerOpen(i, c) \/ AudienceUnavailable(i, c)
    <2>1. claim' \in [Entries -> [Claims -> Claim]]
      BY <1>2, SetPhaseTyped DEF BreakerOpen, AudienceUnavailable, Phase
    <2>2. row' \in [Entries -> Row]
      BY <1>2, ClaimWritesTyped DEF BreakerOpen, AudienceUnavailable
    <2>3. QED
      BY <1>2, <2>1, <2>2 DEF TypeOK, BreakerOpen, AudienceUnavailable
  <1>3. CASE PassLimits(i, c)
    <2>1. claim' \in [Entries -> [Claims -> Claim]]
      BY <1>3, SetPhaseTyped DEF PassLimits, Phase
    <2>2. QED
      BY <1>3, <2>1 DEF TypeOK, PassLimits
  <1>4. CASE JourneyEnded(i, c)
    <2>1. claim' \in [Entries -> [Claims -> Claim]]
      BY <1>4, SetPhaseTyped DEF JourneyEnded, Phase
    <2>2. row' \in [Entries -> Row]
      BY <1>4, ClaimWritesTyped DEF JourneyEnded
    <2>3. QED
      BY <1>4, <2>1, <2>2 DEF TypeOK, JourneyEnded
  <1>5. CASE AudienceLeft(i, c)
    <2>1. claim' \in [Entries -> [Claims -> Claim]]
      BY <1>5, SetPhaseTyped DEF AudienceLeft, Phase
    <2>2. QED
      BY <1>5, <2>1 DEF TypeOK, AudienceLeft, IntentStatus
  <1>6. CASE FinishSuppression(i, c)
    <2>1. claim' \in [Entries -> [Claims -> Claim]]
      BY <1>6, SetPhaseTyped DEF FinishSuppression, Phase
    <2>2. row' \in [Entries -> Row]
      BY <1>6, ClaimWritesTyped DEF FinishSuppression
    <2>3. QED
      BY <1>6, <2>1, <2>2 DEF TypeOK, FinishSuppression
  <1>7. CASE StartAttempt(i, c)
    <2>1. CASE MayStart(i)
      <3>1. [st |-> "submitting", tok |-> c] \in Attempt
        BY DEF Attempt, IntentStatus
      <3>2. attempts' \in [Entries -> Seq(Attempt)]
        <4>1. Append(attempts[i], [st |-> "submitting", tok |-> c]) \in Seq(Attempt)
          BY <3>1 DEF TypeOK
        <4>2. QED
          BY <1>7, <2>1, <4>1 DEF TypeOK, StartAttempt
      <3>3. claim[i][c] \in Claim /\ Len(attempts[i]) + 1 \in Nat
        BY DEF TypeOK
      <3>4. [phase |-> "started", tries |-> claim[i][c].tries, no |-> Len(attempts[i]) + 1] \in Claim
        BY <3>3 DEF Claim, Phase
      <3>5. claim' \in [Entries -> [Claims -> Claim]]
        <4> DEFINE cl == [phase |-> "started", tries |-> claim[i][c].tries, no |-> Len(attempts[i]) + 1]
        <4>1. claim' = [claim EXCEPT ![i][c] = cl]
          BY <1>7, <2>1 DEF StartAttempt, LastNo
        <4>2. cl \in Claim
          BY <3>4
        <4> HIDE DEF cl
        <4>3. QED
          BY <4>1, <4>2 DEF TypeOK
      <3>6. intent' \in [Entries -> IntentStatus]
        BY <1>7, <2>1 DEF TypeOK, StartAttempt, IntentStatus
      <3>7. QED
        BY <1>7, <3>2, <3>5, <3>6 DEF TypeOK, StartAttempt
    <2>2. CASE ~MayStart(i)
      BY <1>7, <2>2, GiveUpTyped DEF StartAttempt, GiveUp
    <2>3. QED
      BY <2>1, <2>2
  <1>8. CASE SubmitEmail(i, c)
    <2>1. PICK a \in ProviderAnswers :
            /\ SetPhase(i, c, a.told)
            /\ accepted' = accepted \/ accepted' = [accepted EXCEPT ![i] = @ \cup {c}]
            /\ misread' = misread \/ misread' = [misread EXCEPT ![i] = @ \cup {c}]
      BY <1>8, Zenon DEF SubmitEmail
    <2>2. a.told \in Phase
      BY <2>1 DEF ProviderAnswers, Phase
    <2>3. claim' \in [Entries -> [Claims -> Claim]]
      BY <2>1, <2>2, SetPhaseTyped
    <2>4. accepted' \in [Entries -> SUBSET Claims] /\ misread' \in [Entries -> SUBSET Claims]
      <3>1. /\ accepted \in [Entries -> SUBSET Claims] /\ accepted[i] \cup {c} \in SUBSET Claims
            /\ misread \in [Entries -> SUBSET Claims] /\ misread[i] \cup {c} \in SUBSET Claims
        BY DEF TypeOK
      <3>2. accepted' \in [Entries -> SUBSET Claims]
        BY <2>1, <3>1
      <3>3. misread' \in [Entries -> SUBSET Claims]
        BY <2>1, <3>1
      <3>4. QED
        BY <3>2, <3>3
    <2>5. QED
      BY <1>8, <2>3, <2>4 DEF TypeOK, SubmitEmail
  <1>9. CASE RecordDeliveryFailure(i, c)
    <2>1. FailureStatus(i, c) \in IntentStatus
      BY DEF FailureStatus, IntentStatus
    <2>2. QED
      BY <1>9, <2>1, OutcomeStepTyped, GiveUpTyped DEF RecordDeliveryFailure, Phase
  <1>10. CASE PersistAccepted(i, c)
    BY <1>10, OutcomeStepTyped, GiveUpTyped DEF PersistAccepted, Phase, IntentStatus
  <1>11. CASE Confirm(i, c)
    BY <1>11, OutcomeStepTyped, GiveUpTyped DEF Confirm, Phase, IntentStatus
  <1>12. CASE FinishUnledgered(i, c)
    <2>1. CASE claim[i][c].phase = "accepted"
      <3>1. claim' \in [Entries -> [Claims -> Claim]]
        BY <1>12, <2>1, SetPhaseTyped DEF FinishUnledgered, Phase
      <3>2. row' \in [Entries -> Row]
        BY <1>12, <2>1, ClaimWritesTyped DEF FinishUnledgered
      <3>3. QED
        BY <1>12, <2>1, <3>1, <3>2 DEF TypeOK, FinishUnledgered
    <2>2. CASE claim[i][c].phase # "accepted"
      BY <1>12, <2>2, HandleErrorTyped DEF FinishUnledgered
    <2>3. QED
      BY <2>1, <2>2
  <1>13. QED
    BY <1>1, <1>2, <1>3, <1>4, <1>5, <1>6, <1>7, <1>8, <1>9, <1>10, <1>11, <1>12 DEF Work

\* ClaimPending keeps the types.
LEMMA ClaimPendingTyped ==
    ASSUME TypeOK, NEW i \in Entries, NEW c \in Claims, ClaimPending(i, c)
    PROVE  TypeOK'
  <1>1. row[i] \in Row /\ c \in 0..MaxClaims
    BY DEF TypeOK, Claims
  <1>2. Leased(row[i], c) \in Row
    <2>1. row[i].tries + 1 \in Nat
      BY <1>1 DEF Row
    <2>2. QED
      BY <1>1, <2>1 DEF Row, RowStatus, Leased
  <1>3. row' \in [Entries -> Row]
    BY <1>2 DEF TypeOK, ClaimPending
  <1>4. [phase |-> "claimed", tries |-> row[i].tries + 1, no |-> 0] \in Claim
    BY <1>1 DEF Row, Claim, Phase
  <1>5. claim' \in [Entries -> [Claims -> Claim]]
    BY <1>4 DEF TypeOK, ClaimPending
  <1>6. QED
    BY <1>3, <1>5 DEF TypeOK, ClaimPending

\* Receipts keep the types.
LEMMA ReceiptTyped ==
    ASSUME TypeOK, NEW i \in Entries, NEW st \in ReceiptTarget, RecordReceipt(i, st)
    PROVE  TypeOK'
  <1>1. st \in IntentStatus
    BY DEF ReceiptTarget, IntentStatus
  <1>2. attempts[i] \in Seq(Attempt) /\ Len(attempts[i]) \in 1..Len(attempts[i])
    BY DEF TypeOK, RecordReceipt, LastNo
  <1>3. attempts[i][Len(attempts[i])] \in Attempt
    BY <1>2
  <1>4. [attempts[i][Len(attempts[i])] EXCEPT !.st = st] \in Attempt
    BY <1>1, <1>3 DEF Attempt
  <1>5. [attempts[i] EXCEPT ![Len(attempts[i])].st = st] \in Seq(Attempt)
    BY <1>2, <1>4
  <1>6. attempts' \in [Entries -> Seq(Attempt)]
    BY <1>5 DEF TypeOK, RecordReceipt, LastNo
  <1>7. row' \in [Entries -> Row]
    <2>1. Completed(row[i]) \in Row
      BY RowShapes DEF TypeOK, RowStatus
    <2>2. QED
      BY <2>1 DEF TypeOK, RecordReceipt
  <1>8. QED
    BY <1>1, <1>6, <1>7 DEF TypeOK, RecordReceipt

\* Operator actions keep the types.
LEMMA ManageTyped ==
    ASSUME TypeOK, NEW i \in Entries, Manage(i)
    PROVE  TypeOK'
  <1>1. CASE RequestReconciliation(i)
    <2>1. LastNo(i) \in Nat
      BY DEF TypeOK, LastNo
    <2>2. QED
      BY <1>1, <2>1 DEF TypeOK, RequestReconciliation
  <1>2. ASSUME NEW action \in Resolution, ResolveUnknown(i, action)
        PROVE  TypeOK'
    <2>1. PICK n \in 1..LastNo(i) : attempts' = [attempts EXCEPT ![i][n].st = ResolvedAttempt(action)]
      BY <1>2 DEF ResolveUnknown
    <2>2. ResolvedAttempt(action) \in IntentStatus /\ ResolvedIntent(action) \in IntentStatus
      BY DEF ResolvedAttempt, ResolvedIntent, IntentStatus
    <2>3. attempts[i] \in Seq(Attempt) /\ attempts[i][n] \in Attempt
      BY DEF TypeOK, LastNo
    <2>4. [attempts[i][n] EXCEPT !.st = ResolvedAttempt(action)] \in Attempt
      BY <2>2, <2>3 DEF Attempt
    <2>5. [attempts[i] EXCEPT ![n].st = ResolvedAttempt(action)] \in Seq(Attempt)
      BY <2>3, <2>4 DEF LastNo
    <2>6. attempts' \in [Entries -> Seq(Attempt)]
      BY <2>1, <2>5 DEF TypeOK
    <2>7. ResolvedRow(row[i], action) \in Row
      BY RowShapes DEF TypeOK, RowStatus, ResolvedRow
    <2>8. row' \in [Entries -> Row]
      BY <1>2, <2>7 DEF TypeOK, ResolveUnknown
    <2>9. QED
      BY <1>2, <2>2, <2>6, <2>8 DEF TypeOK, ResolveUnknown
  <1>3. CASE PauseRow(i) \/ ResumeRow(i)
    <2>1. row[i] \in Row
      BY DEF TypeOK
    <2>2. [row[i] EXCEPT !.st = "paused"] \in Row /\ [row[i] EXCEPT !.st = "pending", !.retry = "none"] \in Row
      BY <2>1 DEF Row, RowStatus
    <2>3. row' \in [Entries -> Row]
      BY <1>3, <2>2 DEF TypeOK, PauseRow, ResumeRow
    <2>4. QED
      BY <1>3, <2>3 DEF TypeOK, PauseRow, ResumeRow
  <1>4. CASE DeleteRow(i) \/ DeleteForEmail(i)
    <2>1. NoRow \in Row
      BY RowShapes DEF TypeOK, RowStatus
    <2>2. QED
      BY <1>4, <2>1 DEF TypeOK, DeleteRow, DeleteForEmail
  <1>5. QED
    BY <1>1, <1>2, <1>3, <1>4 DEF Manage

\* Every step keeps every table and every goroutine well typed.
LEMMA TypeStep == TypeOK /\ [Next]_vars => TypeOK'
  <1> SUFFICES ASSUME TypeOK, [Next]_vars PROVE TypeOK'
    OBVIOUS
  <1>1. ASSUME NEW i \in Entries, Produce(i) PROVE TypeOK'
    <2>1. NewRow \in Row
      BY <1>1, RowShapes DEF TypeOK, RowStatus
    <2>2. QED
      BY <1>1, <2>1 DEF TypeOK, Produce, ReserveIntent, ReserveAndEnqueue, Enqueue, IntentStatus
  <1>2. ASSUME NEW i \in Entries, Receipts(i) PROVE TypeOK'
    BY <1>2, ReceiptTyped DEF Receipts
  <1>3. ASSUME NEW i \in Entries, Manage(i) PROVE TypeOK'
    BY <1>3, ManageTyped
  <1>4. ASSUME NEW i \in Entries, LeaseExpires(i) \/ RetryDue(i) PROVE TypeOK'
    <2>1. row[i] \in Row
      BY <1>4 DEF TypeOK
    <2>2. [row[i] EXCEPT !.lease = "expired"] \in Row /\ [row[i] EXCEPT !.retry = "due"] \in Row
      BY <2>1 DEF Row
    <2>3. row' \in [Entries -> Row]
      BY <1>4, <2>2 DEF TypeOK, LeaseExpires, RetryDue
    <2>4. QED
      BY <1>4, <2>3 DEF TypeOK, LeaseExpires, RetryDue
  <1>5. ASSUME NEW i \in Entries, NEW c \in Claims, ClaimPending(i, c) \/ Work(i, c) \/ Abandon(i, c)
        PROVE  TypeOK'
    BY <1>5, ClaimPendingTyped, WorkTyped, GiveUpTyped DEF Abandon
  <1>6. CASE UNCHANGED vars
    BY <1>6 DEF TypeOK, vars
  <1>7. QED
    BY <1>1, <1>2, <1>3, <1>4, <1>5, <1>6 DEF Next

\* The tables and goroutines of the delivery ledger always hold values of their
\* types, for every set of entries and every bound.
THEOREM TypeCorrect == Spec => []TypeOK
  <1>1. Init => TypeOK
    <2>1. NoRow \in Row
      BY RowShapes DEF NoRow, Row, RowStatus
    <2>2. NoClaim \in Claim
      BY DEF NoClaim, Claim, Phase
    <2>3. QED
      BY <2>1, <2>2 DEF Init, TypeOK, IntentStatus
  <1>2. QED
    BY <1>1, TypeStep, PTL DEF Spec
=============================================================================
