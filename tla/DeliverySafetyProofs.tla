------------------------ MODULE DeliverySafetyProofs ------------------------
(* The inductive invariant of DeliveryLedger and what follows from it: an     *)
(* e-mail reaches the provider at most once, intent and attempts agree, no    *)
(* attempt is opened blindly, and the ledger implements DeliveryEffect.       *)
EXTENDS DeliveryLedgerProofs

USE LedgeredAssumption, BoundsAssumption

\* LedgerInv for one entry.  A step writes the rows of one entry only.
EntryInv(i) ==
    /\ LatestOnlyUnresolved(i)
    /\ IntentMirrorsLatest(i)
    /\ row[i].st = "confirmed" => intent[i] \in {"confirmed", "suppressed"}
    /\ AcceptanceIsLatest(i)
    /\ \A c \in Claims : ClaimInv(i, c)

\* Everything the invariant reads of entry i stays as it is.
Untouched(i) ==
    /\ intent'[i] = intent[i]
    /\ row'[i] = row[i]
    /\ attempts'[i] = attempts[i]
    /\ claim'[i] = claim[i]
    /\ accepted'[i] = accepted[i] /\ misread'[i] = misread[i]

\* The phases in which a goroutine relies on nothing.
Idle == {"none", "claimed", "guard", "defer", "done"}

\* The statuses of an e-mail that no goroutine is submitting.
AtRest == {"absent", "queued", "deferred", "transient_failed", "suppressed"}

\* The invariant is a statement about each entry by itself.
LEMMA EntryWise == LedgerInv <=> \A i \in Ledgered : EntryInv(i)
  BY DEF LedgerInv, LedgerAgrees, CompletedRowIsSettled, EntryInv

\* So is the invariant after a step.
LEMMA EntryWiseNext == (\A i \in Ledgered : EntryInv(i)') => LedgerInv'
  BY DEF LedgerInv, LedgerAgrees, CompletedRowIsSettled, EntryInv

\* Steps on one entry cannot disturb another.
LEMMA Frame ==
    ASSUME NEW i \in Ledgered, EntryInv(i), Untouched(i)
    PROVE  EntryInv(i)'
  BY DEF EntryInv, Untouched, LatestOnlyUnresolved, IntentMirrorsLatest,
         AcceptanceIsLatest, ClaimInv, OnRecord, LastNo

\* A step that changes only the queue row and lets goroutines come to rest
\* keeps the invariant, provided it completes rows of settled e-mails only.
LEMMA QuietStep ==
    ASSUME NEW i \in Ledgered, EntryInv(i),
           intent'[i] = intent[i], attempts'[i] = attempts[i], accepted'[i] = accepted[i],
           misread'[i] = misread[i],
           row'[i].st = "confirmed" =>
             row[i].st = "confirmed" \/ intent[i] \in {"confirmed", "suppressed"},
           \A c \in Claims : claim'[i][c] = claim[i][c] \/ claim'[i][c].phase \in Idle
    PROVE  EntryInv(i)'
  <1>1. LatestOnlyUnresolved(i)' /\ IntentMirrorsLatest(i)' /\ AcceptanceIsLatest(i)'
    BY DEF EntryInv, LatestOnlyUnresolved, IntentMirrorsLatest, AcceptanceIsLatest, LastNo
  <1>2. ASSUME NEW c \in Claims PROVE ClaimInv(i, c)'
    <2>1. CASE claim'[i][c] = claim[i][c]
      BY <2>1 DEF EntryInv, ClaimInv, OnRecord, LastNo
    <2>2. CASE claim'[i][c].phase \in Idle
      BY <2>2 DEF ClaimInv, Idle, InFlight
    <2>3. QED
      BY <2>1, <2>2
  <1>3. QED
    BY <1>1, <1>2 DEF EntryInv

\* While the intent is at rest nothing was accepted and no goroutine has an
\* open submission.
LEMMA RestIsQuiet ==
    ASSUME TypeOK, NEW i \in Ledgered, EntryInv(i), intent[i] \in AtRest
    PROVE  accepted[i] = {} /\ \A c \in Claims : claim[i][c].phase \notin InFlight
  <1>1. accepted[i] = {}
    BY DEF EntryInv, AcceptanceIsLatest, AtRest, Unresolved
  <1>2. ASSUME NEW c \in Claims PROVE claim[i][c].phase \notin InFlight
    BY <1>1 DEF EntryInv, ClaimInv, AtRest, InFlight
  <1>3. QED
    BY <1>1, <1>2

\* At most one goroutine has an open submission of an entry.
LEMMA OneInFlight ==
    ASSUME NEW i \in Ledgered, EntryInv(i), NEW c \in Claims, NEW d \in Claims,
           claim[i][c].phase \in InFlight, claim[i][d].phase \in InFlight
    PROVE  c = d
  BY DEF EntryInv, ClaimInv

\* What SetPhase does to the goroutines of an entry.
LEMMA SetPhaseEffect ==
    ASSUME TypeOK, NEW i \in Entries, NEW c \in Claims, NEW p \in Phase, SetPhase(i, c, p)
    PROVE  /\ \A j \in Entries : j # i => claim'[j] = claim[j]
           /\ \A d \in Claims : d # c => claim'[i][d] = claim[i][d]
           /\ claim'[i][c].phase = p /\ claim'[i][c].no = claim[i][c].no
  <1>1. claim[i][c] \in Claim /\ claim[i] \in [Claims -> Claim]
    BY DEF TypeOK
  <1>2. QED
    BY <1>1 DEF TypeOK, SetPhase, Claim

\* What a step on entry i owes: it leaves the other entries alone and keeps the
\* invariant of its own.
Keeps(i) ==
    /\ \A j \in Ledgered : j # i => Untouched(j)
    /\ i \in Ledgered /\ EntryInv(i) => EntryInv(i)'

\* FailClaim and CompleteClaim write the row of their entry; only CompleteClaim
\* completes it.
LEMMA ClaimWriteEffect ==
    ASSUME TypeOK, NEW i \in Entries, NEW c \in Claims
    PROVE  /\ \A retry \in {"none", "later", "due"} : FailClaim(i, c, retry) =>
                /\ \A j \in Entries : j # i => row'[j] = row[j]
                /\ row'[i].st = "confirmed" => row[i].st = "confirmed"
           /\ CompleteClaim(i, c) => \A j \in Entries : j # i => row'[j] = row[j]
  <1>1. row[i] \in Row
    BY DEF TypeOK
  <1>2. \A retry \in {"none", "later", "due"} : Released(row[i], "failed", retry).st = "failed"
    BY <1>1 DEF Released, Row
  <1>3. QED
    BY <1>2 DEF TypeOK, FailClaim, CompleteClaim

\* A goroutine that hands its claim back, waits or gives up.
LEMMA RestingKeeps ==
    ASSUME TypeOK, NEW i \in Entries, NEW c \in Claims, NEW p \in Idle,
           SetPhase(i, c, p), UNCHANGED <<intent, attempts, accepted, misread>>,
           \A j \in Ledgered : j # i => row'[j] = row[j],
           EntryInv(i) /\ row'[i].st = "confirmed" =>
             row[i].st = "confirmed" \/ intent[i] \in {"confirmed", "suppressed"}
    PROVE  Keeps(i)
  <1>0. p \in Phase
    BY DEF Idle, Phase
  <1>1. \A j \in Ledgered : j # i => Untouched(j)
    <2>1. \A j \in Entries : j # i => claim'[j] = claim[j]
      BY <1>0, SetPhaseEffect
    <2>2. intent' = intent /\ attempts' = attempts /\ accepted' = accepted /\ misread' = misread
      OBVIOUS
    <2>3. QED
      BY <2>1, <2>2 DEF Untouched
  <1>2. \A d \in Claims : claim'[i][d] = claim[i][d] \/ claim'[i][d].phase \in Idle
    BY <1>0, SetPhaseEffect
  <1>3. ASSUME i \in Ledgered, EntryInv(i) PROVE EntryInv(i)'
    BY <1>2, <1>3, QuietStep
  <1>4. QED
    BY <1>1, <1>3 DEF Keeps

\* The guards of processEntry, its early returns and its death.
LEMMA GuardsKeep ==
    ASSUME TypeOK, NEW i \in Entries, NEW c \in Claims,
           \/ IntegrationMissing(i, c) \/ BreakerOpen(i, c) \/ PassLimits(i, c)
           \/ AudienceUnavailable(i, c) \/ FinishSuppression(i, c) \/ GiveUp(i, c)
    PROVE  Keeps(i)
  <1>0. {"done", "guard"} \subseteq Idle
    BY DEF Idle
  <1>1. CASE IntegrationMissing(i, c) \/ BreakerOpen(i, c) \/ AudienceUnavailable(i, c)
    <2>1. PICK retry \in {"none", "later", "due"} : FailClaim(i, c, retry)
      BY <1>1 DEF IntegrationMissing, HandleError, BreakerOpen, AudienceUnavailable
    <2>2. SetPhase(i, c, "done") /\ UNCHANGED <<intent, attempts, accepted, misread>>
      BY <1>1 DEF IntegrationMissing, HandleError, BreakerOpen, AudienceUnavailable
    <2>3. QED
      BY <1>0, <2>1, <2>2, ClaimWriteEffect, RestingKeeps
  <1>2. CASE PassLimits(i, c) \/ GiveUp(i, c)
    BY <1>0, <1>2, RestingKeeps DEF PassLimits, GiveUp
  <1>3. CASE FinishSuppression(i, c)
    <2>1. SetPhase(i, c, "done") /\ UNCHANGED <<intent, attempts, accepted, misread>>
      BY <1>3 DEF FinishSuppression
    <2>2. CASE claim[i][c].phase = "complete" /\ CompleteClaim(i, c)
      <3>1. EntryInv(i) => intent[i] = "suppressed"
        BY <2>2 DEF EntryInv, ClaimInv
      <3>2. QED
        BY <1>0, <2>1, <2>2, <3>1, ClaimWriteEffect, RestingKeeps
    <2>3. CASE FailClaim(i, c, "later")
      BY <1>0, <2>1, <2>3, ClaimWriteEffect, RestingKeeps
    <2>4. QED
      BY <1>3, <2>2, <2>3 DEF FinishSuppression
  <1>4. QED
    BY <1>1, <1>2, <1>3

\* A broadcast e-mail has no stop-on-reply guard and always a ledger.
LEMMA UnledgeredKeep ==
    ASSUME TypeOK, NEW i \in Entries, NEW c \in Claims,
           JourneyEnded(i, c) \/ FinishUnledgered(i, c)
    PROVE  Keeps(i)
  <1>1. \A j \in Entries : j # i => row'[j] = row[j]
    BY ClaimWriteEffect DEF JourneyEnded, FinishUnledgered, HandleError
  <1>2. SetPhase(i, c, "done") /\ UNCHANGED <<intent, attempts, accepted, misread>> /\ i \notin Ledgered
    BY DEF JourneyEnded, FinishUnledgered, HandleError
  <1>3. QED
    BY <1>1, <1>2, SetPhaseEffect DEF Keeps, Untouched, Phase

\* The producers write an intent that is at rest.
LEMMA ProduceKeeps ==
    ASSUME TypeOK, NEW i \in Entries, Produce(i)
    PROVE  Keeps(i)
  <1>1. CASE Enqueue(i)
    BY <1>1 DEF TypeOK, Enqueue, Keeps, Untouched
  <1>2. CASE ~Enqueue(i)
    <2>1. /\ i \in Ledgered /\ UNCHANGED <<attempts, claim, accepted, misread>>
          /\ intent[i] \in {"absent", "transient_failed"}
          /\ intent'[i] \in {"suppressed", "deferred", "queued"}
          /\ \A j \in Entries : j # i => intent'[j] = intent[j] /\ row'[j] = row[j]
      BY <1>2 DEF TypeOK, Produce, ReserveIntent, ReserveAndEnqueue
    <2>2. row'[i].st = "confirmed" => row[i].st = "confirmed"
      <3>1. NewRow.st = "pending"
        BY DEF NewRow, NoRow
      <3>2. QED
        BY <1>2, <3>1 DEF TypeOK, Produce, ReserveIntent, ReserveAndEnqueue
    <2>3. \A j \in Ledgered : j # i => Untouched(j)
      BY <2>1 DEF Untouched
    <2>4. ASSUME EntryInv(i) PROVE EntryInv(i)'
      <3>1. accepted[i] = {} /\ \A c \in Claims : claim[i][c].phase \notin InFlight \cup {"complete"}
        <4>1. accepted[i] = {} /\ \A c \in Claims : claim[i][c].phase \notin InFlight
          BY <2>1, <2>4, RestIsQuiet DEF AtRest
        <4>2. \A c \in Claims : claim[i][c].phase # "complete"
          BY <2>1, <2>4 DEF EntryInv, ClaimInv
        <4>3. QED
          BY <4>1, <4>2
      <3>2. LatestOnlyUnresolved(i)' /\ IntentMirrorsLatest(i)'
        BY <2>1, <2>4 DEF EntryInv, LatestOnlyUnresolved, IntentMirrorsLatest, LastNo, Unresolved
      <3>3. row'[i].st # "confirmed"
        BY <2>1, <2>2, <2>4 DEF EntryInv
      <3>4. \A c \in Claims : ClaimInv(i, c)'
        BY <2>1, <3>1 DEF ClaimInv, InFlight
      <3>5. QED
        BY <2>1, <3>1, <3>2, <3>3, <3>4 DEF EntryInv, AcceptanceIsLatest
    <2>5. QED
      BY <2>3, <2>4 DEF Keeps
  <1>3. QED
    BY <1>1, <1>2

\* ClaimPending starts a goroutine that relies on nothing yet.
LEMMA ClaimPendingKeeps ==
    ASSUME TypeOK, NEW i \in Entries, NEW c \in Claims, ClaimPending(i, c)
    PROVE  Keeps(i)
  <1>1. row[i] \in Row
    BY DEF TypeOK
  <1>2. Leased(row[i], c).st = "processing"
    BY <1>1 DEF Leased, Row
  <1>3. row'[i].st = "processing" /\ \A j \in Entries : j # i => row'[j] = row[j] /\ claim'[j] = claim[j]
    BY <1>2 DEF TypeOK, ClaimPending
  <1>4. \A d \in Claims : claim'[i][d] = claim[i][d] \/ claim'[i][d].phase \in Idle
    BY DEF TypeOK, ClaimPending, Idle
  <1>5. intent' = intent /\ attempts' = attempts /\ accepted' = accepted /\ misread' = misread
    BY DEF ClaimPending
  <1>6. ASSUME i \in Ledgered, EntryInv(i) PROVE EntryInv(i)'
    BY <1>3, <1>4, <1>5, <1>6, QuietStep
  <1>7. QED
    BY <1>3, <1>5, <1>6 DEF Keeps, Untouched

\* Clocks, reconciliation requests and the queue's pause, resume and deletion.
LEMMA RowChangesKeep ==
    ASSUME TypeOK, NEW i \in Entries,
           \/ LeaseExpires(i) \/ RetryDue(i) \/ RequestReconciliation(i)
           \/ PauseRow(i) \/ ResumeRow(i) \/ DeleteRow(i) \/ DeleteForEmail(i)
    PROVE  Keeps(i)
  <1>1. row[i] \in Row /\ NoRow.st = "absent"
    BY DEF TypeOK, NoRow
  <1>2. row'[i].st = "confirmed" => row[i].st = "confirmed"
    BY <1>1 DEF TypeOK, Row, LeaseExpires, RetryDue, RequestReconciliation, PauseRow, ResumeRow,
                DeleteRow, DeleteForEmail
  <1>3. \A j \in Entries : j # i => row'[j] = row[j]
    BY DEF TypeOK, LeaseExpires, RetryDue, RequestReconciliation, PauseRow, ResumeRow,
           DeleteRow, DeleteForEmail
  <1>4. UNCHANGED <<intent, attempts, claim, accepted, misread>>
    BY DEF LeaseExpires, RetryDue, RequestReconciliation, PauseRow, ResumeRow,
           DeleteRow, DeleteForEmail
  <1>5. ASSUME i \in Ledgered, EntryInv(i) PROVE EntryInv(i)'
    BY <1>2, <1>4, <1>5, QuietStep
  <1>6. QED
    BY <1>3, <1>4, <1>5 DEF Keeps, Untouched

\* The audience guard suppresses an e-mail that was never submitted.
LEMMA AudienceLeftKeeps ==
    ASSUME TypeOK, NEW i \in Entries, NEW c \in Claims, AudienceLeft(i, c)
    PROVE  Keeps(i)
  <1>1. CASE intent[i] # "queued"
    BY <1>1, RestingKeeps DEF AudienceLeft, Idle
  <1>2. CASE intent[i] = "queued"
    <2>1. /\ SetPhase(i, c, "complete") /\ "complete" \in Phase
          /\ UNCHANGED <<row, attempts, accepted, misread>>
          /\ intent'[i] = "suppressed"
          /\ \A j \in Entries : j # i => intent'[j] = intent[j]
      BY <1>2 DEF TypeOK, AudienceLeft, Phase
    <2>2. /\ \A j \in Entries : j # i => claim'[j] = claim[j]
          /\ \A d \in Claims : d # c => claim'[i][d] = claim[i][d]
          /\ claim'[i][c].phase = "complete"
      BY <2>1, SetPhaseEffect
    <2>3. ASSUME i \in Ledgered, EntryInv(i) PROVE EntryInv(i)'
      <3>1. accepted[i] = {} /\ \A d \in Claims : claim[i][d].phase \notin InFlight
        BY <1>2, <2>3, RestIsQuiet DEF AtRest
      <3>2. LatestOnlyUnresolved(i)' /\ IntentMirrorsLatest(i)'
        BY <1>2, <2>1, <2>3 DEF EntryInv, LatestOnlyUnresolved, IntentMirrorsLatest, LastNo, Unresolved
      <3>3. ASSUME NEW d \in Claims PROVE ClaimInv(i, d)'
        <4>1. claim'[i][d].phase \notin InFlight
          BY <2>2, <3>1 DEF InFlight
        <4>2. QED
          BY <2>1, <4>1 DEF ClaimInv, InFlight
      <3>4. AcceptanceIsLatest(i)'
        BY <2>1, <3>1 DEF AcceptanceIsLatest
      <3>5. QED
        BY <2>1, <3>2, <3>3, <3>4 DEF EntryInv
    <2>4. QED
      BY <2>1, <2>2, <2>3 DEF Keeps, Untouched
  <1>3. QED
    BY <1>1, <1>2

\* StartAttempt opens the only attempt that may be unresolved.
LEMMA StartAttemptKeeps ==
    ASSUME TypeOK, NEW i \in Entries, NEW c \in Claims, StartAttempt(i, c)
    PROVE  Keeps(i)
  <1>1. CASE ~MayStart(i)
    <2>1. GiveUp(i, c)
      BY <1>1 DEF StartAttempt, GiveUp
    <2>2. QED
      BY <2>1, GuardsKeep
  <1>2. CASE MayStart(i)
    <2> DEFINE at == [st |-> "submitting", tok |-> c]
               cl == [phase |-> "started", tries |-> claim[i][c].tries, no |-> LastNo(i) + 1]
    <2>1. /\ intent' = [intent EXCEPT ![i] = "submitting"]
          /\ attempts' = [attempts EXCEPT ![i] = Append(attempts[i], at)]
          /\ claim' = [claim EXCEPT ![i][c] = cl]
          /\ UNCHANGED <<row, accepted, misread>>
      BY <1>2 DEF StartAttempt
    <2>2. at.st = "submitting" /\ at.tok = c /\ cl.phase = "started" /\ cl.no = LastNo(i) + 1
      OBVIOUS
    <2> HIDE DEF at, cl
    <2>3. attempts[i] \in Seq(Attempt) /\ LastNo(i) \in Nat /\ at \in Attempt
      <3>1. at \in Attempt
        BY DEF at, Attempt, IntentStatus
      <3>2. QED
        BY <3>1 DEF TypeOK, LastNo
    <2>4. /\ LastNo(i)' = LastNo(i) + 1
          /\ attempts'[i][LastNo(i) + 1] = at
          /\ \A n \in 1..LastNo(i) : attempts'[i][n] = attempts[i][n]
      <3>1. attempts'[i] = Append(attempts[i], at)
        BY <2>1 DEF TypeOK
      <3>2. QED
        BY <2>3, <3>1 DEF LastNo
    <2>5. /\ intent'[i] = "submitting"
          /\ claim'[i][c] = cl
          /\ \A d \in Claims : d # c => claim'[i][d] = claim[i][d]
          /\ \A j \in Entries : j # i => intent'[j] = intent[j] /\ attempts'[j] = attempts[j] /\ claim'[j] = claim[j]
      BY <2>1 DEF TypeOK
    <2>6. ASSUME i \in Ledgered, EntryInv(i) PROVE EntryInv(i)'
      <3>1. intent[i] \in {"queued", "transient_failed"} /\ ~HasUnresolved(i)
        BY <1>2 DEF MayStart
      <3>2. accepted[i] = {} /\ \A d \in Claims : claim[i][d].phase \notin InFlight
        BY <2>6, <3>1, RestIsQuiet DEF AtRest
      <3>3. LatestOnlyUnresolved(i)'
        BY <2>3, <2>4, <3>1 DEF LatestOnlyUnresolved, HasUnresolved
      <3>4. IntentMirrorsLatest(i)'
        BY <2>2, <2>3, <2>4, <2>5 DEF IntentMirrorsLatest, Unresolved
      <3>5. row'[i].st # "confirmed"
        BY <2>1, <2>6, <3>1 DEF EntryInv
      <3>6. ASSUME NEW d \in Claims PROVE ClaimInv(i, d)'
        <4>1. CASE d = c
          <5>1. claim'[i][c].phase = "started" /\ claim'[i][c].no = LastNo(i)' /\ LastNo(i)' > 0
            BY <2>2, <2>3, <2>4, <2>5
          <5>2. attempts'[i][LastNo(i)'].tok = c /\ accepted'[i] = {}
            BY <2>1, <2>2, <2>4, <3>2
          <5>3. QED
            BY <2>5, <4>1, <5>1, <5>2 DEF ClaimInv
        <4>2. CASE d # c
          <5>1. claim[i][d].phase # "complete"
            BY <2>6, <3>1 DEF EntryInv, ClaimInv
          <5>2. QED
            BY <2>5, <3>2, <4>2, <5>1 DEF ClaimInv, InFlight
        <4>3. QED
          BY <4>1, <4>2
      <3>7. QED
        BY <2>1, <3>2, <3>3, <3>4, <3>5, <3>6 DEF EntryInv, AcceptanceIsLatest
    <2>7. QED
      BY <2>1, <2>5, <2>6 DEF Keeps, Untouched
  <1>3. QED
    BY <1>1, <1>2

\* The provider is called for the latest attempt, and nothing was accepted before but
\* what was misread.
LEMMA SubmitKeeps ==
    ASSUME TypeOK, NEW i \in Entries, NEW c \in Claims, SubmitEmail(i, c)
    PROVE  Keeps(i)
  <1>1. PICK a \in ProviderAnswers :
          /\ SetPhase(i, c, a.told)
          /\ accepted' = IF a.took /\ a.told # "failed"
                           THEN [accepted EXCEPT ![i] = @ \cup {c}] ELSE accepted
          /\ misread' = IF a.took /\ a.told = "failed"
                          THEN [misread EXCEPT ![i] = @ \cup {c}] ELSE misread
    BY Zenon DEF SubmitEmail
  <1>2. /\ a.told \in Phase \cap InFlight
        /\ a.told = "accepted" => a.took
        /\ a.told = "rejected" => ~a.took
        /\ a.told \notin {"started", "persisted", "complete"}
    BY <1>1 DEF ProviderAnswers, Phase, InFlight
  <1>3. /\ \A j \in Entries : j # i => claim'[j] = claim[j] /\ accepted'[j] = accepted[j] /\ misread'[j] = misread[j]
        /\ \A d \in Claims : d # c => claim'[i][d] = claim[i][d]
        /\ claim'[i][c].phase = a.told /\ claim'[i][c].no = claim[i][c].no
        /\ accepted'[i] = IF a.took /\ a.told # "failed" THEN accepted[i] \cup {c} ELSE accepted[i]
        /\ misread[i] \subseteq misread'[i]
    <2>1. /\ \A j \in Entries : j # i => claim'[j] = claim[j]
          /\ \A d \in Claims : d # c => claim'[i][d] = claim[i][d]
          /\ claim'[i][c].phase = a.told /\ claim'[i][c].no = claim[i][c].no
      BY <1>1, <1>2, SetPhaseEffect
    <2>2. /\ \A j \in Entries : j # i => accepted'[j] = accepted[j]
          /\ accepted'[i] = IF a.took /\ a.told # "failed" THEN accepted[i] \cup {c} ELSE accepted[i]
      BY <1>1 DEF TypeOK
    <2>3. misread[i] \subseteq misread'[i] /\ \A j \in Entries : j # i => misread'[j] = misread[j]
      BY <1>1 DEF TypeOK
    <2>4. QED
      BY <2>1, <2>2, <2>3
  <1>4. UNCHANGED <<intent, row, attempts>>
    BY DEF SubmitEmail
  <1>5. ASSUME i \in Ledgered, EntryInv(i) PROVE EntryInv(i)'
    <2>1. claim[i][c].phase = "started"
      BY <1>5 DEF SubmitEmail, ReadyToSubmit
    <2>2. /\ LastNo(i) > 0 /\ claim[i][c].no = LastNo(i) /\ attempts[i][LastNo(i)].tok = c
          /\ intent[i] \in {"submitting", "provider_accepted", "confirmed", "terminal_failed"}
          /\ intent[i] = "submitting" \/ OnRecord(i)
          /\ accepted[i] = {}
      BY <1>5, <2>1 DEF EntryInv, ClaimInv, InFlight
    <2>3. LastNo(i)' = LastNo(i) /\ (OnRecord(i) => OnRecord(i)')
      BY <1>3, <1>4 DEF LastNo, OnRecord
    <2>4. LatestOnlyUnresolved(i)' /\ IntentMirrorsLatest(i)'
      BY <1>4, <1>5 DEF EntryInv, LatestOnlyUnresolved, IntentMirrorsLatest, LastNo
    <2>5. AcceptanceIsLatest(i)'
      BY <1>3, <1>4, <2>2, <2>3 DEF AcceptanceIsLatest, Unresolved
    <2>6. ASSUME NEW d \in Claims PROVE ClaimInv(i, d)'
      <3>1. CASE d = c
        BY <1>2, <1>3, <1>4, <2>2, <2>3, <3>1 DEF ClaimInv
      <3>2. CASE d # c
        <4>1. claim[i][d].phase \notin InFlight
          BY <1>5, <2>1, <3>2, OneInFlight DEF InFlight
        <4>2. claim[i][d].phase # "complete"
          BY <1>5, <2>2 DEF EntryInv, ClaimInv
        <4>3. QED
          BY <1>3, <3>2, <4>1, <4>2 DEF ClaimInv, InFlight
      <3>3. QED
        BY <3>1, <3>2
    <2>7. QED
      BY <1>4, <1>5, <2>4, <2>5, <2>6 DEF EntryInv
  <1>6. QED
    BY <1>3, <1>4, <1>5 DEF Keeps, Untouched

\* The write of one attempt's status.
WritesStatus(i, n, st) == attempts' = [attempts EXCEPT ![i][n].st = st]

\* It changes that status, no token and no other attempt.
LEMMA AttemptWrite ==
    ASSUME TypeOK, NEW i \in Entries, NEW n \in 1..LastNo(i), NEW st \in IntentStatus,
           WritesStatus(i, n, st)
    PROVE  /\ LastNo(i)' = LastNo(i)
           /\ attempts'[i][n].st = st /\ attempts'[i][n].tok = attempts[i][n].tok
           /\ \A m \in 1..LastNo(i) : m # n => attempts'[i][m] = attempts[i][m]
           /\ \A j \in Entries : j # i => attempts'[j] = attempts[j]
  <1>1. attempts[i] \in Seq(Attempt) /\ n \in 1..Len(attempts[i])
    BY DEF TypeOK, LastNo
  <1>2. attempts[i][n] \in Attempt
    BY <1>1
  <1> DEFINE at == [attempts[i][n] EXCEPT !.st = st]
  <1>3. at.st = st /\ at.tok = attempts[i][n].tok
    BY <1>2 DEF Attempt
  <1>4. attempts' = [attempts EXCEPT ![i] = [attempts[i] EXCEPT ![n] = at]]
    BY DEF WritesStatus
  <1> HIDE DEF at
  <1>5. attempts'[i] = [attempts[i] EXCEPT ![n] = at] /\ \A j \in Entries : j # i => attempts'[j] = attempts[j]
    BY <1>4 DEF TypeOK
  <1>6. Len([attempts[i] EXCEPT ![n] = at]) = Len(attempts[i])
    BY <1>1
  <1>7. QED
    BY <1>1, <1>3, <1>5, <1>6 DEF LastNo

\* RecordAttemptOutcome by the goroutine whose submission is open.
LEMMA OutcomeKeeps ==
    ASSUME TypeOK, NEW i \in Ledgered, NEW c \in Claims, EntryInv(i),
           claim[i][c].phase \in InFlight,
           NEW st \in {"provider_accepted", "confirmed", "transient_failed", "terminal_failed", "unknown"},
           accepted[i] # {} => st # "transient_failed",
           NEW p \in {"persisted", "done"}, p = "persisted" => c \in accepted[i] /\ st = "provider_accepted",
           RecordAttemptOutcome(i, c, st), SetPhase(i, c, p)
    PROVE  EntryInv(i)'
  <1>0. st \in IntentStatus /\ p \in Phase
    BY DEF IntentStatus, Phase
  <1>1. LastNo(i) > 0 /\ claim[i][c].no = LastNo(i) /\ attempts[i][LastNo(i)].tok = c /\ LastNo(i) \in Nat
    BY DEF EntryInv, ClaimInv, TypeOK, LastNo
  <1>2. /\ intent'[i] = st /\ accepted' = accepted
        /\ attempts' = [attempts EXCEPT ![i][LastNo(i)].st = st]
        /\ row'[i] = RowAfterOutcome(row[i], st)
        /\ intent[i] # "suppressed" /\ (intent[i] = "confirmed" => st = "confirmed")
    BY <1>1 DEF TypeOK, RecordAttemptOutcome, OutcomeAllowed, CanTransitionTo, Successors
  <1>3. /\ LastNo(i)' = LastNo(i)
        /\ attempts'[i][LastNo(i)].st = st /\ attempts'[i][LastNo(i)].tok = c
        /\ \A m \in 1..LastNo(i) : m # LastNo(i) => attempts'[i][m] = attempts[i][m]
    <2>1. LastNo(i) \in 1..LastNo(i) /\ WritesStatus(i, LastNo(i), st)
      BY <1>1, <1>2 DEF WritesStatus
    <2>2. QED
      BY <1>0, <1>1, <2>1, AttemptWrite
  <1>4. LatestOnlyUnresolved(i)' /\ IntentMirrorsLatest(i)'
    BY <1>1, <1>2, <1>3 DEF EntryInv, LatestOnlyUnresolved, IntentMirrorsLatest
  <1>5. row'[i].st = "confirmed" => intent'[i] \in {"confirmed", "suppressed"}
    <2>1. row[i] \in Row
      BY DEF TypeOK
    <2>2. Released(row[i], "failed", "later").st = "failed" /\ Released(row[i], "failed", "none").st = "failed"
      BY <2>1 DEF Released, Row
    <2>3. CASE st = "provider_accepted"
      BY <1>2, <2>3 DEF RowAfterOutcome, EntryInv
    <2>4. CASE st # "provider_accepted"
      BY <1>2, <2>2, <2>4 DEF RowAfterOutcome
    <2>5. QED
      BY <2>3, <2>4
  <1>6. AcceptanceIsLatest(i)'
    BY <1>1, <1>2, <1>3 DEF EntryInv, AcceptanceIsLatest, Unresolved
  <1>7. ASSUME NEW d \in Claims PROVE ClaimInv(i, d)'
    <2>1. /\ \A e \in Claims : e # c => claim'[i][e] = claim[i][e]
          /\ claim'[i][c].phase = p /\ claim'[i][c].no = claim[i][c].no
      BY <1>0, SetPhaseEffect
    <2>2. CASE d = c
      BY <1>1, <1>2, <1>3, <2>1, <2>2 DEF ClaimInv, InFlight, OnRecord
    <2>3. CASE d # c
      <3>1. claim[i][d].phase \notin InFlight
        BY <2>3, OneInFlight
      <3>2. claim[i][d].phase # "complete"
        BY <1>2 DEF EntryInv, ClaimInv
      <3>3. QED
        BY <2>1, <2>3, <3>1, <3>2 DEF ClaimInv, InFlight
    <2>4. QED
      BY <2>2, <2>3
  <1>8. QED
    BY <1>4, <1>5, <1>6, <1>7 DEF EntryInv

\* The worker's records after the provider call.
LEMMA RecordsKeep ==
    ASSUME TypeOK, NEW i \in Entries, NEW c \in Claims,
           RecordDeliveryFailure(i, c) \/ PersistAccepted(i, c) \/ Confirm(i, c)
    PROVE  Keeps(i)
  <1>1. CASE GiveUp(i, c)
    BY <1>1, GuardsKeep
  <1>2. ASSUME NEW st \in {"provider_accepted", "confirmed", "transient_failed", "terminal_failed", "unknown"},
               NEW p \in {"persisted", "done"},
               RecordAttemptOutcome(i, c, st), SetPhase(i, c, p),
               claim[i][c].phase \in InFlight,
               i \in Ledgered /\ EntryInv(i) =>
                 /\ accepted[i] # {} => st # "transient_failed"
                 /\ p = "persisted" => c \in accepted[i] /\ st = "provider_accepted"
        PROVE  Keeps(i)
    <2>1. \A j \in Entries : j # i => claim'[j] = claim[j]
      <3>1. p \in Phase
        BY DEF Phase
      <3>2. QED
        BY <1>2, <3>1, SetPhaseEffect
    <2>2. \A j \in Entries : j # i =>
            /\ intent'[j] = intent[j] /\ row'[j] = row[j]
            /\ attempts'[j] = attempts[j] /\ accepted'[j] = accepted[j] /\ misread'[j] = misread[j]
      BY <1>2 DEF TypeOK, RecordAttemptOutcome
    <2>3. ASSUME i \in Ledgered, EntryInv(i) PROVE EntryInv(i)'
      BY <1>2, <2>3, OutcomeKeeps
    <2>4. QED
      BY <2>1, <2>2, <2>3 DEF Keeps, Untouched
  <1>3. CASE RecordDeliveryFailure(i, c) /\ ~GiveUp(i, c)
    <2>1. /\ RecordAttemptOutcome(i, c, FailureStatus(i, c)) /\ SetPhase(i, c, "done")
          /\ claim[i][c].phase \in {"uncertain", "failed", "rejected"}
      BY <1>3 DEF RecordDeliveryFailure
    <2>2. FailureStatus(i, c) \in {"unknown", "transient_failed", "terminal_failed"}
      BY DEF FailureStatus
    <2>3. i \in Ledgered /\ EntryInv(i) /\ accepted[i] # {} => FailureStatus(i, c) # "transient_failed"
      BY <2>1 DEF EntryInv, ClaimInv, FailureStatus
    <2>4. claim[i][c].phase \in InFlight
      BY <2>1 DEF InFlight
    <2>5. QED
      BY <1>2, <2>1, <2>2, <2>3, <2>4
  <1>4. CASE PersistAccepted(i, c) /\ ~GiveUp(i, c)
    <2>1. /\ RecordAttemptOutcome(i, c, "provider_accepted") /\ SetPhase(i, c, "persisted")
          /\ claim[i][c].phase = "accepted"
      BY <1>4 DEF PersistAccepted
    <2>2. i \in Ledgered /\ EntryInv(i) => c \in accepted[i]
      BY <2>1 DEF EntryInv, ClaimInv
    <2>3. claim[i][c].phase \in InFlight
      BY <2>1 DEF InFlight
    <2>4. QED
      BY <1>2, <2>1, <2>2, <2>3
  <1>5. CASE Confirm(i, c) /\ ~GiveUp(i, c)
    <2>1. /\ RecordAttemptOutcome(i, c, "confirmed") /\ SetPhase(i, c, "done")
          /\ claim[i][c].phase = "persisted"
      BY <1>5 DEF Confirm
    <2>2. claim[i][c].phase \in InFlight
      BY <2>1 DEF InFlight
    <2>3. QED
      BY <1>2, <2>1, <2>2
  <1>6. QED
    BY <1>1, <1>3, <1>4, <1>5

\* A receipt is about an accepted message: it moves intent and latest attempt
\* together, or neither.
LEMMA ReceiptKeeps ==
    ASSUME TypeOK, NEW i \in Entries, NEW st \in ReceiptTarget, RecordReceipt(i, st)
    PROVE  Keeps(i)
  <1>0. /\ st \in IntentStatus /\ ReceiptAllowed(st) \subseteq Unresolved
        /\ st \in Unresolved \cup {"confirmed", "terminal_failed"}
    BY DEF ReceiptTarget, IntentStatus, ReceiptAllowed, Unresolved
  <1>1. \A j \in Entries : j # i => Untouched(j)
    BY DEF TypeOK, RecordReceipt, Untouched
  <1>2. ASSUME i \in Ledgered, EntryInv(i) PROVE EntryInv(i)'
    <2>1. CASE intent[i] \notin ReceiptAllowed(st)
      <3>1. attempts[i][LastNo(i)].st \notin ReceiptAllowed(st)
        BY <1>0, <1>2, <2>1 DEF EntryInv, IntentMirrorsLatest, RecordReceipt
      <3>2. UNCHANGED <<intent, row, attempts, claim, accepted, misread>>
        BY <2>1, <3>1 DEF RecordReceipt
      <3>3. QED
        BY <1>2, <3>2, Frame DEF Untouched
    <2>2. CASE intent[i] \in ReceiptAllowed(st)
      <3>1. LastNo(i) > 0 /\ LastNo(i) \in Nat /\ attempts[i][LastNo(i)].st = intent[i]
        BY <1>0, <1>2, <2>2 DEF EntryInv, IntentMirrorsLatest, TypeOK, LastNo
      <3>2. /\ intent'[i] = st /\ claim' = claim /\ accepted' = accepted /\ misread' = misread /\ OnRecord(i)
            /\ WritesStatus(i, LastNo(i), st)
        BY <2>2, <3>1 DEF TypeOK, RecordReceipt, WritesStatus
      <3>3. /\ LastNo(i)' = LastNo(i)
            /\ attempts'[i][LastNo(i)].st = st /\ attempts'[i][LastNo(i)].tok = attempts[i][LastNo(i)].tok
            /\ \A m \in 1..LastNo(i) : m # LastNo(i) => attempts'[i][m] = attempts[i][m]
        <4>1. LastNo(i) \in 1..LastNo(i)
          BY <3>1
        <4>2. QED
          BY <1>0, <3>2, <4>1, AttemptWrite
      <3>4. LatestOnlyUnresolved(i)' /\ IntentMirrorsLatest(i)'
        BY <1>2, <3>1, <3>2, <3>3 DEF EntryInv, LatestOnlyUnresolved, IntentMirrorsLatest
      <3>5. row'[i].st = "confirmed" => intent'[i] \in {"confirmed", "suppressed"}
        <4>1. row[i].st # "confirmed"
          BY <1>0, <1>2, <2>2 DEF EntryInv, Unresolved
        <4>2. row'[i] # row[i] => st = "confirmed"
          BY DEF TypeOK, RecordReceipt
        <4>3. QED
          BY <3>2, <4>1, <4>2
      <3>6. AcceptanceIsLatest(i)'
        BY <1>0, <1>2, <3>1, <3>2, <3>3 DEF EntryInv, AcceptanceIsLatest
      <3>7. ASSUME NEW d \in Claims PROVE ClaimInv(i, d)'
        <4>1. ClaimInv(i, d) /\ intent[i] # "suppressed"
          BY <1>0, <1>2, <2>2 DEF EntryInv, Unresolved
        <4>2. st \in {"provider_accepted", "confirmed", "terminal_failed"}
          BY DEF ReceiptTarget
        <4>3. QED
          BY <3>2, <3>3, <4>1, <4>2 DEF ClaimInv, OnRecord
      <3>8. QED
        BY <3>4, <3>5, <3>6, <3>7 DEF EntryInv
    <2>3. QED
      BY <2>1, <2>2
  <1>3. QED
    BY <1>1, <1>2 DEF Keeps

\* An operator who follows the evidence settles, or reopens, the latest attempt.
LEMMA ResolveKeeps ==
    ASSUME TypeOK, NEW i \in Entries, NEW action \in Resolution, ResolveUnknown(i, action)
    PROVE  Keeps(i)
  <1>0. /\ ResolvedAttempt(action) \in {"confirmed", "terminal_failed"}
        /\ ResolvedIntent(action) \in {"confirmed", "terminal_failed", "queued"}
        /\ ResolvedAttempt(action) \in IntentStatus
        /\ ResolvedIntent(action) = "queued" => action = "retry_after_verified_not_accepted"
        /\ action = "mark_confirmed" => ResolvedIntent(action) = "confirmed"
    BY DEF ResolvedAttempt, ResolvedIntent, IntentStatus, Resolution
  <1>1. PICK n \in 1..LastNo(i) :
          /\ attempts[i][n].st = "unknown"
          /\ \A m \in (n + 1)..LastNo(i) : attempts[i][m].st # "unknown"
          /\ WritesStatus(i, n, ResolvedAttempt(action))
    BY DEF ResolveUnknown, WritesStatus
  <1>2. \A j \in Entries : j # i => Untouched(j)
    BY DEF TypeOK, ResolveUnknown, Untouched
  <1>3. ASSUME i \in Ledgered, EntryInv(i) PROVE EntryInv(i)'
    <2>1. intent[i] = "unknown" /\ intent'[i] = ResolvedIntent(action) /\ UNCHANGED <<claim, accepted, misread>>
      BY DEF TypeOK, ResolveUnknown
    <2>2. LastNo(i) \in Nat /\ LastNo(i) > 0 /\ n = LastNo(i)
      BY <1>1, <1>3 DEF TypeOK, LastNo, EntryInv, LatestOnlyUnresolved, Unresolved
    <2>3. /\ LastNo(i)' = LastNo(i)
          /\ attempts'[i][LastNo(i)].st = ResolvedAttempt(action)
          /\ attempts'[i][LastNo(i)].tok = attempts[i][LastNo(i)].tok
          /\ \A m \in 1..LastNo(i) : m # LastNo(i) => attempts'[i][m] = attempts[i][m]
      BY <1>0, <1>1, <2>2, AttemptWrite
    <2>4. ResolvedIntent(action) = "queued" => accepted[i] = {}
      BY <1>0 DEF ResolveUnknown, Evidence, OnRecord
    <2>5. LatestOnlyUnresolved(i)' /\ IntentMirrorsLatest(i)'
      BY <1>0, <1>3, <2>1, <2>2, <2>3 DEF EntryInv, LatestOnlyUnresolved, IntentMirrorsLatest, Unresolved
    <2>6. row'[i].st = "confirmed" => intent'[i] \in {"confirmed", "suppressed"}
      <3>1. row[i] \in Row /\ row[i].st # "confirmed"
        BY <1>3, <2>1 DEF TypeOK, EntryInv
      <3>2. Released(row[i], "failed", "none").st = "failed" /\ Released(row[i], "failed", "due").st = "failed"
        BY <3>1 DEF Released, Row
      <3>3. row'[i] = row[i] \/ row'[i] = ResolvedRow(row[i], action)
        BY DEF TypeOK, ResolveUnknown
      <3>4. QED
        BY <1>0, <2>1, <3>1, <3>2, <3>3 DEF ResolvedRow
    <2>7. AcceptanceIsLatest(i)'
      BY <1>0, <1>3, <2>1, <2>2, <2>3, <2>4 DEF EntryInv, AcceptanceIsLatest
    <2>8. ASSUME NEW d \in Claims PROVE ClaimInv(i, d)'
      <3>1. ClaimInv(i, d)
        BY <1>3 DEF EntryInv
      <3>2. claim[i][d].phase \notin InFlight /\ claim[i][d].phase # "complete"
        BY <2>1, <3>1 DEF ClaimInv
      <3>3. QED
        BY <2>1, <3>2 DEF ClaimInv, InFlight
    <2>9. QED
      BY <2>5, <2>6, <2>7, <2>8 DEF EntryInv
  <1>4. QED
    BY <1>2, <1>3 DEF Keeps

\* A step on entry i.
EntryStep(i) ==
    \/ Produce(i) \/ Receipts(i) \/ Manage(i)
    \/ LeaseExpires(i) \/ RetryDue(i)
    \/ \E c \in Claims : ClaimPending(i, c) \/ Work(i, c) \/ Abandon(i, c)

\* It keeps its entry's invariant and leaves the other entries alone.
LEMMA StepKeeps ==
    ASSUME TypeOK, NEW i \in Entries, EntryStep(i)
    PROVE  Keeps(i)
  <1>1. CASE Produce(i)
    BY <1>1, ProduceKeeps
  <1>2. CASE Receipts(i)
    BY <1>2, ReceiptKeeps DEF Receipts
  <1>3. CASE Manage(i)
    BY <1>3, ResolveKeeps, RowChangesKeep DEF Manage
  <1>4. CASE LeaseExpires(i) \/ RetryDue(i)
    BY <1>4, RowChangesKeep
  <1>5. ASSUME NEW c \in Claims, ClaimPending(i, c) \/ Work(i, c) \/ Abandon(i, c)
        PROVE  Keeps(i)
    <2>1. CASE ClaimPending(i, c)
      BY <2>1, ClaimPendingKeeps
    <2>2. CASE Work(i, c)
      BY <2>2, GuardsKeep, UnledgeredKeep, AudienceLeftKeeps, StartAttemptKeeps, SubmitKeeps, RecordsKeep
         DEF Work
    <2>3. CASE Abandon(i, c)
      BY <2>3, GuardsKeep DEF Abandon
    <2>4. QED
      BY <1>5, <2>1, <2>2, <2>3
  <1>6. QED
    BY <1>1, <1>2, <1>3, <1>4, <1>5 DEF EntryStep

\* Every step keeps the invariant.
LEMMA LedgerStep == TypeOK /\ LedgerInv /\ [Next]_vars => LedgerInv'
  <1> SUFFICES ASSUME TypeOK, LedgerInv, [Next]_vars PROVE LedgerInv'
    OBVIOUS
  <1>1. ASSUME NEW i \in Entries, EntryStep(i) PROVE LedgerInv'
    <2>1. ASSUME NEW j \in Ledgered PROVE EntryInv(j)'
      <3>1. EntryInv(j) /\ Keeps(i)
        BY <1>1, EntryWise, StepKeeps
      <3>2. QED
        BY <3>1, Frame DEF Keeps
    <2>2. QED
      BY <2>1, EntryWiseNext
  <1>2. CASE UNCHANGED vars
    <2>1. ASSUME NEW j \in Ledgered PROVE EntryInv(j)'
      BY <1>2, EntryWise, Frame DEF vars, Untouched
    <2>2. QED
      BY <2>1, EntryWiseNext
  <1>3. QED
    BY <1>1, <1>2 DEF Next, EntryStep

\* Whatever mix of workers, receipts and operators writes them, intent, attempts,
\* queue row, acceptance and goroutines of every e-mail stay consistent.
THEOREM LedgerConsistent == Spec => []LedgerInv
  <1>1. Init => LedgerInv
    <2>1. NoClaim.phase = "none" /\ NoRow.st = "absent"
      BY DEF NoClaim, NoRow
    <2>2. ASSUME Init, NEW i \in Ledgered PROVE EntryInv(i)
      <3>1. /\ intent[i] = "absent" /\ row[i] = NoRow /\ attempts[i] = <<>> /\ accepted[i] = {}
            /\ \A c \in Claims : claim[i][c] = NoClaim
        BY <2>2 DEF Init
      <3>2. LastNo(i) = 0
        BY <3>1 DEF LastNo
      <3>3. LatestOnlyUnresolved(i) /\ IntentMirrorsLatest(i) /\ AcceptanceIsLatest(i)
        BY <3>1, <3>2 DEF LatestOnlyUnresolved, IntentMirrorsLatest, AcceptanceIsLatest, Unresolved
      <3>4. \A c \in Claims : ClaimInv(i, c)
        BY <2>1, <3>1 DEF ClaimInv, InFlight
      <3>5. QED
        BY <2>1, <3>1, <3>3, <3>4 DEF EntryInv
    <2>3. QED
      BY <2>2, EntryWise
  <1>2. QED
    BY <1>1, LedgerStep, TypeCorrect, PTL DEF Spec

\* Apart from answers taken for failures, the provider accepts one logical e-mail at most
\* once.
THEOREM EmailAtMostOnce == Spec => []AtMostOnce
  <1>1. LedgerInv => AtMostOnce
    BY DEF LedgerInv, AcceptanceIsLatest, AtMostOnce
  <1>2. QED
    BY <1>1, LedgerConsistent, PTL

-----------------------------------------------------------------------------
(* Completed rows.                                                           *)

\* Only a row that is being processed is held by a claim: whoever releases, completes,
\* pauses or deletes it leaves no token behind.
HeldInProcess == \A i \in Entries : row[i].tok # 0 => row[i].st = "processing"

\* An e-mail without a ledger never has an intent.
NoIntent == \A i \in Entries \ Ledgered : intent[i] = "absent"

\* A row that a step may leave behind: one that nobody holds, and that is completed if it
\* was, the same but for its clocks, or one that a claim took.
NextRow(i, r) ==
    \/ r.tok = 0 /\ (row[i].st = "confirmed" => r.st \in {"confirmed", "absent"})
    \/ r.tok = row[i].tok /\ r.st = row[i].st
    \/ r.st = "processing" /\ row[i].st # "confirmed"

WritesRow(i) == row' = row \/ \E r : row' = [row EXCEPT ![i] = r] /\ NextRow(i, r)

\* What the statements of the queue make of a row.
LEMMA RowShapeIs ==
    ASSUME NEW r \in Row
    PROVE  /\ \A st, retry : Released(r, st, retry).tok = 0 /\ Released(r, st, retry).st = st
           /\ Completed(r).tok = 0 /\ Completed(r).st = "confirmed"
           /\ \A c : Leased(r, c).st = "processing"
           /\ NoRow.tok = 0 /\ NoRow.st = "absent" /\ NewRow.tok = 0 /\ NewRow.st = "pending"
  <1>1. ASSUME NEW st, NEW retry
        PROVE  Released(r, st, retry).tok = 0 /\ Released(r, st, retry).st = st
    BY DEF Released, Row
  <1>2. Completed(r).tok = 0 /\ Completed(r).st = "confirmed"
    BY <1>1 DEF Completed
  <1>3. ASSUME NEW c
        PROVE  Leased(r, c).st = "processing"
    BY DEF Leased, Row
  <1>4. NoRow.tok = 0 /\ NoRow.st = "absent" /\ NewRow.tok = 0 /\ NewRow.st = "pending"
    BY DEF NoRow, NewRow
  <1>5. QED
    BY <1>1, <1>2, <1>3, <1>4

\* The writes of a worker reach only a row that it holds.
LEMMA ClaimWritesRow ==
    ASSUME TypeOK, HeldInProcess, NEW i \in Entries, NEW c \in Claims
    PROVE  /\ \A retry : FailClaim(i, c, retry) => WritesRow(i)
           /\ CompleteClaim(i, c) => WritesRow(i)
           /\ \A st : RecordAttemptOutcome(i, c, st) => WritesRow(i)
  <1>1. row[i] \in Row /\ (row[i].tok # 0 => row[i].st = "processing") /\ c # 0
    BY DEF TypeOK, HeldInProcess, Claims
  <1>2. ASSUME NEW retry, FailClaim(i, c, retry)
        PROVE  WritesRow(i)
    <2>1. PICK r : r = Released(row[i], "failed", retry)
      OBVIOUS
    <2>2. r.tok = 0 /\ r.st = "failed"
      BY <1>1, <2>1, RowShapeIs
    <2>3. row' = row \/ (Owns(i, c) /\ row' = [row EXCEPT ![i] = r])
      BY <1>2, <2>1, Zenon DEF FailClaim
    <2>4. Owns(i, c) => NextRow(i, r)
      BY <1>1, <2>2 DEF Owns, NextRow
    <2>5. QED
      BY <2>3, <2>4, Zenon DEF WritesRow
  <1>3. ASSUME CompleteClaim(i, c)
        PROVE  WritesRow(i)
    <2>1. PICK r : r = Completed(row[i])
      OBVIOUS
    <2>2. NextRow(i, r)
      BY <1>1, <2>1, RowShapeIs DEF NextRow
    <2>3. row' = row \/ row' = [row EXCEPT ![i] = r]
      BY <1>3, <2>1, Zenon DEF CompleteClaim
    <2>4. QED
      BY <2>2, <2>3, Zenon DEF WritesRow
  <1>4. ASSUME NEW st, RecordAttemptOutcome(i, c, st)
        PROVE  WritesRow(i)
    <2>1. PICK r : r = RowAfterOutcome(row[i], st)
      OBVIOUS
    <2>2. OutcomeAllowed(i, c, st) /\ row' = [row EXCEPT ![i] = r]
      BY <1>4, <2>1, Zenon DEF RecordAttemptOutcome
    <2>3. st # "provider_accepted" => row[i].st = "processing"
      BY <1>1, <2>2 DEF OutcomeAllowed, Owns
    <2>4. (r.tok = 0 /\ r.st \in {"confirmed", "failed"}) \/ r = row[i]
      <3>1. CASE st = "confirmed"
        BY <1>1, <2>1, <3>1, RowShapeIs DEF RowAfterOutcome
      <3>2. CASE st = "transient_failed"
        BY <1>1, <2>1, <3>2, RowShapeIs DEF RowAfterOutcome
      <3>3. CASE st \in {"terminal_failed", "unknown"}
        BY <1>1, <2>1, <3>3, RowShapeIs DEF RowAfterOutcome
      <3>4. CASE st \notin {"confirmed", "transient_failed", "terminal_failed", "unknown"}
        BY <2>1, <3>4 DEF RowAfterOutcome
      <3>5. QED
        BY <3>1, <3>2, <3>3, <3>4
    <2>5. st = "provider_accepted" => r = row[i]
      BY <2>1 DEF RowAfterOutcome
    <2>6. NextRow(i, r)
      BY <2>3, <2>4, <2>5 DEF NextRow
    <2>7. QED
      BY <2>2, <2>6 DEF WritesRow
  <1>5. QED
    BY <1>2, <1>3, <1>4

\* No worker writes another row.
LEMMA WorkWritesRow ==
    ASSUME TypeOK, HeldInProcess, NEW i \in Entries, NEW c \in Claims, Work(i, c)
    PROVE  WritesRow(i)
  <1>1. CASE \/ IntegrationMissing(i, c) \/ BreakerOpen(i, c) \/ AudienceUnavailable(i, c)
             \/ JourneyEnded(i, c) \/ FinishSuppression(i, c) \/ FinishUnledgered(i, c)
    <2>1. CompleteClaim(i, c) \/ \E retry : FailClaim(i, c, retry)
      BY <1>1, Zenon DEF IntegrationMissing, BreakerOpen, AudienceUnavailable, JourneyEnded, FinishSuppression,
                         FinishUnledgered, HandleError
    <2>2. QED
      BY <2>1, ClaimWritesRow
  <1>2. CASE RecordDeliveryFailure(i, c) \/ PersistAccepted(i, c) \/ Confirm(i, c)
    <2>1. row' = row \/ \E st : RecordAttemptOutcome(i, c, st)
      BY <1>2, Zenon DEF RecordDeliveryFailure, PersistAccepted, Confirm, GiveUp
    <2>2. QED
      BY <2>1, ClaimWritesRow DEF WritesRow
  <1>3. CASE PassLimits(i, c) \/ AudienceLeft(i, c) \/ StartAttempt(i, c) \/ SubmitEmail(i, c)
    BY <1>3, Zenon DEF PassLimits, AudienceLeft, StartAttempt, SubmitEmail, WritesRow
  <1>4. QED
    BY <1>1, <1>2, <1>3 DEF Work

\* Nor does anybody else; an operator resolves an unknown outcome, which a completed row
\* never has.
LEMMA StepWritesRow ==
    ASSUME TypeOK, LedgerInv, HeldInProcess, NoIntent, NEW i \in Entries, EntryStep(i)
    PROVE  WritesRow(i)
  <1>1. row[i] \in Row /\ row \in [Entries -> Row] /\ (row[i].tok # 0 => row[i].st = "processing")
    BY DEF TypeOK, HeldInProcess
  <1>2. /\ NoRow.tok = 0 /\ NoRow.st = "absent" /\ NewRow.tok = 0 /\ NewRow.st = "pending"
        /\ Completed(row[i]).tok = 0 /\ Completed(row[i]).st = "confirmed"
    BY <1>1, RowShapeIs
  <1>3. CASE Produce(i)
    <2>1. row' = row \/ (row[i].st = "absent" /\ row' = [row EXCEPT ![i] = NewRow])
      BY <1>3, Zenon DEF Produce, ReserveIntent, ReserveAndEnqueue, Enqueue
    <2>2. row[i].st = "absent" => NextRow(i, NewRow)
      BY <1>2 DEF NextRow
    <2>3. QED
      BY <2>1, <2>2, Zenon DEF WritesRow
  <1>4. CASE Receipts(i)
    <2>1. row' = row \/ row' = [row EXCEPT ![i] = Completed(row[i])]
      BY <1>4, Zenon DEF Receipts, RecordReceipt
    <2>2. NextRow(i, Completed(row[i]))
      BY <1>2 DEF NextRow
    <2>3. QED
      BY <2>1, <2>2, Zenon DEF WritesRow
  <1>5. ASSUME NEW action \in Resolution, ResolveUnknown(i, action)
        PROVE  WritesRow(i)
    <2>1. PICK r : r = ResolvedRow(row[i], action)
      OBVIOUS
    <2>2. intent[i] = "unknown" /\ (row' = row \/ row' = [row EXCEPT ![i] = r])
      BY <1>5, <2>1, Zenon DEF ResolveUnknown
    <2>3. i \in Ledgered
      BY <2>2 DEF NoIntent
    <2>4. row[i].st # "confirmed"
      BY <2>2, <2>3 DEF LedgerInv, CompletedRowIsSettled
    <2>5. r.tok = 0
      BY <1>1, <2>1, RowShapeIs DEF ResolvedRow, Resolution
    <2>6. NextRow(i, r)
      BY <2>4, <2>5 DEF NextRow
    <2>7. QED
      BY <2>2, <2>6, Zenon DEF WritesRow
  <1>6. CASE RequestReconciliation(i)
    BY <1>6, Zenon DEF RequestReconciliation, WritesRow
  <1>7. CASE PauseRow(i) \/ ResumeRow(i)
    <2>1. row[i].st \in {"pending", "failed", "paused"} /\ row[i].tok = 0
      BY <1>1, <1>7 DEF PauseRow, ResumeRow
    <2>2. PICK r : r.tok = row[i].tok /\ row' = [row EXCEPT ![i] = r]
      <3>1. CASE PauseRow(i)
        <4>1. PICK r : r = [row[i] EXCEPT !.st = "paused"]
          OBVIOUS
        <4>2. r.tok = row[i].tok
          BY <1>1, <4>1 DEF Row
        <4>3. row' = [row EXCEPT ![i] = r]
          BY <3>1, <4>1, Zenon DEF PauseRow
        <4>4. QED
          BY <4>2, <4>3
      <3>2. CASE ResumeRow(i)
        <4>1. PICK r : r = [row[i] EXCEPT !.st = "pending", !.retry = "none"]
          OBVIOUS
        <4>2. r.tok = row[i].tok
          BY <1>1, <4>1 DEF Row
        <4>3. row' = [row EXCEPT ![i] = r]
          BY <1>1, <3>2, <4>1 DEF ResumeRow
        <4>4. QED
          BY <4>2, <4>3
      <3>3. QED
        BY <1>7, <3>1, <3>2
    <2>3. NextRow(i, r)
      BY <2>1, <2>2 DEF NextRow
    <2>4. QED
      BY <2>2, <2>3 DEF WritesRow
  <1>8. CASE DeleteRow(i) \/ DeleteForEmail(i)
    <2>1. row' = [row EXCEPT ![i] = NoRow]
      BY <1>8, Zenon DEF DeleteRow, DeleteForEmail
    <2>2. NextRow(i, NoRow)
      BY <1>2 DEF NextRow
    <2>3. QED
      BY <2>1, <2>2 DEF WritesRow
  <1>9. CASE LeaseExpires(i) \/ RetryDue(i)
    <2>1. PICK x, y : x = [row[i] EXCEPT !.lease = "expired"] /\ y = [row[i] EXCEPT !.retry = "due"]
      OBVIOUS
    <2>2. LeaseExpires(i) => row' = [row EXCEPT ![i] = x]
      BY <1>1, <2>1 DEF LeaseExpires
    <2>3. RetryDue(i) => row' = [row EXCEPT ![i] = y]
      BY <1>1, <2>1 DEF RetryDue
    <2>4. x.tok = row[i].tok /\ x.st = row[i].st /\ y.tok = row[i].tok /\ y.st = row[i].st
      BY <1>1, <2>1 DEF Row
    <2>5. NextRow(i, x) /\ NextRow(i, y)
      BY <1>1, <2>4 DEF NextRow
    <2>6. QED
      BY <1>9, <2>2, <2>3, <2>5 DEF WritesRow
  <1>10. ASSUME NEW c \in Claims, ClaimPending(i, c)
         PROVE  WritesRow(i)
    <2>1. PICK r : r = Leased(row[i], c)
      OBVIOUS
    <2>2. row' = [row EXCEPT ![i] = r] /\ RowDue(row[i])
      BY <1>10, <2>1, Zenon DEF ClaimPending, Claimable
    <2>3. row[i].st # "confirmed" /\ r.st = "processing"
      BY <1>1, <2>1, <2>2, RowShapeIs DEF RowDue
    <2>4. NextRow(i, r)
      BY <2>3 DEF NextRow
    <2>5. QED
      BY <2>2, <2>4, Zenon DEF WritesRow
  <1>11. ASSUME NEW c \in Claims, Work(i, c) \/ Abandon(i, c)
         PROVE  WritesRow(i)
    <2>1. Abandon(i, c) => row' = row
      BY Zenon DEF Abandon, GiveUp
    <2>2. QED
      BY <1>11, <2>1, WorkWritesRow DEF WritesRow
  <1>12. QED
    BY <1>3, <1>4, <1>5, <1>6, <1>7, <1>8, <1>9, <1>10, <1>11, Zenon DEF EntryStep, Manage

\* No step makes an intent for an e-mail without a ledger.
LEMMA NoIntentStep ==
    ASSUME TypeOK, NoIntent, [Next]_vars
    PROVE  NoIntent'
  <1>1. intent \in [Entries -> IntentStatus]
    BY DEF TypeOK
  <1>2. ASSUME NEW i \in Entries, EntryStep(i)
        PROVE  \/ intent' = intent
               \/ (i \in Ledgered \/ intent[i] # "absent") /\ \E st : intent' = [intent EXCEPT ![i] = st]
    <2>1. CASE Produce(i) \/ Receipts(i)
      BY <2>1, Zenon DEF Produce, ReserveIntent, ReserveAndEnqueue, Enqueue, Receipts, RecordReceipt
    <2>2. CASE Manage(i)
      <3>1. ASSUME NEW action \in Resolution, ResolveUnknown(i, action)
            PROVE  intent[i] # "absent" /\ \E st : intent' = [intent EXCEPT ![i] = st]
        BY <3>1 DEF ResolveUnknown
      <3>2. QED
        BY <2>2, <3>1, Zenon DEF Manage, RequestReconciliation, PauseRow, ResumeRow, DeleteRow, DeleteForEmail
    <2>3. CASE LeaseExpires(i) \/ RetryDue(i)
      BY <2>3, Zenon DEF LeaseExpires, RetryDue
    <2>4. ASSUME NEW c \in Claims, ClaimPending(i, c) \/ Abandon(i, c)
          PROVE  intent' = intent
      BY <2>4, Zenon DEF ClaimPending, Abandon, GiveUp
    <2>5. ASSUME NEW c \in Claims, Work(i, c)
          PROVE  \/ intent' = intent
                 \/ (i \in Ledgered \/ intent[i] # "absent") /\ \E st : intent' = [intent EXCEPT ![i] = st]
      <3>1. CASE RecordDeliveryFailure(i, c) \/ PersistAccepted(i, c) \/ AudienceLeft(i, c) \/ StartAttempt(i, c)
        BY <3>1, Zenon DEF RecordDeliveryFailure, PersistAccepted, AudienceLeft, StartAttempt, RecordAttemptOutcome, GiveUp
      <3>2. CASE Confirm(i, c)
        <4>1. intent' = intent \/ (OutcomeAllowed(i, c, "confirmed") /\ intent' = [intent EXCEPT ![i] = "confirmed"])
          BY <3>2, Zenon DEF Confirm, RecordAttemptOutcome, GiveUp
        <4>2. OutcomeAllowed(i, c, "confirmed") => intent[i] # "absent"
          BY DEF OutcomeAllowed, CanTransitionTo, Successors
        <4>3. QED
          BY <4>1, <4>2, Zenon
      <3>3. CASE /\ ~RecordDeliveryFailure(i, c) /\ ~PersistAccepted(i, c) /\ ~AudienceLeft(i, c)
                 /\ ~StartAttempt(i, c) /\ ~Confirm(i, c)
        BY <2>5, <3>3, Zenon DEF Work, IntegrationMissing, BreakerOpen, PassLimits, JourneyEnded, AudienceUnavailable,
             FinishSuppression, SubmitEmail, FinishUnledgered, HandleError
      <3>4. QED
        BY <3>1, <3>2, <3>3
    <2>6. QED
      BY <1>2, <2>1, <2>2, <2>3, <2>4, <2>5, Zenon DEF EntryStep
  <1>3. ASSUME NEW i \in Entries, EntryStep(i)
        PROVE  NoIntent'
    <2>1. CASE intent' = intent
      BY <2>1 DEF NoIntent
    <2>2. ASSUME NEW st, i \in Ledgered \/ intent[i] # "absent", intent' = [intent EXCEPT ![i] = st]
          PROVE  NoIntent'
      BY <1>1, <2>2 DEF NoIntent
    <2>3. QED
      BY <1>2, <1>3, <2>1, <2>2
  <1>4. CASE UNCHANGED vars
    BY <1>4 DEF vars, NoIntent
  <1>5. QED
    BY <1>3, <1>4 DEF Next, EntryStep

\* A completed queue row is never reopened: not by a worker that lost its claim, a late
\* receipt or an operator.  It can only be deleted.
THEOREM CompletedForGood == Spec => CompletedRowStays
  <1>1. Init => HeldInProcess
    <2>1. NoRow.tok = 0
      BY DEF NoRow
    <2>2. QED
      BY <2>1 DEF Init, HeldInProcess
  <1>2. ASSUME TypeOK, LedgerInv, HeldInProcess, NoIntent, [Next]_vars
        PROVE  /\ HeldInProcess'
               /\ \A i \in Entries : row[i].st = "confirmed" => row'[i].st \in {"confirmed", "absent"}
    <2>1. row \in [Entries -> Row]
      BY <1>2 DEF TypeOK
    <2>2. ASSUME NEW i \in Entries, EntryStep(i)
          PROVE  /\ HeldInProcess'
                 /\ \A j \in Entries : row[j].st = "confirmed" => row'[j].st \in {"confirmed", "absent"}
      <3>1. WritesRow(i)
        BY <1>2, <2>2, StepWritesRow
      <3>2. CASE row' = row
        BY <1>2, <3>2 DEF HeldInProcess
      <3>3. ASSUME NEW r, row' = [row EXCEPT ![i] = r], NextRow(i, r)
            PROVE  /\ HeldInProcess'
                   /\ \A j \in Entries : row[j].st = "confirmed" => row'[j].st \in {"confirmed", "absent"}
        <4>1. row'[i] = r /\ \A j \in Entries \ {i} : row'[j] = row[j]
          BY <2>1, <3>3
        <4>2. \A j \in Entries : row[j].tok # 0 => row[j].st = "processing"
          BY <1>2 DEF HeldInProcess
        <4>3. (r.tok # 0 => r.st = "processing") /\ (row[i].st = "confirmed" => r.st \in {"confirmed", "absent"})
          BY <3>3, <4>2 DEF NextRow
        <4>4. QED
          BY <4>1, <4>2, <4>3 DEF HeldInProcess
      <3>4. QED
        BY <3>1, <3>2, <3>3 DEF WritesRow
    <2>3. CASE UNCHANGED vars
      BY <1>2, <2>3 DEF vars, HeldInProcess
    <2>4. QED
      BY <1>2, <2>2, <2>3 DEF Next, EntryStep
  <1>3. TypeOK /\ LedgerInv /\ HeldInProcess /\ NoIntent /\ [Next]_vars =>
          /\ HeldInProcess'
          /\ \A i \in Entries : row[i].st = "confirmed" => row'[i].st \in {"confirmed", "absent"}
    BY <1>2
  <1>4. (Init => NoIntent) /\ (TypeOK /\ NoIntent /\ [Next]_vars => NoIntent')
    BY NoIntentStep DEF Init, NoIntent
  <1>5. QED
    BY <1>1, <1>3, <1>4, TypeCorrect, LedgerConsistent, PTL DEF Spec, CompletedRowStays
=============================================================================
