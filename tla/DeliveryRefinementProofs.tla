---------------------- MODULE DeliveryRefinementProofs ----------------------
(* Four kinds of step are all a ledger e-mail ever sees: nothing, a new       *)
(* attempt, an acceptance, and a change of status.  That no attempt is opened *)
(* blindly and that the ledger implements DeliveryEffect both follow.         *)
EXTENDS DeliverySafetyProofs

USE LedgeredAssumption, BoundsAssumption

\* The statuses an attempt ever has.
AttemptStatus == Unresolved \cup {"confirmed", "transient_failed", "terminal_failed"}

\* Nothing the provider or the ledger knows of the e-mail changes.
Still(i) ==
    /\ intent'[i] = intent[i] /\ attempts'[i] = attempts[i]
    /\ accepted'[i] = accepted[i] /\ misread'[i] = misread[i]

\* A new attempt is opened.
Opens(i) ==
    /\ MayStart(i)
    /\ intent'[i] = "submitting"
    /\ \E c \in Claims : attempts'[i] = Append(attempts[i], [st |-> "submitting", tok |-> c])
    /\ accepted'[i] = accepted[i] /\ misread'[i] = misread[i]

\* The provider accepts the message, and the worker may misread the answer.
Accepts(i) ==
    /\ intent'[i] = intent[i] /\ attempts'[i] = attempts[i]
    /\ intent[i] = "submitting" \/ misread[i] # {}
    /\ accepted[i] = {}
    /\ \E c \in Claims : \/ accepted'[i] = {c} /\ misread'[i] = misread[i]
                         \/ accepted'[i] = accepted[i] /\ misread'[i] = (misread[i] \cup {c})

\* The e-mail is not settled yet, and a status changes.
Moves(i) ==
    /\ intent[i] \notin Final
    /\ accepted'[i] = accepted[i] /\ misread'[i] = misread[i]
    /\ intent'[i] = "confirmed" => OnRecord(i)
    /\ intent'[i] = "suppressed" => accepted[i] = {}
    /\ \/ attempts'[i] = attempts[i]
       \/ \E n \in 1..LastNo(i), st \in AttemptStatus :
            WritesStatus(i, n, st) /\ (st = "confirmed" => intent'[i] = "confirmed")

Kinds(i) == Still(i) \/ Opens(i) \/ Accepts(i) \/ Moves(i)

\* The worker's steps on a ledger e-mail are of the four kinds.
LEMMA WorkKinds ==
    ASSUME TypeOK, NEW i \in Ledgered, EntryInv(i), NEW c \in Claims, Work(i, c)
    PROVE  Kinds(i)
  <1>1. CASE AudienceLeft(i, c)
    <2>1. CASE intent[i] # "queued"
      BY <1>1, <2>1 DEF AudienceLeft, Kinds, Still
    <2>2. CASE intent[i] = "queued"
      <3>1. accepted[i] = {}
        BY <2>2, RestIsQuiet DEF AtRest
      <3>2. intent'[i] = "suppressed" /\ attempts' = attempts /\ accepted' = accepted /\ misread' = misread
        BY <1>1, <2>2 DEF TypeOK, AudienceLeft
      <3>3. QED
        BY <2>2, <3>1, <3>2 DEF Kinds, Moves, Final
    <2>3. QED
      BY <2>1, <2>2
  <1>2. CASE StartAttempt(i, c)
    <2>1. CASE ~MayStart(i)
      BY <1>2, <2>1 DEF StartAttempt, Kinds, Still
    <2>2. CASE MayStart(i)
      <3>1. /\ intent'[i] = "submitting"
            /\ attempts'[i] = Append(attempts[i], [st |-> "submitting", tok |-> c])
            /\ accepted' = accepted /\ misread' = misread
        BY <1>2, <2>2 DEF TypeOK, StartAttempt
      <3>2. QED
        BY <2>2, <3>1 DEF Kinds, Opens
    <2>3. QED
      BY <2>1, <2>2
  <1>3. CASE SubmitEmail(i, c)
    <2>1. claim[i][c].phase = "started" /\ intent' = intent /\ attempts' = attempts
      BY <1>3 DEF SubmitEmail, ReadyToSubmit
    <2>2. (intent[i] = "submitting" \/ misread[i] # {}) /\ accepted[i] = {}
      BY <2>1 DEF EntryInv, ClaimInv, InFlight, OnRecord
    <2>3. \/ accepted' = accepted /\ misread' = misread
          \/ accepted' = [accepted EXCEPT ![i] = @ \cup {c}] /\ misread' = misread
          \/ misread' = [misread EXCEPT ![i] = @ \cup {c}] /\ accepted' = accepted
      BY <1>3, Zenon DEF SubmitEmail
    <2>4. \/ accepted'[i] = accepted[i] /\ misread'[i] = misread[i]
          \/ accepted'[i] = {c} /\ misread'[i] = misread[i]
          \/ accepted'[i] = accepted[i] /\ misread'[i] = (misread[i] \cup {c})
      <3>1. accepted \in [Entries -> SUBSET Claims] /\ misread \in [Entries -> SUBSET Claims]
        BY DEF TypeOK
      <3>2. CASE accepted' = accepted /\ misread' = misread
        BY <3>2
      <3>3. CASE accepted' = [accepted EXCEPT ![i] = @ \cup {c}] /\ misread' = misread
        BY <2>2, <3>1, <3>3
      <3>4. CASE misread' = [misread EXCEPT ![i] = @ \cup {c}] /\ accepted' = accepted
        BY <3>1, <3>4
      <3>5. QED
        BY <2>3, <3>2, <3>3, <3>4
    <2>5. CASE accepted'[i] = accepted[i] /\ misread'[i] = misread[i]
      BY <2>1, <2>5 DEF Kinds, Still
    <2>6. CASE ~(accepted'[i] = accepted[i] /\ misread'[i] = misread[i])
      BY <2>1, <2>2, <2>4, <2>6 DEF Kinds, Accepts
    <2>7. QED
      BY <2>5, <2>6
  <1>4. ASSUME NEW st \in AttemptStatus, RecordAttemptOutcome(i, c, st),
               st = "confirmed" => OnRecord(i)
        PROVE  Kinds(i)
    <2>1. CanTransitionTo(intent[i], st) /\ claim[i][c].no \in 1..LastNo(i)
      BY <1>4 DEF RecordAttemptOutcome, OutcomeAllowed
    <2>2. intent[i] \notin Final
      BY <2>1 DEF CanTransitionTo, Successors, Final
    <2>3. intent'[i] = st /\ accepted' = accepted /\ misread' = misread /\ WritesStatus(i, claim[i][c].no, st)
      BY <1>4 DEF TypeOK, RecordAttemptOutcome, WritesStatus
    <2>4. st # "suppressed"
      BY <1>4 DEF AttemptStatus, Unresolved
    <2>5. QED
      BY <1>4, <2>1, <2>2, <2>3, <2>4 DEF Kinds, Moves
  <1>5. CASE RecordDeliveryFailure(i, c)
    <2>1. FailureStatus(i, c) \in AttemptStatus /\ FailureStatus(i, c) # "confirmed"
      BY DEF FailureStatus, AttemptStatus, Unresolved
    <2>2. QED
      BY <1>4, <1>5, <2>1 DEF RecordDeliveryFailure, GiveUp, Kinds, Still
  <1>6. CASE PersistAccepted(i, c)
    BY <1>4, <1>6 DEF PersistAccepted, GiveUp, Kinds, Still, AttemptStatus, Unresolved
  <1>7. CASE Confirm(i, c)
    <2>1. OnRecord(i)
      BY <1>7 DEF Confirm, EntryInv, ClaimInv, OnRecord
    <2>2. QED
      BY <1>4, <1>7, <2>1 DEF Confirm, GiveUp, Kinds, Still, AttemptStatus
  <1>8. CASE \/ IntegrationMissing(i, c) \/ BreakerOpen(i, c) \/ PassLimits(i, c) \/ JourneyEnded(i, c)
             \/ AudienceUnavailable(i, c) \/ FinishSuppression(i, c) \/ FinishUnledgered(i, c)
    BY <1>8 DEF IntegrationMissing, HandleError, BreakerOpen, PassLimits, JourneyEnded,
                AudienceUnavailable, FinishSuppression, FinishUnledgered, Kinds, Still
  <1>9. QED
    BY <1>1, <1>2, <1>3, <1>5, <1>6, <1>7, <1>8 DEF Work

\* So are the steps of producers, receipts, operators and clocks.
LEMMA OtherKinds ==
    ASSUME TypeOK, NEW i \in Ledgered, EntryInv(i),
           Produce(i) \/ Receipts(i) \/ Manage(i) \/ LeaseExpires(i) \/ RetryDue(i)
    PROVE  Kinds(i)
  <1>1. CASE Produce(i)
    <2>1. /\ intent[i] \in {"absent", "transient_failed"}
          /\ intent'[i] \in {"suppressed", "deferred", "queued"}
          /\ attempts' = attempts /\ accepted' = accepted /\ misread' = misread
      BY <1>1 DEF TypeOK, Produce, ReserveIntent, ReserveAndEnqueue, Enqueue
    <2>2. accepted[i] = {}
      BY <2>1, RestIsQuiet DEF AtRest
    <2>3. QED
      BY <2>1, <2>2 DEF Kinds, Moves, Final
  <1>2. ASSUME NEW st \in ReceiptTarget, RecordReceipt(i, st) PROVE Kinds(i)
    <2>0. ReceiptAllowed(st) \subseteq Unresolved /\ st \in AttemptStatus /\ st # "suppressed"
      BY DEF ReceiptTarget, ReceiptAllowed, Unresolved, AttemptStatus
    <2>1. OnRecord(i) /\ accepted' = accepted /\ misread' = misread /\ LastNo(i) > 0 /\ LastNo(i) \in Nat
      BY <1>2 DEF RecordReceipt, TypeOK, LastNo
    <2>2. CASE intent[i] \notin ReceiptAllowed(st)
      <3>1. attempts[i][LastNo(i)].st \notin ReceiptAllowed(st)
        BY <2>0, <2>1, <2>2 DEF EntryInv, IntentMirrorsLatest
      <3>2. QED
        BY <1>2, <2>2, <3>1 DEF RecordReceipt, Kinds, Still
    <2>3. CASE intent[i] \in ReceiptAllowed(st)
      <3>1. attempts[i][LastNo(i)].st \in ReceiptAllowed(st) /\ intent[i] \notin Final
        BY <2>0, <2>3 DEF EntryInv, IntentMirrorsLatest, Final, Unresolved
      <3>2. intent'[i] = st /\ WritesStatus(i, LastNo(i), st)
        BY <1>2, <2>3, <3>1 DEF TypeOK, RecordReceipt, WritesStatus
      <3>3. LastNo(i) \in 1..LastNo(i)
        BY <2>1
      <3>4. QED
        BY <2>0, <2>1, <3>1, <3>2, <3>3 DEF Kinds, Moves
    <2>4. QED
      BY <2>2, <2>3
  <1>3. ASSUME NEW action \in Resolution, ResolveUnknown(i, action) PROVE Kinds(i)
    <2>1. PICK n \in 1..LastNo(i) : WritesStatus(i, n, ResolvedAttempt(action))
      BY <1>3 DEF ResolveUnknown, WritesStatus
    <2>2. /\ intent[i] = "unknown" /\ intent'[i] = ResolvedIntent(action)
          /\ accepted' = accepted /\ misread' = misread
          /\ Evidence(i, action)
      BY <1>3 DEF TypeOK, ResolveUnknown
    <2>3. /\ ResolvedAttempt(action) \in AttemptStatus
          /\ ResolvedAttempt(action) = "confirmed" => ResolvedIntent(action) = "confirmed"
          /\ ResolvedIntent(action) # "suppressed"
          /\ ResolvedIntent(action) = "confirmed" => action = "mark_confirmed"
      BY DEF ResolvedAttempt, ResolvedIntent, AttemptStatus
    <2>4. ResolvedIntent(action) = "confirmed" => OnRecord(i)
      BY <2>2, <2>3 DEF Evidence
    <2>5. QED
      BY <2>1, <2>2, <2>3, <2>4 DEF Kinds, Moves, Final
  <1>4. CASE \/ RequestReconciliation(i) \/ PauseRow(i) \/ ResumeRow(i) \/ DeleteRow(i)
             \/ DeleteForEmail(i) \/ LeaseExpires(i) \/ RetryDue(i)
    BY <1>4 DEF RequestReconciliation, PauseRow, ResumeRow, DeleteRow, DeleteForEmail,
                LeaseExpires, RetryDue, Kinds, Still
  <1>5. QED
    BY <1>1, <1>2, <1>3, <1>4 DEF Receipts, Manage

\* A step changes one entry, and a ledger e-mail only in one of the four ways.
LEMMA StepKinds ==
    ASSUME TypeOK, LedgerInv, NEW i \in Entries, EntryStep(i)
    PROVE  /\ \A j \in Ledgered : j # i => Untouched(j)
           /\ i \in Ledgered => Kinds(i)
  <1>1. \A j \in Ledgered : j # i => Untouched(j)
    BY StepKeeps DEF Keeps
  <1>2. ASSUME i \in Ledgered PROVE Kinds(i)
    <2>1. EntryInv(i)
      BY <1>2, EntryWise
    <2>2. CASE \E c \in Claims : ClaimPending(i, c) \/ Abandon(i, c)
      BY <2>2 DEF ClaimPending, Abandon, GiveUp, Kinds, Still
    <2>3. CASE \E c \in Claims : Work(i, c)
      BY <1>2, <2>1, <2>3, WorkKinds
    <2>4. CASE Produce(i) \/ Receipts(i) \/ Manage(i) \/ LeaseExpires(i) \/ RetryDue(i)
      BY <1>2, <2>1, <2>4, OtherKinds
    <2>5. QED
      BY <2>2, <2>3, <2>4 DEF EntryStep
  <1>3. QED
    BY <1>1, <1>2

-----------------------------------------------------------------------------
(* No blind resend.                                                          *)

\* An attempt is confirmed only together with its intent.
AttemptsHonest(i) ==
    \A n \in 1..LastNo(i) :
      /\ attempts[i][n].st \in AttemptStatus
      /\ attempts[i][n].st = "confirmed" => intent[i] = "confirmed"

AttemptInv == \A i \in Ledgered : AttemptsHonest(i)

\* Each of the four kinds of step keeps the attempts honest.
LEMMA KindsHonest ==
    ASSUME TypeOK, NEW i \in Ledgered, AttemptsHonest(i), Kinds(i)
    PROVE  AttemptsHonest(i)'
  <1>0. attempts[i] \in Seq(Attempt) /\ LastNo(i) \in Nat
    BY DEF TypeOK, LastNo
  <1>1. CASE Still(i) \/ Accepts(i)
    BY <1>1 DEF Still, Accepts, AttemptsHonest, LastNo
  <1>2. CASE Opens(i)
    <2>1. PICK c \in Claims : attempts'[i] = Append(attempts[i], [st |-> "submitting", tok |-> c])
      BY <1>2 DEF Opens
    <2> DEFINE at == [st |-> "submitting", tok |-> c]
    <2>2. at.st = "submitting" /\ at \in Attempt
      BY DEF Attempt, IntentStatus
    <2>3. attempts'[i] = Append(attempts[i], at)
      BY <2>1
    <2> HIDE DEF at
    <2>4. /\ LastNo(i)' = LastNo(i) + 1 /\ attempts'[i][LastNo(i) + 1].st = "submitting"
          /\ \A n \in 1..LastNo(i) : attempts'[i][n] = attempts[i][n]
      BY <1>0, <2>2, <2>3 DEF LastNo
    <2>5. \A n \in 1..LastNo(i) : attempts[i][n].st \in AttemptStatus /\ attempts[i][n].st # "confirmed"
      BY <1>2 DEF Opens, MayStart, AttemptsHonest
    <2>6. \A n \in 1..(LastNo(i) + 1) : n \in 1..LastNo(i) \/ n = LastNo(i) + 1
      BY <1>0
    <2>7. QED
      BY <2>4, <2>5, <2>6 DEF AttemptsHonest, AttemptStatus, Unresolved
  <1>3. CASE Moves(i)
    <2>1. \A n \in 1..LastNo(i) : attempts[i][n].st \in AttemptStatus /\ attempts[i][n].st # "confirmed"
      BY <1>3 DEF Moves, Final, AttemptsHonest
    <2>2. CASE attempts'[i] = attempts[i]
      BY <2>1, <2>2 DEF AttemptsHonest, LastNo
    <2>3. ASSUME NEW n \in 1..LastNo(i), NEW st \in AttemptStatus, WritesStatus(i, n, st),
                 st = "confirmed" => intent'[i] = "confirmed"
          PROVE  AttemptsHonest(i)'
      <3>1. st \in IntentStatus
        BY DEF AttemptStatus, IntentStatus, Unresolved
      <3>2. /\ LastNo(i)' = LastNo(i) /\ attempts'[i][n].st = st
            /\ \A m \in 1..LastNo(i) : m # n => attempts'[i][m] = attempts[i][m]
        BY <2>3, <3>1, AttemptWrite
      <3>3. QED
        BY <2>1, <2>3, <3>2 DEF AttemptsHonest
    <2>4. QED
      BY <1>3, <2>2, <2>3 DEF Moves
  <1>4. QED
    BY <1>1, <1>2, <1>3 DEF Kinds

\* Attempts are honest in every reachable state.
LEMMA AttemptsStayHonest == Spec => []AttemptInv
  <1>1. Init => AttemptInv
    BY DEF Init, AttemptInv, AttemptsHonest, LastNo
  <1>2. TypeOK /\ LedgerInv /\ AttemptInv /\ [Next]_vars => AttemptInv'
    <2> SUFFICES ASSUME TypeOK, LedgerInv, AttemptInv, [Next]_vars, NEW j \in Ledgered
                 PROVE  AttemptsHonest(j)'
      BY DEF AttemptInv
    <2>1. Untouched(j) => AttemptsHonest(j)'
      BY DEF Untouched, AttemptInv, AttemptsHonest, LastNo
    <2>2. ASSUME NEW i \in Entries, EntryStep(i) PROVE AttemptsHonest(j)'
      <3>1. Untouched(j) \/ Kinds(j)
        BY <2>2, StepKinds
      <3>2. QED
        BY <2>1, <3>1, KindsHonest DEF AttemptInv
    <2>3. CASE UNCHANGED vars
      BY <2>1, <2>3 DEF vars, Untouched
    <2>4. QED
      BY <2>2, <2>3 DEF Next, EntryStep
  <1>3. QED
    BY <1>1, <1>2, TypeCorrect, LedgerConsistent, PTL DEF Spec

\* StartAttempt opens another attempt only for an e-mail that was never accepted, unless
\* the answer was misread, and whose earlier attempts are all recorded as failed.
THEOREM NeverResentBlindly == Spec => NoBlindResend
  <1> DEFINE Grows == \A i \in Ledgered : Len(attempts'[i]) > Len(attempts[i]) =>
                /\ accepted[i] = {}
                /\ \A n \in 1..LastNo(i) : attempts[i][n].st \in {"transient_failed", "terminal_failed"}
  <1>1. TypeOK /\ LedgerInv /\ AttemptInv /\ [Next]_vars => [Grows]_vars
    <2> SUFFICES ASSUME TypeOK, LedgerInv, AttemptInv, Next, NEW j \in Ledgered,
                        Len(attempts'[j]) > Len(attempts[j])
                 PROVE  /\ accepted[j] = {}
                        /\ \A n \in 1..LastNo(j) : attempts[j][n].st \in {"transient_failed", "terminal_failed"}
      OBVIOUS
    <2>0. attempts[j] \in Seq(Attempt) /\ Len(attempts[j]) \in Nat
      BY DEF TypeOK
    <2>1. PICK i \in Entries : EntryStep(i)
      BY DEF Next, EntryStep
    <2>2. Untouched(j) \/ Kinds(j)
      BY <2>1, StepKinds
    <2>3. ~Untouched(j) /\ ~Still(j) /\ ~Accepts(j)
      BY <2>0 DEF Untouched, Still, Accepts
    <2>4. ~Moves(j)
      <3>1. ASSUME NEW n \in 1..LastNo(j), NEW st \in AttemptStatus, WritesStatus(j, n, st) PROVE FALSE
        <4>1. st \in IntentStatus
          BY DEF AttemptStatus, IntentStatus, Unresolved
        <4>2. LastNo(j)' = LastNo(j)
          BY <3>1, <4>1, AttemptWrite
        <4>3. QED
          BY <2>0, <4>2 DEF LastNo
      <3>2. QED
        BY <2>0, <3>1 DEF Moves
    <2>5. MayStart(j)
      BY <2>2, <2>3, <2>4 DEF Kinds, Opens
    <2>6. accepted[j] = {}
      BY <2>5, EntryWise, RestIsQuiet DEF MayStart, AtRest
    <2>7. QED
      BY <2>5, <2>6 DEF MayStart, HasUnresolved, AttemptInv, AttemptsHonest, AttemptStatus
  <1>2. QED
    BY <1>1, TypeCorrect, LedgerConsistent, AttemptsStayHonest, PTL DEF Spec, NoBlindResend

-----------------------------------------------------------------------------
(* The refinement.                                                           *)

\* The abstract variables, as the refinement mapping reads them.
Delivered == [i \in Ledgered |-> accepted[i]]
Forgotten == [i \in Ledgered |-> misread[i]]
Verdicts == [i \in Ledgered |-> Verdict(intent[i])]

AbstractStill == Delivered' = Delivered /\ Forgotten' = Forgotten /\ Verdicts' = Verdicts

\* A step of one of the four kinds is an abstract step of its key, or none.
LEMMA KindsRefine ==
    ASSUME TypeOK, LedgerInv, NEW i \in Entries, EntryStep(i)
    PROVE  Effect!EffectNext \/ AbstractStill
  <1>0. /\ \A j \in Ledgered : j # i => Untouched(j)
        /\ i \in Ledgered => Kinds(i)
    BY StepKinds
  <1>1. \A j \in Ledgered : j # i => /\ accepted'[j] = accepted[j] /\ misread'[j] = misread[j]
                                     /\ Verdict(intent[j])' = Verdict(intent[j])
    BY <1>0 DEF Untouched, Verdict
  <1>2. CASE i \in Ledgered => /\ accepted'[i] = accepted[i] /\ misread'[i] = misread[i]
                               /\ Verdict(intent[i])' = Verdict(intent[i])
    BY <1>1, <1>2 DEF AbstractStill, Delivered, Forgotten, Verdicts
  <1>3. CASE i \in Ledgered /\ Accepts(i)
    <2>1. PICK c \in Claims : \/ accepted'[i] = {c} /\ misread'[i] = misread[i]
                              \/ accepted'[i] = accepted[i] /\ misread'[i] = (misread[i] \cup {c})
      BY <1>3 DEF Accepts
    <2>2. /\ Verdict(intent[i])' = Verdict(intent[i]) /\ accepted[i] = {}
          /\ Verdict(intent[i]) = "open" \/ misread[i] # {}
      BY <1>3 DEF Accepts, Verdict
    <2>3. Verdicts' = Verdicts
      BY <1>1, <1>3, <2>2 DEF Verdicts
    <2>4. Effect!MayDeliver(i)
      BY <1>3, <2>2 DEF Effect!MayDeliver, Delivered, Forgotten, Verdicts
    <2>5. CASE accepted'[i] = {c} /\ misread'[i] = misread[i]
      <3>1. Delivered' = [Delivered EXCEPT ![i] = {c}] /\ Forgotten' = Forgotten
        BY <1>1, <1>3, <2>5 DEF Delivered, Forgotten
      <3>2. Effect!Deliver(i)
        BY <2>3, <2>4, <3>1 DEF Effect!Deliver, Delivered, Forgotten, Verdicts
      <3>3. QED
        BY <1>3, <3>2 DEF Effect!EffectNext
    <2>6. CASE accepted'[i] = accepted[i] /\ misread'[i] = (misread[i] \cup {c})
      <3>1. Delivered' = Delivered /\ Forgotten' = [Forgotten EXCEPT ![i] = Forgotten[i] \cup {c}]
        BY <1>1, <1>3, <2>6 DEF Delivered, Forgotten
      <3>2. Effect!Misread(i)
        BY <2>3, <2>4, <3>1 DEF Effect!Misread, Delivered, Forgotten, Verdicts
      <3>3. QED
        BY <1>3, <3>2 DEF Effect!EffectNext
    <2>7. QED
      BY <2>1, <2>5, <2>6
  <1>4. CASE i \in Ledgered /\ Moves(i) /\ Verdict(intent[i])' # Verdict(intent[i])
    <2>1. Verdict(intent[i]) = "open" /\ accepted'[i] = accepted[i] /\ misread'[i] = misread[i]
      BY <1>4 DEF Moves, Final, Verdict
    <2>2. /\ Verdict(intent[i])' \in {"confirmed", "failed", "withheld"}
          /\ Verdict(intent[i])' = "confirmed" => accepted[i] \cup misread[i] # {}
          /\ Verdict(intent[i])' = "withheld" => accepted[i] = {}
      BY <1>4, <2>1 DEF Moves, Verdict, OnRecord
    <2>3. Delivered' = Delivered /\ Forgotten' = Forgotten /\ Verdicts' = [Verdicts EXCEPT ![i] = Verdict(intent[i])']
      BY <1>1, <1>4, <2>1 DEF Delivered, Forgotten, Verdicts
    <2>4. Effect!Close(i)
      BY <1>4, <2>1, <2>2, <2>3 DEF Effect!Close, Delivered, Forgotten, Verdicts
    <2>5. QED
      BY <1>4, <2>4 DEF Effect!EffectNext
  <1>5. CASE i \in Ledgered /\ (Still(i) \/ Opens(i))
    <2>1. accepted'[i] = accepted[i] /\ misread'[i] = misread[i] /\ Verdict(intent[i])' = Verdict(intent[i])
      BY <1>5 DEF Still, Opens, MayStart, Verdict
    <2>2. QED
      BY <1>2, <2>1
  <1>6. CASE i \in Ledgered /\ Moves(i)
    BY <1>2, <1>4, <1>6 DEF Moves
  <1>7. QED
    BY <1>0, <1>2, <1>3, <1>5, <1>6 DEF Kinds

\* The delivery ledger implements DeliveryEffect: one delivery per key that is not
\* misread, none after the key was closed unless one was misread, and a verdict that is
\* final and true.
THEOREM LedgerImplementsEffect == Spec => EffectSpec
  <1>1. Init => Effect!EffectInit
    BY DEF Init, Effect!EffectInit, Verdict
  <1>2. TypeOK /\ LedgerInv /\ [Next]_vars => [Effect!EffectNext]_(Effect!avars)
    <2> SUFFICES ASSUME TypeOK, LedgerInv, [Next]_vars
                 PROVE  Effect!EffectNext \/ AbstractStill
      BY DEF Effect!avars, AbstractStill, Delivered, Forgotten, Verdicts
    <2>1. ASSUME NEW i \in Entries, EntryStep(i)
          PROVE  Effect!EffectNext \/ AbstractStill
      BY <2>1, KindsRefine
    <2>2. CASE UNCHANGED vars
      BY <2>2 DEF vars, AbstractStill, Delivered, Forgotten, Verdicts
    <2>3. QED
      BY <2>1, <2>2 DEF Next, EntryStep
  <1>3. QED
    BY <1>1, <1>2, TypeCorrect, LedgerConsistent, PTL DEF Spec, EffectSpec, Effect!EffectSpec
=============================================================================
