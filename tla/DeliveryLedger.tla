--------------------------- MODULE DeliveryLedger ---------------------------
(***************************************************************************)
(* The durable delivery ledger and the e-mail queue worker that drives it. *)
(*                                                                         *)
(* One entry of Entries is one logical e-mail.  An entry of Ledgered is a  *)
(* broadcast e-mail: it has a delivery_intents row (keyed by effect key),  *)
(* delivery_attempts rows and one email_queue row.  The other entries are  *)
(* automation e-mails, which have only the email_queue row.                *)
(*                                                                         *)
(* A claim is one execution of processEntry on one entry: ClaimPending     *)
(* writes a fresh token on the row and one goroutine works with it, so the *)
(* claim number names the token and the goroutine at once.  Several claims *)
(* of the same entry are alive together when a lease runs out under a slow *)
(* worker.  Every action is one database transaction or one provider call. *)
(***************************************************************************)
EXTENDS Naturals, Sequences, FiniteSets

CONSTANTS
    Entries,       \* logical e-mails
    Ledgered,      \* those with a delivery intent
    MaxAttempts,   \* email_queue.max_attempts
    MaxClaims      \* bound: claims of one entry that are explored

ASSUME LedgeredAssumption == Ledgered \subseteq Entries
ASSUME BoundsAssumption == MaxAttempts \in Nat \ {0} /\ MaxClaims \in Nat \ {0}

VARIABLES
    intent,    \* delivery_intents.status, per entry
    row,       \* the email_queue row, per entry
    attempts,  \* delivery_attempts rows, per entry, in attempt_no order
    claim,     \* the goroutine of every claim, per entry
    accepted,  \* the claims whose submission the provider accepted (provider's state)
    misread,   \* those it accepted too, but whose lost answer the worker took for a failure
    recon      \* attempt numbers with a pending delivery_reconciliations row

vars == <<intent, row, attempts, claim, accepted, misread, recon>>

Claims == 1..MaxClaims

IntentStatus == {"absent", "queued", "submitting", "provider_accepted",
                 "confirmed", "suppressed", "deferred", "transient_failed",
                 "terminal_failed", "unknown"}
RowStatus == {"absent", "pending", "processing", "failed", "confirmed", "paused"}
Phase == {"none", "claimed", "guard", "complete", "defer", "started", "accepted",
          "persisted", "uncertain", "failed", "rejected", "done"}

Row == [st : RowStatus, tok : 0..MaxClaims, lease : {"none", "live", "expired"},
        retry : {"none", "later", "due"}, tries : Nat]
Attempt == [st : IntentStatus, tok : Claims]
Claim == [phase : Phase, tries : Nat, no : Nat]

NoRow == [st |-> "absent", tok |-> 0, lease |-> "none", retry |-> "none", tries |-> 0]
NewRow == [NoRow EXCEPT !.st = "pending"]
NoClaim == [phase |-> "none", tries |-> 0, no |-> 0]

Init ==
    /\ intent = [i \in Entries |-> "absent"]
    /\ row = [i \in Entries |-> NoRow]
    /\ attempts = [i \in Entries |-> <<>>]
    /\ claim = [i \in Entries |-> [c \in Claims |-> NoClaim]]
    /\ accepted = [i \in Entries |-> {}]
    /\ misread = [i \in Entries |-> {}]
    /\ recon = [i \in Entries |-> {}]

-----------------------------------------------------------------------------
(* Status machine and row predicates.                                      *)

\* deliveryStatusTransitions: the statuses an intent or attempt may move to.
Successors(s) ==
    CASE s = "queued" -> {"submitting", "suppressed", "deferred", "transient_failed", "cancelled"}
      [] s = "submitting" -> {"provider_accepted", "transient_failed", "terminal_failed", "unknown"}
      [] s = "provider_accepted" -> {"confirmed", "terminal_failed", "unknown"}
      [] s = "deferred" -> {"queued", "cancelled"}
      [] s = "transient_failed" -> {"queued", "terminal_failed", "cancelled"}
      [] s = "unknown" -> {"provider_accepted", "confirmed", "terminal_failed", "cancelled"}
      [] OTHER -> {}

CanTransitionTo(s, t) == t \in Successors(s)

\* The attempt statuses that block a claim and a new attempt.
Unresolved == {"submitting", "provider_accepted", "unknown"}

Final == {"confirmed", "suppressed", "terminal_failed"}

LastNo(i) == Len(attempts[i])

HasUnresolved(i) == \E n \in 1..LastNo(i) : attempts[i][n].st \in Unresolved

\* Mutant: rows of a crashed worker are not reclaimed.
RowDueNoLease(r) ==
    \/ r.st = "pending" /\ r.retry # "later"
    \/ r.st = "failed" /\ r.tries < MaxAttempts /\ r.retry = "due"

\* The row is due: fresh, retry time reached with attempts left, or lease expired.
RowDue(r) ==
    \/ r.st = "pending" /\ r.retry # "later"
    \/ r.st = "failed" /\ r.tries < MaxAttempts /\ r.retry = "due"
    \/ r.st = "processing" /\ r.lease = "expired"

Claimable(i) ==
    /\ RowDue(row[i])
    /\ i \in Ledgered => intent[i] \in {"queued", "transient_failed"}
    /\ ~HasUnresolved(i)

\* Mutant: a claim writes the row without comparing its token.
OwnsAlways(i, c) == TRUE

Owns(i, c) == row[i].tok = c

\* A row released by its owner: token and lease cleared.
Released(r, st, retry) ==
    [r EXCEPT !.st = st, !.tok = 0, !.lease = "none", !.retry = retry]

\* A row leased to claim c.
Leased(r, c) ==
    [r EXCEPT !.st = "processing", !.tok = c, !.lease = "live", !.tries = r.tries + 1]

\* Completed rows keep next_retry_at.
Completed(r) == Released(r, "confirmed", r.retry)

SetPhase(i, c, p) == claim' = [claim EXCEPT ![i][c].phase = p]

-----------------------------------------------------------------------------
(* Producers: the broadcast sender reserves an intent, the automation node *)
(* executor only enqueues.                                                 *)

\* ReserveIntent with a policy verdict (frequency cap, audience, missing identity).
ReserveIntent(i, st) ==
    /\ i \in Ledgered
    /\ intent[i] = "absent"
    /\ intent' = [intent EXCEPT ![i] = st]
    /\ UNCHANGED <<row, attempts, claim, accepted, misread, recon>>

\* ReserveAndEnqueue: a new or retryable intent is queued and gets its only row.
ReserveAndEnqueue(i) ==
    /\ i \in Ledgered
    /\ intent[i] \in {"absent", "transient_failed"}
    /\ intent' = [intent EXCEPT ![i] = "queued"]
    /\ row' = IF row[i].st = "absent" THEN [row EXCEPT ![i] = NewRow] ELSE row
    /\ UNCHANGED <<attempts, claim, accepted, misread, recon>>

\* EnqueueTx of an automation e-mail; the executor enqueues one message id once.
Enqueue(i) ==
    /\ i \notin Ledgered
    /\ row[i].st = "absent"
    /\ \A c \in Claims : claim[i][c].phase = "none"
    /\ row' = [row EXCEPT ![i] = NewRow]
    /\ UNCHANGED <<intent, attempts, claim, accepted, misread, recon>>

-----------------------------------------------------------------------------
(* The worker.                                                             *)

\* ClaimPending: choose, mark and lease in one statement.
ClaimPending(i, c) ==
    /\ Claimable(i)
    /\ claim[i][c].phase = "none"
    /\ \A d \in 1..(c - 1) : claim[i][d].phase # "none"
    /\ row' = [row EXCEPT ![i] = Leased(row[i], c)]
    /\ claim' = [claim EXCEPT ![i][c] = [phase |-> "claimed", tries |-> row[i].tries + 1, no |-> 0]]
    /\ UNCHANGED <<intent, attempts, accepted, misread, recon>>

\* CompleteClaim and FailClaim: one statement guarded by the token; when the
\* claim was lost nothing is written and the worker only logs it.
CompleteClaim(i, c) ==
    row' = IF Owns(i, c) THEN [row EXCEPT ![i] = Completed(@)] ELSE row

FailClaim(i, c, retry) ==
    row' = IF Owns(i, c) THEN [row EXCEPT ![i] = Released(@, "failed", retry)] ELSE row

\* handleError: permanent when attempts are used up or the error is not retryable.
HandleError(i, c, retryable) ==
    /\ FailClaim(i, c, IF claim[i][c].tries >= MaxAttempts \/ ~retryable THEN "none" ELSE "later")
    /\ SetPhase(i, c, "done")
    /\ UNCHANGED <<intent, attempts, accepted, misread, recon>>

\* processEntry: the integration is gone.
IntegrationMissing(i, c) ==
    /\ claim[i][c].phase = "claimed"
    /\ HandleError(i, c, TRUE)

\* processEntry: the circuit breaker is open, the claim is handed back.
BreakerOpen(i, c) ==
    /\ claim[i][c].phase = "claimed"
    /\ FailClaim(i, c, "later")
    /\ SetPhase(i, c, "done")
    /\ UNCHANGED <<intent, attempts, accepted, misread, recon>>

\* processEntry: breaker closed, rate limiter waited.
PassLimits(i, c) ==
    /\ claim[i][c].phase = "claimed"
    /\ SetPhase(i, c, "guard")
    /\ UNCHANGED <<intent, row, attempts, accepted, misread, recon>>

\* Stop-on-reply guard of an automation e-mail: the journey is no longer active.
JourneyEnded(i, c) ==
    /\ i \notin Ledgered
    /\ claim[i][c].phase = "guard"
    /\ CompleteClaim(i, c)
    /\ SetPhase(i, c, "done")
    /\ UNCHANGED <<intent, attempts, accepted, misread, recon>>

\* Audience guard could not be evaluated: deferAudienceEligibilityCheck.
AudienceUnavailable(i, c) ==
    /\ i \in Ledgered
    /\ claim[i][c].phase = "guard"
    /\ FailClaim(i, c, "later")
    /\ SetPhase(i, c, "done")
    /\ UNCHANGED <<intent, attempts, accepted, misread, recon>>

\* Mutant: the result of the suppression is ignored.
AudienceLeftUnchecked(i, c) ==
    /\ i \in Ledgered
    /\ claim[i][c].phase = "guard"
    /\ intent' = IF intent[i] = "queued" THEN [intent EXCEPT ![i] = "suppressed"] ELSE intent
    /\ SetPhase(i, c, "complete")
    /\ UNCHANGED <<row, attempts, accepted, misread, recon>>

\* Audience guard: the customer no longer matches.  SuppressIntent expects the
\* intent to be queued; a rejected transition defers the row.
AudienceLeft(i, c) ==
    /\ i \in Ledgered
    /\ claim[i][c].phase = "guard"
    /\ IF intent[i] = "queued"
         THEN /\ intent' = [intent EXCEPT ![i] = "suppressed"]
              /\ SetPhase(i, c, "complete")
         ELSE /\ SetPhase(i, c, "defer")
              /\ UNCHANGED intent
    /\ UNCHANGED <<row, attempts, accepted, misread, recon>>

\* The queue write that follows the suppression decision.
FinishSuppression(i, c) ==
    /\ \/ claim[i][c].phase = "complete" /\ CompleteClaim(i, c)
       \/ claim[i][c].phase = "defer" /\ FailClaim(i, c, "later")
    /\ SetPhase(i, c, "done")
    /\ UNCHANGED <<intent, attempts, accepted, misread, recon>>

\* Mutant: the worker trusts the check its claim made.
MayStartUnchecked(i) == TRUE

\* StartAttempt's checks under the intent's row lock.
MayStart(i) ==
    /\ intent[i] \in {"queued", "transient_failed"}
    /\ ~HasUnresolved(i)

\* StartAttempt: persist the submitting attempt before the provider is called.
StartAttempt(i, c) ==
    /\ i \in Ledgered
    /\ claim[i][c].phase = "guard"
    /\ IF MayStart(i)
         THEN /\ attempts' = [attempts EXCEPT ![i] =
                                Append(@, [st |-> "submitting", tok |-> c])]
              /\ intent' = [intent EXCEPT ![i] = "submitting"]
              /\ claim' = [claim EXCEPT ![i][c] = [phase |-> "started",
                                                   tries |-> claim[i][c].tries,
                                                   no |-> LastNo(i) + 1]]
         ELSE /\ SetPhase(i, c, "done")
              /\ UNCHANGED <<attempts, intent>>
    /\ UNCHANGED <<row, accepted, misread, recon>>

\* Where the worker calls the provider: after StartAttempt when it has a ledger.
ReadyToSubmit(i, c) ==
    claim[i][c].phase = IF i \in Ledgered THEN "started" ELSE "guard"

\* What the provider did with the request (took) and what the worker makes of the
\* answer (told): "accepted", "uncertain" where isUncertainProviderError knows the
\* error for a lost answer (timeouts, a list of texts), else an error it takes for a
\* failure, retryable ("failed") or not ("rejected").  The list is not complete: when
\* the connection closes after the message was taken, readResponse returns a plain
\* EOF or "short response", which is not on it.
ProviderAnswers == {[took |-> TRUE, told |-> "accepted"],
                    [took |-> TRUE, told |-> "uncertain"],
                    [took |-> TRUE, told |-> "failed"],
                    [took |-> FALSE, told |-> "uncertain"],
                    [took |-> FALSE, told |-> "failed"],
                    [took |-> FALSE, told |-> "rejected"]}

SubmitEmail(i, c) ==
    /\ ReadyToSubmit(i, c)
    /\ \E a \in ProviderAnswers :
         /\ SetPhase(i, c, a.told)
         /\ accepted' = IF a.took /\ a.told # "failed"
                          THEN [accepted EXCEPT ![i] = @ \cup {c}] ELSE accepted
         /\ misread' = IF a.took /\ a.told = "failed"
                         THEN [misread EXCEPT ![i] = @ \cup {c}] ELSE misread
    /\ UNCHANGED <<intent, row, attempts, recon>>

\* RecordAttemptOutcome's checks: the attempt and the intent may both move to
\* st and, unless st is provider_accepted, the claim still owns the row.
OutcomeAllowed(i, c, st) ==
    LET n == claim[i][c].no IN
    /\ n \in 1..LastNo(i)
    /\ attempts[i][n].tok = c
    /\ CanTransitionTo(attempts[i][n].st, st)
    /\ CanTransitionTo(intent[i], st)
    /\ st # "provider_accepted" => Owns(i, c)

\* Mutant: the ledger status is copied into the queue row.
RowAfterOutcomeCopied(r, st) == Released(r, st, "none")

RowAfterOutcome(r, st) ==
    CASE st = "confirmed" -> Completed(r)
      [] st = "transient_failed" -> Released(r, "failed", "later")
      [] st \in {"terminal_failed", "unknown"} -> Released(r, "failed", "none")
      [] OTHER -> r

\* RecordAttemptOutcome: attempt, intent, row and reconciliation in one transaction.
RecordAttemptOutcome(i, c, st) ==
    /\ OutcomeAllowed(i, c, st)
    /\ attempts' = [attempts EXCEPT ![i][claim[i][c].no].st = st]
    /\ intent' = [intent EXCEPT ![i] = st]
    /\ row' = [row EXCEPT ![i] = RowAfterOutcome(@, st)]
    /\ recon' = IF st = "unknown" THEN [recon EXCEPT ![i] = @ \cup {claim[i][c].no}] ELSE recon
    /\ UNCHANGED <<accepted, misread>>

\* A transaction that was rolled back, or whose error the worker only logs.
GiveUp(i, c) ==
    /\ SetPhase(i, c, "done")
    /\ UNCHANGED <<intent, row, attempts, accepted, misread, recon>>

\* Mutant: a timeout is an ordinary retryable failure.
FailureStatusTimeoutRetried(i, c) ==
    IF claim[i][c].phase = "rejected" \/ claim[i][c].tries >= MaxAttempts
      THEN "terminal_failed" ELSE "transient_failed"

\* recordDeliveryFailure's choice of the status to record.
FailureStatus(i, c) ==
    CASE claim[i][c].phase = "uncertain" -> "unknown"
      [] claim[i][c].phase = "rejected" \/ claim[i][c].tries >= MaxAttempts -> "terminal_failed"
      [] OTHER -> "transient_failed"

\* recordDeliveryFailure of a ledger e-mail after the provider call.
RecordDeliveryFailure(i, c) ==
    /\ i \in Ledgered
    /\ claim[i][c].phase \in {"uncertain", "failed", "rejected"}
    /\ IF OutcomeAllowed(i, c, FailureStatus(i, c))
         THEN RecordAttemptOutcome(i, c, FailureStatus(i, c)) /\ SetPhase(i, c, "done")
         ELSE GiveUp(i, c)

\* The provider accepted: persist provider_accepted first.
PersistAccepted(i, c) ==
    /\ i \in Ledgered
    /\ claim[i][c].phase = "accepted"
    /\ IF OutcomeAllowed(i, c, "provider_accepted")
         THEN RecordAttemptOutcome(i, c, "provider_accepted") /\ SetPhase(i, c, "persisted")
         ELSE GiveUp(i, c)

\* ... then message history (its failure is the Abandon of this phase) and confirm.
Confirm(i, c) ==
    /\ claim[i][c].phase = "persisted"
    /\ IF OutcomeAllowed(i, c, "confirmed")
         THEN RecordAttemptOutcome(i, c, "confirmed") /\ SetPhase(i, c, "done")
         ELSE GiveUp(i, c)

\* An automation e-mail after the provider call: complete the claim or handleError.
FinishUnledgered(i, c) ==
    /\ i \notin Ledgered
    /\ \/ /\ claim[i][c].phase = "accepted"
          /\ CompleteClaim(i, c)
          /\ SetPhase(i, c, "done")
          /\ UNCHANGED <<intent, attempts, accepted, misread, recon>>
       \/ /\ claim[i][c].phase \in {"uncertain", "failed"}
          /\ HandleError(i, c, TRUE)
       \/ /\ claim[i][c].phase = "rejected"
          /\ HandleError(i, c, FALSE)

\* The goroutine dies or gives up between two steps: process crash, context
\* cancelled, rate-limit wait cancelled, a database error on its next statement.
Abandon(i, c) ==
    /\ claim[i][c].phase \notin {"none", "done"}
    /\ GiveUp(i, c)

-----------------------------------------------------------------------------
(* Time.                                                                   *)

\* lease_expires_at passes, whether or not the worker is still alive.
LeaseExpires(i) ==
    /\ row[i].lease = "live"
    /\ row' = [row EXCEPT ![i].lease = "expired"]
    /\ UNCHANGED <<intent, attempts, claim, accepted, misread, recon>>

\* next_retry_at passes.
RetryDue(i) ==
    /\ row[i].retry = "later"
    /\ row' = [row EXCEPT ![i].retry = "due"]
    /\ UNCHANGED <<intent, attempts, claim, accepted, misread, recon>>

-----------------------------------------------------------------------------
(* Provider receipts, at any time after acceptance, in any order, repeated. *)

\* The ledger status a receipt event leads to, and from where.
ReceiptTarget == {"provider_accepted", "confirmed", "terminal_failed"}

\* Mutant: a late receipt overrides a settled status.
ReceiptAllowedLate(st) == Unresolved \cup (Final \ {st})

ReceiptAllowed(st) ==
    IF st = "provider_accepted" THEN {"submitting", "unknown"} ELSE Unresolved

\* Some submission of the e-mail reached the provider, which has it on record.
OnRecord(i) == accepted[i] \cup misread[i] # {}

\* recordDeliveryReceiptTx and applyReceiptToDeliveryLedger for a receipt about
\* a message the provider accepted.  Broadcast attempts store no provider message
\* id, so the receipt is matched by effect key, to the latest attempt; intent and
\* attempt move independently of each other.
RecordReceipt(i, st) ==
    /\ i \in Ledgered
    /\ OnRecord(i)
    /\ LastNo(i) > 0
    /\ intent' = IF intent[i] \in ReceiptAllowed(st) THEN [intent EXCEPT ![i] = st] ELSE intent
    /\ attempts' = IF attempts[i][LastNo(i)].st \in ReceiptAllowed(st)
                     THEN [attempts EXCEPT ![i][LastNo(i)].st = st] ELSE attempts
    /\ row' = IF st = "confirmed" /\ intent[i] \in ReceiptAllowed(st) /\ row[i].st # "absent"
                THEN [row EXCEPT ![i] = Completed(@)] ELSE row
    /\ UNCHANGED <<claim, accepted, misread, recon>>

-----------------------------------------------------------------------------
(* Operators and other services.                                           *)

\* RequestDeliveryReconciliation.
RequestReconciliation(i) ==
    /\ intent[i] \in Unresolved
    /\ recon[i] = {}
    /\ recon' = [recon EXCEPT ![i] = {LastNo(i)}]
    /\ UNCHANGED <<intent, row, attempts, claim, accepted, misread>>

Resolution == {"mark_confirmed", "mark_terminal_failed", "retry_after_verified_not_accepted"}

\* The runbook's evidence rule: the operator acts on what the provider shows.
Evidence(i, action) ==
    CASE action = "mark_confirmed" -> OnRecord(i)
      [] action = "retry_after_verified_not_accepted" -> ~OnRecord(i)
      [] OTHER -> TRUE

ResolvedIntent(action) ==
    CASE action = "mark_confirmed" -> "confirmed"
      [] action = "mark_terminal_failed" -> "terminal_failed"
      [] OTHER -> "queued"

ResolvedAttempt(action) ==
    IF action = "mark_confirmed" THEN "confirmed" ELSE "terminal_failed"

ResolvedRow(r, action) ==
    CASE action = "mark_confirmed" -> Completed(r)
      [] action = "mark_terminal_failed" -> Released(r, "failed", "none")
      [] OTHER -> Released(r, "failed", "due")

\* ResolveUnknownDelivery.  The latest unknown attempt is resolved with the intent;
\* pending reconciliations are left as they are.
ResolveUnknown(i, action) ==
    /\ intent[i] = "unknown"
    /\ Evidence(i, action)
    /\ \E n \in 1..LastNo(i) :
         /\ attempts[i][n].st = "unknown"
         /\ \A m \in (n + 1)..LastNo(i) : attempts[i][m].st # "unknown"
         /\ attempts' = [attempts EXCEPT ![i][n].st = ResolvedAttempt(action)]
    /\ intent' = [intent EXCEPT ![i] = ResolvedIntent(action)]
    /\ row' = IF row[i].st = "absent" THEN row
              ELSE [row EXCEPT ![i] = ResolvedRow(@, action)]
    /\ UNCHANGED <<claim, accepted, misread, recon>>

\* PauseBySource / ResumeBySource / DeleteBySource on the entry's row.
PauseRow(i) ==
    /\ row[i].st \in {"pending", "failed"}
    /\ row' = [row EXCEPT ![i].st = "paused"]
    /\ UNCHANGED <<intent, attempts, claim, accepted, misread, recon>>

ResumeRow(i) ==
    /\ row[i].st = "paused"
    /\ row' = [row EXCEPT ![i].st = "pending", ![i].retry = "none"]
    /\ UNCHANGED <<intent, attempts, claim, accepted, misread, recon>>

DeleteRow(i) ==
    /\ row[i].st \in {"pending", "failed", "paused"}
    /\ row' = [row EXCEPT ![i] = NoRow]
    /\ UNCHANGED <<intent, attempts, claim, accepted, misread, recon>>

\* DeleteForEmail: any status, a claimed row too.
DeleteForEmail(i) ==
    /\ row[i].st # "absent"
    /\ row' = [row EXCEPT ![i] = NoRow]
    /\ UNCHANGED <<intent, attempts, claim, accepted, misread, recon>>

-----------------------------------------------------------------------------

Produce(i) ==
    \/ \E st \in {"suppressed", "deferred"} : ReserveIntent(i, st)
    \/ ReserveAndEnqueue(i)
    \/ Enqueue(i)

\* The steps of a worker that stays alive.
Work(i, c) ==
    \/ IntegrationMissing(i, c) \/ BreakerOpen(i, c) \/ PassLimits(i, c)
    \/ JourneyEnded(i, c) \/ AudienceUnavailable(i, c) \/ AudienceLeft(i, c)
    \/ FinishSuppression(i, c) \/ StartAttempt(i, c) \/ SubmitEmail(i, c)
    \/ RecordDeliveryFailure(i, c) \/ PersistAccepted(i, c) \/ Confirm(i, c)
    \/ FinishUnledgered(i, c)

Receipts(i) == \E st \in ReceiptTarget : RecordReceipt(i, st)

Manage(i) ==
    \/ RequestReconciliation(i)
    \/ \E action \in Resolution : ResolveUnknown(i, action)
    \/ PauseRow(i) \/ ResumeRow(i) \/ DeleteRow(i) \/ DeleteForEmail(i)

Next ==
    \E i \in Entries :
      \/ Produce(i) \/ Receipts(i) \/ Manage(i)
      \/ LeaseExpires(i) \/ RetryDue(i)
      \/ \E c \in Claims : ClaimPending(i, c) \/ Work(i, c) \/ Abandon(i, c)

Spec == Init /\ [][Next]_vars

\* Workers poll and run until they die; clocks advance.  Producers, receipts and
\* operators owe nothing.
Fairness ==
    \A i \in Entries :
      /\ WF_vars(LeaseExpires(i)) /\ WF_vars(RetryDue(i))
      /\ \A c \in Claims : WF_vars(ClaimPending(i, c)) /\ WF_vars(Work(i, c) \/ Abandon(i, c))

FairSpec == Spec /\ Fairness

-----------------------------------------------------------------------------
(* Properties.                                                             *)

\* Every table and every goroutine holds values of its type.
TypeOK ==
    /\ intent \in [Entries -> IntentStatus]
    /\ row \in [Entries -> Row]
    /\ attempts \in [Entries -> Seq(Attempt)]
    /\ claim \in [Entries -> [Claims -> Claim]]
    /\ accepted \in [Entries -> SUBSET Claims]
    /\ misread \in [Entries -> SUBSET Claims]
    /\ recon \in [Entries -> SUBSET Nat]

LatestOnlyUnresolved(i) ==
    \A n \in 1..(LastNo(i) - 1) : attempts[i][n].st \notin Unresolved

IntentMirrorsLatest(i) ==
    IF intent[i] \in Unresolved
      THEN LastNo(i) > 0 /\ attempts[i][LastNo(i)].st = intent[i]
      ELSE LastNo(i) > 0 => attempts[i][LastNo(i)].st \notin Unresolved

\* Intent and attempts tell the same story whatever mix of workers, receipts and
\* operators wrote them: only the latest attempt may be unresolved, it is so
\* exactly when the intent is, and then both have the same status.
LedgerAgrees == \A i \in Ledgered : LatestOnlyUnresolved(i) /\ IntentMirrorsLatest(i)

\* Apart from lost answers that the worker takes for failures (isUncertainProviderError),
\* the provider accepts one logical e-mail at most once, however many leases expire,
\* workers crash, answers time out, receipts arrive and operators order a retry.
AtMostOnce == \A i \in Ledgered : \A c, d \in accepted[i] : c = d

\* A queue row is completed only for an e-mail whose intent is settled as
\* confirmed or suppressed (RecordAttemptOutcome, receipts, CompleteClaim).
CompletedRowIsSettled ==
    \A i \in Ledgered : row[i].st = "confirmed" => intent[i] \in {"confirmed", "suppressed"}

InFlight == {"started", "accepted", "persisted", "uncertain", "failed", "rejected"}

\* What a goroutine may rely on between two of its transactions.
ClaimInv(i, c) ==
    LET p == claim[i][c].phase IN
    /\ p \in InFlight => /\ LastNo(i) > 0
                         /\ claim[i][c].no = LastNo(i)
                         /\ attempts[i][LastNo(i)].tok = c
                         /\ intent[i] \in {"submitting", "provider_accepted", "confirmed", "terminal_failed"}
                         /\ intent[i] = "submitting" \/ OnRecord(i)
    /\ p \in {"started", "failed", "rejected"} => accepted[i] = {}
    /\ p \in {"accepted", "persisted"} => c \in accepted[i]
    /\ p = "complete" => intent[i] = "suppressed"

\* What was accepted, not being misread, is the latest attempt, and the intent admits it.
AcceptanceIsLatest(i) ==
    \A c \in accepted[i] : /\ LastNo(i) > 0
                           /\ attempts[i][LastNo(i)].tok = c
                           /\ intent[i] \in Unresolved \cup {"confirmed", "terminal_failed"}

\* The inductive invariant: every goroutine that called, or is about to call, the
\* provider works on the latest attempt, and an acceptance belongs to it.
LedgerInv ==
    /\ LedgerAgrees
    /\ CompletedRowIsSettled
    /\ \A i \in Ledgered : AcceptanceIsLatest(i) /\ \A c \in Claims : ClaimInv(i, c)

\* StartAttempt never opens another attempt once the provider accepted the e-mail
\* (unless its answer was taken for a failure) or while the outcome of an earlier
\* attempt is open, whatever workers, receipts and operators did in between.
NoBlindResend ==
    [][\A i \in Ledgered : Len(attempts'[i]) > Len(attempts[i]) =>
         /\ accepted[i] = {}
         /\ \A n \in 1..LastNo(i) : attempts[i][n].st \in {"transient_failed", "terminal_failed"}]_vars

\* A completed row is never reopened by a worker that lost its claim: it can only
\* be deleted.
CompletedRowStays ==
    [][\A i \in Entries : row[i].st = "confirmed" => row'[i].st \in {"confirmed", "absent"}]_vars

Verdict(s) ==
    CASE s = "confirmed" -> "confirmed"
      [] s = "terminal_failed" -> "failed"
      [] s = "suppressed" -> "withheld"
      [] OTHER -> "open"

Effect == INSTANCE DeliveryEffect WITH
    Keys <- Ledgered, Ids <- Claims,
    delivered <- [i \in Ledgered |-> accepted[i]],
    misread <- [i \in Ledgered |-> misread[i]],
    verdict <- [i \in Ledgered |-> Verdict(intent[i])]

\* The ledger implements DeliveryEffect: one acceptance per key and none after it was
\* closed, save for misread answers and what they bring about; verdicts final and true.
EffectSpec == Effect!EffectSpec

\* A row whose worker died does not stay in processing while its e-mail may still
\* be sent: its lease runs out and another worker takes it.
CrashRecovery ==
    \A i \in Entries :
      row[i].st = "processing" ~>
        \/ row[i].st # "processing"
        \/ i \in Ledgered /\ intent[i] \notin {"queued", "transient_failed"}
        \/ \A c \in Claims : claim[i][c].phase # "none"
=============================================================================
