-------------------------- MODULE WebhookDelivery --------------------------
(***************************************************************************)
(* The outgoing webhooks of one subscription: delivery rows that workers   *)
(* claim in batches, POST one by one and settle, the failure count that    *)
(* retires a dead endpoint, and the edits people make meanwhile.           *)
(*                                                                         *)
(* claimed_at is both lease and claim token; it is modelled by the worker  *)
(* that wrote it (a worker polls again only when its batch is done) and by *)
(* whether the lease has run out.  A worker's request ends before the      *)
(* lease of its row does (requestBudgetFor): the budget is spent first.    *)
(***************************************************************************)
EXTENDS Integers, FiniteSets

CONSTANTS
    Workers,      \* delivery workers
    Deliveries,   \* ids of delivery rows
    None,         \* nobody, nothing
    MaxAttempts,  \* webhook_deliveries.max_attempts
    Threshold,    \* webhookFailureThreshold
    Window,       \* webhookFailureWindow
    RunMaxAge,    \* webhookFailureRunMaxAge
    MaxTime,      \* bound: how far the clock goes
    MaxFaults,    \* bound: failed statements, lost answers, panics, crashes
    MaxStalls,    \* bound: workers that are slower than a lease or budget
    MaxEdits,     \* bound: what people do to the subscription
    Prompt        \* assume that outcomes are written before the lease runs out

ASSUME WebhookAssumption ==
    /\ None \notin Workers \cup Deliveries
    /\ MaxAttempts \in Nat \ {0} /\ Threshold \in Nat \ {0}
    /\ Window \in Nat /\ RunMaxAge \in Nat /\ Window < RunMaxAge
    /\ MaxTime \in Nat /\ MaxFaults \in Nat /\ MaxStalls \in Nat /\ MaxEdits \in Nat
    /\ Prompt \in BOOLEAN

VARIABLES
    row,       \* webhook_deliveries
    sub,       \* the row of webhook_subscriptions
    worker,    \* what each worker is doing
    edit,      \* an edit between its read and its write
    now,       \* the time
    accepted,  \* how often the endpoint accepted each delivery (not stored)
    faults, stalls, edits

vars == <<row, sub, worker, edit, now, accepted, faults, stalls, edits>>

Since == 0..MaxTime \cup {None}
Row == [st : {"absent", "pending", "failed", "delivering", "delivered", "deleted"},
        tries : 0..MaxAttempts, due : BOOLEAN, owner : Workers \cup {None}, stale : BOOLEAN]
\* Enabled, switched off by a person, retired with a reason, deleted.
Sub == [st : {"on", "off", "retired", "gone"}, fails : 0..Threshold, since : Since,
        zapier : BOOLEAN]
Writing == {"reset", "expire", "count", "disable", "gone", "write"}
Worker == [at : {"idle", "next", "lookup", "send", "posting", "done", "release"} \cup Writing,
           batch : SUBSET Deliveries, d : Deliveries \cup {None}, tries : [Deliveries -> 0..MaxAttempts],
           spent : BOOLEAN, verdict : {"delivered", "retry", "drain"}, cache : Sub \cup {None}]

IdleWorker == [at |-> "idle", batch |-> {}, d |-> None, tries |-> [d \in Deliveries |-> 0],
               spent |-> FALSE, verdict |-> "retry", cache |-> None]

Init ==
    /\ row = [d \in Deliveries |->
         [st |-> "absent", tries |-> 0, due |-> FALSE, owner |-> None, stale |-> FALSE]]
    /\ sub \in [st : {"on"}, fails : {0}, since : {None}, zapier : BOOLEAN]
    /\ worker = [w \in Workers |-> IdleWorker]
    /\ edit = "none"
    /\ now = 0
    /\ accepted = [d \in Deliveries |-> 0]
    /\ faults = 0 /\ stalls = 0 /\ edits = 0

Fault == faults < MaxFaults /\ faults' = faults + 1
Stall == stalls < MaxStalls /\ stalls' = stalls + 1

At(w, at) == worker[w].at = at
Goto(w, at) == worker' = [worker EXCEPT ![w].at = at]
Settle(w, verdict) == worker' = [worker EXCEPT ![w].at = "write", ![w].verdict = verdict]
Cur(w) == worker[w].d

\* The worker turns to the rest of its batch; a poll ends with it.
Turn(w, d) ==
    LET rest == worker[w].batch \ {d} IN
    worker' = [worker EXCEPT ![w] = IF rest = {} THEN IdleWorker
                 ELSE [@ EXCEPT !.at = "next", !.batch = rest, !.d = None, !.spent = FALSE]]

\* UPDATE ... WHERE id = d.
Put(d, r) == row' = IF row[d].st \in {"absent", "deleted"} THEN row ELSE [row EXCEPT ![d] = r]

-----------------------------------------------------------------------------
(* Statements.                                                             *)

\* A webhook trigger queues a delivery for a subscription that is switched on.
QueueDelivery(d) ==
    /\ row[d].st = "absent" /\ sub.st = "on"
    /\ row' = [row EXCEPT ![d].st = "pending", ![d].due = TRUE]
    /\ UNCHANGED <<sub, worker, edit, now, accepted, faults, stalls, edits>>

\* ReclaimStale.
Swept == [d \in Deliveries |->
    IF row[d].st = "delivering" /\ row[d].stale
      THEN [row[d] EXCEPT !.st = "pending", !.owner = None, !.stale = FALSE] ELSE row[d]]

\* The predicate of GetPendingForWorkspace.
Claimable(r) == r.st \in {"pending", "failed"} /\ r.tries < MaxAttempts /\ r.due

\* Mutant: a release is not tied to the claim.
OwnsAnyway(w, d) == TRUE

\* The claim token of RenewClaim and ReleaseClaim.
Owns(w, d) == row[d].st = "delivering" /\ row[d].owner = w

DeliveredRow(d) == [row[d] EXCEPT !.st = "delivered", !.owner = None, !.stale = FALSE,
                      !.tries = IF @ = MaxAttempts THEN @ ELSE @ + 1]
FailedRow(d, tries) == [row[d] EXCEPT !.st = "failed", !.owner = None, !.stale = FALSE, !.tries = tries]

\* Mutant: the attempts are not kept.
RetryRowEndless(d, tries) == [FailedRow(d, 0) EXCEPT !.due = FALSE]

\* handleDeliveryFailure: the next rung of the ladder, or the end of it.
RetryRow(d, tries) ==
    IF tries + 1 >= MaxAttempts THEN FailedRow(d, MaxAttempts)
    ELSE [FailedRow(d, tries + 1) EXCEPT !.due = FALSE]

\* Mutant: the reason's status is written as a status of its own.
SubAfterReason(s, st) == [s EXCEPT !.st = "disabled"]

SubAfter(s, st) == IF s.st = "gone" THEN s ELSE [s EXCEPT !.st = st]
Counted(s) == [s EXCEPT !.fails = IF @ = Threshold THEN @ ELSE @ + 1,
                        !.since = IF @ = None THEN now ELSE @]
Cleared(s) == [s EXCEPT !.fails = 0, !.since = None]

-----------------------------------------------------------------------------
(* A poll: sweep, claim a batch, and walk it row by row.                   *)

Poll(w, batch) ==
    /\ At(w, "idle")
    /\ batch \subseteq {d \in Deliveries : Claimable(Swept[d])} /\ (batch # {} \/ Swept # row)
    /\ row' = [d \in Deliveries |->
         IF d \in batch THEN [Swept[d] EXCEPT !.st = "delivering", !.owner = w] ELSE Swept[d]]
    /\ worker' = IF batch = {} THEN worker
                 ELSE [worker EXCEPT ![w] = [IdleWorker EXCEPT !.at = "next", !.batch = batch,
                         !.tries = [d \in Deliveries |-> IF d \in batch THEN row[d].tries ELSE 0]]]
    /\ UNCHANGED <<sub, edit, now, accepted, faults, stalls, edits>>

\* Mutant: the claim is not renewed, the row is taken to be still ours.
RenewedUnchecked(w, d) == TRUE

\* RenewClaim finds the claim of this batch in the row.
Renewed(w, d) == Owns(w, d)

\* A row that is not ours any more, or whose renewal fails, is left alone.
RenewClaim(w) ==
    /\ At(w, "next")
    /\ \E d \in worker[w].batch :
         \/ /\ Renewed(w, d)
            /\ row' = [row EXCEPT ![d].stale = FALSE]
            /\ worker' = [worker EXCEPT ![w].d = d, ![w].at = "lookup"]
            /\ UNCHANGED faults
         \/ /\ IF Renewed(w, d) THEN Fault ELSE UNCHANGED faults
            /\ Turn(w, d) /\ UNCHANGED row
    /\ UNCHANGED <<sub, edit, now, accepted, stalls, edits>>

\* The subscription is read once per batch.  A lookup that fails releases the row, unless
\* the subscription is gone; a disabled subscription drains it.
GetByID(w) ==
    /\ At(w, "lookup")
    /\ LET s == IF worker[w].cache = None THEN sub ELSE worker[w].cache IN
       \/ /\ worker' = [worker EXCEPT ![w].cache = IF s.st = "gone" THEN None ELSE s,
                          ![w].at = IF s.st = "on" THEN "send" ELSE "write", ![w].verdict = "drain"]
          /\ UNCHANGED faults
       \/ worker[w].cache = None /\ Fault /\ Goto(w, "release")
    /\ UNCHANGED <<row, sub, edit, now, accepted, stalls, edits>>

\* A payload that cannot be encoded is drained, a bad secret retried without counting it
\* against the endpoint; a request is only begun while there is budget for it.
ProcessDelivery(w) ==
    /\ At(w, "send")
    /\ \/ (Prompt => ~worker[w].spent) /\ \E verdict \in {"drain", "retry"} : Settle(w, verdict)
       \/ Goto(w, IF worker[w].spent THEN "release" ELSE "posting")
    /\ UNCHANGED <<row, sub, edit, now, accepted, faults, stalls, edits>>

\* The answer to the POST: success, gone, throttled, any other status, or none.  An
\* endpoint whose answer is lost may have accepted the delivery.
HandleResponse(w) ==
    /\ At(w, "posting")
    /\ \/ /\ ~worker[w].spent
          /\ accepted' = [accepted EXCEPT ![Cur(w)] = @ + 1]
          /\ Goto(w, "reset") /\ UNCHANGED faults
       \/ ~worker[w].spent /\ Goto(w, "gone") /\ UNCHANGED <<accepted, faults>>
       \/ ~worker[w].spent /\ Settle(w, "retry") /\ UNCHANGED <<accepted, faults>>
       \/ Goto(w, "expire") /\ UNCHANGED <<accepted, faults>>
       \/ /\ Fault /\ accepted' = [accepted EXCEPT ![Cur(w)] = @ + 1]
          /\ Goto(w, "expire")
    /\ UNCHANGED <<row, sub, edit, now, stalls, edits>>

-----------------------------------------------------------------------------
(* What the answer does to the subscription.                               *)

\* resetSubscriptionFailures: skipped when the cached copy has nothing to clear.
ResetFailures(w) ==
    /\ At(w, "reset")
    /\ \/ /\ sub' = IF Cleared(worker[w].cache) = worker[w].cache THEN sub ELSE Cleared(sub)
          /\ worker' = [worker EXCEPT ![w].cache = Cleared(@), ![w].at = "write", ![w].verdict = "delivered"]
          /\ UNCHANGED faults
       \/ /\ Cleared(worker[w].cache) # worker[w].cache
          /\ Fault /\ Settle(w, "delivered") /\ UNCHANGED sub
    /\ UNCHANGED <<row, edit, now, accepted, stalls, edits>>

\* expireStaleFailureRun: a failure too long after the run began opens a new one.
ExpireStaleFailureRun(w) ==
    /\ At(w, "expire")
    /\ LET c == worker[w].cache
           old == c.since # None /\ now - c.since >= RunMaxAge IN
       \/ /\ sub' = IF old THEN Cleared(sub) ELSE sub
          /\ worker' = [worker EXCEPT ![w].cache = IF old THEN Cleared(c) ELSE c, ![w].at = "count"]
          /\ UNCHANGED faults
       \/ old /\ Fault /\ Goto(w, "count") /\ UNCHANGED sub
    /\ UNCHANGED <<row, edit, now, accepted, stalls, edits>>

\* recordSubscriptionFailure counts in the row and in the cached copy, and judges by the copy.
IncrementFailures(w) ==
    /\ At(w, "count")
    /\ LET c == Counted(worker[w].cache)
           dead == c.fails >= Threshold /\ now - c.since >= Window IN
       \/ /\ sub' = IF sub.st = "gone" THEN sub ELSE Counted(sub)
          /\ worker' = [worker EXCEPT ![w].cache = c, ![w].verdict = "retry",
                                      ![w].at = IF dead THEN "disable" ELSE "write"]
          /\ UNCHANGED faults
       \/ Fault /\ Settle(w, "retry") /\ UNCHANGED sub
    /\ UNCHANGED <<row, edit, now, accepted, stalls, edits>>

DisableWithReason(w) ==
    /\ At(w, "disable")
    /\ \/ /\ sub' = SubAfter(sub, "retired")
          /\ worker' = [worker EXCEPT ![w].cache.st = "retired", ![w].at = "write", ![w].verdict = "drain"]
          /\ UNCHANGED faults
       \/ Fault /\ Settle(w, "retry") /\ UNCHANGED sub
    /\ UNCHANGED <<row, edit, now, accepted, stalls, edits>>

Discarded == [d \in Deliveries |-> IF row[d].st = "absent" THEN row[d] ELSE
                [row[d] EXCEPT !.st = "deleted", !.due = FALSE, !.owner = None, !.stale = FALSE]]

\* 410 Gone: a Zapier subscription is deleted with its queue, another one is disabled.
HandleGoneEndpoint(w) ==
    /\ At(w, "gone")
    /\ \/ /\ sub.zapier /\ sub.st # "gone"
          /\ sub' = [sub EXCEPT !.st = "gone"]
          /\ row' = Discarded
          /\ worker' = [worker EXCEPT ![w].cache.st = "retired", ![w].at = "done"]
          /\ UNCHANGED faults
       \/ /\ IF sub.zapier /\ sub.st = "gone" THEN UNCHANGED faults ELSE Fault
          /\ Settle(w, "drain") /\ UNCHANGED <<row, sub>>
       \/ /\ ~sub.zapier
          /\ sub' = SubAfter(sub, "retired")
          /\ worker' = [worker EXCEPT ![w].cache.st = "retired", ![w].at = "write", ![w].verdict = "drain"]
          /\ UNCHANGED <<row, faults>>
    /\ UNCHANGED <<edit, now, accepted, stalls, edits>>

-----------------------------------------------------------------------------
(* What the answer does to the delivery; these writes carry no token.      *)

WriteOutcome(w) ==
    LET d == Cur(w) IN
    /\ At(w, "write")
    /\ \/ /\ CASE worker[w].verdict = "delivered" -> Put(d, DeliveredRow(d))
               [] worker[w].verdict = "retry" -> Put(d, RetryRow(d, worker[w].tries[d]))
               [] OTHER -> Put(d, FailedRow(d, MaxAttempts))
          /\ UNCHANGED faults
       \/ Fault /\ UNCHANGED row
    /\ Goto(w, "done")
    /\ UNCHANGED <<sub, edit, now, accepted, stalls, edits>>

NextDelivery(w) ==
    /\ At(w, "done")
    /\ Turn(w, Cur(w))
    /\ UNCHANGED <<row, sub, edit, now, accepted, faults, stalls, edits>>

ReleaseClaim(w) ==
    /\ At(w, "release")
    /\ \/ /\ IF Owns(w, Cur(w))
               THEN Put(Cur(w), [row[Cur(w)] EXCEPT !.st = "pending", !.owner = None, !.stale = FALSE])
               ELSE UNCHANGED row
          /\ UNCHANGED faults
       \/ Fault /\ UNCHANGED row
    /\ Turn(w, Cur(w))
    /\ UNCHANGED <<sub, edit, now, accepted, stalls, edits>>

\* A panic anywhere in a delivery is recovered and releases the row, whatever was written.
Panic(w) ==
    /\ worker[w].at \in {"send", "posting", "done"} \cup Writing /\ Cur(w) # None /\ worker[w].cache # None
    /\ Fault
    /\ Goto(w, "release")
    /\ UNCHANGED <<row, sub, edit, now, accepted, stalls, edits>>

\* The process dies or shuts down; what it claimed stays claimed.
Crash(w) ==
    /\ ~At(w, "idle")
    /\ Fault
    /\ worker' = [worker EXCEPT ![w] = IdleWorker]
    /\ UNCHANGED <<row, sub, edit, now, accepted, stalls, edits>>

-----------------------------------------------------------------------------
(* Time.                                                                   *)

\* The budget of a claim is spent; a request that is open is cut off.
BudgetSpent(w) ==
    /\ worker[w].at \in {"lookup", "send", "posting"} /\ ~worker[w].spent
    /\ Stall
    /\ worker' = [worker EXCEPT ![w].spent = TRUE]
    /\ UNCHANGED <<row, sub, edit, now, accepted, faults, edits>>

\* Does the owner of the row still mean to deliver it, and does it work on it now?
Held(d) == \E w \in Workers : Owns(w, d) /\ d \in worker[w].batch
Current(d) == \E w \in Workers : Owns(w, d) /\ Cur(w) = d

\* Mutant: the request may outlive the lease.
MayOutliveOpen(w) == worker[w].at \in {"send", "posting", "release", "done"}

\* The lease of the row a worker is at ends after the budget and after the request; a prompt
\* worker that does not give the row back has written its outcome by then.
MayOutlive(w) ==
    worker[w].spent /\ (IF Prompt THEN worker[w].at \in {"send", "release", "done"} ELSE ~At(w, "posting"))

LeaseRunsOut(d) ==
    /\ row[d].st = "delivering" /\ ~row[d].stale
    /\ Current(d) => MayOutlive(row[d].owner)
    /\ IF Held(d) THEN Stall ELSE UNCHANGED stalls
    /\ row' = [row EXCEPT ![d].stale = TRUE]
    /\ UNCHANGED <<sub, worker, edit, now, accepted, faults, edits>>

\* next_attempt_at passes.
BecomesDue(d) ==
    /\ row[d].st = "failed" /\ row[d].tries < MaxAttempts /\ ~row[d].due
    /\ row' = [row EXCEPT ![d].due = TRUE]
    /\ UNCHANGED <<sub, worker, edit, now, accepted, faults, stalls, edits>>

Tick ==
    /\ now < MaxTime
    /\ now' = now + 1
    /\ UNCHANGED <<row, sub, worker, edit, accepted, faults, stalls, edits>>

-----------------------------------------------------------------------------
(* People.                                                                 *)

Edit == edits < MaxEdits /\ edits' = edits + 1

\* Update: switching a disabled subscription on clears its failures and its reason.
Updated(s, on) ==
    IF s.st = "gone" THEN s
    ELSE IF on THEN (IF s.st = "on" THEN s ELSE [Cleared(s) EXCEPT !.st = "on"])
    ELSE IF s.st = "on" THEN [s EXCEPT !.st = "off"] ELSE s

Toggle(on) ==
    /\ Edit /\ sub.st # "gone"
    /\ sub' = Updated(sub, on)
    /\ UNCHANGED <<row, worker, edit, now, accepted, faults, stalls>>

\* An edit reads the row and keeps its switch, or sets it; it does not switch on a
\* subscription that it reads as retired.
ReadEdit(on) ==
    /\ Edit /\ edit = "none" /\ sub.st # "gone"
    /\ on => sub.st \in {"on", "off"}
    /\ edit' = IF on THEN "on" ELSE "off"
    /\ UNCHANGED <<row, sub, worker, now, accepted, faults, stalls>>

SaveEdit ==
    /\ edit # "none"
    /\ sub' = Updated(sub, edit = "on")
    /\ edit' = "none"
    /\ UNCHANGED <<row, worker, now, accepted, faults, stalls, edits>>

DeleteSubscription ==
    /\ Edit /\ sub.st # "gone"
    /\ sub' = [sub EXCEPT !.st = "gone"]
    /\ row' = Discarded
    /\ UNCHANGED <<worker, edit, now, accepted, faults, stalls>>

\* CleanupOldDeliveries, whatever the status.
Cleanup(d) ==
    /\ Edit /\ row[d].st \notin {"absent", "deleted"}
    /\ row' = [row EXCEPT ![d] = Discarded[d]]
    /\ UNCHANGED <<sub, worker, edit, now, accepted, faults, stalls>>

-----------------------------------------------------------------------------
Step(w) ==
    \/ RenewClaim(w) \/ GetByID(w) \/ ProcessDelivery(w) \/ HandleResponse(w)
    \/ ResetFailures(w) \/ ExpireStaleFailureRun(w) \/ IncrementFailures(w)
    \/ DisableWithReason(w) \/ HandleGoneEndpoint(w)
    \/ WriteOutcome(w) \/ NextDelivery(w) \/ ReleaseClaim(w)

Next ==
    \/ \E d \in Deliveries : QueueDelivery(d) \/ LeaseRunsOut(d) \/ BecomesDue(d) \/ Cleanup(d)
    \/ \E w \in Workers : \/ \E batch \in SUBSET Deliveries : Poll(w, batch)
                          \/ Step(w) \/ Panic(w) \/ Crash(w) \/ BudgetSpent(w)
    \/ \E on \in BOOLEAN : Toggle(on) \/ ReadEdit(on)
    \/ SaveEdit \/ DeleteSubscription \/ Tick

Spec == Init /\ [][Next]_vars

\* Workers poll for all that is due and go on with their batches, and time passes.
Fairness ==
    /\ \A w \in Workers :
         WF_vars(Poll(w, {d \in Deliveries : Claimable(Swept[d])})) /\ WF_vars(Step(w))
    /\ \A d \in Deliveries : WF_vars(LeaseRunsOut(d) /\ UNCHANGED stalls) /\ WF_vars(BecomesDue(d))

FairSpec == Spec /\ Fairness

-----------------------------------------------------------------------------
(* Properties.                                                             *)

\* Rows, subscription and workers are always of their types.
TypeOK ==
    /\ row \in [Deliveries -> Row]
    /\ sub \in Sub
    /\ worker \in [Workers -> Worker]
    /\ edit \in {"none", "on", "off"}
    /\ now \in 0..MaxTime
    /\ accepted \in [Deliveries -> Nat]
    /\ faults \in 0..MaxFaults /\ stalls \in 0..MaxStalls /\ edits \in 0..MaxEdits

\* Two workers never have a request open for the same delivery, however slow they are and
\* however the sweep hands rows on (RenewClaim, the budget of processDelivery).
NoOverlap ==
    \A w, v \in Workers :
      At(w, "posting") /\ At(v, "posting") /\ Cur(w) = Cur(v) => w = v

\* A delivery is sent again after it was accepted only if something failed: slow workers,
\* expired leases and edits alone never cause a duplicate.
DuplicatesNeedFaults == \A d \in Deliveries : accepted[d] <= 1 + faults

\* A delivered row stays delivered until it is deleted (ReleaseClaim's token keeps a panic
\* or a late release from putting it back into the queue).
DeliveredStays ==
    [][\A d \in Deliveries : row[d].st = "delivered" => row'[d].st \in {"delivered", "deleted"}]_vars

\* No delivery is stranded: it gets delivered, or uses up its attempts, or is deleted
\* (the reclaim sweep; every exit of the batch loop writes).
EventuallySettled ==
    \A d \in Deliveries :
      row[d].st = "pending" ~> \/ row[d].st \in {"delivered", "deleted"}
                               \/ row[d].st = "failed" /\ row[d].tries = MaxAttempts
=============================================================================
