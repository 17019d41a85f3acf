------------------------------ MODULE Realtime ------------------------------
(***************************************************************************)
(* One event on its way through the realtime pipeline: it is appended with *)
(* its outbox row, relayed to the broker, matched by a rule worker that    *)
(* enrolls the customer, and the journey that follows is advanced by       *)
(* journey workers whose side effects delivery workers carry out.          *)
(*                                                                         *)
(* Every hand-over is at least once.  Relays hold outbox rows, journey     *)
(* workers the journey and delivery workers the inbox row by a claim token *)
(* and a lease.  The lease of a dead holder runs out; that of a live one   *)
(* may, and counts as a fault.  A token is modelled by the process that    *)
(* made it, which holds at most one of a kind.                             *)
(***************************************************************************)
EXTENDS Integers, FiniteSets

CONSTANTS
    Relays,       \* outbox relays
    Workers,      \* goroutines of the consumers
    None,         \* no owner
    Steps,        \* nodes of the journey
    Webhooks,     \* the nodes that call a webhook; the others' channels deduplicate
    MaxAttempts,  \* defaultOutboxMaxAttempts
    MaxCopies,    \* bound: copies of a message in its queue
    MaxFaults,    \* bound: errors, lost answers, crashes, leases lost by a live holder
    MaxEdits      \* bound: the automation is paused, activated or edited, the customer replies

ASSUME RealtimeAssumption ==
    /\ None \notin Relays \cup Workers
    /\ Steps \in Nat \ {0} /\ Webhooks \subseteq 1..Steps
    /\ MaxAttempts \in Nat \ {0} /\ MaxCopies \in Nat \ {0}
    /\ MaxFaults \in Nat /\ MaxEdits \in Nat

VARIABLES
    outbox,   \* event_outbox, by message
    relay,    \* what each relay is doing
    queue,    \* copies of each message that wait in the broker
    worker,   \* what each worker is doing
    inbox,    \* consumer_inbox, by message
    journey,  \* the contact_automations row
    automation, \* the automation and its trigger
    effect,   \* side_effect_executions, by step
    calls,    \* the side effects that happened, by step (not stored)
    dead,     \* messages in a dead-letter queue
    faults, edits

vars == <<outbox, relay, queue, worker, inbox, journey, automation, effect, calls, dead,
          faults, edits>>

Step == 1..Steps
Event == <<"event", 0>>
Start == <<"start", 0>>
Resume == <<"resume", 0>>
Effect(v) == <<"effect", v>>
Commands == {Effect(v) : v \in Step}
Outboxed == {Event, Start} \cup Commands
Inboxed == {Event} \cup Commands
Message == Outboxed \cup {Resume}

OutboxRow == [st : {"absent", "pending", "claimed", "published", "dead"},
              attempts : 0..MaxAttempts, owner : Relays \cup {None}]
InboxRow == [st : {"absent", "processing", "completed", "failed"}, owner : Workers \cup {None}]
Status == {"absent", "reserved", "submitted", "confirmed", "failed", "unknown"}
Relay == [batch : SUBSET Outboxed, msg : Outboxed, at : {"idle", "next", "mark", "release"}]
TriggerStep == {"drop", "install", "replace"}
Automation == [live : BOOLEAN, version : Nat, bound : BOOLEAN, todo : SUBSET TriggerStep]
Worker == [msg : Message, at : {"idle", "got", "plan", "read", "act", "call", "record",
                                "complete", "fail", "settle"},
           ver : 0..Steps, seen : Status, then : {"ack", "retry", "dead"}]

IdleRelay == [batch |-> {}, msg |-> Event, at |-> "idle"]
IdleWorker == [msg |-> Event, at |-> "idle", ver |-> 0, seen |-> "absent", then |-> "ack"]
NewRow == [st |-> "pending", attempts |-> 0, owner |-> None]

Init ==
    /\ outbox = [m \in Outboxed |-> [NewRow EXCEPT !.st = "absent"]]
    /\ relay = [p \in Relays |-> IdleRelay]
    /\ queue = [m \in Message |-> 0]
    /\ worker = [w \in Workers |-> IdleWorker]
    /\ inbox = [m \in Inboxed |-> [st |-> "absent", owner |-> None]]
    /\ journey = [st |-> "absent", ver |-> 0, owner |-> None, of |-> 0]
    /\ automation = [live |-> TRUE, version |-> 1, bound |-> TRUE, todo |-> {}]
    /\ effect = [v \in Step |-> "absent"]
    /\ calls = [v \in Step |-> [n |-> 0, cut |-> FALSE]]
    /\ dead = {}
    /\ faults = 0 /\ edits = 0

Fault == faults < MaxFaults /\ faults' = faults + 1

\* A lease runs out: the holder is dead, or slow.
LeaseExpires(alive) == IF alive THEN Fault ELSE UNCHANGED faults

\* n more copies of m wait in the broker.
Enqueued(m, n) == [queue EXCEPT ![m] = IF @ + n > MaxCopies THEN MaxCopies ELSE @ + n]

\* INSERT ... ON CONFLICT DO NOTHING into the outbox.
Inserted(m) == IF outbox[m].st = "absent" THEN [outbox EXCEPT ![m] = NewRow] ELSE outbox

-----------------------------------------------------------------------------
(* The event and its outbox row are written together; a second append of   *)
(* the same event changes nothing, and conflicts if its payload differs.   *)

AppendEvent ==
    /\ outbox[Event].st = "absent"
    /\ outbox' = Inserted(Event)
    /\ UNCHANGED <<relay, queue, worker, inbox, journey, automation, effect, calls, dead, faults, edits>>

-----------------------------------------------------------------------------
(* The relay.                                                              *)

Holds(p, m) == outbox[m].st = "claimed" /\ outbox[m].owner = p

\* Is the holder of the row still at work on it?
Relaying(m) == \E p \in Relays : Holds(p, m) /\ m \in relay[p].batch

\* Mutant: the claim of a dead relay is for ever.
ClaimableWaiting(m) == outbox[m].st = "pending"

\* A claim takes rows that wait, or whose claim has expired.
Claimable(m) == outbox[m].st \in {"pending", "claimed"}

ClaimOutbox(p, batch) ==
    /\ relay[p].at = "idle"
    /\ batch # {} /\ \A m \in batch : Claimable(m)
    /\ LeaseExpires(\E m \in batch : Relaying(m))
    /\ outbox' = [m \in Outboxed |->
         IF m \in batch
           THEN [st |-> "claimed", owner |-> p,
                 attempts |-> IF outbox[m].attempts = MaxAttempts THEN MaxAttempts
                              ELSE outbox[m].attempts + 1]
           ELSE outbox[m]]
    /\ relay' = [relay EXCEPT ![p] = [IdleRelay EXCEPT !.batch = batch, !.at = "next"]]
    /\ UNCHANGED <<queue, worker, inbox, journey, automation, effect, calls, dead, edits>>

\* Publish waits for a confirm and tries twice: a confirmed message is there once or
\* twice, one that was not may be there all the same.
PublishMessage(p) ==
    /\ relay[p].at = "next"
    /\ \E m \in relay[p].batch :
         \/ /\ queue' = Enqueued(m, 1) /\ UNCHANGED faults
            /\ relay' = [relay EXCEPT ![p].msg = m, ![p].at = "mark"]
         \/ /\ Fault /\ queue' = Enqueued(m, 2)
            /\ relay' = [relay EXCEPT ![p].msg = m, ![p].at = "mark"]
         \/ /\ Fault /\ \E n \in 0..2 : queue' = Enqueued(m, n)
            /\ relay' = [relay EXCEPT ![p].msg = m, ![p].at = "release"]
    /\ UNCHANGED <<outbox, worker, inbox, journey, automation, effect, calls, dead, edits>>

\* The relay turns to the next message of its batch.
Turned(p) ==
    LET rest == relay[p].batch \ {relay[p].msg} IN
    [relay EXCEPT ![p] = IF rest = {} THEN IdleRelay
                         ELSE [IdleRelay EXCEPT !.batch = rest, !.at = "next"]]

MarkOutboxPublished(p) ==
    /\ relay[p].at = "mark"
    /\ LET m == relay[p].msg IN
       \/ /\ outbox' = IF Holds(p, m)
                         THEN [outbox EXCEPT ![m].st = "published", ![m].owner = None] ELSE outbox
          /\ UNCHANGED faults
       \/ Fault /\ UNCHANGED outbox
    /\ relay' = Turned(p)
    /\ UNCHANGED <<queue, worker, inbox, journey, automation, effect, calls, dead, edits>>

\* A message that cannot be published waits for its backoff, or is given up.
ReleaseOutbox(p) ==
    /\ relay[p].at = "release"
    /\ LET m == relay[p].msg IN
       \/ /\ outbox' = IF Holds(p, m)
                         THEN [outbox EXCEPT ![m].owner = None,
                                 ![m].st = IF outbox[m].attempts = MaxAttempts
                                             THEN "dead" ELSE "pending"]
                         ELSE outbox
          /\ UNCHANGED faults
       \/ Fault /\ UNCHANGED outbox
    /\ relay' = Turned(p)
    /\ UNCHANGED <<queue, worker, inbox, journey, automation, effect, calls, dead, edits>>

CrashRelay(p) ==
    /\ relay[p].at # "idle" /\ Fault
    /\ relay' = [relay EXCEPT ![p] = IdleRelay]
    /\ UNCHANGED <<outbox, queue, worker, inbox, journey, automation, effect, calls, dead, edits>>

-----------------------------------------------------------------------------
(* The consumers: a delivery is handled, then settled.                     *)

Kind(w) == worker[w].msg[1]
StepOf(w) == worker[w].msg[2]
Busy(w, at) == worker[w].at = at
Work(w, new) == worker' = [worker EXCEPT ![w] = new]
Goto(w, at) == Work(w, [worker[w] EXCEPT !.at = at])

\* Mutant: a handler that failed acknowledges its message.
DecideAcks(w, then) == Work(w, [IdleWorker EXCEPT !.msg = worker[w].msg, !.at = "settle"])

\* The handler is done, with or without an error.
Decide(w, then) == Work(w, [IdleWorker EXCEPT !.msg = worker[w].msg, !.at = "settle", !.then = then])

Deliver(w, m) ==
    /\ Busy(w, "idle") /\ queue[m] > 0
    /\ queue' = [queue EXCEPT ![m] = @ - 1]
    /\ Work(w, [IdleWorker EXCEPT !.msg = m, !.at = "got"])
    /\ UNCHANGED <<outbox, relay, inbox, journey, automation, effect, calls, dead, faults, edits>>

\* Ack, dead-letter, or publish to a retry queue and ack; a retry whose publish fails is
\* returned to the queue as well.
Settle(w) ==
    /\ Busy(w, "settle")
    /\ CASE worker[w].then = "ack" -> UNCHANGED <<queue, dead, faults>>
         [] worker[w].then = "dead" -> dead' = dead \cup {worker[w].msg} /\ UNCHANGED <<queue, faults>>
         [] OTHER -> /\ \/ queue' = Enqueued(worker[w].msg, 1) /\ UNCHANGED faults
                        \/ queue' = Enqueued(worker[w].msg, 2) /\ Fault
                     /\ UNCHANGED dead
    /\ Work(w, IdleWorker)
    /\ UNCHANGED <<outbox, relay, inbox, journey, automation, effect, calls, edits>>

\* The worker dies, or its connection; the broker delivers the message again.
CrashWorker(w) ==
    /\ ~Busy(w, "idle") /\ Fault
    /\ queue' = Enqueued(worker[w].msg, 1)
    /\ Work(w, IdleWorker)
    /\ UNCHANGED <<outbox, relay, inbox, journey, automation, effect, calls, dead, edits>>

\* The matcher finds the live automation through the binding of its version.
Enrolls == automation.live /\ automation.bound

\* ProcessRuleEvent is one transaction: inbox, enrollment, journey and start command.
\* No binding may match, or the entry guard may deny or defer the entry.
ProcessRuleEvent(w) ==
    /\ Busy(w, "got") /\ Kind(w) = "event"
    /\ \/ /\ inbox[Event].st = "completed"
          /\ Decide(w, "ack")
          /\ UNCHANGED <<inbox, journey, outbox, faults>>
       \/ /\ inbox[Event].st # "completed"
          /\ inbox' = [inbox EXCEPT ![Event].st = "completed"]
          /\ Decide(w, "ack")
          /\ \/ Enrolls /\ journey.st = "absent"
                /\ journey' = [journey EXCEPT !.st = "active", !.of = automation.version]
                /\ outbox' = Inserted(Start)
             \/ UNCHANGED <<journey, outbox>>
          /\ UNCHANGED faults
       \/ /\ inbox[Event].st # "completed" /\ journey.st = "absent" /\ Enrolls
          /\ Fault
          /\ inbox' = [inbox EXCEPT ![Event].st = "failed"]
          /\ Decide(w, "retry")
          /\ UNCHANGED <<journey, outbox>>
       \/ /\ Fault
          /\ Decide(w, "retry")
          /\ UNCHANGED <<inbox, journey, outbox>>
    /\ UNCHANGED <<relay, queue, automation, effect, calls, dead, edits>>

-----------------------------------------------------------------------------
(* The journey worker: claim the journey, plan a step, commit it.          *)

Planning(w) == w \in Workers /\ Busy(w, "plan")

\* The automation is live in the version the customer entered (automation_version, which
\* the journey keeps).
Current == automation.live /\ automation.version = journey.of

\* A wake of a journey that is not active, not current or held by another is dropped.
ClaimContactAutomation(w) ==
    /\ Busy(w, "got") /\ Kind(w) \in {"start", "resume"}
    /\ \/ /\ journey.st = "active" /\ Current
          /\ LeaseExpires(Planning(journey.owner))
          /\ journey' = [journey EXCEPT !.owner = w]
          /\ Work(w, [worker[w] EXCEPT !.at = "plan", !.ver = journey.ver])
       \/ /\ journey.st # "active" \/ ~Current \/ journey.owner # None
          /\ Decide(w, "ack")
          /\ UNCHANGED <<journey, faults>>
       \/ Fault /\ Decide(w, "retry") /\ UNCHANGED journey
    /\ UNCHANGED <<outbox, relay, queue, inbox, automation, effect, calls, dead, edits>>

\* The plan fails: the claim is given back, unless it is lost.
ReleaseContactAutomationClaim(w) ==
    /\ Busy(w, "plan") /\ Fault
    /\ journey' = IF journey.owner = w THEN [journey EXCEPT !.owner = None] ELSE journey
    /\ Decide(w, "retry")
    /\ UNCHANGED <<outbox, relay, queue, inbox, automation, effect, calls, dead, edits>>

\* Mutant: the commit does not compare the claim and the version.
MayCommitAny(w) == Current

\* The compare-and-swap of the commit.
MayCommit(w) == journey.owner = w /\ journey.ver = worker[w].ver /\ Current

\* The step, its side effect and its command commit together; the planned status replaces
\* the one of the row.  The last node completes the journey.
CommitContactAutomationState(w) ==
    LET v == worker[w].ver + 1 IN
    /\ Busy(w, "plan")
    /\ \/ /\ MayCommit(w)
          /\ journey' = [journey EXCEPT !.st = IF v = Steps THEN "completed" ELSE "active",
                                        !.ver = v, !.owner = None]
          /\ \/ /\ effect' = [effect EXCEPT ![v] = IF @ = "absent" THEN "reserved" ELSE @]
                /\ outbox' = Inserted(Effect(v))
             \/ UNCHANGED <<effect, outbox>>
       \/ ~MayCommit(w) /\ UNCHANGED <<journey, effect, outbox>>
    /\ Decide(w, "ack")
    /\ UNCHANGED <<relay, queue, inbox, automation, calls, dead, faults, edits>>

\* Mutant: the scheduler passes over a journey that is claimed.
ScheduleResumeUnclaimed ==
    /\ journey.st = "active" /\ automation.live /\ queue[Resume] = 0 /\ journey.owner = None
    /\ queue' = Enqueued(Resume, 1)
    /\ UNCHANGED <<outbox, relay, worker, inbox, journey, automation, effect, calls, dead, faults, edits>>

\* The scheduler wakes journeys of live automations that are due, however often and in
\* whatever version.
ScheduleResume ==
    /\ journey.st = "active" /\ automation.live /\ queue[Resume] = 0
    /\ queue' = Enqueued(Resume, 1)
    /\ UNCHANGED <<outbox, relay, worker, inbox, journey, automation, effect, calls, dead, faults, edits>>

\* ExitContactJourneysOnReply, or the deletion of the automation.
ExitJourney ==
    /\ journey.st = "active" /\ edits < MaxEdits
    /\ journey' = [journey EXCEPT !.st = "exited"]
    /\ edits' = edits + 1
    /\ UNCHANGED <<outbox, relay, queue, worker, inbox, automation, effect, calls, dead, faults>>

-----------------------------------------------------------------------------
(* The automation: its status is written first, its trigger after that.    *)

Todo(step) == automation.todo \cup {step}
Did(step) == automation.todo \ {step}

Request(new) ==
    /\ edits < MaxEdits
    /\ automation' = new /\ edits' = edits + 1
    /\ UNCHANGED <<outbox, relay, queue, worker, inbox, journey, effect, calls, dead, faults>>

\* Pause, also of an automation that is paused already.
Pause == Request([automation EXCEPT !.live = FALSE, !.todo = Todo("drop")])

Activate == ~automation.live /\ Request([automation EXCEPT !.live = TRUE, !.todo = Todo("install")])

\* Update of a live automation's trigger or root node.
Update == automation.live /\ Request([automation EXCEPT !.todo = Todo("replace")])

SetTrigger(new) ==
    /\ automation' = new
    /\ UNCHANGED <<outbox, relay, queue, worker, inbox, journey, effect, calls, dead, edits>>

\* The binding is deleted, or that fails and the pause has to be tried again.
DropAutomationTrigger ==
    /\ "drop" \in automation.todo
    /\ \/ SetTrigger([automation EXCEPT !.bound = FALSE, !.todo = Did("drop")]) /\ UNCHANGED faults
       \/ SetTrigger([automation EXCEPT !.todo = Did("drop")]) /\ Fault

\* CreateRealtimeTriggerBinding: a binding that says the same stays, any other is replaced
\* by that of a new version.
Bound(step) ==
    IF step = "install" /\ automation.bound THEN [automation EXCEPT !.todo = Did(step)]
    ELSE [automation EXCEPT !.bound = TRUE, !.version = @ + 1, !.todo = Did(step)]

\* When that fails the status goes back to what the request found, unless the process died.
InstallTrigger(step) ==
    /\ step \in {"install", "replace"} \cap automation.todo
    /\ \/ SetTrigger(Bound(step)) /\ UNCHANGED faults
       \/ SetTrigger([automation EXCEPT !.live = (step = "replace"), !.todo = Did(step)]) /\ Fault
       \/ SetTrigger([automation EXCEPT !.todo = Did(step)]) /\ Fault

EditAutomation ==
    \/ Pause \/ Activate \/ Update
    \/ DropAutomationTrigger \/ \E step \in TriggerStep : InstallTrigger(step)

-----------------------------------------------------------------------------
(* The delivery worker: claim the inbox row, submit the side effect, call, *)
(* record what came of it, settle the inbox row.                           *)

\* Is the holder of the inbox row still at work on it?
Delivering(m) ==
    \E w \in Workers :
      /\ inbox[m].owner = w /\ worker[w].msg = m
      /\ worker[w].at \in {"read", "act", "call", "record", "complete", "fail"}

AcquireInbox(w) ==
    /\ Busy(w, "got") /\ Kind(w) = "effect"
    /\ LET m == worker[w].msg IN
       /\ inbox[m].st \in {"absent", "failed", "processing"}
       /\ LeaseExpires(inbox[m].st = "processing" /\ Delivering(m))
       /\ inbox' = [inbox EXCEPT ![m] = [st |-> "processing", owner |-> w]]
    /\ Goto(w, "read")
    /\ UNCHANGED <<outbox, relay, queue, journey, automation, effect, calls, dead, edits>>

\* A completed message is acknowledged; one that another worker holds comes back later.
InboxRefused(w) ==
    /\ Busy(w, "got") /\ Kind(w) = "effect"
    /\ CASE inbox[worker[w].msg].st = "completed" -> Decide(w, "ack")
         [] inbox[worker[w].msg].st = "processing" -> Decide(w, "retry")
         [] OTHER -> FALSE
    /\ UNCHANGED <<outbox, relay, queue, inbox, journey, automation, effect, calls, dead, faults, edits>>

GetSideEffect(w) ==
    /\ Busy(w, "read")
    /\ Work(w, [worker[w] EXCEPT !.at = "act", !.seen = effect[StepOf(w)]])
    /\ UNCHANGED <<outbox, relay, queue, inbox, journey, automation, effect, calls, dead, faults, edits>>

\* The handler gives up: with an unknown outcome the message is dead-lettered.
Failing(w, then) == Work(w, [worker[w] EXCEPT !.at = "fail", !.then = then])

\* The compare-and-swap of TransitionSideEffect.
TransitionSideEffect(v, from, to) ==
    effect' = IF effect[v] = from THEN [effect EXCEPT ![v] = to] ELSE effect

\* A webhook that was submitted may have been called: it is not called again.
Reconciles(v) == v \in Webhooks

Submit(w) ==
    LET v == StepOf(w)
        seen == worker[w].seen IN
    /\ Busy(w, "act")
    /\ \/ /\ seen = "confirmed"
          /\ Goto(w, "complete") /\ UNCHANGED effect
       \/ /\ seen = "unknown"
          /\ Failing(w, "dead") /\ UNCHANGED effect
       \/ /\ seen = "submitted" /\ Reconciles(v)
          /\ TransitionSideEffect(v, "submitted", "unknown")
          /\ Failing(w, IF effect[v] = "submitted" THEN "dead" ELSE "retry")
       \/ /\ seen = "submitted" /\ ~Reconciles(v)
          /\ Goto(w, "call") /\ UNCHANGED effect
       \/ /\ seen \in {"reserved", "failed"}
          /\ TransitionSideEffect(v, seen, "submitted")
          /\ IF effect[v] = seen THEN Goto(w, "call") ELSE Failing(w, "retry")
    /\ UNCHANGED <<outbox, relay, queue, inbox, journey, automation, calls, dead, faults, edits>>

\* The side effect happens; the other channels recognise their effect key.
Happens(v, cut) ==
    calls' = [calls EXCEPT ![v] =
      [n |-> IF @.n = 0 THEN 1 ELSE IF v \in Webhooks THEN 2 ELSE @.n, cut |-> @.cut \/ cut]]

\* Mutant: a lost answer counts as a success.
OutcomeOfLossConfirms(v) == "confirmed"

\* Mutant: a lost answer is recorded under a status the column does not have.
OutcomeOfLossTimeout(v) == "timeout"

\* A network error or timeout leaves the outcome of a webhook unknown.
OutcomeOfLoss(v) == IF v \in Webhooks THEN "unknown" ELSE "failed"

\* The call is answered, refused, or its answer is lost, with or without the side effect.
\* An answer whose body is cut off is no network error and counts as a refusal.
ExecuteJourneySideEffect(w) ==
    LET v == StepOf(w)
        Report(outcome) == Work(w, [worker[w] EXCEPT !.at = "record", !.seen = outcome]) IN
    /\ Busy(w, "call")
    /\ \/ Happens(v, FALSE) /\ Report("confirmed") /\ UNCHANGED faults
       \/ Fault /\ UNCHANGED calls /\ Report("failed")
       \/ Fault /\ (Happens(v, FALSE) \/ UNCHANGED calls) /\ Report(OutcomeOfLoss(v))
       \/ Fault /\ v \in Webhooks /\ Happens(v, TRUE) /\ Report("failed")
    /\ UNCHANGED <<outbox, relay, queue, inbox, journey, automation, effect, dead, edits>>

\* The outcome is recorded if the side effect is still submitted.
RecordOutcome(w) ==
    LET v == StepOf(w)
        outcome == worker[w].seen IN
    /\ Busy(w, "record")
    /\ TransitionSideEffect(v, "submitted", outcome)
    /\ CASE outcome = "confirmed" /\ effect[v] = "submitted" -> Goto(w, "complete")
         [] outcome = "unknown" -> Failing(w, "dead")
         [] OTHER -> Failing(w, "retry")
    /\ UNCHANGED <<outbox, relay, queue, inbox, journey, automation, calls, dead, faults, edits>>

\* The inbox row is settled by the worker that holds it, if it still does.
HoldsInbox(w) == inbox[worker[w].msg] = [st |-> "processing", owner |-> w]

SettledInbox(w, st) ==
    inbox' = IF HoldsInbox(w) THEN [inbox EXCEPT ![worker[w].msg].st = st] ELSE inbox

CompleteConsumerMessage(w) ==
    /\ Busy(w, "complete")
    /\ SettledInbox(w, "completed")
    /\ Decide(w, IF HoldsInbox(w) THEN "ack" ELSE "retry")
    /\ UNCHANGED <<outbox, relay, queue, journey, automation, effect, calls, dead, faults, edits>>

FailConsumerMessage(w) ==
    /\ Busy(w, "fail")
    /\ SettledInbox(w, "failed")
    /\ Decide(w, worker[w].then)
    /\ UNCHANGED <<outbox, relay, queue, journey, automation, effect, calls, dead, faults, edits>>

\* A statement fails.  Before the call and when the success is recorded the inbox row is
\* failed next; when the claim or the inbox row itself fails the handler ends; an outcome
\* that cannot be recorded still decides what becomes of the message.
StatementFails(w) ==
    /\ Fault
    /\ \/ Busy(w, "got") /\ Kind(w) = "effect" /\ Decide(w, "retry")
       \/ (Busy(w, "read") \/ Busy(w, "act")) /\ Failing(w, "retry")
       \/ Busy(w, "record") /\ Failing(w, IF worker[w].seen = "unknown" THEN "dead" ELSE "retry")
       \/ Busy(w, "complete") /\ Decide(w, "retry")
       \/ Busy(w, "fail") /\ Decide(w, worker[w].then)
    /\ UNCHANGED <<outbox, relay, queue, inbox, journey, automation, effect, calls, dead, edits>>

-----------------------------------------------------------------------------
RelayStep(p) ==
    \/ PublishMessage(p) \/ MarkOutboxPublished(p) \/ ReleaseOutbox(p)

WorkerStep(w) ==
    \/ Settle(w) \/ ProcessRuleEvent(w)
    \/ ClaimContactAutomation(w) \/ CommitContactAutomationState(w)
    \/ AcquireInbox(w) \/ InboxRefused(w) \/ GetSideEffect(w) \/ Submit(w)
    \/ ExecuteJourneySideEffect(w) \/ RecordOutcome(w)
    \/ CompleteConsumerMessage(w) \/ FailConsumerMessage(w)

Next ==
    \/ AppendEvent
    \/ \E p \in Relays : RelayStep(p) \/ CrashRelay(p) \/ \E batch \in SUBSET Outboxed : ClaimOutbox(p, batch)
    \/ \E w \in Workers :
         \/ WorkerStep(w) \/ ReleaseContactAutomationClaim(w) \/ StatementFails(w) \/ CrashWorker(w)
         \/ \E m \in Message : Deliver(w, m)
    \/ ScheduleResume \/ ExitJourney \/ EditAutomation

Spec == Init /\ [][Next]_vars

\* Relays, consumers and the scheduler keep running: a poll finds the rows that are due, the
\* broker hands out what it has, and a lease nobody works under does run out, so a claim
\* that keeps being tried is not refused for ever.
Due == {m \in Outboxed : outbox[m].st = "pending" \/ (outbox[m].st = "claimed" /\ ~Relaying(m))}

Fairness ==
    /\ \A p \in Relays : WF_vars(RelayStep(p)) /\ WF_vars(ClaimOutbox(p, Due))
    /\ \A w \in Workers : WF_vars(WorkerStep(w))
    /\ WF_vars(\E w \in Workers, m \in Message : Deliver(w, m))
    /\ WF_vars(ScheduleResume)
    /\ SF_vars(\E w \in Workers :
         AcquireInbox(w) \/ (ClaimContactAutomation(w) /\ worker'[w].at = "plan"))

FairSpec == Spec /\ Fairness

-----------------------------------------------------------------------------
(* Properties.                                                             *)

\* Rows, deliveries and workers are always of their types.
TypeOK ==
    /\ outbox \in [Outboxed -> OutboxRow]
    /\ relay \in [Relays -> Relay]
    /\ queue \in [Message -> 0..MaxCopies]
    /\ worker \in [Workers -> Worker]
    /\ inbox \in [Inboxed -> InboxRow]
    /\ journey \in [st : {"absent", "active", "completed", "exited"}, ver : 0..Steps,
                     owner : Workers \cup {None}, of : Nat]
    /\ automation \in Automation
    /\ effect \in [Step -> Status]
    /\ calls \in [Step -> [n : 0..2, cut : BOOLEAN]]
    /\ dead \subseteq Message
    /\ faults \in 0..MaxFaults /\ edits \in 0..MaxEdits

\* Every hand-over loses nothing: an event or command that was accepted and is not consumed
\* waits in its outbox row, in the broker or with a worker, or was given up for a person to
\* look at (the relay's confirm-then-mark, the consumers' settle after the inbox row).
NothingLost ==
    \A m \in Inboxed :
      outbox[m].st # "absent" /\ inbox[m].st # "completed" =>
        \/ outbox[m].st \in {"pending", "claimed", "dead"}
        \/ queue[m] > 0 \/ m \in dead
        \/ \E w \in Workers : ~Busy(w, "idle") /\ worker[w].msg = m

\* A command is settled only for a side effect that happened: redelivered, taken over or
\* retried, completeInbox never covers for a call that was not made.
SettledHappened ==
    \A v \in Step : inbox[Effect(v)].st = "completed" \/ effect[v] = "confirmed" => calls[v].n > 0

Journey == INSTANCE JourneySteps WITH pos <- journey.ver,
             requested <- {v \in Step : effect[v] # "absent"},
             performed <- [v \in Step |-> IF calls[v].cut /\ calls[v].n = 2 THEN 1 ELSE calls[v].n]

\* The pipeline with its duplicates, takeovers and lost answers takes the steps of the
\* journey one by one and performs each side effect at most once (the claim and version of
\* CommitContactAutomationState, the transitions of TransitionSideEffect), except for a
\* webhook whose answer was cut off, which is called again.
JourneyRefined == Journey!Spec

\* Whatever the faults, an accepted event or command is consumed or given up visibly.
EventuallyConsumed ==
    \A m \in Inboxed :
      outbox[m].st # "absent" ~> inbox[m].st = "completed" \/ m \in dead \/ outbox[m].st = "dead"

\* A journey does not stay where it is: while the automation is live in the version the
\* customer entered its steps go on to the last (the scheduler's resume covers a start
\* command that was lost or a worker that died).  In a later version nobody claims it again.
JourneyEnds == journey.st = "active" ~> journey.st # "active" \/ ~Current
=============================================================================
