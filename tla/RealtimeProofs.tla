---------------------------- MODULE RealtimeProofs ----------------------------
(* Machine-checked facts about Realtime, for any sets of relays and workers,   *)
(* journeys of any length and any bounds on attempts, faults and edits.        *)
EXTENDS Realtime, TLAPS

USE RealtimeAssumption

-----------------------------------------------------------------------------
(* Messages.                                                                *)

\* The kinds of messages are disjoint, and a command names its step.
LEMMA Messages ==
    /\ Inboxed \subseteq Outboxed /\ Outboxed \subseteq Message
    /\ Event \in Inboxed /\ Start \in Outboxed /\ Resume \in Message
    /\ Start \notin Inboxed /\ Resume \notin Inboxed /\ Event \notin Commands
    /\ Inboxed = {Event} \cup Commands
    /\ \A v \in Step : Effect(v) \in Commands /\ Effect(v)[2] = v
    /\ \A m \in Message :
         /\ m[1] = "effect" <=> m \in Commands
         /\ m[1] = "event" <=> m = Event
         /\ m[1] \in {"start", "resume"} <=> m \in {Start, Resume}
         /\ m \in Commands => m[2] \in Step /\ m = Effect(m[2])
  <1>1. \A v \in Step : Effect(v) \in Commands /\ Effect(v)[1] = "effect" /\ Effect(v)[2] = v
    BY DEF Commands, Effect
  <1>2. Event[1] = "event" /\ Start[1] = "start" /\ Resume[1] = "resume"
    BY DEF Event, Start, Resume
  <1>3. ASSUME NEW m \in Commands PROVE \E v \in Step : m = Effect(v)
    BY DEF Commands
  <1>4. ASSUME NEW m \in Message PROVE m \in {Event, Start, Resume} \cup Commands
    BY DEF Message, Outboxed
  <1>5. ASSUME NEW m \in Commands PROVE m[1] = "effect" /\ m[2] \in Step /\ m = Effect(m[2])
    BY <1>1, <1>3
  <1>6. Event \notin Commands /\ Start \notin Commands /\ Resume \notin Commands
    BY <1>2, <1>5
  <1>7. Start # Event /\ Resume # Event
    BY <1>2
  <1>8. QED
    BY <1>1, <1>2, <1>4, <1>5, <1>6, <1>7 DEF Inboxed, Outboxed, Message

-----------------------------------------------------------------------------
(* Types.                                                                   *)

Consuming == {"read", "act", "call", "record", "complete", "fail"}

\* What a worker is at tells what it handles and what it has in hand.
WorkersSound ==
    \A w \in Workers :
      /\ worker[w].at \in Consuming => worker[w].msg \in Commands
      /\ worker[w].at = "plan" => worker[w].msg \in {Start, Resume}
      /\ worker[w].at = "record" => worker[w].seen \in {"confirmed", "failed", "unknown"}
      /\ worker[w].at = "fail" => worker[w].then # "ack"

\* A journey that is claimed or active has a step left.
JourneySound ==
    /\ journey.st \in {"absent", "active"} \/ journey.owner # None => journey.ver < Steps
    /\ journey.st = "absent" => journey.ver = 0

WellFormed == TypeOK /\ WorkersSound /\ JourneySound

\* A step of one worker is nobody else's.
Others(w) == \A u \in Workers \ {w} : worker'[u] = worker[u]

\* What w becomes, and nobody else changes.
Becomes(w, msg, at, seen, then) ==
    /\ worker' \in [Workers -> Worker] /\ Others(w)
    /\ worker'[w].msg = msg /\ worker'[w].at = at
    /\ worker'[w].seen = seen /\ worker'[w].then = then

\* A new value for one worker.
LEMMA WorkDoes ==
    ASSUME TypeOK, NEW w \in Workers, NEW r \in Worker, Work(w, r)
    PROVE  Becomes(w, r.msg, r.at, r.seen, r.then) /\ worker'[w] = r
  BY DEF TypeOK, Work, Becomes, Others

\* The parts of a worker.
LEMMA WorkerParts ==
    ASSUME TypeOK, NEW w \in Workers
    PROVE  /\ worker \in [Workers -> Worker] /\ worker[w] \in Worker
           /\ worker[w].msg \in Message /\ worker[w].ver \in 0..Steps /\ worker[w].seen \in Status
           /\ worker[w].then \in {"ack", "retry", "dead"}
           /\ worker[w].at \in {"idle", "got", "plan", "settle"} \cup Consuming
  BY DEF TypeOK, Worker, Consuming

\* Going on with the same message.
LEMMA GotoDoes ==
    ASSUME TypeOK, NEW w \in Workers, NEW at \in {"idle", "got", "plan", "settle"} \cup Consuming, Goto(w, at)
    PROVE  Becomes(w, worker[w].msg, at, worker[w].seen, worker[w].then)
  <1>1. PICK r : r = [worker[w] EXCEPT !.at = at]
    OBVIOUS
  <1>2. /\ r \in Worker /\ r.msg = worker[w].msg /\ r.at = at /\ r.seen = worker[w].seen
        /\ r.then = worker[w].then
    BY <1>1, WorkerParts DEF Worker, Consuming
  <1>3. Work(w, r)
    BY <1>1 DEF Goto
  <1>4. QED
    BY <1>2, <1>3, WorkDoes

\* Reading, or reporting on, the side effect.
LEMMA SeesDoes ==
    ASSUME TypeOK, NEW w \in Workers, NEW at \in {"act", "record"}, NEW seen \in Status,
           Work(w, [worker[w] EXCEPT !.at = at, !.seen = seen])
    PROVE  Becomes(w, worker[w].msg, at, seen, worker[w].then)
  <1>1. PICK r : r = [worker[w] EXCEPT !.at = at, !.seen = seen]
    OBVIOUS
  <1>2. /\ r \in Worker /\ r.msg = worker[w].msg /\ r.at = at /\ r.seen = seen
        /\ r.then = worker[w].then
    BY <1>1, WorkerParts DEF Worker
  <1>3. Work(w, r)
    BY <1>1
  <1>4. QED
    BY <1>2, <1>3, WorkDoes

\* Giving up the handling.
LEMMA FailingDoes ==
    ASSUME TypeOK, NEW w \in Workers, NEW then \in {"retry", "dead"}, Failing(w, then)
    PROVE  Becomes(w, worker[w].msg, "fail", worker[w].seen, then)
  <1>1. PICK r : r = [worker[w] EXCEPT !.at = "fail", !.then = then]
    OBVIOUS
  <1>2. /\ r \in Worker /\ r.msg = worker[w].msg /\ r.at = "fail" /\ r.seen = worker[w].seen
        /\ r.then = then
    BY <1>1, WorkerParts DEF Worker
  <1>3. Work(w, r)
    BY <1>1 DEF Failing
  <1>4. QED
    BY <1>2, <1>3, WorkDoes

\* Ending the handling.
LEMMA DecideDoes ==
    ASSUME TypeOK, NEW w \in Workers, NEW then \in {"ack", "retry", "dead"}, Decide(w, then)
    PROVE  Becomes(w, worker[w].msg, "settle", "absent", then)
  <1>1. PICK r : r = [IdleWorker EXCEPT !.msg = worker[w].msg, !.at = "settle", !.then = then]
    OBVIOUS
  <1>2. /\ r \in Worker /\ r.msg = worker[w].msg /\ r.at = "settle" /\ r.seen = "absent"
        /\ r.then = then
    <2>1. r = [msg |-> worker[w].msg, at |-> "settle", ver |-> 0, seen |-> "absent", then |-> then]
      BY <1>1 DEF IdleWorker
    <2>2. 0 \in 0..Steps /\ "absent" \in Status /\ worker[w].msg \in Message
      BY WorkerParts DEF Status
    <2>3. QED
      BY <2>1, <2>2 DEF Worker
  <1>3. Work(w, r)
    BY <1>1 DEF Decide
  <1>4. QED
    BY <1>2, <1>3, WorkDoes

\* Being idle, and beginning with a message.
LEMMA IdleDoes ==
    ASSUME TypeOK, NEW w \in Workers, NEW m \in Message
    PROVE  /\ Work(w, IdleWorker) => Becomes(w, Event, "idle", "absent", "ack")
           /\ Work(w, [IdleWorker EXCEPT !.msg = m, !.at = "got"]) => Becomes(w, m, "got", "absent", "ack")
  <1>1. IdleWorker \in Worker /\ Event \in Message
    BY Messages DEF Worker, IdleWorker, Status
  <1>2. PICK r : r = [IdleWorker EXCEPT !.msg = m, !.at = "got"]
    OBVIOUS
  <1>3. r \in Worker /\ r.msg = m /\ r.at = "got" /\ r.seen = "absent" /\ r.then = "ack"
    BY <1>1, <1>2 DEF Worker, IdleWorker
  <1>4. Work(w, r) => Becomes(w, m, "got", "absent", "ack")
    BY <1>3, WorkDoes
  <1>5. Work(w, IdleWorker) => Becomes(w, Event, "idle", "absent", "ack")
    BY <1>1, WorkDoes DEF IdleWorker
  <1>6. QED
    BY <1>2, <1>4, <1>5

\* Copies are added up to the bound, and one that is added is there.
LEMMA EnqueuedDoes ==
    ASSUME TypeOK, NEW m \in Message, NEW n \in 0..2
    PROVE  /\ Enqueued(m, n) \in [Message -> 0..MaxCopies]
           /\ \A x \in Message : queue[x] > 0 => Enqueued(m, n)[x] > 0
           /\ n > 0 => Enqueued(m, n)[m] > 0
  <1>1. queue \in [Message -> 0..MaxCopies] /\ queue[m] \in 0..MaxCopies /\ MaxCopies \in Nat \ {0}
    BY DEF TypeOK
  <1>2. PICK k : k = IF queue[m] + n > MaxCopies THEN MaxCopies ELSE queue[m] + n
    OBVIOUS
  <1>3. k \in 0..MaxCopies /\ (queue[m] > 0 => k > 0) /\ (n > 0 => k > 0)
    BY <1>1, <1>2
  <1>4. Enqueued(m, n) = [queue EXCEPT ![m] = k]
    BY <1>2 DEF Enqueued
  <1>5. QED
    BY <1>1, <1>3, <1>4

\* An insert adds a waiting row, or nothing.
LEMMA InsertedDoes ==
    ASSUME TypeOK, NEW m \in Outboxed
    PROVE  /\ Inserted(m) \in [Outboxed -> OutboxRow]
           /\ \A x \in Outboxed : Inserted(m)[x] = outbox[x] \/ Inserted(m)[x].st = "pending"
  <1>1. NewRow \in OutboxRow /\ NewRow.st = "pending"
    BY DEF NewRow, OutboxRow
  <1>2. QED
    BY <1>1 DEF TypeOK, Inserted

-----------------------------------------------------------------------------
(* What the steps of a worker do.                                           *)

\* The rule event is consumed, or comes back.
LEMMA RuleDoes ==
    ASSUME TypeOK, NEW w \in Workers, ProcessRuleEvent(w)
    PROVE  /\ worker[w].at = "got" /\ worker[w].msg = Event
           /\ \/ /\ Becomes(w, Event, "settle", "absent", "ack")
                 /\ inbox[Event].st = "completed" /\ inbox' = inbox /\ journey' = journey /\ outbox' = outbox
              \/ /\ Becomes(w, Event, "settle", "absent", "ack")
                 /\ inbox' = [inbox EXCEPT ![Event].st = "completed"]
                 /\ \/ /\ journey.st = "absent" /\ journey' = [journey EXCEPT !.st = "active", !.of = automation.version]
                       /\ outbox' = Inserted(Start)
                    \/ journey' = journey /\ outbox' = outbox
              \/ /\ Becomes(w, Event, "settle", "absent", "retry")
                 /\ \/ inbox' = inbox
                    \/ inbox[Event].st # "completed" /\ inbox' = [inbox EXCEPT ![Event].st = "failed"]
                 /\ journey' = journey /\ outbox' = outbox
  <1>1. worker[w].at = "got" /\ worker[w].msg = Event
    BY WorkerParts, Messages DEF ProcessRuleEvent, Busy, Kind
  <1>2. /\ Decide(w, "ack") => Becomes(w, Event, "settle", "absent", "ack")
        /\ Decide(w, "retry") => Becomes(w, Event, "settle", "absent", "retry")
    BY <1>1, DecideDoes
  <1>3. QED
    BY <1>1, <1>2, Zenon DEF ProcessRuleEvent

\* A wake claims the journey, is dropped, or comes back.
LEMMA ClaimDoes ==
    ASSUME TypeOK, NEW w \in Workers, ClaimContactAutomation(w)
    PROVE  /\ worker[w].at = "got" /\ worker[w].msg \in {Start, Resume}
           /\ \/ /\ Becomes(w, worker[w].msg, "plan", worker[w].seen, worker[w].then)
                 /\ journey.st = "active" /\ journey' = [journey EXCEPT !.owner = w]
              \/ Becomes(w, worker[w].msg, "settle", "absent", "ack") /\ journey' = journey
              \/ Becomes(w, worker[w].msg, "settle", "absent", "retry") /\ journey' = journey
  <1>1. worker[w].at = "got" /\ worker[w].msg \in {Start, Resume}
    BY WorkerParts, Messages DEF ClaimContactAutomation, Busy, Kind
  <1>2. /\ Decide(w, "ack") => Becomes(w, worker[w].msg, "settle", "absent", "ack")
        /\ Decide(w, "retry") => Becomes(w, worker[w].msg, "settle", "absent", "retry")
    BY DecideDoes
  <1>3. ASSUME Work(w, [worker[w] EXCEPT !.at = "plan", !.ver = journey.ver])
        PROVE  Becomes(w, worker[w].msg, "plan", worker[w].seen, worker[w].then)
    <2>1. PICK r : r = [worker[w] EXCEPT !.at = "plan", !.ver = journey.ver]
      OBVIOUS
    <2>2. journey.ver \in 0..Steps
      BY DEF TypeOK
    <2>3. /\ r \in Worker /\ r.msg = worker[w].msg /\ r.at = "plan" /\ r.seen = worker[w].seen
          /\ r.then = worker[w].then
      BY <2>1, <2>2, WorkerParts DEF Worker
    <2>4. Work(w, r)
      BY <1>3, <2>1
    <2>5. QED
      BY <2>3, <2>4, WorkDoes
  <1>4. QED
    BY <1>1, <1>2, <1>3, Zenon DEF ClaimContactAutomation

\* A planned step commits under its claim, or is dropped.
LEMMA CommitDoes ==
    ASSUME TypeOK, NEW w \in Workers, CommitContactAutomationState(w)
    PROVE  /\ worker[w].at = "plan" /\ Becomes(w, worker[w].msg, "settle", "absent", "ack")
           /\ \/ /\ journey.owner = w
                 /\ journey' = [journey EXCEPT !.st = IF journey.ver + 1 = Steps THEN "completed" ELSE "active",
                                          !.ver = journey.ver + 1, !.owner = None]
                 /\ \/ /\ effect' = [effect EXCEPT ![journey.ver + 1] = IF @ = "absent" THEN "reserved" ELSE @]
                       /\ outbox' = Inserted(Effect(journey.ver + 1))
                    \/ effect' = effect /\ outbox' = outbox
              \/ journey' = journey /\ effect' = effect /\ outbox' = outbox
  <1>1. worker[w].at = "plan" /\ Decide(w, "ack")
    BY DEF CommitContactAutomationState, Busy
  <1>2. Becomes(w, worker[w].msg, "settle", "absent", "ack")
    BY <1>1, DecideDoes
  <1>3. \/ MayCommit(w) \/ UNCHANGED <<journey, effect, outbox>>
    BY DEF CommitContactAutomationState
  <1>4. CASE MayCommit(w)
    <2>1. worker[w].ver = journey.ver /\ journey.owner = w
      BY <1>4 DEF MayCommit
    <2>2. QED
      BY <1>1, <1>2, <1>4, <2>1, Zenon DEF CommitContactAutomationState
  <1>5. CASE UNCHANGED <<journey, effect, outbox>>
    BY <1>1, <1>2, <1>5
  <1>6. QED
    BY <1>3, <1>4, <1>5

\* The delivery worker takes the inbox row up, or is refused.
LEMMA AcquireDoes ==
    ASSUME TypeOK, NEW w \in Workers, AcquireInbox(w)
    PROVE  /\ worker[w].at = "got" /\ worker[w].msg \in Commands
           /\ Becomes(w, worker[w].msg, "read", worker[w].seen, worker[w].then)
           /\ inbox[worker[w].msg].st # "completed"
           /\ inbox' = [inbox EXCEPT ![worker[w].msg] = [st |-> "processing", owner |-> w]]
  <1>1. worker[w].at = "got" /\ worker[w].msg \in Commands
    BY WorkerParts, Messages DEF AcquireInbox, Busy, Kind
  <1>2. Becomes(w, worker[w].msg, "read", worker[w].seen, worker[w].then)
    BY GotoDoes DEF AcquireInbox, Consuming
  <1>3. QED
    BY <1>1, <1>2 DEF AcquireInbox

\* Refused, a completed message is acknowledged and another one comes back.
LEMMA RefusedDoes ==
    ASSUME TypeOK, NEW w \in Workers, InboxRefused(w)
    PROVE  /\ worker[w].at = "got" /\ worker[w].msg \in Commands
           /\ \/ Becomes(w, worker[w].msg, "settle", "absent", "ack") /\ inbox[worker[w].msg].st = "completed"
              \/ Becomes(w, worker[w].msg, "settle", "absent", "retry")
  <1>1. worker[w].at = "got" /\ worker[w].msg \in Commands
    BY WorkerParts, Messages DEF InboxRefused, Busy, Kind
  <1>2. \/ inbox[worker[w].msg].st = "completed" /\ Decide(w, "ack")
        \/ Decide(w, "retry")
    BY DEF InboxRefused
  <1>3. QED
    BY <1>1, <1>2, DecideDoes

\* The side effect's row is read.
LEMMA ReadDoes ==
    ASSUME TypeOK, NEW w \in Workers, WorkersSound, GetSideEffect(w)
    PROVE  /\ worker[w].at = "read" /\ worker[w].msg \in Commands
           /\ Becomes(w, worker[w].msg, "act", effect[StepOf(w)], worker[w].then)
  <1>1. worker[w].at = "read" /\ worker[w].msg \in Commands
    BY DEF GetSideEffect, Busy, WorkersSound, Consuming
  <1>2. effect[StepOf(w)] \in Status
    BY <1>1, Messages, WorkerParts DEF StepOf, TypeOK
  <1>3. QED
    BY <1>1, <1>2, SeesDoes DEF GetSideEffect

\* By what was read the worker calls, is done, or gives up.
LEMMA SubmitDoes ==
    ASSUME TypeOK, NEW w \in Workers, WorkersSound, Submit(w)
    PROVE  /\ worker[w].at = "act" /\ worker[w].msg \in Commands /\ StepOf(w) \in Step
           /\ \/ /\ worker[w].seen = "confirmed" /\ effect' = effect
                 /\ Becomes(w, worker[w].msg, "complete", worker[w].seen, worker[w].then)
              \/ /\ effect' = effect \/ (effect[StepOf(w)] = "submitted" /\ effect' = [effect EXCEPT ![StepOf(w)] = "unknown"])
                 /\ \/ Becomes(w, worker[w].msg, "fail", worker[w].seen, "dead")
                    \/ Becomes(w, worker[w].msg, "fail", worker[w].seen, "retry")
              \/ /\ worker[w].seen = "submitted" /\ StepOf(w) \notin Webhooks /\ effect' = effect
                 /\ Becomes(w, worker[w].msg, "call", worker[w].seen, worker[w].then)
              \/ /\ effect[StepOf(w)] \in {"reserved", "failed"} /\ effect' = [effect EXCEPT ![StepOf(w)] = "submitted"]
                 /\ Becomes(w, worker[w].msg, "call", worker[w].seen, worker[w].then)
  <1>1. worker[w].at = "act" /\ worker[w].msg \in Commands
    BY DEF Submit, Busy, WorkersSound, Consuming
  <1>2. StepOf(w) \in Step
    BY <1>1, Messages, WorkerParts DEF StepOf
  <1>3. /\ Goto(w, "complete") => Becomes(w, worker[w].msg, "complete", worker[w].seen, worker[w].then)
        /\ Goto(w, "call") => Becomes(w, worker[w].msg, "call", worker[w].seen, worker[w].then)
    BY GotoDoes DEF Consuming
  <1>4. /\ Failing(w, "dead") => Becomes(w, worker[w].msg, "fail", worker[w].seen, "dead")
        /\ Failing(w, "retry") => Becomes(w, worker[w].msg, "fail", worker[w].seen, "retry")
    BY FailingDoes
  <1>5. \/ worker[w].seen = "confirmed" /\ Goto(w, "complete") /\ effect' = effect
        \/ Failing(w, "dead") /\ effect' = effect
        \/ /\ TransitionSideEffect(StepOf(w), "submitted", "unknown")
           /\ Failing(w, IF effect[StepOf(w)] = "submitted" THEN "dead" ELSE "retry")
        \/ worker[w].seen = "submitted" /\ StepOf(w) \notin Webhooks /\ Goto(w, "call") /\ effect' = effect
        \/ /\ worker[w].seen \in {"reserved", "failed"}
           /\ TransitionSideEffect(StepOf(w), worker[w].seen, "submitted")
           /\ IF effect[StepOf(w)] = worker[w].seen THEN Goto(w, "call") ELSE Failing(w, "retry")
    BY DEF Submit, Reconciles
  <1>6. CASE /\ TransitionSideEffect(StepOf(w), "submitted", "unknown")
             /\ Failing(w, IF effect[StepOf(w)] = "submitted" THEN "dead" ELSE "retry")
    <2>1. CASE effect[StepOf(w)] = "submitted"
      BY <1>1, <1>2, <1>4, <1>6, <2>1, Zenon DEF TransitionSideEffect
    <2>2. CASE effect[StepOf(w)] # "submitted"
      BY <1>1, <1>2, <1>4, <1>6, <2>2, Zenon DEF TransitionSideEffect
    <2>3. QED
      BY <2>1, <2>2
  <1>7. CASE /\ worker[w].seen \in {"reserved", "failed"}
             /\ TransitionSideEffect(StepOf(w), worker[w].seen, "submitted")
             /\ IF effect[StepOf(w)] = worker[w].seen THEN Goto(w, "call") ELSE Failing(w, "retry")
    <2>1. CASE effect[StepOf(w)] = worker[w].seen
      BY <1>1, <1>2, <1>3, <1>7, <2>1, Zenon DEF TransitionSideEffect
    <2>2. CASE effect[StepOf(w)] # worker[w].seen
      BY <1>1, <1>2, <1>4, <1>7, <2>2, Zenon DEF TransitionSideEffect
    <2>3. QED
      BY <2>1, <2>2
  <1>8. QED
    BY <1>1, <1>2, <1>3, <1>4, <1>5, <1>6, <1>7, Zenon

\* The call happens or not, and the worker has its outcome to record.  Only an answer that is
\* cut off makes a webhook that was called look refused.
LEMMA CallDoes ==
    ASSUME TypeOK, NEW w \in Workers, WorkersSound, ExecuteJourneySideEffect(w)
    PROVE  /\ worker[w].at = "call" /\ worker[w].msg \in Commands /\ StepOf(w) \in Step
           /\ \/ Happens(StepOf(w), FALSE) /\ Becomes(w, worker[w].msg, "record", "confirmed", worker[w].then)
              \/ calls' = calls /\ Becomes(w, worker[w].msg, "record", "failed", worker[w].then)
              \/ calls' = calls /\ Becomes(w, worker[w].msg, "record", "unknown", worker[w].then)
              \/ /\ Happens(StepOf(w), FALSE)
                 /\ Becomes(w, worker[w].msg, "record", OutcomeOfLoss(StepOf(w)), worker[w].then)
              \/ /\ StepOf(w) \in Webhooks /\ Happens(StepOf(w), TRUE)
                 /\ Becomes(w, worker[w].msg, "record", "failed", worker[w].then)
  <1>1. worker[w].at = "call" /\ worker[w].msg \in Commands
    BY DEF ExecuteJourneySideEffect, Busy, WorkersSound, Consuming
  <1>2. StepOf(w) \in Step
    BY <1>1, Messages, WorkerParts DEF StepOf
  <1> DEFINE Report(outcome) == Work(w, [worker[w] EXCEPT !.at = "record", !.seen = outcome])
  <1>3. \/ Happens(StepOf(w), FALSE) /\ Report("confirmed")
        \/ calls' = calls /\ Report("failed")
        \/ (Happens(StepOf(w), FALSE) \/ calls' = calls) /\ Report(OutcomeOfLoss(StepOf(w)))
        \/ StepOf(w) \in Webhooks /\ Happens(StepOf(w), TRUE) /\ Report("failed")
    BY Zenon DEF ExecuteJourneySideEffect
  <1>4. ASSUME NEW outcome \in Status, Report(outcome)
        PROVE  Becomes(w, worker[w].msg, "record", outcome, worker[w].then)
    BY <1>4, SeesDoes
  <1>5. OutcomeOfLoss(StepOf(w)) \in {"unknown", "failed"}
    BY DEF OutcomeOfLoss
  <1> HIDE DEF Report
  <1>6. /\ Report("confirmed") => Becomes(w, worker[w].msg, "record", "confirmed", worker[w].then)
        /\ Report("failed") => Becomes(w, worker[w].msg, "record", "failed", worker[w].then)
        /\ Report("unknown") => Becomes(w, worker[w].msg, "record", "unknown", worker[w].then)
    BY <1>4 DEF Status
  <1>7. QED
    BY <1>1, <1>2, <1>3, <1>5, <1>6

\* What a call leaves behind: the side effect happened, never less often than before.
LEMMA HappensDoes ==
    ASSUME TypeOK, NEW v \in Step, NEW cut \in BOOLEAN, Happens(v, cut)
    PROVE  /\ calls' \in [Step -> [n : 0..2, cut : BOOLEAN]]
           /\ \A x \in Step \ {v} : calls'[x] = calls[x]
           /\ calls'[v].n = IF calls[v].n = 0 THEN 1 ELSE IF v \in Webhooks THEN 2 ELSE calls[v].n
           /\ calls'[v].cut <=> (calls[v].cut \/ cut)
           /\ calls'[v].n > 0
  <1>1. calls \in [Step -> [n : 0..2, cut : BOOLEAN]] /\ calls[v].n \in 0..2 /\ calls[v].cut \in BOOLEAN
    BY DEF TypeOK
  <1>2. PICK k : k = IF calls[v].n = 0 THEN 1 ELSE IF v \in Webhooks THEN 2 ELSE calls[v].n
    OBVIOUS
  <1>3. k \in 0..2 /\ k > 0
    BY <1>1, <1>2
  <1>4. PICK c \in BOOLEAN : c <=> (calls[v].cut \/ cut)
    OBVIOUS
  <1>5. (calls[v].cut \/ cut) = c
    BY <1>1, <1>4
  <1>6. calls' = [calls EXCEPT ![v] = [n |-> k, cut |-> c]]
    BY <1>2, <1>5, Zenon DEF Happens
  <1>7. c \in BOOLEAN
    BY <1>4
  <1>8. [n |-> k, cut |-> c] \in [n : 0..2, cut : BOOLEAN]
    BY <1>3, <1>7
  <1>9. /\ calls' \in [Step -> [n : 0..2, cut : BOOLEAN]] /\ calls'[v] = [n |-> k, cut |-> c]
        /\ \A x \in Step \ {v} : calls'[x] = calls[x]
    BY <1>1, <1>6, <1>8
  <1>10. calls'[v].n = k /\ calls'[v].cut = c
    <2>1. CASE c = TRUE
      BY <1>9, <2>1
    <2>2. CASE c = FALSE
      BY <1>9, <2>2
    <2>3. QED
      BY <1>7, <2>1, <2>2
  <1>11. QED
    BY <1>2, <1>3, <1>4, <1>9, <1>10

\* The outcome is recorded where the side effect is still submitted.
LEMMA RecordDoes ==
    ASSUME TypeOK, NEW w \in Workers, WorkersSound, RecordOutcome(w)
    PROVE  /\ worker[w].at = "record" /\ worker[w].msg \in Commands /\ StepOf(w) \in Step
           /\ worker[w].seen \in {"confirmed", "failed", "unknown"}
           /\ \/ effect' = effect
              \/ effect[StepOf(w)] = "submitted" /\ effect' = [effect EXCEPT ![StepOf(w)] = worker[w].seen]
           /\ \/ /\ worker[w].seen = "confirmed"
                 /\ Becomes(w, worker[w].msg, "complete", worker[w].seen, worker[w].then)
              \/ Becomes(w, worker[w].msg, "fail", worker[w].seen, "dead")
              \/ Becomes(w, worker[w].msg, "fail", worker[w].seen, "retry")
  <1>1. /\ worker[w].at = "record" /\ worker[w].msg \in Commands
        /\ worker[w].seen \in {"confirmed", "failed", "unknown"}
    BY DEF RecordOutcome, Busy, WorkersSound, Consuming
  <1>2. StepOf(w) \in Step
    BY <1>1, Messages, WorkerParts DEF StepOf
  <1>3. \/ worker[w].seen = "confirmed" /\ Goto(w, "complete")
        \/ Failing(w, "dead")
        \/ Failing(w, "retry")
    BY DEF RecordOutcome
  <1>4. \/ effect' = effect
        \/ effect[StepOf(w)] = "submitted" /\ effect' = [effect EXCEPT ![StepOf(w)] = worker[w].seen]
    BY DEF RecordOutcome, TransitionSideEffect
  <1>5. /\ Goto(w, "complete") => Becomes(w, worker[w].msg, "complete", worker[w].seen, worker[w].then)
        /\ Failing(w, "dead") => Becomes(w, worker[w].msg, "fail", worker[w].seen, "dead")
        /\ Failing(w, "retry") => Becomes(w, worker[w].msg, "fail", worker[w].seen, "retry")
    BY FailingDoes, GotoDoes DEF Consuming
  <1>6. QED
    BY <1>1, <1>2, <1>3, <1>4, <1>5

\* The inbox row is settled by its holder, and the message with it.
LEMMA InboxDoes ==
    ASSUME TypeOK, NEW w \in Workers, WorkersSound, CompleteConsumerMessage(w) \/ FailConsumerMessage(w)
    PROVE  /\ worker[w].msg \in Commands
           /\ \/ /\ worker[w].at = "complete"
                 /\ Becomes(w, worker[w].msg, "settle", "absent", "ack")
                 /\ inbox' = [inbox EXCEPT ![worker[w].msg].st = "completed"]
              \/ /\ worker[w].at \in {"complete", "fail"}
                 /\ \/ Becomes(w, worker[w].msg, "settle", "absent", "retry")
                    \/ Becomes(w, worker[w].msg, "settle", "absent", "dead")
                 /\ \/ inbox' = inbox
                    \/ /\ inbox[worker[w].msg].st = "processing"
                       /\ inbox' = [inbox EXCEPT ![worker[w].msg].st = "failed"]
  <1>1. worker[w].at \in {"complete", "fail"} /\ worker[w].msg \in Commands
    BY DEF CompleteConsumerMessage, FailConsumerMessage, Busy, WorkersSound, Consuming
  <1>2. \A then \in {"ack", "retry", "dead"} :
          Decide(w, then) => Becomes(w, worker[w].msg, "settle", "absent", then)
    BY DecideDoes
  <1>3. CASE CompleteConsumerMessage(w)
    <2>1. worker[w].at = "complete"
      BY <1>3 DEF CompleteConsumerMessage, Busy
    <2>2. CASE HoldsInbox(w)
      <3>1. Decide(w, "ack") /\ inbox' = [inbox EXCEPT ![worker[w].msg].st = "completed"]
        BY <1>3, <2>2, Zenon DEF CompleteConsumerMessage, SettledInbox
      <3>2. QED
        BY <1>1, <1>2, <2>1, <3>1
    <2>3. CASE ~HoldsInbox(w)
      <3>1. Decide(w, "retry") /\ inbox' = inbox
        BY <1>3, <2>3, Zenon DEF CompleteConsumerMessage, SettledInbox
      <3>2. QED
        BY <1>1, <1>2, <3>1
    <2>4. QED
      BY <2>2, <2>3
  <1>4. CASE FailConsumerMessage(w)
    <2>1. worker[w].at = "fail" /\ worker[w].then \in {"retry", "dead"}
      BY <1>4, WorkerParts DEF FailConsumerMessage, Busy, WorkersSound
    <2>2. Decide(w, worker[w].then)
      BY <1>4 DEF FailConsumerMessage
    <2>3. inbox' = inbox \/ (inbox[worker[w].msg].st = "processing" /\ inbox' = [inbox EXCEPT ![worker[w].msg].st = "failed"])
      BY <1>4 DEF FailConsumerMessage, SettledInbox, HoldsInbox
    <2>4. QED
      BY <1>1, <1>2, <2>1, <2>2, <2>3
  <1>5. QED
    BY <1>3, <1>4

\* A statement that fails ends the handling, or fails the inbox row next.
LEMMA StatementDoes ==
    ASSUME TypeOK, NEW w \in Workers, WorkersSound, StatementFails(w)
    PROVE  /\ worker[w].msg \in Commands /\ worker[w].at \in {"got"} \cup Consuming
           /\ \/ Becomes(w, worker[w].msg, "settle", "absent", "retry")
              \/ Becomes(w, worker[w].msg, "settle", "absent", "dead")
              \/ Becomes(w, worker[w].msg, "fail", worker[w].seen, "retry")
              \/ Becomes(w, worker[w].msg, "fail", worker[w].seen, "dead")
  <1>1. worker[w].msg \in Commands /\ worker[w].at \in {"got"} \cup Consuming
    BY WorkerParts, Messages DEF StatementFails, Busy, WorkersSound, Consuming, Kind
  <1>2. \/ Decide(w, "retry") \/ Decide(w, "dead") \/ Failing(w, "retry") \/ Failing(w, "dead")
    BY WorkerParts DEF StatementFails, Busy, WorkersSound
  <1>3. QED
    BY <1>1, <1>2, DecideDoes, FailingDoes

\* The broker hands out a copy.
LEMMA DeliverDoes ==
    ASSUME TypeOK, NEW w \in Workers, NEW m \in Message, Deliver(w, m)
    PROVE  /\ worker[w].at = "idle" /\ queue[m] > 0 /\ Becomes(w, m, "got", "absent", "ack")
           /\ queue' \in [Message -> 0..MaxCopies] /\ \A x \in Message \ {m} : queue'[x] = queue[x]
  <1>1. /\ worker[w].at = "idle" /\ queue[m] > 0 /\ queue' = [queue EXCEPT ![m] = @ - 1]
        /\ Work(w, [IdleWorker EXCEPT !.msg = m, !.at = "got"])
    BY DEF Deliver, Busy
  <1>2. queue \in [Message -> 0..MaxCopies] /\ queue[m] \in 0..MaxCopies /\ queue[m] - 1 \in 0..MaxCopies
    BY <1>1 DEF TypeOK
  <1>3. QED
    BY <1>1, <1>2, IdleDoes

\* A worker is done with a message, or dies of it.
LEMMA SettleDoes ==
    ASSUME TypeOK, NEW w \in Workers, Settle(w) \/ CrashWorker(w)
    PROVE  /\ worker[w].at # "idle" /\ Becomes(w, Event, "idle", "absent", "ack")
           /\ \/ worker[w].at = "settle" /\ worker[w].then = "ack" /\ queue' = queue /\ dead' = dead
              \/ dead' = dead \cup {worker[w].msg} /\ queue' = queue
              \/ dead' = dead /\ \E n \in 1..2 : queue' = Enqueued(worker[w].msg, n)
  <1>1. worker[w].at # "idle" /\ Work(w, IdleWorker)
    BY DEF Settle, CrashWorker, Busy
  <1>2. Becomes(w, Event, "idle", "absent", "ack")
    BY <1>1, IdleDoes, Messages
  <1>3. CASE CrashWorker(w)
    BY <1>1, <1>2, <1>3 DEF CrashWorker
  <1>4. CASE Settle(w)
    <2>1. CASE worker[w].then = "ack"
      BY <1>1, <1>2, <1>4, <2>1 DEF Settle, Busy
    <2>2. CASE worker[w].then = "dead"
      BY <1>1, <1>2, <1>4, <2>2 DEF Settle
    <2>3. CASE worker[w].then = "retry"
      <3>1. dead' = dead /\ (queue' = Enqueued(worker[w].msg, 1) \/ queue' = Enqueued(worker[w].msg, 2))
        BY <1>4, <2>3 DEF Settle
      <3>2. QED
        BY <1>1, <1>2, <3>1
    <2>4. QED
      BY <2>1, <2>2, <2>3, WorkerParts
  <1>5. QED
    BY <1>3, <1>4

\* A plan that fails gives the claim back, unless it is lost.
LEMMA UnclaimDoes ==
    ASSUME TypeOK, NEW w \in Workers, ReleaseContactAutomationClaim(w)
    PROVE  /\ worker[w].at = "plan" /\ Becomes(w, worker[w].msg, "settle", "absent", "retry")
           /\ journey' = journey \/ journey' = [journey EXCEPT !.owner = None]
  <1>1. worker[w].at = "plan" /\ Decide(w, "retry")
    BY DEF ReleaseContactAutomationClaim, Busy
  <1>2. QED
    BY <1>1, DecideDoes DEF ReleaseContactAutomationClaim

-----------------------------------------------------------------------------
(* What the relays do.                                                      *)

\* The relay turns to the rest of its batch.
LEMMA TurnedDoes ==
    ASSUME TypeOK, NEW p \in Relays, relay' = Turned(p)
    PROVE  /\ relay' \in [Relays -> Relay] /\ relay'[p].at \in {"idle", "next"}
           /\ \A q \in Relays \ {p} : relay'[q] = relay[q]
  <1>1. PICK rest : rest = relay[p].batch \ {relay[p].msg}
    OBVIOUS
  <1>2. PICK r : r = [IdleRelay EXCEPT !.batch = rest, !.at = "next"]
    OBVIOUS
  <1>3. rest \subseteq Outboxed /\ relay \in [Relays -> Relay] /\ Event \in Outboxed
    BY <1>1, Messages DEF TypeOK, Relay
  <1>4. r = [batch |-> rest, msg |-> Event, at |-> "next"]
    BY <1>2 DEF IdleRelay
  <1>5. r \in Relay /\ r.at = "next" /\ IdleRelay \in Relay /\ IdleRelay.at = "idle"
    BY <1>3, <1>4 DEF Relay, IdleRelay
  <1>6. relay' = [relay EXCEPT ![p] = IF rest = {} THEN IdleRelay ELSE r]
    BY <1>1, <1>2, Zenon DEF Turned
  <1>7. QED
    BY <1>3, <1>5, <1>6

\* A claim takes rows that are not published.
LEMMA ClaimOutboxDoes ==
    ASSUME TypeOK, NEW p \in Relays, NEW batch \in SUBSET Outboxed, ClaimOutbox(p, batch)
    PROVE  /\ outbox' \in [Outboxed -> OutboxRow] /\ relay' \in [Relays -> Relay]
           /\ \A m \in Outboxed : outbox'[m] = outbox[m] \/ (outbox[m].st # "absent" /\ outbox'[m].st = "claimed")
           /\ relay'[p].at = "next" /\ \A q \in Relays \ {p} : relay'[q] = relay[q]
  <1>1. /\ outbox \in [Outboxed -> OutboxRow] /\ relay \in [Relays -> Relay] /\ MaxAttempts \in Nat \ {0}
    BY DEF TypeOK
  <1>2. ASSUME NEW m \in Outboxed
        PROVE  /\ outbox'[m] \in OutboxRow
               /\ outbox'[m] = outbox[m] \/ (outbox[m].st # "absent" /\ outbox'[m].st = "claimed")
    <2>1. outbox[m].attempts \in 0..MaxAttempts /\ outbox[m] \in OutboxRow
      BY <1>1 DEF OutboxRow
    <2>2. PICK k : k = IF outbox[m].attempts = MaxAttempts THEN MaxAttempts ELSE outbox[m].attempts + 1
      OBVIOUS
    <2>3. k \in 0..MaxAttempts
      BY <1>1, <2>1, <2>2
    <2>4. outbox'[m] = IF m \in batch THEN [st |-> "claimed", owner |-> p, attempts |-> k] ELSE outbox[m]
      BY <2>2, Zenon DEF ClaimOutbox
    <2>5. m \in batch => outbox[m].st # "absent"
      BY Zenon DEF ClaimOutbox, Claimable
    <2>6. [st |-> "claimed", owner |-> p, attempts |-> k] \in OutboxRow
      BY <2>3 DEF OutboxRow
    <2>7. QED
      BY <2>1, <2>4, <2>5, <2>6
  <1>3. outbox' = [m \in Outboxed |-> outbox'[m]]
    BY Zenon DEF ClaimOutbox
  <1>4. outbox' \in [Outboxed -> OutboxRow]
    BY <1>2, <1>3
  <1>5. PICK r : r = [IdleRelay EXCEPT !.batch = batch, !.at = "next"]
    OBVIOUS
  <1>6. r = [batch |-> batch, msg |-> Event, at |-> "next"] /\ Event \in Outboxed
    BY <1>5, Messages DEF IdleRelay
  <1>7. r \in Relay /\ r.at = "next"
    BY <1>6 DEF Relay
  <1>8. relay' = [relay EXCEPT ![p] = r]
    BY <1>5, Zenon DEF ClaimOutbox
  <1>9. QED
    BY <1>1, <1>2, <1>4, <1>7, <1>8

\* A message that is about to be marked has been published.
LEMMA PublishDoes ==
    ASSUME TypeOK, NEW p \in Relays, PublishMessage(p)
    PROVE  /\ relay' \in [Relays -> Relay] /\ relay'[p].at \in {"mark", "release"}
           /\ \A q \in Relays \ {p} : relay'[q] = relay[q]
           /\ \E n \in 0..2 : /\ queue' = Enqueued(relay'[p].msg, n)
                              /\ relay'[p].at = "mark" => n > 0
           /\ relay'[p].msg \in Message
  <1>1. /\ relay \in [Relays -> Relay] /\ relay[p] \in Relay /\ relay[p].batch \subseteq Outboxed
        /\ Outboxed \subseteq Message
    BY Messages DEF TypeOK, Relay
  <1>2. PICK m \in relay[p].batch :
          \/ /\ queue' = Enqueued(m, 1) \/ queue' = Enqueued(m, 2)
             /\ relay' = [relay EXCEPT ![p].msg = m, ![p].at = "mark"]
          \/ /\ \E n \in 0..2 : queue' = Enqueued(m, n)
             /\ relay' = [relay EXCEPT ![p].msg = m, ![p].at = "release"]
    BY Zenon DEF PublishMessage
  <1>3. m \in Outboxed /\ m \in Message
    BY <1>1, <1>2
  <1>4. /\ relay' \in [Relays -> Relay] /\ relay'[p].msg = m /\ relay'[p].at \in {"mark", "release"}
        /\ \A q \in Relays \ {p} : relay'[q] = relay[q]
    BY <1>1, <1>2, <1>3 DEF Relay
  <1>5. relay'[p].at = "mark" => (queue' = Enqueued(m, 1) \/ queue' = Enqueued(m, 2))
    BY <1>1, <1>2 DEF Relay
  <1>6. QED
    BY <1>2, <1>3, <1>4, <1>5

\* A row that is marked or released was claimed.
LEMMA MarkDoes ==
    ASSUME TypeOK, NEW p \in Relays, MarkOutboxPublished(p) \/ ReleaseOutbox(p)
    PROVE  /\ outbox' \in [Outboxed -> OutboxRow] /\ relay' = Turned(p) /\ relay[p].msg \in Outboxed
           /\ \A m \in Outboxed \ {relay[p].msg} : outbox'[m] = outbox[m]
           /\ \/ outbox' = outbox
              \/ /\ outbox[relay[p].msg].st = "claimed"
                 /\ \/ outbox'[relay[p].msg].st \in {"dead", "pending"}
                    \/ outbox'[relay[p].msg].st = "published" /\ relay[p].at = "mark"
  <1>1. PICK m \in Outboxed : m = relay[p].msg
    BY DEF TypeOK, Relay
  <1>2. outbox \in [Outboxed -> OutboxRow] /\ outbox[m] \in OutboxRow /\ m \in Outboxed
    BY <1>1 DEF TypeOK
  <1>3. relay' = Turned(p)
    BY DEF MarkOutboxPublished, ReleaseOutbox
  <1>4. \/ outbox' = outbox
        \/ /\ outbox[m].st = "claimed"
           /\ \/ outbox' = [outbox EXCEPT ![m].st = "published", ![m].owner = None] /\ relay[p].at = "mark"
              \/ outbox' = [outbox EXCEPT ![m].owner = None, ![m].st = "dead"]
              \/ outbox' = [outbox EXCEPT ![m].owner = None, ![m].st = "pending"]
    <2>1. CASE MarkOutboxPublished(p)
      BY <1>1, <2>1 DEF MarkOutboxPublished, Holds
    <2>2. CASE ReleaseOutbox(p)
      <3>1. CASE outbox[m].attempts = MaxAttempts
        BY <1>1, <2>2, <3>1 DEF ReleaseOutbox, Holds
      <3>2. CASE outbox[m].attempts # MaxAttempts
        BY <1>1, <2>2, <3>2 DEF ReleaseOutbox, Holds
      <3>3. QED
        BY <3>1, <3>2
    <2>3. QED
      BY <2>1, <2>2
  <1>5. /\ outbox' \in [Outboxed -> OutboxRow]
        /\ \A x \in Outboxed \ {m} : outbox'[x] = outbox[x]
    BY <1>2, <1>4 DEF OutboxRow
  <1>6. \/ outbox' = outbox
        \/ /\ outbox[m].st = "claimed"
           /\ \/ outbox'[m].st \in {"dead", "pending"}
              \/ outbox'[m].st = "published" /\ relay[p].at = "mark"
    BY <1>2, <1>4 DEF OutboxRow
  <1>7. QED
    BY <1>1, <1>3, <1>5, <1>6

-----------------------------------------------------------------------------
(* Type correctness.                                                        *)

\* One worker that becomes sound leaves the others sound.
LEMMA SoundStep ==
    ASSUME TypeOK, WorkersSound, NEW w \in Workers, NEW msg, NEW at, NEW seen, NEW then,
           Becomes(w, msg, at, seen, then),
           at \in Consuming => msg \in Commands,
           at = "plan" => msg \in {Start, Resume},
           at = "record" => seen \in {"confirmed", "failed", "unknown"},
           at = "fail" => then # "ack"
    PROVE  worker' \in [Workers -> Worker] /\ WorkersSound'
  BY DEF WorkersSound, Becomes, Others

\* An edit of the automation touches nothing but the automation.
LEMMA EditDoes ==
    ASSUME EditAutomation
    PROVE  /\ UNCHANGED <<outbox, relay, queue, worker, inbox, journey, effect, calls, dead>>
           /\ faults' = faults \/ Fault
           /\ edits' = edits \/ (edits < MaxEdits /\ edits' = edits + 1)
  <1>1. CASE Pause \/ Activate \/ Update
    BY <1>1, Zenon DEF Pause, Activate, Update, Request
  <1>2. CASE DropAutomationTrigger
    BY <1>2, Zenon DEF DropAutomationTrigger, SetTrigger
  <1>3. CASE \E step \in TriggerStep : InstallTrigger(step)
    BY <1>3, Zenon DEF InstallTrigger, SetTrigger
  <1>4. QED
    BY <1>1, <1>2, <1>3, Zenon DEF EditAutomation

\* The automation stays a record of its type.
LEMMA EditTyped ==
    ASSUME automation \in Automation, EditAutomation
    PROVE  automation' \in Automation
  <1>1. PICK live \in BOOLEAN, version \in Nat, bound \in BOOLEAN, todo \in SUBSET TriggerStep :
          automation = [live |-> live, version |-> version, bound |-> bound, todo |-> todo]
    BY DEF Automation
  <1>2. \A step \in TriggerStep : Todo(step) \in SUBSET TriggerStep /\ Did(step) \in SUBSET TriggerStep
    BY <1>1 DEF Todo, Did
  <1>3. {"drop", "install", "replace"} \subseteq TriggerStep
    BY DEF TriggerStep
  <1>4. CASE Pause \/ Activate \/ Update
    <2>1. \/ automation' = [automation EXCEPT !.live = FALSE, !.todo = Todo("drop")]
          \/ automation' = [automation EXCEPT !.live = TRUE, !.todo = Todo("install")]
          \/ automation' = [automation EXCEPT !.todo = Todo("replace")]
      BY <1>4, Zenon DEF Pause, Activate, Update, Request
    <2>2. QED
      BY <1>2, <1>3, <2>1 DEF Automation
  <1>5. CASE DropAutomationTrigger
    <2>1. \/ automation' = [automation EXCEPT !.bound = FALSE, !.todo = Did("drop")]
          \/ automation' = [automation EXCEPT !.todo = Did("drop")]
      BY <1>5, Zenon DEF DropAutomationTrigger, SetTrigger
    <2>2. QED
      BY <1>2, <1>3, <2>1 DEF Automation
  <1>6. ASSUME NEW step \in TriggerStep, InstallTrigger(step)
        PROVE  automation' \in Automation
    <2>1. \/ automation' = Bound(step)
          \/ \E b \in BOOLEAN : automation' = [automation EXCEPT !.live = b, !.todo = Did(step)]
          \/ automation' = [automation EXCEPT !.todo = Did(step)]
      <3>1. (step = "replace") \in BOOLEAN
        OBVIOUS
      <3>2. QED
        BY <1>6, <3>1, Zenon DEF InstallTrigger, SetTrigger
    <2>2. \/ automation' = [automation EXCEPT !.todo = Did(step)]
          \/ automation' = [automation EXCEPT !.bound = TRUE, !.version = automation.version + 1, !.todo = Did(step)]
          \/ \E b \in BOOLEAN : automation' = [automation EXCEPT !.live = b, !.todo = Did(step)]
      BY <2>1, Zenon DEF Bound
    <2>3. automation.version + 1 \in Nat
      BY <1>1
    <2>4. QED
      BY <1>2, <2>2, <2>3 DEF Automation
  <1>7. QED
    BY <1>4, <1>5, <1>6, Zenon DEF EditAutomation

\* The counters stay within their bounds.
LEMMA CountersTyped ==
    ASSUME TypeOK, [Next]_vars
    PROVE  faults' \in 0..MaxFaults /\ edits' \in 0..MaxEdits
  <1>1. faults \in 0..MaxFaults /\ edits \in 0..MaxEdits /\ MaxFaults \in Nat /\ MaxEdits \in Nat
    BY DEF TypeOK
  <1>2. (faults' = faults \/ Fault) /\ (edits' = edits \/ (edits < MaxEdits /\ edits' = edits + 1))
    <2>1. ASSUME NEW w \in Workers, WorkerStep(w) PROVE (faults' = faults \/ Fault) /\ edits' = edits
      <3>1. CASE Settle(w)
        <4>1. \/ worker[w].then = "ack" \/ worker[w].then = "dead" \/ worker[w].then = "retry"
          BY WorkerParts
        <4>2. edits' = edits
          BY <3>1 DEF Settle
        <4>3. faults' = faults \/ Fault
          BY <3>1, <4>1 DEF Settle
        <4>4. QED
          BY <4>2, <4>3
      <3>2. CASE ProcessRuleEvent(w) \/ CommitContactAutomationState(w)
        BY <3>2, Zenon DEF ProcessRuleEvent, CommitContactAutomationState
      <3>3. CASE ClaimContactAutomation(w) \/ AcquireInbox(w)
        <4>1. /\ edits' = edits
              /\ \/ faults' = faults \/ Fault \/ LeaseExpires(Planning(journey.owner))
                 \/ LeaseExpires(inbox[worker[w].msg].st = "processing" /\ Delivering(worker[w].msg))
          BY <3>3, Zenon DEF ClaimContactAutomation, AcquireInbox
        <4>2. QED
          BY <4>1 DEF LeaseExpires
      <3>4. CASE InboxRefused(w) \/ GetSideEffect(w) \/ Submit(w) \/ RecordOutcome(w)
        BY <3>4, Zenon DEF InboxRefused, GetSideEffect, Submit, RecordOutcome
      <3>5. CASE ExecuteJourneySideEffect(w) \/ CompleteConsumerMessage(w) \/ FailConsumerMessage(w)
        BY <3>5, Zenon DEF ExecuteJourneySideEffect, CompleteConsumerMessage, FailConsumerMessage
      <3>6. QED
        BY <2>1, <3>1, <3>2, <3>3, <3>4, <3>5, Zenon DEF WorkerStep
    <2>2. ASSUME NEW p \in Relays, NEW batch \in SUBSET Outboxed, ClaimOutbox(p, batch)
          PROVE  (faults' = faults \/ Fault) /\ edits' = edits
      <3>1. edits' = edits /\ LeaseExpires(\E m \in batch : Relaying(m))
        BY <2>2, Zenon DEF ClaimOutbox
      <3>2. QED
        BY <3>1 DEF LeaseExpires
    <2>3. ASSUME NEW p \in Relays, RelayStep(p) \/ CrashRelay(p)
          PROVE  (faults' = faults \/ Fault) /\ edits' = edits
      BY <2>3, Zenon DEF RelayStep, CrashRelay, PublishMessage, MarkOutboxPublished, ReleaseOutbox
    <2>4. ASSUME NEW w \in Workers, \/ ReleaseContactAutomationClaim(w) \/ StatementFails(w) \/ CrashWorker(w)
                                    \/ \E m \in Message : Deliver(w, m)
          PROVE  (faults' = faults \/ Fault) /\ edits' = edits
      BY <2>4, Zenon DEF ReleaseContactAutomationClaim, StatementFails, CrashWorker, Deliver
    <2>5. CASE AppendEvent \/ ScheduleResume \/ ExitJourney \/ EditAutomation \/ UNCHANGED vars
      BY <2>5, EditDoes, Zenon DEF AppendEvent, ScheduleResume, ExitJourney, vars
    <2>6. QED
      BY <2>1, <2>2, <2>3, <2>4, <2>5, Zenon DEF Next
  <1>3. QED
    BY <1>1, <1>2 DEF Fault

\* Everything but the counters after a step.
RowsTyped ==
    /\ outbox \in [Outboxed -> OutboxRow]
    /\ inbox \in [Inboxed -> InboxRow]
    /\ journey \in [st : {"absent", "active", "completed", "exited"}, ver : 0..Steps,
                     owner : Workers \cup {None}, of : Nat]
    /\ JourneySound
    /\ effect \in [Step -> Status]
    /\ calls \in [Step -> [n : 0..2, cut : BOOLEAN]]

\* The steps of the workers keep the rows typed.
LEMMA WorkerRowsTyped ==
    ASSUME WellFormed, NEW w \in Workers, WorkerStep(w)
    PROVE  RowsTyped' /\ WorkersSound' /\ worker' \in [Workers -> Worker]
  <1>1. /\ TypeOK /\ WorkersSound /\ JourneySound /\ RowsTyped
        /\ outbox \in [Outboxed -> OutboxRow] /\ inbox \in [Inboxed -> InboxRow]
        /\ effect \in [Step -> Status] /\ calls \in [Step -> [n : 0..2, cut : BOOLEAN]]
        /\ journey \in [st : {"absent", "active", "completed", "exited"}, ver : 0..Steps,
                         owner : Workers \cup {None}, of : Nat]
        /\ worker[w].at \in Consuming => worker[w].msg \in Commands
        /\ Commands \subseteq Inboxed
    BY Messages DEF WellFormed, TypeOK, RowsTyped, WorkersSound
  <1>2. CASE Settle(w)
    <2>1. UNCHANGED <<outbox, inbox, journey, effect, calls>>
      BY <1>2, Zenon DEF Settle
    <2>2. Becomes(w, Event, "idle", "absent", "ack")
      BY <1>1, <1>2, SettleDoes
    <2>3. QED
      BY <1>1, <2>1, <2>2, SoundStep DEF RowsTyped, JourneySound, Consuming
  <1>3. CASE ProcessRuleEvent(w)
    <2>1. UNCHANGED <<effect, calls>>
      BY <1>3, Zenon DEF ProcessRuleEvent
    <2>2. \E then \in {"ack", "retry"} : Becomes(w, Event, "settle", "absent", then)
      BY <1>1, <1>3, RuleDoes
    <2>3. WorkersSound' /\ worker' \in [Workers -> Worker]
      BY <1>1, <2>2, SoundStep DEF Consuming
    <2>4. inbox' \in [Inboxed -> InboxRow]
      <3>1. \/ inbox' = inbox
            \/ inbox' = [inbox EXCEPT ![Event].st = "completed"]
            \/ inbox' = [inbox EXCEPT ![Event].st = "failed"]
        BY <1>1, <1>3, RuleDoes, Zenon
      <3>2. Event \in Inboxed
        BY Messages
      <3>3. QED
        BY <1>1, <3>1, <3>2 DEF InboxRow
    <2>5. outbox' \in [Outboxed -> OutboxRow]
      <3>1. outbox' = outbox \/ outbox' = Inserted(Start)
        BY <1>1, <1>3, RuleDoes, Zenon
      <3>2. QED
        BY <1>1, <3>1, InsertedDoes, Messages
    <2>6. /\ journey' \in [st : {"absent", "active", "completed", "exited"}, ver : 0..Steps,
                            owner : Workers \cup {None}, of : Nat]
          /\ JourneySound'
      <3>1. \/ journey' = journey
            \/ journey.st = "absent" /\ journey' = [journey EXCEPT !.st = "active", !.of = automation.version]
        BY <1>1, <1>3, RuleDoes
      <3>2. automation.version \in Nat
        BY <1>1 DEF TypeOK, Automation
      <3>3. QED
        BY <1>1, <3>1, <3>2 DEF JourneySound
    <2>7. QED
      BY <1>1, <2>1, <2>3, <2>4, <2>5, <2>6 DEF RowsTyped
  <1>4. CASE ClaimContactAutomation(w)
    <2>1. UNCHANGED <<outbox, inbox, effect, calls>>
      BY <1>4, Zenon DEF ClaimContactAutomation
    <2>2. \/ /\ Becomes(w, worker[w].msg, "plan", worker[w].seen, worker[w].then)
             /\ worker[w].msg \in {Start, Resume}
          \/ \E then \in {"ack", "retry"} : Becomes(w, worker[w].msg, "settle", "absent", then)
      BY <1>1, <1>4, ClaimDoes
    <2>3. WorkersSound' /\ worker' \in [Workers -> Worker]
      BY <1>1, <2>2, SoundStep DEF Consuming
    <2>4. journey' = journey \/ (journey.st = "active" /\ journey' = [journey EXCEPT !.owner = w])
      BY <1>1, <1>4, ClaimDoes
    <2>5. /\ journey' \in [st : {"absent", "active", "completed", "exited"}, ver : 0..Steps,
                            owner : Workers \cup {None}, of : Nat]
          /\ JourneySound'
      BY <1>1, <2>4 DEF JourneySound
    <2>6. QED
      BY <1>1, <2>1, <2>3, <2>5 DEF RowsTyped, JourneySound
  <1>5. CASE CommitContactAutomationState(w)
    <2>1. UNCHANGED <<inbox, calls>>
      BY <1>5, Zenon DEF CommitContactAutomationState
    <2>2. Becomes(w, worker[w].msg, "settle", "absent", "ack")
      BY <1>1, <1>5, CommitDoes
    <2>3. WorkersSound' /\ worker' \in [Workers -> Worker]
      BY <1>1, <2>2, SoundStep DEF Consuming
    <2>4. CASE UNCHANGED <<journey, effect, outbox>>
      BY <1>1, <2>1, <2>3, <2>4 DEF RowsTyped, JourneySound
    <2>5. CASE /\ journey.owner = w
               /\ journey' = [journey EXCEPT !.st = IF journey.ver + 1 = Steps THEN "completed" ELSE "active",
                                        !.ver = journey.ver + 1, !.owner = None]
               /\ \/ /\ effect' = [effect EXCEPT ![journey.ver + 1] = IF @ = "absent" THEN "reserved" ELSE @]
                     /\ outbox' = Inserted(Effect(journey.ver + 1))
                  \/ effect' = effect /\ outbox' = outbox
      <3>1. journey.ver \in 0..Steps /\ journey.ver < Steps
        BY <1>1, <2>5 DEF JourneySound
      <3>2. PICK v : v = journey.ver + 1
        OBVIOUS
      <3>3. v \in 1..Steps /\ v \in Step /\ v \in 0..Steps
        BY <3>1, <3>2 DEF Step
      <3>4. /\ effect' \in [Step -> Status] /\ outbox' \in [Outboxed -> OutboxRow]
        <4>1. Effect(v) \in Outboxed
          BY <3>3, Messages DEF Inboxed
        <4>2. effect[v] \in Status /\ (IF effect[v] = "absent" THEN "reserved" ELSE effect[v]) \in Status
          BY <1>1, <3>3 DEF Status
        <4>3. \/ effect' = [effect EXCEPT ![v] = IF effect[v] = "absent" THEN "reserved" ELSE effect[v]]
              \/ effect' = effect
          BY <2>5, <3>2, Zenon
        <4>4. effect' \in [Step -> Status]
          BY <1>1, <4>2, <4>3
        <4>5. outbox' \in [Outboxed -> OutboxRow]
          BY <1>1, <2>5, <3>2, <4>1, InsertedDoes
        <4>6. QED
          BY <4>4, <4>5
      <3>5. PICK st \in {"completed", "active"} : st = IF v = Steps THEN "completed" ELSE "active"
        OBVIOUS
      <3>6. journey' = [journey EXCEPT !.st = st, !.ver = v, !.owner = None] /\ st \in {"completed", "active"}
            /\ (st = "active" => v # Steps)
        BY <2>5, <3>2, <3>5, Zenon
      <3>7. /\ journey' \in [st : {"absent", "active", "completed", "exited"}, ver : 0..Steps,
                              owner : Workers \cup {None}, of : Nat]
            /\ journey'.st = st /\ journey'.ver = v /\ journey'.owner = None
        BY <1>1, <3>3, <3>6
      <3>8. JourneySound'
        BY <3>3, <3>6, <3>7 DEF JourneySound
      <3>9. QED
        BY <1>1, <2>1, <2>3, <3>4, <3>7, <3>8 DEF RowsTyped
    <2>6. QED
      BY <1>1, <1>5, <2>4, <2>5, CommitDoes
  <1>6. CASE AcquireInbox(w)
    <2>1. UNCHANGED <<outbox, journey, effect, calls>>
      BY <1>6, Zenon DEF AcquireInbox
    <2>2. /\ Becomes(w, worker[w].msg, "read", worker[w].seen, worker[w].then) /\ worker[w].msg \in Commands
          /\ inbox' = [inbox EXCEPT ![worker[w].msg] = [st |-> "processing", owner |-> w]]
      BY <1>1, <1>6, AcquireDoes
    <2>3. inbox' \in [Inboxed -> InboxRow]
      <3>1. [st |-> "processing", owner |-> w] \in InboxRow
        BY DEF InboxRow
      <3>2. QED
        BY <1>1, <2>2, <3>1
    <2>4. WorkersSound' /\ worker' \in [Workers -> Worker]
      BY <1>1, <2>2, SoundStep DEF Consuming
    <2>5. QED
      BY <1>1, <2>1, <2>3, <2>4 DEF RowsTyped, JourneySound
  <1>7. CASE InboxRefused(w) \/ GetSideEffect(w)
    <2>1. UNCHANGED <<outbox, inbox, journey, effect, calls>>
      BY <1>7, Zenon DEF InboxRefused, GetSideEffect
    <2>2. \/ \E then \in {"ack", "retry"} : Becomes(w, worker[w].msg, "settle", "absent", then)
          \/ Becomes(w, worker[w].msg, "act", effect[StepOf(w)], worker[w].then) /\ worker[w].msg \in Commands
      BY <1>1, <1>7, RefusedDoes, ReadDoes
    <2>3. WorkersSound' /\ worker' \in [Workers -> Worker]
      BY <1>1, <2>2, SoundStep DEF Consuming
    <2>4. QED
      BY <1>1, <2>1, <2>3 DEF RowsTyped, JourneySound
  <1>8. CASE Submit(w)
    <2>1. UNCHANGED <<outbox, inbox, journey, calls>>
      BY <1>8, Zenon DEF Submit
    <2>2. worker[w].msg \in Commands
      BY <1>1, <1>8, SubmitDoes
    <2>3. \/ \E at \in {"complete", "call"} : Becomes(w, worker[w].msg, at, worker[w].seen, worker[w].then)
          \/ \E then \in {"retry", "dead"} : Becomes(w, worker[w].msg, "fail", worker[w].seen, then)
      BY <1>1, <1>8, SubmitDoes
    <2>4. WorkersSound' /\ worker' \in [Workers -> Worker]
      BY <1>1, <2>2, <2>3, SoundStep DEF Consuming
    <2>5. effect' \in [Step -> Status]
      BY <1>1, <1>8, SubmitDoes DEF Status
    <2>6. QED
      BY <1>1, <2>1, <2>4, <2>5 DEF RowsTyped, JourneySound
  <1>9. CASE ExecuteJourneySideEffect(w)
    <2>1. UNCHANGED <<outbox, inbox, journey, effect>>
      BY <1>9, Zenon DEF ExecuteJourneySideEffect
    <2>2. /\ worker[w].msg \in Commands /\ StepOf(w) \in Step
          /\ \E seen \in {"confirmed", "failed", "unknown"} : Becomes(w, worker[w].msg, "record", seen, worker[w].then)
          /\ calls' = calls \/ Happens(StepOf(w), TRUE) \/ Happens(StepOf(w), FALSE)
      BY <1>1, <1>9, CallDoes DEF OutcomeOfLoss
    <2>3. WorkersSound' /\ worker' \in [Workers -> Worker]
      BY <1>1, <2>2, SoundStep DEF Consuming
    <2>4. calls' \in [Step -> [n : 0..2, cut : BOOLEAN]]
      BY <1>1, <2>2, HappensDoes
    <2>5. QED
      BY <1>1, <2>1, <2>3, <2>4 DEF RowsTyped, JourneySound
  <1>10. CASE RecordOutcome(w)
    <2>1. UNCHANGED <<outbox, inbox, journey, calls>>
      BY <1>10, Zenon DEF RecordOutcome
    <2>2. /\ worker[w].msg \in Commands /\ worker[w].seen \in Status
          /\ \/ Becomes(w, worker[w].msg, "complete", worker[w].seen, worker[w].then)
             \/ \E then \in {"retry", "dead"} : Becomes(w, worker[w].msg, "fail", worker[w].seen, then)
          /\ effect' = effect \/ effect' = [effect EXCEPT ![StepOf(w)] = worker[w].seen]
      BY <1>1, <1>10, RecordDoes, WorkerParts
    <2>3. WorkersSound' /\ worker' \in [Workers -> Worker]
      BY <1>1, <2>2, SoundStep DEF Consuming
    <2>4. effect' \in [Step -> Status]
      BY <1>1, <2>2
    <2>5. QED
      BY <1>1, <2>1, <2>3, <2>4 DEF RowsTyped, JourneySound
  <1>11. CASE CompleteConsumerMessage(w) \/ FailConsumerMessage(w)
    <2>1. UNCHANGED <<outbox, journey, effect, calls>>
      BY <1>11, Zenon DEF CompleteConsumerMessage, FailConsumerMessage
    <2>2. /\ \E then \in {"ack", "retry", "dead"} : Becomes(w, worker[w].msg, "settle", "absent", then)
          /\ inbox' = inbox \/ \E st \in {"completed", "failed"} : inbox' = [inbox EXCEPT ![worker[w].msg].st = st]
      BY <1>1, <1>11, InboxDoes
    <2>3. WorkersSound' /\ worker' \in [Workers -> Worker]
      BY <1>1, <2>2, SoundStep DEF Consuming
    <2>4. inbox' \in [Inboxed -> InboxRow]
      BY <1>1, <2>2 DEF InboxRow
    <2>5. QED
      BY <1>1, <2>1, <2>3, <2>4 DEF RowsTyped, JourneySound
  <1>12. QED
    BY <1>2, <1>3, <1>4, <1>5, <1>6, <1>7, <1>8, <1>9, <1>10, <1>11, Zenon DEF WorkerStep

\* Every step keeps rows, relays, queues and workers well formed.
LEMMA TypeStep == WellFormed /\ [Next]_vars => WellFormed'
  <1> SUFFICES ASSUME WellFormed, [Next]_vars PROVE WellFormed'
    OBVIOUS
  <1> DEFINE Rest == /\ relay' \in [Relays -> Relay] /\ queue' \in [Message -> 0..MaxCopies]
                     /\ worker' \in [Workers -> Worker] /\ WorkersSound'
                     /\ automation' \in Automation /\ dead' \subseteq Message
  <1>1. /\ TypeOK /\ WorkersSound /\ JourneySound /\ RowsTyped
        /\ relay \in [Relays -> Relay] /\ queue \in [Message -> 0..MaxCopies]
        /\ worker \in [Workers -> Worker] /\ automation \in Automation /\ dead \subseteq Message
    BY DEF WellFormed, TypeOK, RowsTyped
  <1>2. SUFFICES RowsTyped' /\ Rest
    BY <1>1, CountersTyped DEF WellFormed, TypeOK, RowsTyped
  <1>3. CASE AppendEvent
    <2>1. /\ outbox' = Inserted(Event)
          /\ UNCHANGED <<relay, queue, worker, inbox, journey, automation, effect, calls, dead>>
      BY <1>3, Zenon DEF AppendEvent
    <2>2. outbox' \in [Outboxed -> OutboxRow]
      BY <1>1, <2>1, Messages, InsertedDoes
    <2>3. QED
      BY <1>1, <2>1, <2>2 DEF RowsTyped, JourneySound, WorkersSound
  <1>4. ASSUME NEW p \in Relays, NEW batch \in SUBSET Outboxed, ClaimOutbox(p, batch) PROVE RowsTyped' /\ Rest
    <2>1. UNCHANGED <<queue, worker, inbox, journey, automation, effect, calls, dead>>
      BY <1>4, Zenon DEF ClaimOutbox
    <2>2. QED
      BY <1>1, <1>4, <2>1, ClaimOutboxDoes DEF RowsTyped, JourneySound, WorkersSound
  <1>5. ASSUME NEW p \in Relays, RelayStep(p) \/ CrashRelay(p) PROVE RowsTyped' /\ Rest
    <2>1. UNCHANGED <<worker, inbox, journey, automation, effect, calls, dead>>
      BY <1>5, Zenon DEF RelayStep, CrashRelay, PublishMessage, MarkOutboxPublished, ReleaseOutbox
    <2>2. CASE PublishMessage(p)
      <3>1. outbox' = outbox
        BY <2>2, Zenon DEF PublishMessage
      <3>2. relay' \in [Relays -> Relay] /\ queue' \in [Message -> 0..MaxCopies]
        <4>1. /\ relay' \in [Relays -> Relay] /\ relay'[p].msg \in Message
              /\ \E n \in 0..2 : queue' = Enqueued(relay'[p].msg, n)
          BY <1>1, <2>2, PublishDoes, Zenon
        <4>2. QED
          BY <1>1, <4>1, EnqueuedDoes
      <3>3. RowsTyped' /\ JourneySound' /\ WorkersSound'
        BY <1>1, <2>1, <3>1 DEF RowsTyped, JourneySound, WorkersSound
      <3>4. QED
        BY <1>1, <2>1, <3>2, <3>3
    <2>3. CASE MarkOutboxPublished(p) \/ ReleaseOutbox(p)
      <3>1. queue' = queue
        BY <2>3, Zenon DEF MarkOutboxPublished, ReleaseOutbox
      <3>2. QED
        BY <1>1, <2>1, <2>3, <3>1, MarkDoes, TurnedDoes DEF RowsTyped, JourneySound, WorkersSound
    <2>4. CASE CrashRelay(p)
      <3>1. outbox' = outbox /\ queue' = queue /\ relay' = [relay EXCEPT ![p] = IdleRelay]
        BY <2>4, Zenon DEF CrashRelay
      <3>2. IdleRelay \in Relay
        BY Messages DEF Relay, IdleRelay
      <3>3. QED
        BY <1>1, <2>1, <3>1, <3>2 DEF RowsTyped, JourneySound, WorkersSound
    <2>5. QED
      BY <1>5, <2>2, <2>3, <2>4, Zenon DEF RelayStep
  <1>6. ASSUME NEW w \in Workers, WorkerStep(w) PROVE RowsTyped' /\ Rest
    <2>1. UNCHANGED <<relay, automation>>
      BY <1>6, Zenon DEF WorkerStep, Settle, ProcessRuleEvent, ClaimContactAutomation, CommitContactAutomationState,
           AcquireInbox, InboxRefused, GetSideEffect, Submit, ExecuteJourneySideEffect, RecordOutcome,
           CompleteConsumerMessage, FailConsumerMessage
    <2>2. Settle(w) \/ UNCHANGED <<queue, dead>>
      BY <1>6, Zenon DEF WorkerStep, ProcessRuleEvent, ClaimContactAutomation, CommitContactAutomationState,
           AcquireInbox, InboxRefused, GetSideEffect, Submit, ExecuteJourneySideEffect, RecordOutcome,
           CompleteConsumerMessage, FailConsumerMessage
    <2>3. queue' \in [Message -> 0..MaxCopies] /\ dead' \subseteq Message
      BY <1>1, <2>2, SettleDoes, EnqueuedDoes, WorkerParts
    <2>4. QED
      BY <1>1, <1>6, <2>1, <2>3, WorkerRowsTyped
  <1>7. ASSUME NEW w \in Workers, StatementFails(w) \/ CrashWorker(w) \/ \E m \in Message : Deliver(w, m)
        PROVE  RowsTyped' /\ Rest
    <2>1. UNCHANGED <<outbox, relay, inbox, journey, automation, effect, calls, dead>>
      BY <1>7, Zenon DEF StatementFails, CrashWorker, Deliver
    <2>2. CASE StatementFails(w)
      <3>1. queue' = queue
        BY <2>2, Zenon DEF StatementFails
      <3>2. worker[w].msg \in Commands
        BY <1>1, <2>2, StatementDoes
      <3>3. \/ \E then \in {"retry", "dead"} : Becomes(w, worker[w].msg, "settle", "absent", then)
            \/ \E then \in {"retry", "dead"} : Becomes(w, worker[w].msg, "fail", worker[w].seen, then)
        BY <1>1, <2>2, StatementDoes
      <3>4. WorkersSound' /\ worker' \in [Workers -> Worker]
        BY <1>1, <3>2, <3>3, SoundStep DEF Consuming
      <3>5. QED
        BY <1>1, <2>1, <3>1, <3>4 DEF RowsTyped, JourneySound
    <2>3. CASE CrashWorker(w)
      <3>1. Becomes(w, Event, "idle", "absent", "ack") /\ queue' \in [Message -> 0..MaxCopies]
        BY <1>1, <2>3, SettleDoes, EnqueuedDoes, WorkerParts DEF CrashWorker
      <3>2. WorkersSound' /\ worker' \in [Workers -> Worker]
        BY <1>1, <3>1, SoundStep DEF Consuming
      <3>3. QED
        BY <1>1, <2>1, <3>1, <3>2 DEF RowsTyped, JourneySound
    <2>4. ASSUME NEW m \in Message, Deliver(w, m) PROVE RowsTyped' /\ Rest
      <3>1. Becomes(w, m, "got", "absent", "ack") /\ queue' \in [Message -> 0..MaxCopies]
        BY <1>1, <2>4, DeliverDoes
      <3>2. WorkersSound' /\ worker' \in [Workers -> Worker]
        BY <1>1, <3>1, SoundStep DEF Consuming
      <3>3. QED
        BY <1>1, <2>1, <3>1, <3>2 DEF RowsTyped, JourneySound
    <2>5. QED
      BY <1>7, <2>2, <2>3, <2>4
  <1>8. ASSUME NEW w \in Workers, ReleaseContactAutomationClaim(w) PROVE RowsTyped' /\ Rest
    <2>1. UNCHANGED <<outbox, relay, queue, inbox, automation, effect, calls, dead>>
      BY <1>8, Zenon DEF ReleaseContactAutomationClaim
    <2>2. /\ Becomes(w, worker[w].msg, "settle", "absent", "retry")
          /\ journey' = journey \/ journey' = [journey EXCEPT !.owner = None]
      BY <1>1, <1>8, UnclaimDoes
    <2>3. WorkersSound' /\ worker' \in [Workers -> Worker]
      BY <1>1, <2>2, SoundStep DEF Consuming
    <2>4. QED
      BY <1>1, <2>1, <2>2, <2>3 DEF RowsTyped, JourneySound
  <1>9. CASE ScheduleResume
    <2>1. queue' = Enqueued(Resume, 1) /\ UNCHANGED <<outbox, relay, worker, inbox, journey, automation, effect, calls, dead>>
      BY <1>9, Zenon DEF ScheduleResume
    <2>2. queue' \in [Message -> 0..MaxCopies]
      BY <1>1, <2>1, Messages, EnqueuedDoes
    <2>3. QED
      BY <1>1, <2>1, <2>2 DEF RowsTyped, JourneySound, WorkersSound
  <1>10. CASE ExitJourney
    <2>1. /\ journey.st = "active" /\ journey' = [journey EXCEPT !.st = "exited"]
          /\ UNCHANGED <<outbox, relay, queue, worker, inbox, automation, effect, calls, dead>>
      BY <1>10, Zenon DEF ExitJourney
    <2>2. QED
      BY <1>1, <2>1 DEF RowsTyped, JourneySound, WorkersSound
  <1>11. CASE EditAutomation \/ UNCHANGED vars
    <2>1. /\ automation' \in Automation
          /\ UNCHANGED <<outbox, relay, queue, worker, inbox, journey, effect, calls, dead>>
      BY <1>1, <1>11, EditDoes, EditTyped, Zenon DEF TypeOK, vars
    <2>2. QED
      BY <1>1, <2>1 DEF RowsTyped, JourneySound, WorkersSound
  <1>12. QED
    BY <1>3, <1>4, <1>5, <1>6, <1>7, <1>8, <1>9, <1>10, <1>11, Zenon DEF Next

\* At the start nothing has been appended and nobody works.
LEMMA InitWellFormed == Init => WellFormed
  <1> SUFFICES ASSUME Init PROVE WellFormed
    OBVIOUS
  <1>1. [NewRow EXCEPT !.st = "absent"] \in OutboxRow
    BY DEF NewRow, OutboxRow
  <1>2. IdleRelay \in Relay /\ IdleWorker \in Worker
    BY Messages DEF IdleRelay, Relay, IdleWorker, Worker, Status
  <1>3. [st |-> "absent", owner |-> None] \in InboxRow
    BY DEF InboxRow
  <1>4. [n |-> 0, cut |-> FALSE] \in [n : 0..2, cut : BOOLEAN]
    OBVIOUS
  <1>5. [live |-> TRUE, version |-> 1, bound |-> TRUE, todo |-> {}] \in Automation
    BY DEF Automation
  <1>6. TypeOK
    BY <1>1, <1>2, <1>3, <1>4, <1>5 DEF Init, TypeOK, Status
  <1>7. WorkersSound /\ JourneySound
    BY DEF Init, WorkersSound, JourneySound, IdleWorker, Consuming
  <1>8. QED
    BY <1>6, <1>7 DEF WellFormed

\* Rows, queues and workers hold values of their types, for every bound.
THEOREM RealtimeTypeCorrect == Spec => []TypeOK
  <1>1. WellFormed => TypeOK
    BY DEF WellFormed
  <1>2. QED
    BY <1>1, InitWellFormed, TypeStep, PTL DEF Spec

-----------------------------------------------------------------------------
(* Nothing is lost.                                                         *)

\* A message that has been handed over is consumed, in the broker, with a worker or given up.
Waits(m) ==
    \/ inbox[m].st = "completed"
    \/ queue[m] > 0 \/ m \in dead
    \/ \E w \in Workers : ~Busy(w, "idle") /\ worker[w].msg = m

\* Only what has been consumed is acknowledged.
AcksAreEarned ==
    \A w \in Workers :
      worker[w].at = "settle" /\ worker[w].then = "ack" /\ worker[w].msg \in Inboxed
        => inbox[worker[w].msg].st = "completed"

\* An outbox row is marked, or about to be, only after its message was handed over.
MarksAreTrue ==
    /\ \A m \in Inboxed : outbox[m].st = "published" => Waits(m)
    /\ \A p \in Relays : relay[p].at = "mark" /\ relay[p].msg \in Inboxed => Waits(relay[p].msg)

HandedOver == AcksAreEarned /\ MarksAreTrue

\* The steps of a worker that go on with its message.
Handling(w) ==
    \/ ProcessRuleEvent(w) \/ ClaimContactAutomation(w) \/ CommitContactAutomationState(w)
    \/ AcquireInbox(w) \/ InboxRefused(w) \/ GetSideEffect(w) \/ Submit(w)
    \/ ExecuteJourneySideEffect(w) \/ RecordOutcome(w)
    \/ CompleteConsumerMessage(w) \/ FailConsumerMessage(w)
    \/ ReleaseContactAutomationClaim(w) \/ StatementFails(w)

\* Handling a message keeps hold of it, never undoes a completion, and acknowledges only what
\* is completed.
LEMMA HandlingKeeps ==
    ASSUME WellFormed, NEW w \in Workers, Handling(w)
    PROVE  /\ queue' = queue /\ dead' = dead /\ relay' = relay
           /\ \A m \in Inboxed : outbox'[m].st = "published" => outbox[m].st = "published"
           /\ Others(w) /\ worker'[w].msg = worker[w].msg /\ worker'[w].at # "idle"
           /\ \A m \in Inboxed : inbox[m].st = "completed" => inbox'[m].st = "completed"
           /\ worker'[w].at = "settle" /\ worker'[w].then = "ack" /\ worker[w].msg \in Inboxed
                => inbox'[worker[w].msg].st = "completed"
  <1>1. TypeOK /\ WorkersSound /\ inbox \in [Inboxed -> InboxRow] /\ outbox \in [Outboxed -> OutboxRow]
        /\ Commands \subseteq Inboxed /\ Inboxed \subseteq Outboxed /\ Event \in Inboxed
        /\ Start \notin Inboxed /\ Resume \notin Inboxed
    BY Messages DEF WellFormed, TypeOK
  <1>2. queue' = queue /\ dead' = dead /\ relay' = relay
    BY Zenon DEF Handling, ProcessRuleEvent, ClaimContactAutomation, CommitContactAutomationState,
         AcquireInbox, InboxRefused, GetSideEffect, Submit, ExecuteJourneySideEffect, RecordOutcome,
         CompleteConsumerMessage, FailConsumerMessage, ReleaseContactAutomationClaim, StatementFails
  <1>3. \A m \in Inboxed : outbox'[m].st = "published" => outbox[m].st = "published"
    <2>1. CASE outbox' = outbox
      BY <2>1
    <2>2. CASE ProcessRuleEvent(w) \/ (CommitContactAutomationState(w) /\ outbox' # outbox)
      <3>1. \E x \in Outboxed : outbox' = Inserted(x) \/ outbox' = outbox
        <4>1. CASE ProcessRuleEvent(w)
          BY <1>1, <4>1, RuleDoes, Messages
        <4>2. CASE CommitContactAutomationState(w) /\ outbox' # outbox
          <5>1. outbox' = Inserted(Effect(journey.ver + 1)) /\ journey.owner = w
            BY <1>1, <4>2, CommitDoes
          <5>2. journey.ver + 1 \in Step
            BY <1>1, <5>1 DEF WellFormed, TypeOK, JourneySound, Step
          <5>3. QED
            BY <1>1, <5>1, <5>2, Messages
        <4>3. QED
          BY <2>2, <4>1, <4>2
      <3>2. QED
        BY <1>1, <3>1, InsertedDoes
    <2>3. QED
      BY <2>1, <2>2, Zenon DEF Handling, ClaimContactAutomation, 
         AcquireInbox, InboxRefused, GetSideEffect, Submit, ExecuteJourneySideEffect, RecordOutcome,
         CompleteConsumerMessage, FailConsumerMessage, ReleaseContactAutomationClaim, StatementFails
  <1> DEFINE Kept == /\ Others(w) /\ worker'[w].msg = worker[w].msg /\ worker'[w].at # "idle"
                     /\ \A m \in Inboxed : inbox[m].st = "completed" => inbox'[m].st = "completed"
                     /\ worker'[w].at = "settle" /\ worker'[w].then = "ack" /\ worker[w].msg \in Inboxed
                          => inbox'[worker[w].msg].st = "completed"
  <1>4. CASE ProcessRuleEvent(w)
    <2>1. Kept
      BY <1>1, <1>4, RuleDoes DEF Becomes, InboxRow
    <2>2. QED
      BY <1>2, <1>3, <2>1
  <1>5. CASE ClaimContactAutomation(w)
    <2>1. inbox' = inbox
      BY <1>5, Zenon DEF ClaimContactAutomation
    <2>2. Kept
      BY <1>1, <1>5, <2>1, ClaimDoes DEF Becomes
    <2>3. QED
      BY <1>2, <1>3, <2>2
  <1>6. CASE CommitContactAutomationState(w) \/ ReleaseContactAutomationClaim(w)
    <2>1. inbox' = inbox
      BY <1>6, Zenon DEF CommitContactAutomationState, ReleaseContactAutomationClaim
    <2>2. worker[w].at = "plan" /\ \E then \in {"ack", "retry"} : Becomes(w, worker[w].msg, "settle", "absent", then)
      BY <1>1, <1>6, CommitDoes, UnclaimDoes
    <2>3. worker[w].msg \notin Inboxed
      BY <1>1, <2>2 DEF WorkersSound
    <2>4. QED
      BY <1>2, <1>3, <2>1, <2>2, <2>3 DEF Becomes
  <1>7. CASE AcquireInbox(w)
    BY <1>1, <1>2, <1>3, <1>7, AcquireDoes DEF Becomes
  <1>8. CASE InboxRefused(w) \/ GetSideEffect(w)
    <2>1. inbox' = inbox
      BY <1>8, Zenon DEF InboxRefused, GetSideEffect
    <2>2. QED
      BY <1>1, <1>2, <1>3, <1>8, <2>1, RefusedDoes, ReadDoes DEF Becomes
  <1>9. CASE Submit(w) \/ ExecuteJourneySideEffect(w) \/ RecordOutcome(w)
    <2>1. inbox' = inbox
      BY <1>9, Zenon DEF Submit, ExecuteJourneySideEffect, RecordOutcome
    <2>2. \E at \in Consuming, seen \in Status, then \in {"ack", "retry", "dead"} :
            Becomes(w, worker[w].msg, at, seen, then)
      <3>1. CASE Submit(w)
        BY <1>1, <3>1, SubmitDoes, WorkerParts DEF Consuming, Status
      <3>2. CASE ExecuteJourneySideEffect(w)
        BY <1>1, <3>2, CallDoes, WorkerParts DEF Consuming, Status, OutcomeOfLoss
      <3>3. CASE RecordOutcome(w)
        BY <1>1, <3>3, RecordDoes, WorkerParts DEF Consuming, Status
      <3>4. QED
        BY <1>9, <3>1, <3>2, <3>3
    <2>3. QED
      BY <1>1, <1>2, <1>3, <2>1, <2>2 DEF Becomes, Consuming
  <1>10. CASE CompleteConsumerMessage(w) \/ FailConsumerMessage(w)
    <2>1. PICK m \in Inboxed : m = worker[w].msg
      BY <1>1, <1>10, InboxDoes
    <2>2. CASE /\ Becomes(w, worker[w].msg, "settle", "absent", "ack")
               /\ inbox' = [inbox EXCEPT ![m].st = "completed"]
      <3>1. inbox'[m].st = "completed" /\ \A x \in Inboxed \ {m} : inbox'[x] = inbox[x]
        BY <1>1, <2>1, <2>2 DEF InboxRow
      <3>2. QED
        BY <1>2, <1>3, <2>1, <2>2, <3>1 DEF Becomes
    <2>3. CASE /\ \/ Becomes(w, worker[w].msg, "settle", "absent", "retry")
                  \/ Becomes(w, worker[w].msg, "settle", "absent", "dead")
               /\ \/ inbox' = inbox
                  \/ inbox[m].st = "processing" /\ inbox' = [inbox EXCEPT ![m].st = "failed"]
      <3>1. \A x \in Inboxed : inbox[x].st = "completed" => inbox'[x].st = "completed"
        BY <1>1, <2>1, <2>3 DEF InboxRow
      <3>2. QED
        BY <1>2, <1>3, <2>1, <2>3, <3>1 DEF Becomes
    <2>4. QED
      BY <1>1, <1>10, <2>1, <2>2, <2>3, InboxDoes
  <1>11. CASE StatementFails(w)
    <2>1. inbox' = inbox
      BY <1>11, Zenon DEF StatementFails
    <2>2. QED
      BY <1>1, <1>2, <1>3, <1>11, <2>1, StatementDoes DEF Becomes
  <1>12. QED
    BY <1>4, <1>5, <1>6, <1>7, <1>8, <1>9, <1>10, <1>11, Zenon DEF Handling

\* A step of the system is a worker's, a relay's or the scheduler's.
LEMMA StepCases ==
    ASSUME WellFormed, [Next]_vars
    PROVE  \/ \E w \in Workers : Handling(w)
           \/ \E w \in Workers : Settle(w) \/ CrashWorker(w)
           \/ \E w \in Workers, m \in Message : Deliver(w, m)
           \/ \E p \in Relays, batch \in SUBSET Outboxed : ClaimOutbox(p, batch)
           \/ \E p \in Relays : PublishMessage(p)
           \/ \E p \in Relays : MarkOutboxPublished(p) \/ ReleaseOutbox(p)
           \/ \E p \in Relays : CrashRelay(p)
           \/ AppendEvent \/ ScheduleResume \/ ExitJourney \/ EditAutomation
           \/ UNCHANGED vars
  <1>1. CASE \E w \in Workers : WorkerStep(w) \/ ReleaseContactAutomationClaim(w) \/ StatementFails(w)
    BY <1>1, Zenon DEF WorkerStep, Handling
  <1>2. CASE \E p \in Relays : RelayStep(p)
    BY <1>2, Zenon DEF RelayStep
  <1>3. QED
    BY <1>1, <1>2, Zenon DEF Next

\* Settling a message that is not consumed gives it up or puts it back.
LEMMA SettledWaits ==
    ASSUME WellFormed, AcksAreEarned, NEW w \in Workers, Settle(w) \/ CrashWorker(w),
           NEW m \in Inboxed, Waits(m)
    PROVE  Waits(m)'
  <1>1. /\ TypeOK /\ m \in Message /\ worker[w].msg \in Message
        /\ worker \in [Workers -> Worker] /\ queue \in [Message -> 0..MaxCopies]
    BY Messages, WorkerParts DEF WellFormed, TypeOK
  <1>2. inbox' = inbox
    BY Zenon DEF Settle, CrashWorker
  <1>3. /\ worker[w].at # "idle" /\ Becomes(w, Event, "idle", "absent", "ack")
        /\ \/ worker[w].at = "settle" /\ worker[w].then = "ack" /\ queue' = queue /\ dead' = dead
           \/ dead' = dead \cup {worker[w].msg} /\ queue' = queue
           \/ dead' = dead /\ \E n \in 1..2 : queue' = Enqueued(worker[w].msg, n)
    BY <1>1, SettleDoes
  <1>4. /\ m \in dead => m \in dead'
        /\ queue[m] > 0 => queue'[m] > 0
    BY <1>1, <1>3, EnqueuedDoes
  <1>5. CASE inbox[m].st = "completed" \/ queue[m] > 0 \/ m \in dead
    BY <1>2, <1>4, <1>5 DEF Waits
  <1>6. CASE worker[w].msg = m
    <2>1. CASE worker[w].at = "settle" /\ worker[w].then = "ack"
      <3>1. inbox[m].st = "completed"
        BY <1>6, <2>1 DEF AcksAreEarned
      <3>2. QED
        BY <1>5, <3>1
    <2>2. CASE dead' = dead \cup {worker[w].msg}
      BY <1>6, <2>2 DEF Waits
    <2>3. CASE \E n \in 1..2 : queue' = Enqueued(worker[w].msg, n)
      <3>1. queue'[m] > 0
        BY <1>1, <1>6, <2>3, EnqueuedDoes
      <3>2. QED
        BY <3>1 DEF Waits
    <2>4. QED
      BY <1>3, <2>1, <2>2, <2>3
  <1>7. CASE \E u \in Workers \ {w} : ~Busy(u, "idle") /\ worker[u].msg = m
    BY <1>3, <1>7 DEF Waits, Busy, Becomes, Others
  <1>8. QED
    BY <1>5, <1>6, <1>7 DEF Waits

\* A message that waits goes on waiting until it is consumed.
LEMMA WaitsOn ==
    ASSUME WellFormed, AcksAreEarned, [Next]_vars, NEW m \in Inboxed, Waits(m)
    PROVE  Waits(m)'
  <1>1. /\ TypeOK /\ m \in Message /\ queue \in [Message -> 0..MaxCopies] /\ Resume \in Message
        /\ worker \in [Workers -> Worker]
    BY Messages DEF WellFormed, TypeOK
  <1>2. ASSUME NEW w \in Workers, Handling(w) PROVE Waits(m)'
    <2>1. /\ queue' = queue /\ dead' = dead
          /\ Others(w) /\ worker'[w].msg = worker[w].msg /\ worker'[w].at # "idle"
          /\ inbox[m].st = "completed" => inbox'[m].st = "completed"
      BY <1>2, HandlingKeeps
    <2>2. CASE inbox[m].st = "completed" \/ queue[m] > 0 \/ m \in dead
      BY <2>1, <2>2 DEF Waits
    <2>3. CASE \E u \in Workers : ~Busy(u, "idle") /\ worker[u].msg = m
      <3>1. PICK u \in Workers : ~Busy(u, "idle") /\ worker[u].msg = m
        BY <2>3
      <3>2. worker'[u].at # "idle" /\ worker'[u].msg = m
        BY <2>1, <3>1 DEF Busy, Others
      <3>3. QED
        BY <3>2 DEF Waits, Busy
    <2>4. QED
      BY <2>2, <2>3 DEF Waits
  <1>3. ASSUME NEW w \in Workers, NEW x \in Message, Deliver(w, x) PROVE Waits(m)'
    <2>1. inbox' = inbox /\ dead' = dead
      BY <1>3, Zenon DEF Deliver
    <2>2. /\ worker[w].at = "idle" /\ Becomes(w, x, "got", "absent", "ack")
          /\ \A y \in Message \ {x} : queue'[y] = queue[y]
      BY <1>1, <1>3, DeliverDoes
    <2>3. CASE x = m
      BY <2>2, <2>3 DEF Waits, Busy, Becomes
    <2>4. CASE x # m
      <3>1. queue'[m] = queue[m]
        BY <1>1, <2>2, <2>4
      <3>2. ASSUME NEW u \in Workers, ~Busy(u, "idle"), worker[u].msg = m
            PROVE  ~Busy(u, "idle")' /\ worker'[u].msg = m
        BY <2>2, <3>2 DEF Busy, Becomes, Others
      <3>3. QED
        BY <2>1, <3>1, <3>2 DEF Waits
    <2>5. QED
      BY <2>3, <2>4
  <1>4. CASE ScheduleResume \/ \E p \in Relays : PublishMessage(p)
    <2>1. worker' = worker /\ inbox' = inbox /\ dead' = dead
      BY <1>4, Zenon DEF ScheduleResume, PublishMessage
    <2>2. \E x \in Message, n \in 0..2 : queue' = Enqueued(x, n)
      <3>1. CASE ScheduleResume
        BY <1>1, <3>1 DEF ScheduleResume
      <3>2. ASSUME NEW p \in Relays, PublishMessage(p)
            PROVE  \E x \in Message, n \in 0..2 : queue' = Enqueued(x, n)
        BY <1>1, <3>2, PublishDoes
      <3>3. QED
        BY <1>4, <3>1, <3>2
    <2>3. queue[m] > 0 => queue'[m] > 0
      BY <1>1, <2>2, EnqueuedDoes
    <2>4. QED
      BY <2>1, <2>3 DEF Waits, Busy
  <1>5. CASE UNCHANGED <<queue, worker, inbox, dead>>
    BY <1>5 DEF Waits, Busy
  <1>6. \/ UNCHANGED <<queue, worker, inbox, dead>>
        \/ \E w \in Workers : Handling(w)
        \/ \E w \in Workers : Settle(w) \/ CrashWorker(w)
        \/ \E w \in Workers, x \in Message : Deliver(w, x)
        \/ ScheduleResume \/ \E p \in Relays : PublishMessage(p)
    BY StepCases, EditDoes, Zenon DEF ClaimOutbox, MarkOutboxPublished, ReleaseOutbox, CrashRelay, AppendEvent,
       ExitJourney, vars
  <1>7. QED
    BY <1>2, <1>3, <1>4, <1>5, <1>6, SettledWaits

\* Every step keeps acknowledgements and marks honest.
LEMMA HandedOverStep == WellFormed /\ HandedOver /\ [Next]_vars => HandedOver'
  <1> SUFFICES ASSUME WellFormed, HandedOver, [Next]_vars PROVE HandedOver'
    OBVIOUS
  <1>1. /\ TypeOK /\ AcksAreEarned /\ MarksAreTrue /\ WellFormed' /\ Inboxed \subseteq Outboxed
        /\ outbox \in [Outboxed -> OutboxRow] /\ worker \in [Workers -> Worker]
        /\ Inboxed \subseteq Message /\ Event \in Inboxed
    BY Messages, TypeStep DEF WellFormed, TypeOK, HandedOver
  <1>2. \A m \in Inboxed : Waits(m) => Waits(m)'
    BY <1>1, WaitsOn
  <1>3. AcksAreEarned'
    <2>1. ASSUME NEW w \in Workers, Handling(w) PROVE AcksAreEarned'
      <3>1. /\ Others(w) /\ worker'[w].msg = worker[w].msg
            /\ \A m \in Inboxed : inbox[m].st = "completed" => inbox'[m].st = "completed"
            /\ worker'[w].at = "settle" /\ worker'[w].then = "ack" /\ worker[w].msg \in Inboxed
                 => inbox'[worker[w].msg].st = "completed"
        BY <2>1, HandlingKeeps
      <3>2. QED
        BY <1>1, <3>1 DEF AcksAreEarned, Others
    <2>2. ASSUME NEW w \in Workers, NEW m \in Message,
                 inbox' = inbox,
                 Becomes(w, m, "got", "absent", "ack") \/ Becomes(w, m, "idle", "absent", "ack")
          PROVE  AcksAreEarned'
      BY <1>1, <2>2 DEF AcksAreEarned, Becomes, Others
    <2>3. ASSUME NEW w \in Workers, Settle(w) \/ CrashWorker(w) PROVE AcksAreEarned'
      <3>1. inbox' = inbox
        BY <2>3, Zenon DEF Settle, CrashWorker
      <3>2. QED
        BY <1>1, <2>2, <2>3, <3>1, SettleDoes
    <2>4. ASSUME NEW w \in Workers, NEW m \in Message, Deliver(w, m) PROVE AcksAreEarned'
      <3>1. inbox' = inbox
        BY <2>4, Zenon DEF Deliver
      <3>2. QED
        BY <1>1, <2>2, <2>4, <3>1, DeliverDoes
    <2>5. CASE UNCHANGED <<worker, inbox>>
      BY <1>1, <2>5 DEF AcksAreEarned
    <2>6. \/ UNCHANGED <<worker, inbox>>
          \/ \E w \in Workers : Handling(w)
          \/ \E w \in Workers : Settle(w) \/ CrashWorker(w)
          \/ \E w \in Workers, m \in Message : Deliver(w, m)
      BY StepCases, EditDoes, Zenon DEF ClaimOutbox, PublishMessage, MarkOutboxPublished, ReleaseOutbox, CrashRelay,
         AppendEvent, ScheduleResume, ExitJourney, vars
    <2>7. QED
      BY <2>1, <2>3, <2>4, <2>5, <2>6
  <1>4. MarksAreTrue'
    <2>1. CASE /\ \A m \in Inboxed : outbox'[m].st = "published" => outbox[m].st = "published"
               /\ relay' = relay
      BY <1>1, <1>2, <2>1 DEF MarksAreTrue
    <2>2. ASSUME NEW p \in Relays, PublishMessage(p) PROVE MarksAreTrue'
      <3>1. outbox' = outbox
        BY <2>2, Zenon DEF PublishMessage
      <3>2. /\ \A q \in Relays \ {p} : relay'[q] = relay[q]
            /\ relay'[p].msg \in Message
            /\ \E n \in 0..2 : queue' = Enqueued(relay'[p].msg, n) /\ (relay'[p].at = "mark" => n > 0)
        BY <1>1, <2>2, PublishDoes
      <3>3. relay'[p].at = "mark" => queue'[relay'[p].msg] > 0
        BY <1>1, <3>2, EnqueuedDoes
      <3>4. QED
        BY <1>1, <1>2, <3>1, <3>2, <3>3 DEF MarksAreTrue, Waits
    <2>3. ASSUME NEW p \in Relays, MarkOutboxPublished(p) \/ ReleaseOutbox(p) PROVE MarksAreTrue'
      <3>1. /\ relay'[p].at # "mark" /\ \A q \in Relays \ {p} : relay'[q] = relay[q]
        BY <1>1, <2>3, MarkDoes, TurnedDoes
      <3>2. ASSUME NEW m \in Inboxed, outbox'[m].st = "published" PROVE Waits(m)
        <4>1. outbox[m].st = "published" \/ (m = relay[p].msg /\ relay[p].at = "mark")
          BY <1>1, <2>3, <3>2, MarkDoes
        <4>2. QED
          BY <1>1, <4>1 DEF MarksAreTrue
      <3>3. QED
        BY <1>1, <1>2, <3>1, <3>2 DEF MarksAreTrue
    <2>4. ASSUME NEW p \in Relays, NEW batch \in SUBSET Outboxed, ClaimOutbox(p, batch) PROVE MarksAreTrue'
      <3>1. /\ \A m \in Inboxed : outbox'[m].st = "published" => outbox[m].st = "published"
            /\ relay'[p].at # "mark" /\ \A q \in Relays \ {p} : relay'[q] = relay[q]
        BY <1>1, <2>4, ClaimOutboxDoes
      <3>2. QED
        BY <1>1, <1>2, <3>1 DEF MarksAreTrue
    <2>5. ASSUME NEW p \in Relays, CrashRelay(p) PROVE MarksAreTrue'
      <3>1. outbox' = outbox /\ relay' = [relay EXCEPT ![p] = IdleRelay] /\ relay \in [Relays -> Relay]
        BY <1>1, <2>5, Zenon DEF CrashRelay, TypeOK
      <3>2. relay'[p].at # "mark" /\ \A q \in Relays \ {p} : relay'[q] = relay[q]
        BY <3>1 DEF IdleRelay
      <3>3. QED
        BY <1>1, <1>2, <3>1, <3>2 DEF MarksAreTrue
    <2>6. ASSUME NEW w \in Workers, Handling(w) PROVE MarksAreTrue'
      BY <2>1, <2>6, HandlingKeeps
    <2>7. CASE AppendEvent
      <3>1. outbox' = Inserted(Event) /\ relay' = relay
        BY <2>7, Zenon DEF AppendEvent
      <3>2. QED
        BY <1>1, <2>1, <3>1, InsertedDoes
    <2>8. CASE UNCHANGED <<outbox, relay>>
      BY <2>1, <2>8
    <2>9. \/ UNCHANGED <<outbox, relay>> \/ AppendEvent
          \/ \E w \in Workers : Handling(w)
          \/ \E p \in Relays, batch \in SUBSET Outboxed : ClaimOutbox(p, batch)
          \/ \E p \in Relays : PublishMessage(p)
          \/ \E p \in Relays : MarkOutboxPublished(p) \/ ReleaseOutbox(p)
          \/ \E p \in Relays : CrashRelay(p)
      BY StepCases, EditDoes, Zenon DEF Settle, CrashWorker, Deliver, ScheduleResume, ExitJourney, vars
    <2>10. QED
      BY <2>2, <2>3, <2>4, <2>5, <2>6, <2>7, <2>8, <2>9
  <1>5. QED
    BY <1>3, <1>4 DEF HandedOver

\* NothingLost, for every bound on copies, attempts and faults: an accepted event or command
\* that is not consumed waits somewhere or was given up visibly.
THEOREM NothingIsLost == Spec => []NothingLost
  <1>1. Init => HandedOver
    BY Messages DEF Init, HandedOver, AcksAreEarned, MarksAreTrue, NewRow, IdleRelay, IdleWorker
  <1>2. WellFormed /\ HandedOver => NothingLost
    BY Messages DEF WellFormed, TypeOK, OutboxRow, HandedOver, MarksAreTrue, Waits, NothingLost
  <1>3. QED
    BY <1>1, <1>2, InitWellFormed, TypeStep, HandedOverStep, PTL DEF Spec

-----------------------------------------------------------------------------
(* The side effects.                                                        *)

\* Where a worker has no part in a side effect.
Away == {"idle", "got", "plan", "read", "fail", "settle"}

\* Only five steps touch the side effects, the journey's version, or workers that have read
\* or called one; in every other step at most one worker moves, away from them.
LEMMA SideEffectCases ==
    ASSUME WellFormed, [Next]_vars
    PROVE  \/ \E w \in Workers : \/ CommitContactAutomationState(w) \/ GetSideEffect(w) \/ Submit(w)
                                 \/ ExecuteJourneySideEffect(w) \/ RecordOutcome(w)
           \/ /\ effect' = effect /\ calls' = calls /\ journey'.ver = journey.ver
              /\ \/ worker' = worker
                 \/ \E w \in Workers, m \in Message, at \in Away, seen \in Status, then \in {"ack", "retry", "dead"} :
                      Becomes(w, m, at, seen, then)
  <1> DEFINE Moved(w) == \E m \in Message, at \in Away, seen \in Status, then \in {"ack", "retry", "dead"} :
                           Becomes(w, m, at, seen, then)
  <1>1. /\ TypeOK /\ WorkersSound /\ Event \in Message /\ "absent" \in Status
        /\ journey \in [st : {"absent", "active", "completed", "exited"}, ver : 0..Steps,
                         owner : Workers \cup {None}, of : Nat]
    BY Messages DEF WellFormed, TypeOK, Status
  <1>2. ASSUME NEW w \in Workers
        PROVE  /\ worker[w].msg \in Message /\ worker[w].seen \in Status
               /\ worker[w].then \in {"ack", "retry", "dead"}
    BY <1>1, WorkerParts
  <1>3. ASSUME NEW w \in Workers, ProcessRuleEvent(w)
        PROVE  UNCHANGED <<effect, calls>> /\ journey'.ver = journey.ver /\ Moved(w)
    <2>1. UNCHANGED <<effect, calls>>
      BY <1>3, Zenon DEF ProcessRuleEvent
    <2>2. journey' = journey \/ journey' = [journey EXCEPT !.st = "active", !.of = automation.version]
      BY <1>1, <1>3, RuleDoes
    <2>3. journey'.ver = journey.ver
      BY <1>1, <2>2
    <2>4. \E then \in {"ack", "retry"} : Becomes(w, Event, "settle", "absent", then)
      BY <1>1, <1>3, RuleDoes
    <2>5. QED
      BY <1>1, <2>1, <2>3, <2>4 DEF Away
  <1>4. ASSUME NEW w \in Workers, ClaimContactAutomation(w) \/ ReleaseContactAutomationClaim(w)
        PROVE  UNCHANGED <<effect, calls>> /\ journey'.ver = journey.ver /\ Moved(w)
    <2>1. UNCHANGED <<effect, calls>>
      BY <1>4, Zenon DEF ClaimContactAutomation, ReleaseContactAutomationClaim
    <2>2. journey' = journey \/ \E o \in Workers \cup {None} : journey' = [journey EXCEPT !.owner = o]
      BY <1>1, <1>4, ClaimDoes, UnclaimDoes
    <2>3. \/ Becomes(w, worker[w].msg, "plan", worker[w].seen, worker[w].then)
          \/ \E then \in {"ack", "retry"} : Becomes(w, worker[w].msg, "settle", "absent", then)
      BY <1>1, <1>4, ClaimDoes, UnclaimDoes
    <2>4. QED
      BY <1>1, <1>2, <2>1, <2>2, <2>3 DEF Away
  <1>5. ASSUME NEW w \in Workers, \/ AcquireInbox(w) \/ InboxRefused(w) \/ CompleteConsumerMessage(w)
                                  \/ FailConsumerMessage(w) \/ StatementFails(w)
        PROVE  UNCHANGED <<effect, calls>> /\ journey'.ver = journey.ver /\ Moved(w)
    <2>1. UNCHANGED <<effect, calls, journey>>
      BY <1>5, Zenon DEF AcquireInbox, InboxRefused, CompleteConsumerMessage, FailConsumerMessage, StatementFails
    <2>2. \/ Becomes(w, worker[w].msg, "read", worker[w].seen, worker[w].then)
          \/ \E then \in {"retry", "dead"} : Becomes(w, worker[w].msg, "fail", worker[w].seen, then)
          \/ \E then \in {"ack", "retry", "dead"} : Becomes(w, worker[w].msg, "settle", "absent", then)
      BY <1>1, <1>5, AcquireDoes, RefusedDoes, InboxDoes, StatementDoes
    <2>3. QED
      BY <1>1, <1>2, <2>1, <2>2 DEF Away
  <1>6. ASSUME NEW w \in Workers, Settle(w) \/ CrashWorker(w)
        PROVE  UNCHANGED <<effect, calls>> /\ journey'.ver = journey.ver /\ Moved(w)
    <2>1. UNCHANGED <<effect, calls, journey>>
      BY <1>6, Zenon DEF Settle, CrashWorker
    <2>2. QED
      BY <1>1, <1>6, <2>1, SettleDoes DEF Away
  <1>7. ASSUME NEW w \in Workers, NEW m \in Message, Deliver(w, m)
        PROVE  UNCHANGED <<effect, calls>> /\ journey'.ver = journey.ver /\ Moved(w)
    <2>1. UNCHANGED <<effect, calls, journey>>
      BY <1>7, Zenon DEF Deliver
    <2>2. QED
      BY <1>1, <1>7, <2>1, DeliverDoes DEF Away
  <1>8. ASSUME ExitJourney
        PROVE  UNCHANGED <<effect, calls, worker>> /\ journey'.ver = journey.ver
    <2>1. UNCHANGED <<effect, calls, worker>> /\ journey' = [journey EXCEPT !.st = "exited"]
      BY <1>8, Zenon DEF ExitJourney
    <2>2. QED
      BY <1>1, <2>1
  <1>10. \/ \E w \in Workers : \/ ProcessRuleEvent(w) \/ ClaimContactAutomation(w) \/ ReleaseContactAutomationClaim(w)
                               \/ AcquireInbox(w) \/ InboxRefused(w) \/ CompleteConsumerMessage(w)
                               \/ FailConsumerMessage(w) \/ StatementFails(w) \/ Settle(w) \/ CrashWorker(w)
         \/ \E w \in Workers, m \in Message : Deliver(w, m)
         \/ ExitJourney \/ UNCHANGED <<effect, calls, worker, journey>>
         \/ \E w \in Workers : \/ CommitContactAutomationState(w) \/ GetSideEffect(w) \/ Submit(w)
                               \/ ExecuteJourneySideEffect(w) \/ RecordOutcome(w)
    BY StepCases, EditDoes, Zenon DEF Handling, ClaimOutbox, PublishMessage, MarkOutboxPublished, ReleaseOutbox, CrashRelay,
       AppendEvent, ScheduleResume, vars
  <1> DEFINE Aside == /\ effect' = effect /\ calls' = calls /\ journey'.ver = journey.ver
                      /\ worker' = worker \/ \E w \in Workers : Moved(w)
  <1> HIDE DEF Moved
  <1>11. ASSUME \E w \in Workers : \/ ProcessRuleEvent(w) \/ ClaimContactAutomation(w) \/ ReleaseContactAutomationClaim(w)
                                 \/ AcquireInbox(w) \/ InboxRefused(w) \/ CompleteConsumerMessage(w)
                                 \/ FailConsumerMessage(w) \/ StatementFails(w) \/ Settle(w) \/ CrashWorker(w)
         PROVE  Aside
    <2>1. PICK w \in Workers : \/ ProcessRuleEvent(w) \/ ClaimContactAutomation(w) \/ ReleaseContactAutomationClaim(w)
                              \/ AcquireInbox(w) \/ InboxRefused(w) \/ CompleteConsumerMessage(w)
                              \/ FailConsumerMessage(w) \/ StatementFails(w) \/ Settle(w) \/ CrashWorker(w)
      BY <1>11, Zenon
    <2>2. UNCHANGED <<effect, calls>> /\ journey'.ver = journey.ver /\ Moved(w)
      BY <1>3, <1>4, <1>5, <1>6, <2>1, Zenon
    <2>3. QED
      BY <2>2, Zenon
  <1>12. ASSUME \E w \in Workers, m \in Message : Deliver(w, m) PROVE Aside
    <2>1. PICK w \in Workers, m \in Message : Deliver(w, m)
      BY <1>12
    <2>2. UNCHANGED <<effect, calls>> /\ journey'.ver = journey.ver /\ Moved(w)
      BY <1>7, <2>1, Zenon
    <2>3. QED
      BY <2>2, Zenon
  <1>13. ASSUME ExitJourney \/ UNCHANGED <<effect, calls, worker, journey>> PROVE Aside
    BY <1>8, <1>13
  <1> HIDE DEF Aside
  <1>14. Aside \/ \E w \in Workers : \/ CommitContactAutomationState(w) \/ GetSideEffect(w) \/ Submit(w)
                                     \/ ExecuteJourneySideEffect(w) \/ RecordOutcome(w)
    BY <1>10, <1>11, <1>12, <1>13, Zenon
  <1>15. QED
    BY <1>14, Zenon DEF Aside, Moved

\* A commit that goes through takes the next step and may reserve its side effect.
LEMMA CommitTakes ==
    ASSUME WellFormed, NEW w \in Workers, CommitContactAutomationState(w)
    PROVE  /\ calls' = calls /\ Becomes(w, worker[w].msg, "settle", "absent", "ack")
           /\ \/ journey' = journey /\ effect' = effect
              \/ /\ journey.ver < Steps /\ journey.ver + 1 \in Step /\ journey'.ver = journey.ver + 1
                 /\ \A v \in Step \ {journey.ver + 1} : effect'[v] = effect[v]
                 /\ \/ effect' = effect
                    \/ effect[journey.ver + 1] = "absent" /\ effect'[journey.ver + 1] = "reserved"
  <1>1. TypeOK /\ JourneySound /\ effect \in [Step -> Status] /\ journey.ver \in 0..Steps
    BY DEF WellFormed, TypeOK
  <1>2. calls' = calls
    BY Zenon DEF CommitContactAutomationState
  <1>3. Becomes(w, worker[w].msg, "settle", "absent", "ack")
    BY <1>1, CommitDoes
  <1>4. CASE /\ journey.owner = w
             /\ journey' = [journey EXCEPT !.st = IF journey.ver + 1 = Steps THEN "completed" ELSE "active",
                                      !.ver = journey.ver + 1, !.owner = None]
             /\ \/ effect' = [effect EXCEPT ![journey.ver + 1] = IF @ = "absent" THEN "reserved" ELSE @]
                \/ effect' = effect
    <2>1. PICK v : v = journey.ver + 1
      OBVIOUS
    <2>2. journey.ver < Steps /\ v \in Step
      BY <1>1, <1>4, <2>1 DEF JourneySound, Step
    <2>3. journey'.ver = v
      BY <1>1, <1>4, <2>1 DEF TypeOK
    <2>4. \/ effect' = effect
          \/ effect' = [effect EXCEPT ![v] = IF effect[v] = "absent" THEN "reserved" ELSE effect[v]]
      BY <1>4, <2>1, Zenon
    <2>5. /\ \A x \in Step \ {v} : effect'[x] = effect[x]
          /\ effect' = effect \/ (effect[v] = "absent" /\ effect'[v] = "reserved")
      <3>1. CASE effect[v] = "absent"
        BY <1>1, <2>2, <2>4, <3>1
      <3>2. CASE effect[v] # "absent"
        BY <1>1, <2>2, <2>4, <3>2
      <3>3. QED
        BY <3>1, <3>2
    <2>6. QED
      BY <1>2, <1>3, <2>1, <2>2, <2>3, <2>5
  <1>5. CASE journey' = journey /\ effect' = effect
    BY <1>2, <1>3, <1>5
  <1>6. QED
    BY <1>1, <1>4, <1>5, CommitDoes

\* A call that happened stays happened, and its cut answer stays cut.
LEMMA CallsKept ==
    ASSUME WellFormed, [Next]_vars, NEW v \in Step
    PROVE  /\ calls[v].n > 0 => calls'[v].n > 0
           /\ calls[v].cut => calls'[v].cut
  <1>1. TypeOK /\ WorkersSound
    BY DEF WellFormed
  <1>2. calls' = calls \/ \E w \in Workers : ExecuteJourneySideEffect(w)
    <2>1. ASSUME NEW w \in Workers, \/ CommitContactAutomationState(w) \/ GetSideEffect(w) \/ Submit(w)
                                    \/ RecordOutcome(w)
          PROVE  calls' = calls
      BY <2>1, Zenon DEF CommitContactAutomationState, GetSideEffect, Submit, RecordOutcome
    <2>2. QED
      BY <2>1, SideEffectCases, Zenon
  <1>3. ASSUME NEW w \in Workers, ExecuteJourneySideEffect(w)
        PROVE  /\ calls[v].n > 0 => calls'[v].n > 0
               /\ calls[v].cut => calls'[v].cut
    <2>1. StepOf(w) \in Step /\ (calls' = calls \/ \E cut \in BOOLEAN : Happens(StepOf(w), cut))
      BY <1>1, <1>3, CallDoes
    <2>2. ASSUME NEW cut \in BOOLEAN, Happens(StepOf(w), cut)
          PROVE  /\ calls[v].n > 0 => calls'[v].n > 0
                 /\ calls[v].cut => calls'[v].cut
      <3>1. CASE v = StepOf(w)
        BY <1>1, <2>1, <2>2, <3>1, HappensDoes
      <3>2. CASE v # StepOf(w)
        <4>1. calls'[v] = calls[v]
          BY <1>1, <2>1, <2>2, <3>2, HappensDoes
        <4>2. QED
          BY <4>1
      <3>3. QED
        BY <3>1, <3>2
    <2>3. QED
      BY <2>1, <2>2
  <1>4. QED
    BY <1>2, <1>3

\* A command is completed only by a worker whose side effect was confirmed to it.
LEMMA CompletedBy ==
    ASSUME WellFormed, [Next]_vars, NEW v \in Step, inbox'[Effect(v)].st = "completed"
    PROVE  \/ inbox[Effect(v)].st = "completed"
           \/ \E w \in Workers : worker[w].at = "complete" /\ StepOf(w) = v
  <1>1. /\ TypeOK /\ WorkersSound /\ inbox \in [Inboxed -> InboxRow]
        /\ Effect(v) \in Inboxed /\ Effect(v) # Event /\ Commands \subseteq Inboxed /\ Effect(v)[2] = v
    BY Messages DEF WellFormed, TypeOK
  <1>2. ASSUME NEW w \in Workers, ProcessRuleEvent(w) PROVE inbox'[Effect(v)] = inbox[Effect(v)]
    BY <1>1, <1>2, RuleDoes
  <1>3. ASSUME NEW w \in Workers, AcquireInbox(w) PROVE inbox[Effect(v)].st = "completed"
    <2>1. /\ worker[w].msg \in Commands /\ inbox' = [inbox EXCEPT ![worker[w].msg] = [st |-> "processing", owner |-> w]]
      BY <1>1, <1>3, AcquireDoes
    <2>2. QED
      BY <1>1, <2>1
  <1>4. ASSUME NEW w \in Workers, CompleteConsumerMessage(w) \/ FailConsumerMessage(w),
               inbox[Effect(v)].st # "completed"
        PROVE  worker[w].at = "complete" /\ StepOf(w) = v
    <2>1. /\ worker[w].msg \in Commands
          /\ \/ /\ worker[w].at = "complete"
                /\ inbox' = [inbox EXCEPT ![worker[w].msg].st = "completed"]
             \/ inbox' = inbox
             \/ inbox' = [inbox EXCEPT ![worker[w].msg].st = "failed"]
      BY <1>1, <1>4, InboxDoes
    <2>2. worker[w].at = "complete" /\ worker[w].msg = Effect(v)
      BY <1>1, <1>4, <2>1 DEF InboxRow
    <2>3. QED
      BY <1>1, <2>2 DEF StepOf
  <1>5. \/ UNCHANGED inbox
        \/ \E w \in Workers : ProcessRuleEvent(w) \/ AcquireInbox(w) \/ CompleteConsumerMessage(w) \/ FailConsumerMessage(w)
    BY StepCases, EditDoes, Zenon DEF Handling, ClaimContactAutomation, CommitContactAutomationState, InboxRefused,
       GetSideEffect, Submit, ExecuteJourneySideEffect, RecordOutcome, ReleaseContactAutomationClaim,
       StatementFails, Settle, CrashWorker, Deliver, ClaimOutbox, PublishMessage, MarkOutboxPublished,
       ReleaseOutbox, CrashRelay, AppendEvent, ScheduleResume, ExitJourney, vars
  <1>6. QED
    BY <1>2, <1>3, <1>4, <1>5

\* A worker that takes a side effect for done, or has just seen it done, is right.
KnowsWhatHappened ==
    \A w \in Workers :
      worker[w].at = "complete" \/ (worker[w].at \in {"act", "record"} /\ worker[w].seen = "confirmed")
        => calls[StepOf(w)].n > 0

\* One worker that is right leaves the others right.
LEMMA KnowingStep ==
    ASSUME WellFormed, [Next]_vars, KnowsWhatHappened, NEW w \in Workers, NEW at, NEW seen, NEW then,
           Becomes(w, worker[w].msg, at, seen, then), worker[w].msg \in Commands,
           at = "complete" \/ (at \in {"act", "record"} /\ seen = "confirmed") => calls'[StepOf(w)].n > 0
    PROVE  KnowsWhatHappened'
  <1>1. \A u \in Workers : worker[u].at \in Consuming => StepOf(u) \in Step
    BY Messages, WorkerParts DEF WellFormed, WorkersSound, StepOf
  <1>2. ASSUME NEW u \in Workers,
               worker'[u].at = "complete" \/ (worker'[u].at \in {"act", "record"} /\ worker'[u].seen = "confirmed")
        PROVE  calls'[worker'[u].msg[2]].n > 0
    <2>1. CASE u = w
      BY <1>2, <2>1 DEF Becomes, StepOf
    <2>2. CASE u # w
      <3>1. worker'[u] = worker[u] /\ calls[StepOf(u)].n > 0 /\ StepOf(u) \in Step
        BY <1>1, <1>2, <2>2 DEF Becomes, Others, KnowsWhatHappened, Consuming
      <3>2. QED
        BY <3>1, CallsKept DEF StepOf
    <2>3. QED
      BY <2>1, <2>2
  <1>3. QED
    BY <1>2 DEF KnowsWhatHappened, StepOf

\* Every step keeps what is settled true.
LEMMA SettledStep ==
    WellFormed /\ KnowsWhatHappened /\ SettledHappened /\ [Next]_vars => (KnowsWhatHappened /\ SettledHappened)'
  <1> SUFFICES ASSUME WellFormed, KnowsWhatHappened, SettledHappened, [Next]_vars
               PROVE  (KnowsWhatHappened /\ SettledHappened)'
    OBVIOUS
  <1>1. /\ TypeOK /\ WorkersSound /\ effect \in [Step -> Status] /\ worker \in [Workers -> Worker]
        /\ \A u \in Workers : worker[u].at \in Consuming => StepOf(u) \in Step
    BY Messages, WorkerParts DEF WellFormed, TypeOK, WorkersSound, StepOf
  <1>2. KnowsWhatHappened' /\ \A v \in Step : effect'[v] = "confirmed" => effect[v] = "confirmed" \/ calls'[v].n > 0
    <2>1. ASSUME NEW w \in Workers, CommitContactAutomationState(w)
          PROVE  KnowsWhatHappened' /\ \A v \in Step : effect'[v] = "confirmed" => effect[v] = "confirmed"
      <3>1. calls' = calls /\ Becomes(w, worker[w].msg, "settle", "absent", "ack")
        BY <2>1, CommitTakes
      <3>2. KnowsWhatHappened'
        BY <3>1 DEF KnowsWhatHappened, Becomes, Others, StepOf
      <3>3. QED
        BY <2>1, <3>2, CommitTakes
    <2>2. ASSUME NEW w \in Workers, GetSideEffect(w)
          PROVE  KnowsWhatHappened' /\ effect' = effect
      <3>1. effect' = effect /\ calls' = calls
        BY <2>2, Zenon DEF GetSideEffect
      <3>2. /\ worker[w].at = "read" /\ worker[w].msg \in Commands
            /\ Becomes(w, worker[w].msg, "act", effect[StepOf(w)], worker[w].then)
        BY <1>1, <2>2, ReadDoes
      <3>3. effect[StepOf(w)] = "confirmed" => calls'[StepOf(w)].n > 0
        BY <1>1, <3>1, <3>2 DEF SettledHappened, Consuming
      <3>4. QED
        BY <3>1, <3>2, <3>3, KnowingStep
    <2>3. ASSUME NEW w \in Workers, Submit(w)
          PROVE  KnowsWhatHappened' /\ \A v \in Step : effect'[v] = "confirmed" => effect[v] = "confirmed"
      <3>1. worker[w].at = "act" /\ worker[w].msg \in Commands /\ StepOf(w) \in Step
        BY <1>1, <2>3, SubmitDoes
      <3>2. effect' = effect \/ \E st \in {"unknown", "submitted"} : effect' = [effect EXCEPT ![StepOf(w)] = st]
        BY <1>1, <2>3, SubmitDoes
      <3>3. \/ worker[w].seen = "confirmed" /\ Becomes(w, worker[w].msg, "complete", worker[w].seen, worker[w].then)
            \/ \E at \in {"fail", "call"}, then \in {"ack", "dead", "retry"} :
                 Becomes(w, worker[w].msg, at, worker[w].seen, then)
        BY <1>1, <2>3, SubmitDoes, WorkerParts
      <3>4. worker[w].seen = "confirmed" => calls'[StepOf(w)].n > 0
        BY <3>1, CallsKept DEF KnowsWhatHappened
      <3>5. KnowsWhatHappened'
        BY <3>1, <3>3, <3>4, KnowingStep
      <3>6. QED
        BY <1>1, <3>1, <3>2, <3>5
    <2>4. ASSUME NEW w \in Workers, ExecuteJourneySideEffect(w)
          PROVE  KnowsWhatHappened' /\ effect' = effect
      <3>1. effect' = effect
        BY <2>4, Zenon DEF ExecuteJourneySideEffect
      <3>2. /\ worker[w].at = "call" /\ worker[w].msg \in Commands /\ StepOf(w) \in Step
            /\ \/ Happens(StepOf(w), FALSE) /\ Becomes(w, worker[w].msg, "record", "confirmed", worker[w].then)
               \/ Becomes(w, worker[w].msg, "record", "failed", worker[w].then)
               \/ Becomes(w, worker[w].msg, "record", "unknown", worker[w].then)
        BY <1>1, <2>4, CallDoes DEF OutcomeOfLoss
      <3>3. Happens(StepOf(w), FALSE) => calls'[StepOf(w)].n > 0
        BY <1>1, <3>2, HappensDoes
      <3>4. QED
        BY <3>1, <3>2, <3>3, KnowingStep
    <2>5. ASSUME NEW w \in Workers, RecordOutcome(w)
          PROVE  KnowsWhatHappened' /\ \A v \in Step : effect'[v] = "confirmed" => effect[v] = "confirmed" \/ calls'[v].n > 0
      <3>1. /\ worker[w].at = "record" /\ worker[w].msg \in Commands /\ StepOf(w) \in Step
            /\ effect' = effect \/ effect' = [effect EXCEPT ![StepOf(w)] = worker[w].seen]
            /\ \/ worker[w].seen = "confirmed" /\ Becomes(w, worker[w].msg, "complete", worker[w].seen, worker[w].then)
               \/ \E then \in {"dead", "retry"} : Becomes(w, worker[w].msg, "fail", worker[w].seen, then)
        BY <1>1, <2>5, RecordDoes
      <3>2. worker[w].seen = "confirmed" => calls'[StepOf(w)].n > 0
        BY <3>1, CallsKept DEF KnowsWhatHappened
      <3>3. KnowsWhatHappened'
        BY <3>1, <3>2, KnowingStep
      <3>4. QED
        BY <1>1, <3>1, <3>2, <3>3
    <2>6. CASE /\ effect' = effect /\ calls' = calls
               /\ \/ worker' = worker
                  \/ \E w \in Workers, m \in Message, at \in Away, seen \in Status, then \in {"ack", "retry", "dead"} :
                       Becomes(w, m, at, seen, then)
      <3>1. KnowsWhatHappened'
        BY <2>6 DEF KnowsWhatHappened, Becomes, Others, StepOf, Away
      <3>2. QED
        BY <2>6, <3>1
    <2>7. QED
      BY <2>1, <2>2, <2>3, <2>4, <2>5, <2>6, SideEffectCases
  <1>3. SettledHappened'
    <2>1. ASSUME NEW v \in Step, inbox'[Effect(v)].st = "completed" \/ effect'[v] = "confirmed"
          PROVE  calls'[v].n > 0
      <3>1. CASE inbox[Effect(v)].st = "completed" \/ effect[v] = "confirmed"
        BY <3>1, CallsKept DEF SettledHappened
      <3>2. CASE \E w \in Workers : worker[w].at = "complete" /\ StepOf(w) = v
        BY <3>2, CallsKept DEF KnowsWhatHappened
      <3>3. QED
        BY <1>2, <2>1, <3>1, <3>2, CompletedBy
    <2>2. QED
      BY <2>1 DEF SettledHappened
  <1>4. QED
    BY <1>2, <1>3

\* SettledHappened, for every length of the journey and every number of faults: a command
\* is completed and a side effect confirmed only if the side effect happened.
THEOREM SettledMeansHappened == Spec => []SettledHappened
  <1>1. Init => KnowsWhatHappened /\ SettledHappened
    BY Messages DEF Init, KnowsWhatHappened, SettledHappened, IdleWorker
  <1>2. QED
    BY <1>1, InitWellFormed, TypeStep, SettledStep, PTL DEF Spec

-----------------------------------------------------------------------------
(* The journey's steps.                                                     *)

InHand == {"submitted", "unknown", "confirmed"}

\* Whoever calls a side effect, or has read its row, has one that was reserved.
AskedFor ==
    \A w \in Workers :
      worker[w].at \in {"call", "record"} \/ (worker[w].at = "act" /\ worker[w].seen # "absent")
        => effect[StepOf(w)] # "absent"

\* A webhook has one caller, from the submission to the record of the outcome, and while it
\* has one its row says so.
OneCaller ==
    \A w \in Workers :
      worker[w].at \in {"call", "record"} /\ StepOf(w) \in Webhooks =>
        /\ effect[StepOf(w)] \in InHand
        /\ \A u \in Workers : worker[u].at \in {"call", "record"} /\ StepOf(u) = StepOf(w) => u = w

\* A webhook that was called, with its answer read, is not free to be called again.
NotCalledAgain ==
    \A v \in Webhooks :
      calls[v].n > 0 /\ ~calls[v].cut =>
        /\ effect[v] \in InHand
        /\ \A w \in Workers : worker[w].at \in {"call", "record"} /\ StepOf(w) = v =>
             worker[w].at = "record" /\ worker[w].seen # "failed"

CallInv == AskedFor /\ OneCaller /\ NotCalledAgain

\* A worker that leaves the calls, or never was there, disturbs nobody's call.
LEMMA CallAway ==
    ASSUME WellFormed, CallInv, NEW w \in Workers, NEW m, NEW at, NEW seen, NEW then,
           Becomes(w, m, at, seen, then), at \notin {"call", "record"}, at = "act" => seen = effect[m[2]] /\ m[2] \in Step,
           calls' = calls,
           \A v \in Step : effect[v] # "absent" => effect'[v] # "absent",
           \A v \in Step : effect[v] \in InHand => effect'[v] \in InHand
    PROVE  CallInv'
  <1>1. \A u \in Workers : worker[u].at \in {"call", "record", "act"} => StepOf(u) \in Step
    BY Messages, WorkerParts DEF WellFormed, WorkersSound, StepOf, Consuming
  <1>2. Webhooks \subseteq Step
    BY DEF Step
  <1>3. \A u \in Workers \ {w} : worker'[u] = worker[u] /\ StepOf(u)' = StepOf(u)
    BY DEF Becomes, Others, StepOf
  <1>4. worker'[w].at = at /\ worker'[w].seen = seen /\ StepOf(w)' = m[2]
    BY DEF Becomes, StepOf
  <1>5. AskedFor'
    BY <1>1, <1>3, <1>4 DEF CallInv, AskedFor
  <1>6. OneCaller'
    <2>1. ASSUME NEW x \in Workers, worker'[x].at \in {"call", "record"}, StepOf(x)' \in Webhooks
         PROVE  /\ effect'[StepOf(x)'] \in InHand
                /\ \A u \in Workers : worker'[u].at \in {"call", "record"} /\ StepOf(u)' = StepOf(x)' => u = x
      <3>1. x # w /\ worker[x].at \in {"call", "record"} /\ StepOf(x) \in Webhooks /\ StepOf(x)' = StepOf(x)
        BY <1>3, <1>4, <2>1
      <3>2. /\ effect[StepOf(x)] \in InHand
            /\ \A u \in Workers : worker[u].at \in {"call", "record"} /\ StepOf(u) = StepOf(x) => u = x
        BY <3>1 DEF CallInv, OneCaller
      <3>3. effect'[StepOf(x)] \in InHand
        BY <1>2, <3>1, <3>2
      <3>4. ASSUME NEW u \in Workers, worker'[u].at \in {"call", "record"}, StepOf(u)' = StepOf(x)'
            PROVE  u = x
        <4>1. u # w
          BY <1>4, <3>4
        <4>2. worker'[u] = worker[u] /\ StepOf(u)' = StepOf(u)
          BY <1>3, <4>1
        <4>3. QED
          BY <3>1, <3>2, <3>4, <4>2
      <3>5. QED
        BY <3>1, <3>3, <3>4
    <2>2. QED
      BY <2>1 DEF OneCaller
  <1>7. NotCalledAgain'
    BY <1>2, <1>3, <1>4 DEF CallInv, NotCalledAgain
  <1>8. QED
    BY <1>5, <1>6, <1>7 DEF CallInv

\* A submission makes its worker the one caller of a webhook nobody was calling.
LEMMA SubmitCalls ==
    ASSUME WellFormed, CallInv, NEW w \in Workers, Submit(w)
    PROVE  CallInv' /\ \A v \in Step : (effect'[v] = "absent") <=> (effect[v] = "absent")
  <1>1. /\ TypeOK /\ WorkersSound /\ effect \in [Step -> Status] /\ worker[w].at = "act"
        /\ StepOf(w) \in Step /\ Webhooks \subseteq Step
        /\ \A u \in Workers : worker[u].at \in {"call", "record", "act"} => StepOf(u) \in Step
    BY SubmitDoes, Messages, WorkerParts DEF WellFormed, TypeOK, WorkersSound, StepOf, Consuming, Step
  <1>2. calls' = calls
    BY Zenon DEF Submit
  <1>3. CASE /\ \/ effect' = effect
                \/ effect[StepOf(w)] = "submitted" /\ effect' = [effect EXCEPT ![StepOf(w)] = "unknown"]
             /\ \E at \in {"complete", "fail"}, then \in {"ack", "retry", "dead"} :
                  Becomes(w, worker[w].msg, at, worker[w].seen, then)
    <2>1. /\ \A v \in Step : (effect'[v] = "absent") <=> (effect[v] = "absent")
          /\ \A v \in Step : effect[v] \in InHand => effect'[v] \in InHand
      BY <1>1, <1>3 DEF InHand
    <2>2. QED
      BY <1>2, <1>3, <2>1, CallAway
  <1>4. CASE /\ \/ effect[StepOf(w)] \in {"reserved", "failed"} /\ effect' = [effect EXCEPT ![StepOf(w)] = "submitted"]
                \/ worker[w].seen = "submitted" /\ StepOf(w) \notin Webhooks /\ effect' = effect
             /\ Becomes(w, worker[w].msg, "call", worker[w].seen, worker[w].then)
    <2>1. \A v \in Step : (effect'[v] = "absent") <=> (effect[v] = "absent")
      BY <1>1, <1>4
    <2>2. /\ \A v \in Step : effect[v] \in InHand => effect'[v] \in InHand
          /\ effect[StepOf(w)] # "absent"
      BY <1>1, <1>4 DEF InHand, CallInv, AskedFor
    <2>3. StepOf(w) \in Webhooks => effect[StepOf(w)] \notin InHand /\ effect'[StepOf(w)] \in InHand
      BY <1>1, <1>4 DEF InHand
    <2>4. /\ \A u \in Workers \ {w} : worker'[u] = worker[u] /\ StepOf(u)' = StepOf(u)
          /\ worker'[w].at = "call" /\ worker'[w].seen = worker[w].seen /\ StepOf(w)' = StepOf(w)
      BY <1>4 DEF Becomes, Others, StepOf
    <2>5. AskedFor'
      BY <1>1, <2>1, <2>2, <2>4 DEF CallInv, AskedFor
    <2>6. OneCaller'
      <3>1. ASSUME NEW x \in Workers, worker'[x].at \in {"call", "record"}, StepOf(x)' \in Webhooks
           PROVE  /\ effect'[StepOf(x)'] \in InHand
                  /\ \A u \in Workers : worker'[u].at \in {"call", "record"} /\ StepOf(u)' = StepOf(x)' => u = x
        <4>1. CASE x = w
          <5>1. StepOf(w) \in Webhooks /\ effect'[StepOf(w)] \in InHand /\ effect[StepOf(w)] \notin InHand
            BY <2>3, <2>4, <3>1, <4>1
          <5>2. \A u \in Workers : worker[u].at \in {"call", "record"} => StepOf(u) # StepOf(w)
            BY <5>1 DEF CallInv, OneCaller
          <5>3. QED
            BY <2>4, <4>1, <5>1, <5>2
        <4>2. CASE x # w
          <5>1. worker[x].at \in {"call", "record"} /\ StepOf(x) \in Webhooks /\ StepOf(x)' = StepOf(x)
            BY <2>4, <3>1, <4>2
          <5>2. /\ effect[StepOf(x)] \in InHand
                /\ \A u \in Workers : worker[u].at \in {"call", "record"} /\ StepOf(u) = StepOf(x) => u = x
            BY <5>1 DEF CallInv, OneCaller
          <5>3. StepOf(w) # StepOf(x)
            BY <2>3, <5>1, <5>2
          <5>4. QED
            BY <1>1, <2>2, <2>4, <4>2, <5>1, <5>2, <5>3
        <4>3. QED
          BY <4>1, <4>2
      <3>2. QED
        BY <3>1 DEF OneCaller
    <2>7. NotCalledAgain'
      BY <1>1, <1>2, <2>2, <2>3, <2>4 DEF CallInv, NotCalledAgain
    <2>8. QED
      BY <2>1, <2>5, <2>6, <2>7 DEF CallInv
  <1>5. QED
    BY <1>1, <1>3, <1>4, SubmitDoes, WorkerParts

\* A call leaves its worker the one caller; an answer that was read is a success or unknown.
LEMMA CallRecords ==
    ASSUME WellFormed, CallInv, NEW w \in Workers, ExecuteJourneySideEffect(w)
    PROVE  CallInv'
  <1>1. /\ TypeOK /\ WorkersSound /\ worker[w].at = "call" /\ StepOf(w) \in Step /\ Webhooks \subseteq Step
        /\ \A u \in Workers : worker[u].at \in {"call", "record", "act"} => StepOf(u) \in Step
    BY CallDoes, Messages, WorkerParts DEF WellFormed, WorkersSound, StepOf, Consuming, Step
  <1>2. effect' = effect
    BY Zenon DEF ExecuteJourneySideEffect
  <1>3. PICK seen \in {"confirmed", "failed", "unknown"} :
          /\ Becomes(w, worker[w].msg, "record", seen, worker[w].then)
          /\ \/ calls' = calls
             \/ Happens(StepOf(w), FALSE) /\ (StepOf(w) \in Webhooks => seen # "failed")
             \/ Happens(StepOf(w), TRUE)
    BY <1>1, CallDoes DEF OutcomeOfLoss
  <1>4. /\ \A u \in Workers \ {w} : worker'[u] = worker[u] /\ StepOf(u)' = StepOf(u)
        /\ worker'[w].at = "record" /\ worker'[w].seen = seen /\ StepOf(w)' = StepOf(w)
    BY <1>3 DEF Becomes, Others, StepOf
  <1>5. AskedFor' /\ OneCaller'
    BY <1>1, <1>2, <1>4 DEF CallInv, AskedFor, OneCaller
  <1>6. NotCalledAgain'
    <2>1. ASSUME NEW v \in Webhooks, calls'[v].n > 0, ~calls'[v].cut
          PROVE  /\ effect'[v] \in InHand
                 /\ \A u \in Workers : worker'[u].at \in {"call", "record"} /\ StepOf(u)' = v =>
                      worker'[u].at = "record" /\ worker'[u].seen # "failed"
      <3>1. v \in Step
        BY <1>1
      <3>2. CASE v # StepOf(w)
        <4>1. calls'[v] = calls[v]
          BY <1>1, <1>3, <3>1, <3>2, HappensDoes
        <4>2. QED
          BY <1>2, <1>4, <2>1, <3>2, <4>1 DEF CallInv, NotCalledAgain
      <3>3. CASE v = StepOf(w)
        <4>1. effect[v] \in InHand /\ \A u \in Workers : worker[u].at \in {"call", "record"} /\ StepOf(u) = v => u = w
          BY <1>1, <2>1, <3>3 DEF CallInv, OneCaller
        <4>2. calls' # calls
          BY <1>1, <2>1, <3>3 DEF CallInv, NotCalledAgain
        <4>3. ~Happens(StepOf(w), TRUE)
          BY <1>1, <2>1, <3>3, HappensDoes
        <4>4. seen # "failed"
          BY <1>3, <2>1, <3>3, <4>2, <4>3
        <4>5. QED
          BY <1>2, <1>4, <3>3, <4>1, <4>4
      <3>4. QED
        BY <3>2, <3>3
    <2>2. QED
      BY <2>1 DEF NotCalledAgain
  <1>7. QED
    BY <1>5, <1>6 DEF CallInv

\* An outcome that is recorded frees a webhook only after a refusal, and nobody else calls it.
LEMMA RecordFrees ==
    ASSUME WellFormed, CallInv, NEW w \in Workers, RecordOutcome(w)
    PROVE  CallInv' /\ \A v \in Step : (effect'[v] = "absent") <=> (effect[v] = "absent")
  <1>1. /\ TypeOK /\ WorkersSound /\ effect \in [Step -> Status] /\ worker[w].at = "record"
        /\ StepOf(w) \in Step /\ Webhooks \subseteq Step /\ worker[w].seen \in {"confirmed", "failed", "unknown"}
        /\ \A u \in Workers : worker[u].at \in {"call", "record", "act"} => StepOf(u) \in Step
    BY RecordDoes, Messages, WorkerParts DEF WellFormed, TypeOK, WorkersSound, StepOf, Consuming, Step
  <1>2. calls' = calls
    BY Zenon DEF RecordOutcome
  <1>3. /\ \/ effect' = effect
           \/ effect[StepOf(w)] = "submitted" /\ effect' = [effect EXCEPT ![StepOf(w)] = worker[w].seen]
        /\ \E at \in {"complete", "fail"}, then \in {"ack", "retry", "dead"} :
             Becomes(w, worker[w].msg, at, worker[w].seen, then)
    BY <1>1, RecordDoes, WorkerParts
  <1>4. /\ \A u \in Workers \ {w} : worker'[u] = worker[u] /\ StepOf(u)' = StepOf(u)
        /\ worker'[w].at \in {"complete", "fail"} /\ StepOf(w)' = StepOf(w)
    BY <1>3 DEF Becomes, Others, StepOf
  <1>5. \A v \in Step : (effect'[v] = "absent") <=> (effect[v] = "absent")
    BY <1>1, <1>3
  <1>6. \A v \in Step : effect[v] \in InHand => effect'[v] \in InHand \/ (v = StepOf(w) /\ worker[w].seen = "failed")
    BY <1>1, <1>3 DEF InHand
  <1>7. AskedFor'
    <2>1. ASSUME NEW u \in Workers,
                 worker'[u].at \in {"call", "record"} \/ (worker'[u].at = "act" /\ worker'[u].seen # "absent")
          PROVE  effect'[StepOf(u)'] # "absent"
      <3>1. worker'[u] = worker[u] /\ StepOf(u)' = StepOf(u)
        BY <1>4, <2>1
      <3>2. effect[StepOf(u)] # "absent" /\ StepOf(u) \in Step
        BY <1>1, <2>1, <3>1 DEF CallInv, AskedFor
      <3>3. QED
        BY <1>5, <3>1, <3>2
    <2>2. QED
      BY <2>1 DEF AskedFor
  <1>8. OneCaller'
    <2>1. ASSUME NEW x \in Workers, worker'[x].at \in {"call", "record"}, StepOf(x)' \in Webhooks
         PROVE  /\ effect'[StepOf(x)'] \in InHand
                /\ \A u \in Workers : worker'[u].at \in {"call", "record"} /\ StepOf(u)' = StepOf(x)' => u = x
      <3>1. x # w /\ worker[x].at \in {"call", "record"} /\ StepOf(x) \in Webhooks /\ StepOf(x)' = StepOf(x)
        BY <1>4, <2>1
      <3>2. /\ effect[StepOf(x)] \in InHand
            /\ \A u \in Workers : worker[u].at \in {"call", "record"} /\ StepOf(u) = StepOf(x) => u = x
        BY <3>1 DEF CallInv, OneCaller
      <3>3. StepOf(w) # StepOf(x)
        BY <1>1, <3>1, <3>2
      <3>4. QED
        BY <1>1, <1>4, <1>6, <3>1, <3>2, <3>3
    <2>2. QED
      BY <2>1 DEF OneCaller
  <1>9. NotCalledAgain'
    BY <1>1, <1>2, <1>4, <1>6 DEF CallInv, NotCalledAgain
  <1>10. QED
    BY <1>5, <1>7, <1>8, <1>9 DEF CallInv

\* Every step keeps the calls apart.
LEMMA CallStep == WellFormed /\ CallInv /\ [Next]_vars => CallInv'
  <1> SUFFICES ASSUME WellFormed, CallInv, [Next]_vars PROVE CallInv'
    OBVIOUS
  <1>1. TypeOK /\ WorkersSound /\ effect \in [Step -> Status]
    BY DEF WellFormed, TypeOK
  <1>2. ASSUME NEW w \in Workers, CommitContactAutomationState(w) PROVE CallInv'
    <2>1. /\ calls' = calls /\ Becomes(w, worker[w].msg, "settle", "absent", "ack")
          /\ \/ effect' = effect
             \/ \E x \in Step : /\ \A v \in Step \ {x} : effect'[v] = effect[v]
                                /\ \/ effect' = effect
                                   \/ effect[x] = "absent" /\ effect'[x] = "reserved"
      BY <1>2, CommitTakes
    <2>2. \A v \in Step : (effect[v] # "absent" => effect'[v] # "absent") /\ (effect[v] \in InHand => effect'[v] \in InHand)
      BY <2>1 DEF InHand
    <2>3. QED
      BY <2>1, <2>2, CallAway
  <1>3. ASSUME NEW w \in Workers, GetSideEffect(w) PROVE CallInv'
    <2>1. effect' = effect /\ calls' = calls
      BY <1>3, Zenon DEF GetSideEffect
    <2>2. worker[w].msg \in Commands /\ Becomes(w, worker[w].msg, "act", effect[StepOf(w)], worker[w].then)
      BY <1>1, <1>3, ReadDoes
    <2>3. worker[w].msg[2] \in Step /\ StepOf(w) = worker[w].msg[2]
      BY <1>1, <2>2, Messages, WorkerParts DEF StepOf
    <2>4. QED
      BY <2>1, <2>2, <2>3, CallAway
  <1>4. CASE /\ effect' = effect /\ calls' = calls
             /\ \E w \in Workers, m \in Message, at \in Away, seen \in Status, then \in {"ack", "retry", "dead"} :
                  Becomes(w, m, at, seen, then)
    BY <1>4, CallAway DEF Away
  <1>5. CASE effect' = effect /\ calls' = calls /\ worker' = worker
    BY <1>5 DEF CallInv, AskedFor, OneCaller, NotCalledAgain, StepOf
  <1>6. QED
    BY <1>2, <1>3, <1>4, <1>5, SideEffectCases, SubmitCalls, CallRecords, RecordFrees

\* The abstract variables, as the refinement mapping reads them.
Requested == {v \in Step : effect[v] # "absent"}
Performed == [v \in Step |-> IF calls[v].cut /\ calls[v].n = 2 THEN 1 ELSE calls[v].n]
Unmoved == journey'.ver = journey.ver /\ Requested' = Requested /\ Performed' = Performed

\* A commit takes a step of the journey, or none.
LEMMA CommitRefines ==
    ASSUME WellFormed, NEW w \in Workers, CommitContactAutomationState(w)
    PROVE  Journey!Take \/ Unmoved
  <1>1. CASE journey' = journey /\ effect' = effect
    BY <1>1, CommitTakes DEF Unmoved, Requested, Performed
  <1>2. CASE /\ journey.ver < Steps /\ journey.ver + 1 \in Step /\ journey'.ver = journey.ver + 1
             /\ \A v \in Step \ {journey.ver + 1} : effect'[v] = effect[v]
             /\ \/ effect' = effect
                \/ effect[journey.ver + 1] = "absent" /\ effect'[journey.ver + 1] = "reserved"
    <2>1. Requested' \in {Requested, Requested \cup {journey.ver + 1}}
      <3>1. CASE effect' = effect
        BY <3>1 DEF Requested
      <3>2. CASE effect[journey.ver + 1] = "absent" /\ effect'[journey.ver + 1] = "reserved"
        BY <1>2, <3>2 DEF Requested
      <3>3. QED
        BY <1>2, <3>1, <3>2
    <2>2. Performed' = Performed
      BY CommitTakes DEF Performed
    <2>3. QED
      BY <1>2, <2>1, <2>2 DEF Journey!Take, Requested, Performed
  <1>3. QED
    BY <1>1, <1>2, CommitTakes

\* A call performs the side effect for the first time, or repeats one whose answer was cut.
LEMMA CallRefines ==
    ASSUME WellFormed, CallInv, NEW w \in Workers, ExecuteJourneySideEffect(w)
    PROVE  Journey!Next \/ Unmoved
  <1>1. /\ TypeOK /\ WorkersSound /\ worker[w].at = "call" /\ StepOf(w) \in Step
        /\ calls \in [Step -> [n : 0..2, cut : BOOLEAN]]
    BY CallDoes DEF WellFormed, TypeOK
  <1>2. effect' = effect /\ journey' = journey
    BY Zenon DEF ExecuteJourneySideEffect
  <1>3. Requested' = Requested /\ journey'.ver = journey.ver
    BY <1>2 DEF Requested
  <1>4. CASE calls' = calls
    BY <1>3, <1>4 DEF Unmoved, Performed
  <1>5. ASSUME NEW cut \in BOOLEAN, Happens(StepOf(w), cut), cut => StepOf(w) \in Webhooks
        PROVE  Journey!Next \/ Unmoved
    <2>0. PICK v \in Step : v = StepOf(w)
      BY <1>1
    <2>1. /\ calls'[v].n = IF calls[v].n = 0 THEN 1 ELSE IF v \in Webhooks THEN 2 ELSE calls[v].n
          /\ calls'[v].cut <=> (calls[v].cut \/ cut)
          /\ \A x \in Step \ {v} : calls'[x] = calls[x]
      BY <1>1, <1>5, <2>0, HappensDoes
    <2>2. calls[v].n \in 0..2 /\ v \in Step
      BY <1>1, <2>0
    <2>3. \A x \in Step \ {v} : Performed'[x] = Performed[x]
      BY <2>1 DEF Performed
    <2>4. CASE calls[v].n = 0
      <3>1. v \in Requested
        BY <1>1, <2>0, <2>2 DEF CallInv, AskedFor, Requested
      <3>2. Performed[v] = 0
        BY <2>2, <2>4 DEF Performed
      <3>3. Performed'[v] = 1
        BY <2>1, <2>2, <2>4 DEF Performed
      <3>4. Performed' = [Performed EXCEPT ![v] = 1]
        BY <2>2, <2>3, <3>3 DEF Performed
      <3>5. Journey!Perform(v)
        BY <1>3, <3>1, <3>2, <3>4 DEF Journey!Perform, Requested, Performed
      <3>6. QED
        BY <2>0, <3>5, Zenon DEF Journey!Next, Step
    <2>5. CASE calls[v].n # 0
      <3>1. ASSUME v \in Webhooks, ~calls[v].cut PROVE FALSE
        <4>1. calls[v].n > 0
          BY <2>2, <2>5
        <4>2. \A u \in Workers : worker[u].at \in {"call", "record"} /\ StepOf(u) = v => worker[u].at = "record"
          BY <3>1, <4>1 DEF CallInv, NotCalledAgain
        <4>3. QED
          BY <1>1, <2>0, <4>2
      <3>2. Performed'[v] = Performed[v]
        <4>1. CASE v \in Webhooks
          BY <2>1, <2>2, <2>5, <3>1, <4>1 DEF Performed
        <4>2. CASE v \notin Webhooks
          <5>1. calls'[v].n = calls[v].n /\ (calls'[v].cut <=> calls[v].cut)
            BY <1>5, <2>0, <2>1, <2>5, <4>2
          <5>2. QED
            BY <2>2, <5>1 DEF Performed
        <4>3. QED
          BY <4>1, <4>2
      <3>3. Performed' = Performed
        BY <2>2, <2>3, <3>2 DEF Performed
      <3>4. QED
        BY <1>3, <3>3 DEF Unmoved
    <2>6. QED
      BY <2>4, <2>5
  <1>6. QED
    BY <1>1, <1>4, <1>5, CallDoes

\* JourneyRefined, for journeys of any length: duplicates, takeovers, crashes and lost answers
\* included, the pipeline takes the steps of a journey one by one and performs each side effect
\* at most once, but for a webhook whose answer was cut off.
THEOREM RealtimeImplementsJourney == Spec => JourneyRefined
  <1>1. Init => CallInv
    BY DEF Init, CallInv, AskedFor, OneCaller, NotCalledAgain, IdleWorker, Step
  <1>2. Init => Journey!Init
    BY DEF Init, Journey!Init, Step
  <1>3. WellFormed /\ CallInv /\ [Next]_vars => [Journey!Next]_(Journey!vars)
    <2> SUFFICES ASSUME WellFormed, CallInv, [Next]_vars
                 PROVE  Journey!Next \/ Unmoved
      BY DEF Journey!vars, Unmoved, Requested, Performed
    <2>1. ASSUME NEW w \in Workers, CommitContactAutomationState(w) PROVE Journey!Next \/ Unmoved
      BY <2>1, CommitRefines DEF Journey!Next
    <2>2. ASSUME NEW w \in Workers, ExecuteJourneySideEffect(w) PROVE Journey!Next \/ Unmoved
      BY <2>2, CallRefines
    <2>3. ASSUME NEW w \in Workers, Submit(w) \/ RecordOutcome(w) \/ GetSideEffect(w) PROVE Unmoved
      <3>1. UNCHANGED <<journey, calls>>
        BY <2>3, Zenon DEF Submit, RecordOutcome, GetSideEffect
      <3>2. \A v \in Step : (effect'[v] = "absent") <=> (effect[v] = "absent")
        <4>1. CASE GetSideEffect(w)
          BY <4>1 DEF GetSideEffect
        <4>2. QED
          BY <2>3, <4>1, SubmitCalls, RecordFrees
      <3>3. QED
        BY <3>1, <3>2 DEF Unmoved, Requested, Performed
    <2>4. CASE effect' = effect /\ calls' = calls /\ journey'.ver = journey.ver
      BY <2>4 DEF Unmoved, Requested, Performed
    <2>5. QED
      BY <2>1, <2>2, <2>3, <2>4, SideEffectCases
  <1>4. QED
    BY <1>1, <1>2, <1>3, InitWellFormed, TypeStep, CallStep, PTL DEF Spec, JourneyRefined, Journey!Spec
=============================================================================
