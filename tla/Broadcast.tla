----------------------------- MODULE Broadcast -----------------------------
(***************************************************************************)
(* One broadcast: its row, its task, the runs of the orchestrator that     *)
(* enqueue it, the queue rows of its recipients, and the requests that     *)
(* pause, resume, cancel it or select the winner of its A/B test.          *)
(*                                                                         *)
(* A run reads the row at several points and writes it whole, guarded only *)
(* against cancelled and processed rows.  Requests read the row without a  *)
(* lock, then write its status without a guard.  Recipients are numbered   *)
(* in the order of the keyset cursor.                                      *)
(***************************************************************************)
EXTENDS Integers, FiniteSets

CONSTANTS
    MaxAudience,  \* bound: recipients
    Percent,      \* sample_percentage of the A/B test
    BatchSize,    \* FetchBatchSize
    MaxRetries,   \* tasks.max_retries
    MaxOps,       \* bound: requests
    MaxFaults,    \* bound: database errors, interruptions, crashes
    Testing,      \* test_settings.enabled
    AutoWinner,   \* auto_send_winner
    Serial        \* are requests made one after another?

ASSUME BroadcastAssumption ==
    /\ MaxAudience \in Nat /\ Percent \in 1..100 /\ BatchSize \in Nat \ {0}
    /\ MaxRetries \in Nat /\ MaxOps \in Nat /\ MaxFaults \in Nat
    /\ Testing \in BOOLEAN /\ AutoWinner \in BOOLEAN /\ Serial \in BOOLEAN

VARIABLES
    bc,        \* the broadcasts row
    task,      \* its task
    run,       \* the runs of Process, by slot
    rows,      \* by effect key: no intent, an intent alone, or one with a queue row
    handled,   \* recipients a run has dealt with (not stored)
    req,       \* requests between their read and their write, with the row they read
    event,     \* a paused event that is still being delivered
    audience,  \* recipients of the snapshot
    ops, faults

vars == <<bc, task, run, rows, handled, req, event, audience, ops, faults>>

Runs == {1, 2}
Recipient == 1..MaxAudience
Variation == {"A", "B"}
Op == {"pause", "resume", "cancel", "selectA", "selectB"}
Keys == Recipient \X {"single", "test", "winner"} \X Variation
Phase == {"none", "single", "test", "winner"}  \* "none" is the empty phase

Row == [st : {"draft", "scheduled", "processing", "testing", "test_completed",
              "winner_selected", "paused", "processed", "cancelled", "failed"},
        win : Variation \cup {"none"},
        completed : BOOLEAN, started : BOOLEAN, future : BOOLEAN, prepared : BOOLEAN]
Task == [st : {"absent", "pending", "running", "paused", "completed", "failed"},
         due : BOOLEAN, phase : Phase, off : 0..MaxAudience, total : 0..MaxAudience, retries : 0..(MaxRetries + 1)]
Draft == [st |-> "draft", win |-> "none", completed |-> FALSE, started |-> FALSE,
          future |-> FALSE, prepared |-> FALSE]
NoTask == [st |-> "absent", due |-> FALSE, phase |-> "none", off |-> 0, total |-> 0, retries |-> 0]

Point == {"idle", "load", "prepare", "evaluate", "testing", "loop", "next", "pausing", "send",
          "save", "feed", "tested", "finish", "finalize", "finalized", "end"}
Run == [at : Point, live : BOOLEAN, res : {"more", "completed", "failed"}, bc : Row, phase : Phase,
        off : 0..MaxAudience, total : 0..MaxAudience, i : 0..MaxAudience,
        templates : SUBSET Variation, win : Variation \cup {"none"}, last : BOOLEAN]
NoRun == [at |-> "idle", live |-> FALSE, res |-> "more", bc |-> Draft, phase |-> "none", off |-> 0,
          total |-> 0, i |-> 0, templates |-> {}, win |-> "none", last |-> FALSE]

Init ==
    /\ bc = Draft
    /\ task = NoTask
    /\ run = [r \in Runs |-> NoRun]
    /\ rows = [k \in Keys |-> "none"]
    /\ handled = {}
    /\ req = [op \in Op |-> Draft]
    /\ event = FALSE
    /\ audience \in {0, MaxAudience}
    /\ ops = 0 /\ faults = 0

-----------------------------------------------------------------------------
(* What the statements write.                                              *)

\* Mutant: the update does not look at the stored status.
WritableAlways(b) == b.st # "absent"

\* The guard of UpdateBroadcastTx.
Writable(b) == b.st \notin {"cancelled", "processed"}

\* deleteBySourceSQL; the intents stay.  "pending" stands for every row that can be
\* claimed, failed ones that will be retried included; rows that a worker took are out
\* of reach of the three statements and of this module.
DeletedRows == [k \in Keys |-> IF rows[k] \in {"pending", "paused"} THEN "intent" ELSE rows[k]]

\* Mutant: a status that no other statement knows.
PausedRowsMisnamed == [k \in Keys |-> IF rows[k] = "pending" THEN "suspended" ELSE rows[k]]

\* pauseBySourceSQL and resumeBySourceSQL.
PausedRows == [k \in Keys |-> IF rows[k] = "pending" THEN "paused" ELSE rows[k]]
ResumedRows == [k \in Keys |-> IF rows[k] = "paused" THEN "pending" ELSE rows[k]]

\* MarkAsFailed: a retry while the budget lasts.
FailedTask ==
    [task EXCEPT !.st = IF task.retries < MaxRetries THEN "pending" ELSE "failed", !.due = FALSE,
                 !.retries = IF task.retries > MaxRetries THEN @ ELSE @ + 1]

\* MarkAsPending and MarkAsCompleted, with the state of run r.
SavedTask(r, st) ==
    [task EXCEPT !.st = st, !.due = TRUE, !.phase = run[r].phase, !.off = run[r].off, !.total = run[r].total,
                 !.retries = IF st = "pending" THEN 0 ELSE @]

Fault == faults < MaxFaults /\ faults' = faults + 1

\* The size of the test sample.
TestCount(total) == IF (total * Percent) \div 100 < 1 THEN 1 ELSE (total * Percent) \div 100

\* The number of recipients at which run r stops.
Limit(r) == IF run[r].phase = "test" THEN TestCount(run[r].total) ELSE run[r].total

WinnerKnown(b) == b.win # "none" \/ b.st = "winner_selected"

Go(r, new) == run' = [run EXCEPT ![r] = new]
At(r, at) == run[r].at = at

\* Process returns: what it leaves is its result and the task's state in memory.
Ended(r, res) ==
    [NoRun EXCEPT !.at = "end", !.res = res, !.live = run[r].live,
                  !.phase = run[r].phase, !.off = run[r].off, !.total = run[r].total]
Return(r, res) == Go(r, Ended(r, res))

\* Returning an error runs the deferred function, which acts on the last retry.
ReturnError(r) ==
    Go(r, [Ended(r, "failed") EXCEPT !.at = IF run[r].last THEN "finalize" ELSE "end"])

-----------------------------------------------------------------------------
(* A run: ExecuteTask leases the task, Process works through its points.   *)

ScheduleBroadcast ==
    /\ bc.st = "draft"
    /\ \E now \in BOOLEAN :
         /\ bc' = [bc EXCEPT !.st = IF now THEN "processing" ELSE "scheduled",
                             !.started = now, !.future = ~now]
         /\ task' = [NoTask EXCEPT !.st = "pending", !.due = now]
    /\ UNCHANGED <<run, rows, handled, req, event, audience, ops, faults>>

\* The scheduled time passes.
TimeComes ==
    /\ bc.future
    /\ bc' = [bc EXCEPT !.future = FALSE]
    /\ task' = [task EXCEPT !.due = TRUE]
    /\ UNCHANGED <<run, rows, handled, req, event, audience, ops, faults>>

NoLiveRun == \A r \in Runs : ~run[r].live

\* MarkAsRunning takes a task that is due, or a running one whose lease ended.  A retry
\* or a pause puts next_run_after past the deadline of every run under way.
StartRun(r) ==
    /\ At(r, "idle") /\ (r = 1 \/ ~At(1, "idle"))
    /\ ~bc.future
    /\ \/ task.st \in {"pending", "paused"} /\ (task.due \/ NoLiveRun)
       \/ task.st = "running" /\ NoLiveRun
    /\ task' = [task EXCEPT !.st = "running"]
    /\ Go(r, [NoRun EXCEPT !.at = "load", !.live = TRUE, !.phase = task.phase, !.off = task.off,
                           !.total = task.total, !.last = task.retries >= MaxRetries - 1])
    /\ UNCHANGED <<bc, rows, handled, req, event, audience, ops, faults>>

\* ensureExecutionAudience reads the row, prepares a snapshot, writes the row and returns.
ReadToPrepare(r) ==
    /\ At(r, "load") /\ run[r].live /\ ~bc.prepared
    /\ Go(r, [run[r] EXCEPT !.at = "prepare", !.bc = bc])
    /\ UNCHANGED <<bc, task, rows, handled, req, event, audience, ops, faults>>

PrepareAudience(r) ==
    /\ At(r, "prepare") /\ run[r].live
    /\ IF Writable(bc) THEN bc' = [run[r].bc EXCEPT !.prepared = TRUE] /\ Return(r, "more")
                       ELSE ReturnError(r) /\ UNCHANGED bc
    /\ UNCHANGED <<task, rows, handled, req, event, audience, ops, faults>>

\* The first run only counts; without recipients the broadcast is done.
CountRecipients(r) ==
    /\ At(r, "load") /\ run[r].live /\ bc.prepared /\ run[r].total = 0
    /\ IF audience > 0
         THEN Go(r, [Ended(r, "more") EXCEPT !.total = audience]) /\ UNCHANGED bc
       ELSE IF Writable(bc)
         THEN bc' = [bc EXCEPT !.st = "processed", !.completed = TRUE] /\ Return(r, "completed")
         ELSE ReturnError(r) /\ UNCHANGED bc
    /\ UNCHANGED <<task, rows, handled, req, event, audience, ops, faults>>

\* The phase of a run that has none yet.
OpeningPhase(r, b) ==
    IF ~Testing THEN "single"
    ELSE IF run[r].phase # "none" THEN run[r].phase
    ELSE CASE b.st = "processing" -> IF b.win # "none" THEN "winner" ELSE "test"
           [] b.st = "testing" -> "test"
           [] b.st = "winner_selected" -> "winner"
           [] OTHER -> "none"

\* The templates a phase loads, and the phase that starts sending.
Sending(r, b, phase) ==
    [run[r] EXCEPT !.at = "loop", !.bc = b,
                   !.phase = IF phase = "test" /\ WinnerKnown(b) THEN "winner" ELSE phase,
                   !.templates = IF phase = "winner" THEN {b.win}
                                 ELSE IF Testing THEN Variation ELSE {"A"}]

\* The row as it stands decides the phase; a winner phase needs a winner.
LoadPhase(r) ==
    /\ At(r, "load") /\ run[r].live /\ bc.prepared /\ run[r].total > 0
    /\ LET phase == OpeningPhase(r, bc) IN
         IF phase = "winner" /\ bc.win = "none" THEN Return(r, "failed")
         ELSE IF Testing /\ run[r].phase = "none" /\ bc.st = "processing" /\ phase = "test"
           THEN Go(r, [run[r] EXCEPT !.at = "testing", !.bc = bc, !.phase = "test"])
         ELSE Go(r, Sending(r, bc, phase))
    /\ UNCHANGED <<bc, task, rows, handled, req, event, audience, ops, faults>>

\* The test phase is announced on the row.
MarkTesting(r) ==
    /\ At(r, "testing") /\ run[r].live
    /\ IF Writable(bc)
         THEN /\ bc' = [run[r].bc EXCEPT !.st = "testing"]
              /\ Go(r, Sending(r, [run[r].bc EXCEPT !.st = "testing"], "test"))
         ELSE Return(r, "failed") /\ UNCHANGED bc
    /\ UNCHANGED <<task, rows, handled, req, event, audience, ops, faults>>

\* EvaluateAndSelectWinner, once the test has run its time: read, score, write.
ReadToEvaluate(r) ==
    /\ At(r, "load") /\ run[r].live /\ bc.prepared /\ run[r].total > 0
    /\ AutoWinner /\ run[r].phase = "test" /\ bc.st = "test_completed"
    /\ Go(r, [run[r] EXCEPT !.at = "evaluate", !.bc = bc])
    /\ UNCHANGED <<bc, task, rows, handled, req, event, audience, ops, faults>>

EvaluateWinner(r) ==
    /\ At(r, "evaluate") /\ run[r].live
    /\ IF Writable(bc)
         THEN \E v \in Variation :
                /\ bc' = [run[r].bc EXCEPT !.win = v, !.st = "winner_selected"]
                /\ Go(r, Sending(r, bc', "winner"))
         ELSE Go(r, Sending(r, bc, "test")) /\ UNCHANGED bc
    /\ UNCHANGED <<task, rows, handled, req, event, audience, ops, faults>>

\* Mutant: a run that sees the cancellation just stops.
RefreshKeepsRows(r) ==
    /\ At(r, "loop") /\ run[r].live
    /\ CASE bc.st = "cancelled" -> Return(r, "completed")
         [] bc.st = "paused" -> Go(r, [run[r] EXCEPT !.at = "pausing"])
         [] OTHER -> Go(r, [run[r] EXCEPT !.at = "next", !.bc = bc,
                              !.phase = IF @ = "test" /\ WinnerKnown(bc) THEN "winner" ELSE @])
    /\ UNCHANGED <<bc, task, rows, handled, req, event, audience, ops, faults>>

\* The loop starts by looking at the row again.
Refresh(r) ==
    /\ At(r, "loop") /\ run[r].live
    /\ CASE bc.st = "cancelled" -> rows' = DeletedRows /\ Return(r, "completed")
         [] bc.st = "paused" -> Go(r, [run[r] EXCEPT !.at = "pausing"]) /\ UNCHANGED rows
         [] OTHER -> /\ Go(r, [run[r] EXCEPT !.at = "next", !.bc = bc,
                                  !.phase = IF @ = "test" /\ WinnerKnown(bc) THEN "winner" ELSE @])
                     /\ UNCHANGED rows
    /\ UNCHANGED <<bc, task, handled, req, event, audience, ops, faults>>

\* A read that fails is ignored: the run goes on with the row it has.
SkipRefresh(r) ==
    /\ At(r, "loop")
    /\ IF run[r].live THEN Fault ELSE UNCHANGED faults
    /\ Go(r, [run[r] EXCEPT !.at = "next"])
    /\ UNCHANGED <<bc, task, rows, handled, req, event, audience, ops>>

\* Mutant: a run that sees the pause just stops.
PauseQueueEntriesNot(r) ==
    /\ At(r, "pausing")
    /\ Return(r, "more")
    /\ UNCHANGED <<bc, task, rows, handled, req, event, audience, ops, faults>>

\* A paused row stops the run; rows enqueued since the pause are paused too.
PauseQueueEntries(r) ==
    /\ At(r, "pausing")
    /\ rows' = IF run[r].live THEN PausedRows ELSE rows
    /\ Return(r, "more")
    /\ UNCHANGED <<bc, task, handled, req, event, audience, ops, faults>>

\* The run's time is up.
Timeout(r) ==
    /\ At(r, "next")
    /\ Return(r, "more")
    /\ UNCHANGED <<bc, task, rows, handled, req, event, audience, ops, faults>>

\* All recipients of the phase are done: a test waits for its winner, unless known.
PhaseComplete(r) ==
    /\ At(r, "next") /\ run[r].off >= Limit(r)
    /\ IF run[r].phase # "test" THEN Go(r, [run[r] EXCEPT !.at = "finish"])
       ELSE IF WinnerKnown(run[r].bc) THEN Go(r, [run[r] EXCEPT !.at = "loop", !.phase = "winner"])
       ELSE IF run[r].live /\ WinnerKnown(bc)
         THEN Go(r, [Ended(r, "more") EXCEPT !.phase = "winner"])
       ELSE Go(r, [run[r] EXCEPT !.at = "tested"])
    /\ UNCHANGED <<bc, task, rows, handled, req, event, audience, ops, faults>>

\* handleTestPhaseCompletion writes the row of the last refresh.
TestCompleted(r) ==
    /\ At(r, "tested")
    /\ bc' = IF Writable(bc) THEN [run[r].bc EXCEPT !.st = "test_completed"] ELSE bc
    /\ Return(r, "more")
    /\ UNCHANGED <<task, rows, handled, req, event, audience, ops, faults>>

\* FetchBatch after the cursor; SendBatch reads the row once more.
FetchBatch(r) ==
    /\ At(r, "next") /\ run[r].live /\ run[r].off < Limit(r)
    /\ IF bc.st = "cancelled" THEN Return(r, "completed")
       ELSE Go(r, [run[r] EXCEPT !.at = "send", !.i = run[r].off, !.win = bc.win])
    /\ UNCHANGED <<bc, task, rows, handled, req, event, audience, ops, faults>>

\* selectStableBroadcastTemplate: the hash of the recipient picks among the loaded ones.
Template(r, rcp) ==
    IF run[r].win \in run[r].templates THEN run[r].win
    ELSE IF run[r].templates = Variation THEN IF rcp % 2 = 1 THEN "A" ELSE "B"
    ELSE CHOOSE v \in run[r].templates : TRUE

\* Mutant: every run makes its own keys, as random message ids would.
EffectKeyPerRun(r, rcp) == <<rcp, IF r = 1 THEN "single" ELSE "test", Template(r, rcp)>>

\* broadcastDeliveryEffectKey.
EffectKey(r, rcp) ==
    <<rcp, IF run[r].phase = "none" THEN "single" ELSE run[r].phase, Template(r, rcp)>>

BatchOver(r) == run[r].i = Limit(r) \/ run[r].i = run[r].off + BatchSize

\* One recipient of the batch: an intent with a queue row, an intent alone (suppressed,
\* deferred, no usable entry), or nothing, when the key exists.
SendRecipient(r) ==
    /\ At(r, "send") /\ run[r].live /\ ~BatchOver(r)
    /\ LET rcp == run[r].i + 1
           k == EffectKey(r, rcp)
       IN /\ \/ rows[k] = "none" /\ \E new \in {"intent", "pending"} : rows' = [rows EXCEPT ![k] = new]
             \/ rows[k] # "none" /\ UNCHANGED rows
          /\ handled' = handled \cup {rcp}
          /\ Go(r, [run[r] EXCEPT !.i = rcp])
    /\ UNCHANGED <<bc, task, req, event, audience, ops, faults>>

\* Mutant: a batch that failed counts as processed.
EndBatchSkips(r) ==
    /\ At(r, "send")
    /\ Go(r, [run[r] EXCEPT !.at = "save", !.i = 0, !.win = "none",
                            !.off = IF @ + BatchSize > Limit(r) THEN Limit(r) ELSE @ + BatchSize])
    /\ UNCHANGED <<bc, task, rows, handled, req, event, audience, ops, faults>>

\* The batch ends, or runs out of time after any recipient: advance past the processed ones.
EndBatch(r) ==
    /\ At(r, "send")
    /\ Go(r, [run[r] EXCEPT !.at = "save", !.off = run[r].i, !.i = 0, !.win = "none"])
    /\ UNCHANGED <<bc, task, rows, handled, req, event, audience, ops, faults>>

\* SaveProgressState, on a context of its own: a run that was cut off still saves.
SaveProgress(r) ==
    /\ At(r, "save")
    /\ task' = IF task.st = "running"
                 THEN [task EXCEPT !.off = run[r].off, !.phase = run[r].phase, !.total = run[r].total]
                 ELSE task
    /\ Go(r, [run[r] EXCEPT !.at = "loop"])
    /\ UNCHANGED <<bc, rows, handled, req, event, audience, ops, faults>>

\* A recipient feed fails: the broadcast is to be paused.
FeedFails(r) ==
    /\ At(r, "send") /\ run[r].live /\ Fault
    /\ Go(r, [run[r] EXCEPT !.at = "feed", !.bc = bc])
    /\ UNCHANGED <<bc, task, rows, handled, req, event, audience, ops>>

\* ... which is written over the row, with its queue rows; the event goes out on its own.
PauseForFeed(r) ==
    /\ At(r, "feed") /\ run[r].live
    /\ IF Writable(bc)
         THEN bc' = [run[r].bc EXCEPT !.st = "paused"] /\ rows' = PausedRows /\ event' = TRUE
         ELSE UNCHANGED <<bc, rows, event>>
    /\ Return(r, "failed")
    /\ UNCHANGED <<task, handled, req, audience, ops, faults>>

\* Everything is enqueued; a blast without a phase leaves the status alone.
Finish(r) ==
    /\ At(r, "finish")
    /\ IF Writable(bc)
         THEN /\ bc' = IF run[r].phase = "none" THEN run[r].bc
                       ELSE [run[r].bc EXCEPT !.st = "processed", !.completed = TRUE]
              /\ Return(r, "completed")
         ELSE ReturnError(r) /\ UNCHANGED bc
    /\ UNCHANGED <<task, rows, handled, req, event, audience, ops, faults>>

\* A statement of the run fails; without a live context every one does.
Fail(r) ==
    /\ run[r].at \in {"load", "prepare", "evaluate", "testing", "next", "send", "save", "feed"}
    /\ IF run[r].live THEN Fault ELSE UNCHANGED faults
    /\ ReturnError(r)
    /\ UNCHANGED <<bc, task, rows, handled, req, event, audience, ops>>

\* The deferred function reads the row on a context that nothing cancels ...
ReadToFinalize(r) ==
    /\ At(r, "finalize")
    /\ Go(r, [run[r] EXCEPT !.at = "finalized", !.bc = bc])
    /\ UNCHANGED <<bc, task, rows, handled, req, event, audience, ops, faults>>

\* ... and gives the broadcast up, or pauses it when the run was interrupted.
FinalizeStatus(r) ==
    /\ At(r, "finalized")
    /\ bc' = IF Writable(bc)
               THEN [run[r].bc EXCEPT !.st = IF run[r].live THEN "failed" ELSE "paused"]
               ELSE bc
    /\ Return(r, "failed")
    /\ UNCHANGED <<task, rows, handled, req, event, audience, ops, faults>>

\* The end of ExecuteTask; the task of a run that was cut off has been written before.
EndRun(r) ==
    /\ At(r, "end")
    /\ task' = IF ~run[r].live THEN task
               ELSE CASE run[r].res = "more" -> SavedTask(r, "pending")
                      [] run[r].res = "completed" -> SavedTask(r, "completed")
                      [] OTHER -> FailedTask
    /\ Go(r, NoRun)
    /\ UNCHANGED <<bc, rows, handled, req, event, audience, ops, faults>>

\* A shutdown releases the task, a passed deadline fails it; Process is still unwinding.
CutOff(r) ==
    /\ run[r].at # "idle" /\ run[r].live /\ Fault
    /\ \/ task' = IF task.st = "running" THEN [task EXCEPT !.st = "pending", !.due = FALSE] ELSE task
       \/ task' = FailedTask
    /\ Go(r, [run[r] EXCEPT !.live = FALSE])
    /\ UNCHANGED <<bc, rows, handled, req, event, audience, ops>>

\* The process of the run dies.
Crash(r) ==
    /\ run[r].at # "idle" /\ Fault
    /\ Go(r, NoRun)
    /\ UNCHANGED <<bc, task, rows, handled, req, event, audience, ops>>

-----------------------------------------------------------------------------
(* Requests: read, check, write, with the task's handler inside.           *)

Allowed(op, b) ==
    CASE op = "pause" -> b.st \in {"processing", "processed"}
      [] op = "resume" -> b.st = "paused"
      [] op = "cancel" -> b.st \in {"scheduled", "paused", "processing", "processed"}
      [] OTHER -> \/ b.st = "test_completed"
                  \/ Testing /\ ~AutoWinner /\ b.st \in {"testing", "processing"}

ReadToChange(op) ==
    /\ ops < MaxOps /\ req[op].st = "draft"
    /\ Serial => \A o \in Op : req[o].st = "draft"
    /\ Allowed(op, bc)
    /\ req' = [req EXCEPT ![op] = bc]
    /\ ops' = ops + 1
    /\ UNCHANGED <<bc, task, run, rows, handled, event, audience, faults>>

\* UpdateBroadcastStatusTx: the lifecycle columns of the row that was read.
StatusWrite(b, st, started) ==
    bc' = [bc EXCEPT !.st = st, !.started = started, !.completed = b.completed]

\* The handler's write of the task, unless it completed; it may fail, which is only
\* logged, or outlive a transaction that is rolled back.
Handled(t) ==
    LET new == IF task.st \in {"absent", "completed"} THEN task ELSE t IN
      \/ task' = new /\ UNCHANGED faults
      \/ Fault /\ UNCHANGED task

HandledAlone(t) ==
    /\ Fault
    /\ task' = IF task.st \in {"absent", "completed"} THEN task ELSE t
    /\ UNCHANGED <<bc, rows>>

PauseBroadcast ==
    /\ req["pause"].st # "draft"
    /\ LET t == [task EXCEPT !.st = "paused", !.due = FALSE] IN
       \/ /\ StatusWrite(req["pause"], "paused", req["pause"].started)
          /\ rows' = PausedRows
          /\ Handled(t)
       \/ HandledAlone(t)
    /\ req' = [req EXCEPT !["pause"] = Draft]
    /\ UNCHANGED <<run, handled, event, audience, ops>>

\* Back to processed when everything is enqueued, to scheduled while its time is ahead.
ResumeBroadcast ==
    /\ req["resume"].st # "draft"
    /\ LET b == req["resume"]
           st == IF b.completed THEN "processed"
                 ELSE IF bc.future /\ ~b.started THEN "scheduled" ELSE "processing"
           t == [task EXCEPT !.st = "pending", !.due = TRUE, !.retries = 0]
       IN \/ /\ StatusWrite(b, st, b.started \/ st = "processing")
             /\ rows' = ResumedRows
             /\ Handled(t)
          \/ HandledAlone(t)
    /\ req' = [req EXCEPT !["resume"] = Draft]
    /\ UNCHANGED <<run, handled, event, audience, ops>>

CancelBroadcast ==
    /\ req["cancel"].st # "draft"
    /\ \/ /\ StatusWrite(req["cancel"], "cancelled", req["cancel"].started)
          /\ rows' = DeletedRows
          /\ Handled(FailedTask)
       \/ HandledAlone(FailedTask)
    /\ req' = [req EXCEPT !["cancel"] = Draft]
    /\ UNCHANGED <<run, handled, event, audience, ops>>

\* SelectWinner writes the whole row, under the guard, and wakes the task.
SelectWinner(v) ==
    LET op == IF v = "A" THEN "selectA" ELSE "selectB" IN
    /\ req[op].st # "draft"
    /\ IF Writable(bc)
         THEN /\ bc' = [req[op] EXCEPT !.win = v, !.st = "winner_selected"]
              /\ task' = IF task.st = "absent" THEN task ELSE [task EXCEPT !.st = "pending", !.due = TRUE]
         ELSE UNCHANGED <<bc, task>>
    /\ req' = [req EXCEPT ![op] = Draft]
    /\ UNCHANGED <<run, rows, handled, event, audience, ops, faults>>

\* The event of PauseForFeed reaches handleBroadcastPaused.
HandlePausedEvent ==
    /\ event
    /\ event' = FALSE
    /\ task' = IF task.st = "completed" THEN task ELSE [task EXCEPT !.st = "paused", !.due = FALSE]
    /\ UNCHANGED <<bc, run, rows, handled, req, audience, ops, faults>>

-----------------------------------------------------------------------------

\* Every step the processor takes by itself.
Process(r) ==
    \/ ReadToPrepare(r) \/ PrepareAudience(r) \/ CountRecipients(r) \/ LoadPhase(r)
    \/ MarkTesting(r) \/ ReadToEvaluate(r) \/ EvaluateWinner(r)
    \/ Refresh(r) \/ PauseQueueEntries(r) \/ PhaseComplete(r) \/ TestCompleted(r)
    \/ FetchBatch(r) \/ SendRecipient(r) \/ EndBatch(r) \/ SaveProgress(r)
    \/ PauseForFeed(r) \/ Finish(r) \/ ReadToFinalize(r) \/ FinalizeStatus(r) \/ EndRun(r)

Change == PauseBroadcast \/ ResumeBroadcast \/ CancelBroadcast \/ \E v \in Variation : SelectWinner(v)

Next ==
    \/ ScheduleBroadcast \/ TimeComes \/ HandlePausedEvent \/ Change
    \/ \E r \in Runs : \/ StartRun(r) \/ Process(r) \/ Timeout(r) \/ SkipRefresh(r)
                       \/ FeedFails(r) \/ Fail(r) \/ CutOff(r) \/ Crash(r)
    \/ \E op \in Op : ReadToChange(op)

Spec == Init /\ [][Next]_vars

\* The scheduler polls and a run that is not held up works on; a request that has read
\* the row writes it.
FairSpec ==
    /\ Spec
    /\ WF_vars(Change) /\ WF_vars(HandlePausedEvent)
    /\ \A r \in Runs : WF_vars(StartRun(r)) /\ WF_vars(Process(r) \/ (~run[r].live /\ Fail(r)))

-----------------------------------------------------------------------------
(* Properties.                                                             *)

\* Rows, runs and requests hold values of their types.
TypeOK ==
    /\ bc \in Row /\ task \in Task
    /\ run \in [Runs -> Run]
    /\ rows \in [Keys -> {"none", "intent", "pending", "paused"}] /\ handled \in SUBSET Recipient
    /\ req \in [Op -> Row]
    /\ event \in BOOLEAN /\ audience \in 0..MaxAudience
    /\ ops \in 0..MaxOps /\ faults \in 0..MaxFaults

\* A cursor, saved or in memory, has no recipient behind it that was not dealt with, so
\* a broadcast that counts as completely enqueued has skipped nobody, whatever run
\* failed, crashed, was cut off, resumed or overlapped with another (orchestrator.go,
\* the end of a batch).
NoneSkipped ==
    /\ 1..task.off \subseteq handled
    /\ \A r \in Runs : 1..run[r].off \subseteq handled
    /\ bc.completed => 1..audience \subseteq handled

\* However often the cursor is replayed, by a retry, a resumed or an overlapping run,
\* a recipient gets one delivery (broadcastDeliveryEffectKey and the unique index).
OneEmailEach ==
    \A rcp \in Recipient : Cardinality({k \in Keys : k[1] = rcp /\ rows[k] # "none"}) <= 1

\* Whatever a run writes from the row it read before, a cancelled broadcast stays
\* cancelled: the guard of UpdateBroadcastTx.
CancelIsFinal == [][bc.st = "cancelled" => bc'.st = "cancelled"]_vars

\* What a run enqueues while the broadcast is being cancelled does not stay in the
\* queue: the run sees the cancellation and deletes it (deleteQueueEntries).
CancelDrains ==
    (bc.st = "cancelled" /\ faults = 0) ~>
      (faults > 0 \/ \A k \in Keys : rows[k] \notin {"pending", "paused"})

\* The same for a pause: rows enqueued late are paused as well (pauseQueueEntries).
PauseDrains ==
    (bc.st = "paused" /\ faults = 0) ~>
      (faults > 0 \/ bc.st # "paused" \/ \A k \in Keys : rows[k] # "pending")
=============================================================================
