----------------------------- MODULE TaskLease -----------------------------
(***************************************************************************)
(* One row of the tasks table, the executions of ExecuteTask that lease it *)
(* and the requests that change it from outside.                           *)
(*                                                                         *)
(* An execution leases the row in one transaction (MarkAsRunning), runs    *)
(* its processor in a goroutine under a context that is cancelled by a     *)
(* shutdown or by its deadline, and ends with one write.  The row names no *)
(* owner: status and timeout_after are all that other executions see.      *)
(* Pause, resume, cancel, trigger and reset read the row in one            *)
(* transaction and write it in another.                                    *)
(***************************************************************************)
EXTENDS Integers

CONSTANTS
    MaxExecs,     \* bound: executions that are explored
    MaxCursor,    \* bound: units of work of the task
    MaxRetries,   \* tasks.max_retries
    MaxRequests,  \* bound: requests from outside
    Prompt        \* assume that final writes land before the lease runs out

ASSUME TaskBounds ==
    /\ MaxExecs \in Nat /\ MaxCursor \in Nat /\ MaxRetries \in Nat /\ MaxRequests \in Nat
    /\ Prompt \in BOOLEAN

VARIABLES
    task,      \* the row
    exec,      \* the executions
    owner,     \* the execution that wrote the current lease (not in the row)
    kind,      \* what the task does
    broadcast, \* the statuses the broadcast has had; none for any other task
    request,   \* the request being handled, with the row it read
    requests,  \* requests made so far
    fails      \* failures and cancels recorded since the last success (not in the row)

vars == <<task, exec, owner, kind, broadcast, request, requests, fails>>

Execs == 1..MaxExecs

Task == [st : {"absent", "pending", "running", "paused", "completed", "failed"},
         due : BOOLEAN, lease : {"none", "live", "expired"},
         retries : Nat, cursor : 0..MaxCursor]
Exec == [ph : {"idle", "picked", "working", "over"},
         ctx : {"live", "cancelled", "expired"},
         proc : {"running", "completed", "more", "failed", "interrupted"},
         at : 0..MaxCursor, unsaved : BOOLEAN]

\* A broadcast and the build of a segment save their progress as they go; a recurring
\* task keeps it for its end.
Kind == {"broadcast", "segment", "recurring"}
Recurring == kind = "recurring"

NoTask == [st |-> "absent", due |-> FALSE, lease |-> "none", retries |-> 0, cursor |-> 0]
NoExec == [ph |-> "idle", ctx |-> "live", proc |-> "running", at |-> 0, unsaved |-> FALSE]
Op == {"pause", "resume", "cancel", "trigger", "reset"}
NoRequest == [op |-> "none", read |-> NoTask]

Init ==
    /\ task = NoTask
    /\ exec = [e \in Execs |-> NoExec]
    /\ owner = 0
    /\ kind \in Kind
    /\ broadcast = IF kind = "broadcast" THEN {"live"} ELSE {}
    /\ request = NoRequest
    /\ requests = 0
    /\ fails = 0

-----------------------------------------------------------------------------
(* What the statements of the repository write.                            *)

\* GetNextBatch's condition.
Due(t) ==
    \/ t.st \in {"pending", "paused"} /\ t.due
    \/ t.st = "running" /\ t.lease = "expired"

\* Mutant: a running row is never taken over.
StartableUnreaped(t) == t.st \in {"pending", "paused"}

\* Mutant: a running row is taken over before its lease ran out.
StartableUnleased(t) == t.st \in {"pending", "paused", "running"}

\* MarkAsRunningTx's condition.
Startable(t) ==
    \/ t.st \in {"pending", "paused"}
    \/ t.st = "running" /\ t.lease = "expired"

RunningRow(t) == [t EXCEPT !.st = "running", !.lease = "live"]

CompletedRow(t, at) == [t EXCEPT !.st = "completed", !.lease = "none", !.cursor = at]

PendingRow(t, due, at) ==
    [t EXCEPT !.st = "pending", !.due = due, !.lease = "none", !.retries = 0, !.cursor = at]

PausedRow(t, at) ==
    [t EXCEPT !.st = "paused", !.due = FALSE, !.lease = "none", !.cursor = at]

\* Mutant: retry_count counts the remaining attempts down.
FailedRowCountsDown(t) ==
    [t EXCEPT !.st = IF t.retries < MaxRetries THEN "pending" ELSE "failed",
              !.due = FALSE, !.lease = "none", !.retries = t.retries - 1]

\* MarkAsFailedTx: pending for a retry while the budget lasts.
FailedRow(t) ==
    [t EXCEPT !.st = IF t.retries < MaxRetries THEN "pending" ELSE "failed",
              !.due = FALSE, !.lease = "none", !.retries = t.retries + 1]

\* Mutant: an interruption counts as a failed attempt.
ReleasedRowCounted(t, due) ==
    IF t.st = "running"
      THEN [t EXCEPT !.st = "pending", !.due = due, !.lease = "none", !.retries = t.retries + 1] ELSE t

\* ReleaseTaskTx: re-queue a running row, keep retries and state.
ReleasedRow(t, due) ==
    IF t.st = "running" THEN [t EXCEPT !.st = "pending", !.due = due, !.lease = "none"] ELSE t

\* An update of a deleted row changes nothing.
Write(t) == task' = IF task.st = "absent" THEN task ELSE t

MarkAsCompleted(at) == Write(CompletedRow(task, at)) /\ UNCHANGED fails
MarkAsPending(due, at) == Write(PendingRow(task, due, at)) /\ fails' = 0
MarkAsFailed == Write(FailedRow(task)) /\ fails' = fails + 1
ReleaseTask(due) == Write(ReleasedRow(task, due)) /\ UNCHANGED fails

-----------------------------------------------------------------------------
(* Executions.                                                             *)

\* CreateTask, for a broadcast through handleBroadcastScheduled; an id is used once.
CreateTask ==
    /\ task = NoTask /\ requests = 0
    /\ \E now \in BOOLEAN : task' = [NoTask EXCEPT !.st = "pending", !.due = now]
    /\ fails' = 0
    /\ UNCHANGED <<exec, owner, kind, broadcast, request, requests>>

\* The next execution to be explored.
Fresh(e) == exec[e].ph = "idle" /\ \A f \in 1..(e - 1) : exec[f].ph # "idle"

\* ExecutePendingTasks hands a due row of GetNextBatch to an execution.
Dispatch(e) ==
    /\ Due(task)
    /\ Fresh(e)
    /\ exec' = [exec EXCEPT ![e].ph = "picked"]
    /\ UNCHANGED <<task, owner, kind, broadcast, request, requests, fails>>

\* ExecuteTask called for the row directly, due or not.
ExecuteDirectly(e) ==
    /\ task.st # "absent"
    /\ Fresh(e)
    /\ exec' = [exec EXCEPT ![e].ph = "picked"]
    /\ UNCHANGED <<task, owner, kind, broadcast, request, requests, fails>>

\* The setup transaction: read the row, lease it; else ErrTaskAlreadyRunning.
MarkAsRunning(e) ==
    /\ exec[e].ph = "picked"
    /\ IF Startable(task)
         THEN /\ task' = RunningRow(task)
              /\ owner' = e
              /\ exec' = [exec EXCEPT ![e] = [NoExec EXCEPT !.ph = "working", !.at = task.cursor]]
         ELSE /\ exec' = [exec EXCEPT ![e] = NoExec]
              /\ UNCHANGED <<task, owner>>
    /\ UNCHANGED <<kind, broadcast, request, requests, fails>>

\* The processor makes progress in memory, and saves it before it goes on.
Advance(e) ==
    /\ exec[e].ph = "working" /\ exec[e].proc = "running" /\ exec[e].ctx = "live"
    /\ exec[e].at < MaxCursor /\ ~exec[e].unsaved
    /\ exec' = [exec EXCEPT ![e].at = @ + 1, ![e].unsaved = ~Recurring]
    /\ UNCHANGED <<task, owner, kind, broadcast, request, requests, fails>>

\* Mutant: every processor saves on a context of its own, as the broadcast's does.
CanSaveLate(e) == exec[e].proc = "running" /\ exec[e].unsaved

\* A segment build saves on the execution's context.  The broadcast's orchestrator saves on
\* context.Background(): it may do so after its execution was cut off and ended the lease.
CanSave(e) ==
    /\ exec[e].proc = "running" /\ exec[e].unsaved
    /\ kind = "broadcast" \/ exec[e].ctx = "live"

\* SaveStateTx: only into a running row, whoever leased it; otherwise nothing is written
\* and no error is reported.
SaveState(e) ==
    /\ CanSave(e)
    /\ task' = IF task.st = "running" THEN [task EXCEPT !.cursor = exec[e].at] ELSE task
    /\ exec' = [exec EXCEPT ![e].unsaved = FALSE]
    /\ UNCHANGED <<owner, kind, broadcast, request, requests, fails>>

\* The processor returns, or panics, which is a failure; an error that carries a
\* cancellation, its own or its context's, is an interruption.
ProcessorReturns(e) ==
    /\ exec[e].ph = "working" /\ exec[e].proc = "running"
    /\ \E r \in {"completed", "more", "failed", "interrupted"} : exec' = [exec EXCEPT ![e].proc = r, ![e].unsaved = FALSE]
    /\ UNCHANGED <<task, owner, kind, broadcast, request, requests, fails>>

\* The parent context goes away: shutdown, or the dispatcher hung up.
Interrupt(e) ==
    /\ exec[e].ph = "working" /\ exec[e].ctx = "live"
    /\ exec' = [exec EXCEPT ![e].ctx = "cancelled"]
    /\ UNCHANGED <<task, owner, kind, broadcast, request, requests, fails>>

\* timeout + grace: the execution's own deadline.
ContextExpires(e) ==
    /\ exec[e].ph = "working" /\ exec[e].ctx = "live"
    /\ exec' = [exec EXCEPT ![e].ctx = "expired"]
    /\ UNCHANGED <<task, owner, kind, broadcast, request, requests, fails>>

\* ExecuteTask's select, the ctx.Done() branch: the processor may still be unwinding.
CutOff(e) ==
    \/ exec[e].ctx = "cancelled" /\ ReleaseTask(FALSE)
    \/ exec[e].ctx = "expired" /\ MarkAsFailed

\* ... the done branch.
Done(e) ==
    \/ /\ exec[e].proc = "completed"
       /\ IF Recurring THEN MarkAsPending(FALSE, exec[e].at) ELSE MarkAsCompleted(exec[e].at)
    \/ exec[e].proc = "more" /\ MarkAsPending(TRUE, exec[e].at)

\* ... the processErr branch.
ProcessErr(e) ==
    /\ exec[e].proc \in {"failed", "interrupted"}
    /\ IF exec[e].proc = "interrupted" \/ exec[e].ctx = "cancelled" THEN ReleaseTask(TRUE) ELSE MarkAsFailed

\* The end of ExecuteTask; returning cancels the execution's context.
Finish(e) ==
    /\ exec[e].ph = "working"
    /\ CutOff(e) \/ Done(e) \/ ProcessErr(e)
    /\ exec' = [exec EXCEPT ![e].ph = "over",
                            ![e].ctx = IF @ = "live" THEN "cancelled" ELSE @]
    /\ UNCHANGED <<owner, kind, broadcast, request, requests>>

\* The process dies, with all that its memory held.
Crash(e) ==
    /\ exec[e].ph = "working"
    /\ exec' = [exec EXCEPT ![e] = [NoExec EXCEPT !.ph = "over", !.ctx = "expired", !.proc = "interrupted"]]
    /\ UNCHANGED <<task, owner, kind, broadcast, request, requests, fails>>

\* The final write fails, which is only reported; the processor may still be unwinding.
FinishFails(e) ==
    /\ exec[e].ph = "working"
    /\ exec[e].ctx # "live" \/ exec[e].proc # "running"
    /\ exec' = [exec EXCEPT ![e].ph = "over",
                            ![e].ctx = IF @ = "live" THEN "cancelled" ELSE @]
    /\ UNCHANGED <<task, owner, kind, broadcast, request, requests, fails>>

-----------------------------------------------------------------------------
(* Time.                                                                   *)

\* timeout_after is the deadline of the context that was given with it.
LeaseOver ==
    /\ exec[owner].ctx # "live"
    /\ Prompt => exec[owner].ph # "working"

LeaseExpires ==
    /\ task.st = "running" /\ task.lease = "live"
    /\ LeaseOver
    /\ task' = [task EXCEPT !.lease = "expired"]
    /\ UNCHANGED <<exec, owner, kind, broadcast, request, requests, fails>>

\* next_run_after passes.
BecomesDue ==
    /\ task.st \in {"pending", "paused"} /\ ~task.due
    /\ task' = [task EXCEPT !.due = TRUE]
    /\ UNCHANGED <<exec, owner, kind, broadcast, request, requests, fails>>

-----------------------------------------------------------------------------
(* Requests from outside.                                                  *)

\* BroadcastService reads the status without a lock and later updates it without
\* a guard: what it read may be any status the broadcast has had.
BroadcastAllows(op) ==
    CASE op = "pause" -> "live" \in broadcast
      [] op = "resume" -> "paused" \in broadcast
      [] OTHER -> TRUE

BroadcastAfter(op) ==
    CASE op = "pause" -> broadcast \cup {"paused"}
      [] op = "cancel" -> broadcast \cup {"cancelled"}
      [] OTHER -> broadcast

\* The statuses in which each handler goes on after reading the row.
Applies(op, t) ==
    CASE op \in {"pause", "resume", "cancel"} -> t.st # "completed"
      [] op = "trigger" -> t.st \in {"pending", "paused"}
      [] op = "reset" -> t.st = "failed"

\* A broadcast's events reach the task that carries its id; a trigger or a reset of a task
\* without a recurring interval is refused.
RequestsFor(k) ==
    CASE k = "broadcast" -> {"pause", "resume", "cancel"}
      [] k = "recurring" -> {"trigger", "reset"}
      [] OTHER -> {}

\* The handler reads the row; the lock on the broadcast's row keeps the handlers
\* of one broadcast apart.
ReadTask(op) ==
    /\ request.op = "none" /\ requests < MaxRequests
    /\ task.st # "absent"
    /\ op \in RequestsFor(kind) /\ BroadcastAllows(op)
    /\ broadcast' = BroadcastAfter(op)
    /\ requests' = requests + 1
    /\ request' = IF Applies(op, task) THEN [op |-> op, read |-> task] ELSE NoRequest
    /\ UNCHANGED <<task, exec, owner, kind, fails>>

\* handleBroadcastPaused writes the state it read.
PauseTask ==
    /\ request.op = "pause"
    /\ Write(PausedRow(task, request.read.cursor))
    /\ UNCHANGED fails

\* handleBroadcastResumed writes back the whole row it read, pending and due.
ResumeTask ==
    /\ request.op = "resume"
    /\ Write([request.read EXCEPT !.st = "pending", !.due = TRUE, !.retries = 0])
    /\ fails' = 0

\* handleBroadcastCancelled.
CancelTask ==
    /\ request.op = "cancel"
    /\ MarkAsFailed

\* TriggerTask and ResetTask write back the state they read.
TriggerOrReset ==
    /\ request.op \in {"trigger", "reset"}
    /\ MarkAsPending(TRUE, request.read.cursor)

HandleRequest ==
    /\ PauseTask \/ ResumeTask \/ CancelTask \/ TriggerOrReset
    /\ request' = NoRequest
    /\ UNCHANGED <<exec, owner, kind, broadcast, requests>>

\* DeleteTask, in any status.
DeleteTask ==
    /\ requests < MaxRequests
    /\ task.st # "absent"
    /\ task' = NoTask
    /\ requests' = requests + 1
    /\ UNCHANGED <<exec, owner, kind, broadcast, request, fails>>

-----------------------------------------------------------------------------

Execute(e) ==
    MarkAsRunning(e) \/ Advance(e) \/ SaveState(e) \/ ProcessorReturns(e)
    \/ Finish(e) \/ FinishFails(e) \/ Crash(e)

Next ==
    \/ CreateTask \/ LeaseExpires \/ BecomesDue
    \/ \E e \in Execs : \/ Dispatch(e) \/ ExecuteDirectly(e) \/ Execute(e)
                        \/ Interrupt(e) \/ ContextExpires(e)
    \/ \E op \in Op : ReadTask(op)
    \/ HandleRequest \/ DeleteTask

Spec == Init /\ [][Next]_vars

\* The scheduler polls, clocks advance, and an execution is bounded by its context.
Fairness ==
    /\ WF_vars(LeaseExpires) /\ WF_vars(BecomesDue) /\ WF_vars(HandleRequest)
    /\ \A e \in Execs :
         /\ WF_vars(Dispatch(e)) /\ WF_vars(ContextExpires(e))
         /\ WF_vars(MarkAsRunning(e)) /\ WF_vars(Finish(e))

FairSpec == Spec /\ Fairness

-----------------------------------------------------------------------------
(* Properties.                                                             *)

\* Row, executions and request hold values of their types.
TypeOK ==
    /\ task \in Task
    /\ exec \in [Execs -> Exec]
    /\ owner \in 0..MaxExecs
    /\ kind \in Kind
    /\ broadcast \subseteq {"live", "paused", "cancelled"}
    /\ request \in [op : Op \cup {"none"}, read : Task]
    /\ requests \in 0..MaxRequests
    /\ fails \in Nat

\* The processor of e runs under a context that nobody ended.
Alive(e) == exec[e].ph = "working" /\ exec[e].ctx = "live" /\ exec[e].proc = "running"

\* Two processors never work on the same task at the same time, whatever crashes,
\* interruptions, expired leases and doubled dispatches (MarkAsRunningTx).
Exclusive == \A e, f \in Execs : Alive(e) /\ Alive(f) => e = f

\* Saved progress never goes back: no execution overwrites what a later one saved, nor ends
\* the row with less than was saved.  Not for a broadcast: an orchestrator that was cut off
\* saves late, into the row as its successor runs it.
ProgressKept ==
    [][kind # "broadcast" /\ task.st # "absent" /\ task'.st # "absent"
         => task'.cursor >= task.cursor]_vars

\* A task is given up only after more than MaxRetries failures in a row;
\* interruptions and pauses do not count (ReleaseTaskTx, MarkAsPausedTx).  A cancel is
\* recorded like a failure and counts as one.
GivenUpIsEarned == task.st = "failed" => fails > MaxRetries

\* A row whose execution died does not stay running: it is taken over, or ended
\* (the stale-running reap of MarkAsRunningTx).
StaleRunningReaped ==
    \A e \in Execs : (task.st = "running" /\ owner = e) ~>
      \/ task.st # "running" \/ owner # e
      \/ \A f \in Execs : exec[f].ph = "over"
=============================================================================
