-------------------------- MODULE TaskLeaseProofs --------------------------
(* Machine-checked facts about TaskLease, for every number of executions and  *)
(* requests, every budget of retries and every amount of work.                *)
EXTENDS TaskLease, TLAPS

USE TaskBounds

-----------------------------------------------------------------------------
(* Types.                                                                   *)

\* The rows that the repository's statements write are rows.
LEMMA RowsTyped ==
    ASSUME NEW t \in Task, NEW due \in BOOLEAN, NEW at \in 0..MaxCursor
    PROVE  /\ RunningRow(t) \in Task
           /\ CompletedRow(t, at) \in Task /\ PendingRow(t, due, at) \in Task
           /\ PausedRow(t, at) \in Task /\ FailedRow(t) \in Task /\ ReleasedRow(t, due) \in Task
  <1>1. t.retries + 1 \in Nat
    BY DEF Task
  <1>2. RunningRow(t) \in Task
    BY DEF Task, RunningRow
  <1>3. CompletedRow(t, at) \in Task
    BY DEF Task, CompletedRow
  <1>4. PendingRow(t, due, at) \in Task
    <2>1. CASE due = TRUE
      BY <2>1 DEF Task, PendingRow
    <2>2. CASE due = FALSE
      BY <2>2 DEF Task, PendingRow
    <2>3. QED
      BY <2>1, <2>2
  <1>5. PausedRow(t, at) \in Task
    BY DEF Task, PausedRow
  <1>6. FailedRow(t) \in Task
    BY <1>1 DEF Task, FailedRow
  <1>7. ReleasedRow(t, due) \in Task
    BY DEF Task, ReleasedRow
  <1>8. QED
    BY <1>2, <1>3, <1>4, <1>5, <1>6, <1>7

\* Ending an execution keeps the row typed, whichever branch of the select it takes.
LEMMA FinishTyped ==
    ASSUME TypeOK, NEW e \in Execs, Finish(e)
    PROVE  task' \in Task /\ fails' \in Nat
  <1>1. exec[e].at \in 0..MaxCursor /\ task \in Task /\ fails + 1 \in Nat
    BY DEF TypeOK, Exec
  <1>2. /\ CompletedRow(task, exec[e].at) \in Task /\ FailedRow(task) \in Task
        /\ \A due \in BOOLEAN : PendingRow(task, due, exec[e].at) \in Task /\ ReleasedRow(task, due) \in Task
    BY <1>1, RowsTyped
  <1>3. \/ MarkAsFailed \/ MarkAsCompleted(exec[e].at)
        \/ \E due \in BOOLEAN : ReleaseTask(due) \/ MarkAsPending(due, exec[e].at)
    BY DEF Finish, CutOff, Done, ProcessErr
  <1>4. QED
    BY <1>1, <1>2, <1>3 DEF TypeOK, MarkAsCompleted, MarkAsPending, MarkAsFailed, ReleaseTask, Write

\* Every step keeps row, executions and request well typed.
LEMMA TypeStep == TypeOK /\ [Next]_vars => TypeOK'
  <1> SUFFICES ASSUME TypeOK, [Next]_vars PROVE TypeOK'
    OBVIOUS
  <1>0. NoTask \in Task /\ NoExec \in Exec
    BY DEF Task, NoTask, Exec, NoExec
  <1>1. CASE CreateTask
    BY <1>1 DEF TypeOK, CreateTask, Task, NoTask
  <1>2. CASE LeaseExpires \/ BecomesDue
    BY <1>2 DEF TypeOK, LeaseExpires, BecomesDue, Task
  <1>3. ASSUME NEW e \in Execs, Dispatch(e) \/ ExecuteDirectly(e) \/ Advance(e) \/ Interrupt(e)
                                \/ ContextExpires(e) \/ FinishFails(e) \/ Crash(e) \/ ProcessorReturns(e)
        PROVE  TypeOK'
    <2>1. exec[e] \in Exec
      BY DEF TypeOK
    <2>2. CASE Crash(e)
      <3>1. [NoExec EXCEPT !.ph = "over", !.ctx = "expired", !.proc = "interrupted"] \in Exec
        BY <1>0 DEF Exec
      <3>2. QED
        BY <2>2, <3>1 DEF TypeOK, Crash
    <2>3. CASE ~Crash(e)
      <3>1. exec' \in [Execs -> Exec]
        BY <1>3, <2>1, <2>3 DEF TypeOK, Dispatch, ExecuteDirectly, Advance, Interrupt, ContextExpires, FinishFails,
                                ProcessorReturns, Exec
      <3>2. QED
        BY <1>3, <2>3, <3>1 DEF TypeOK, Dispatch, ExecuteDirectly, Advance, Interrupt, ContextExpires, FinishFails,
                                ProcessorReturns
    <2>4. QED
      BY <2>2, <2>3
  <1>4. ASSUME NEW e \in Execs, MarkAsRunning(e) PROVE TypeOK'
    <2>1. RunningRow(task) \in Task /\ task.cursor \in 0..MaxCursor
      BY RowsTyped DEF TypeOK, Task
    <2>2. [NoExec EXCEPT !.ph = "working", !.at = task.cursor] \in Exec
      BY <2>1 DEF Exec, NoExec
    <2>3. e \in 0..MaxExecs
      BY DEF Execs
    <2>4. QED
      BY <1>0, <1>4, <2>1, <2>2, <2>3 DEF TypeOK, MarkAsRunning
  <1>5. ASSUME NEW e \in Execs, SaveState(e) PROVE TypeOK'
    <2>1. exec[e] \in Exec /\ exec[e].at \in 0..MaxCursor
      BY DEF TypeOK, Exec
    <2>2. exec' \in [Execs -> Exec]
      BY <1>5, <2>1 DEF TypeOK, SaveState, Exec
    <2>3. task' \in Task
      BY <1>5, <2>1 DEF TypeOK, SaveState, Task
    <2>4. QED
      BY <1>5, <2>2, <2>3 DEF TypeOK, SaveState
  <1>6. ASSUME NEW e \in Execs, Finish(e) PROVE TypeOK'
    <2>1. exec[e] \in Exec
      BY DEF TypeOK
    <2>2. exec' \in [Execs -> Exec]
      BY <1>6, <2>1 DEF TypeOK, Finish, Exec
    <2>3. QED
      BY <1>6, <2>2, FinishTyped DEF TypeOK, Finish
  <1>7. ASSUME NEW op \in Op, ReadTask(op) PROVE TypeOK'
    BY <1>0, <1>7 DEF TypeOK, ReadTask, NoRequest, BroadcastAfter, Op
  <1>8. CASE HandleRequest
    <2>1. request.read \in Task /\ request.read.cursor \in 0..MaxCursor /\ fails + 1 \in Nat
      BY DEF TypeOK, Task
    <2>2. /\ PausedRow(task, request.read.cursor) \in Task /\ FailedRow(task) \in Task
          /\ PendingRow(task, TRUE, request.read.cursor) \in Task
      BY <2>1, RowsTyped DEF TypeOK
    <2>3. [request.read EXCEPT !.st = "pending", !.due = TRUE, !.retries = 0] \in Task
      BY <2>1 DEF Task
    <2>4. task' \in Task /\ fails' \in Nat
      <3>1. CASE PauseTask
        BY <3>1, <2>2 DEF TypeOK, PauseTask, Write
      <3>2. CASE ResumeTask
        BY <3>2, <2>3 DEF TypeOK, ResumeTask, Write
      <3>3. CASE CancelTask
        BY <3>3, <2>1, <2>2 DEF TypeOK, CancelTask, MarkAsFailed, Write
      <3>4. CASE TriggerOrReset
        BY <3>4, <2>2 DEF TypeOK, TriggerOrReset, MarkAsPending, Write
      <3>5. QED
        BY <1>8, <3>1, <3>2, <3>3, <3>4 DEF HandleRequest
    <2>5. QED
      BY <1>0, <1>8, <2>4 DEF TypeOK, HandleRequest, NoRequest
  <1>9. CASE DeleteTask
    BY <1>0, <1>9 DEF TypeOK, DeleteTask
  <1>10. CASE UNCHANGED vars
    BY <1>10 DEF TypeOK, vars
  <1>11. QED
    BY <1>1, <1>2, <1>3, <1>4, <1>5, <1>6, <1>7, <1>8, <1>9, <1>10 DEF Next, Execute

\* Row, executions and requests hold values of their types, for every bound.
THEOREM TaskTypeCorrect == Spec => []TypeOK
  <1>1. Init => TypeOK
    BY DEF Init, TypeOK, Task, NoTask, Exec, NoExec, NoRequest, Kind
  <1>2. QED
    BY <1>1, TypeStep, PTL DEF Spec

-----------------------------------------------------------------------------
(* The budget of retries.                                                   *)

\* retry_count never runs ahead of the failures: it is counted up by MarkAsFailed alone and
\* reset only together with them, which is why a row that is given up has earned it.
RetriesAreFailures ==
    /\ fails >= task.retries
    /\ task.st = "absent" => task.retries = 0
    /\ GivenUpIsEarned

\* The writes that end an execution or answer a request keep the count honest.
LEMMA WritesKeepRetries ==
    ASSUME TypeOK, RetriesAreFailures, NEW due \in BOOLEAN, NEW at \in 0..MaxCursor,
           \/ MarkAsCompleted(at) \/ MarkAsPending(due, at) \/ MarkAsFailed \/ ReleaseTask(due)
    PROVE  RetriesAreFailures'
  <1>0. /\ task \in Task /\ task.retries \in Nat /\ fails \in Nat
    BY DEF TypeOK, Task
  <1>1. CASE task.st = "absent"
    <2>1. task' = task /\ fails' >= 0
      BY <1>0, <1>1 DEF MarkAsCompleted, MarkAsPending, MarkAsFailed, ReleaseTask, Write
    <2>2. QED
      BY <1>0, <1>1, <2>1 DEF RetriesAreFailures, GivenUpIsEarned
  <1>2. CASE task.st # "absent" /\ MarkAsCompleted(at)
    <2>1. task'.st = "completed" /\ task'.retries = task.retries /\ fails' = fails
      BY <1>0, <1>2 DEF MarkAsCompleted, Write, CompletedRow, Task
    <2>2. QED
      BY <2>1 DEF RetriesAreFailures, GivenUpIsEarned
  <1>3. CASE task.st # "absent" /\ MarkAsPending(due, at)
    <2>1. task'.st = "pending" /\ task'.retries = 0 /\ fails' = 0
      <3>1. CASE due = TRUE
        BY <1>0, <1>3, <3>1 DEF MarkAsPending, Write, PendingRow, Task
      <3>2. CASE due = FALSE
        BY <1>0, <1>3, <3>2 DEF MarkAsPending, Write, PendingRow, Task
      <3>3. QED
        BY <3>1, <3>2
    <2>2. QED
      BY <2>1 DEF RetriesAreFailures, GivenUpIsEarned
  <1>4. CASE task.st # "absent" /\ MarkAsFailed
    <2>1. /\ task'.retries = task.retries + 1 /\ fails' = fails + 1
          /\ task'.st = IF task.retries < MaxRetries THEN "pending" ELSE "failed"
      BY <1>0, <1>4 DEF MarkAsFailed, Write, FailedRow, Task
    <2>2. QED
      BY <1>0, <2>1 DEF RetriesAreFailures, GivenUpIsEarned
  <1>5. CASE task.st # "absent" /\ ReleaseTask(due)
    <2>1. /\ task'.retries = task.retries /\ fails' = fails
          /\ task'.st = IF task.st = "running" THEN "pending" ELSE task.st
      <3>1. CASE due = TRUE
        BY <1>0, <1>5, <3>1 DEF ReleaseTask, Write, ReleasedRow, Task
      <3>2. CASE due = FALSE
        BY <1>0, <1>5, <3>2 DEF ReleaseTask, Write, ReleasedRow, Task
      <3>3. QED
        BY <3>1, <3>2
    <2>2. QED
      BY <1>5, <2>1 DEF RetriesAreFailures, GivenUpIsEarned
  <1>6. QED
    BY <1>1, <1>2, <1>3, <1>4, <1>5

\* Every step keeps the count honest.
LEMMA RetriesStep == TypeOK /\ RetriesAreFailures /\ [Next]_vars => RetriesAreFailures'
  <1> SUFFICES ASSUME TypeOK, RetriesAreFailures, [Next]_vars PROVE RetriesAreFailures'
    OBVIOUS
  <1>0. task \in Task /\ task.retries \in Nat /\ fails \in Nat
    BY DEF TypeOK, Task
  <1>1. CASE CreateTask
    BY <1>1 DEF CreateTask, NoTask, RetriesAreFailures, GivenUpIsEarned
  <1>2. CASE LeaseExpires \/ BecomesDue
    <2>1. task'.st = task.st /\ task'.retries = task.retries /\ fails' = fails
      BY <1>0, <1>2 DEF LeaseExpires, BecomesDue, Task
    <2>2. QED
      BY <2>1 DEF RetriesAreFailures, GivenUpIsEarned
  <1>3. ASSUME NEW e \in Execs, Dispatch(e) \/ ExecuteDirectly(e) \/ Advance(e) \/ Interrupt(e)
                                \/ ContextExpires(e) \/ FinishFails(e) \/ Crash(e) \/ ProcessorReturns(e)
        PROVE  RetriesAreFailures'
    <2>1. task' = task /\ fails' = fails
      BY <1>3 DEF Dispatch, ExecuteDirectly, Advance, Interrupt, ContextExpires, FinishFails, Crash, ProcessorReturns
    <2>2. QED
      BY <2>1 DEF RetriesAreFailures, GivenUpIsEarned
  <1>4. ASSUME NEW e \in Execs, MarkAsRunning(e) \/ SaveState(e) PROVE RetriesAreFailures'
    <2>1. task'.retries = task.retries /\ fails' = fails /\ (task' = task \/ task'.st = "running")
      BY <1>0, <1>4 DEF MarkAsRunning, SaveState, RunningRow, Task
    <2>2. QED
      BY <2>1 DEF RetriesAreFailures, GivenUpIsEarned
  <1>5. ASSUME NEW e \in Execs, Finish(e) PROVE RetriesAreFailures'
    <2>1. exec[e].at \in 0..MaxCursor
      BY DEF TypeOK, Exec
    <2>2. \E due \in BOOLEAN : \/ MarkAsFailed \/ MarkAsCompleted(exec[e].at)
                               \/ ReleaseTask(due) \/ MarkAsPending(due, exec[e].at)
      BY <1>5 DEF Finish, CutOff, Done, ProcessErr
    <2>3. QED
      BY <2>1, <2>2, WritesKeepRetries
  <1>6. ASSUME NEW op \in Op, ReadTask(op) PROVE RetriesAreFailures'
    BY <1>6 DEF ReadTask, RetriesAreFailures, GivenUpIsEarned
  <1>7. CASE HandleRequest
    <2>0. request.read \in Task /\ request.read.cursor \in 0..MaxCursor
      BY DEF TypeOK, Task
    <2>1. CASE PauseTask
      <3>1. /\ task'.retries = task.retries /\ fails' = fails
            /\ task'.st = IF task.st = "absent" THEN "absent" ELSE "paused"
        BY <1>0, <2>1 DEF PauseTask, Write, PausedRow, Task
      <3>2. QED
        BY <3>1 DEF RetriesAreFailures, GivenUpIsEarned
    <2>2. CASE ResumeTask
      <3>1. /\ fails' = 0
            /\ \/ task' = task /\ task.st = "absent"
               \/ task'.st = "pending" /\ task'.retries = 0
        BY <2>0, <2>2 DEF ResumeTask, Write, Task
      <3>2. QED
        BY <3>1 DEF RetriesAreFailures, GivenUpIsEarned
    <2>3. CASE CancelTask
      BY <2>3, <2>0, WritesKeepRetries DEF CancelTask
    <2>4. CASE TriggerOrReset
      BY <2>4, <2>0, WritesKeepRetries DEF TriggerOrReset
    <2>5. QED
      BY <1>7, <2>1, <2>2, <2>3, <2>4 DEF HandleRequest
  <1>8. CASE DeleteTask
    BY <1>0, <1>8 DEF DeleteTask, NoTask, RetriesAreFailures, GivenUpIsEarned
  <1>9. CASE UNCHANGED vars
    BY <1>9 DEF vars, RetriesAreFailures, GivenUpIsEarned
  <1>10. QED
    BY <1>1, <1>2, <1>3, <1>4, <1>5, <1>6, <1>7, <1>8, <1>9 DEF Next, Execute

\* A task is given up only after more than MaxRetries failures in a row, whatever
\* interruptions, pauses, takeovers, late writes and requests there were.
THEOREM GivenUpOnlyEarned == Spec => []GivenUpIsEarned
  <1>1. Init => RetriesAreFailures
    BY DEF Init, NoTask, RetriesAreFailures, GivenUpIsEarned
  <1>2. RetriesAreFailures => GivenUpIsEarned
    BY DEF RetriesAreFailures
  <1>3. QED
    BY <1>1, <1>2, RetriesStep, TaskTypeCorrect, PTL DEF Spec

-----------------------------------------------------------------------------
(* One execution at a time.                                                 *)

\* While nobody changed the row from outside, an execution that works holds the lease:
\* it wrote it last, the row is running and not expired.  Its progress is at least what
\* the row has saved, unless a cut-off orchestrator of the same broadcast saved late.
WorkerHoldsLease ==
    requests = 0 =>
      /\ request.op = "none"
      /\ \A e \in Execs : exec[e].ph = "working" =>
           /\ owner = e /\ task.st = "running" /\ task.lease = "live"
           /\ kind # "broadcast" => exec[e].at >= task.cursor

\* What a segment build may still save, it saves while it works: an execution that has ended,
\* and one that has not begun, holds nothing unsaved under a live context.
SaversWork == \A e \in Execs : exec[e].unsaved /\ exec[e].ctx = "live" => exec[e].ph = "working"

\* Every step keeps that.
LEMMA SaversStep == TypeOK /\ SaversWork /\ [Next]_vars => SaversWork'
  <1> SUFFICES ASSUME TypeOK, SaversWork, [Next]_vars,
                      NEW f \in Execs, exec'[f].unsaved, exec'[f].ctx = "live"
               PROVE  exec'[f].ph = "working"
    BY DEF SaversWork
  <1>0. exec \in [Execs -> Exec] /\ exec[f] \in Exec
    BY DEF TypeOK
  <1>1. exec[f].unsaved /\ exec[f].ctx = "live" => exec[f].ph = "working"
    BY DEF SaversWork
  <1>2. CASE exec'[f] = exec[f]
    BY <1>1, <1>2
  <1>3. ASSUME NEW e \in Execs, exec'[f] # exec[f], Execute(e) \/ Dispatch(e) \/ ExecuteDirectly(e)
                                                      \/ Interrupt(e) \/ ContextExpires(e)
        PROVE  exec'[f].ph = "working"
    <2>1. e = f
      BY <1>0, <1>3 DEF Execute, Dispatch, ExecuteDirectly, MarkAsRunning, Advance, SaveState, ProcessorReturns,
                        Finish, FinishFails, Crash, Interrupt, ContextExpires
    <2>2. CASE Dispatch(f) \/ ExecuteDirectly(f) \/ Interrupt(f) \/ ContextExpires(f)
      BY <1>0, <1>1, <2>2 DEF Dispatch, ExecuteDirectly, Fresh, Interrupt, ContextExpires, Exec
    <2>3. CASE MarkAsRunning(f)
      <3>1. exec'[f] = NoExec \/ exec'[f] = [NoExec EXCEPT !.ph = "working", !.at = task.cursor]
        BY <1>0, <2>3 DEF MarkAsRunning
      <3>2. NoExec.unsaved = FALSE
        BY DEF NoExec
      <3>3. NoExec \in Exec
        BY DEF NoExec, Exec
      <3>4. [NoExec EXCEPT !.ph = "working", !.at = task.cursor].unsaved = NoExec.unsaved
        BY <3>3 DEF Exec
      <3>5. QED
        BY <3>1, <3>2, <3>4
    <2>4. CASE Advance(f) \/ SaveState(f) \/ ProcessorReturns(f)
      BY <1>0, <1>1, <2>4 DEF Advance, SaveState, ProcessorReturns, Exec
    <2>5. CASE Finish(f) \/ FinishFails(f)
      BY <1>0, <2>5 DEF Finish, FinishFails, Exec
    <2>6. CASE Crash(f)
      BY <1>0, <2>6 DEF Crash, NoExec
    <2>7. QED
      BY <1>3, <2>1, <2>2, <2>3, <2>4, <2>5, <2>6 DEF Execute
  <1>4. CASE CreateTask \/ LeaseExpires \/ BecomesDue \/ HandleRequest \/ DeleteTask \/ UNCHANGED vars
    BY <1>2, <1>4 DEF CreateTask, LeaseExpires, BecomesDue, HandleRequest, DeleteTask, vars
  <1>5. ASSUME NEW op \in Op, ReadTask(op) PROVE exec' = exec
    BY <1>5 DEF ReadTask
  <1>6. QED
    BY <1>2, <1>3, <1>4, <1>5 DEF Next

\* So it is always.
LEMMA SaversAlwaysWork == Spec => []SaversWork
  <1>1. Init => SaversWork
    BY DEF Init, SaversWork, NoExec
  <1>2. QED
    BY <1>1, SaversStep, TaskTypeCorrect, PTL DEF Spec

\* Every step keeps the lease, when final writes land before it runs out.
LEMMA LeaseStep ==
    ASSUME Prompt PROVE TypeOK /\ SaversWork /\ WorkerHoldsLease /\ [Next]_vars => WorkerHoldsLease'
  <1> SUFFICES ASSUME TypeOK, SaversWork, WorkerHoldsLease, [Next]_vars, requests' = 0
               PROVE  /\ request'.op = "none"
                      /\ \A f \in Execs : exec'[f].ph = "working" =>
                           /\ owner' = f /\ task'.st = "running" /\ task'.lease = "live"
                           /\ (kind' # "broadcast" => exec'[f].at >= task'.cursor)
    BY DEF WorkerHoldsLease
  <1>0. /\ task \in Task /\ task.cursor \in Int /\ exec \in [Execs -> Exec] /\ requests \in Nat
        /\ \A f \in Execs : exec[f] \in Exec /\ exec[f].at \in Int
    BY DEF TypeOK, Task, Exec
  <1>1. requests = 0
    <2>1. ASSUME NEW e \in Execs, Execute(e) \/ Dispatch(e) \/ ExecuteDirectly(e) \/ Interrupt(e) \/ ContextExpires(e)
          PROVE  requests' = requests
      BY <2>1 DEF Execute, Dispatch, ExecuteDirectly, MarkAsRunning, Advance, SaveState, ProcessorReturns,
                  Finish, FinishFails, Crash, Interrupt, ContextExpires
    <2>2. CASE CreateTask
      BY <2>2 DEF CreateTask
    <2>3. CASE LeaseExpires \/ BecomesDue \/ HandleRequest \/ UNCHANGED vars
      BY <2>3 DEF LeaseExpires, BecomesDue, HandleRequest, vars
    <2>4. ASSUME DeleteTask \/ \E op \in Op : ReadTask(op) PROVE requests' = requests + 1
      BY <2>4 DEF DeleteTask, ReadTask
    <2>5. QED
      BY <1>0, <2>1, <2>2, <2>3, <2>4 DEF Next
  <1>2. /\ request.op = "none"
        /\ \A f \in Execs : exec[f].ph = "working" =>
             /\ owner = f /\ task.st = "running" /\ task.lease = "live"
             /\ kind # "broadcast" => exec[f].at >= task.cursor
    BY <1>1 DEF WorkerHoldsLease
  <1>k. kind' = kind
    BY DEF Next, Execute, vars, CreateTask, LeaseExpires, BecomesDue, HandleRequest, DeleteTask, ReadTask, Dispatch,
           ExecuteDirectly, MarkAsRunning, Advance, SaveState, ProcessorReturns, Finish, FinishFails, Crash,
           Interrupt, ContextExpires
  <1>3. CASE CreateTask
    BY <1>2, <1>3 DEF CreateTask, NoTask
  <1>4. CASE LeaseExpires
    <2>1. \A f \in Execs : exec[f].ph # "working"
      BY <1>2, <1>4 DEF LeaseExpires, LeaseOver
    <2>2. QED
      BY <1>2, <1>4, <2>1 DEF LeaseExpires
  <1>5. CASE BecomesDue
    BY <1>2, <1>5 DEF BecomesDue
  <1>6. ASSUME NEW e \in Execs, Dispatch(e) \/ ExecuteDirectly(e) \/ Interrupt(e)
                                \/ ContextExpires(e) \/ FinishFails(e) \/ Crash(e) \/ ProcessorReturns(e)
        PROVE  /\ UNCHANGED <<task, owner, request>>
               /\ \A f \in Execs : exec'[f].ph = "working" =>
                    exec[f].ph = "working" /\ exec'[f].at = exec[f].at
    <2>1. exec[e] \in Exec
      BY <1>0
    <2>2. CASE Crash(e)
      <3>1. exec'[e].ph = "over"
        BY <1>0, <2>2 DEF Crash, NoExec
      <3>2. QED
        BY <1>0, <2>2, <3>1 DEF Crash
    <2>3. CASE ~Crash(e)
      BY <1>0, <1>6, <2>1, <2>3 DEF Dispatch, ExecuteDirectly, Interrupt, ContextExpires, FinishFails,
                                    ProcessorReturns, Exec
    <2>4. QED
      BY <2>2, <2>3
  <1>7. ASSUME NEW e \in Execs, Advance(e)
        PROVE  /\ UNCHANGED <<task, owner, request>>
               /\ \A f \in Execs : exec'[f].at >= exec[f].at
               /\ \A f \in Execs : exec'[f].ph = exec[f].ph
    <2>1. exec[e] \in Exec
      BY <1>0
    <2>2. QED
      BY <1>0, <1>7, <2>1 DEF Advance, Exec
  <1>8. ASSUME NEW e \in Execs, MarkAsRunning(e), NEW f \in Execs, exec'[f].ph = "working"
        PROVE  /\ owner' = f /\ task'.st = "running" /\ task'.lease = "live"
               /\ (kind' # "broadcast" => exec'[f].at >= task'.cursor)
    <2>1. CASE Startable(task)
      <3>1. \A g \in Execs : exec[g].ph # "working"
        BY <1>2, <2>1 DEF Startable
      <3>2. /\ task'.st = "running" /\ task'.lease = "live" /\ task'.cursor = task.cursor
        BY <1>0, <1>8, <2>1 DEF MarkAsRunning, RunningRow, Task
      <3>3. f = e /\ owner' = e /\ exec'[e].at = task.cursor
        BY <1>0, <1>8, <2>1, <3>1 DEF MarkAsRunning, NoExec
      <3>4. QED
        BY <1>0, <3>2, <3>3
    <2>2. CASE ~Startable(task)
      <3>1. f # e /\ exec'[f] = exec[f] /\ UNCHANGED <<task, owner>>
        BY <1>0, <1>8, <2>2 DEF MarkAsRunning, NoExec
      <3>2. QED
        BY <1>2, <1>8, <1>k, <3>1
    <2>3. QED
      BY <2>1, <2>2
  <1>9. ASSUME NEW e \in Execs, SaveState(e), NEW f \in Execs, exec'[f].ph = "working"
        PROVE  /\ owner' = f /\ task'.st = "running" /\ task'.lease = "live"
               /\ (kind' # "broadcast" => exec'[f].at >= task'.cursor)
    <2>1. exec[e] \in Exec /\ exec[f] \in Exec
      BY <1>0
    <2>2. owner' = owner /\ exec'[f].at = exec[f].at /\ exec'[f].ph = exec[f].ph
      BY <1>0, <1>9, <2>1 DEF SaveState, Exec
    <2>3. task.st = "running" /\ task'.st = task.st /\ task'.lease = task.lease /\ task'.cursor = exec[e].at
      BY <1>0, <1>2, <1>9, <2>2 DEF SaveState, Task
    <2>4. kind # "broadcast" => e = f
      BY <1>2, <1>9, <2>2 DEF SaveState, CanSave, SaversWork
    <2>5. kind # "broadcast" => exec'[f].at >= task'.cursor
      BY <1>0, <2>2, <2>3, <2>4
    <2>6. QED
      BY <1>2, <1>9, <1>k, <2>2, <2>3, <2>5
  <1>10. ASSUME NEW e \in Execs, Finish(e), NEW f \in Execs PROVE exec'[f].ph # "working"
    <2>1. exec[e] \in Exec
      BY <1>0
    <2>2. exec'[e].ph = "over" /\ (f # e => exec'[f] = exec[f])
      BY <1>0, <1>10, <2>1 DEF Finish, Exec
    <2>3. QED
      BY <1>2, <1>10, <2>2 DEF Finish
  <1>11. ~HandleRequest /\ ~DeleteTask /\ \A op \in Op : ~ReadTask(op)
    BY <1>1, <1>2 DEF HandleRequest, PauseTask, ResumeTask, CancelTask, TriggerOrReset, DeleteTask, ReadTask
  <1>12. CASE UNCHANGED vars
    BY <1>2, <1>12 DEF vars
  <1>13. ASSUME NEW e \in Execs, Execute(e) \/ Dispatch(e) \/ ExecuteDirectly(e) \/ Interrupt(e) \/ ContextExpires(e)
         PROVE  /\ request'.op = "none"
                /\ \A f \in Execs : exec'[f].ph = "working" =>
                     /\ owner' = f /\ task'.st = "running" /\ task'.lease = "live"
                     /\ (kind' # "broadcast" => exec'[f].at >= task'.cursor)
    <2>1. CASE Dispatch(e) \/ ExecuteDirectly(e) \/ Interrupt(e) \/ ContextExpires(e) \/ FinishFails(e) \/ Crash(e) \/ ProcessorReturns(e)
      BY <1>2, <1>6, <1>k, <2>1
    <2>2. CASE Advance(e)
      <3>1. \A f \in Execs : exec'[f].at \in Int
        BY <1>0, <2>2 DEF Advance, Exec
      <3>2. QED
        BY <1>0, <1>2, <1>7, <1>k, <2>2, <3>1
    <2>3. CASE MarkAsRunning(e)
      BY <1>2, <1>8, <2>3 DEF MarkAsRunning
    <2>4. CASE SaveState(e)
      BY <1>2, <1>9, <2>4 DEF SaveState
    <2>5. CASE Finish(e)
      BY <1>2, <1>10, <2>5 DEF Finish
    <2>6. QED
      BY <1>13, <2>1, <2>2, <2>3, <2>4, <2>5 DEF Execute
  <1>14. QED
    BY <1>3, <1>4, <1>5, <1>11, <1>12, <1>13 DEF Next

\* An execution that works holds the lease.
LEMMA WorkersHoldLease ==
    ASSUME Prompt PROVE Spec => []WorkerHoldsLease
  <1>1. Init => WorkerHoldsLease
    BY DEF Init, WorkerHoldsLease, NoRequest, NoExec
  <1>2. TypeOK /\ SaversWork /\ WorkerHoldsLease /\ [Next]_vars => WorkerHoldsLease'
    BY LeaseStep
  <1>3. QED
    BY <1>1, <1>2, TaskTypeCorrect, SaversAlwaysWork, PTL DEF Spec

\* Two processors never work on the task at the same time, whatever crashes, interruptions,
\* expired leases and doubled dispatches, as long as no pause, resume, cancel, trigger, reset
\* or delete came in and final writes land before the lease runs out.
THEOREM OneProcessorAtATime ==
    ASSUME Prompt PROVE Spec => [](requests = 0 => Exclusive)
  <1>1. WorkerHoldsLease => (requests = 0 => Exclusive)
    BY DEF WorkerHoldsLease, Exclusive, Alive
  <1>2. QED
    BY <1>1, WorkersHoldLease, PTL

\* Saved progress of a segment build or a recurring task never goes back under the same
\* conditions: an execution that saves or ends holds the lease and started from what was saved.
THEOREM ProgressNeverLost ==
    ASSUME Prompt, MaxRequests = 0 PROVE Spec => ProgressKept
  <1>1. ASSUME TypeOK, SaversWork, WorkerHoldsLease, [Next]_vars,
               kind # "broadcast", task.st # "absent", task'.st # "absent"
        PROVE  task'.cursor >= task.cursor
    <2>0. /\ task \in Task /\ task.cursor \in Int /\ \A f \in Execs : exec[f].at \in 0..MaxCursor
      BY <1>1 DEF TypeOK, Task, Exec
    <2>1. requests = 0
      BY <1>1 DEF TypeOK
    <2>2. \A f \in Execs : exec[f].ph = "working" => exec[f].at >= task.cursor
      BY <1>1, <2>1 DEF WorkerHoldsLease
    <2>3. CASE task' = task
      BY <2>0, <2>3
    <2>4. CASE LeaseExpires \/ BecomesDue
      <3>1. task'.cursor = task.cursor
        BY <2>0, <2>4 DEF LeaseExpires, BecomesDue, Task
      <3>2. QED
        BY <2>0, <3>1
    <2>5. ASSUME NEW e \in Execs, MarkAsRunning(e) PROVE task'.cursor >= task.cursor
      <3>1. task'.cursor = task.cursor
        BY <2>0, <2>5 DEF MarkAsRunning, RunningRow, Task
      <3>2. QED
        BY <2>0, <3>1
    <2>6. ASSUME NEW e \in Execs, SaveState(e) PROVE task'.cursor >= task.cursor
      <3>1. task' = task \/ task'.cursor = exec[e].at
        BY <2>0, <2>6 DEF SaveState, Task
      <3>2. exec[e].ph = "working"
        BY <1>1, <2>6 DEF SaveState, CanSave, SaversWork
      <3>3. QED
        BY <2>0, <2>2, <3>1, <3>2
    <2>7. ASSUME NEW e \in Execs, Finish(e) PROVE task'.cursor >= task.cursor
      <3>1. PICK due \in BOOLEAN : \/ MarkAsFailed \/ MarkAsCompleted(exec[e].at)
                                   \/ ReleaseTask(due) \/ MarkAsPending(due, exec[e].at)
        BY <2>7 DEF Finish, CutOff, Done, ProcessErr
      <3>2. CASE MarkAsFailed
        BY <2>0, <3>2 DEF MarkAsFailed, Write, FailedRow, Task
      <3>3. CASE MarkAsCompleted(exec[e].at)
        <4>1. task'.cursor = exec[e].at
          BY <1>1, <2>0, <3>3 DEF MarkAsCompleted, Write, CompletedRow, Task
        <4>2. QED
          BY <2>2, <2>7, <4>1 DEF Finish
      <3>4. CASE ReleaseTask(due)
        <4>1. task'.cursor = task.cursor
          BY <2>0, <3>4 DEF ReleaseTask, Write, ReleasedRow, Task
        <4>2. QED
          BY <2>0, <4>1
      <3>5. CASE MarkAsPending(due, exec[e].at)
        <4>1. task'.cursor = exec[e].at
          <5>1. CASE due = TRUE
            BY <1>1, <2>0, <3>5, <5>1 DEF MarkAsPending, Write, PendingRow, Task
          <5>2. CASE due = FALSE
            BY <1>1, <2>0, <3>5, <5>2 DEF MarkAsPending, Write, PendingRow, Task
          <5>3. QED
            BY <5>1, <5>2
        <4>2. QED
          BY <2>2, <2>7, <4>1 DEF Finish
      <3>6. QED
        BY <3>1, <3>2, <3>3, <3>4, <3>5
    <2>8. ~CreateTask /\ ~HandleRequest /\ ~DeleteTask /\ \A op \in Op : ~ReadTask(op)
      <3>1. ~CreateTask
        <4>1. CreateTask => task = NoTask
          BY DEF CreateTask
        <4>2. QED
          BY <1>1, <4>1 DEF NoTask
      <3>2. ~HandleRequest
        BY <1>1, <2>1 DEF WorkerHoldsLease, HandleRequest, PauseTask, ResumeTask, CancelTask, TriggerOrReset
      <3>3. ~DeleteTask /\ \A op \in Op : ~ReadTask(op)
        BY <2>1 DEF DeleteTask, ReadTask
      <3>4. QED
        BY <3>1, <3>2, <3>3
    <2>9. ASSUME NEW e \in Execs, Dispatch(e) \/ ExecuteDirectly(e) \/ Advance(e) \/ Interrupt(e)
                                  \/ ContextExpires(e) \/ FinishFails(e) \/ Crash(e) \/ ProcessorReturns(e)
          PROVE  task' = task
      BY <2>9 DEF Dispatch, ExecuteDirectly, Advance, Interrupt, ContextExpires, FinishFails, Crash, ProcessorReturns
    <2>10. CASE UNCHANGED vars
      BY <2>3, <2>10 DEF vars
    <2>11. QED
      BY <1>1, <2>3, <2>4, <2>5, <2>6, <2>7, <2>8, <2>9, <2>10 DEF Next, Execute
  <1>2. TypeOK /\ SaversWork /\ WorkerHoldsLease /\ [Next]_vars
          => [kind # "broadcast" /\ task.st # "absent" /\ task'.st # "absent"
                => task'.cursor >= task.cursor]_vars
    BY <1>1
  <1>3. QED
    BY <1>2, TaskTypeCorrect, SaversAlwaysWork, WorkersHoldLease, PTL DEF Spec, ProgressKept
=============================================================================
