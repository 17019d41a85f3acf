----------------------------- MODULE ImportJob -----------------------------
(***************************************************************************)
(* One customer import: the upload that stages the rows of a CSV file, the *)
(* job row with its five counters, the background task and the requests    *)
(* that work the rows off in chunks, and a cancel at any moment.           *)
(*                                                                         *)
(* A claim token is modelled by the processor that wrote it: a processor   *)
(* only completes rows of the chunk it holds, and claims again only after  *)
(* it gave that chunk up.  Whether the task may run at all is TaskLease's  *)
(* subject; here at most one execution of it is under way.                 *)
(***************************************************************************)
EXTENDS Integers, FiniteSets, FiniteSetsExt

CONSTANTS
    Users,       \* callers of imports.process
    Worker,      \* the execution of the job's task
    None,        \* no processor
    Lines,       \* data lines of the file
    Kinds,       \* what those lines may hold
    ChunkSize,   \* rows staged or claimed together
    MaxRetries,  \* tasks.max_retries
    MaxCalls,    \* bound: calls of imports.process
    MaxFaults    \* bound: refused customers, failed statements, crashes

ASSUME ImportAssumption ==
    /\ Worker \notin Users /\ None \notin Users \cup {Worker}
    /\ Lines \in Nat \ {0} /\ ChunkSize \in Nat \ {0}
    /\ Kinds \subseteq {"good", "unmappable", "malformed"}
    /\ MaxRetries \in Nat /\ MaxCalls \in Nat /\ MaxFaults \in Nat

VARIABLES
    kind,     \* what each line holds
    upload,   \* the upload request
    job,      \* the row of import_jobs
    row,      \* import_job_rows
    task,     \* the task of the job
    proc,     \* what each processor is doing
    keys,     \* lines whose import:<job>:<ordinal>:<checksum> is in customer_idempotency
    applied,  \* how often each line changed the customers (not stored)
    calls, faults

vars == <<kind, upload, job, row, task, proc, keys, applied, calls, faults>>

Procs == Users \cup {Worker}
Ordinals == 1..Lines
Done == {"completed", "rejected", "cancelled"}
\* "cancelled" is failed with the error code cancelled_by_user.
Ended == {"succeeded", "failed", "cancelled"}

Job == [st : {"none", "uploading", "staged", "processing"} \cup Done,
        total : Nat, pending : Nat, processing : Nat, succeeded : Nat, failed : Nat]
Row == [st : {"absent", "pending", "processing"} \cup Ended, claim : Procs \cup {None}, live : BOOLEAN]
\* raced: the request found its job in another status than uploading.
Upload == [at : {"none", "staging", "closing", "queueing", "over", "broken"}, raced : BOOLEAN]
Task == [st : {"none", "pending", "running", "completed", "failed"}, retries : Nat]
Proc == [at : {"idle", "claim", "map", "upsert", "commit", "complete", "check", "empty"},
         chunk : SUBSET Ordinals, items : SUBSET Ordinals, accepted : SUBSET Ordinals]

IdleProc == [at |-> "idle", chunk |-> {}, items |-> {}, accepted |-> {}]

Init ==
    /\ kind \in [Ordinals -> Kinds]
    /\ upload = [at |-> "none", raced |-> FALSE]
    /\ job = [st |-> "none", total |-> 0, pending |-> 0, processing |-> 0, succeeded |-> 0, failed |-> 0]
    /\ row = [o \in Ordinals |-> [st |-> "absent", claim |-> None, live |-> FALSE]]
    /\ task = [st |-> "none", retries |-> 0]
    /\ proc = [p \in Procs |-> IdleProc]
    /\ keys = {}
    /\ applied = [o \in Ordinals |-> 0]
    /\ calls = 0 /\ faults = 0

Fault == faults < MaxFaults /\ faults' = faults + 1

With(st) == {o \in Ordinals : row[o].st = st}

\* Mutant: the constraint that counters are not negative is missing.
CheckedSum(j) == j.total = j.pending + j.processing + j.succeeded + j.failed

\* The CHECK constraints of import_jobs; a statement that breaks them fails.
Checked(j) ==
    /\ \A n \in {j.total, j.pending, j.processing, j.succeeded, j.failed} : n >= 0
    /\ j.total = j.pending + j.processing + j.succeeded + j.failed

\* The lowest ChunkSize members of S.
Chunk(S) == {o \in S : Cardinality({i \in S : i < o}) < ChunkSize}

-----------------------------------------------------------------------------
(* The upload: StageCSV.                                                   *)

CreateImportJob ==
    /\ upload.at = "none"
    /\ upload' = [upload EXCEPT !.at = "staging"]
    /\ job' = [job EXCEPT !.st = "uploading"]
    /\ UNCHANGED <<kind, row, task, proc, keys, applied, calls, faults>>

\* The counters after a chunk, of which some rows did not parse.
StagedJob(new, bad) ==
    [job EXCEPT !.total = @ + Cardinality(new),
                !.pending = @ + Cardinality(new \ bad), !.failed = @ + Cardinality(bad)]

\* A chunk is inserted whatever the status; it is counted only while uploading.
StageImportRows ==
    LET new == Chunk(With("absent"))
        bad == {o \in new : kind[o] = "malformed"}
    IN
    /\ upload.at = "staging"
    /\ row' = [o \in Ordinals |-> IF o \in new
                 THEN [row[o] EXCEPT !.st = IF o \in bad THEN "failed" ELSE "pending"] ELSE row[o]]
    /\ job' = IF job.st = "uploading" THEN StagedJob(new, bad) ELSE job
    /\ upload' = [upload EXCEPT !.at = IF new = With("absent") THEN "closing" ELSE "staging",
                                !.raced = @ \/ job.st # "uploading"]
    /\ UNCHANGED <<kind, task, proc, keys, applied, calls, faults>>

\* A bad header, a stream that broke off or a limit exceeded: the pending rows fail.
RejectImportJob ==
    LET cut == With("pending")
        n == Cardinality(cut)
    IN
    /\ upload.at = "closing"
    /\ row' = [o \in Ordinals |-> IF o \in cut THEN [row[o] EXCEPT !.st = "failed"] ELSE row[o]]
    /\ job' = IF job.st = "uploading"
                THEN [job EXCEPT !.st = "rejected", !.pending = @ - n, !.failed = @ + n] ELSE job
    /\ upload' = [upload EXCEPT !.at = "over", !.raced = @ \/ job.st # "uploading"]
    /\ UNCHANGED <<kind, task, proc, keys, applied, calls, faults>>

CommitImportJob ==
    /\ upload.at = "closing"
    /\ IF job.st = "uploading"
         THEN /\ job' = [job EXCEPT !.st = IF job.pending = 0 THEN "completed" ELSE "staged"]
              /\ upload' = [upload EXCEPT !.at = "queueing"]
         ELSE /\ upload' = [upload EXCEPT !.at = "over", !.raced = TRUE]
              /\ UNCHANGED job
    /\ UNCHANGED <<kind, row, task, proc, keys, applied, calls, faults>>

\* The job is read again; only one that is still staged gets its task.
CreateTask ==
    /\ upload.at = "queueing"
    /\ upload' = [upload EXCEPT !.at = "over"]
    /\ task' = IF job.st = "staged" THEN [task EXCEPT !.st = "pending"] ELSE task
    /\ UNCHANGED <<kind, job, row, proc, keys, applied, calls, faults>>

\* The request is cut off or one of its statements fails.
UploadBreaks ==
    /\ upload.at \in {"staging", "closing", "queueing"}
    /\ Fault
    /\ upload' = [upload EXCEPT !.at = "broken"]
    /\ UNCHANGED <<kind, job, row, task, proc, keys, applied, calls>>

-----------------------------------------------------------------------------
(* The task and its processor: ImportJobWorker.Process.                    *)

At(p, at) == proc[p].at = at
Goto(p, at) == proc' = [proc EXCEPT ![p] = [IdleProc EXCEPT !.at = at]]

\* A new execution, or one that takes over from an execution that died.
StartTask ==
    /\ At(Worker, "idle")
    /\ task.st \in {"pending", "running"}
    /\ task' = [task EXCEPT !.st = "running"]
    /\ Goto(Worker, "claim")
    /\ UNCHANGED <<kind, upload, job, row, keys, applied, calls, faults>>

FailedTask ==
    [st |-> IF task.retries < MaxRetries THEN "pending" ELSE "failed", retries |-> task.retries + 1]
RequeuedTask == [st |-> "pending", retries |-> 0]

\* processNextChunk returns an error: the request is answered, the task has failed once.
ReturnError(p) ==
    /\ Goto(p, "idle")
    /\ task' = IF p = Worker THEN FailedTask ELSE task

\* processNextChunk returns: the request is answered, the worker looks at the job.
Return(p, at) ==
    /\ Goto(p, IF p = Worker THEN at ELSE "idle")
    /\ UNCHANGED task

\* The worker's loop: the job has ended, nothing could be claimed, or it goes on
\* until its time is up.
CheckJob ==
    /\ At(Worker, "check") \/ At(Worker, "empty")
    /\ \/ /\ job.st \in Done
          /\ task' = [task EXCEPT !.st = "completed"]
          /\ Goto(Worker, "idle")
       \/ /\ job.st \notin Done
          /\ task' = RequeuedTask
          /\ Goto(Worker, "idle")
       \/ /\ job.st \notin Done /\ At(Worker, "check")
          /\ Goto(Worker, "claim")
          /\ UNCHANGED task
    /\ UNCHANGED <<kind, upload, job, row, keys, applied, calls, faults>>

\* imports.process, which asks nothing of the job's status.
ProcessNextChunk(p) ==
    /\ p \in Users /\ At(p, "idle") /\ job.st # "none"
    /\ calls < MaxCalls /\ calls' = calls + 1
    /\ Goto(p, "claim")
    /\ UNCHANGED <<kind, upload, job, row, task, keys, applied, faults>>

-----------------------------------------------------------------------------
(* A chunk: processNextChunk.                                              *)

\* Mutant: a row stays with the processor that claimed it first.
ClaimablePending(o) == row[o].st = "pending"

Claimable(o) == row[o].st = "pending" \/ (row[o].st = "processing" /\ ~row[o].live)

\* Mutant: a row whose lease ran out is counted a second time.
ClaimedJobAgain(rows) ==
    [job EXCEPT !.st = "processing", !.pending = @ - Cardinality(rows), !.processing = @ + Cardinality(rows)]

\* The status changes whatever it was and even if there is nothing to claim.
ClaimedJob(rows) ==
    LET n == Cardinality(rows \cap With("pending"))
    IN [job EXCEPT !.st = "processing", !.pending = @ - n, !.processing = @ + n]

ClaimImportRows(p) ==
    LET rows == Chunk({o \in Ordinals : Claimable(o)}) IN
    /\ At(p, "claim")
    /\ IF ~Checked(ClaimedJob(rows))
         THEN ReturnError(p) /\ UNCHANGED <<job, row>>
         ELSE /\ job' = ClaimedJob(rows)
              /\ row' = [o \in Ordinals |-> IF o \in rows
                           THEN [st |-> "processing", claim |-> p, live |-> TRUE] ELSE row[o]]
              /\ IF rows = {}
                   THEN Return(p, "empty")
                   ELSE /\ proc' = [proc EXCEPT ![p] = [IdleProc EXCEPT !.at = "map", !.chunk = rows]]
                        /\ UNCHANGED task
    /\ UNCHANGED <<kind, upload, keys, applied, calls, faults>>

\* Mutant: a row is completed by whoever worked on it, whatever became of its claim.
OwnsAnyway(p, o) == row[o].st # "absent"

\* CompleteImportRow's condition.
Owns(p, o) == row[o].st = "processing" /\ row[o].claim = p

\* Mutant: the job is complete when nothing is pending, though rows are being processed.
CompletedJobEarly(outcome) ==
    [job EXCEPT !.st = IF job.pending = 0 THEN "completed" ELSE @, !.processing = @ - 1,
                !.succeeded = @ + (IF outcome = "succeeded" THEN 1 ELSE 0),
                !.failed = @ + (IF outcome = "failed" THEN 1 ELSE 0)]

\* One row of the job has got its outcome; the last one completes the job.
CompletedJob(outcome) ==
    [job EXCEPT !.st = IF job.pending = 0 /\ job.processing = 1 THEN "completed" ELSE @,
                !.processing = @ - 1,
                !.succeeded = @ + (IF outcome = "succeeded" THEN 1 ELSE 0),
                !.failed = @ + (IF outcome = "failed" THEN 1 ELSE 0)]

CompleteImportRow(o, outcome) ==
    /\ row' = [row EXCEPT ![o] = [st |-> outcome, claim |-> None, live |-> FALSE]]
    /\ job' = CompletedJob(outcome)

MayComplete(p, o, outcome) == Owns(p, o) /\ Checked(CompletedJob(outcome))

\* The chunk in the order of the file: rows that hold no customer fail at once.
MapRow(p) ==
    LET o == Min(proc[p].chunk)
        rest == proc[p].chunk \ {o}
        items == IF kind[o] = "unmappable" THEN proc[p].items ELSE proc[p].items \cup {o}
    IN
    /\ At(p, "map")
    /\ IF kind[o] = "unmappable"
         THEN IF MayComplete(p, o, "failed")
                THEN CompleteImportRow(o, "failed") ELSE UNCHANGED <<row, job>>
         ELSE UNCHANGED <<row, job>>
    /\ IF kind[o] = "unmappable" /\ ~MayComplete(p, o, "failed")
         THEN ReturnError(p)
         ELSE IF rest = {} /\ items = {}
           THEN Return(p, "check")
           ELSE /\ proc' = [proc EXCEPT ![p].at = IF rest = {} THEN "upsert" ELSE "map",
                                        ![p].chunk = IF rest = {} THEN items ELSE rest,
                                        ![p].items = items]
                /\ UNCHANGED task
    /\ UNCHANGED <<kind, upload, keys, applied, calls, faults>>

\* UpsertCustomerBatch asks for the caller's identity, and an execution of a task has none.
Authorized(p) == p \in Users

\* Mutant: the key is looked up before the customer is written, instead of inserted first.
KeyHeldUnseen(o) == FALSE

\* INSERT ... ON CONFLICT waits for an open transaction that has inserted the same key.
KeyHeld(o) == \E q \in Procs : At(q, "commit") /\ Min(proc[q].chunk) = o

\* Mutant: the key of an earlier request is answered with a conflict.
AnswerConflict(o) == FALSE

\* A replay is answered as the first time, with the response the key's row has stored.
Answer(o) == TRUE

\* The batch notes whether its first row was accepted and turns to the next.
Note(p, ok) ==
    LET o == Min(proc[p].chunk)
        rest == proc[p].chunk \ {o}
    IN proc' = [proc EXCEPT ![p].at = IF rest = {} THEN "complete" ELSE "upsert",
                            ![p].chunk = IF rest = {} THEN proc[p].items ELSE rest,
                            ![p].accepted = IF ok THEN @ \cup {o} ELSE @]

\* One transaction per row begins with the row's key; whatever goes wrong in it becomes the
\* row's outcome.
ClaimCustomerIdempotency(p) ==
    LET o == Min(proc[p].chunk) IN
    /\ At(p, "upsert") /\ Authorized(p)
    /\ \/ /\ ~KeyHeld(o)
          /\ IF o \in keys THEN Note(p, Answer(o)) ELSE proc' = [proc EXCEPT ![p].at = "commit"]
          /\ UNCHANGED faults
       \/ Fault /\ Note(p, FALSE)
    /\ UNCHANGED <<kind, upload, job, row, task, keys, applied, calls>>

\* The key, the customer and the stored response are committed together.  The customer is
\* refused, a statement fails, or the answer to the commit is lost.
CommitCustomer(p) ==
    LET o == Min(proc[p].chunk)
        Committed == keys' = keys \cup {o} /\ applied' = [applied EXCEPT ![o] = @ + 1]
    IN
    /\ At(p, "commit")
    /\ \/ Committed /\ Note(p, TRUE) /\ UNCHANGED faults
       \/ Fault /\ Note(p, FALSE) /\ (Committed \/ UNCHANGED <<keys, applied>>)
    /\ UNCHANGED <<kind, upload, job, row, task, calls>>

UpsertRefused(p) ==
    /\ At(p, "upsert") /\ ~Authorized(p)
    /\ ReturnError(p)
    /\ UNCHANGED <<kind, upload, job, row, keys, applied, calls, faults>>

\* The outcomes, in the order of the file; a claim that a cancel took away is no error.
CompleteRow(p) ==
    LET o == Min(proc[p].chunk)
        rest == proc[p].chunk \ {o}
        outcome == IF o \in proc[p].accepted THEN "succeeded" ELSE "failed"
    IN
    /\ At(p, "complete")
    /\ \/ /\ MayComplete(p, o, outcome)
          /\ CompleteImportRow(o, outcome)
          /\ IF rest = {} THEN Return(p, "check")
                          ELSE proc' = [proc EXCEPT ![p].chunk = rest] /\ UNCHANGED task
       \/ /\ ~MayComplete(p, o, outcome)
          /\ IF job.st = "cancelled" THEN Return(p, "check") ELSE ReturnError(p)
          /\ UNCHANGED <<row, job>>
    /\ UNCHANGED <<kind, upload, keys, applied, calls, faults>>

\* A statement fails, and the processor returns an error.  The batch as a whole only fails
\* before its first row.
StatementFails(p) ==
    /\ ~At(p, "idle") /\ ~At(p, "commit")
    /\ At(p, "upsert") => proc[p].chunk = proc[p].items
    /\ Fault
    /\ ReturnError(p)
    /\ UNCHANGED <<kind, upload, job, row, keys, applied, calls>>

\* The process dies, or is shut down and puts its task back without counting a failure; an
\* open transaction is rolled back.
Crash(p) ==
    /\ ~At(p, "idle")
    /\ Fault
    /\ Goto(p, "idle")
    /\ task' \in {task, IF p = Worker THEN [task EXCEPT !.st = "pending"] ELSE task}
    /\ UNCHANGED <<kind, upload, job, row, keys, applied, calls>>

LeaseExpires(o) ==
    /\ row[o].st = "processing" /\ row[o].live
    /\ row' = [row EXCEPT ![o].live = FALSE]
    /\ UNCHANGED <<kind, upload, job, task, proc, keys, applied, calls, faults>>

\* Rows and job in one transaction, which the constraints may refuse.
CancelImportJob ==
    LET cut == With("pending") \cup With("processing")
        cancelled == [job EXCEPT !.st = "cancelled", !.failed = @ + Cardinality(cut),
                                 !.pending = 0, !.processing = 0]
    IN
    /\ job.st \in {"uploading", "staged", "processing"}
    /\ Checked(cancelled)
    /\ job' = cancelled
    /\ row' = [o \in Ordinals |-> IF o \in cut
                 THEN [st |-> "cancelled", claim |-> None, live |-> FALSE] ELSE row[o]]
    /\ UNCHANGED <<kind, upload, task, proc, keys, applied, calls, faults>>

-----------------------------------------------------------------------------
UploadStep == \/ CreateImportJob \/ StageImportRows \/ RejectImportJob
              \/ CommitImportJob \/ CreateTask

ChunkStep(p) == \/ ClaimImportRows(p) \/ MapRow(p) \/ ClaimCustomerIdempotency(p)
                \/ CommitCustomer(p) \/ UpsertRefused(p) \/ CompleteRow(p)

Next ==
    \/ UploadStep \/ UploadBreaks \/ StartTask \/ CheckJob \/ CancelImportJob
    \/ \E p \in Procs : ProcessNextChunk(p) \/ ChunkStep(p) \/ StatementFails(p) \/ Crash(p)
    \/ \E o \in Ordinals : LeaseExpires(o)

Spec == Init /\ [][Next]_vars

\* The scheduler starts the task whenever it is due, whoever began a chunk goes on with
\* it, and leases run out.
Fairness ==
    /\ WF_vars(StartTask) /\ WF_vars(CheckJob)
    /\ \A p \in Procs : WF_vars(ChunkStep(p))
    /\ \A o \in Ordinals : WF_vars(LeaseExpires(o))

FairSpec == Spec /\ Fairness

-----------------------------------------------------------------------------
(* Properties.                                                             *)

\* Job, rows, task and processors are always of their types; no counter is negative.
TypeOK ==
    /\ kind \in [Ordinals -> Kinds]
    /\ upload \in Upload
    /\ job \in Job
    /\ row \in [Ordinals -> Row]
    /\ task \in Task
    /\ proc \in [Procs -> Proc]
    /\ keys \subseteq Ordinals
    /\ applied \in [Ordinals -> Nat]
    /\ calls \in 0..MaxCalls /\ faults \in 0..MaxFaults

\* The five counters are the numbers of rows in each status, whatever claims, takeovers,
\* cancels and crashes there were, unless the upload was overtaken: a claim or a cancel
\* changed the status under it, and StageImportRows and RejectImportJob then change rows
\* without counting them.
CountersAgree ==
    ~upload.raced =>
      /\ job.total = Cardinality(Ordinals \ With("absent"))
      /\ job.pending = Cardinality(With("pending"))
      /\ job.processing = Cardinality(With("processing"))
      /\ job.succeeded = Cardinality(With("succeeded"))
      /\ job.failed = Cardinality(With("failed") \cup With("cancelled"))

\* A completed import whose upload went through has an outcome for every line of the file
\* (CompleteImportRow decides by counters that other processors change).
CompletedMeansDone ==
    job.st = "completed" /\ upload.at = "over" /\ ~upload.raced
      => \A o \in Ordinals : row[o].st \in Ended

\* A line changes the customers at most once, though chunks are taken over while their
\* first processor goes on, its answers are lost, and lines are replayed (the key of
\* claimCustomerIdempotency, which is committed with the customer).
ImportedOnce == \A o \in Ordinals : applied[o] <= 1

\* What a row reports is what happened to its customer: succeeded was imported, and failed
\* was not, unless the database erred; a replay repeats the first answer.
OutcomeTrue ==
    \A o \in Ordinals :
      /\ row[o].st = "succeeded" => applied[o] = 1
      /\ row[o].st = "failed" /\ faults = 0 => applied[o] = 0

\* A row that has its outcome keeps it: late processors lost their claims.
OutcomeStays ==
    [][\A o \in Ordinals : row[o].st \in Ended => row'[o].st = row[o].st]_vars

\* The rows of a queued job that need no customer to be written all get their outcome,
\* though the process dies in the middle of a chunk and leaves rows leased.
QueuedRowsEnd ==
    task.st = "pending" /\ (\A o \in Ordinals : kind[o] \in {"unmappable", "malformed"})
      ~> \A o \in Ordinals : row[o].st \in Ended
=============================================================================
