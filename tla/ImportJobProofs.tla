-------------------------- MODULE ImportJobProofs --------------------------
(* Machine-checked facts about ImportJob, for every number of callers, lines  *)
(* and faults and every chunk size.                                           *)
EXTENDS ImportJob, FiniteSetTheorems, WellFoundedInduction, TLAPS

USE ImportAssumption

-----------------------------------------------------------------------------
(* Sets of ordinals.                                                        *)

\* The first row of a chunk is one of its rows.
LEMMA FirstOfChunk ==
    ASSUME NEW S \in SUBSET Ordinals, S # {} PROVE Min(S) \in S
  <1> DEFINE Less == {pair \in Nat \X Nat : pair[1] < pair[2]}
  <1>1. \E x \in S : \A y \in S : ~(<<y, x>> \in Less)
    <2>1. S \subseteq Nat
      BY DEF Ordinals
    <2>2. IsWellFoundedOn(Less, Nat)
      BY NatLessThanWellFounded, Zenon DEF OpToRel
    <2>3. QED
      BY <2>1, <2>2, WFMin, Zenon
  <1>2. \E x \in S : \A y \in S : x <= y
    <2>1. PICK x \in S : \A y \in S : ~(<<y, x>> \in Less)
      BY <1>1
    <2>2. \A y \in S : y \in Nat /\ x \in Nat
      BY DEF Ordinals
    <2>3. \A y \in S : ~(y < x)
      BY <2>1, <2>2
    <2>4. QED
      BY <2>2, <2>3
  <1>3. QED
    BY <1>2 DEF Min

\* Sets of ordinals are finite; disjoint ones add up, and a part is taken away exactly.
LEMMA Counting ==
    ASSUME NEW S \in SUBSET Ordinals, NEW T \in SUBSET Ordinals
    PROVE  /\ IsFiniteSet(S) /\ Cardinality(S) \in Nat
           /\ S \cap T = {} => Cardinality(S \cup T) = Cardinality(S) + Cardinality(T)
           /\ T \subseteq S => Cardinality(S \ T) = Cardinality(S) - Cardinality(T)
           /\ Cardinality(S) = 0 <=> S = {}
  <1>1. IsFiniteSet(Ordinals)
    BY FS_Interval DEF Ordinals
  <1>2. IsFiniteSet(S) /\ IsFiniteSet(T)
    BY <1>1, FS_Subset
  <1>3. Cardinality(S) \in Nat /\ Cardinality(T) \in Nat
    BY <1>2, FS_CardinalityType
  <1>4. S \cap T = {} => Cardinality(S \cup T) = Cardinality(S) + Cardinality(T)
    <2>1. Cardinality(S \cup T) = Cardinality(S) + Cardinality(T) - Cardinality(S \cap T)
      BY <1>2, FS_Union
    <2>2. Cardinality({}) = 0
      BY FS_EmptySet
    <2>3. QED
      BY <1>3, <2>1, <2>2
  <1>5. T \subseteq S => Cardinality(S \ T) = Cardinality(S) - Cardinality(T)
    <2>1. T \subseteq S => S \cap T = T
      OBVIOUS
    <2>2. Cardinality(S \ T) = Cardinality(S) - Cardinality(S \cap T)
      BY <1>2, FS_Difference
    <2>3. QED
      BY <2>1, <2>2
  <1>6. Cardinality(S) = 0 <=> S = {}
    BY <1>2, FS_EmptySet
  <1>7. QED
    BY <1>2, <1>3, <1>4, <1>5, <1>6

-----------------------------------------------------------------------------
(* What the processors do to their memory.                                  *)

\* A processor that is at a row has a chunk, and after mapping it a part of its items.
ChunkOpen ==
    \A p \in Procs :
      /\ proc[p].at \in {"map", "upsert", "commit", "complete"} => proc[p].chunk # {}
      /\ proc[p].at \in {"upsert", "commit", "complete"} => proc[p].chunk \subseteq proc[p].items

\* p holds no rows after the step.
Left(p) ==
    /\ proc'[p].at \in {"idle", "claim", "check", "empty"}
    /\ proc'[p].chunk = {} /\ proc'[p].items = {} /\ proc'[p].accepted = {}

\* The step is p's alone, and leaves processors and task well typed.
Alone(p) ==
    /\ proc' \in [Procs -> Proc] /\ task' \in Task
    /\ \A q \in Procs \ {p} : proc'[q] = proc[q]

\* Going somewhere drops what the processor held.
LEMMA GotoLeaves ==
    ASSUME proc \in [Procs -> Proc], task' \in Task, NEW p \in Procs,
           NEW at \in {"idle", "claim", "check", "empty"}, Goto(p, at)
    PROVE  Alone(p) /\ Left(p)
  <1>1. [IdleProc EXCEPT !.at = at] = [at |-> at, chunk |-> {}, items |-> {}, accepted |-> {}]
    BY SMTT(30) DEF IdleProc
  <1>2. [at |-> at, chunk |-> {}, items |-> {}, accepted |-> {}] \in Proc
    BY DEF Proc
  <1>3. proc' = [proc EXCEPT ![p] = [at |-> at, chunk |-> {}, items |-> {}, accepted |-> {}]]
    BY <1>1 DEF Goto
  <1>4. QED
    BY <1>2, <1>3 DEF Alone, Left

\* The rows of tasks that executions write are typed.
LEMMA TasksTyped ==
    ASSUME task \in Task
    PROVE  /\ FailedTask \in Task /\ RequeuedTask \in Task
           /\ \A st \in {"pending", "running", "completed"} : [task EXCEPT !.st = st] \in Task
  BY DEF Task, FailedTask, RequeuedTask

\* Returning drops the chunk.
LEMMA ReturnLeaves ==
    ASSUME TypeOK, NEW p \in Procs, NEW at \in {"check", "empty"}, Return(p, at) \/ ReturnError(p)
    PROVE  Alone(p) /\ Left(p)
  <1>1. task \in Task /\ proc \in [Procs -> Proc]
    BY DEF TypeOK
  <1>2. CASE ReturnError(p)
    BY <1>1, <1>2, TasksTyped, GotoLeaves DEF ReturnError
  <1>3. CASE Return(p, at)
    BY <1>1, <1>3, GotoLeaves DEF Return
  <1>4. QED
    BY <1>2, <1>3

\* Steps of a processor that neither touch rows nor customers.
LEMMA IdleSteps ==
    ASSUME TypeOK, NEW p \in Procs,
           \/ p = Worker /\ (StartTask \/ CheckJob)
           \/ ProcessNextChunk(p) \/ UpsertRefused(p) \/ StatementFails(p) \/ Crash(p)
    PROVE  Alone(p) /\ Left(p) /\ UNCHANGED <<kind, upload, job, row, keys, applied>>
  <1>1. task \in Task /\ proc \in [Procs -> Proc]
    BY DEF TypeOK
  <1>2. CASE p = Worker /\ StartTask
    BY <1>1, <1>2, TasksTyped, GotoLeaves DEF StartTask
  <1>3. CASE p = Worker /\ CheckJob
    <2>1. /\ task' \in Task
          /\ \E at \in {"idle", "claim"} : Goto(p, at)
      BY <1>1, <1>3, TasksTyped DEF CheckJob
    <2>2. QED
      BY <1>1, <1>3, <2>1, GotoLeaves DEF CheckJob
  <1>4. CASE ProcessNextChunk(p)
    BY <1>1, <1>4, GotoLeaves DEF ProcessNextChunk
  <1>5. CASE UpsertRefused(p)
    BY <1>5, ReturnLeaves DEF UpsertRefused
  <1>6. CASE StatementFails(p)
    BY <1>6, ReturnLeaves DEF StatementFails
  <1>7. CASE Crash(p)
    BY <1>1, <1>7, TasksTyped, GotoLeaves DEF Crash
  <1>8. QED
    BY <1>2, <1>3, <1>4, <1>5, <1>6, <1>7

\* A processor that is at a row takes one of its chunk.
LEMMA FirstRow ==
    ASSUME TypeOK, ChunkOpen, NEW p \in Procs, proc[p].at \in {"map", "upsert", "commit", "complete"}
    PROVE  Min(proc[p].chunk) \in proc[p].chunk /\ Min(proc[p].chunk) \in Ordinals
  <1>1. proc[p].chunk \in SUBSET Ordinals /\ proc[p].chunk # {}
    BY DEF TypeOK, ChunkOpen, Proc
  <1>2. QED
    BY <1>1, FirstOfChunk

\* A claim gives the processor a chunk of claimable rows, or nothing.
LEMMA ClaimMemory ==
    ASSUME TypeOK, NEW p \in Procs, ClaimImportRows(p), NEW rows, rows = Chunk({o \in Ordinals : Claimable(o)})
    PROVE  /\ Alone(p)
           /\ \/ Left(p)
              \/ /\ proc'[p].at = "map" /\ rows # {} /\ proc'[p].chunk = rows
                 /\ proc'[p].items = {} /\ proc'[p].accepted = {}
                 /\ \A o \in rows : row'[o].st = "processing"
  <1>1. task \in Task /\ proc \in [Procs -> Proc]
    BY DEF TypeOK
  <1>2. rows \in SUBSET Ordinals
    BY DEF Chunk
  <1>3. CASE ReturnError(p)
    BY <1>3, ReturnLeaves
  <1>4. CASE Return(p, "empty")
    BY <1>4, ReturnLeaves
  <1>5. ASSUME rows # {}, task' = task,
               proc' = [proc EXCEPT ![p] = [IdleProc EXCEPT !.at = "map", !.chunk = rows]],
               row' = [o \in Ordinals |-> IF o \in rows
                         THEN [st |-> "processing", claim |-> p, live |-> TRUE] ELSE row[o]]
        PROVE  /\ Alone(p)
               /\ proc'[p].at = "map" /\ rows # {} /\ proc'[p].chunk = rows
               /\ proc'[p].items = {} /\ proc'[p].accepted = {}
               /\ \A o \in rows : row'[o].st = "processing"
    <2>1. PICK mem : mem = [IdleProc EXCEPT !.at = "map", !.chunk = rows]
      OBVIOUS
    <2>2. /\ mem \in Proc /\ mem.at = "map" /\ mem.chunk = rows
          /\ mem.items = {} /\ mem.accepted = {}
      BY <1>2, <2>1 DEF IdleProc, Proc
    <2>3. proc' = [proc EXCEPT ![p] = mem] /\ task' \in Task
      BY <1>1, <1>5, <2>1
    <2>4. Alone(p) /\ proc'[p] = mem
      BY <1>1, <2>2, <2>3 DEF Alone
    <2>5. \A o \in rows : row'[o].st = "processing"
      BY <1>2, <1>5
    <2>6. QED
      BY <1>5, <2>2, <2>4, <2>5
  <1>6. \/ ReturnError(p) \/ Return(p, "empty")
        \/ /\ rows # {} /\ task' = task
           /\ proc' = [proc EXCEPT ![p] = [IdleProc EXCEPT !.at = "map", !.chunk = rows]]
           /\ row' = [o \in Ordinals |-> IF o \in rows
                        THEN [st |-> "processing", claim |-> p, live |-> TRUE] ELSE row[o]]
    BY Zenon DEF ClaimImportRows
  <1>7. QED
    BY <1>3, <1>4, <1>5, <1>6

\* Mapping moves the first row of the chunk to the items, or fails it; the items are the
\* chunk of the upsert.
LEMMA MapMemory ==
    ASSUME TypeOK, ChunkOpen, NEW p \in Procs, MapRow(p), NEW o, o = Min(proc[p].chunk)
    PROVE  /\ Alone(p)
           /\ \/ Left(p)
              \/ /\ proc'[p].at \in {"map", "upsert"} /\ proc'[p].chunk # {}
                 /\ proc'[p].accepted = proc[p].accepted
                 /\ \/ proc'[p].items = proc[p].items
                    \/ kind[o] # "unmappable" /\ proc'[p].items = proc[p].items \cup {o}
                 /\ proc'[p].at = "map" => proc'[p].chunk \subseteq proc[p].chunk
                 /\ proc'[p].at = "upsert" => proc'[p].chunk = proc'[p].items
  <1>1. task \in Task /\ proc \in [Procs -> Proc] /\ proc[p] \in Proc
    BY DEF TypeOK
  <1>2. o \in Ordinals
    BY FirstRow DEF MapRow, At
  <1> DEFINE rest == proc[p].chunk \ {o}
             items == IF kind[o] = "unmappable" THEN proc[p].items ELSE proc[p].items \cup {o}
  <1>3. \/ ReturnError(p) \/ Return(p, "check")
        \/ /\ rest # {} \/ items # {}
           /\ proc' = [proc EXCEPT ![p].at = IF rest = {} THEN "upsert" ELSE "map",
                                   ![p].chunk = IF rest = {} THEN items ELSE rest,
                                   ![p].items = items]
           /\ task' = task
    BY Zenon DEF MapRow
  <1>4. /\ rest \in SUBSET Ordinals /\ rest \subseteq proc[p].chunk /\ items \in SUBSET Ordinals
        /\ items = proc[p].items \/ (kind[o] # "unmappable" /\ items = proc[p].items \cup {o})
    BY <1>1, <1>2 DEF Proc
  <1> HIDE DEF rest, items
  <1>5. CASE ReturnError(p) \/ Return(p, "check")
    BY <1>5, ReturnLeaves
  <1>6. CASE /\ rest = {} /\ items # {} /\ task' = task
             /\ proc' = [proc EXCEPT ![p].at = "upsert", ![p].chunk = items, ![p].items = items]
    <2>1. proc' \in [Procs -> Proc]
      BY <1>1, <1>4, <1>6 DEF Proc
    <2>2. Alone(p)
      BY <1>1, <1>6, <2>1 DEF Alone
    <2>3. /\ proc'[p].at = "upsert" /\ proc'[p].chunk = items /\ proc'[p].items = items
          /\ proc'[p].accepted = proc[p].accepted
      BY <1>1, <1>6 DEF Proc
    <2>4. QED
      BY <1>4, <1>6, <2>2, <2>3
  <1>7. CASE /\ rest # {} /\ task' = task
             /\ proc' = [proc EXCEPT ![p].at = "map", ![p].chunk = rest, ![p].items = items]
    <2>1. proc' \in [Procs -> Proc]
      BY <1>1, <1>4, <1>7 DEF Proc
    <2>2. Alone(p)
      BY <1>1, <1>7, <2>1 DEF Alone
    <2>3. /\ proc'[p].at = "map" /\ proc'[p].chunk = rest /\ proc'[p].items = items
          /\ proc'[p].accepted = proc[p].accepted
      BY <1>1, <1>7 DEF Proc
    <2>4. QED
      BY <1>4, <1>7, <2>2, <2>3
  <1>8. QED
    BY <1>3, <1>5, <1>6, <1>7

\* The customer of o is written and its key with it.
Applied(o) == keys' = keys \cup {o} /\ applied' = [applied EXCEPT ![o] = @ + 1]

\* A processor is about to write the customer of a row, or writes it.
Upserting(p) == ClaimCustomerIdempotency(p) \/ CommitCustomer(p)

\* Noting an answer takes the first row off the chunk.
LEMMA NoteMemory ==
    ASSUME TypeOK, ChunkOpen, NEW p \in Procs, proc[p].at \in {"upsert", "commit"},
           NEW ok \in BOOLEAN, Note(p, ok), task' = task, NEW o, o = Min(proc[p].chunk)
    PROVE  /\ Alone(p)
           /\ proc'[p].at \in {"upsert", "complete"} /\ proc'[p].chunk # {}
           /\ proc'[p].items = proc[p].items /\ proc'[p].chunk \subseteq proc[p].items
           /\ proc'[p].at = "upsert" => proc'[p].chunk = proc[p].chunk \ {o}
           /\ proc'[p].at = "complete" => proc[p].chunk = {o}
           /\ proc'[p].accepted = IF ok THEN proc[p].accepted \cup {o} ELSE proc[p].accepted
  <1>1. task \in Task /\ proc \in [Procs -> Proc] /\ proc[p] \in Proc
    BY DEF TypeOK
  <1>2. o \in Ordinals /\ o \in proc[p].chunk /\ proc[p].chunk \subseteq proc[p].items
    BY FirstRow DEF ChunkOpen
  <1>3. PICK rest : rest = proc[p].chunk \ {o}
    OBVIOUS
  <1>4. PICK acc : acc = IF ok THEN proc[p].accepted \cup {o} ELSE proc[p].accepted
    OBVIOUS
  <1>5. proc' = [proc EXCEPT ![p].at = IF rest = {} THEN "complete" ELSE "upsert",
                             ![p].chunk = IF rest = {} THEN proc[p].items ELSE rest,
                             ![p].accepted = acc]
    BY <1>3, <1>4 DEF Note
  <1>6. /\ rest \in SUBSET Ordinals /\ proc[p].items \in SUBSET Ordinals /\ acc \in SUBSET Ordinals
        /\ rest = {} => proc[p].chunk = {o}
        /\ rest \subseteq proc[p].items /\ proc[p].items # {}
    BY <1>1, <1>2, <1>3, <1>4 DEF Proc
  <1>7. CASE rest = {}
    <2>1. proc' = [proc EXCEPT ![p].at = "complete", ![p].chunk = proc[p].items, ![p].accepted = acc]
      BY <1>5, <1>7
    <2>2. proc' \in [Procs -> Proc]
      BY <1>1, <1>6, <2>1 DEF Proc
    <2>3. Alone(p)
      BY <1>1, <2>1, <2>2 DEF Alone
    <2>4. /\ proc'[p].at = "complete" /\ proc'[p].chunk = proc[p].items /\ proc'[p].items = proc[p].items
          /\ proc'[p].accepted = acc
      BY <1>1, <2>1 DEF Proc
    <2>5. QED
      BY <1>4, <1>6, <1>7, <2>3, <2>4
  <1>8. CASE rest # {}
    <2>1. proc' = [proc EXCEPT ![p].at = "upsert", ![p].chunk = rest, ![p].accepted = acc]
      BY <1>5, <1>8
    <2>2. proc' \in [Procs -> Proc]
      BY <1>1, <1>6, <2>1 DEF Proc
    <2>3. Alone(p)
      BY <1>1, <2>1, <2>2 DEF Alone
    <2>4. /\ proc'[p].at = "upsert" /\ proc'[p].chunk = rest /\ proc'[p].items = proc[p].items
          /\ proc'[p].accepted = acc
      BY <1>1, <2>1 DEF Proc
    <2>5. QED
      BY <1>3, <1>4, <1>6, <1>8, <2>3, <2>4
  <1>9. QED
    BY <1>7, <1>8

\* An upsert opens the transaction of the first row of the chunk, or takes that row off it:
\* accepted if its customer was committed now or before; anything else is a fault.
LEMMA UpsertMemory ==
    ASSUME TypeOK, ChunkOpen, NEW p \in Procs, Upserting(p), NEW o, o = Min(proc[p].chunk)
    PROVE  /\ proc[p].at \in {"upsert", "commit"} /\ Alone(p)
           /\ proc'[p].chunk # {} /\ proc'[p].items = proc[p].items /\ proc'[p].chunk \subseteq proc[p].items
           /\ \/ /\ proc[p].at = "upsert" /\ proc'[p].at = "commit" /\ ~KeyHeld(o) /\ o \notin keys
                 /\ proc'[p].chunk = proc[p].chunk /\ proc'[p].accepted = proc[p].accepted
                 /\ UNCHANGED <<keys, applied, faults>>
              \/ /\ proc'[p].at \in {"upsert", "complete"}
                 /\ proc'[p].at = "upsert" => proc'[p].chunk = proc[p].chunk \ {o}
                 /\ proc'[p].at = "complete" => proc[p].chunk = {o}
                 /\ \/ /\ faults' = faults /\ proc'[p].accepted = proc[p].accepted \cup {o}
                       /\ \/ proc[p].at = "commit" /\ Applied(o)
                          \/ o \in keys /\ UNCHANGED <<keys, applied>>
                    \/ /\ faults' = faults + 1 /\ proc'[p].accepted = proc[p].accepted
                       /\ \/ proc[p].at = "commit" /\ Applied(o)
                          \/ UNCHANGED <<keys, applied>>
  <1>1. proc[p].at \in {"upsert", "commit"} /\ task' = task
    BY DEF Upserting, ClaimCustomerIdempotency, CommitCustomer, At
  <1>2. task \in Task /\ proc \in [Procs -> Proc] /\ proc[p] \in Proc
    BY DEF TypeOK
  <1>3. proc[p].chunk # {} /\ proc[p].chunk \subseteq proc[p].items
    BY <1>1 DEF ChunkOpen
  <1>4. CASE ClaimCustomerIdempotency(p)
    <2>1. /\ proc[p].at = "upsert" /\ UNCHANGED <<keys, applied>>
          /\ \/ faults' = faults /\ ~KeyHeld(o) /\ o \in keys /\ Note(p, TRUE)
             \/ faults' = faults /\ ~KeyHeld(o) /\ o \notin keys /\ proc' = [proc EXCEPT ![p].at = "commit"]
             \/ faults' = faults + 1 /\ Note(p, FALSE)
      BY <1>4 DEF ClaimCustomerIdempotency, At, Fault, Answer
    <2>2. CASE Note(p, TRUE) \/ Note(p, FALSE)
      <3>1. PICK ok \in BOOLEAN : Note(p, ok)
        BY <2>2
      <3>2. CASE proc' = [proc EXCEPT ![p].at = "commit"]
        <4>1. proc'[p].at = "commit"
          BY <1>2, <3>2
        <4>2. QED
          BY <1>1, <3>1, <4>1, NoteMemory
      <3>3. CASE \/ faults' = faults /\ o \in keys /\ Note(p, TRUE)
                 \/ faults' = faults + 1 /\ Note(p, FALSE)
        BY <1>1, <2>1, <3>3, NoteMemory
      <3>4. QED
        BY <2>1, <3>2, <3>3
    <2>3. CASE faults' = faults /\ ~KeyHeld(o) /\ o \notin keys /\ proc' = [proc EXCEPT ![p].at = "commit"]
      <3>1. proc' \in [Procs -> Proc]
        BY <1>2, <2>3 DEF Proc
      <3>2. /\ proc'[p].at = "commit" /\ proc'[p].chunk = proc[p].chunk /\ proc'[p].items = proc[p].items
            /\ proc'[p].accepted = proc[p].accepted
        BY <1>2, <2>3 DEF Proc
      <3>3. Alone(p)
        BY <1>1, <1>2, <2>3, <3>1 DEF Alone
      <3>4. QED
        BY <1>1, <1>3, <2>1, <2>3, <3>2, <3>3
    <2>4. QED
      BY <2>1, <2>2, <2>3
  <1>5. CASE CommitCustomer(p)
    <2>1. /\ proc[p].at = "commit"
          /\ \/ faults' = faults /\ Applied(o) /\ Note(p, TRUE)
             \/ faults' = faults + 1 /\ Note(p, FALSE) /\ (Applied(o) \/ UNCHANGED <<keys, applied>>)
      BY <1>5, Zenon DEF CommitCustomer, At, Fault, Applied
    <2>2. QED
      BY <1>1, <2>1, NoteMemory
  <1>6. QED
    BY <1>4, <1>5 DEF Upserting

\* Completing takes the first row off the chunk, until it is left.
LEMMA CompleteMemory ==
    ASSUME TypeOK, ChunkOpen, NEW p \in Procs, CompleteRow(p)
    PROVE  /\ Alone(p)
           /\ \/ Left(p)
              \/ /\ proc'[p].at = "complete" /\ proc'[p].chunk # {} /\ proc'[p].chunk \subseteq proc[p].chunk
                 /\ proc'[p].items = proc[p].items /\ proc'[p].accepted = proc[p].accepted
  <1> DEFINE rest == proc[p].chunk \ {Min(proc[p].chunk)}
  <1>1. task \in Task /\ proc \in [Procs -> Proc] /\ proc[p] \in Proc /\ proc[p].at = "complete"
    BY DEF TypeOK, CompleteRow, At
  <1>2. CASE ReturnError(p) \/ Return(p, "check")
    BY <1>2, ReturnLeaves
  <1>3. CASE rest # {} /\ proc' = [proc EXCEPT ![p].chunk = rest] /\ task' = task
    <2>1. rest \in SUBSET Ordinals /\ rest \subseteq proc[p].chunk
      BY <1>1 DEF Proc
    <2> HIDE DEF rest
    <2>2. Alone(p)
      BY <1>1, <1>3, <2>1 DEF Alone, Proc
    <2>3. /\ proc'[p].at = proc[p].at /\ proc'[p].chunk = rest
          /\ proc'[p].items = proc[p].items /\ proc'[p].accepted = proc[p].accepted
      BY <1>1, <1>3 DEF Proc
    <2>4. QED
      BY <1>1, <1>3, <2>1, <2>2, <2>3
  <1>4. QED
    BY <1>2, <1>3 DEF CompleteRow

-----------------------------------------------------------------------------
(* What the statements do to the rows and the counters.                     *)

\* The counters of the job, before the constraints are checked.
IntJob == [st : {"none", "uploading", "staged", "processing"} \cup Done,
           total : Int, pending : Int, processing : Int, succeeded : Int, failed : Int]

\* The constraints of import_jobs keep every counter a natural number.
LEMMA CheckedTyped ==
    ASSUME NEW j \in IntJob, Checked(j) PROVE j \in Job
  BY DEF IntJob, Job, Checked

\* Rows that change their status leave one set and enter another.
LEMMA Moved ==
    ASSUME NEW X \in SUBSET Ordinals, NEW to, NEW s,
           \A o \in Ordinals : row'[o].st = IF o \in X THEN to ELSE row[o].st
    PROVE  With(s)' = IF s = to THEN With(s) \cup X ELSE With(s) \ X
  BY DEF With

\* The five counters are the numbers of rows in each status.
Tally ==
    /\ job.total = Cardinality(Ordinals \ With("absent"))
    /\ job.pending = Cardinality(With("pending"))
    /\ job.processing = Cardinality(With("processing"))
    /\ job.succeeded = Cardinality(With("succeeded"))
    /\ job.failed = Cardinality(With("failed") \cup With("cancelled"))

\* The sets of rows by status.
LEMMA Statuses ==
    /\ \A s : With(s) \in SUBSET Ordinals
    /\ \A s, t : s # t => With(s) \cap With(t) = {}
  BY DEF With

\* Staging counts what it inserts.
LEMMA StageRows ==
    ASSUME TypeOK, StageImportRows
    PROVE  /\ row' \in [Ordinals -> Row] /\ job' \in Job
           /\ \A o \in Ordinals : \/ row'[o].st = row[o].st
                                  \/ row[o].st = "absent" /\ row'[o].st \in {"pending", "failed"}
           /\ upload'.at = "closing" => With("absent")' = {}
           /\ job.st = "uploading" /\ Tally => Tally'
  <1> DEFINE new == Chunk(With("absent"))
             bad == {o \in new : kind[o] = "malformed"}
             good == new \ bad
  <1>1. /\ new \subseteq With("absent") /\ bad \subseteq new /\ good \subseteq new
        /\ new \in SUBSET Ordinals /\ bad \in SUBSET Ordinals /\ good \in SUBSET Ordinals
        /\ new = good \cup bad /\ good \cap bad = {}
    BY Statuses DEF Chunk
  <1>2. row \in [Ordinals -> Row] /\ job \in Job /\ upload \in Upload
    BY DEF TypeOK
  <1>3. /\ row' = [o \in Ordinals |-> IF o \in new
                     THEN [row[o] EXCEPT !.st = IF o \in bad THEN "failed" ELSE "pending"] ELSE row[o]]
        /\ job' = IF job.st = "uploading" THEN StagedJob(new, bad) ELSE job
        /\ upload' = [upload EXCEPT !.at = IF new = With("absent") THEN "closing" ELSE "staging",
                                    !.raced = @ \/ job.st # "uploading"]
    BY Zenon DEF StageImportRows
  <1> HIDE DEF new, bad, good
  <1>4. \A o \in Ordinals :
          row'[o].st = IF o \in bad THEN "failed" ELSE IF o \in good THEN "pending" ELSE row[o].st
    BY <1>1, <1>2, <1>3 DEF Row
  <1>5. row' \in [Ordinals -> Row]
    BY <1>2, <1>3 DEF Row, Ended
  <1>6. Cardinality(new) \in Nat /\ Cardinality(bad) \in Nat /\ Cardinality(good) \in Nat
    BY <1>1, Counting
  <1>7. job.st # "uploading" => job' \in Job
    BY <1>2, <1>3
  <1>8. ASSUME job.st = "uploading" PROVE job' \in Job /\ (Tally => Tally')
    <2>1. /\ job'.total = job.total + Cardinality(new)
          /\ job'.pending = job.pending + Cardinality(good) /\ job'.failed = job.failed + Cardinality(bad)
          /\ job'.processing = job.processing /\ job'.succeeded = job.succeeded
          /\ job' \in Job
      <3>1. job' = [job EXCEPT !.total = @ + Cardinality(new),
                               !.pending = @ + Cardinality(good), !.failed = @ + Cardinality(bad)]
        BY <1>3, <1>8 DEF StagedJob, good
      <3>2. /\ job.total + Cardinality(new) \in Nat /\ job.pending + Cardinality(good) \in Nat
            /\ job.failed + Cardinality(bad) \in Nat
        BY <1>2, <1>6 DEF Job
      <3>3. QED
        BY <1>2, <3>1, <3>2 DEF Job
    <2>2. ASSUME Tally PROVE Tally'
      <3>1. /\ With("absent")' = With("absent") \ new /\ With("pending")' = With("pending") \cup good
            /\ With("failed")' = With("failed") \cup bad
            /\ With("processing")' = With("processing") /\ With("succeeded")' = With("succeeded")
            /\ With("cancelled")' = With("cancelled")
        BY <1>1, <1>4 DEF With
      <3>2. Ordinals \ (With("absent") \ new) = (Ordinals \ With("absent")) \cup new
        BY <1>1
      <3>3. Cardinality((Ordinals \ With("absent")) \cup new) = Cardinality(Ordinals \ With("absent")) + Cardinality(new)
        <4>1. Ordinals \ With("absent") \in SUBSET Ordinals /\ (Ordinals \ With("absent")) \cap new = {}
          BY <1>1
        <4>2. QED
          BY <1>1, <4>1, Counting
      <3>4. Cardinality(With("pending") \cup good) = Cardinality(With("pending")) + Cardinality(good)
        <4>1. With("pending") \in SUBSET Ordinals /\ With("pending") \cap good = {}
          BY <1>1, Statuses
        <4>2. QED
          BY <1>1, <4>1, Counting
      <3>5. Cardinality((With("failed") \cup bad) \cup With("cancelled"))
              = Cardinality(With("failed") \cup With("cancelled")) + Cardinality(bad)
        <4>1. /\ With("failed") \cup With("cancelled") \in SUBSET Ordinals
              /\ (With("failed") \cup With("cancelled")) \cap bad = {}
          BY <1>1, Statuses
        <4>2. (With("failed") \cup bad) \cup With("cancelled") = (With("failed") \cup With("cancelled")) \cup bad
          OBVIOUS
        <4>3. QED
          BY <1>1, <4>1, <4>2, Counting
      <3>6. QED
        BY <2>1, <2>2, <3>1, <3>2, <3>3, <3>4, <3>5 DEF Tally
    <2>3. QED
      BY <2>1, <2>2
  <1>9. upload'.at = "closing" => With("absent")' = {}
    <2>1. upload'.at = IF new = With("absent") THEN "closing" ELSE "staging"
      BY <1>2, <1>3 DEF Upload
    <2>2. With("absent")' = With("absent") \ new
      BY <1>1, <1>4 DEF With
    <2>3. QED
      BY <2>1, <2>2
  <1>10. \A o \in Ordinals : \/ row'[o].st = row[o].st
                             \/ row[o].st = "absent" /\ row'[o].st \in {"pending", "failed"}
    BY <1>1, <1>4 DEF With
  <1>11. job' \in Job /\ (job.st = "uploading" /\ Tally => Tally')
    BY <1>7, <1>8
  <1>12. QED
    BY <1>5, <1>9, <1>10, <1>11

\* Rejecting fails the rows that wait, and counts them.
LEMMA RejectRows ==
    ASSUME TypeOK, RejectImportJob, job.st = "uploading" => Tally
    PROVE  /\ row' \in [Ordinals -> Row] /\ job' \in Job
           /\ \A o \in Ordinals : \/ row'[o].st = row[o].st
                                  \/ row[o].st = "pending" /\ row'[o].st = "failed"
           /\ With("absent")' = With("absent")
           /\ job.st = "uploading" => Tally'
  <1> DEFINE cut == With("pending")
             n == Cardinality(cut)
  <1>1. row \in [Ordinals -> Row] /\ job \in Job
    BY DEF TypeOK
  <1>2. cut \in SUBSET Ordinals /\ n \in Nat
    BY Statuses, Counting
  <1>3. /\ row' = [o \in Ordinals |-> IF o \in cut THEN [row[o] EXCEPT !.st = "failed"] ELSE row[o]]
        /\ job' = IF job.st = "uploading"
                    THEN [job EXCEPT !.st = "rejected", !.pending = @ - n, !.failed = @ + n] ELSE job
    BY Zenon DEF RejectImportJob
  <1> HIDE DEF n
  <1>4. \A o \in Ordinals : row'[o].st = IF o \in cut THEN "failed" ELSE row[o].st
    BY <1>1, <1>3 DEF Row
  <1>5. row' \in [Ordinals -> Row]
    BY <1>1, <1>3 DEF Row, Ended
  <1>6. \A o \in Ordinals : \/ row'[o].st = row[o].st
                            \/ row[o].st = "pending" /\ row'[o].st = "failed"
    BY <1>4 DEF With
  <1>7. /\ With("pending")' = {} /\ With("failed")' = With("failed") \cup cut
        /\ With("absent")' = With("absent") /\ With("processing")' = With("processing")
        /\ With("succeeded")' = With("succeeded") /\ With("cancelled")' = With("cancelled")
    BY <1>4 DEF With
  <1>8. job.st # "uploading" => job' = job
    BY <1>3
  <1>9. ASSUME job.st = "uploading" PROVE job' \in Job /\ Tally'
    <2>1. job.pending = n /\ Tally
      BY <1>9 DEF Tally, n
    <2>2. job.pending - n = 0 /\ job.failed + n \in Nat
      BY <1>1, <1>2, <2>1 DEF Job
    <2>3. /\ job' \in Job /\ job'.pending = 0 /\ job'.failed = job.failed + n
          /\ job'.total = job.total /\ job'.processing = job.processing /\ job'.succeeded = job.succeeded
      <3>1. job' = [job EXCEPT !.st = "rejected", !.pending = 0, !.failed = job.failed + n]
        BY <1>3, <1>9, <2>2
      <3>2. QED
        BY <1>1, <2>2, <3>1 DEF Job, Done
    <2>4. Cardinality((With("failed") \cup cut) \cup With("cancelled"))
            = Cardinality(With("failed") \cup With("cancelled")) + n
      <3>1. /\ With("failed") \cup With("cancelled") \in SUBSET Ordinals
            /\ (With("failed") \cup With("cancelled")) \cap cut = {}
        BY Statuses
      <3>2. (With("failed") \cup cut) \cup With("cancelled") = (With("failed") \cup With("cancelled")) \cup cut
        OBVIOUS
      <3>3. QED
        BY <1>2, <3>1, <3>2, Counting DEF n
    <2>5. Cardinality({}) = 0
      BY FS_EmptySet
    <2>6. QED
      BY <1>7, <2>1, <2>3, <2>4, <2>5 DEF Tally
  <1>10. QED
    BY <1>1, <1>5, <1>6, <1>7, <1>8, <1>9

\* A claim moves the waiting rows of the chunk to processing, counts those alone, and only
\* if the constraints allow it.
LEMMA ClaimRows ==
    ASSUME TypeOK, NEW p \in Procs, ClaimImportRows(p)
    PROVE  \/ UNCHANGED <<row, job>>
           \/ /\ row' \in [Ordinals -> Row] /\ job' \in Job /\ job'.st = "processing"
              /\ \A o \in Ordinals : \/ row'[o].st = row[o].st
                                     \/ row[o].st = "pending" /\ row'[o].st = "processing"
              /\ Tally => Tally'
  <1> DEFINE rows == Chunk({o \in Ordinals : Claimable(o)})
             fresh == rows \cap With("pending")
             n == Cardinality(fresh)
  <1>1. row \in [Ordinals -> Row] /\ job \in Job
    BY DEF TypeOK
  <1>2. /\ rows \in SUBSET Ordinals /\ fresh \in SUBSET Ordinals /\ fresh \subseteq With("pending")
        /\ rows \subseteq With("pending") \cup With("processing")
        /\ rows \ fresh \subseteq With("processing")
    BY DEF Chunk, Claimable, With
  <1>3. \/ UNCHANGED <<row, job>>
        \/ /\ Checked(ClaimedJob(rows)) /\ job' = ClaimedJob(rows)
           /\ row' = [o \in Ordinals |-> IF o \in rows
                        THEN [st |-> "processing", claim |-> p, live |-> TRUE] ELSE row[o]]
    BY Zenon DEF ClaimImportRows
  <1>4. ClaimedJob(rows) = [job EXCEPT !.st = "processing", !.pending = @ - n, !.processing = @ + n]
    BY DEF ClaimedJob
  <1>5. n \in Nat
    BY <1>2, Counting
  <1> HIDE DEF rows, fresh, n
  <1>6. ASSUME Checked(ClaimedJob(rows)), job' = ClaimedJob(rows),
               row' = [o \in Ordinals |-> IF o \in rows
                         THEN [st |-> "processing", claim |-> p, live |-> TRUE] ELSE row[o]]
        PROVE  /\ row' \in [Ordinals -> Row] /\ job' \in Job /\ job'.st = "processing"
               /\ \A o \in Ordinals : \/ row'[o].st = row[o].st
                                      \/ row[o].st = "pending" /\ row'[o].st = "processing"
               /\ Tally => Tally'
    <2>1. row' \in [Ordinals -> Row]
      BY <1>1, <1>6 DEF Row
    <2>2. \A o \in Ordinals : row'[o].st = IF o \in rows THEN "processing" ELSE row[o].st
      BY <1>6
    <2>3. \A o \in Ordinals : row'[o].st = IF o \in fresh THEN "processing" ELSE row[o].st
      BY <1>2, <2>2 DEF With, fresh
    <2>4. \A o \in Ordinals : \/ row'[o].st = row[o].st
                              \/ row[o].st = "pending" /\ row'[o].st = "processing"
      BY <1>2, <2>3 DEF With
    <2>5. /\ job' \in IntJob /\ job'.st = "processing"
          /\ job'.pending = job.pending - n /\ job'.processing = job.processing + n
          /\ job'.total = job.total /\ job'.succeeded = job.succeeded /\ job'.failed = job.failed
      <3>1. job.pending - n \in Int /\ job.processing + n \in Int
        BY <1>1, <1>5 DEF Job
      <3>2. job' = [job EXCEPT !.st = "processing", !.pending = @ - n, !.processing = @ + n]
        BY <1>4, <1>6
      <3>3. job \in IntJob
        BY <1>1 DEF Job, IntJob
      <3>4. job' \in IntJob
        BY <3>1, <3>2, <3>3 DEF IntJob
      <3>5. QED
        BY <3>2, <3>3, <3>4 DEF IntJob
    <2>6. job' \in Job
      BY <1>6, <2>5, CheckedTyped
    <2>7. ASSUME Tally PROVE Tally'
      <3>1. /\ With("pending")' = With("pending") \ fresh
            /\ With("processing")' = With("processing") \cup fresh
            /\ With("absent")' = With("absent") /\ With("succeeded")' = With("succeeded")
            /\ With("failed")' = With("failed") /\ With("cancelled")' = With("cancelled")
        BY <1>2, <2>3 DEF With
      <3>2. Cardinality(With("pending") \ fresh) = Cardinality(With("pending")) - n
        BY <1>2, Statuses, Counting DEF n
      <3>3. Cardinality(With("processing") \cup fresh) = Cardinality(With("processing")) + n
        <4>1. With("processing") \in SUBSET Ordinals /\ With("processing") \cap fresh = {}
          BY <1>2, Statuses
        <4>2. QED
          BY <1>2, <4>1, Counting DEF n
      <3>4. QED
        BY <2>5, <2>7, <3>1, <3>2, <3>3 DEF Tally
    <2>8. QED
      BY <2>1, <2>4, <2>5, <2>6, <2>7
  <1>7. QED
    BY <1>3, <1>6

\* Completing moves one row from processing to its outcome, and completes the job with the
\* last one.
LEMMA CompleteRows ==
    ASSUME TypeOK, NEW p \in Procs, NEW o \in Ordinals, NEW outcome \in {"succeeded", "failed"},
           MayComplete(p, o, outcome), CompleteImportRow(o, outcome)
    PROVE  /\ row' \in [Ordinals -> Row] /\ job' \in Job
           /\ row[o].st = "processing" /\ row'[o].st = outcome
           /\ \A i \in Ordinals \ {o} : row'[i] = row[i]
           /\ job.processing >= 1 /\ job'.processing = job.processing - 1 /\ job'.pending = job.pending
           /\ job'.st = IF job.pending = 0 /\ job.processing = 1 THEN "completed" ELSE job.st
           /\ Tally => Tally'
  <1>1. row \in [Ordinals -> Row] /\ job \in Job
    BY DEF TypeOK
  <1>2. row[o].st = "processing" /\ Checked(job')
    BY DEF MayComplete, Owns, CompleteImportRow
  <1>3. row' \in [Ordinals -> Row] /\ row'[o].st = outcome /\ \A i \in Ordinals \ {o} : row'[i] = row[i]
    BY <1>1 DEF CompleteImportRow, Row, Ended
  <1> DEFINE s == IF outcome = "succeeded" THEN 1 ELSE 0
             f == IF outcome = "failed" THEN 1 ELSE 0
             st == IF job.pending = 0 /\ job.processing = 1 THEN "completed" ELSE job.st
  <1>4. /\ job' \in IntJob /\ job'.st = st
        /\ job'.processing = job.processing - 1 /\ job'.pending = job.pending /\ job'.total = job.total
        /\ job'.succeeded = job.succeeded + s /\ job'.failed = job.failed + f
    <2>1. job' = [job EXCEPT !.st = st, !.processing = @ - 1, !.succeeded = @ + s, !.failed = @ + f]
      BY DEF CompleteImportRow, CompletedJob
    <2>2. /\ job.processing - 1 \in Int /\ job.succeeded + s \in Int /\ job.failed + f \in Int
          /\ st \in {"none", "uploading", "staged", "processing"} \cup Done
      BY <1>1 DEF Job, Done
    <2> HIDE DEF s, f, st
    <2>3. job \in IntJob
      BY <1>1 DEF Job, IntJob
    <2>4. job' \in IntJob
      BY <2>1, <2>2, <2>3 DEF IntJob
    <2>5. QED
      BY <2>1, <2>3, <2>4 DEF IntJob
  <1>5. job' \in Job
    BY <1>2, <1>4, CheckedTyped
  <1>6. job.processing >= 1
    BY <1>1, <1>4, <1>5 DEF Job
  <1>7. ASSUME Tally PROVE Tally'
    <2>1. \A i \in Ordinals : row'[i].st = IF i \in {o} THEN outcome ELSE row[i].st
      BY <1>3
    <2>2. /\ With("processing")' = With("processing") \ {o}
          /\ With("absent")' = With("absent") /\ With("pending")' = With("pending")
          /\ With("cancelled")' = With("cancelled")
      BY <1>2, <2>1 DEF With
    <2>3. Cardinality(With("processing") \ {o}) = Cardinality(With("processing")) - 1
      <3>1. With("processing") \in SUBSET Ordinals /\ {o} \in SUBSET Ordinals /\ {o} \subseteq With("processing")
        BY <1>2 DEF With
      <3>2. Cardinality({o}) = 1
        BY FS_Singleton
      <3>3. QED
        BY <3>1, <3>2, Counting
    <2>4. Cardinality({o}) = 1 /\ {o} \in SUBSET Ordinals
      BY FS_Singleton
    <2>5. CASE outcome = "succeeded"
      <3>1. With("succeeded")' = With("succeeded") \cup {o} /\ With("failed")' = With("failed")
        BY <1>2, <2>1, <2>5 DEF With
      <3>2. With("succeeded") \in SUBSET Ordinals /\ With("succeeded") \cap {o} = {}
        BY <1>2 DEF With
      <3>3. Cardinality(With("succeeded") \cup {o}) = Cardinality(With("succeeded")) + 1
        BY <2>4, <3>2, Counting
      <3>4. job'.succeeded = job.succeeded + 1 /\ job'.failed = job.failed
        BY <1>1, <1>4, <2>5 DEF Job
      <3>5. QED
        BY <1>4, <1>7, <2>2, <2>3, <3>1, <3>3, <3>4 DEF Tally
    <2>6. CASE outcome = "failed"
      <3>1. With("succeeded")' = With("succeeded") /\ With("failed")' = With("failed") \cup {o}
        BY <1>2, <2>1, <2>6 DEF With
      <3>2. /\ With("failed") \cup With("cancelled") \in SUBSET Ordinals
            /\ (With("failed") \cup With("cancelled")) \cap {o} = {}
        BY <1>2 DEF With
      <3>3. Cardinality((With("failed") \cup With("cancelled")) \cup {o})
              = Cardinality(With("failed") \cup With("cancelled")) + 1
        BY <2>4, <3>2, Counting
      <3>4. (With("failed") \cup {o}) \cup With("cancelled") = (With("failed") \cup With("cancelled")) \cup {o}
        OBVIOUS
      <3>5. job'.succeeded = job.succeeded /\ job'.failed = job.failed + 1
        BY <1>1, <1>4, <2>6 DEF Job
      <3>6. QED
        BY <1>4, <1>7, <2>2, <2>3, <3>1, <3>3, <3>4, <3>5 DEF Tally
    <2>7. QED
      BY <2>5, <2>6
  <1>8. QED
    BY <1>2, <1>3, <1>4, <1>5, <1>6, <1>7

\* A cancel ends the rows that wait or are being processed, and counts them as failed.
LEMMA CancelRows ==
    ASSUME TypeOK, CancelImportJob
    PROVE  /\ row' \in [Ordinals -> Row] /\ job' \in Job /\ job'.st = "cancelled"
           /\ \A o \in Ordinals : \/ row'[o].st = row[o].st
                                  \/ row[o].st \in {"pending", "processing"} /\ row'[o].st = "cancelled"
           /\ With("absent")' = With("absent")
           /\ Tally => Tally'
  <1> DEFINE cut == With("pending") \cup With("processing")
             n == Cardinality(cut)
  <1>1. row \in [Ordinals -> Row] /\ job \in Job
    BY DEF TypeOK
  <1>2. cut \in SUBSET Ordinals
    BY Statuses
  <1>3. n \in Nat
    BY <1>2, Counting
  <1>4. /\ job' = [job EXCEPT !.st = "cancelled", !.failed = @ + n, !.pending = 0, !.processing = 0]
        /\ row' = [o \in Ordinals |-> IF o \in cut
                     THEN [st |-> "cancelled", claim |-> None, live |-> FALSE] ELSE row[o]]
    BY Zenon DEF CancelImportJob
  <1> HIDE DEF n, cut
  <1>5. row' \in [Ordinals -> Row]
    BY <1>1, <1>4 DEF Row, Ended
  <1>6. \A o \in Ordinals : row'[o].st = IF o \in cut THEN "cancelled" ELSE row[o].st
    BY <1>4
  <1>7. \A o \in Ordinals : \/ row'[o].st = row[o].st
                            \/ row[o].st \in {"pending", "processing"} /\ row'[o].st = "cancelled"
    BY <1>6 DEF With, cut
  <1>8. /\ job' \in Job /\ job'.st = "cancelled" /\ job'.failed = job.failed + n
        /\ job'.pending = 0 /\ job'.processing = 0 /\ job'.total = job.total /\ job'.succeeded = job.succeeded
    <2>1. job.failed + n \in Nat
      BY <1>1, <1>3 DEF Job
    <2>2. QED
      BY <1>1, <1>4, <2>1 DEF Job, Done
  <1>9. /\ With("pending")' = {} /\ With("processing")' = {}
        /\ With("cancelled")' = With("cancelled") \cup cut /\ With("failed")' = With("failed")
        /\ With("absent")' = With("absent") /\ With("succeeded")' = With("succeeded")
    BY <1>6 DEF With, cut
  <1>10. ASSUME Tally PROVE Tally'
    <2>1. /\ With("failed") \cup With("cancelled") \in SUBSET Ordinals
          /\ (With("failed") \cup With("cancelled")) \cap cut = {}
      BY DEF With, cut
    <2>2. Cardinality((With("failed") \cup With("cancelled")) \cup cut)
            = Cardinality(With("failed") \cup With("cancelled")) + n
      BY <1>2, <2>1, Counting DEF n
    <2>3. With("failed") \cup (With("cancelled") \cup cut) = (With("failed") \cup With("cancelled")) \cup cut
      OBVIOUS
    <2>4. Cardinality({}) = 0
      BY FS_EmptySet
    <2>5. QED
      BY <1>8, <1>9, <1>10, <2>2, <2>3, <2>4 DEF Tally
  <1>11. QED
    BY <1>5, <1>7, <1>8, <1>9, <1>10

-----------------------------------------------------------------------------
(* The books: types, chunks, counters and the life of the job.              *)

\* Nothing works before the job exists, nothing is processed before the upload was
\* overtaken or closed, a closed upload staged every line, and a completed job that was not
\* overtaken has nothing left.
Lifecycle ==
    /\ upload.at = "none" => job.st = "none"
    /\ job.st = "none" => upload.at = "none" /\ task.st = "none" /\ \A p \in Procs : proc[p].at = "idle"
    /\ job.st \in {"none", "uploading"} => ~upload.raced /\ job.processing = 0
    /\ upload.at \in {"closing", "queueing", "over"} => With("absent") = {}
    /\ job.st = "completed" /\ ~upload.raced => job.pending = 0 /\ job.processing = 0

\* The part of the inductive invariant that the counters need.
BooksKept == TypeOK /\ ChunkOpen /\ CountersAgree /\ Lifecycle

\* A step of the upload keeps the books.
LEMMA UploadBooks ==
    ASSUME BooksKept, UploadStep \/ UploadBreaks PROVE BooksKept'
  <1>1. TypeOK /\ ChunkOpen /\ CountersAgree /\ Lifecycle
    BY DEF BooksKept
  <1>2. /\ upload \in Upload /\ job \in Job /\ task \in Task /\ faults \in 0..MaxFaults
        /\ upload.raced \in BOOLEAN
    BY <1>1 DEF TypeOK, Upload
  <1>3. ~upload.raced => Tally
    BY <1>1 DEF CountersAgree, Tally
  <1>4. job.st = "uploading" => Tally /\ ~upload.raced
    BY <1>1, <1>3 DEF Lifecycle
  <1>5. UNCHANGED <<kind, proc, keys, applied, calls>>
    BY DEF UploadStep, CreateImportJob, StageImportRows, RejectImportJob, CommitImportJob, CreateTask, UploadBreaks
  <1>6. ChunkOpen'
    BY <1>1, <1>5 DEF ChunkOpen
  <1>7. CASE CreateImportJob
    <2>1. /\ upload' = [upload EXCEPT !.at = "staging"] /\ job' = [job EXCEPT !.st = "uploading"]
          /\ upload.at = "none" /\ UNCHANGED <<row, task, faults>>
      BY <1>7 DEF CreateImportJob
    <2>2. /\ upload' \in Upload /\ job' \in Job /\ upload'.at = "staging" /\ upload'.raced = upload.raced
          /\ job'.st = "uploading" /\ job'.processing = job.processing /\ job'.pending = job.pending
          /\ job'.total = job.total /\ job'.succeeded = job.succeeded /\ job'.failed = job.failed
      BY <1>2, <2>1 DEF Upload, Job
    <2>3. TypeOK'
      BY <1>1, <1>5, <2>1, <2>2 DEF TypeOK
    <2>4. CountersAgree'
      BY <1>1, <2>1, <2>2 DEF CountersAgree, With
    <2>5. Lifecycle'
      BY <1>1, <2>1, <2>2 DEF Lifecycle
    <2>6. QED
      BY <1>6, <2>3, <2>4, <2>5 DEF BooksKept
  <1>8. CASE StageImportRows
    <2>1. /\ row' \in [Ordinals -> Row] /\ job' \in Job
          /\ upload'.at = "closing" => With("absent")' = {}
          /\ job.st = "uploading" => Tally'
      BY <1>1, <1>4, <1>8, StageRows
    <2>2. /\ upload' \in Upload /\ upload'.at \in {"closing", "staging"}
          /\ upload'.raced = (upload.raced \/ job.st # "uploading")
      <3>1. upload' = [upload EXCEPT !.at = IF Chunk(With("absent")) = With("absent") THEN "closing" ELSE "staging",
                                     !.raced = @ \/ job.st # "uploading"]
        BY <1>8, Zenon DEF StageImportRows
      <3>2. CASE job.st = "uploading"
        <4>1. upload' = [upload EXCEPT !.at = IF Chunk(With("absent")) = With("absent") THEN "closing" ELSE "staging",
                                       !.raced = FALSE]
          BY <1>4, <3>1, <3>2
        <4>2. QED
          BY <1>2, <1>4, <3>2, <4>1 DEF Upload
      <3>3. CASE job.st # "uploading"
        <4>1. upload' = [upload EXCEPT !.at = IF Chunk(With("absent")) = With("absent") THEN "closing" ELSE "staging",
                                       !.raced = TRUE]
          BY <3>1, <3>3
        <4>2. QED
          BY <1>2, <3>3, <4>1 DEF Upload
      <3>4. QED
        BY <3>2, <3>3
    <2>3. /\ UNCHANGED <<task, faults>> /\ upload.at = "staging"
          /\ job.st # "uploading" => job' = job
      BY <1>8 DEF StageImportRows
    <2>4. job.st = "uploading" => job'.st = "uploading" /\ job'.processing = job.processing
      <3>1. job.st = "uploading" => \E a, b, c \in Nat : job' = [job EXCEPT !.total = @ + a, !.pending = @ + b, !.failed = @ + c]
        <4>1. ASSUME job.st = "uploading"
              PROVE  \E new, bad \in SUBSET Ordinals : job' = StagedJob(new, bad)
          <5>1. /\ Chunk(With("absent")) \in SUBSET Ordinals
                /\ {o \in Chunk(With("absent")) : kind[o] = "malformed"} \in SUBSET Ordinals
            BY DEF Chunk, With
          <5>2. job' = StagedJob(Chunk(With("absent")), {o \in Chunk(With("absent")) : kind[o] = "malformed"})
            BY <1>8, <4>1, Zenon DEF StageImportRows
          <5>3. QED
            BY <5>1, <5>2
        <4>2. \A new, bad \in SUBSET Ordinals :
                Cardinality(new) \in Nat /\ Cardinality(bad) \in Nat /\ Cardinality(new \ bad) \in Nat
          BY Counting
        <4>3. QED
          BY <4>1, <4>2 DEF StagedJob
      <3>2. QED
        BY <1>2, <3>1 DEF Job
    <2>5. TypeOK'
      BY <1>1, <1>5, <2>1, <2>2, <2>3 DEF TypeOK
    <2>6. CountersAgree'
      BY <2>1, <2>2 DEF CountersAgree, Tally
    <2>7. Lifecycle'
      BY <1>1, <1>4, <1>5, <2>1, <2>2, <2>3, <2>4 DEF Lifecycle
    <2>8. QED
      BY <1>6, <2>5, <2>6, <2>7 DEF BooksKept
  <1>9. CASE RejectImportJob
    <2>1. /\ row' \in [Ordinals -> Row] /\ job' \in Job
          /\ With("absent")' = With("absent") /\ (job.st = "uploading" => Tally')
      BY <1>1, <1>4, <1>9, RejectRows
    <2>2. /\ upload.at = "closing" /\ UNCHANGED <<task, faults>>
          /\ upload' = [upload EXCEPT !.at = "over", !.raced = @ \/ job.st # "uploading"]
      BY <1>9 DEF RejectImportJob
    <2>3. /\ upload' \in Upload /\ upload'.at = "over"
          /\ upload'.raced = (upload.raced \/ job.st # "uploading")
      <3>1. CASE job.st = "uploading"
        <4>1. upload' = [upload EXCEPT !.at = "over", !.raced = FALSE]
          BY <1>4, <2>2, <3>1
        <4>2. QED
          BY <1>2, <1>4, <3>1, <4>1 DEF Upload
      <3>2. CASE job.st # "uploading"
        <4>1. upload' = [upload EXCEPT !.at = "over", !.raced = TRUE]
          BY <2>2, <3>2
        <4>2. QED
          BY <1>2, <3>2, <4>1 DEF Upload
      <3>3. QED
        BY <3>1, <3>2
    <2>4. (job.st = "uploading" => job'.st = "rejected") /\ (job.st # "uploading" => job' = job)
      BY <1>2, <1>9 DEF RejectImportJob, Job
    <2>5. TypeOK'
      BY <1>1, <1>5, <2>1, <2>2, <2>3 DEF TypeOK
    <2>6. CountersAgree'
      BY <2>1, <2>3 DEF CountersAgree, Tally
    <2>7. Lifecycle'
      BY <1>1, <1>5, <2>1, <2>2, <2>3, <2>4 DEF Lifecycle
    <2>8. QED
      BY <1>6, <2>5, <2>6, <2>7 DEF BooksKept
  <1>10. CASE CommitImportJob
    <2>0. upload.at = "closing" /\ UNCHANGED <<row, task, faults>>
      BY <1>10 DEF CommitImportJob
    <2>1. CASE job.st = "uploading"
      <3>1. /\ job' = [job EXCEPT !.st = IF job.pending = 0 THEN "completed" ELSE "staged"]
            /\ upload' = [upload EXCEPT !.at = "queueing"]
        BY <1>10, <2>1 DEF CommitImportJob
      <3>2. /\ upload' \in Upload /\ upload'.at = "queueing" /\ upload'.raced = upload.raced
            /\ job' \in Job /\ job'.st = (IF job.pending = 0 THEN "completed" ELSE "staged")
            /\ job'.processing = job.processing /\ job'.pending = job.pending
            /\ job'.total = job.total /\ job'.succeeded = job.succeeded /\ job'.failed = job.failed
        BY <1>2, <3>1 DEF Upload, Job, Done
      <3>3. TypeOK'
        BY <1>1, <1>5, <2>0, <3>2 DEF TypeOK
      <3>4. CountersAgree'
        BY <1>1, <2>0, <3>2 DEF CountersAgree, With
      <3>5. With("absent")' = With("absent")
        BY <2>0 DEF With
      <3>6. Lifecycle'
        BY <1>1, <2>0, <2>1, <3>2, <3>5 DEF Lifecycle
      <3>7. QED
        BY <1>6, <3>3, <3>4, <3>6 DEF BooksKept
    <2>2. CASE job.st # "uploading"
      <3>1. upload' = [upload EXCEPT !.at = "over", !.raced = TRUE] /\ job' = job
        BY <1>10, <2>2 DEF CommitImportJob
      <3>2. upload' \in Upload /\ upload'.at = "over" /\ upload'.raced
        BY <1>2, <3>1 DEF Upload
      <3>3. TypeOK'
        BY <1>1, <1>5, <2>0, <3>1, <3>2 DEF TypeOK
      <3>4. CountersAgree'
        BY <3>2 DEF CountersAgree
      <3>5. With("absent")' = With("absent")
        BY <2>0 DEF With
      <3>6. Lifecycle'
        BY <1>1, <2>0, <2>2, <3>1, <3>2, <3>5 DEF Lifecycle
      <3>7. QED
        BY <1>6, <3>3, <3>4, <3>6 DEF BooksKept
    <2>3. QED
      BY <2>1, <2>2
  <1>11. CASE CreateTask
    <2>1. /\ upload.at = "queueing" /\ upload' = [upload EXCEPT !.at = "over"]
          /\ UNCHANGED <<job, row, faults>> /\ task' \in Task
      BY <1>2, <1>11, TasksTyped DEF CreateTask
    <2>2. upload' \in Upload /\ upload'.at = "over" /\ upload'.raced = upload.raced
      BY <1>2, <2>1 DEF Upload
    <2>3. TypeOK'
      BY <1>1, <1>5, <2>1, <2>2 DEF TypeOK
    <2>4. CountersAgree'
      BY <1>1, <2>1, <2>2 DEF CountersAgree, With
    <2>5. With("absent")' = With("absent")
      BY <2>1 DEF With
    <2>6. Lifecycle'
      BY <1>1, <2>1, <2>2, <2>5 DEF Lifecycle
    <2>7. QED
      BY <1>6, <2>3, <2>4, <2>6 DEF BooksKept
  <1>12. CASE UploadBreaks
    <2>1. /\ upload' = [upload EXCEPT !.at = "broken"] /\ upload.at # "none"
          /\ UNCHANGED <<job, row, task>> /\ faults' \in 0..MaxFaults
      BY <1>2, <1>12 DEF UploadBreaks, Fault
    <2>2. upload' \in Upload /\ upload'.at = "broken" /\ upload'.raced = upload.raced
      BY <1>2, <2>1 DEF Upload
    <2>3. TypeOK'
      BY <1>1, <1>5, <2>1, <2>2 DEF TypeOK
    <2>4. CountersAgree'
      BY <1>1, <2>1, <2>2 DEF CountersAgree, With
    <2>5. Lifecycle'
      BY <1>1, <2>1, <2>2 DEF Lifecycle
    <2>6. QED
      BY <1>6, <2>3, <2>4, <2>5 DEF BooksKept
  <1>13. QED
    BY <1>7, <1>8, <1>9, <1>10, <1>11, <1>12 DEF UploadStep

\* A step of one processor keeps chunks open.
LEMMA ChunkOpenStep ==
    ASSUME ChunkOpen, NEW p \in Procs, Alone(p),
           \/ Left(p)
           \/ proc'[p].at = "map" /\ proc'[p].chunk # {}
           \/ proc'[p].chunk # {} /\ proc'[p].chunk \subseteq proc'[p].items
    PROVE  ChunkOpen'
  <1>1. ASSUME NEW q \in Procs
        PROVE  /\ proc'[q].at \in {"map", "upsert", "commit", "complete"} => proc'[q].chunk # {}
               /\ proc'[q].at \in {"upsert", "commit", "complete"} => proc'[q].chunk \subseteq proc'[q].items
    <2>1. CASE q = p
      BY <2>1 DEF Left
    <2>2. CASE q # p
      BY <2>2 DEF ChunkOpen, Alone
    <2>3. QED
      BY <2>1, <2>2
  <1>2. QED
    BY <1>1 DEF ChunkOpen

\* A step of a processor that leaves rows and job alone keeps the books.
LEMMA QuietBooks ==
    ASSUME BooksKept, NEW p \in Procs, Alone(p), ChunkOpen', UNCHANGED <<kind, upload, job, row>>,
           keys' \subseteq Ordinals, applied' \in [Ordinals -> Nat], calls' \in 0..MaxCalls, faults' \in 0..MaxFaults,
           job.st # "none"
    PROVE  BooksKept'
  <1>1. TypeOK'
    BY DEF BooksKept, TypeOK, Alone
  <1>2. CountersAgree' /\ With("absent")' = With("absent")
    BY DEF BooksKept, CountersAgree, With
  <1>3. Lifecycle'
    BY <1>2 DEF BooksKept, Lifecycle
  <1>4. QED
    BY <1>1, <1>2, <1>3 DEF BooksKept

\* A processor at work, or a task that is queued, means that the job exists.
LEMMA WorkNeedsJob ==
    ASSUME BooksKept, task.st # "none" \/ \E p \in Procs : proc[p].at # "idle"
    PROVE  job.st # "none"
  BY DEF BooksKept, Lifecycle

\* The steps of processors and of time keep the books.
LEMMA ProcBooks ==
    ASSUME BooksKept,
           \/ StartTask \/ CheckJob \/ CancelImportJob
           \/ \E p \in Procs : ProcessNextChunk(p) \/ ChunkStep(p) \/ StatementFails(p) \/ Crash(p)
           \/ \E o \in Ordinals : LeaseExpires(o)
    PROVE  BooksKept'
  <1>1. TypeOK /\ ChunkOpen /\ CountersAgree /\ Lifecycle
    BY DEF BooksKept
  <1>2. /\ row \in [Ordinals -> Row] /\ job \in Job /\ upload \in Upload
        /\ applied \in [Ordinals -> Nat] /\ keys \subseteq Ordinals
        /\ calls \in 0..MaxCalls /\ faults \in 0..MaxFaults
    BY <1>1 DEF TypeOK
  <1>3. Worker \in Procs
    BY DEF Procs
  <1>4. ASSUME NEW p \in Procs,
               \/ p = Worker /\ (StartTask \/ CheckJob)
               \/ ProcessNextChunk(p) \/ UpsertRefused(p) \/ StatementFails(p) \/ Crash(p)
        PROVE  BooksKept'
    <2>1. Alone(p) /\ Left(p) /\ UNCHANGED <<kind, upload, job, row, keys, applied>>
      BY <1>1, <1>4, IdleSteps
    <2>2. ChunkOpen'
      BY <1>1, <2>1, ChunkOpenStep
    <2>3. job.st # "none"
      BY <1>4, WorkNeedsJob DEF StartTask, CheckJob, ProcessNextChunk, UpsertRefused, StatementFails, Crash, At
    <2>4. calls' \in 0..MaxCalls /\ faults' \in 0..MaxFaults
      BY <1>2, <1>4 DEF StartTask, CheckJob, ProcessNextChunk, UpsertRefused, StatementFails, Crash, Fault
    <2>5. QED
      BY <1>2, <2>1, <2>2, <2>3, <2>4, QuietBooks
  <1>5. ASSUME NEW p \in Procs, ClaimImportRows(p) PROVE BooksKept'
    <2>1. Alone(p) /\ ChunkOpen'
      <3>1. PICK rows : rows = Chunk({o \in Ordinals : Claimable(o)})
        OBVIOUS
      <3>2. Alone(p) /\ (Left(p) \/ (proc'[p].at = "map" /\ proc'[p].chunk # {}))
        BY <1>1, <1>5, <3>1, ClaimMemory
      <3>3. QED
        BY <1>1, <3>2, ChunkOpenStep
    <2>2. job.st # "none" /\ UNCHANGED <<kind, upload, keys, applied, calls, faults>>
      BY <1>5, WorkNeedsJob DEF ClaimImportRows, At
    <2>3. CASE UNCHANGED <<row, job>>
      BY <1>2, <2>1, <2>2, <2>3, QuietBooks
    <2>4. CASE /\ row' \in [Ordinals -> Row] /\ job' \in Job /\ job'.st = "processing"
               /\ \A o \in Ordinals : \/ row'[o].st = row[o].st
                                      \/ row[o].st = "pending" /\ row'[o].st = "processing"
               /\ Tally => Tally'
      <3>1. TypeOK'
        BY <1>1, <2>1, <2>2, <2>4 DEF TypeOK, Alone
      <3>2. CountersAgree'
        BY <1>1, <2>2, <2>4 DEF CountersAgree, Tally
      <3>3. With("absent")' = With("absent")
        BY <2>4 DEF With
      <3>4. Lifecycle'
        BY <1>1, <2>2, <2>4, <3>3 DEF Lifecycle
      <3>5. QED
        BY <2>1, <3>1, <3>2, <3>4 DEF BooksKept
    <2>5. QED
      BY <1>1, <1>5, <2>3, <2>4, ClaimRows
  <1>6. ASSUME NEW p \in Procs, Alone(p), ChunkOpen', NEW o \in Ordinals, NEW outcome \in {"succeeded", "failed"},
               MayComplete(p, o, outcome), CompleteImportRow(o, outcome),
               UNCHANGED <<kind, upload, keys, applied, calls, faults>>, job.st # "none"
        PROVE  BooksKept'
    <2>1. /\ row' \in [Ordinals -> Row] /\ job' \in Job
          /\ row[o].st = "processing" /\ row'[o].st = outcome
          /\ \A i \in Ordinals \ {o} : row'[i] = row[i]
          /\ job.processing >= 1 /\ job'.processing = job.processing - 1 /\ job'.pending = job.pending
          /\ job'.st = IF job.pending = 0 /\ job.processing = 1 THEN "completed" ELSE job.st
          /\ Tally => Tally'
      BY <1>1, <1>6, CompleteRows
    <2>2. TypeOK'
      BY <1>1, <1>6, <2>1 DEF TypeOK, Alone
    <2>3. CountersAgree'
      BY <1>1, <1>6, <2>1 DEF CountersAgree, Tally
    <2>4. With("absent")' = With("absent")
      BY <2>1 DEF With
    <2>5. job.st # "uploading" /\ (job.st = "completed" => upload.raced)
      BY <1>1, <2>1 DEF Lifecycle
    <2>6. Lifecycle'
      BY <1>1, <1>2, <1>6, <2>1, <2>4, <2>5 DEF Lifecycle, Job
    <2>7. QED
      BY <1>6, <2>2, <2>3, <2>6 DEF BooksKept
  <1>7. ASSUME NEW p \in Procs, MapRow(p) PROVE BooksKept'
    <2>1. PICK o : o = Min(proc[p].chunk)
      OBVIOUS
    <2>2. o \in Ordinals
      BY <1>1, <1>7, <2>1, FirstRow DEF MapRow, At
    <2>3. Alone(p) /\ ChunkOpen'
      <3>1. /\ Alone(p)
            /\ \/ Left(p)
               \/ proc'[p].at = "map" /\ proc'[p].chunk # {}
               \/ proc'[p].chunk # {} /\ proc'[p].chunk \subseteq proc'[p].items
        BY <1>1, <1>7, <2>1, MapMemory
      <3>2. QED
        BY <1>1, <3>1, ChunkOpenStep
    <2>4. job.st # "none" /\ UNCHANGED <<kind, upload, keys, applied, calls, faults>>
      BY <1>7, WorkNeedsJob DEF MapRow, At
    <2>5. UNCHANGED <<row, job>> \/ (MayComplete(p, o, "failed") /\ CompleteImportRow(o, "failed"))
      BY <1>7, <2>1 DEF MapRow
    <2>6. CASE UNCHANGED <<row, job>>
      BY <1>2, <2>3, <2>4, <2>6, QuietBooks
    <2>7. QED
      BY <1>6, <2>2, <2>3, <2>4, <2>5, <2>6
  <1>8. ASSUME NEW p \in Procs, Upserting(p) PROVE BooksKept'
    <2>1. PICK o : o = Min(proc[p].chunk)
      OBVIOUS
    <2>2. /\ Alone(p) /\ proc'[p].chunk # {} /\ proc'[p].chunk \subseteq proc'[p].items
          /\ proc[p].at \in {"upsert", "commit"} /\ (Applied(o) \/ UNCHANGED <<keys, applied>>)
      BY <1>1, <1>8, <2>1, UpsertMemory
    <2>3. ChunkOpen'
      BY <1>1, <2>2, ChunkOpenStep
    <2>4. job.st # "none" /\ UNCHANGED <<kind, upload, job, row, calls>>
      BY <1>8, <2>2, WorkNeedsJob DEF Upserting, ClaimCustomerIdempotency, CommitCustomer
    <2>5. o \in Ordinals
      BY <1>1, <2>1, <2>2, FirstRow
    <2>6. keys' \subseteq Ordinals /\ applied' \in [Ordinals -> Nat]
      BY <1>2, <2>2, <2>5 DEF Applied
    <2>7. faults' \in 0..MaxFaults
      <3>1. faults' = faults \/ Fault
        BY <1>8, Zenon DEF Upserting, ClaimCustomerIdempotency, CommitCustomer
      <3>2. QED
        BY <1>2, <3>1 DEF Fault
    <2>8. QED
      BY <1>2, <2>2, <2>3, <2>4, <2>6, <2>7, QuietBooks
  <1>9. ASSUME NEW p \in Procs, CompleteRow(p) PROVE BooksKept'
    <2>1. PICK o, outcome : /\ o = Min(proc[p].chunk)
                            /\ outcome = IF o \in proc[p].accepted THEN "succeeded" ELSE "failed"
      OBVIOUS
    <2>2. o \in Ordinals /\ outcome \in {"succeeded", "failed"}
      BY <1>1, <1>9, <2>1, FirstRow DEF CompleteRow, At
    <2>3. Alone(p) /\ ChunkOpen'
      <3>1. /\ Alone(p)
            /\ \/ Left(p)
               \/ proc'[p].chunk # {} /\ proc'[p].chunk \subseteq proc'[p].items
        <4>1. proc[p].chunk \subseteq proc[p].items
          BY <1>1, <1>9 DEF ChunkOpen, CompleteRow, At
        <4>2. QED
          BY <1>1, <1>9, <4>1, CompleteMemory
      <3>2. QED
        BY <1>1, <3>1, ChunkOpenStep
    <2>4. job.st # "none" /\ UNCHANGED <<kind, upload, keys, applied, calls, faults>>
      BY <1>9, WorkNeedsJob DEF CompleteRow, At
    <2>5. UNCHANGED <<row, job>> \/ (MayComplete(p, o, outcome) /\ CompleteImportRow(o, outcome))
      BY <1>9, <2>1 DEF CompleteRow
    <2>6. CASE UNCHANGED <<row, job>>
      BY <1>2, <2>3, <2>4, <2>6, QuietBooks
    <2>7. QED
      BY <1>6, <2>2, <2>3, <2>4, <2>5, <2>6
  <1>10. ASSUME NEW o \in Ordinals, LeaseExpires(o) PROVE BooksKept'
    <2>1. /\ row' = [row EXCEPT ![o].live = FALSE]
          /\ UNCHANGED <<kind, upload, job, task, proc, keys, applied, calls, faults>>
      BY <1>10 DEF LeaseExpires
    <2>2. row[o] \in Row
      BY <1>2
    <2>3. row' \in [Ordinals -> Row] /\ \A i \in Ordinals : row'[i].st = row[i].st
      BY <1>2, <2>1, <2>2 DEF Row
    <2>4. TypeOK' /\ ChunkOpen'
      BY <1>1, <2>1, <2>3 DEF TypeOK, ChunkOpen
    <2>5. \A s : With(s)' = With(s)
      BY <2>3 DEF With
    <2>6. CountersAgree' /\ Lifecycle'
      BY <1>1, <2>1, <2>5 DEF CountersAgree, Lifecycle
    <2>7. QED
      BY <2>4, <2>6 DEF BooksKept
  <1>11. CASE CancelImportJob
    <2>1. /\ row' \in [Ordinals -> Row] /\ job' \in Job /\ job'.st = "cancelled"
          /\ With("absent")' = With("absent") /\ (Tally => Tally')
      BY <1>1, <1>11, CancelRows
    <2>2. UNCHANGED <<kind, upload, task, proc, keys, applied, calls, faults>> /\ job.st # "none"
      BY <1>11 DEF CancelImportJob
    <2>3. TypeOK' /\ ChunkOpen'
      BY <1>1, <2>1, <2>2 DEF TypeOK, ChunkOpen
    <2>4. CountersAgree'
      BY <1>1, <2>1, <2>2 DEF CountersAgree, Tally
    <2>5. Lifecycle'
      BY <1>1, <2>1, <2>2 DEF Lifecycle
    <2>6. QED
      BY <2>3, <2>4, <2>5 DEF BooksKept
  <1>12. QED
    BY <1>3, <1>4, <1>5, <1>7, <1>8, <1>9, <1>10, <1>11 DEF ChunkStep, Upserting

\* Every step keeps the books.
LEMMA BooksStep == BooksKept /\ [Next]_vars => BooksKept'
  <1> SUFFICES ASSUME BooksKept, [Next]_vars PROVE BooksKept'
    OBVIOUS
  <1>1. CASE UNCHANGED vars
    BY <1>1 DEF vars, BooksKept, TypeOK, ChunkOpen, CountersAgree, Lifecycle, With
  <1>2. CASE UploadStep \/ UploadBreaks
    BY <1>2, UploadBooks
  <1>3. CASE \/ StartTask \/ CheckJob \/ CancelImportJob
             \/ \E p \in Procs : ProcessNextChunk(p) \/ ChunkStep(p) \/ StatementFails(p) \/ Crash(p)
             \/ \E o \in Ordinals : LeaseExpires(o)
    BY <1>3, ProcBooks
  <1>4. QED
    BY <1>1, <1>2, <1>3 DEF Next

\* The books are kept from the start.
LEMMA BooksInvariant == Spec => []BooksKept
  <1>1. Init => BooksKept
    <2> SUFFICES ASSUME Init PROVE BooksKept
      OBVIOUS
    <2>1. TypeOK
      BY DEF Init, TypeOK, Upload, Job, Row, Task, Proc, IdleProc, Procs
    <2>2. ChunkOpen
      BY DEF Init, ChunkOpen, IdleProc
    <2>3. /\ With("absent") = Ordinals /\ With("pending") = {} /\ With("processing") = {}
          /\ With("succeeded") = {} /\ With("failed") \cup With("cancelled") = {}
      BY DEF Init, With
    <2>4. Cardinality({}) = 0 /\ Ordinals \ Ordinals = {}
      BY FS_EmptySet
    <2>5. CountersAgree
      BY <2>3, <2>4 DEF Init, CountersAgree
    <2>6. Lifecycle
      BY DEF Init, Lifecycle, IdleProc
    <2>7. QED
      BY <2>1, <2>2, <2>5, <2>6 DEF BooksKept
  <1>2. QED
    BY <1>1, BooksStep, PTL DEF Spec

\* Job, rows, task and processors are always of their types, and no counter is negative.
THEOREM ImportTypeCorrect == Spec => []TypeOK
  <1>1. BooksKept => TypeOK
    BY DEF BooksKept
  <1>2. QED
    BY <1>1, BooksInvariant, PTL

\* The five counters are the numbers of rows in each status as long as the upload was not
\* overtaken, for any number of callers, lines, faults and any chunk size.
THEOREM CountersAlwaysAgree == Spec => []CountersAgree
  <1>1. BooksKept => CountersAgree
    BY DEF BooksKept
  <1>2. QED
    BY <1>1, BooksInvariant, PTL

\* A completed import whose upload went through has an outcome for every line of the file.
THEOREM CompletedIsDone == Spec => []CompletedMeansDone
  <1>1. BooksKept => CompletedMeansDone
    <2> SUFFICES ASSUME BooksKept, job.st = "completed", upload.at = "over", ~upload.raced, NEW o \in Ordinals
                 PROVE  row[o].st \in Ended
      BY DEF CompletedMeansDone
    <2>1. Cardinality(With("pending")) = 0 /\ Cardinality(With("processing")) = 0 /\ With("absent") = {}
      BY DEF BooksKept, CountersAgree, Lifecycle
    <2>2. With("pending") = {} /\ With("processing") = {}
      BY <2>1, Statuses, Counting
    <2>3. row[o].st \notin {"absent", "pending", "processing"}
      BY <2>1, <2>2 DEF With
    <2>4. row[o] \in Row
      BY DEF BooksKept, TypeOK
    <2>5. QED
      BY <2>3, <2>4 DEF Row
  <1>2. QED
    BY <1>1, BooksInvariant, PTL

-----------------------------------------------------------------------------
(* Outcomes.                                                                *)

\* A row that has its outcome keeps it: late processors lost their claims, and a takeover or
\* a cancel only touches rows that have none.
THEOREM OutcomesStay == Spec => OutcomeStays
  <1>1. ASSUME BooksKept, [Next]_vars, NEW o \in Ordinals, row[o].st \in Ended
        PROVE  row'[o].st = row[o].st
    <2>0. TypeOK /\ ChunkOpen /\ row \in [Ordinals -> Row] /\ (job.st = "uploading" => Tally)
      BY <1>1 DEF BooksKept, TypeOK, Lifecycle, CountersAgree, Tally
    <2>1. row[o].st \notin {"absent", "pending", "processing"}
      BY <1>1 DEF Ended
    <2>2. CASE StageImportRows
      BY <2>0, <2>1, <2>2, StageRows
    <2>3. CASE RejectImportJob
      BY <2>0, <2>1, <2>3, RejectRows
    <2>4. CASE CancelImportJob
      BY <2>0, <2>1, <2>4, CancelRows
    <2>5. ASSUME NEW p \in Procs, ClaimImportRows(p) PROVE row'[o].st = row[o].st
      BY <2>0, <2>1, <2>5, ClaimRows
    <2>6. ASSUME NEW p \in Procs, NEW i, NEW outcome, MayComplete(p, i, outcome), CompleteImportRow(i, outcome)
          PROVE  row'[o].st = row[o].st
      <3>1. row[i].st = "processing" /\ row' = [row EXCEPT ![i] = [st |-> outcome, claim |-> None, live |-> FALSE]]
        BY <2>6 DEF MayComplete, Owns, CompleteImportRow
      <3>2. QED
        BY <2>0, <2>1, <3>1
    <2>7. ASSUME NEW p \in Procs, MapRow(p) PROVE row'[o].st = row[o].st
      <3>1. \/ row' = row
            \/ /\ MayComplete(p, Min(proc[p].chunk), "failed")
               /\ CompleteImportRow(Min(proc[p].chunk), "failed")
        BY <2>7 DEF MapRow
      <3>2. QED
        BY <2>6, <3>1
    <2>8. ASSUME NEW p \in Procs, CompleteRow(p) PROVE row'[o].st = row[o].st
      <3>1. row' = row \/ \E i, outcome : MayComplete(p, i, outcome) /\ CompleteImportRow(i, outcome)
        BY <2>8, Zenon DEF CompleteRow
      <3>2. QED
        BY <2>6, <3>1
    <2>9. ASSUME NEW i \in Ordinals, LeaseExpires(i) PROVE row'[o].st = row[o].st
      <3>1. row[i] \in Row /\ row' = [row EXCEPT ![i].live = FALSE]
        BY <2>0, <2>9 DEF LeaseExpires
      <3>2. QED
        BY <2>0, <3>1 DEF Row
    <2>10. CASE CreateImportJob \/ CommitImportJob \/ CreateTask \/ UploadBreaks \/ StartTask \/ CheckJob
      BY <2>10 DEF CreateImportJob, CommitImportJob, CreateTask, UploadBreaks, StartTask, CheckJob
    <2>11. ASSUME NEW p \in Procs,
                  ProcessNextChunk(p) \/ StatementFails(p) \/ Crash(p) \/ Upserting(p) \/ UpsertRefused(p)
           PROVE  row' = row
      BY <2>11 DEF ProcessNextChunk, StatementFails, Crash, Upserting, ClaimCustomerIdempotency, CommitCustomer,
         UpsertRefused
    <2>12. CASE UNCHANGED vars
      BY <2>12 DEF vars
    <2>13. QED
      BY <1>1, <2>2, <2>3, <2>4, <2>5, <2>7, <2>8, <2>9, <2>10, <2>11, <2>12 DEF Next, UploadStep, ChunkStep, Upserting
  <1>2. BooksKept /\ [Next]_vars => [\A o \in Ordinals : row[o].st \in Ended => row'[o].st = row[o].st]_vars
    BY <1>1
  <1>3. QED
    BY <1>2, BooksInvariant, PTL DEF Spec, OutcomeStays

\* A line changed the customers as often as its key is there, the key of an open transaction
\* is not there yet, and no two transactions are open for one key.
KeysTrue ==
    /\ \A o \in Ordinals : applied[o] = IF o \in keys THEN 1 ELSE 0
    /\ \A p \in Procs : proc[p].at = "commit" => Min(proc[p].chunk) \notin keys
    /\ \A p, q \in Procs :
         proc[p].at = "commit" /\ proc[q].at = "commit" /\ Min(proc[p].chunk) = Min(proc[q].chunk) => p = q

\* Steps that open no transaction and commit none.
LEMMA KeysKept ==
    ASSUME KeysTrue, UNCHANGED <<keys, applied>>,
           \A q \in Procs : proc'[q].at = "commit" => proc'[q] = proc[q]
    PROVE  KeysTrue'
  BY DEF KeysTrue

\* A step of one processor that ends outside a transaction.
LEMMA KeysAlone ==
    ASSUME KeysTrue, NEW p \in Procs, Alone(p), proc'[p].at # "commit", UNCHANGED <<keys, applied>>
    PROVE  KeysTrue'
  <1>1. \A q \in Procs : proc'[q].at = "commit" => proc'[q] = proc[q]
    BY DEF Alone
  <1>2. QED
    BY <1>1, KeysKept

\* Every step keeps the keys true.
LEMMA KeysStep == BooksKept /\ KeysTrue /\ [Next]_vars => KeysTrue'
  <1> SUFFICES ASSUME BooksKept, KeysTrue, [Next]_vars PROVE KeysTrue'
    OBVIOUS
  <1>0. TypeOK /\ ChunkOpen /\ applied \in [Ordinals -> Nat] /\ Worker \in Procs
    BY DEF BooksKept, TypeOK, Procs
  <1>1. CASE UploadStep \/ UploadBreaks \/ CancelImportJob \/ UNCHANGED vars
    <2>1. UNCHANGED <<proc, keys, applied>>
      BY <1>1, Zenon DEF UploadStep, CreateImportJob, StageImportRows, RejectImportJob, CommitImportJob,
         CreateTask, UploadBreaks, CancelImportJob, vars
    <2>2. QED
      BY <2>1, KeysKept
  <1>2. ASSUME NEW o \in Ordinals, LeaseExpires(o) PROVE KeysTrue'
    <2>1. UNCHANGED <<proc, keys, applied>>
      BY <1>2, Zenon DEF LeaseExpires
    <2>2. QED
      BY <2>1, KeysKept
  <1>3. ASSUME NEW p \in Procs,
               \/ p = Worker /\ (StartTask \/ CheckJob)
               \/ ProcessNextChunk(p) \/ UpsertRefused(p) \/ StatementFails(p) \/ Crash(p)
        PROVE  KeysTrue'
    <2>1. Alone(p) /\ Left(p) /\ UNCHANGED <<keys, applied>>
      BY <1>0, <1>3, IdleSteps
    <2>2. QED
      BY <2>1, KeysAlone DEF Left
  <1>4. ASSUME NEW p \in Procs, ClaimImportRows(p) PROVE KeysTrue'
    <2>1. PICK rows : rows = Chunk({o \in Ordinals : Claimable(o)})
      OBVIOUS
    <2>2. Alone(p) /\ proc'[p].at # "commit"
      BY <1>0, <1>4, <2>1, ClaimMemory DEF Left
    <2>3. UNCHANGED <<keys, applied>>
      BY <1>4, Zenon DEF ClaimImportRows
    <2>4. QED
      BY <2>2, <2>3, KeysAlone
  <1>5. ASSUME NEW p \in Procs, MapRow(p) PROVE KeysTrue'
    <2>1. PICK o : o = Min(proc[p].chunk)
      OBVIOUS
    <2>2. Alone(p) /\ proc'[p].at # "commit"
      BY <1>0, <1>5, <2>1, MapMemory DEF Left
    <2>3. UNCHANGED <<keys, applied>>
      BY <1>5, Zenon DEF MapRow
    <2>4. QED
      BY <2>2, <2>3, KeysAlone
  <1>6. ASSUME NEW p \in Procs, CompleteRow(p) PROVE KeysTrue'
    <2>1. Alone(p) /\ proc'[p].at # "commit"
      BY <1>0, <1>6, CompleteMemory DEF Left
    <2>2. UNCHANGED <<keys, applied>>
      BY <1>6, Zenon DEF CompleteRow
    <2>3. QED
      BY <2>1, <2>2, KeysAlone
  <1>7. ASSUME NEW p \in Procs, Upserting(p) PROVE KeysTrue'
    <2>1. PICK o : o = Min(proc[p].chunk)
      OBVIOUS
    <2>2. /\ proc[p].at \in {"upsert", "commit"} /\ Alone(p)
          /\ \/ /\ proc[p].at = "upsert" /\ proc'[p].at = "commit" /\ ~KeyHeld(o) /\ o \notin keys
                /\ proc'[p].chunk = proc[p].chunk
                /\ UNCHANGED <<keys, applied>>
             \/ /\ proc'[p].at # "commit"
                /\ (proc[p].at = "commit" /\ Applied(o)) \/ UNCHANGED <<keys, applied>>
      BY <1>0, <1>7, <2>1, UpsertMemory
    <2>3. o \in Ordinals
      BY <1>0, <2>1, <2>2, FirstRow
    <2>4. CASE /\ proc'[p].at = "commit" /\ ~KeyHeld(o) /\ o \notin keys
               /\ proc'[p].chunk = proc[p].chunk /\ UNCHANGED <<keys, applied>>
      <3>1. \A q \in Procs : proc[q].at = "commit" => Min(proc[q].chunk) # o
        BY <2>4, Zenon DEF KeyHeld, At
      <3>2. \A q \in Procs \ {p} : proc'[q] = proc[q]
        BY <2>2 DEF Alone
      <3>3. Min(proc'[p].chunk) = o
        BY <2>1, <2>4
      <3>4. ASSUME NEW q \in Procs, proc'[q].at = "commit"
            PROVE  Min(proc'[q].chunk) \notin keys /\ (q # p => Min(proc'[q].chunk) # o)
        BY <2>4, <3>1, <3>2, <3>3, <3>4 DEF KeysTrue
      <3>5. ASSUME NEW q \in Procs, NEW r \in Procs, proc'[q].at = "commit", proc'[r].at = "commit",
                   Min(proc'[q].chunk) = Min(proc'[r].chunk)
            PROVE  q = r
        <4>1. CASE q = p \/ r = p
          BY <3>3, <3>4, <3>5, <4>1
        <4>2. CASE q # p /\ r # p
          BY <3>2, <3>5, <4>2 DEF KeysTrue
        <4>3. QED
          BY <4>1, <4>2
      <3>6. \A i \in Ordinals : applied'[i] = IF i \in keys' THEN 1 ELSE 0
        BY <2>4 DEF KeysTrue
      <3>7. QED
        BY <2>4, <3>4, <3>5, <3>6 DEF KeysTrue
    <2>5. CASE proc'[p].at # "commit" /\ UNCHANGED <<keys, applied>>
      BY <2>2, <2>5, KeysAlone
    <2>6. CASE proc'[p].at # "commit" /\ proc[p].at = "commit" /\ Applied(o)
      <3>1. o \notin keys /\ applied[o] = 0
        BY <2>1, <2>3, <2>6 DEF KeysTrue
      <3>2. ASSUME NEW i \in Ordinals PROVE applied'[i] = IF i \in keys' THEN 1 ELSE 0
        <4>1. CASE i = o
          BY <1>0, <2>3, <2>6, <3>1, <4>1 DEF Applied
        <4>2. CASE i # o
          BY <1>0, <2>3, <2>6, <4>2 DEF Applied, KeysTrue
        <4>3. QED
          BY <4>1, <4>2
      <3>3. \A q \in Procs : proc'[q].at = "commit" => q # p /\ proc'[q] = proc[q]
        BY <2>2, <2>6 DEF Alone
      <3>4. ASSUME NEW q \in Procs, proc'[q].at = "commit" PROVE Min(proc'[q].chunk) \notin keys'
        <4>1. Min(proc[q].chunk) \notin keys /\ Min(proc[q].chunk) # o
          BY <2>1, <2>6, <3>3, <3>4 DEF KeysTrue
        <4>2. QED
          BY <2>6, <3>3, <3>4, <4>1 DEF Applied
      <3>5. QED
        BY <3>2, <3>3, <3>4 DEF KeysTrue
    <2>7. QED
      BY <2>2, <2>4, <2>5, <2>6
  <1>8. QED
    BY <1>0, <1>1, <1>2, <1>3, <1>4, <1>5, <1>6, <1>7 DEF Next, ChunkStep, Upserting

\* The keys are true from the start.
LEMMA KeysInvariant == Spec => []KeysTrue
  <1>1. Init => KeysTrue
    BY DEF Init, KeysTrue, IdleProc
  <1>2. QED
    BY <1>1, KeysStep, BooksInvariant, PTL DEF Spec

\* A line changes the customers at most once, though chunks are taken over while their first
\* processor goes on, answers are lost and lines are replayed.
THEOREM ImportedAtMostOnce == Spec => []ImportedOnce
  <1>1. KeysTrue => ImportedOnce
    BY DEF KeysTrue, ImportedOnce
  <1>2. QED
    BY <1>1, KeysInvariant, PTL

\* Some processor holds o.
InHands(o) == \E p \in Procs : o \in proc[p].chunk \cup proc[p].items

\* What a processor remembers is so: its items have customers, what it accepted was written,
\* and without faults everything that it upserted was accepted.
MemoryTrue ==
    \A p \in Procs :
      /\ \A o \in proc[p].items : kind[o] # "unmappable"
      /\ \A o \in proc[p].accepted : applied[o] = 1
      /\ faults = 0 /\ proc[p].at \in {"upsert", "commit"} => proc[p].items \ proc[p].chunk \subseteq proc[p].accepted
      /\ faults = 0 /\ proc[p].at = "complete" => proc[p].items \subseteq proc[p].accepted

\* A row that was never claimed is in nobody's hands; one that failed without a fault holds
\* no customer or was never claimed either, so that no late processor imports it.
RowsTrue ==
    \A o \in Ordinals :
      /\ applied[o] \in {0, 1}
      /\ row[o].st \in {"absent", "pending"} => applied[o] = 0 /\ ~InHands(o)
      /\ kind[o] = "unmappable" => applied[o] = 0
      /\ row[o].st = "failed" /\ faults = 0 => applied[o] = 0 /\ (kind[o] = "unmappable" \/ ~InHands(o))
      /\ row[o].st = "succeeded" => applied[o] = 1

\* Steps that give no processor a row and write no customer.
LEMMA TrueWithoutUpsert ==
    ASSUME TypeOK, MemoryTrue, RowsTrue, MemoryTrue', UNCHANGED <<kind, keys, applied>>,
           faults' \in {faults, faults + 1},
           \A o \in Ordinals : InHands(o)' => InHands(o) \/ row'[o].st = "processing",
           \A o \in Ordinals :
             \/ row'[o].st = row[o].st
             \/ row[o].st \in {"absent", "pending"} /\ row'[o].st \in {"pending", "failed"}
             \/ row'[o].st \in {"processing", "cancelled"}
             \/ row'[o].st = "failed" /\ kind[o] = "unmappable"
             \/ row'[o].st = "failed" /\ faults # 0
             \/ row'[o].st = "succeeded" /\ applied[o] = 1
    PROVE  RowsTrue'
  <1>1. faults \in Nat
    BY DEF TypeOK
  <1>2. faults' = 0 => faults = 0
    BY <1>1
  <1>3. ASSUME NEW o \in Ordinals
        PROVE  /\ applied'[o] \in {0, 1}
               /\ row'[o].st \in {"absent", "pending"} => applied'[o] = 0 /\ ~InHands(o)'
               /\ kind'[o] = "unmappable" => applied'[o] = 0
               /\ row'[o].st = "failed" /\ faults' = 0 => applied'[o] = 0 /\ (kind'[o] = "unmappable" \/ ~InHands(o)')
               /\ row'[o].st = "succeeded" => applied'[o] = 1
    BY <1>2 DEF RowsTrue
  <1>4. QED
    BY <1>3 DEF RowsTrue

\* A processor that drops its rows, or keeps fewer.
LEMMA HandsShrink ==
    ASSUME NEW p \in Procs, Alone(p), proc'[p].chunk \cup proc'[p].items \subseteq proc[p].chunk \cup proc[p].items
    PROVE  \A o : InHands(o)' => InHands(o)
  BY DEF InHands, Alone

\* What a processor remembers stays so when it is alone and drops everything.
LEMMA MemoryTrueLeft ==
    ASSUME TypeOK, MemoryTrue, NEW p \in Procs, Alone(p), Left(p), UNCHANGED <<kind, keys, applied>>,
           faults' \in {faults, faults + 1}
    PROVE  MemoryTrue' /\ \A o : InHands(o)' => InHands(o)
  <1>1. faults \in Nat
    BY DEF TypeOK
  <1>2. faults' = 0 => faults = 0
    BY <1>1
  <1>3. ASSUME NEW q \in Procs
        PROVE  /\ \A o \in proc'[q].items : kind'[o] # "unmappable"
               /\ \A o \in proc'[q].accepted : applied'[o] = 1
               /\ faults' = 0 /\ proc'[q].at \in {"upsert", "commit"}
                       => proc'[q].items \ proc'[q].chunk \subseteq proc'[q].accepted
               /\ faults' = 0 /\ proc'[q].at = "complete" => proc'[q].items \subseteq proc'[q].accepted
    <2>1. CASE q = p
      BY <2>1 DEF Left
    <2>2. CASE q # p
      BY <1>2, <2>2 DEF MemoryTrue, Alone
    <2>3. QED
      BY <2>1, <2>2
  <1>4. MemoryTrue'
    BY <1>3 DEF MemoryTrue
  <1>5. proc'[p].chunk \cup proc'[p].items \subseteq proc[p].chunk \cup proc[p].items
    BY DEF Left
  <1>6. QED
    BY <1>4, <1>5, HandsShrink

\* Every step keeps memory and rows true.
LEMMA TrueStep == BooksKept /\ KeysTrue /\ MemoryTrue /\ RowsTrue /\ [Next]_vars => MemoryTrue' /\ RowsTrue'
  <1> SUFFICES ASSUME BooksKept, KeysTrue, MemoryTrue, RowsTrue, [Next]_vars PROVE MemoryTrue' /\ RowsTrue'
    OBVIOUS
  <1>0. /\ TypeOK /\ ChunkOpen /\ (job.st = "uploading" => Tally) /\ faults \in Nat
        /\ proc \in [Procs -> Proc] /\ applied \in [Ordinals -> Nat] /\ row \in [Ordinals -> Row]
    BY DEF BooksKept, TypeOK, Lifecycle, CountersAgree, Tally
  <1>1. ASSUME UNCHANGED <<kind, proc, keys, applied>>, faults' \in {faults, faults + 1},
               \A o \in Ordinals :
                 \/ row'[o].st = row[o].st
                 \/ row[o].st \in {"absent", "pending"} /\ row'[o].st \in {"pending", "failed"}
                 \/ row'[o].st \in {"processing", "cancelled"}
        PROVE  MemoryTrue' /\ RowsTrue'
    <2>1. faults' = 0 => faults = 0
      BY <1>0, <1>1
    <2>2. MemoryTrue'
      BY <1>1, <2>1 DEF MemoryTrue
    <2>3. \A o \in Ordinals : InHands(o)' => InHands(o)
      BY <1>1 DEF InHands
    <2>4. QED
      BY <1>0, <1>1, <2>2, <2>3, TrueWithoutUpsert
  <1>2. CASE StageImportRows
    <2>1. UNCHANGED <<kind, proc, keys, applied, faults>>
      BY <1>2 DEF StageImportRows
    <2>2. QED
      BY <1>0, <1>1, <1>2, <2>1, StageRows
  <1>3. CASE RejectImportJob
    <2>1. UNCHANGED <<kind, proc, keys, applied, faults>>
      BY <1>3 DEF RejectImportJob
    <2>2. QED
      BY <1>0, <1>1, <1>3, <2>1, RejectRows
  <1>4. CASE CancelImportJob
    <2>1. UNCHANGED <<kind, proc, keys, applied, faults>>
      BY <1>4 DEF CancelImportJob
    <2>2. QED
      BY <1>0, <1>1, <1>4, <2>1, CancelRows
  <1>5. ASSUME NEW o \in Ordinals, LeaseExpires(o) PROVE MemoryTrue' /\ RowsTrue'
    <2>1. row[o] \in Row /\ row' = [row EXCEPT ![o].live = FALSE] /\ UNCHANGED <<kind, proc, keys, applied, faults>>
      BY <1>0, <1>5 DEF LeaseExpires
    <2>2. \A i \in Ordinals : row'[i].st = row[i].st
      BY <1>0, <2>1 DEF Row
    <2>3. QED
      BY <1>1, <2>1, <2>2
  <1>6. CASE CreateImportJob \/ CommitImportJob \/ CreateTask \/ UploadBreaks \/ UNCHANGED vars
    <2>1. UNCHANGED <<kind, proc, keys, applied, row>> /\ faults' \in {faults, faults + 1}
      BY <1>6 DEF CreateImportJob, CommitImportJob, CreateTask, UploadBreaks, Fault, vars
    <2>2. QED
      BY <1>1, <2>1
  <1>7. ASSUME NEW p \in Procs,
               \/ p = Worker /\ (StartTask \/ CheckJob)
               \/ ProcessNextChunk(p) \/ UpsertRefused(p) \/ StatementFails(p) \/ Crash(p)
        PROVE  MemoryTrue' /\ RowsTrue'
    <2>1. Alone(p) /\ Left(p) /\ UNCHANGED <<kind, keys, applied, row>>
      BY <1>0, <1>7, IdleSteps
    <2>2. faults' \in {faults, faults + 1}
      BY <1>7 DEF StartTask, CheckJob, ProcessNextChunk, UpsertRefused, StatementFails, Crash, Fault
    <2>3. MemoryTrue' /\ \A o : InHands(o)' => InHands(o)
      BY <1>0, <2>1, <2>2, MemoryTrueLeft
    <2>4. QED
      BY <1>0, <2>1, <2>2, <2>3, TrueWithoutUpsert
  <1>8. ASSUME NEW p \in Procs, ClaimImportRows(p) PROVE MemoryTrue' /\ RowsTrue'
    <2>1. PICK rows : rows = Chunk({o \in Ordinals : Claimable(o)})
      OBVIOUS
    <2>2. UNCHANGED <<kind, keys, applied, faults>>
      BY <1>8 DEF ClaimImportRows
    <2>3. /\ Alone(p)
          /\ \/ Left(p)
             \/ /\ proc'[p].at = "map" /\ proc'[p].chunk = rows
                /\ proc'[p].items = {} /\ proc'[p].accepted = {}
                /\ \A o \in rows : row'[o].st = "processing"
      BY <1>0, <1>8, <2>1, ClaimMemory
    <2>4. /\ MemoryTrue'
          /\ \A o \in Ordinals : InHands(o)' => InHands(o) \/ row'[o].st = "processing"
      <3>1. CASE Left(p)
        BY <1>0, <2>2, <2>3, <3>1, MemoryTrueLeft
      <3>2. CASE /\ proc'[p].at = "map" /\ proc'[p].chunk = rows
                 /\ proc'[p].items = {} /\ proc'[p].accepted = {}
                 /\ \A o \in rows : row'[o].st = "processing"
        <4>1. MemoryTrue'
          BY <2>2, <2>3, <3>2 DEF MemoryTrue, Alone
        <4>2. \A o \in Ordinals : InHands(o)' => InHands(o) \/ row'[o].st = "processing"
          BY <2>3, <3>2 DEF InHands, Alone
        <4>3. QED
          BY <4>1, <4>2
      <3>3. QED
        BY <2>3, <3>1, <3>2
    <2>5. \A o \in Ordinals : row'[o].st = row[o].st \/ row'[o].st = "processing"
      BY <1>0, <1>8, ClaimRows
    <2>6. QED
      BY <1>0, <2>2, <2>4, <2>5, TrueWithoutUpsert
  <1>9. ASSUME NEW p \in Procs, MapRow(p) PROVE MemoryTrue' /\ RowsTrue'
    <2>1. PICK o : o = Min(proc[p].chunk)
      OBVIOUS
    <2>2. o \in Ordinals /\ o \in proc[p].chunk
      BY <1>0, <1>9, <2>1, FirstRow DEF MapRow, At
    <2>3. UNCHANGED <<kind, keys, applied, faults>>
      BY <1>9 DEF MapRow
    <2>4. /\ Alone(p)
          /\ \/ Left(p)
             \/ /\ proc'[p].at \in {"map", "upsert"}
                /\ proc'[p].accepted = proc[p].accepted
                /\ \/ proc'[p].items = proc[p].items
                   \/ kind[o] # "unmappable" /\ proc'[p].items = proc[p].items \cup {o}
                /\ proc'[p].at = "map" => proc'[p].chunk \subseteq proc[p].chunk
                /\ proc'[p].at = "upsert" => proc'[p].chunk = proc'[p].items
      BY <1>0, <1>9, <2>1, MapMemory
    <2>5. MemoryTrue' /\ \A i : InHands(i)' => InHands(i)
      <3>1. CASE Left(p)
        BY <1>0, <2>3, <2>4, <3>1, MemoryTrueLeft
      <3>2. CASE ~Left(p)
        <4>1. ASSUME NEW q \in Procs
              PROVE  /\ \A i \in proc'[q].items : kind'[i] # "unmappable"
                     /\ \A i \in proc'[q].accepted : applied'[i] = 1
                     /\ faults' = 0 /\ proc'[q].at \in {"upsert", "commit"}
                             => proc'[q].items \ proc'[q].chunk \subseteq proc'[q].accepted
                     /\ faults' = 0 /\ proc'[q].at = "complete" => proc'[q].items \subseteq proc'[q].accepted
          <5>1. CASE q = p
            BY <2>3, <2>4, <3>2, <5>1 DEF MemoryTrue
          <5>2. CASE q # p
            BY <2>3, <2>4, <5>2 DEF MemoryTrue, Alone
          <5>3. QED
            BY <5>1, <5>2
        <4>2. proc'[p].chunk \cup proc'[p].items \subseteq proc[p].chunk \cup proc[p].items
          BY <2>2, <2>4, <3>2
        <4>3. QED
          BY <2>4, <4>1, <4>2, HandsShrink DEF MemoryTrue
      <3>3. QED
        BY <3>1, <3>2
    <2>6. \/ row' = row
          \/ kind[o] = "unmappable" /\ MayComplete(p, o, "failed") /\ CompleteImportRow(o, "failed")
      BY <1>9, <2>1 DEF MapRow
    <2>7. \A i \in Ordinals : \/ row'[i].st = row[i].st
                              \/ row'[i].st = "failed" /\ kind[i] = "unmappable"
      BY <1>0, <2>2, <2>6, CompleteRows
    <2>8. QED
      BY <1>0, <2>3, <2>5, <2>7, TrueWithoutUpsert
  <1>10. ASSUME NEW p \in Procs, CompleteRow(p) PROVE MemoryTrue' /\ RowsTrue'
    <2>1. PICK o, outcome : /\ o = Min(proc[p].chunk)
                            /\ outcome = IF o \in proc[p].accepted THEN "succeeded" ELSE "failed"
      OBVIOUS
    <2>2. o \in Ordinals /\ o \in proc[p].items /\ proc[p].at = "complete"
      BY <1>0, <1>10, <2>1, FirstRow DEF CompleteRow, At, ChunkOpen
    <2>3. UNCHANGED <<kind, keys, applied, faults>>
      BY <1>10 DEF CompleteRow
    <2>4. /\ Alone(p)
          /\ \/ Left(p)
             \/ /\ proc'[p].at = "complete" /\ proc'[p].chunk \subseteq proc[p].chunk
                /\ proc'[p].items = proc[p].items /\ proc'[p].accepted = proc[p].accepted
      BY <1>0, <1>10, CompleteMemory
    <2>5. MemoryTrue' /\ \A i : InHands(i)' => InHands(i)
      <3>1. CASE Left(p)
        BY <1>0, <2>3, <2>4, <3>1, MemoryTrueLeft
      <3>2. CASE ~Left(p)
        <4>1. MemoryTrue'
          BY <2>2, <2>3, <2>4, <3>2 DEF MemoryTrue, Alone
        <4>2. proc'[p].chunk \cup proc'[p].items \subseteq proc[p].chunk \cup proc[p].items
          BY <2>4, <3>2
        <4>3. QED
          BY <2>4, <4>1, <4>2, HandsShrink
      <3>3. QED
        BY <3>1, <3>2
    <2>6. row' = row \/ (MayComplete(p, o, outcome) /\ CompleteImportRow(o, outcome))
      BY <1>10, <2>1 DEF CompleteRow
    <2>7. outcome \in {"succeeded", "failed"}
      BY <2>1
    <2>8. row' = row \/ (row'[o].st = outcome /\ \A i \in Ordinals \ {o} : row'[i] = row[i])
      BY <1>0, <2>2, <2>6, <2>7, CompleteRows
    <2>9. /\ outcome = "succeeded" => applied[o] = 1
          /\ outcome = "failed" => faults # 0
      BY <2>1, <2>2 DEF MemoryTrue
    <2>10. \A i \in Ordinals : \/ row'[i].st = row[i].st
                               \/ row'[i].st = "failed" /\ faults # 0
                               \/ row'[i].st = "succeeded" /\ applied[i] = 1
      BY <2>7, <2>8, <2>9
    <2>11. QED
      BY <1>0, <2>3, <2>5, <2>10, TrueWithoutUpsert
  <1>11. ASSUME NEW p \in Procs, Upserting(p) PROVE MemoryTrue' /\ RowsTrue'
    <2>1. PICK o : o = Min(proc[p].chunk)
      OBVIOUS
    <2>2. /\ o \in Ordinals /\ o \in proc[p].chunk /\ o \in proc[p].items
          /\ proc[p].at \in {"upsert", "commit"}
      BY <1>0, <1>11, <2>1, UpsertMemory, FirstRow DEF ChunkOpen
    <2>3. UNCHANGED <<kind, row>>
      BY <1>11 DEF Upserting, ClaimCustomerIdempotency, CommitCustomer
    <2>4. /\ Alone(p)
          /\ proc'[p].items = proc[p].items /\ proc'[p].chunk \subseteq proc[p].items
          /\ \/ /\ proc'[p].at = "commit" /\ proc'[p].chunk = proc[p].chunk
                /\ proc'[p].accepted = proc[p].accepted /\ UNCHANGED <<applied, faults>>
             \/ /\ proc'[p].at \in {"upsert", "complete"}
                /\ proc'[p].at = "upsert" => proc'[p].chunk = proc[p].chunk \ {o}
                /\ proc'[p].at = "complete" => proc[p].chunk = {o}
                /\ \/ /\ faults' = faults /\ proc'[p].accepted = proc[p].accepted \cup {o}
                      /\ \/ proc[p].at = "commit" /\ Applied(o)
                         \/ o \in keys /\ applied' = applied
                   \/ /\ faults' = faults + 1 /\ proc'[p].accepted = proc[p].accepted
                      /\ (proc[p].at = "commit" /\ Applied(o)) \/ applied' = applied
      BY <1>0, <1>11, <2>1, UpsertMemory
    <2>5. /\ faults' = 0 => faults = 0 /\ faults' = faults
          /\ faults' = 0 /\ proc'[p].at # "commit" => proc'[p].accepted = proc[p].accepted \cup {o}
      BY <1>0, <2>4
    <2>6. /\ applied[o] \in {0, 1} /\ kind[o] # "unmappable" /\ InHands(o)
          /\ \A i \in Ordinals : applied[i] \in {0, 1}
          /\ o \in keys => applied[o] = 1
          /\ proc[p].at = "commit" => applied[o] = 0
      BY <2>1, <2>2 DEF RowsTrue, MemoryTrue, InHands, KeysTrue
    <2>7. /\ \A i \in Ordinals \ {o} : applied'[i] = applied[i]
          /\ applied'[o] \in {0, 1}
          /\ applied[o] = 1 => applied'[o] = 1
          /\ proc'[p].accepted \subseteq proc[p].accepted \/ applied'[o] = 1
      <3>1. proc[p].at = "commit" /\ Applied(o)
              => applied'[o] = 1 /\ \A i \in Ordinals \ {o} : applied'[i] = applied[i]
        BY <1>0, <2>2, <2>6 DEF Applied
      <3>2. QED
        BY <2>4, <2>6, <3>1
    <2>8. \A i \in Ordinals : applied[i] = 1 => applied'[i] = 1
      BY <2>7
    <2>9. MemoryTrue'
      <3>1. ASSUME NEW q \in Procs
            PROVE  /\ \A i \in proc'[q].items : kind'[i] # "unmappable"
                   /\ \A i \in proc'[q].accepted : applied'[i] = 1
                   /\ faults' = 0 /\ proc'[q].at \in {"upsert", "commit"}
                           => proc'[q].items \ proc'[q].chunk \subseteq proc'[q].accepted
                   /\ faults' = 0 /\ proc'[q].at = "complete" => proc'[q].items \subseteq proc'[q].accepted
        <4>0. proc[q].accepted \subseteq Ordinals
          BY <1>0 DEF Proc
        <4>1. CASE q = p
          <5>1. \A i \in proc'[q].items : kind'[i] # "unmappable"
            BY <2>3, <2>4, <4>1 DEF MemoryTrue
          <5>2. \A i \in proc'[q].accepted : applied'[i] = 1
            BY <2>4, <2>7, <2>8, <4>0, <4>1 DEF MemoryTrue
          <5>3. faults' = 0 /\ proc'[q].at \in {"upsert", "commit"}
                     => proc'[q].items \ proc'[q].chunk \subseteq proc'[q].accepted
            BY <2>2, <2>4, <2>5, <4>1 DEF MemoryTrue
          <5>4. faults' = 0 /\ proc'[q].at = "complete" => proc'[q].items \subseteq proc'[q].accepted
            BY <2>2, <2>4, <2>5, <4>1 DEF MemoryTrue
          <5>5. QED
            BY <5>1, <5>2, <5>3, <5>4
        <4>2. CASE q # p
          <5>1. proc'[q] = proc[q]
            BY <2>4, <4>2 DEF Alone
          <5>2. QED
            BY <2>3, <2>5, <2>8, <4>0, <5>1 DEF MemoryTrue
        <4>3. QED
          BY <4>1, <4>2
      <3>2. QED
        BY <3>1 DEF MemoryTrue
    <2>10. \A i : InHands(i)' => InHands(i)
      <3>1. proc'[p].chunk \cup proc'[p].items \subseteq proc[p].chunk \cup proc[p].items
        BY <2>4
      <3>2. QED
        BY <2>4, <3>1, HandsShrink
    <2>11. ASSUME NEW i \in Ordinals
           PROVE  /\ applied'[i] \in {0, 1}
                  /\ row'[i].st \in {"absent", "pending"} => applied'[i] = 0 /\ ~InHands(i)'
                  /\ kind'[i] = "unmappable" => applied'[i] = 0
                  /\ row'[i].st = "failed" /\ faults' = 0 => applied'[i] = 0 /\ (kind'[i] = "unmappable" \/ ~InHands(i)')
                  /\ row'[i].st = "succeeded" => applied'[i] = 1
      <3>1. CASE i = o
        BY <2>2, <2>3, <2>5, <2>6, <2>7, <3>1 DEF RowsTrue
      <3>2. CASE i # o
        BY <2>3, <2>5, <2>7, <2>10, <3>2 DEF RowsTrue
      <3>3. QED
        BY <3>1, <3>2
    <2>12. QED
      BY <2>9, <2>11 DEF RowsTrue
  <1>12. Worker \in Procs
    BY DEF Procs
  <1>13. QED
    BY <1>2, <1>3, <1>4, <1>5, <1>6, <1>7, <1>8, <1>9, <1>10, <1>11, <1>12 DEF Next, UploadStep, ChunkStep, Upserting

\* Memory and rows are true from the start.
LEMMA TrueInvariant == Spec => [](MemoryTrue /\ RowsTrue)
  <1>1. Init => MemoryTrue /\ RowsTrue
    BY DEF Init, MemoryTrue, RowsTrue, InHands, IdleProc
  <1>2. QED
    BY <1>1, TrueStep, BooksInvariant, KeysInvariant, PTL DEF Spec

\* What a row reports is what happened to its customer: succeeded was imported, and failed
\* was not, unless the database erred.
THEOREM OutcomesAreTrue == Spec => []OutcomeTrue
  <1>1. RowsTrue => OutcomeTrue
    BY DEF RowsTrue, OutcomeTrue
  <1>2. QED
    BY <1>1, TrueInvariant, PTL
=============================================================================
