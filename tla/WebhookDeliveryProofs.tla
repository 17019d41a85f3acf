------------------------ MODULE WebhookDeliveryProofs ------------------------
(* Machine-checked facts about WebhookDelivery, for any sets of workers and   *)
(* deliveries and any bounds on attempts, faults, slowness and edits.         *)
EXTENDS WebhookDelivery, TLAPS

USE WebhookAssumption

-----------------------------------------------------------------------------
(* Types.                                                                   *)

\* What a worker knows where it stands: a row of its batch is current while it is worked on,
\* and a subscription has been read before a request is made or an answer judged.
Sound(r) ==
    /\ r.at \in {"idle", "next"} => r.d = None
    /\ r.at \notin {"idle", "next"} => r.d \in r.batch
    /\ r.at \in {"send", "posting", "reset", "expire", "count", "disable", "gone"} => r.cache \in Sub

WellFormed == TypeOK /\ \A w \in Workers : Sound(worker[w])

\* A step of one worker is nobody else's.
Alone(w) == \A v \in Workers \ {w} : worker'[v] = worker[v]

\* The rows that the statements of the repository write are rows.
LEMMA RowsTyped ==
    ASSUME TypeOK, NEW d \in Deliveries, NEW tries \in 0..MaxAttempts
    PROVE  /\ DeliveredRow(d) \in Row /\ FailedRow(d, tries) \in Row /\ RetryRow(d, tries) \in Row
           /\ Discarded \in [Deliveries -> Row] /\ Swept \in [Deliveries -> Row]
  <1>1. row[d] \in Row /\ row[d].tries \in 0..MaxAttempts /\ MaxAttempts \in Nat \ {0}
    BY DEF TypeOK, Row
  <1>2. DeliveredRow(d) \in Row
    <2>1. CASE row[d].tries = MaxAttempts
      BY <1>1, <2>1 DEF DeliveredRow, Row
    <2>2. CASE row[d].tries # MaxAttempts
      <3>1. row[d].tries + 1 \in 0..MaxAttempts
        BY <1>1, <2>2
      <3>2. QED
        BY <1>1, <2>2, <3>1 DEF DeliveredRow, Row
    <2>3. QED
      BY <2>1, <2>2
  <1>3. ASSUME NEW n \in 0..MaxAttempts PROVE FailedRow(d, n) \in Row
    BY <1>1 DEF FailedRow, Row
  <1>4. RetryRow(d, tries) \in Row
    <2>1. CASE tries + 1 >= MaxAttempts
      <3>1. MaxAttempts \in 0..MaxAttempts
        BY <1>1
      <3>2. QED
        BY <1>3, <2>1, <3>1 DEF RetryRow
    <2>2. CASE ~(tries + 1 >= MaxAttempts)
      <3>1. tries + 1 \in 0..MaxAttempts
        BY <1>1, <2>2
      <3>2. FailedRow(d, tries + 1) \in Row
        BY <1>3, <3>1
      <3>3. [FailedRow(d, tries + 1) EXCEPT !.due = FALSE] \in Row
        BY <3>2 DEF Row
      <3>4. QED
        BY <2>2, <3>3 DEF RetryRow
    <2>3. QED
      BY <2>1, <2>2
  <1>5. Discarded \in [Deliveries -> Row]
    <2>1. ASSUME NEW x \in Deliveries PROVE Discarded[x] \in Row
      <3>1. row[x] \in Row
        BY DEF TypeOK
      <3>2. [row[x] EXCEPT !.st = "deleted", !.due = FALSE, !.owner = None, !.stale = FALSE] \in Row
        BY <3>1 DEF Row
      <3>3. QED
        BY <3>1, <3>2 DEF Discarded
    <2>2. QED
      BY <2>1 DEF Discarded
  <1>6. Swept \in [Deliveries -> Row]
    <2>1. ASSUME NEW x \in Deliveries PROVE Swept[x] \in Row
      <3>1. row[x] \in Row
        BY DEF TypeOK
      <3>2. [row[x] EXCEPT !.st = "pending", !.owner = None, !.stale = FALSE] \in Row
        BY <3>1 DEF Row
      <3>3. QED
        BY <3>1, <3>2 DEF Swept
    <2>2. QED
      BY <2>1 DEF Swept
  <1>7. QED
    BY <1>2, <1>3, <1>4, <1>5, <1>6

\* The statements on the subscription keep it a subscription.
LEMMA SubsTyped ==
    ASSUME TypeOK, NEW s \in Sub
    PROVE  /\ Cleared(s) \in Sub /\ Counted(s) \in Sub /\ SubAfter(s, "retired") \in Sub
           /\ \A on \in BOOLEAN : Updated(s, on) \in Sub
           /\ \A st \in {"on", "off", "retired", "gone"} : [s EXCEPT !.st = st] \in Sub
  <1>1. /\ s.fails \in 0..Threshold /\ s.since \in Since /\ now \in 0..MaxTime /\ now \in Since
        /\ Threshold \in Nat \ {0}
    BY DEF TypeOK, Sub, Since
  <1>2. Cleared(s) \in Sub
    <2>1. 0 \in 0..Threshold /\ None \in Since
      BY <1>1 DEF Since
    <2>2. QED
      BY <2>1 DEF Cleared, Sub
  <1>3. Counted(s) \in Sub
    <2>1. PICK n \in 0..Threshold : n = IF s.fails = Threshold THEN s.fails ELSE s.fails + 1
      BY <1>1
    <2>2. PICK t \in Since : t = IF s.since = None THEN now ELSE s.since
      BY <1>1
    <2>3. Counted(s) = [s EXCEPT !.fails = n, !.since = t]
      BY <2>1, <2>2 DEF Counted, Sub
    <2>4. QED
      BY <2>3 DEF Sub
  <1>4. \A st \in {"on", "off", "retired", "gone"} : [s EXCEPT !.st = st] \in Sub
    BY DEF Sub
  <1>5. SubAfter(s, "retired") \in Sub
    BY <1>4 DEF SubAfter
  <1>6. [Cleared(s) EXCEPT !.st = "on"] \in Sub
    BY <1>2 DEF Sub
  <1>7. \A on \in BOOLEAN : Updated(s, on) \in Sub
    BY <1>4, <1>6 DEF Updated
  <1>8. QED
    BY <1>2, <1>3, <1>4, <1>5, <1>7

\* The worker that ends a row or a poll is a worker that knows where it stands.
LEMMA TurnSound ==
    ASSUME WellFormed, NEW w \in Workers, NEW d, Turn(w, d)
    PROVE  /\ worker' \in [Workers -> Worker] /\ Alone(w) /\ Sound(worker'[w])
           /\ worker'[w].at \in {"idle", "next"} /\ worker'[w].d = None
  <1> DEFINE rest == worker[w].batch \ {d}
             r == [worker[w] EXCEPT !.at = "next", !.batch = rest, !.d = None, !.spent = FALSE]
  <1>1. worker[w] \in Worker /\ rest \in SUBSET Deliveries
    BY DEF WellFormed, TypeOK, Worker
  <1>2. IdleWorker \in Worker /\ Sound(IdleWorker) /\ IdleWorker.at = "idle" /\ IdleWorker.d = None
    BY DEF IdleWorker, Worker, Sound
  <1>3. r \in Worker /\ r.at = "next" /\ r.d = None
    BY <1>1 DEF Worker
  <1>4. Sound(r)
    BY <1>3 DEF Sound
  <1>5. worker' = [worker EXCEPT ![w] = IF rest = {} THEN IdleWorker ELSE r]
    BY DEF Turn
  <1> HIDE DEF r
  <1>6. PICK x : x = (IF rest = {} THEN IdleWorker ELSE r)
    OBVIOUS
  <1>7. x \in Worker /\ Sound(x) /\ x.at \in {"idle", "next"} /\ x.d = None
    BY <1>2, <1>3, <1>4, <1>6
  <1>8. worker' = [worker EXCEPT ![w] = x]
    BY <1>5, <1>6
  <1>9. worker'[w] = x /\ worker' \in [Workers -> Worker] /\ Alone(w)
    BY <1>7, <1>8 DEF WellFormed, TypeOK, Alone
  <1>10. QED
    BY <1>7, <1>9

\* A worker goes on with the row it has.
To(w, at) ==
    /\ Alone(w)
    /\ worker'[w].at = at /\ worker'[w].d = worker[w].d /\ worker'[w].spent = worker[w].spent

\* A worker that only moves on, with a row in its hands, stays sound.
LEMMA MoveSound ==
    ASSUME WellFormed, NEW w \in Workers, worker[w].at \notin {"idle", "next"},
           NEW at \in {"send", "posting", "done", "release"} \cup Writing, NEW verdict \in {"delivered", "retry", "drain"},
           NEW c \in Sub \cup {None},
           at \in {"send", "posting", "reset", "expire", "count", "disable", "gone"} => c \in Sub,
           worker' = [worker EXCEPT ![w] = [@ EXCEPT !.at = at, !.verdict = verdict, !.cache = c]]
    PROVE  /\ worker' \in [Workers -> Worker] /\ Sound(worker'[w])
           /\ To(w, at) /\ worker'[w].verdict = verdict
  <1>1. worker[w] \in Worker /\ worker \in [Workers -> Worker]
    BY DEF WellFormed, TypeOK
  <1>2. worker' \in [Workers -> Worker] /\ Alone(w)
    BY <1>1, ZenonT(90) DEF Worker, Alone, Writing
  <1>3. /\ worker'[w].at = at /\ worker'[w].d = worker[w].d /\ worker'[w].batch = worker[w].batch
        /\ worker'[w].cache = c /\ worker'[w].verdict = verdict /\ worker'[w].spent = worker[w].spent
    BY <1>1 DEF Worker
  <1>4. at \notin {"idle", "next"} /\ worker[w].d \in worker[w].batch
    BY DEF WellFormed, Sound, Writing
  <1>5. QED
    BY <1>2, <1>3, <1>4 DEF Sound, To

\* So does one that judges an answer by its copy of the subscription.
LEMMA JudgeSound ==
    ASSUME WellFormed, NEW w \in Workers, worker[w].at \in Writing, NEW at \in Writing \cup {"done"},
           NEW verdict \in {"delivered", "retry", "drain"}, NEW c \in Sub,
           worker' = [worker EXCEPT ![w] = [@ EXCEPT !.at = at, !.verdict = verdict, !.cache = c]]
    PROVE  /\ worker' \in [Workers -> Worker] /\ Sound(worker'[w])
           /\ To(w, at) /\ worker'[w].verdict = verdict
  <1>1. /\ at \in {"send", "posting", "done", "release"} \cup Writing /\ c \in Sub \cup {None}
        /\ worker[w].at \notin {"idle", "next"}
    BY DEF Writing
  <1>2. QED
    BY <1>1, MoveSound

\* Goto is such a move.
LEMMA GotoSound ==
    ASSUME WellFormed, NEW w \in Workers, worker[w].at \notin {"idle", "next"},
           NEW at \in {"send", "posting", "done", "release"} \cup Writing, Goto(w, at),
           at \in {"send", "posting", "reset", "expire", "count", "disable", "gone"} => worker[w].cache \in Sub
    PROVE  /\ worker' \in [Workers -> Worker] /\ Sound(worker'[w])
           /\ To(w, at) /\ worker'[w].verdict = worker[w].verdict
  <1>1. /\ worker[w] \in Worker /\ worker \in [Workers -> Worker]
        /\ worker[w].verdict \in {"delivered", "retry", "drain"} /\ worker[w].cache \in Sub \cup {None}
    BY DEF WellFormed, TypeOK, Worker
  <1>2. [worker[w] EXCEPT !.at = at] =
        [worker[w] EXCEPT !.at = at, !.verdict = worker[w].verdict, !.cache = worker[w].cache]
    BY <1>1 DEF Worker
  <1>3. worker' = [worker EXCEPT ![w] =
                     [@ EXCEPT !.at = at, !.verdict = worker[w].verdict, !.cache = worker[w].cache]]
    BY <1>1, <1>2 DEF Goto
  <1>4. QED
    BY <1>1, <1>3, MoveSound

\* Settle is such a move.
LEMMA SettleSound ==
    ASSUME WellFormed, NEW w \in Workers, worker[w].at \notin {"idle", "next"},
           NEW verdict \in {"delivered", "retry", "drain"}, Settle(w, verdict)
    PROVE  /\ worker' \in [Workers -> Worker] /\ Sound(worker'[w])
           /\ To(w, "write") /\ worker'[w].verdict = verdict
  <1>1. /\ worker[w] \in Worker /\ worker \in [Workers -> Worker] /\ worker[w].cache \in Sub \cup {None}
    BY DEF WellFormed, TypeOK, Worker
  <1>2. [worker[w] EXCEPT !.at = "write", !.verdict = verdict] =
        [worker[w] EXCEPT !.at = "write", !.verdict = verdict, !.cache = worker[w].cache]
    BY <1>1 DEF Worker
  <1>3. worker' = [worker EXCEPT ![w] = [@ EXCEPT !.at = "write", !.verdict = verdict, !.cache = worker[w].cache]]
    BY <1>1, <1>2 DEF Settle
  <1>4. "write" \in {"send", "posting", "done", "release"} \cup Writing
    BY DEF Writing
  <1>5. QED
    BY <1>1, <1>3, <1>4, MoveSound

-----------------------------------------------------------------------------
(* What each step of a worker does to the worker and to the subscription.   *)

\* A worker as it was before its step, with the parts the steps use.
LEMMA WorkerParts ==
    ASSUME WellFormed, NEW w \in Workers
    PROVE  /\ worker \in [Workers -> Worker] /\ worker[w] \in Worker /\ Sound(worker[w])
           /\ worker[w].cache \in Sub \cup {None} /\ worker[w].verdict \in {"delivered", "retry", "drain"}
           /\ worker[w].spent \in BOOLEAN /\ worker[w].d \in Deliveries \cup {None}
           /\ worker[w].tries \in [Deliveries -> 0..MaxAttempts] /\ worker[w].batch \subseteq Deliveries
           /\ worker[w].at \notin {"idle", "next"} => worker[w].d \in Deliveries
  <1>1. worker \in [Workers -> Worker] /\ worker[w] \in Worker /\ Sound(worker[w])
    BY DEF WellFormed, TypeOK
  <1>2. QED
    BY <1>1 DEF Worker, Sound

\* The lookup leads to the request, to a drain or to a release.
LEMMA LookupSound ==
    ASSUME WellFormed, NEW w \in Workers, GetByID(w)
    PROVE  /\ worker' \in [Workers -> Worker] /\ Sound(worker'[w]) /\ faults' >= faults /\ faults' \in 0..MaxFaults
           /\ \/ To(w, "send") \/ (To(w, "write") /\ worker'[w].verdict = "drain")
              \/ (To(w, "release") /\ faults' = faults + 1)
  <1>1. PICK s : s = IF worker[w].cache = None THEN sub ELSE worker[w].cache
    OBVIOUS
  <1>2. /\ At(w, "lookup") /\ faults \in 0..MaxFaults /\ MaxFaults \in Nat
        /\ \/ /\ worker' = [worker EXCEPT ![w].cache = IF s.st = "gone" THEN None ELSE s,
                          ![w].at = IF s.st = "on" THEN "send" ELSE "write", ![w].verdict = "drain"]
              /\ UNCHANGED faults
           \/ Fault /\ Goto(w, "release")
    BY <1>1, Zenon DEF GetByID, WellFormed, TypeOK
  <1>3. /\ worker[w] \in Worker /\ worker \in [Workers -> Worker] /\ worker[w].cache \in Sub \cup {None}
        /\ sub \in Sub /\ s \in Sub /\ None \in Sub \cup {None} /\ worker[w].at = "lookup"
    BY <1>1, <1>2, WorkerParts DEF WellFormed, TypeOK, At
  <1>4. ASSUME Fault, Goto(w, "release")
        PROVE  worker' \in [Workers -> Worker] /\ Sound(worker'[w]) /\ To(w, "release")
    BY <1>3, <1>4, GotoSound
  <1>5. ASSUME NEW c, NEW at, c = (IF s.st = "gone" THEN None ELSE s), at = (IF s.st = "on" THEN "send" ELSE "write"),
               worker' = [worker EXCEPT ![w].cache = c, ![w].at = at, ![w].verdict = "drain"]
        PROVE  /\ worker' \in [Workers -> Worker] /\ Sound(worker'[w])
               /\ To(w, "send") \/ (To(w, "write") /\ worker'[w].verdict = "drain")
    <2>1. /\ c \in Sub \cup {None} /\ at \in {"send", "posting", "done", "release"} \cup Writing
          /\ at \in {"send", "posting", "reset", "expire", "count", "disable", "gone"} => c = s
          /\ at \in {"send", "write"}
      BY <1>3, <1>5 DEF Writing
    <2>2. worker' = [worker EXCEPT ![w] = [@ EXCEPT !.at = at, !.verdict = "drain", !.cache = c]]
      BY <1>3, <1>5
    <2>3. /\ worker' \in [Workers -> Worker] /\ Sound(worker'[w])
          /\ To(w, at) /\ worker'[w].verdict = "drain"
      BY <1>3, <2>1, <2>2, MoveSound
    <2>4. QED
      BY <2>1, <2>3
  <1>6. CASE Fault /\ Goto(w, "release")
    BY <1>2, <1>4, <1>6 DEF Fault
  <1>7. CASE ~(Fault /\ Goto(w, "release"))
    <2>1. PICK c, at : /\ c = (IF s.st = "gone" THEN None ELSE s)
                       /\ at = (IF s.st = "on" THEN "send" ELSE "write")
      OBVIOUS
    <2>2. worker' = [worker EXCEPT ![w].cache = c, ![w].at = at, ![w].verdict = "drain"] /\ faults' = faults
      BY <1>2, <1>7, <2>1, Zenon
    <2>3. /\ worker' \in [Workers -> Worker] /\ Sound(worker'[w])
          /\ To(w, "send") \/ (To(w, "write") /\ worker'[w].verdict = "drain")
      BY <1>5, <2>1, <2>2, Zenon
    <2>4. QED
      BY <1>2, <2>2, <2>3
  <1>8. QED
    BY <1>6, <1>7

\* A row is settled at once, given back when the budget is spent, or posted.
LEMMA ProcessSound ==
    ASSUME WellFormed, NEW w \in Workers, ProcessDelivery(w)
    PROVE  /\ worker' \in [Workers -> Worker] /\ Sound(worker'[w])
           /\ \/ /\ To(w, "write") /\ worker'[w].verdict # "delivered"
                 /\ Prompt => ~worker[w].spent
              \/ To(w, "release") /\ worker[w].spent
              \/ To(w, "posting") /\ ~worker[w].spent
  <1>1. /\ worker[w].at = "send" /\ worker[w].cache \in Sub /\ worker[w].spent \in BOOLEAN
    BY WorkerParts DEF ProcessDelivery, At, Sound
  <1>2. ASSUME NEW verdict \in {"drain", "retry"}, Settle(w, verdict)
        PROVE  /\ worker' \in [Workers -> Worker] /\ Sound(worker'[w])
               /\ To(w, "write") /\ worker'[w].verdict = verdict
    BY <1>1, <1>2, SettleSound
  <1>3. ASSUME NEW at \in {"release", "posting"}, Goto(w, at)
        PROVE  worker' \in [Workers -> Worker] /\ Sound(worker'[w]) /\ To(w, at)
    BY <1>1, <1>3, GotoSound
  <1>4. CASE \E verdict \in {"drain", "retry"} : Settle(w, verdict) /\ (Prompt => ~worker[w].spent)
    BY <1>2, <1>4
  <1>5. CASE Goto(w, IF worker[w].spent THEN "release" ELSE "posting")
    <2>1. CASE worker[w].spent
      <3>1. Goto(w, "release")
        BY <1>5, <2>1, Zenon
      <3>2. QED
        BY <1>3, <2>1, <3>1
    <2>2. CASE ~worker[w].spent
      <3>1. Goto(w, "posting")
        BY <1>5, <2>2, Zenon
      <3>2. QED
        BY <1>3, <2>2, <3>1
    <2>3. QED
      BY <2>1, <2>2
  <1>6. QED
    BY <1>4, <1>5, Zenon DEF ProcessDelivery

\* An answer is an acceptance, the end of the endpoint, a throttle, or a failure.
LEMMA ResponseSound ==
    ASSUME WellFormed, NEW w \in Workers, HandleResponse(w)
    PROVE  /\ worker' \in [Workers -> Worker] /\ Sound(worker'[w])
           /\ \/ /\ To(w, "reset") /\ faults' = faults
                 /\ accepted' = [accepted EXCEPT ![Cur(w)] = @ + 1]
              \/ /\ To(w, "gone") \/ (To(w, "write") /\ worker'[w].verdict = "retry") \/ To(w, "expire")
                 /\ faults' = faults /\ accepted' = accepted
              \/ /\ To(w, "expire") /\ Fault
                 /\ accepted' = [accepted EXCEPT ![Cur(w)] = @ + 1]
  <1>1. /\ worker[w].at = "posting" /\ worker[w].cache \in Sub
    BY WorkerParts DEF HandleResponse, At, Sound
  <1>2. ASSUME Settle(w, "retry")
        PROVE  /\ worker' \in [Workers -> Worker] /\ Sound(worker'[w])
               /\ To(w, "write") /\ worker'[w].verdict = "retry"
    BY <1>1, <1>2, SettleSound
  <1>3. ASSUME NEW at \in {"reset", "gone", "expire"}, Goto(w, at)
        PROVE  worker' \in [Workers -> Worker] /\ Sound(worker'[w]) /\ To(w, at)
    BY <1>1, <1>3, GotoSound DEF Writing
  <1>4. QED
    BY <1>2, <1>3 DEF HandleResponse

\* An acceptance clears the failures it knows of and is then recorded.
LEMMA ResetSound ==
    ASSUME WellFormed, NEW w \in Workers, ResetFailures(w)
    PROVE  /\ worker' \in [Workers -> Worker] /\ Sound(worker'[w]) /\ sub' \in Sub
           /\ To(w, "write") /\ worker'[w].verdict = "delivered"
           /\ UNCHANGED faults \/ Fault
  <1>1. /\ worker[w].at = "reset" /\ worker[w].cache \in Sub /\ sub \in Sub /\ TypeOK
        /\ worker[w] \in Worker /\ worker \in [Workers -> Worker]
    BY WorkerParts DEF ResetFailures, At, Sound, WellFormed, TypeOK
  <1>2. Cleared(worker[w].cache) \in Sub /\ Cleared(sub) \in Sub
    BY <1>1, SubsTyped
  <1>3. CASE Settle(w, "delivered") /\ UNCHANGED sub /\ Fault
    BY <1>1, <1>3, SettleSound
  <1>4. CASE /\ sub' = IF Cleared(worker[w].cache) = worker[w].cache THEN sub ELSE Cleared(sub)
             /\ worker' = [worker EXCEPT ![w].cache = Cleared(@), ![w].at = "write", ![w].verdict = "delivered"]
             /\ UNCHANGED faults
    <2>1. sub' \in Sub
      BY <1>1, <1>2, <1>4
    <2>2. worker' = [worker EXCEPT ![w] = [@ EXCEPT !.at = "write", !.verdict = "delivered",
                                                    !.cache = Cleared(worker[w].cache)]]
      BY <1>1, <1>4
    <2>3. worker[w].at \in Writing /\ "write" \in Writing \cup {"done"}
      BY <1>1 DEF Writing
    <2>4. /\ worker' \in [Workers -> Worker] /\ Sound(worker'[w])
          /\ To(w, "write") /\ worker'[w].verdict = "delivered"
      BY <1>2, <2>2, <2>3, JudgeSound
    <2>5. QED
      BY <1>4, <2>1, <2>4, Zenon
  <1>5. QED
    BY <1>3, <1>4, Zenon DEF ResetFailures

\* A failure first closes a run of failures that is too old.
LEMMA ExpireSound ==
    ASSUME WellFormed, NEW w \in Workers, ExpireStaleFailureRun(w)
    PROVE  /\ worker' \in [Workers -> Worker] /\ Sound(worker'[w]) /\ sub' \in Sub
           /\ To(w, "count") /\ (UNCHANGED faults \/ Fault)
  <1>1. /\ worker[w].at = "expire" /\ worker[w].cache \in Sub /\ sub \in Sub /\ TypeOK
        /\ worker[w] \in Worker /\ worker \in [Workers -> Worker]
        /\ worker[w].verdict \in {"delivered", "retry", "drain"}
    BY WorkerParts DEF ExpireStaleFailureRun, At, Sound, WellFormed, TypeOK
  <1>2. Cleared(worker[w].cache) \in Sub /\ Cleared(sub) \in Sub
    BY <1>1, SubsTyped
  <1> DEFINE old == worker[w].cache.since # None /\ now - worker[w].cache.since >= RunMaxAge
             c == IF old THEN Cleared(worker[w].cache) ELSE worker[w].cache
  <1>3. \/ /\ sub' = (IF old THEN Cleared(sub) ELSE sub) /\ UNCHANGED faults
           /\ worker' = [worker EXCEPT ![w].cache = c, ![w].at = "count"]
        \/ Fault /\ Goto(w, "count") /\ UNCHANGED sub
    BY Zenon DEF ExpireStaleFailureRun
  <1>4. c \in Sub
    BY <1>1, <1>2
  <1> HIDE DEF c, old
  <1>5. CASE Fault /\ Goto(w, "count") /\ UNCHANGED sub
    BY <1>1, <1>5, GotoSound DEF Writing
  <1>6. CASE /\ sub' = (IF old THEN Cleared(sub) ELSE sub) /\ UNCHANGED faults
             /\ worker' = [worker EXCEPT ![w].cache = c, ![w].at = "count"]
    <2>1. sub' \in Sub
      BY <1>1, <1>2, <1>6
    <2>2. [worker[w] EXCEPT !.cache = c, !.at = "count"] =
          [worker[w] EXCEPT !.at = "count", !.verdict = worker[w].verdict, !.cache = c]
      BY <1>1 DEF Worker
    <2>3. worker' = [worker EXCEPT ![w] = [@ EXCEPT !.at = "count", !.verdict = worker[w].verdict, !.cache = c]]
      BY <1>1, <1>6, <2>2
    <2>4. worker[w].at \in Writing /\ "count" \in Writing \cup {"done"}
      BY <1>1 DEF Writing
    <2>5. worker' \in [Workers -> Worker] /\ Sound(worker'[w]) /\ To(w, "count")
      BY <1>1, <1>4, <2>3, <2>4, JudgeSound
    <2>6. QED
      BY <1>6, <2>1, <2>5, Zenon
  <1>7. QED
    BY <1>3, <1>5, <1>6

\* The failure is counted and judged: retry, or retire the endpoint.
LEMMA IncrementSound ==
    ASSUME WellFormed, NEW w \in Workers, IncrementFailures(w)
    PROVE  /\ worker' \in [Workers -> Worker] /\ Sound(worker'[w]) /\ sub' \in Sub
           /\ To(w, "disable") \/ To(w, "write")
           /\ worker'[w].verdict = "retry" /\ (UNCHANGED faults \/ Fault)
  <1>1. /\ worker[w].at = "count" /\ worker[w].cache \in Sub /\ sub \in Sub /\ TypeOK
        /\ worker[w] \in Worker /\ worker \in [Workers -> Worker]
    BY WorkerParts DEF IncrementFailures, At, Sound, WellFormed, TypeOK
  <1> DEFINE c == Counted(worker[w].cache)
             dead == c.fails >= Threshold /\ now - c.since >= Window
             at == IF dead THEN "disable" ELSE "write"
  <1>2. c \in Sub /\ Counted(sub) \in Sub
    BY <1>1, SubsTyped
  <1>3. at \in Writing \cup {"done"} /\ at \in {"disable", "write"} /\ worker[w].at \in Writing
    BY <1>1 DEF Writing
  <1>4. \/ /\ sub' = (IF sub.st = "gone" THEN sub ELSE Counted(sub)) /\ UNCHANGED faults
           /\ worker' = [worker EXCEPT ![w].cache = c, ![w].verdict = "retry", ![w].at = at]
        \/ Fault /\ Settle(w, "retry") /\ UNCHANGED sub
    BY Zenon DEF IncrementFailures
  <1> HIDE DEF at, dead, c
  <1>5. CASE Fault /\ Settle(w, "retry") /\ UNCHANGED sub
    BY <1>1, <1>5, SettleSound
  <1>6. CASE /\ sub' = (IF sub.st = "gone" THEN sub ELSE Counted(sub)) /\ UNCHANGED faults
             /\ worker' = [worker EXCEPT ![w].cache = c, ![w].verdict = "retry", ![w].at = at]
    <2>1. sub' \in Sub
      BY <1>1, <1>2, <1>6
    <2>2. worker' = [worker EXCEPT ![w] = [@ EXCEPT !.at = at, !.verdict = "retry", !.cache = c]]
      BY <1>1, <1>6
    <2>3. /\ worker' \in [Workers -> Worker] /\ Sound(worker'[w])
          /\ To(w, at) /\ worker'[w].verdict = "retry"
      BY <1>2, <1>3, <2>2, JudgeSound
    <2>4. To(w, "disable") \/ To(w, "write")
      BY <1>3, <2>3
    <2>5. QED
      BY <1>6, <2>1, <2>3, <2>4, Zenon
  <1>7. QED
    BY <1>4, <1>5, <1>6

\* A worker that notes in its copy that the endpoint is retired.
LEMMA RetireSound ==
    ASSUME WellFormed, NEW w \in Workers, worker[w].at \in {"disable", "gone"},
           NEW at \in {"write", "done"}, NEW verdict \in {"delivered", "retry", "drain"},
           worker' = [worker EXCEPT ![w].cache.st = "retired", ![w].at = at, ![w].verdict = verdict]
    PROVE  /\ worker' \in [Workers -> Worker] /\ Sound(worker'[w])
           /\ To(w, at) /\ worker'[w].verdict = verdict
  <1>1. /\ worker[w].cache \in Sub /\ TypeOK /\ worker[w] \in Worker /\ worker \in [Workers -> Worker]
    BY WorkerParts DEF Sound, WellFormed
  <1>2. PICK c \in Sub : c = [worker[w].cache EXCEPT !.st = "retired"]
    BY <1>1, SubsTyped
  <1>3. worker' = [worker EXCEPT ![w] = [@ EXCEPT !.at = at, !.verdict = verdict, !.cache = c]]
    BY <1>1, <1>2
  <1>4. worker[w].at \in Writing /\ at \in Writing \cup {"done"} /\ verdict \in {"delivered", "retry", "drain"}
    BY DEF Writing
  <1>5. /\ at \in {"send", "posting", "done", "release"} \cup Writing /\ c \in Sub \cup {None} /\ c \in Sub
        /\ worker[w].at \notin {"idle", "next"}
    BY <1>2, <1>4
  <1>6. worker' \in [Workers -> Worker] /\ Alone(w)
    BY <1>1, <1>3, <1>4, <1>5 DEF Worker, Alone
  <1>7. /\ worker'[w].at = at /\ worker'[w].d = worker[w].d /\ worker'[w].batch = worker[w].batch
        /\ worker'[w].cache = c /\ worker'[w].verdict = verdict /\ worker'[w].spent = worker[w].spent
    BY <1>1, <1>3 DEF Worker
  <1>8. worker[w].d \in worker[w].batch
    BY <1>5, WorkerParts DEF Sound
  <1>9. QED
    BY <1>5, <1>6, <1>7, <1>8 DEF Sound, To

\* A dead endpoint is retired, or its row retried.
LEMMA DisableSound ==
    ASSUME WellFormed, NEW w \in Workers, DisableWithReason(w)
    PROVE  /\ worker' \in [Workers -> Worker] /\ Sound(worker'[w]) /\ sub' \in Sub
           /\ To(w, "write") /\ worker'[w].verdict \in {"retry", "drain"} /\ (UNCHANGED faults \/ Fault)
  <1>1. worker[w].at = "disable" /\ sub \in Sub /\ TypeOK
    BY DEF DisableWithReason, At, WellFormed, TypeOK
  <1>2. SubAfter(sub, "retired") \in Sub
    BY <1>1, SubsTyped
  <1>3. CASE Fault /\ Settle(w, "retry") /\ UNCHANGED sub
    BY <1>1, <1>3, SettleSound
  <1>4. CASE /\ sub' = SubAfter(sub, "retired") /\ UNCHANGED faults
             /\ worker' = [worker EXCEPT ![w].cache.st = "retired", ![w].at = "write", ![w].verdict = "drain"]
    BY <1>1, <1>2, <1>4, RetireSound
  <1>5. QED
    BY <1>3, <1>4, Zenon DEF DisableWithReason

\* An endpoint that is gone: the subscription is deleted, retired, or only the row is drained.
LEMMA GoneSound ==
    ASSUME WellFormed, NEW w \in Workers, HandleGoneEndpoint(w)
    PROVE  /\ worker' \in [Workers -> Worker] /\ Sound(worker'[w]) /\ sub' \in Sub
           /\ \/ To(w, "done") /\ row' = Discarded
              \/ To(w, "write") /\ worker'[w].verdict = "drain" /\ row' = row
           /\ UNCHANGED faults \/ Fault
  <1>1. /\ worker[w].at = "gone" /\ sub \in Sub /\ TypeOK /\ worker[w].verdict \in {"delivered", "retry", "drain"}
        /\ worker[w] \in Worker /\ worker \in [Workers -> Worker]
    BY WorkerParts DEF HandleGoneEndpoint, At, WellFormed, TypeOK
  <1>2. SubAfter(sub, "retired") \in Sub /\ [sub EXCEPT !.st = "gone"] \in Sub
    BY <1>1, SubsTyped
  <1>3. CASE Settle(w, "drain") /\ UNCHANGED <<row, sub>> /\ (UNCHANGED faults \/ Fault)
    BY <1>1, <1>3, SettleSound
  <1>4. CASE /\ sub' = SubAfter(sub, "retired") /\ UNCHANGED <<row, faults>>
             /\ worker' = [worker EXCEPT ![w].cache.st = "retired", ![w].at = "write", ![w].verdict = "drain"]
    BY <1>1, <1>2, <1>4, RetireSound
  <1>5. CASE /\ sub' = [sub EXCEPT !.st = "gone"] /\ UNCHANGED faults /\ row' = Discarded
             /\ worker' = [worker EXCEPT ![w].cache.st = "retired", ![w].at = "done"]
    <2>1. [worker[w] EXCEPT !.cache.st = "retired", !.at = "done"] =
          [worker[w] EXCEPT !.cache.st = "retired", !.at = "done", !.verdict = worker[w].verdict]
      BY <1>1 DEF Worker
    <2>2. worker' = [worker EXCEPT ![w].cache.st = "retired", ![w].at = "done", ![w].verdict = worker[w].verdict]
      BY <1>1, <1>5, <2>1
    <2>3. QED
      BY <1>1, <1>2, <1>5, <2>2, RetireSound
  <1>6. QED
    BY <1>3, <1>4, <1>5, Zenon DEF HandleGoneEndpoint

-----------------------------------------------------------------------------
(* What each step does to the rows.                                         *)

\* The write of an outcome touches the current row alone, and a deleted row not at all.
LEMMA WriteSound ==
    ASSUME WellFormed, NEW w \in Workers, WriteOutcome(w)
    PROVE  /\ worker' \in [Workers -> Worker] /\ Sound(worker'[w]) /\ To(w, "done")
           /\ row' \in [Deliveries -> Row] /\ Cur(w) \in Deliveries
           /\ \A x \in Deliveries \ {Cur(w)} : row'[x] = row[x]
           /\ row[Cur(w)].st = "deleted" => row' = row
           /\ \/ Fault
              \/ /\ faults' = faults
                 /\ worker[w].verdict = "delivered" =>
                      row[Cur(w)].st \in {"absent", "deleted"} \/ row'[Cur(w)].st = "delivered"
  <1>1. worker[w].at = "write" /\ TypeOK /\ row \in [Deliveries -> Row]
    BY DEF WriteOutcome, At, WellFormed, TypeOK
  <1>2. worker' \in [Workers -> Worker] /\ Sound(worker'[w]) /\ To(w, "done")
    <2>1. Goto(w, "done")
      BY DEF WriteOutcome
    <2>2. QED
      BY <1>1, <2>1, GotoSound
  <1>3. PICK d \in Deliveries : d = Cur(w)
    BY <1>1, WorkerParts DEF Cur
  <1>4. worker[w].tries[d] \in 0..MaxAttempts /\ MaxAttempts \in 0..MaxAttempts
    BY WorkerParts
  <1>5. /\ DeliveredRow(d) \in Row /\ RetryRow(d, worker[w].tries[d]) \in Row /\ FailedRow(d, MaxAttempts) \in Row
    BY <1>1, <1>4, RowsTyped
  <1>6. DeliveredRow(d).st = "delivered"
    BY <1>1 DEF DeliveredRow, Row
  <1>7. \/ Fault /\ row' = row
        \/ /\ faults' = faults
           /\ \/ worker[w].verdict = "delivered" /\ Put(d, DeliveredRow(d))
              \/ worker[w].verdict # "delivered" /\ Put(d, RetryRow(d, worker[w].tries[d]))
              \/ worker[w].verdict # "delivered" /\ Put(d, FailedRow(d, MaxAttempts))
    <2>1. \/ /\ UNCHANGED faults
             /\ CASE worker[w].verdict = "delivered" -> Put(d, DeliveredRow(d))
               [] worker[w].verdict = "retry" -> Put(d, RetryRow(d, worker[w].tries[d]))
               [] OTHER -> Put(d, FailedRow(d, MaxAttempts))
          \/ Fault /\ UNCHANGED row
      BY <1>3, Zenon DEF WriteOutcome
    <2>2. CASE worker[w].verdict = "delivered"
      BY <2>1, <2>2
    <2>3. CASE worker[w].verdict = "retry"
      BY <2>1, <2>3
    <2>4. CASE worker[w].verdict \notin {"delivered", "retry"}
      BY <2>1, <2>4
    <2>5. QED
      BY <2>2, <2>3, <2>4
  <1>8. ASSUME NEW r \in Row, Put(d, r)
        PROVE  /\ row' \in [Deliveries -> Row] /\ \A x \in Deliveries \ {d} : row'[x] = row[x]
               /\ row[d].st = "deleted" => row' = row
               /\ row[d].st \in {"absent", "deleted"} \/ row'[d].st = r.st
    BY <1>1, <1>8 DEF Put
  <1>9. QED
    BY <1>1, <1>2, <1>3, <1>5, <1>6, <1>7, <1>8

\* A release touches only a row whose claim is the worker's own.
LEMMA ReleaseSound ==
    ASSUME WellFormed, NEW w \in Workers, ReleaseClaim(w)
    PROVE  /\ row' \in [Deliveries -> Row] /\ Turn(w, Cur(w)) /\ (UNCHANGED faults \/ Fault)
           /\ \A x \in Deliveries : row'[x] = row[x] \/ (Owns(w, x) /\ x = Cur(w))
  <1>1. worker[w].at = "release" /\ row \in [Deliveries -> Row]
    BY DEF ReleaseClaim, At, WellFormed, TypeOK
  <1>2. PICK d \in Deliveries : d = Cur(w)
    BY <1>1, WorkerParts DEF Cur
  <1>3. row[d] \in Row
    BY <1>1
  <1>4. PICK r \in Row : r = [row[d] EXCEPT !.st = "pending", !.owner = None, !.stale = FALSE]
    BY <1>3 DEF Row
  <1>5. \/ row' = row
        \/ Owns(w, d) /\ Put(d, r)
    BY <1>2, <1>4, Zenon DEF ReleaseClaim
  <1>6. row' \in [Deliveries -> Row] /\ \A x \in Deliveries : row'[x] = row[x] \/ (Owns(w, x) /\ x = d)
    <2>1. r \in Row
      BY <1>4
    <2>2. QED
      BY <1>1, <1>5, <2>1 DEF Put
  <1>7. Turn(w, Cur(w)) /\ (UNCHANGED faults \/ Fault)
    BY Zenon DEF ReleaseClaim
  <1>8. QED
    BY <1>2, <1>6, <1>7

\* A renewal takes up a row whose claim is still in it, or turns to the next.
LEMMA RenewSound ==
    ASSUME WellFormed, NEW w \in Workers, RenewClaim(w)
    PROVE  /\ worker' \in [Workers -> Worker] /\ Sound(worker'[w]) /\ Alone(w) /\ row' \in [Deliveries -> Row]
           /\ \/ /\ worker'[w].at \in {"idle", "next"} /\ worker'[w].d = None /\ row' = row
                 /\ UNCHANGED faults \/ Fault
              \/ \E d \in Deliveries :
                   /\ Owns(w, d) /\ worker'[w].at = "lookup" /\ worker'[w].d = d /\ faults' = faults
                   /\ row' = [row EXCEPT ![d].stale = FALSE]
  <1>1. /\ worker[w].at = "next" /\ row \in [Deliveries -> Row] /\ worker \in [Workers -> Worker]
        /\ worker[w] \in Worker /\ worker[w].batch \subseteq Deliveries
    BY WorkerParts DEF RenewClaim, At, WellFormed, TypeOK
  <1>2. PICK d \in worker[w].batch :
          \/ /\ Owns(w, d) /\ row' = [row EXCEPT ![d].stale = FALSE] /\ UNCHANGED faults
             /\ worker' = [worker EXCEPT ![w].d = d, ![w].at = "lookup"]
          \/ (UNCHANGED faults \/ Fault) /\ Turn(w, d) /\ UNCHANGED row
    BY Zenon DEF RenewClaim, Renewed
  <1>3. d \in Deliveries /\ row[d] \in Row /\ d \in worker[w].batch
    BY <1>1, <1>2
  <1>4. CASE (UNCHANGED faults \/ Fault) /\ Turn(w, d) /\ UNCHANGED row
    BY <1>1, <1>4, TurnSound
  <1>5. CASE /\ Owns(w, d) /\ row' = [row EXCEPT ![d].stale = FALSE] /\ UNCHANGED faults
             /\ worker' = [worker EXCEPT ![w].d = d, ![w].at = "lookup"]
    <2>1. row' \in [Deliveries -> Row]
      BY <1>1, <1>3, <1>5 DEF Row
    <2>2. worker' \in [Workers -> Worker] /\ Alone(w)
      BY <1>1, <1>3, <1>5 DEF Worker, Alone
    <2>3. worker'[w].at = "lookup" /\ worker'[w].d = d /\ worker'[w].batch = worker[w].batch
      BY <1>1, <1>5 DEF Worker
    <2>4. Sound(worker'[w])
      BY <1>3, <2>3 DEF Sound
    <2>5. QED
      BY <1>3, <1>5, <2>1, <2>2, <2>3, <2>4
  <1>6. QED
    BY <1>2, <1>4, <1>5

\* A poll sweeps the rows whose lease is over and claims rows that are free.
LEMMA PollSound ==
    ASSUME WellFormed, NEW w \in Workers, NEW batch \in SUBSET Deliveries, Poll(w, batch)
    PROVE  /\ worker' \in [Workers -> Worker] /\ Sound(worker'[w]) /\ Alone(w) /\ row' \in [Deliveries -> Row]
           /\ worker'[w].at \in {"idle", "next"} /\ worker'[w].d = None /\ worker[w].at = "idle"
           /\ \A x \in Deliveries :
                \/ row'[x] = row[x]
                \/ row[x].st = "delivering" /\ row[x].stale
                \/ row[x].st \in {"pending", "failed"}
  <1>1. /\ worker[w].at = "idle" /\ row \in [Deliveries -> Row] /\ worker \in [Workers -> Worker]
        /\ worker[w] \in Worker /\ Sound(worker[w]) /\ TypeOK
    BY WorkerParts DEF Poll, At, WellFormed, TypeOK
  <1>2. Swept \in [Deliveries -> Row]
    <2>1. CASE Deliveries = {}
      BY <2>1 DEF Swept
    <2>2. CASE \E d \in Deliveries : 0 \in 0..MaxAttempts
      BY <1>1, <2>2, RowsTyped
    <2>3. QED
      BY <2>1, <2>2
  <1>3. ASSUME NEW x \in Deliveries
        PROVE  /\ row'[x] \in Row
               /\ \/ row'[x] = row[x]
                  \/ row[x].st = "delivering" /\ row[x].stale
                  \/ row[x].st \in {"pending", "failed"}
    <2>1. Swept[x] \in Row
      BY <1>2
    <2>2. [Swept[x] EXCEPT !.st = "delivering", !.owner = w] \in Row
      BY <2>1 DEF Row
    <2>3. row'[x] = IF x \in batch THEN [Swept[x] EXCEPT !.st = "delivering", !.owner = w] ELSE Swept[x]
      BY DEF Poll
    <2>4. row'[x] \in Row
      BY <2>1, <2>2, <2>3
    <2>5. Swept[x] = row[x] \/ (row[x].st = "delivering" /\ row[x].stale)
      BY DEF Swept
    <2>6. x \in batch => Swept[x].st \in {"pending", "failed"}
      BY Zenon DEF Poll, Claimable
    <2>7. QED
      BY <2>3, <2>4, <2>5, <2>6
  <1>4. row' \in [Deliveries -> Row]
    <2>1. row' = [d \in Deliveries |-> row'[d]]
      BY Zenon DEF Poll
    <2>2. QED
      BY <1>3, <2>1
  <1>5. CASE batch = {}
    <2>1. worker' = worker
      BY <1>5 DEF Poll
    <2>2. QED
      BY <1>1, <1>3, <1>4, <2>1 DEF Alone, Sound
  <1>6. CASE batch # {}
    <2>1. PICK t : t = [d \in Deliveries |-> IF d \in batch THEN row[d].tries ELSE 0]
      OBVIOUS
    <2>2. t \in [Deliveries -> 0..MaxAttempts]
      BY <1>1, <2>1 DEF Row
    <2>3. PICK r : r = [IdleWorker EXCEPT !.at = "next", !.batch = batch, !.tries = t]
      OBVIOUS
    <2>4. r \in Worker /\ r.at = "next" /\ r.d = None
      BY <2>2, <2>3 DEF IdleWorker, Worker
    <2>5. worker' = [worker EXCEPT ![w] = r]
      BY <1>6, <2>1, <2>3, Zenon DEF Poll
    <2>6. worker' \in [Workers -> Worker] /\ Alone(w) /\ worker'[w] = r
      BY <1>1, <2>4, <2>5 DEF Alone
    <2>7. QED
      BY <1>1, <1>3, <1>4, <2>4, <2>6 DEF Sound
  <1>7. QED
    BY <1>5, <1>6

\* A panic leaves the row for the release; a crash forgets the batch; a budget runs out.
LEMMA FailureSound ==
    ASSUME WellFormed, NEW w \in Workers, Panic(w) \/ Crash(w) \/ BudgetSpent(w)
    PROVE  /\ worker' \in [Workers -> Worker] /\ Sound(worker'[w]) /\ Alone(w)
           /\ \/ Panic(w) /\ worker'[w].at = "release"
              \/ Crash(w) /\ worker'[w].at = "idle"
              \/ /\ BudgetSpent(w)
                 /\ worker'[w].at = worker[w].at /\ worker'[w].d = worker[w].d /\ worker'[w].spent
                 /\ worker'[w].verdict = worker[w].verdict
  <1>1. /\ worker \in [Workers -> Worker] /\ worker[w] \in Worker /\ Sound(worker[w])
    BY WorkerParts
  <1>2. CASE Panic(w)
    <2>1. worker[w].at \notin {"idle", "next"} /\ Goto(w, "release")
      BY <1>2 DEF Panic, Writing
    <2>2. QED
      BY <1>2, <2>1, GotoSound DEF To
  <1>3. CASE Crash(w)
    <2>1. IdleWorker \in Worker /\ Sound(IdleWorker) /\ IdleWorker.at = "idle"
      BY DEF IdleWorker, Worker, Sound
    <2>2. worker' = [worker EXCEPT ![w] = IdleWorker]
      BY <1>3 DEF Crash
    <2>3. QED
      BY <1>1, <1>3, <2>1, <2>2 DEF Alone
  <1>4. CASE BudgetSpent(w)
    <2>1. worker' = [worker EXCEPT ![w].spent = TRUE]
      BY <1>4 DEF BudgetSpent
    <2>2. worker' \in [Workers -> Worker] /\ Alone(w)
      BY <1>1, <2>1 DEF Worker, Alone
    <2>3. /\ worker'[w].at = worker[w].at /\ worker'[w].d = worker[w].d /\ worker'[w].spent = TRUE
          /\ worker'[w].verdict = worker[w].verdict /\ worker'[w].batch = worker[w].batch
          /\ worker'[w].cache = worker[w].cache
      BY <1>1, <2>1 DEF Worker
    <2>4. QED
      BY <1>1, <1>4, <2>2, <2>3 DEF Sound
  <1>5. QED
    BY <1>2, <1>3, <1>4

\* The workers are well formed when one steps and the others stand still.
LEMMA OthersSound ==
    ASSUME WellFormed, NEW w \in Workers, Alone(w), Sound(worker'[w])
    PROVE  \A v \in Workers : Sound(worker'[v])
  BY DEF WellFormed, Alone

\* The clock, the faults, the stalls and the edits stay within their bounds.
LEMMA CountersTyped ==
    ASSUME TypeOK, [Next]_vars
    PROVE  /\ now' \in 0..MaxTime /\ faults' \in 0..MaxFaults /\ stalls' \in 0..MaxStalls
           /\ edits' \in 0..MaxEdits /\ faults' >= faults
  <1>1. /\ now \in 0..MaxTime /\ faults \in 0..MaxFaults /\ stalls \in 0..MaxStalls /\ edits \in 0..MaxEdits
        /\ MaxTime \in Nat /\ MaxFaults \in Nat /\ MaxStalls \in Nat /\ MaxEdits \in Nat
    BY DEF TypeOK
  <1>2. (now' = now \/ (now < MaxTime /\ now' = now + 1)) /\ (faults' = faults \/ Fault)
        /\ (stalls' = stalls \/ Stall) /\ (edits' = edits \/ Edit)
    <2>1. ASSUME NEW w \in Workers, Step(w)
          PROVE  now' = now /\ (faults' = faults \/ Fault) /\ stalls' = stalls /\ edits' = edits
      <3>1. CASE RenewClaim(w) \/ GetByID(w) \/ ProcessDelivery(w) \/ HandleResponse(w)
        BY <3>1, Zenon DEF RenewClaim, GetByID, ProcessDelivery, HandleResponse
      <3>2. CASE ResetFailures(w) \/ ExpireStaleFailureRun(w) \/ IncrementFailures(w) \/ DisableWithReason(w)
        BY <3>2, Zenon DEF ResetFailures, ExpireStaleFailureRun, IncrementFailures, DisableWithReason
      <3>3. CASE HandleGoneEndpoint(w) \/ WriteOutcome(w) \/ NextDelivery(w) \/ ReleaseClaim(w)
        BY <3>3, Zenon DEF HandleGoneEndpoint, WriteOutcome, NextDelivery, ReleaseClaim
      <3>4. QED
        BY <2>1, <3>1, <3>2, <3>3 DEF Step
    <2>2. ASSUME NEW w \in Workers, (\E batch \in SUBSET Deliveries : Poll(w, batch)) \/ Panic(w) \/ Crash(w) \/ BudgetSpent(w)
          PROVE  now' = now /\ (faults' = faults \/ Fault) /\ (stalls' = stalls \/ Stall) /\ edits' = edits
      BY <2>2, Zenon DEF Poll, Panic, Crash, BudgetSpent
    <2>3. ASSUME NEW d \in Deliveries, QueueDelivery(d) \/ LeaseRunsOut(d) \/ BecomesDue(d) \/ Cleanup(d)
          PROVE  now' = now /\ faults' = faults /\ (stalls' = stalls \/ Stall) /\ (edits' = edits \/ Edit)
      BY <2>3, Zenon DEF QueueDelivery, LeaseRunsOut, BecomesDue, Cleanup
    <2>4. ASSUME NEW on \in BOOLEAN, Toggle(on) \/ ReadEdit(on)
          PROVE  now' = now /\ faults' = faults /\ stalls' = stalls /\ Edit
      BY <2>4, Zenon DEF Toggle, ReadEdit
    <2>5. CASE SaveEdit \/ DeleteSubscription
      BY <2>5, Zenon DEF SaveEdit, DeleteSubscription
    <2>6. CASE Tick
      BY <2>6 DEF Tick
    <2>7. CASE UNCHANGED vars
      BY <2>7 DEF vars
    <2>8. QED
      BY <2>1, <2>2, <2>3, <2>4, <2>5, <2>6, <2>7 DEF Next
  <1>3. QED
    BY <1>1, <1>2 DEF Fault, Stall, Edit

\* Every step keeps rows, subscription and workers well formed.
LEMMA TypeStep == WellFormed /\ [Next]_vars => WellFormed'
  <1> SUFFICES ASSUME WellFormed, [Next]_vars PROVE WellFormed'
    OBVIOUS
  <1> DEFINE Typed == /\ row' \in [Deliveries -> Row] /\ sub' \in Sub /\ worker' \in [Workers -> Worker]
                      /\ edit' \in {"none", "on", "off"} /\ accepted' \in [Deliveries -> Nat]
                      /\ \A w \in Workers : Sound(worker'[w])
  <1>1. /\ TypeOK /\ row \in [Deliveries -> Row] /\ sub \in Sub /\ worker \in [Workers -> Worker]
        /\ edit \in {"none", "on", "off"} /\ accepted \in [Deliveries -> Nat]
        /\ \A w \in Workers : Sound(worker[w])
    BY DEF WellFormed, TypeOK
  <1>2. SUFFICES Typed
    BY <1>1, CountersTyped DEF WellFormed, TypeOK
  <1>3. Discarded \in [Deliveries -> Row]
    <2>1. CASE Deliveries = {}
      BY <2>1 DEF Discarded
    <2>2. CASE \E d \in Deliveries : 0 \in 0..MaxAttempts
      BY <1>1, <2>2, RowsTyped
    <2>3. QED
      BY <2>1, <2>2
  <1>4. ASSUME NEW w \in Workers, Step(w) PROVE Typed
    <2>1. CASE RenewClaim(w)
      <3>1. sub' = sub /\ edit' = edit /\ accepted' = accepted
        BY <2>1, Zenon DEF RenewClaim
      <3>2. QED
        BY <1>1, <2>1, <3>1, RenewSound, OthersSound
    <2>2. CASE GetByID(w)
      <3>1. row' = row /\ sub' = sub /\ edit' = edit /\ accepted' = accepted
        BY <2>2, Zenon DEF GetByID
      <3>2. QED
        BY <1>1, <2>2, <3>1, LookupSound, OthersSound DEF To
    <2>3. CASE ProcessDelivery(w)
      <3>1. row' = row /\ sub' = sub /\ edit' = edit /\ accepted' = accepted
        BY <2>3, Zenon DEF ProcessDelivery
      <3>2. QED
        BY <1>1, <2>3, <3>1, ProcessSound, OthersSound DEF To
    <2>4. CASE HandleResponse(w)
      <3>1. row' = row /\ sub' = sub /\ edit' = edit
        BY <2>4, Zenon DEF HandleResponse
      <3>2. accepted' = accepted \/ accepted' = [accepted EXCEPT ![Cur(w)] = @ + 1]
        BY <2>4, ResponseSound
      <3>3. accepted' \in [Deliveries -> Nat]
        BY <1>1, <3>2
      <3>4. QED
        BY <1>1, <2>4, <3>1, <3>3, ResponseSound, OthersSound DEF To
    <2>5. CASE ResetFailures(w)
      <3>1. row' = row /\ edit' = edit /\ accepted' = accepted
        BY <2>5, Zenon DEF ResetFailures
      <3>2. QED
        BY <1>1, <2>5, <3>1, ResetSound, OthersSound DEF To
    <2>6. CASE ExpireStaleFailureRun(w)
      <3>1. row' = row /\ edit' = edit /\ accepted' = accepted
        BY <2>6, Zenon DEF ExpireStaleFailureRun
      <3>2. QED
        BY <1>1, <2>6, <3>1, ExpireSound, OthersSound DEF To
    <2>7. CASE IncrementFailures(w)
      <3>1. row' = row /\ edit' = edit /\ accepted' = accepted
        BY <2>7, Zenon DEF IncrementFailures
      <3>2. QED
        BY <1>1, <2>7, <3>1, IncrementSound, OthersSound DEF To
    <2>8. CASE DisableWithReason(w)
      <3>1. row' = row /\ edit' = edit /\ accepted' = accepted
        BY <2>8, Zenon DEF DisableWithReason
      <3>2. QED
        BY <1>1, <2>8, <3>1, DisableSound, OthersSound DEF To
    <2>9. CASE HandleGoneEndpoint(w)
      <3>1. edit' = edit /\ accepted' = accepted
        BY <2>9, Zenon DEF HandleGoneEndpoint
      <3>2. QED
        BY <1>1, <1>3, <2>9, <3>1, GoneSound, OthersSound DEF To
    <2>10. CASE WriteOutcome(w)
      <3>1. sub' = sub /\ edit' = edit /\ accepted' = accepted
        BY <2>10, Zenon DEF WriteOutcome
      <3>2. QED
        BY <1>1, <2>10, <3>1, WriteSound, OthersSound DEF To
    <2>11. CASE NextDelivery(w)
      <3>1. row' = row /\ sub' = sub /\ edit' = edit /\ accepted' = accepted /\ Turn(w, Cur(w))
        BY <2>11, Zenon DEF NextDelivery
      <3>2. QED
        BY <1>1, <3>1, TurnSound, OthersSound
    <2>12. CASE ReleaseClaim(w)
      <3>1. sub' = sub /\ edit' = edit /\ accepted' = accepted
        BY <2>12, Zenon DEF ReleaseClaim
      <3>2. QED
        BY <1>1, <2>12, <3>1, ReleaseSound, TurnSound, OthersSound
    <2>13. QED
      BY <1>4, <2>1, <2>2, <2>3, <2>4, <2>5, <2>6, <2>7, <2>8, <2>9, <2>10, <2>11, <2>12, Zenon DEF Step
  <1>5. ASSUME NEW w \in Workers, NEW batch \in SUBSET Deliveries, Poll(w, batch) PROVE Typed
    <2>1. sub' = sub /\ edit' = edit /\ accepted' = accepted
      BY <1>5, Zenon DEF Poll
    <2>2. QED
      BY <1>1, <1>5, <2>1, PollSound, OthersSound
  <1>6. ASSUME NEW w \in Workers, Panic(w) \/ Crash(w) \/ BudgetSpent(w) PROVE Typed
    <2>1. row' = row /\ sub' = sub /\ edit' = edit /\ accepted' = accepted
      BY <1>6, Zenon DEF Panic, Crash, BudgetSpent
    <2>2. QED
      BY <1>1, <1>6, <2>1, FailureSound, OthersSound
  <1>7. ASSUME NEW d \in Deliveries, QueueDelivery(d) \/ LeaseRunsOut(d) \/ BecomesDue(d) \/ Cleanup(d) PROVE Typed
    <2>1. row[d] \in Row
      BY <1>1
    <2>2. row' \in [Deliveries -> Row]
      <3>1. CASE QueueDelivery(d)
        BY <1>1, <2>1, <3>1 DEF QueueDelivery, Row
      <3>2. CASE LeaseRunsOut(d)
        BY <1>1, <2>1, <3>2 DEF LeaseRunsOut, Row
      <3>3. CASE BecomesDue(d)
        BY <1>1, <2>1, <3>3 DEF BecomesDue, Row
      <3>4. CASE Cleanup(d)
        BY <1>1, <1>3, <3>4 DEF Cleanup
      <3>5. QED
        BY <1>7, <3>1, <3>2, <3>3, <3>4
    <2>3. sub' = sub /\ edit' = edit /\ accepted' = accepted /\ worker' = worker
      BY <1>7, Zenon DEF QueueDelivery, LeaseRunsOut, BecomesDue, Cleanup
    <2>4. QED
      BY <1>1, <2>2, <2>3
  <1>8. ASSUME NEW on \in BOOLEAN, Toggle(on) \/ ReadEdit(on) PROVE Typed
    <2>1. Updated(sub, on) \in Sub
      BY <1>1, SubsTyped
    <2>2. QED
      BY <1>1, <1>8, <2>1 DEF Toggle, ReadEdit
  <1>9. CASE SaveEdit
    <2>1. (edit = "on") \in BOOLEAN
      OBVIOUS
    <2>2. Updated(sub, edit = "on") \in Sub
      BY <1>1, <2>1, SubsTyped
    <2>3. QED
      BY <1>1, <1>9, <2>2 DEF SaveEdit
  <1>10. CASE DeleteSubscription
    <2>1. [sub EXCEPT !.st = "gone"] \in Sub
      BY <1>1, SubsTyped
    <2>2. QED
      BY <1>1, <1>3, <1>10, <2>1 DEF DeleteSubscription
  <1>11. CASE Tick \/ UNCHANGED vars
    BY <1>1, <1>11 DEF Tick, vars
  <1>12. QED
    BY <1>4, <1>5, <1>6, <1>7, <1>8, <1>9, <1>10, <1>11, Zenon DEF Next

\* Initially nothing is queued and every worker is idle.
LEMMA InitWellFormed == Init => WellFormed
  <1> SUFFICES ASSUME Init PROVE WellFormed
    OBVIOUS
  <1>1. 0 \in 0..MaxAttempts /\ 0 \in 0..Threshold /\ None \in Since
    BY DEF Since
  <1>2. [st |-> "absent", tries |-> 0, due |-> FALSE, owner |-> None, stale |-> FALSE] \in Row
    BY <1>1 DEF Row
  <1>3. IdleWorker \in Worker /\ Sound(IdleWorker)
    BY <1>1 DEF IdleWorker, Worker, Sound
  <1>4. sub \in Sub
    BY <1>1 DEF Init, Sub
  <1>5. QED
    BY <1>2, <1>3, <1>4 DEF Init, WellFormed, TypeOK

\* Rows, subscription and workers hold values of their types, for every bound.
THEOREM WebhookTypeCorrect == Spec => []TypeOK
  <1>1. WellFormed => TypeOK
    BY DEF WellFormed
  <1>2. QED
    BY <1>1, InitWellFormed, TypeStep, PTL DEF Spec

-----------------------------------------------------------------------------
(* Leases and hands.                                                        *)

\* A worker has a row in its hands from the renewal on until the outcome is written; one
\* whose budget is spent before the request only gives the row back.
InHand(w) ==
    \/ worker[w].at \in {"lookup", "posting"} \cup Writing
    \/ worker[w].at = "send" /\ ~worker[w].spent

\* What is in a worker's hands is claimed by it under a lease that has not run out, unless
\* the row has been deleted meanwhile.
HandsHoldLease ==
    \A w \in Workers : InHand(w) =>
      \/ row[worker[w].d].st = "deleted"
      \/ row[worker[w].d].st = "delivering" /\ row[worker[w].d].owner = w /\ ~row[worker[w].d].stale

\* No two workers have the same row in their hands: also not a row that is deleted.
HandsApart ==
    \A w, v \in Workers : InHand(w) /\ InHand(v) /\ worker[w].d = worker[v].d => w = v

Hands == HandsHoldLease /\ HandsApart

\* A row whose claim a step does not touch.
Kept(d) ==
    \/ row'[d].st = "deleted"
    \/ row'[d].st = row[d].st /\ row'[d].owner = row[d].owner /\ row'[d].stale = row[d].stale

\* A step that takes no row into anybody's hands, leaves alone what is in them, and only
\* ever deletes a row that is delivered or deleted.
Calm ==
    /\ \A v \in Workers : InHand(v)' => InHand(v) /\ worker'[v].d = worker[v].d /\ Kept(worker[v].d)
    /\ \A x \in Deliveries : row[x].st \in {"delivered", "deleted"} => row'[x].st \in {row[x].st, "deleted"}

\* A renewal takes a row into the hands of the worker that has claimed it.
Takes(w, d) ==
    /\ Owns(w, d) /\ Alone(w)
    /\ worker[w].at = "next" /\ worker'[w].at = "lookup" /\ worker'[w].d = d
    /\ row' = [row EXCEPT ![d].stale = FALSE]

\* A worker's step that leaves the rows alone is calm if it takes nothing up.
LEMMA CalmMove ==
    ASSUME WellFormed, NEW w \in Workers, Alone(w), row' = row,
           InHand(w)' => InHand(w) /\ worker'[w].d = worker[w].d
    PROVE  Calm
  <1>1. ASSUME NEW v \in Workers, InHand(v)' PROVE InHand(v) /\ worker'[v].d = worker[v].d
    <2>1. CASE v = w
      BY <1>1, <2>1
    <2>2. CASE v # w
      BY <1>1, <2>2 DEF Alone, InHand
    <2>3. QED
      BY <2>1, <2>2
  <1>2. QED
    BY <1>1 DEF Calm, Kept

\* Discarding deletes every row there is.
LEMMA DiscardedRows ==
    ASSUME WellFormed
    PROVE  \A x \in Deliveries : Discarded[x] = row[x] \/ Discarded[x].st = "deleted"
  <1> SUFFICES ASSUME NEW x \in Deliveries PROVE Discarded[x] = row[x] \/ Discarded[x].st = "deleted"
    OBVIOUS
  <1>1. row[x] \in Row
    BY DEF WellFormed, TypeOK
  <1>2. [row[x] EXCEPT !.st = "deleted", !.due = FALSE, !.owner = None, !.stale = FALSE].st = "deleted"
    BY <1>1 DEF Row
  <1>3. QED
    BY <1>2 DEF Discarded

\* Steps of workers are calm, except for the renewal that takes a row up.
LEMMA WorkersCalm ==
    ASSUME WellFormed, Hands, Prompt, NEW w \in Workers, Step(w)
    PROVE  Calm \/ \E d \in Deliveries : Takes(w, d)
  <1>1. CASE RenewClaim(w)
    <2>1. worker[w].at = "next" /\ Alone(w)
      BY <1>1, RenewSound DEF RenewClaim, At
    <2>2. CASE worker'[w].at \in {"idle", "next"} /\ row' = row
      BY <2>1, <2>2, CalmMove DEF InHand, Writing
    <2>3. ASSUME NEW d \in Deliveries, Owns(w, d), worker'[w].at = "lookup", worker'[w].d = d,
                 row' = [row EXCEPT ![d].stale = FALSE]
          PROVE  Takes(w, d)
      BY <2>1, <2>3 DEF Takes
    <2>4. QED
      BY <1>1, <2>2, <2>3, RenewSound
  <1>2. CASE GetByID(w)
    <2>1. worker[w].at = "lookup" /\ row' = row
      BY <1>2, Zenon DEF GetByID, At
    <2>2. Alone(w) /\ worker'[w].d = worker[w].d
      BY <1>2, LookupSound DEF To
    <2>3. QED
      BY <2>1, <2>2, CalmMove DEF InHand
  <1>3. CASE ProcessDelivery(w)
    <2>1. worker[w].at = "send" /\ row' = row /\ worker[w].spent \in BOOLEAN
      BY <1>3, WorkerParts, Zenon DEF ProcessDelivery, At
    <2>2. QED
      BY <1>3, <2>1, ProcessSound, CalmMove DEF InHand, To, Writing
  <1>4. CASE HandleResponse(w)
    <2>1. worker[w].at = "posting" /\ row' = row
      BY <1>4, Zenon DEF HandleResponse, At
    <2>2. Alone(w) /\ worker'[w].d = worker[w].d
      BY <1>4, ResponseSound DEF To
    <2>3. QED
      BY <2>1, <2>2, CalmMove DEF InHand
  <1>5. CASE ResetFailures(w) \/ ExpireStaleFailureRun(w) \/ IncrementFailures(w) \/ DisableWithReason(w)
    <2>1. worker[w].at \in Writing /\ row' = row
      BY <1>5, Zenon DEF ResetFailures, ExpireStaleFailureRun, IncrementFailures, DisableWithReason, At, Writing
    <2>2. Alone(w) /\ worker'[w].d = worker[w].d
      BY <1>5, ResetSound, ExpireSound, IncrementSound, DisableSound DEF To
    <2>3. QED
      BY <2>1, <2>2, CalmMove DEF InHand
  <1>6. CASE HandleGoneEndpoint(w)
    <2>1. worker[w].at = "gone"
      BY <1>6 DEF HandleGoneEndpoint, At
    <2>2. CASE To(w, "write") /\ row' = row
      BY <2>1, <2>2, CalmMove DEF InHand, To, Writing
    <2>3. CASE To(w, "done") /\ row' = Discarded
      <3>1. \A x \in Deliveries : row'[x] = row[x] \/ row'[x].st = "deleted"
        BY <2>3, DiscardedRows
      <3>2. ASSUME NEW v \in Workers, InHand(v)' PROVE InHand(v) /\ worker'[v].d = worker[v].d
        BY <2>3, <3>2 DEF InHand, To, Alone, Writing
      <3>3. \A v \in Workers : InHand(v) => worker[v].d \in Deliveries
        BY WorkerParts DEF InHand, Writing
      <3>4. QED
        BY <3>1, <3>2, <3>3 DEF Calm, Kept
    <2>4. QED
      BY <1>6, <2>2, <2>3, GoneSound
  <1>7. CASE WriteOutcome(w)
    <2>1. worker[w].at = "write" /\ InHand(w)
      BY <1>7 DEF WriteOutcome, At, InHand, Writing
    <2>2. /\ To(w, "done") /\ worker[w].d \in Deliveries
          /\ \A x \in Deliveries \ {worker[w].d} : row'[x] = row[x]
          /\ row[worker[w].d].st = "deleted" => row' = row
      BY <1>7, WriteSound DEF Cur
    <2>3. ASSUME NEW v \in Workers, InHand(v)'
          PROVE  InHand(v) /\ worker'[v].d = worker[v].d /\ Kept(worker[v].d)
      <3>1. v # w /\ worker'[v] = worker[v]
        BY <2>2, <2>3 DEF To, Alone, InHand, Writing
      <3>2. InHand(v) /\ worker[v].d \in Deliveries
        BY <2>3, <3>1, WorkerParts DEF InHand, Writing
      <3>3. worker[v].d # worker[w].d
        BY <2>1, <3>1, <3>2 DEF Hands, HandsApart
      <3>4. QED
        BY <2>2, <3>1, <3>2, <3>3 DEF Kept
    <2>4. row[worker[w].d].st \in {"deleted", "delivering"}
      BY <2>1 DEF Hands, HandsHoldLease
    <2>5. QED
      BY <2>2, <2>3, <2>4 DEF Calm
  <1>8. CASE NextDelivery(w)
    <2>1. Turn(w, Cur(w)) /\ row' = row
      BY <1>8 DEF NextDelivery
    <2>2. QED
      BY <2>1, TurnSound, CalmMove DEF InHand, Writing
  <1>9. CASE ReleaseClaim(w)
    <2>1. /\ worker[w].at = "release" /\ Turn(w, Cur(w))
          /\ \A x \in Deliveries : row'[x] = row[x] \/ (Owns(w, x) /\ x = Cur(w))
      BY <1>9, ReleaseSound DEF ReleaseClaim, At
    <2>2. Alone(w) /\ worker'[w].at \in {"idle", "next"}
      BY <2>1, TurnSound
    <2>3. ASSUME NEW v \in Workers, InHand(v)'
          PROVE  InHand(v) /\ worker'[v].d = worker[v].d /\ Kept(worker[v].d)
      <3>1. v # w /\ worker'[v] = worker[v]
        BY <2>2, <2>3 DEF Alone, InHand, Writing
      <3>2. InHand(v) /\ worker[v].d \in Deliveries
        BY <2>3, <3>1, WorkerParts DEF InHand, Writing
      <3>3. ~Owns(w, worker[v].d)
        BY <3>1, <3>2 DEF Hands, HandsHoldLease, Owns
      <3>4. QED
        BY <2>1, <3>1, <3>2, <3>3 DEF Kept
    <2>4. QED
      BY <2>1, <2>3 DEF Calm, Owns
  <1>10. QED
    BY <1>1, <1>2, <1>3, <1>4, <1>5, <1>6, <1>7, <1>8, <1>9, Zenon DEF Step

\* So is every other step, when outcomes are written before the lease runs out.
LEMMA StepsAreCalm ==
    ASSUME WellFormed, Hands, Prompt, [Next]_vars
    PROVE  Calm \/ \E w \in Workers, d \in Deliveries : Takes(w, d)
  <1>1. \A v \in Workers : InHand(v) => worker[v].d \in Deliveries
    BY WorkerParts DEF InHand, Writing
  <1>2. ASSUME NEW w \in Workers, NEW batch \in SUBSET Deliveries, Poll(w, batch) PROVE Calm
    <2>1. /\ Alone(w) /\ worker'[w].at \in {"idle", "next"}
          /\ \A x \in Deliveries :
                \/ row'[x] = row[x]
                \/ row[x].st = "delivering" /\ row[x].stale
                \/ row[x].st \in {"pending", "failed"}
      BY <1>2, PollSound
    <2>2. ASSUME NEW v \in Workers, InHand(v)'
          PROVE  InHand(v) /\ worker'[v].d = worker[v].d /\ Kept(worker[v].d)
      <3>1. v # w /\ worker'[v] = worker[v]
        BY <2>1, <2>2 DEF Alone, InHand, Writing
      <3>2. InHand(v) /\ worker[v].d \in Deliveries
        BY <1>1, <2>2, <3>1 DEF InHand
      <3>3. row'[worker[v].d] = row[worker[v].d]
        BY <2>1, <3>2 DEF Hands, HandsHoldLease
      <3>4. QED
        BY <3>1, <3>2, <3>3 DEF Kept
    <2>3. QED
      BY <2>1, <2>2 DEF Calm
  <1>3. ASSUME NEW w \in Workers, Panic(w) \/ Crash(w) \/ BudgetSpent(w) PROVE Calm
    <2>1. row' = row
      BY <1>3, Zenon DEF Panic, Crash, BudgetSpent
    <2>2. Alone(w) /\ (InHand(w)' => InHand(w) /\ worker'[w].d = worker[w].d)
      BY <1>3, FailureSound DEF InHand, Writing
    <2>3. QED
      BY <2>1, <2>2, CalmMove
  <1>4. ASSUME NEW d \in Deliveries, LeaseRunsOut(d) PROVE Calm
    <2>1. /\ row[d].st = "delivering" /\ worker' = worker /\ row' = [row EXCEPT ![d].stale = TRUE]
          /\ Current(d) => MayOutlive(row[d].owner)
      BY <1>4, Zenon DEF LeaseRunsOut
    <2>2. row' \in [Deliveries -> Row] /\ row \in [Deliveries -> Row] /\ row[d] \in Row
      BY TypeStep DEF WellFormed, TypeOK
    <2>3. row'[d].st = "delivering" /\ \A x \in Deliveries \ {d} : row'[x] = row[x]
      BY <2>1, <2>2 DEF Row
    <2>4. ASSUME NEW v \in Workers, InHand(v)'
          PROVE  InHand(v) /\ worker'[v].d = worker[v].d /\ Kept(worker[v].d)
      <3>1. InHand(v) /\ worker[v].d \in Deliveries /\ worker'[v] = worker[v]
        BY <1>1, <2>1, <2>4 DEF InHand
      <3>2. worker[v].d # d
        <4> SUFFICES ASSUME worker[v].d = d PROVE FALSE
          OBVIOUS
        <4>1. row[d].owner = v
          BY <2>1, <3>1 DEF Hands, HandsHoldLease
        <4>2. MayOutlive(v)
          BY <2>1, <4>1 DEF Current, Owns, Cur
        <4>3. worker[v].spent /\ worker[v].at \in {"send", "release", "done"}
          BY <4>2 DEF MayOutlive
        <4>4. QED
          BY <3>1, <4>3 DEF InHand, Writing
      <3>3. QED
        BY <2>3, <3>1, <3>2 DEF Kept
    <2>5. QED
      BY <2>1, <2>3, <2>4 DEF Calm
  <1>5. ASSUME NEW d \in Deliveries, QueueDelivery(d) \/ BecomesDue(d) PROVE Calm
    <2>1. worker' = worker /\ row[d].st \in {"absent", "failed"} /\ \A x \in Deliveries \ {d} : row'[x] = row[x]
      BY <1>5 DEF QueueDelivery, BecomesDue, WellFormed, TypeOK
    <2>2. ASSUME NEW v \in Workers, InHand(v)'
          PROVE  InHand(v) /\ worker'[v].d = worker[v].d /\ Kept(worker[v].d)
      <3>1. InHand(v) /\ worker[v].d \in Deliveries /\ worker'[v] = worker[v]
        BY <1>1, <2>1, <2>2 DEF InHand
      <3>2. worker[v].d # d
        BY <2>1, <3>1 DEF Hands, HandsHoldLease
      <3>3. QED
        BY <2>1, <3>1, <3>2 DEF Kept
    <2>3. QED
      BY <2>1, <2>2 DEF Calm
  <1>6. ASSUME worker' = worker, \A x \in Deliveries : row'[x] = row[x] \/ row'[x].st = "deleted" PROVE Calm
    BY <1>1, <1>6 DEF Calm, Kept, InHand
  <1>7. ASSUME NEW d \in Deliveries, Cleanup(d) PROVE Calm
    <2>1. worker' = worker /\ row' = [row EXCEPT ![d] = Discarded[d]]
      BY <1>7 DEF Cleanup
    <2>2. \A x \in Deliveries : row'[x] = row[x] \/ row'[x].st = "deleted"
      BY <2>1, DiscardedRows DEF WellFormed, TypeOK
    <2>3. QED
      BY <1>6, <2>1, <2>2
  <1>8. CASE DeleteSubscription
    <2>1. worker' = worker /\ row' = Discarded
      BY <1>8 DEF DeleteSubscription
    <2>2. QED
      BY <1>6, <2>1, DiscardedRows
  <1>9. CASE (\E on \in BOOLEAN : Toggle(on) \/ ReadEdit(on)) \/ SaveEdit \/ Tick \/ UNCHANGED vars
    <2>1. worker' = worker /\ row' = row
      BY <1>9, Zenon DEF Toggle, ReadEdit, SaveEdit, Tick, vars
    <2>2. QED
      BY <1>6, <2>1
  <1>10. QED
    BY <1>2, <1>3, <1>4, <1>5, <1>7, <1>8, <1>9, WorkersCalm, Zenon DEF Next

\* No step lets go of a lease that is in somebody's hands, or gives a row to two.
LEMMA HandsStep == WellFormed /\ Hands /\ Prompt /\ [Next]_vars => Hands'
  <1> SUFFICES ASSUME WellFormed, Hands, Prompt, [Next]_vars PROVE Hands'
    OBVIOUS
  <1>1. \A v \in Workers : InHand(v) => worker[v].d \in Deliveries
    BY WorkerParts DEF InHand, Writing
  <1>2. CASE Calm
    <2>1. HandsHoldLease'
      BY <1>2 DEF Calm, Kept, Hands, HandsHoldLease
    <2>2. HandsApart'
      BY <1>2 DEF Calm, Hands, HandsApart
    <2>3. QED
      BY <2>1, <2>2 DEF Hands
  <1>3. ASSUME NEW w \in Workers, NEW d \in Deliveries, Takes(w, d) PROVE Hands'
    <2>1. /\ row \in [Deliveries -> Row] /\ row' \in [Deliveries -> Row] /\ row[d] \in Row
      BY TypeStep DEF WellFormed, TypeOK
    <2>2. /\ row'[d].st = "delivering" /\ row'[d].owner = w /\ ~row'[d].stale
          /\ \A x \in Deliveries \ {d} : row'[x] = row[x]
      BY <1>3, <2>1 DEF Takes, Owns, Row
    <2>3. ASSUME NEW v \in Workers \ {w}, InHand(v)'
          PROVE  InHand(v) /\ worker'[v].d = worker[v].d /\ worker[v].d \in Deliveries \ {d}
      <3>1. InHand(v) /\ worker'[v].d = worker[v].d /\ worker[v].d \in Deliveries
        BY <1>1, <1>3, <2>3 DEF Takes, Alone, InHand
      <3>2. worker[v].d # d
        BY <1>3, <3>1 DEF Takes, Owns, Hands, HandsHoldLease
      <3>3. QED
        BY <3>1, <3>2
    <2>4. HandsHoldLease'
      BY <1>3, <2>2, <2>3 DEF Takes, Hands, HandsHoldLease
    <2>5. HandsApart'
      BY <1>3, <2>3 DEF Takes, Hands, HandsApart
    <2>6. QED
      BY <2>4, <2>5 DEF Hands
  <1>4. QED
    BY <1>2, <1>3, StepsAreCalm

\* At the start nothing is in anybody's hands.
LEMMA InitHands == Init => Hands
  BY DEF Init, Hands, HandsHoldLease, HandsApart, InHand, IdleWorker, Writing

\* Two workers never have a request open for the same delivery, provided outcomes are written
\* before the lease runs out (RenewClaim, the budget of processDelivery).
THEOREM RequestsNeverOverlap ==
    ASSUME Prompt PROVE Spec => []NoOverlap
  <1>1. Hands => NoOverlap
    BY DEF Hands, HandsApart, InHand, NoOverlap, At, Cur
  <1>2. WellFormed /\ Hands /\ [Next]_vars => Hands'
    BY HandsStep
  <1>3. QED
    BY <1>1, <1>2, InitHands, InitWellFormed, TypeStep, PTL DEF Spec

\* A delivered row stays delivered until it is deleted: no late release, panic or second
\* verdict puts it back into the queue.
THEOREM DeliveredIsFinal ==
    ASSUME Prompt PROVE Spec => DeliveredStays
  <1>1. ASSUME WellFormed, Hands, [Next]_vars
        PROVE  [\A d \in Deliveries : row[d].st = "delivered" => row'[d].st \in {"delivered", "deleted"}]_vars
    <2>1. CASE Calm
      BY <2>1 DEF Calm
    <2>2. ASSUME NEW w \in Workers, NEW x \in Deliveries, Takes(w, x)
          PROVE  \A d \in Deliveries : row[d].st = "delivered" => row'[d].st \in {"delivered", "deleted"}
      BY <2>2 DEF Takes, Owns, WellFormed, TypeOK
    <2>3. QED
      BY <1>1, <2>1, <2>2, StepsAreCalm
  <1>2. WellFormed /\ Hands /\ [Next]_vars => Hands'
    BY HandsStep
  <1>3. QED
    BY <1>1, <1>2, InitHands, InitWellFormed, TypeStep, PTL DEF Spec, DeliveredStays

-----------------------------------------------------------------------------
(* Duplicates.                                                              *)

\* A worker that may still open a request, or has one open.
CanSend(w) ==
    \/ worker[w].at \in {"lookup", "posting"}
    \/ worker[w].at = "send" /\ ~worker[w].spent

\* A worker that knows of the acceptance and has it to write.
Answered(w) ==
    \/ worker[w].at = "reset"
    \/ worker[w].at = "write" /\ worker[w].verdict = "delivered"

\* The acceptance of a delivery is recorded or about to be, and nobody is about to send it.
Concluded(d) ==
    /\ \/ row[d].st \in {"delivered", "deleted"}
       \/ \E w \in Workers : worker[w].d = d /\ Answered(w)
    /\ \A w \in Workers : worker[w].d = d => ~CanSend(w)

\* The one acceptance that no fault accounts for belongs to a delivery that is concluded.
AcceptedOnce ==
    \A d \in Deliveries :
      \/ accepted[d] <= faults
      \/ accepted[d] <= faults + 1 /\ Concluded(d)

\* A step that nobody's answer is lost in, and that starts no request.
Tidy ==
    /\ accepted' = accepted
    /\ \/ faults' = faults + 1
       \/ /\ faults' = faults
          /\ \A w \in Workers : Answered(w) =>
               \/ Answered(w)' /\ worker'[w].d = worker[w].d
               \/ row'[worker[w].d].st \in {"delivered", "deleted"}
          /\ \A w \in Workers : CanSend(w)' =>
               \/ CanSend(w) /\ worker'[w].d = worker[w].d
               \/ \E d \in Deliveries : Takes(w, d)

\* A tidy step of a worker concerns that worker.
LEMMA TidyMove ==
    ASSUME WellFormed, NEW w \in Workers, Alone(w), accepted' = accepted,
           \/ Fault
           \/ /\ faults' = faults
              /\ \/ ~Answered(w)
                 \/ Answered(w)' /\ worker'[w].d = worker[w].d
                 \/ row'[worker[w].d].st \in {"delivered", "deleted"}
              /\ ~CanSend(w)' \/ (CanSend(w) /\ worker'[w].d = worker[w].d) \/ \E d \in Deliveries : Takes(w, d)
    PROVE  Tidy
  <1>1. \A v \in Workers \ {w} : (Answered(v)' <=> Answered(v)) /\ (CanSend(v)' <=> CanSend(v)) /\ worker'[v].d = worker[v].d
    BY DEF Alone, Answered, CanSend
  <1>2. CASE Fault
    BY <1>2 DEF Fault, Tidy
  <1>3. CASE ~Fault
    BY <1>1, <1>3 DEF Tidy
  <1>4. QED
    BY <1>2, <1>3

\* Steps of workers are tidy, except for the answer that accepts.
LEMMA WorkersTidy ==
    ASSUME WellFormed, Hands, Prompt, NEW w \in Workers, Step(w), ~HandleResponse(w)
    PROVE  Tidy
  <1>1. CASE RenewClaim(w)
    <2>1. /\ worker[w].at = "next" /\ accepted' = accepted /\ Alone(w)
      BY <1>1, RenewSound, Zenon DEF RenewClaim, At
    <2>2. /\ ~Answered(w)
          /\ \/ Fault /\ worker'[w].at \in {"idle", "next"}
             \/ faults' = faults /\ worker'[w].at \in {"idle", "next"}
             \/ faults' = faults /\ \E d \in Deliveries : Takes(w, d)
      BY <1>1, <2>1, RenewSound DEF Answered, Takes
    <2>3. QED
      BY <2>1, <2>2, TidyMove DEF CanSend
  <1>2. CASE GetByID(w)
    <2>1. worker[w].at = "lookup" /\ accepted' = accepted /\ (faults' = faults \/ Fault)
      BY <1>2, Zenon DEF GetByID, At
    <2>2. Alone(w) /\ worker'[w].d = worker[w].d /\ ~Answered(w) /\ CanSend(w)
      BY <1>2, <2>1, LookupSound DEF To, Answered, CanSend
    <2>3. QED
      BY <2>1, <2>2, TidyMove
  <1>3. CASE ProcessDelivery(w)
    <2>1. worker[w].at = "send" /\ accepted' = accepted /\ faults' = faults /\ worker[w].spent \in BOOLEAN
      BY <1>3, WorkerParts, Zenon DEF ProcessDelivery, At
    <2>2. /\ Alone(w) /\ worker'[w].d = worker[w].d /\ ~Answered(w)
          /\ CanSend(w)' => CanSend(w)
      BY <1>3, <2>1, ProcessSound DEF To, Answered, CanSend
    <2>3. QED
      BY <2>1, <2>2, TidyMove
  <1>4. CASE ResetFailures(w)
    <2>1. worker[w].at = "reset" /\ accepted' = accepted
      BY <1>4, Zenon DEF ResetFailures, At
    <2>2. /\ Alone(w) /\ worker'[w].d = worker[w].d /\ Answered(w)' /\ ~CanSend(w)' /\ (faults' = faults \/ Fault)
      BY <1>4, <2>1, ResetSound DEF To, Answered, CanSend
    <2>3. QED
      BY <2>1, <2>2, TidyMove
  <1>5. CASE ExpireStaleFailureRun(w) \/ IncrementFailures(w) \/ DisableWithReason(w) \/ HandleGoneEndpoint(w)
    <2>1. worker[w].at \in {"expire", "count", "disable", "gone"} /\ accepted' = accepted
      BY <1>5, Zenon DEF ExpireStaleFailureRun, IncrementFailures, DisableWithReason, HandleGoneEndpoint, At
    <2>2. /\ Alone(w) /\ worker'[w].d = worker[w].d /\ worker'[w].at \in {"count", "disable", "write", "done"}
          /\ faults' = faults \/ Fault
      BY <1>5, ExpireSound, IncrementSound, DisableSound, GoneSound DEF To
    <2>3. ~Answered(w) /\ ~CanSend(w)'
      BY <2>1, <2>2 DEF Answered, CanSend
    <2>4. QED
      BY <2>1, <2>2, <2>3, TidyMove
  <1>6. CASE WriteOutcome(w)
    <2>1. worker[w].at = "write" /\ accepted' = accepted /\ InHand(w)
      BY <1>6, Zenon DEF WriteOutcome, At, InHand, Writing
    <2>2. /\ To(w, "done")
          /\ row[worker[w].d].st = "deleted" => row' = row
          /\ \/ Fault
             \/ /\ faults' = faults
                /\ worker[w].verdict = "delivered" =>
                     row[worker[w].d].st \in {"absent", "deleted"} \/ row'[worker[w].d].st = "delivered"
      BY <1>6, WriteSound DEF Cur
    <2>3. row[worker[w].d].st \in {"deleted", "delivering"}
      BY <2>1 DEF Hands, HandsHoldLease
    <2>4. Answered(w) => worker[w].verdict = "delivered"
      BY <2>1 DEF Answered
    <2>5. Alone(w) /\ ~CanSend(w)'
      BY <2>2 DEF To, CanSend
    <2>6. QED
      BY <2>1, <2>2, <2>3, <2>4, <2>5, TidyMove
  <1>7. CASE NextDelivery(w) \/ ReleaseClaim(w)
    <2>1. worker[w].at \in {"done", "release"} /\ accepted' = accepted /\ Turn(w, Cur(w)) /\ (faults' = faults \/ Fault)
      BY <1>7, Zenon DEF NextDelivery, ReleaseClaim, At
    <2>2. Alone(w) /\ ~CanSend(w)' /\ ~Answered(w)
      BY <2>1, TurnSound DEF CanSend, Answered
    <2>3. QED
      BY <2>1, <2>2, TidyMove
  <1>8. QED
    BY <1>1, <1>2, <1>3, <1>4, <1>5, <1>6, <1>7, Zenon DEF Step

\* So is every other step.
LEMMA StepsAreTidy ==
    ASSUME WellFormed, Hands, Prompt, [Next]_vars, \A w \in Workers : ~HandleResponse(w)
    PROVE  Tidy
  <1>1. ASSUME NEW w \in Workers, NEW batch \in SUBSET Deliveries, Poll(w, batch) PROVE Tidy
    <2>1. accepted' = accepted /\ faults' = faults
      BY <1>1, Zenon DEF Poll
    <2>2. Alone(w) /\ ~Answered(w) /\ ~CanSend(w)'
      BY <1>1, PollSound DEF Answered, CanSend
    <2>3. QED
      BY <2>1, <2>2, TidyMove
  <1>2. ASSUME NEW w \in Workers, Panic(w) \/ Crash(w) PROVE Tidy
    BY <1>2 DEF Panic, Crash, Fault, Tidy
  <1>3. ASSUME NEW w \in Workers, BudgetSpent(w) PROVE Tidy
    <2>1. accepted' = accepted /\ faults' = faults /\ worker[w].at \in {"lookup", "send", "posting"}
      BY <1>3, Zenon DEF BudgetSpent
    <2>2. \/ Panic(w) \/ Crash(w)
          \/ /\ Alone(w) /\ worker'[w].at = worker[w].at /\ worker'[w].d = worker[w].d /\ worker'[w].spent
      BY <1>3, FailureSound
    <2>3. CASE /\ Alone(w) /\ worker'[w].at = worker[w].at /\ worker'[w].d = worker[w].d /\ worker'[w].spent
      <3>1. ~Answered(w) /\ (CanSend(w)' => CanSend(w))
        BY <2>1, <2>3 DEF Answered, CanSend
      <3>2. QED
        BY <2>1, <2>3, <3>1, TidyMove
    <2>4. QED
      BY <1>2, <2>2, <2>3
  <1>4. CASE worker' = worker /\ accepted' = accepted /\ faults' = faults
    BY <1>4 DEF Tidy, Answered, CanSend
  <1>5. ASSUME NEW d \in Deliveries, QueueDelivery(d) \/ LeaseRunsOut(d) \/ BecomesDue(d) \/ Cleanup(d) PROVE Tidy
    BY <1>4, <1>5, Zenon DEF QueueDelivery, LeaseRunsOut, BecomesDue, Cleanup
  <1>6. CASE (\E on \in BOOLEAN : Toggle(on) \/ ReadEdit(on)) \/ SaveEdit \/ DeleteSubscription \/ Tick \/ UNCHANGED vars
    BY <1>4, <1>6, Zenon DEF Toggle, ReadEdit, SaveEdit, DeleteSubscription, Tick, vars
  <1>7. QED
    BY <1>1, <1>2, <1>3, <1>5, <1>6, WorkersTidy, Zenon DEF Next

\* No step leaves an acceptance unaccounted for.
LEMMA AcceptedStep == WellFormed /\ Hands /\ AcceptedOnce /\ Prompt /\ [Next]_vars => AcceptedOnce'
  <1> SUFFICES ASSUME WellFormed, Hands, AcceptedOnce, Prompt, [Next]_vars,
                      NEW d \in Deliveries
               PROVE  (accepted'[d] <= faults' \/ (accepted'[d] <= faults' + 1 /\ Concluded(d)'))
    BY DEF AcceptedOnce
  <1>1. accepted[d] \in Nat /\ accepted'[d] \in Nat /\ faults \in Nat /\ faults' \in Nat
    BY TypeStep DEF WellFormed, TypeOK
  <1>2. \A v \in Workers : (CanSend(v) => InHand(v)) /\ (Answered(v) => InHand(v))
    BY DEF CanSend, Answered, InHand, Writing
  <1>3. accepted[d] <= faults \/ (accepted[d] <= faults + 1 /\ Concluded(d))
    BY DEF AcceptedOnce
  <1>4. CASE Tidy
    <2>1. CASE faults' = faults + 1
      BY <1>1, <1>3, <1>4, <2>1 DEF Tidy
    <2>2. CASE faults' # faults + 1 /\ Concluded(d)
      <3>1. row[d].st \in {"delivered", "deleted"} => row'[d].st \in {"delivered", "deleted"}
        <4>1. CASE Calm
          BY <4>1 DEF Calm
        <4>2. ASSUME NEW w \in Workers, NEW x \in Deliveries, Takes(w, x)
              PROVE  row[d].st \in {"delivered", "deleted"} => row'[d].st \in {"delivered", "deleted"}
          BY <4>2 DEF Takes, Owns, WellFormed, TypeOK
        <4>3. QED
          BY <4>1, <4>2, StepsAreCalm
      <3>2. \/ row'[d].st \in {"delivered", "deleted"}
            \/ \E w \in Workers : worker'[w].d = d /\ Answered(w)'
        BY <1>4, <2>2, <3>1 DEF Tidy, Concluded
      <3>3. ASSUME NEW w \in Workers, worker'[w].d = d, CanSend(w)' PROVE FALSE
        <4>1. CASE CanSend(w) /\ worker'[w].d = worker[w].d
          BY <2>2, <3>3, <4>1 DEF Concluded
        <4>2. ASSUME NEW x \in Deliveries, Takes(w, x) PROVE FALSE
          <5>1. x = d /\ row[d].st = "delivering" /\ row[d].owner = w /\ worker[w].at = "next"
            BY <3>3, <4>2 DEF Takes, Owns
          <5>2. PICK v \in Workers : worker[v].d = d /\ Answered(v)
            BY <2>2, <5>1 DEF Concluded
          <5>3. v = w
            BY <1>2, <5>1, <5>2 DEF Hands, HandsHoldLease
          <5>4. QED
            BY <5>1, <5>2, <5>3 DEF Answered
        <4>3. QED
          BY <1>4, <2>2, <3>3, <4>1, <4>2 DEF Tidy
      <3>4. Concluded(d)'
        BY <3>2, <3>3 DEF Concluded
      <3>5. QED
        BY <1>3, <1>4, <2>2, <3>4 DEF Tidy
    <2>3. CASE faults' # faults + 1 /\ ~Concluded(d)
      BY <1>3, <1>4, <2>3 DEF Tidy
    <2>4. QED
      BY <2>1, <2>2, <2>3
  <1>5. ASSUME NEW w \in Workers, HandleResponse(w)
        PROVE  accepted'[d] <= faults' \/ (accepted'[d] <= faults' + 1 /\ Concluded(d)')
    <2>1. worker[w].at = "posting" /\ row' = row /\ worker[w].d \in Deliveries
      BY <1>5, WorkerParts, Zenon DEF HandleResponse, At
    <2>2. CanSend(w) /\ InHand(w)
      BY <1>2, <2>1 DEF CanSend
    <2>3. CASE /\ To(w, "reset") /\ faults' = faults
               /\ accepted' = [accepted EXCEPT ![Cur(w)] = @ + 1]
      <3>1. CASE worker[w].d = d
        <4>1. accepted[d] <= faults
          BY <1>3, <2>2, <3>1 DEF Concluded
        <4>2. accepted'[d] = accepted[d] + 1
          BY <2>3, <3>1 DEF Cur, WellFormed, TypeOK
        <4>3. Answered(w)' /\ worker'[w].d = d
          BY <2>3, <3>1 DEF To, Answered
        <4>4. ASSUME NEW v \in Workers, worker'[v].d = d, CanSend(v)' PROVE FALSE
          <5>1. v # w
            BY <2>3, <4>4 DEF To, CanSend
          <5>2. CanSend(v) /\ worker[v].d = d
            BY <2>3, <4>4, <5>1 DEF To, Alone, CanSend
          <5>3. QED
            BY <1>2, <2>2, <3>1, <5>1, <5>2 DEF Hands, HandsApart
        <4>5. Concluded(d)'
          BY <4>3, <4>4 DEF Concluded
        <4>6. QED
          BY <1>1, <2>3, <4>1, <4>2, <4>5
      <3>2. CASE worker[w].d # d
        <4>1. accepted'[d] = accepted[d]
          BY <2>3, <3>2 DEF Cur, WellFormed, TypeOK
        <4>2. ~Answered(w) /\ ~CanSend(w)'
          BY <2>1, <2>3 DEF To, Answered, CanSend
        <4>3. Concluded(d) => Concluded(d)'
          BY <2>1, <2>3, <4>2 DEF Concluded, To, Alone, Answered, CanSend
        <4>4. QED
          BY <1>3, <2>3, <4>1, <4>3
      <3>3. QED
        BY <3>1, <3>2
    <2>4. CASE /\ To(w, "gone") \/ (To(w, "write") /\ worker'[w].verdict = "retry") \/ To(w, "expire")
               /\ faults' = faults /\ accepted' = accepted
      <3>1. ~Answered(w) /\ ~CanSend(w)' /\ Alone(w) /\ worker'[w].d = worker[w].d
        BY <2>1, <2>4 DEF To, Answered, CanSend
      <3>2. Tidy
        BY <2>4, <3>1, TidyMove
      <3>3. QED
        BY <1>4, <3>2
    <2>5. CASE /\ To(w, "expire") /\ Fault
               /\ accepted' = [accepted EXCEPT ![Cur(w)] = @ + 1]
      <3>1. CASE worker[w].d = d
        <4>1. accepted[d] <= faults
          BY <1>3, <2>2, <3>1 DEF Concluded
        <4>2. accepted'[d] = accepted[d] + 1 /\ faults' = faults + 1
          BY <2>5, <3>1 DEF Cur, Fault, WellFormed, TypeOK
        <4>3. QED
          BY <1>1, <4>1, <4>2
      <3>2. CASE worker[w].d # d
        <4>1. accepted'[d] = accepted[d] /\ faults' = faults + 1
          BY <2>5, <3>2 DEF Cur, Fault, WellFormed, TypeOK
        <4>2. QED
          BY <1>1, <1>3, <4>1
      <3>3. QED
        BY <3>1, <3>2
    <2>6. QED
      BY <1>5, <2>3, <2>4, <2>5, ResponseSound
  <1>6. QED
    BY <1>4, <1>5, StepsAreTidy

\* Nothing is accepted at the start.
LEMMA InitAccepted == Init => AcceptedOnce
  BY DEF Init, AcceptedOnce

\* A delivery is accepted again only if something failed: once for every fault, however slow
\* the workers are, however leases end and whatever people edit meanwhile.
THEOREM DuplicatesAreFaults ==
    ASSUME Prompt PROVE Spec => []DuplicatesNeedFaults
  <1>1. WellFormed /\ AcceptedOnce => DuplicatesNeedFaults
    <2> SUFFICES ASSUME WellFormed, AcceptedOnce, NEW d \in Deliveries PROVE accepted[d] <= 1 + faults
      BY DEF DuplicatesNeedFaults
    <2>1. accepted[d] \in Nat /\ faults \in Nat
      BY DEF WellFormed, TypeOK
    <2>2. QED
      BY <2>1 DEF AcceptedOnce
  <1>2. WellFormed /\ Hands /\ [Next]_vars => Hands'
    BY HandsStep
  <1>3. WellFormed /\ Hands /\ AcceptedOnce /\ [Next]_vars => AcceptedOnce'
    BY AcceptedStep
  <1>4. QED
    BY <1>1, <1>2, <1>3, InitHands, InitWellFormed, InitAccepted, TypeStep, PTL DEF Spec
=============================================================================
