---------------------------- MODULE BroadcastProofs ----------------------------
(* Machine-checked facts about Broadcast, for an audience of any size, any      *)
(* sample and batch size and any number of retries, requests and faults.        *)
EXTENDS Broadcast, FiniteSetTheorems, TLAPS

USE BroadcastAssumption

-----------------------------------------------------------------------------
(* Values.                                                                   *)

\* The empty rows are rows.
LEMMA EmptyRows ==
    /\ Draft \in Row /\ ~Draft.completed /\ Draft.st = "draft"
    /\ NoTask \in Task /\ NoTask.off = 0 /\ NoTask.total = 0 /\ NoTask.phase = "none"
    /\ NoRun \in Run /\ NoRun.at = "idle" /\ NoRun.bc = Draft /\ NoRun.off = 0 /\ NoRun.total = 0
    /\ NoRun.templates = {} /\ NoRun.phase = "none"
  BY DEF Draft, Row, NoTask, Task, NoRun, Run, Point, Phase, Variation

\* The test sample is not empty and not larger than the audience.
LEMMA SampleBounded ==
    ASSUME NEW total \in 1..MaxAudience
    PROVE  TestCount(total) \in 1..total
  <1>1. total \in Nat /\ Percent \in 1..100
    OBVIOUS
  <1>2. total * Percent =< total * 100 /\ total * Percent \in Nat
    BY <1>1
  <1>3. (total * Percent) \div 100 \in 0..total
    BY <1>1, <1>2
  <1>4. QED
    BY <1>1, <1>3 DEF TestCount

-----------------------------------------------------------------------------
(* The invariant.                                                            *)

\* Where a run has a phase to work at, and where it sends it.
Working == {"evaluate", "testing", "loop", "next", "pausing", "send", "save", "feed", "tested", "finish"}
SendingPoint == {"loop", "next", "pausing", "send", "save"}

\* The number of recipients at which a run stops.
Stops(x) == IF x.phase = "test" THEN TestCount(x.total) ELSE x.total

\* What run x knows is so, when the recipients of h have been dealt with: the cursor has
\* nobody behind it, in the middle of a batch neither, and the row in memory claims to be
\* complete only if it is.  A broadcast without a test never leaves its one template.
Sound(x, h) ==
    /\ x.total \in {0, audience}
    /\ 1..x.off \subseteq h
    /\ x.bc.completed => 1..audience \subseteq h
    /\ x.at \in Working => x.total = audience /\ audience > 0
    /\ x.at \in SendingPoint => x.templates # {}
    /\ x.at = "send" => x.off =< x.i /\ x.i =< Stops(x) /\ 1..x.i \subseteq h
    /\ x.at = "finish" => x.off >= x.total
    /\ ~Testing => x.phase \in {"none", "single"} /\ x.templates \subseteq {"A"} /\ x.at \notin {"testing", "evaluate"}

RunsSound == \A r \in Runs : Sound(run[r], handled)

TaskSound ==
    /\ task.total \in {0, audience} /\ 1..task.off \subseteq handled
    /\ ~Testing => task.phase \in {"none", "single"}

RowsSound ==
    /\ bc.completed => 1..audience \subseteq handled
    /\ \A op \in Op : req[op].completed => 1..audience \subseteq handled
    /\ ~Testing => \A k \in Keys : rows[k] # "none" => k[2] = "single" /\ k[3] = "A"

Inv == TypeOK /\ RunsSound /\ TaskSound /\ RowsSound

-----------------------------------------------------------------------------
(* What a run becomes.                                                       *)

\* The parts of a run.
LEMMA RunParts ==
    ASSUME TypeOK, NEW r \in Runs
    PROVE  /\ run \in [Runs -> Run] /\ run[r] \in Run /\ run[r].at \in Point /\ run[r].live \in BOOLEAN
           /\ run[r].bc \in Row /\ run[r].phase \in Phase /\ run[r].off \in 0..MaxAudience
           /\ run[r].total \in 0..MaxAudience /\ run[r].i \in 0..MaxAudience
           /\ run[r].templates \subseteq Variation /\ run[r].last \in BOOLEAN
           /\ audience \in 0..MaxAudience /\ handled \subseteq Recipient /\ bc \in Row
  BY DEF TypeOK, Run

\* What remains sound while more recipients are dealt with.
LEMMA SoundGrows ==
    ASSUME NEW x, NEW h, NEW g, h \subseteq g, Sound(x, h)
    PROVE  Sound(x, g)
  BY DEF Sound

\* What r becomes is sound, and its row one that was read, written or kept.
Becomes(r, new) ==
    /\ run' = [run EXCEPT ![r] = new] /\ new \in Run
    /\ Sound(new, handled') /\ new.bc \in {run[r].bc, bc, bc', Draft}

\* One run that becomes sound leaves the others sound.
LEMMA RunStep ==
    ASSUME Inv, NEW r \in Runs, NEW new, Becomes(r, new), handled \subseteq handled', audience' = audience
    PROVE  /\ run' \in [Runs -> Run] /\ RunsSound'
           /\ \A q \in Runs : run'[q].bc \in {run[q].bc, bc, bc', Draft}
  <1>1. run \in [Runs -> Run] /\ \A q \in Runs : Sound(run[q], handled)
    BY DEF Inv, TypeOK, RunsSound
  <1>2. run' \in [Runs -> Run] /\ run'[r] = new /\ \A q \in Runs \ {r} : run'[q] = run[q]
    BY <1>1 DEF Becomes
  <1>3. \A q \in Runs : Sound(run'[q], handled')
    BY <1>1, <1>2, SoundGrows DEF Becomes
  <1>4. QED
    BY <1>2, <1>3 DEF Becomes, RunsSound, Sound

\* Process returns: the phase, the cursor and the count are left, the row is forgotten.
LEMMA EndedIs ==
    ASSUME TypeOK, NEW r \in Runs, NEW res \in {"more", "completed", "failed"}, NEW x, x = Ended(r, res)
    PROVE  /\ x \in Run /\ x.at = "end" /\ x.bc = Draft /\ x.phase = run[r].phase /\ x.off = run[r].off
           /\ x.total = run[r].total /\ x.templates = {}
  <1>1. /\ 0 \in 0..MaxAudience /\ Draft \in Row /\ "end" \in Point /\ {} \in SUBSET Variation
        /\ run[r].phase \in Phase /\ run[r].off \in 0..MaxAudience /\ run[r].total \in 0..MaxAudience
    <2>1. run[r].phase \in Phase /\ run[r].off \in 0..MaxAudience /\ run[r].total \in 0..MaxAudience
      BY RunParts
    <2>2. 0 \in 0..MaxAudience /\ "end" \in Point /\ {} \in SUBSET Variation
      BY DEF Point
    <2>3. QED
      BY <2>1, <2>2, EmptyRows
  <1>2. CASE run[r].live = TRUE
    <2>1. x = [NoRun EXCEPT !.at = "end", !.res = res, !.live = TRUE,
                 !.phase = run[r].phase, !.off = run[r].off, !.total = run[r].total]
      BY <1>2, Zenon DEF Ended
    <2>2. x = [at |-> "end", live |-> TRUE, res |-> res, bc |-> Draft, phase |-> run[r].phase, off |-> run[r].off,
               total |-> run[r].total, i |-> 0, templates |-> {}, win |-> "none", last |-> FALSE]
      BY <2>1, ZenonT(90) DEF NoRun
    <2>4. x \in Run
      BY <1>1, <2>2 DEF Run
    <2>5. QED
      BY <2>2, <2>4
  <1>3. CASE run[r].live = FALSE
    <2>1. x = [NoRun EXCEPT !.at = "end", !.res = res, !.live = FALSE,
                 !.phase = run[r].phase, !.off = run[r].off, !.total = run[r].total]
      BY <1>3, Zenon DEF Ended
    <2>2. x = [at |-> "end", live |-> FALSE, res |-> res, bc |-> Draft, phase |-> run[r].phase, off |-> run[r].off,
               total |-> run[r].total, i |-> 0, templates |-> {}, win |-> "none", last |-> FALSE]
      BY <2>1, ZenonT(90) DEF NoRun
    <2>4. x \in Run
      BY <1>1, <2>2 DEF Run
    <2>5. QED
      BY <2>2, <2>4
  <1>4. QED
    BY <1>2, <1>3, RunParts

\* A record without a place to work at is sound when its cursor is.
LEMMA RestIsSound ==
    ASSUME Inv, handled \subseteq handled', NEW r \in Runs, NEW x \in Run,
           x.at \in {"idle", "load", "prepare", "end", "finalize", "finalized"},
           x.bc \in {run[r].bc, bc, Draft}, x.off = run[r].off, x.total \in {run[r].total, audience},
           x.phase = run[r].phase, x.templates \subseteq run[r].templates
    PROVE  Sound(x, handled')
  <1>1. Sound(run[r], handled) /\ (bc.completed => 1..audience \subseteq handled)
    BY DEF Inv, RunsSound, RowsSound
  <1>2. x.bc.completed => 1..audience \subseteq handled'
    BY <1>1, EmptyRows DEF Sound
  <1>3. QED
    BY <1>1, <1>2 DEF Sound, Working, SendingPoint

\* A run that returns, with or without an error, is sound.
LEMMA ReturnDoes ==
    ASSUME Inv, handled \subseteq handled', NEW r \in Runs, NEW res \in {"more", "completed", "failed"},
           Return(r, res) \/ ReturnError(r)
    PROVE  \E new : Becomes(r, new)
  <1>1. TypeOK /\ Sound(run[r], handled)
    BY DEF Inv, RunsSound
  <1>2. CASE Return(r, res)
    <2>1. PICK x : x = Ended(r, res)
      OBVIOUS
    <2>2. /\ x \in Run /\ x.at = "end" /\ x.bc = Draft /\ x.phase = run[r].phase /\ x.off = run[r].off
          /\ x.total = run[r].total /\ x.templates = {}
      BY <1>1, <2>1, EndedIs
    <2>3. Sound(x, handled')
      BY <2>2, RestIsSound
    <2>4. run' = [run EXCEPT ![r] = x]
      BY <1>2, <2>1 DEF Return, Go
    <2>5. QED
      BY <2>2, <2>3, <2>4 DEF Becomes
  <1>3. CASE ReturnError(r)
    <2>1. PICK e : e = Ended(r, "failed")
      OBVIOUS
    <2>2. /\ e \in Run /\ e.bc = Draft /\ e.phase = run[r].phase /\ e.off = run[r].off
          /\ e.total = run[r].total /\ e.templates = {}
      BY <1>1, <2>1, EndedIs
    <2>3. PICK at \in {"finalize", "end"} : at = IF run[r].last THEN "finalize" ELSE "end"
      OBVIOUS
    <2>4. PICK x : x = [e EXCEPT !.at = at]
      OBVIOUS
    <2>5. /\ x \in Run /\ x.at = at /\ x.bc = Draft /\ x.phase = run[r].phase /\ x.off = run[r].off
          /\ x.total = run[r].total /\ x.templates = {}
      BY <2>2, <2>3, <2>4 DEF Run, Point
    <2>6. Sound(x, handled')
      BY <2>3, <2>5, RestIsSound
    <2>7. run' = [run EXCEPT ![r] = x]
      BY <1>3, <2>1, <2>3, <2>4, Zenon DEF ReturnError, Go
    <2>8. QED
      BY <2>5, <2>6, <2>7 DEF Becomes
  <1>4. QED
    BY <1>2, <1>3

\* Changes of the row.
LEMMA RowWith ==
    ASSUME NEW b \in Row, NEW x, NEW st \in {"processing", "testing", "test_completed", "winner_selected",
                                             "paused", "processed", "failed"}, NEW v \in Variation
    PROVE  /\ x = [b EXCEPT !.st = st] => x \in Row /\ x.st = st /\ x.completed = b.completed /\ x.win = b.win
           /\ x = [b EXCEPT !.st = st, !.completed = TRUE] => x \in Row /\ x.st = st /\ x.completed
           /\ x = [b EXCEPT !.prepared = TRUE] => x \in Row /\ x.st = b.st /\ x.completed = b.completed
           /\ x = [b EXCEPT !.win = v, !.st = st] => x \in Row /\ x.st = st /\ x.completed = b.completed /\ x.win = v
           /\ x = [b EXCEPT !.future = FALSE] => x \in Row /\ x.st = b.st /\ x.completed = b.completed
  BY ZenonT(90) DEF Row

\* A run that starts sending with row b.
LEMMA SendingIs ==
    ASSUME TypeOK, NEW r \in Runs, NEW b \in Row, NEW phase \in Phase, phase = "winner" => b.win # "none",
           NEW x, x = Sending(r, b, phase)
    PROVE  /\ x \in Run /\ x.at = "loop" /\ x.bc = b /\ x.off = run[r].off /\ x.total = run[r].total
           /\ x.phase = phase \/ (phase = "test" /\ x.phase = "winner")
           /\ x.templates # {} /\ (~Testing /\ phase # "winner" => x.templates = {"A"})
  <1>1. PICK ph \in Phase : ph = IF phase = "test" /\ WinnerKnown(b) THEN "winner" ELSE phase
    BY DEF Phase
  <1>2. PICK t : t = IF phase = "winner" THEN {b.win} ELSE IF Testing THEN Variation ELSE {"A"}
    OBVIOUS
  <1>3. /\ t \subseteq Variation /\ t # {}
        /\ ~Testing /\ phase # "winner" => t = {"A"}
    <2>1. CASE phase = "winner"
      BY <1>2, <2>1 DEF Row
    <2>2. CASE phase # "winner" /\ Testing
      BY <1>2, <2>2 DEF Variation
    <2>3. CASE phase # "winner" /\ ~Testing
      BY <1>2, <2>3 DEF Variation
    <2>4. QED
      BY <2>1, <2>2, <2>3
  <1>4. x = [run[r] EXCEPT !.at = "loop", !.bc = b, !.phase = ph, !.templates = t]
    BY <1>1, <1>2, Zenon DEF Sending
  <1>5. /\ x \in Run /\ x.at = "loop" /\ x.bc = b /\ x.off = run[r].off /\ x.total = run[r].total
        /\ x.phase = ph /\ x.templates = t
    <2>1. "loop" \in Point /\ t \in SUBSET Variation /\ ph \in Phase /\ run[r] \in Run
      BY <1>1, <1>3, RunParts DEF Point
    <2>2. QED
      BY <1>4, <2>1, ZenonT(90) DEF Run
  <1>6. QED
    BY <1>1, <1>3, <1>5

\* A run at a point, with a row, a phase, a cursor and a position in its batch.
Is(x, at, b, phase, off, total, i, templates) ==
    /\ x \in Run /\ x.at = at /\ x.bc = b /\ x.phase = phase /\ x.off = off /\ x.total = total
    /\ x.i = i /\ x.templates = templates

\* A run that goes on, with another row, phase or position.
LEMMA RunWith ==
    ASSUME NEW a \in Run, NEW x
    PROVE  /\ \A at \in Point :
                x = [a EXCEPT !.at = at] => Is(x, at, a.bc, a.phase, a.off, a.total, a.i, a.templates)
           /\ \A at \in Point, b \in Row :
                x = [a EXCEPT !.at = at, !.bc = b] => Is(x, at, b, a.phase, a.off, a.total, a.i, a.templates)
           /\ \A at \in Point, b \in Row, ph \in Phase :
                x = [a EXCEPT !.at = at, !.bc = b, !.phase = ph] => Is(x, at, b, ph, a.off, a.total, a.i, a.templates)
           /\ \A at \in Point, ph \in Phase :
                x = [a EXCEPT !.at = at, !.phase = ph] => Is(x, at, a.bc, ph, a.off, a.total, a.i, a.templates)
           /\ \A at \in Point, i \in 0..MaxAudience, w \in Variation \cup {"none"} :
                x = [a EXCEPT !.at = at, !.i = i, !.win = w]
                  => Is(x, at, a.bc, a.phase, a.off, a.total, i, a.templates)
           /\ \A at \in Point, i \in 0..MaxAudience, w \in Variation \cup {"none"} :
                x = [a EXCEPT !.at = at, !.off = a.i, !.i = i, !.win = w]
                  => Is(x, at, a.bc, a.phase, a.i, a.total, i, a.templates)
           /\ \A i \in 0..MaxAudience :
                x = [a EXCEPT !.i = i] => Is(x, a.at, a.bc, a.phase, a.off, a.total, i, a.templates)
           /\ x = [a EXCEPT !.live = FALSE] => Is(x, a.at, a.bc, a.phase, a.off, a.total, a.i, a.templates)
  <1>1. ASSUME NEW at \in Point, x = [a EXCEPT !.at = at]
        PROVE  Is(x, at, a.bc, a.phase, a.off, a.total, a.i, a.templates)
    BY <1>1 DEF Run, Is
  <1>2. ASSUME NEW at \in Point, NEW b \in Row, x = [a EXCEPT !.at = at, !.bc = b]
        PROVE  Is(x, at, b, a.phase, a.off, a.total, a.i, a.templates)
    BY <1>2 DEF Run, Is
  <1>3. ASSUME NEW at \in Point, NEW b \in Row, NEW ph \in Phase, x = [a EXCEPT !.at = at, !.bc = b, !.phase = ph]
        PROVE  Is(x, at, b, ph, a.off, a.total, a.i, a.templates)
    BY <1>3 DEF Run, Is
  <1>4. ASSUME NEW at \in Point, NEW ph \in Phase, x = [a EXCEPT !.at = at, !.phase = ph]
        PROVE  Is(x, at, a.bc, ph, a.off, a.total, a.i, a.templates)
    BY <1>4 DEF Run, Is
  <1>5. ASSUME NEW at \in Point, NEW i \in 0..MaxAudience, NEW w \in Variation \cup {"none"},
               x = [a EXCEPT !.at = at, !.i = i, !.win = w]
        PROVE  Is(x, at, a.bc, a.phase, a.off, a.total, i, a.templates)
    BY <1>5 DEF Run, Is
  <1>6. ASSUME NEW at \in Point, NEW i \in 0..MaxAudience, NEW w \in Variation \cup {"none"},
               x = [a EXCEPT !.at = at, !.off = a.i, !.i = i, !.win = w]
        PROVE  Is(x, at, a.bc, a.phase, a.i, a.total, i, a.templates)
    BY <1>6 DEF Run, Is
  <1>7. ASSUME NEW i \in 0..MaxAudience, x = [a EXCEPT !.i = i]
        PROVE  Is(x, a.at, a.bc, a.phase, a.off, a.total, i, a.templates)
    BY <1>7 DEF Run, Is
  <1>8. ASSUME x = [a EXCEPT !.live = FALSE]
        PROVE  Is(x, a.at, a.bc, a.phase, a.off, a.total, a.i, a.templates)
    BY <1>8 DEF Run, Is
  <1>9. QED
    BY <1>1, <1>2, <1>3, <1>4, <1>5, <1>6, <1>7, <1>8

\* At a point that asks nothing of the position, a working run stays sound.
LEMMA WorkIsSound ==
    ASSUME Inv, handled \subseteq handled', NEW r \in Runs, run[r].at \in Working, NEW x \in Run,
           x.at \in {"loop", "next", "pausing", "save", "feed", "tested"},
           x.bc \in {run[r].bc, bc}, x.off = run[r].off, x.total = run[r].total,
           x.phase = run[r].phase \/ Testing, x.templates \subseteq run[r].templates,
           x.at \in SendingPoint => x.templates # {}
    PROVE  Sound(x, handled')
  <1>1. Sound(run[r], handled) /\ (bc.completed => 1..audience \subseteq handled)
    BY DEF Inv, RunsSound, RowsSound
  <1>2. x.bc.completed => 1..audience \subseteq handled'
    BY <1>1 DEF Sound
  <1>3. QED
    BY <1>1, <1>2 DEF Sound, Working

\* A run starts with the cursor of its task.
LEMMA StartDoes ==
    ASSUME Inv, NEW r \in Runs, StartRun(r)
    PROVE  \E new : Becomes(r, new)
  <1>1. PICK last \in BOOLEAN : last <=> (task.retries >= MaxRetries - 1)
    OBVIOUS
  <1>2. PICK x : x = [NoRun EXCEPT !.at = "load", !.live = TRUE, !.phase = task.phase, !.off = task.off,
                           !.total = task.total, !.last = task.retries >= MaxRetries - 1]
    OBVIOUS
  <1>3. /\ task.phase \in Phase /\ task.off \in 0..MaxAudience /\ task.total \in 0..MaxAudience
        /\ task.total \in {0, audience} /\ 1..task.off \subseteq handled
        /\ ~Testing => task.phase \in {"none", "single"}
    BY DEF Inv, TypeOK, Task, TaskSound
  <1>4. x = [at |-> "load", live |-> TRUE, res |-> "more", bc |-> Draft, phase |-> task.phase, off |-> task.off,
             total |-> task.total, i |-> 0, templates |-> {}, win |-> "none",
             last |-> task.retries >= MaxRetries - 1]
    BY <1>2, Zenon DEF NoRun
  <1>5. (task.retries >= MaxRetries - 1) = last
    BY <1>1
  <1>6. x = [at |-> "load", live |-> TRUE, res |-> "more", bc |-> Draft, phase |-> task.phase, off |-> task.off,
             total |-> task.total, i |-> 0, templates |-> {}, win |-> "none", last |-> last]
    BY <1>4, <1>5, Zenon
  <1>7. /\ "load" \in Point /\ {} \in SUBSET Variation /\ 0 \in 0..MaxAudience
    BY DEF Point
  <1>8. x \in Run
    BY <1>1, <1>3, <1>6, <1>7, EmptyRows DEF Run
  <1>9. x.at = "load" /\ x.bc = Draft /\ x.off = task.off /\ x.total = task.total /\ x.phase = task.phase /\ x.templates = {}
    BY <1>6
  <1>10. run' = [run EXCEPT ![r] = x] /\ handled' = handled
    BY <1>2, Zenon DEF StartRun, Go
  <1>11. Sound(x, handled')
    BY <1>3, <1>9, <1>10, EmptyRows DEF Sound, Working, SendingPoint
  <1>12. QED
    BY <1>8, <1>9, <1>10, <1>11 DEF Becomes

\* A run that reads the row to prepare or to finalize is sound.
LEMMA ReadsDoes ==
    ASSUME Inv, NEW r \in Runs, ReadToPrepare(r) \/ ReadToFinalize(r)
    PROVE  \E new : Becomes(r, new)
  <1>1. PICK at \in {"prepare", "finalized"} : Go(r, [run[r] EXCEPT !.at = at, !.bc = bc])
    BY DEF ReadToPrepare, ReadToFinalize
  <1>2. PICK x : x = [run[r] EXCEPT !.at = at, !.bc = bc]
    OBVIOUS
  <1>3. run[r] \in Run /\ bc \in Row /\ at \in Point
    BY RunParts DEF Inv, Point
  <1>4. Is(x, at, bc, run[r].phase, run[r].off, run[r].total, run[r].i, run[r].templates)
    BY <1>2, <1>3, RunWith
  <1>5. handled' = handled
    BY Zenon DEF ReadToPrepare, ReadToFinalize
  <1>6. Sound(x, handled')
    BY <1>4, <1>5, RestIsSound DEF Is
  <1>7. QED
    BY <1>1, <1>2, <1>4, <1>6 DEF Becomes, Go, Is

\* A run that ends or dies leaves an empty slot.
LEMMA GoneDoes ==
    ASSUME Inv, NEW r \in Runs, EndRun(r) \/ Crash(r)
    PROVE  Becomes(r, NoRun)
  <1>1. run' = [run EXCEPT ![r] = NoRun] /\ handled' = handled
    BY Zenon DEF EndRun, Crash, Go
  <1>2. Sound(NoRun, handled')
    <2>1. /\ NoRun.total = 0 /\ NoRun.off = 0 /\ NoRun.bc = Draft /\ NoRun.at = "idle"
          /\ NoRun.phase = "none" /\ NoRun.templates = {} /\ ~Draft.completed
      BY EmptyRows
    <2>2. QED
      BY <2>1 DEF Sound, Working, SendingPoint
  <1>3. QED
    BY <1>1, <1>2, EmptyRows DEF Becomes

\* A run that is cut off still knows what it knew.
LEMMA CutDoes ==
    ASSUME Inv, NEW r \in Runs, CutOff(r)
    PROVE  \E new : Becomes(r, new)
  <1>1. PICK x : x = [run[r] EXCEPT !.live = FALSE]
    OBVIOUS
  <1>2. Is(x, run[r].at, run[r].bc, run[r].phase, run[r].off, run[r].total, run[r].i, run[r].templates)
    <2>1. run[r] \in Run
      BY RunParts DEF Inv
    <2>2. QED
      BY <1>1, <2>1, RunWith
  <1>3. run' = [run EXCEPT ![r] = x] /\ handled' = handled
    BY <1>1, Zenon DEF CutOff, Go
  <1>4. Sound(run[r], handled)
    BY DEF Inv, RunsSound
  <1>5. Sound(x, handled')
    BY <1>2, <1>3, <1>4 DEF Sound, Is, Stops
  <1>6. QED
    BY <1>2, <1>3, <1>5 DEF Becomes, Is

\* What counting finds is the audience; without one everybody has been dealt with.
LEMMA CountDoes ==
    ASSUME Inv, NEW r \in Runs, CountRecipients(r)
    PROVE  \E new : Becomes(r, new)
  <1>1. handled' = handled
    BY Zenon DEF CountRecipients
  <1>2. CASE audience > 0
    <2>1. Go(r, [Ended(r, "more") EXCEPT !.total = audience])
      BY <1>2, Zenon DEF CountRecipients
    <2>2. PICK e : e = Ended(r, "more")
      OBVIOUS
    <2>3. e \in Run /\ e.at = "end" /\ e.bc = Draft /\ e.phase = run[r].phase /\ e.off = run[r].off /\ e.templates = {}
      BY <2>2, EndedIs DEF Inv
    <2>4. PICK x : x = [e EXCEPT !.total = audience]
      OBVIOUS
    <2>5. audience \in 0..MaxAudience
      BY DEF Inv, TypeOK
    <2>6. /\ x \in Run /\ x.at = "end" /\ x.bc = Draft /\ x.phase = run[r].phase /\ x.off = run[r].off
          /\ x.total = audience /\ x.templates = {}
      BY <2>3, <2>4, <2>5 DEF Run
    <2>7. Sound(x, handled')
      BY <1>1, <2>6, RestIsSound
    <2>8. run' = [run EXCEPT ![r] = x]
      BY <2>1, <2>2, <2>4, Zenon DEF Go
    <2>9. QED
      BY <2>6, <2>7, <2>8 DEF Becomes
  <1>3. CASE ~(audience > 0)
    <2>1. Return(r, "completed") \/ ReturnError(r)
      BY <1>3, Zenon DEF CountRecipients
    <2>2. QED
      BY <1>1, <2>1, ReturnDoes
  <1>4. QED
    BY <1>2, <1>3

\* A run that starts sending is sound: its count is the audience, and its templates are
\* there.
LEMMA SendingDoes ==
    ASSUME Inv, handled \subseteq handled', NEW r \in Runs, run[r].total = audience, audience > 0,
           NEW b \in Row, b.completed => 1..audience \subseteq handled, b \in {run[r].bc, bc, bc'},
           NEW phase \in Phase, phase = "winner" => b.win # "none",
           ~Testing => phase = "single", Go(r, Sending(r, b, phase))
    PROVE  \E new : Becomes(r, new)
  <1>1. PICK x : x = Sending(r, b, phase)
    OBVIOUS
  <1>2. /\ x \in Run /\ x.at = "loop" /\ x.bc = b /\ x.off = run[r].off /\ x.total = run[r].total
        /\ x.phase = phase \/ (phase = "test" /\ x.phase = "winner")
        /\ x.templates # {} /\ (~Testing /\ phase # "winner" => x.templates = {"A"})
    BY <1>1, SendingIs DEF Inv
  <1>3. Sound(run[r], handled)
    BY DEF Inv, RunsSound
  <1>4. Sound(x, handled')
    BY <1>2, <1>3 DEF Sound, Working, SendingPoint
  <1>5. QED
    BY <1>1, <1>2, <1>4 DEF Becomes, Go

\* The row decides the phase that a run starts with.
LEMMA LoadDoes ==
    ASSUME Inv, NEW r \in Runs, LoadPhase(r)
    PROVE  \E new : Becomes(r, new)
  <1>1. PICK phase : phase = OpeningPhase(r, bc)
    OBVIOUS
  <1>2. /\ run[r].total > 0 /\ handled' = handled /\ At(r, "load")
        /\ IF phase = "winner" /\ bc.win = "none" THEN Return(r, "failed")
           ELSE IF Testing /\ run[r].phase = "none" /\ bc.st = "processing" /\ phase = "test"
             THEN Go(r, [run[r] EXCEPT !.at = "testing", !.bc = bc, !.phase = "test"])
           ELSE Go(r, Sending(r, bc, phase))
    BY <1>1, Zenon DEF LoadPhase
  <1>3. /\ run[r] \in Run /\ run[r].phase \in Phase /\ run[r].total \in 0..MaxAudience
        /\ bc \in Row /\ audience \in 0..MaxAudience
    BY RunParts DEF Inv
  <1>4. Sound(run[r], handled) /\ (bc.completed => 1..audience \subseteq handled)
    BY DEF Inv, RunsSound, RowsSound
  <1>5. run[r].total = audience /\ audience > 0
    BY <1>2, <1>3, <1>4 DEF Sound
  <1>6. phase \in Phase /\ (~Testing => phase = "single")
    <2>1. CASE ~Testing
      BY <1>1, <2>1, Zenon DEF OpeningPhase, Phase
    <2>2. CASE Testing /\ run[r].phase # "none"
      BY <1>1, <1>3, <2>2, Zenon DEF OpeningPhase
    <2>3. CASE Testing /\ run[r].phase = "none"
      <3>1. phase = CASE bc.st = "processing" -> IF bc.win # "none" THEN "winner" ELSE "test"
                      [] bc.st = "testing" -> "test"
                      [] bc.st = "winner_selected" -> "winner"
                      [] OTHER -> "none"
        BY <1>1, <2>3, Zenon DEF OpeningPhase
      <3>2. QED
        BY <2>3, <3>1 DEF Phase
    <2>4. QED
      BY <2>1, <2>2, <2>3
  <1>7. CASE phase = "winner" /\ bc.win = "none"
    BY <1>2, <1>7, ReturnDoes
  <1>8. CASE Testing /\ Go(r, [run[r] EXCEPT !.at = "testing", !.bc = bc, !.phase = "test"])
    <2>1. PICK x : x = [run[r] EXCEPT !.at = "testing", !.bc = bc, !.phase = "test"]
      OBVIOUS
    <2>2. "testing" \in Point /\ "test" \in Phase
      BY DEF Point, Phase
    <2>3. Is(x, "testing", bc, "test", run[r].off, run[r].total, run[r].i, run[r].templates)
      BY <1>3, <2>1, <2>2, RunWith
    <2>4. Sound(x, handled')
      BY <1>2, <1>4, <1>5, <1>8, <2>3 DEF Sound, Is, Working, SendingPoint
    <2>5. QED
      BY <1>8, <2>1, <2>3, <2>4 DEF Becomes, Go, Is
  <1>9. CASE ~(phase = "winner" /\ bc.win = "none") /\ Go(r, Sending(r, bc, phase))
    BY <1>2, <1>3, <1>4, <1>5, <1>6, <1>9, SendingDoes
  <1>10. QED
    BY <1>2, <1>7, <1>8, <1>9, Zenon

\* The announced test phase starts sending with the row it wrote.
LEMMA MarkDoes ==
    ASSUME Inv, NEW r \in Runs, MarkTesting(r)
    PROVE  \E new : Becomes(r, new)
  <1>1. /\ handled' = handled /\ At(r, "testing")
        /\ IF Writable(bc)
             THEN /\ bc' = [run[r].bc EXCEPT !.st = "testing"]
                  /\ Go(r, Sending(r, [run[r].bc EXCEPT !.st = "testing"], "test"))
             ELSE Return(r, "failed") /\ UNCHANGED bc
    BY Zenon DEF MarkTesting
  <1>2. /\ run[r].bc \in Row /\ Sound(run[r], handled)
    BY RunParts DEF Inv, RunsSound
  <1>3. run[r].total = audience /\ audience > 0 /\ Testing
    BY <1>1, <1>2 DEF Sound, Working, At
  <1>4. CASE Writable(bc)
    <2>1. PICK b : b = [run[r].bc EXCEPT !.st = "testing"]
      OBVIOUS
    <2>2. b \in Row /\ b.completed = run[r].bc.completed /\ bc' = b
      BY <1>1, <1>2, <1>4, <2>1, RowWith DEF Variation
    <2>3. b.completed => 1..audience \subseteq handled
      BY <1>2, <2>2 DEF Sound
    <2>4. Go(r, Sending(r, b, "test"))
      BY <1>1, <1>4, <2>1, Zenon
    <2>5. "test" \in Phase
      BY DEF Phase
    <2>6. QED
      BY <1>1, <1>3, <2>2, <2>3, <2>4, <2>5, SendingDoes
  <1>5. CASE ~Writable(bc)
    <2>1. Return(r, "failed")
      BY <1>1, <1>5, Zenon
    <2>2. QED
      BY <1>1, <2>1, ReturnDoes
  <1>6. QED
    BY <1>4, <1>5

\* The evaluation starts from the row as it stands.
LEMMA EvaluateReadDoes ==
    ASSUME Inv, NEW r \in Runs, ReadToEvaluate(r)
    PROVE  \E new : Becomes(r, new)
  <1>1. /\ handled' = handled /\ Go(r, [run[r] EXCEPT !.at = "evaluate", !.bc = bc])
        /\ run[r].phase = "test" /\ run[r].total > 0
    BY Zenon DEF ReadToEvaluate
  <1>2. PICK x : x = [run[r] EXCEPT !.at = "evaluate", !.bc = bc]
    OBVIOUS
  <1>3. run[r] \in Run /\ bc \in Row /\ run[r].total \in 0..MaxAudience /\ "evaluate" \in Point
    BY RunParts DEF Inv, Point
  <1>4. Is(x, "evaluate", bc, run[r].phase, run[r].off, run[r].total, run[r].i, run[r].templates)
    BY <1>2, <1>3, RunWith
  <1>5. Sound(run[r], handled) /\ (bc.completed => 1..audience \subseteq handled)
    BY DEF Inv, RunsSound, RowsSound
  <1>6. Sound(x, handled')
    BY <1>1, <1>3, <1>4, <1>5 DEF Sound, Is, Working, SendingPoint
  <1>7. QED
    BY <1>1, <1>2, <1>4, <1>6 DEF Becomes, Go, Is

\* The evaluation goes on to send the winner, or the test.
LEMMA EvaluateDoes ==
    ASSUME Inv, NEW r \in Runs, EvaluateWinner(r)
    PROVE  \E new : Becomes(r, new)
  <1>1. handled' = handled /\ At(r, "evaluate")
    BY Zenon DEF EvaluateWinner
  <1>2. /\ run[r].bc \in Row /\ bc \in Row /\ Sound(run[r], handled)
        /\ (bc.completed => 1..audience \subseteq handled)
    BY RunParts DEF Inv, RunsSound, RowsSound
  <1>3. run[r].total = audience /\ audience > 0 /\ Testing
    BY <1>1, <1>2 DEF Sound, Working, At
  <1>4. CASE Writable(bc)
    <2>1. PICK v \in Variation : /\ bc' = [run[r].bc EXCEPT !.win = v, !.st = "winner_selected"]
                                 /\ Go(r, Sending(r, bc', "winner"))
      BY <1>4, Zenon DEF EvaluateWinner
    <2>2. PICK b : b = [run[r].bc EXCEPT !.win = v, !.st = "winner_selected"]
      OBVIOUS
    <2>3. b \in Row /\ b.completed = run[r].bc.completed /\ bc' = b /\ b.win # "none"
      <3>1. b \in Row /\ b.completed = run[r].bc.completed /\ b.win = v
        BY <1>2, <2>2 DEF Row
      <3>2. v # "none"
        BY DEF Variation
      <3>3. bc' = b
        BY <2>1, <2>2, Zenon
      <3>4. QED
        BY <3>1, <3>2, <3>3
    <2>4. b.completed => 1..audience \subseteq handled
      BY <1>2, <2>3 DEF Sound
    <2>5. Go(r, Sending(r, b, "winner"))
      BY <2>1, <2>2, Zenon
    <2>6. "winner" \in Phase
      BY DEF Phase
    <2>7. QED
      BY <1>1, <1>3, <2>3, <2>4, <2>5, <2>6, SendingDoes
  <1>5. CASE ~Writable(bc)
    <2>1. Go(r, Sending(r, bc, "test"))
      BY <1>5, Zenon DEF EvaluateWinner
    <2>2. "test" \in Phase
      BY DEF Phase
    <2>3. QED
      BY <1>1, <1>2, <1>3, <2>1, <2>2, SendingDoes
  <1>6. QED
    BY <1>4, <1>5

\* The head of the loop, with or without a new look at the row.
LEMMA RefreshDoes ==
    ASSUME Inv, NEW r \in Runs, Refresh(r) \/ SkipRefresh(r)
    PROVE  \E new : Becomes(r, new)
  <1>1. handled' = handled /\ run[r].at = "loop"
    BY Zenon DEF Refresh, SkipRefresh, At
  <1>2. run[r] \in Run /\ bc \in Row /\ run[r].phase \in Phase /\ run[r].bc \in Row
    BY RunParts DEF Inv
  <1>3. Sound(run[r], handled)
    BY DEF Inv, RunsSound
  <1>4. run[r].at \in Working /\ run[r].templates # {} /\ (~Testing => run[r].phase # "test")
    BY <1>1, <1>3 DEF Sound, Working, SendingPoint
  <1>5. "next" \in Point /\ "pausing" \in Point
    BY DEF Point
  <1>6. CASE Return(r, "completed")
    BY <1>1, <1>6, ReturnDoes
  <1>7. ASSUME NEW at \in {"next", "pausing"}, Go(r, [run[r] EXCEPT !.at = at])
        PROVE  \E new : Becomes(r, new)
    <2>1. PICK x : x = [run[r] EXCEPT !.at = at]
      OBVIOUS
    <2>2. Is(x, at, run[r].bc, run[r].phase, run[r].off, run[r].total, run[r].i, run[r].templates)
      BY <1>2, <1>5, <2>1, RunWith
    <2>3. Sound(x, handled')
      BY <1>1, <1>4, <2>2, WorkIsSound DEF Is
    <2>4. QED
      BY <1>7, <2>1, <2>2, <2>3 DEF Becomes, Go, Is
  <1>8. ASSUME Go(r, [run[r] EXCEPT !.at = "next", !.bc = bc,
                        !.phase = IF @ = "test" /\ WinnerKnown(bc) THEN "winner" ELSE @])
        PROVE  \E new : Becomes(r, new)
    <2>1. PICK ph : ph = IF run[r].phase = "test" /\ WinnerKnown(bc) THEN "winner" ELSE run[r].phase
      OBVIOUS
    <2>2. ph \in Phase /\ (ph = run[r].phase \/ Testing)
      BY <1>2, <1>4, <2>1 DEF Phase
    <2>3. PICK x : x = [run[r] EXCEPT !.at = "next", !.bc = bc, !.phase = ph]
      OBVIOUS
    <2>4. Is(x, "next", bc, ph, run[r].off, run[r].total, run[r].i, run[r].templates)
      BY <1>2, <1>5, <2>2, <2>3, RunWith
    <2>5. Sound(x, handled')
      BY <1>1, <1>4, <2>2, <2>4, WorkIsSound DEF Is
    <2>6. run' = [run EXCEPT ![r] = x]
      BY <1>8, <2>1, <2>3, Zenon DEF Go
    <2>7. QED
      BY <2>4, <2>5, <2>6 DEF Becomes, Is
  <1>9. CASE Refresh(r)
    <2>1. CASE bc.st = "cancelled"
      BY <1>6, <1>9, <2>1 DEF Refresh
    <2>2. CASE bc.st = "paused"
      BY <1>7, <1>9, <2>2 DEF Refresh
    <2>3. CASE bc.st # "cancelled" /\ bc.st # "paused"
      BY <1>8, <1>9, <2>3, Zenon DEF Refresh
    <2>4. QED
      BY <2>1, <2>2, <2>3
  <1>10. CASE SkipRefresh(r)
    <2>1. Go(r, [run[r] EXCEPT !.at = "next"])
      BY <1>10, Zenon DEF SkipRefresh
    <2>2. QED
      BY <1>7, <2>1
  <1>11. QED
    BY <1>9, <1>10

\* At its limit a phase ends the run, hands over to the winner, or waits for one.
LEMMA CompleteDoes ==
    ASSUME Inv, NEW r \in Runs, PhaseComplete(r)
    PROVE  \E new : Becomes(r, new)
  <1>1. /\ handled' = handled /\ run[r].at = "next" /\ run[r].off >= Limit(r)
        /\ \/ run[r].phase # "test" /\ Go(r, [run[r] EXCEPT !.at = "finish"])
           \/ run[r].phase = "test" /\ Go(r, [run[r] EXCEPT !.at = "loop", !.phase = "winner"])
           \/ run[r].phase = "test" /\ Go(r, [Ended(r, "more") EXCEPT !.phase = "winner"])
           \/ Go(r, [run[r] EXCEPT !.at = "tested"])
    <2>1. handled' = handled /\ run[r].at = "next" /\ run[r].off >= Limit(r)
      BY Zenon DEF PhaseComplete, At
    <2>2. IF run[r].phase # "test" THEN Go(r, [run[r] EXCEPT !.at = "finish"])
          ELSE IF WinnerKnown(run[r].bc) THEN Go(r, [run[r] EXCEPT !.at = "loop", !.phase = "winner"])
          ELSE IF run[r].live /\ WinnerKnown(bc)
            THEN Go(r, [Ended(r, "more") EXCEPT !.phase = "winner"])
          ELSE Go(r, [run[r] EXCEPT !.at = "tested"])
      BY Zenon DEF PhaseComplete
    <2>3. QED
      BY <2>1, <2>2, Zenon
  <1>2. /\ run[r] \in Run /\ run[r].phase \in Phase /\ run[r].bc \in Row
        /\ run[r].off \in 0..MaxAudience /\ run[r].total \in 0..MaxAudience
    BY RunParts DEF Inv
  <1>3. Sound(run[r], handled)
    BY DEF Inv, RunsSound
  <1>4. run[r].at \in Working /\ run[r].templates # {} /\ (~Testing => run[r].phase # "test")
    BY <1>1, <1>3 DEF Sound, Working, SendingPoint
  <1>5. "finish" \in Point /\ "loop" \in Point /\ "tested" \in Point /\ "winner" \in Phase
    BY DEF Point, Phase
  <1>6. CASE run[r].phase # "test" /\ Go(r, [run[r] EXCEPT !.at = "finish"])
    <2>1. PICK x : x = [run[r] EXCEPT !.at = "finish"]
      OBVIOUS
    <2>2. Is(x, "finish", run[r].bc, run[r].phase, run[r].off, run[r].total, run[r].i, run[r].templates)
      BY <1>2, <1>5, <2>1, RunWith
    <2>3. run[r].off >= run[r].total
      BY <1>1, <1>6 DEF Limit
    <2>4. Sound(x, handled')
      BY <1>1, <1>3, <1>4, <2>2, <2>3 DEF Sound, Is, SendingPoint
    <2>5. QED
      BY <1>6, <2>1, <2>2, <2>4 DEF Becomes, Go, Is
  <1>7. CASE run[r].phase = "test" /\ Go(r, [run[r] EXCEPT !.at = "loop", !.phase = "winner"])
    <2>1. PICK x : x = [run[r] EXCEPT !.at = "loop", !.phase = "winner"]
      OBVIOUS
    <2>2. Is(x, "loop", run[r].bc, "winner", run[r].off, run[r].total, run[r].i, run[r].templates)
      BY <1>2, <1>5, <2>1, RunWith
    <2>3. Sound(x, handled')
      BY <1>1, <1>4, <1>7, <2>2, WorkIsSound DEF Is
    <2>4. QED
      BY <1>7, <2>1, <2>2, <2>3 DEF Becomes, Go, Is
  <1>8. CASE run[r].phase = "test" /\ Go(r, [Ended(r, "more") EXCEPT !.phase = "winner"])
    <2>1. PICK e : e = Ended(r, "more")
      OBVIOUS
    <2>2. /\ e \in Run /\ e.at = "end" /\ e.bc = Draft /\ e.off = run[r].off
          /\ e.total = run[r].total /\ e.templates = {}
      BY <2>1, EndedIs DEF Inv
    <2>3. PICK x : x = [e EXCEPT !.phase = "winner"]
      OBVIOUS
    <2>4. /\ x \in Run /\ x.at = "end" /\ x.bc = Draft /\ x.off = run[r].off
          /\ x.total = run[r].total /\ x.templates = {}
      BY <1>5, <2>2, <2>3 DEF Run
    <2>5. Testing /\ ~Draft.completed
      BY <1>4, <1>8, EmptyRows
    <2>6. Sound(x, handled')
      BY <1>1, <1>3, <2>4, <2>5 DEF Sound, Working, SendingPoint
    <2>7. run' = [run EXCEPT ![r] = x]
      BY <1>8, <2>1, <2>3, Zenon DEF Go
    <2>8. QED
      BY <2>4, <2>6, <2>7 DEF Becomes
  <1>9. CASE Go(r, [run[r] EXCEPT !.at = "tested"])
    <2>1. PICK x : x = [run[r] EXCEPT !.at = "tested"]
      OBVIOUS
    <2>2. Is(x, "tested", run[r].bc, run[r].phase, run[r].off, run[r].total, run[r].i, run[r].templates)
      BY <1>2, <1>5, <2>1, RunWith
    <2>3. Sound(x, handled')
      BY <1>1, <1>4, <2>2, WorkIsSound DEF Is, SendingPoint
    <2>4. QED
      BY <1>9, <2>1, <2>2, <2>3 DEF Becomes, Go, Is
  <1>10. QED
    BY <1>1, <1>6, <1>7, <1>8, <1>9

\* A batch starts behind the cursor and below the limit, or the run returns.
LEMMA FetchDoes ==
    ASSUME Inv, NEW r \in Runs, FetchBatch(r)
    PROVE  \E new : Becomes(r, new)
  <1>1. /\ handled' = handled /\ run[r].at = "next" /\ run[r].off < Limit(r)
        /\ IF bc.st = "cancelled" THEN Return(r, "completed")
           ELSE Go(r, [run[r] EXCEPT !.at = "send", !.i = run[r].off, !.win = bc.win])
    BY Zenon DEF FetchBatch, At
  <1>2. CASE bc.st = "cancelled"
    <2>1. Return(r, "completed")
      BY <1>1, <1>2, Zenon
    <2>2. QED
      BY <1>1, <2>1, ReturnDoes
  <1>3. CASE bc.st # "cancelled"
    <2>1. Go(r, [run[r] EXCEPT !.at = "send", !.i = run[r].off, !.win = bc.win])
      BY <1>1, <1>3, Zenon
    <2>2. PICK x : x = [run[r] EXCEPT !.at = "send", !.i = run[r].off, !.win = bc.win]
      OBVIOUS
    <2>3. /\ run[r] \in Run /\ run[r].off \in 0..MaxAudience /\ run[r].total \in 0..MaxAudience
          /\ bc.win \in Variation \cup {"none"} /\ "send" \in Point
      BY RunParts DEF Inv, Row, Point
    <2>4. Is(x, "send", run[r].bc, run[r].phase, run[r].off, run[r].total, run[r].off, run[r].templates)
      BY <2>2, <2>3, RunWith
    <2>5. Sound(run[r], handled)
      BY DEF Inv, RunsSound
    <2>6. Limit(r) = Stops(run[r])
      BY DEF Limit, Stops
    <2>7. Stops(x) = Limit(r)
      BY <2>4, <2>6 DEF Is, Stops
    <2>8. run[r].total = audience /\ audience > 0 /\ Limit(r) \in Nat
      <3>1. run[r].total = audience /\ audience > 0
        BY <1>1, <2>5 DEF Sound, Working
      <3>2. TestCount(run[r].total) \in Nat
        BY <2>3, <3>1, SampleBounded
      <3>3. QED
        BY <2>3, <3>1, <3>2 DEF Limit
    <2>9. x.off =< x.i /\ x.i =< Stops(x) /\ 1..x.i \subseteq handled
      BY <1>1, <2>3, <2>4, <2>5, <2>7, <2>8 DEF Is, Sound
    <2>10. Sound(x, handled')
      BY <1>1, <2>4, <2>5, <2>9 DEF Sound, Is, Working, SendingPoint
    <2>11. QED
      BY <2>1, <2>2, <2>4, <2>10 DEF Becomes, Go, Is
  <1>4. QED
    BY <1>2, <1>3

\* What a recipient of the batch does to the run, and whom it deals with.
LEMMA SendDoes ==
    ASSUME Inv, NEW r \in Runs, SendRecipient(r)
    PROVE  /\ \E new : Becomes(r, new)
           /\ handled \subseteq handled' /\ handled' \subseteq Recipient
  <1>1. /\ run[r].at = "send" /\ run[r].i # Limit(r)
        /\ handled' = handled \cup {run[r].i + 1} /\ Go(r, [run[r] EXCEPT !.i = run[r].i + 1])
    BY Zenon DEF SendRecipient, At, BatchOver
  <1>2. /\ run[r] \in Run /\ run[r].i \in 0..MaxAudience /\ run[r].total \in 0..MaxAudience
        /\ handled \subseteq Recipient
    BY RunParts DEF Inv
  <1>3. Sound(run[r], handled) /\ Limit(r) = Stops(run[r])
    BY DEF Inv, RunsSound, Limit, Stops
  <1>4. run[r].total \in 1..MaxAudience
    BY <1>1, <1>2, <1>3 DEF Sound, Working
  <1>5. Limit(r) \in 1..MaxAudience
    <2>1. TestCount(run[r].total) \in 1..run[r].total
      BY <1>4, SampleBounded
    <2>2. QED
      BY <1>4, <2>1 DEF Limit
  <1>6. run[r].i + 1 \in 1..MaxAudience /\ run[r].i + 1 =< Limit(r)
    BY <1>1, <1>2, <1>3, <1>5 DEF Sound
  <1>7. handled \subseteq handled' /\ handled' \subseteq Recipient
    BY <1>1, <1>2, <1>6 DEF Recipient
  <1>8. 1..(run[r].i + 1) \subseteq handled'
    BY <1>1, <1>2, <1>3 DEF Sound
  <1>9. PICK j \in 0..MaxAudience : j = run[r].i + 1
    BY <1>6
  <1>10. PICK x : x = [run[r] EXCEPT !.i = j]
    OBVIOUS
  <1>11. Is(x, "send", run[r].bc, run[r].phase, run[r].off, run[r].total, j, run[r].templates)
    BY <1>1, <1>2, <1>10, RunWith
  <1>12. Stops(x) = Limit(r)
    BY <1>3, <1>11 DEF Is, Stops
  <1>13. x.off =< x.i /\ x.i =< Stops(x) /\ 1..x.i \subseteq handled'
    <2>1. run[r].off =< run[r].i /\ run[r].off \in Nat
      BY <1>1, <1>3, RunParts DEF Sound, Inv
    <2>2. QED
      BY <1>2, <1>6, <1>8, <1>9, <1>11, <1>12, <2>1 DEF Is
  <1>14. Sound(run[r], handled')
    BY <1>3, <1>7, SoundGrows
  <1>15. Sound(x, handled')
    BY <1>1, <1>11, <1>13, <1>14 DEF Sound, Is, Working, SendingPoint
  <1>16. Becomes(r, x)
    BY <1>1, <1>9, <1>10, <1>11, <1>15 DEF Becomes, Go, Is
  <1>17. QED
    BY <1>7, <1>16

\* The end of a batch moves the cursor past those who were dealt with.
LEMMA BatchDoes ==
    ASSUME Inv, NEW r \in Runs, EndBatch(r)
    PROVE  \E new : Becomes(r, new)
  <1>1. /\ handled' = handled /\ run[r].at = "send"
        /\ Go(r, [run[r] EXCEPT !.at = "save", !.off = run[r].i, !.i = 0, !.win = "none"])
    BY Zenon DEF EndBatch, At
  <1>2. PICK x : x = [run[r] EXCEPT !.at = "save", !.off = run[r].i, !.i = 0, !.win = "none"]
    OBVIOUS
  <1>3. run[r] \in Run /\ "save" \in Point /\ 0 \in 0..MaxAudience
    BY RunParts DEF Inv, Point
  <1>4. Is(x, "save", run[r].bc, run[r].phase, run[r].i, run[r].total, 0, run[r].templates)
    BY <1>2, <1>3, RunWith
  <1>5. Sound(run[r], handled)
    BY DEF Inv, RunsSound
  <1>6. Sound(x, handled')
    BY <1>1, <1>4, <1>5 DEF Sound, Is, Working, SendingPoint
  <1>7. QED
    BY <1>1, <1>2, <1>4, <1>6 DEF Becomes, Go, Is

\* A run that saved its progress, or whose feed failed, works on with what it knew.
LEMMA SaveDoes ==
    ASSUME Inv, NEW r \in Runs, SaveProgress(r) \/ FeedFails(r)
    PROVE  \E new : Becomes(r, new)
  <1>1. run[r] \in Run /\ bc \in Row /\ "loop" \in Point /\ "feed" \in Point
    BY RunParts DEF Inv, Point
  <1>2. Sound(run[r], handled)
    BY DEF Inv, RunsSound
  <1>3. handled' = handled
    BY Zenon DEF SaveProgress, FeedFails
  <1>4. run[r].at \in {"save", "send"}
    BY Zenon DEF SaveProgress, FeedFails, At
  <1>5. run[r].at \in Working /\ run[r].templates # {}
    BY <1>2, <1>4 DEF Sound, Working, SendingPoint
  <1>6. CASE SaveProgress(r)
    <2>1. PICK x : x = [run[r] EXCEPT !.at = "loop"]
      OBVIOUS
    <2>2. Is(x, "loop", run[r].bc, run[r].phase, run[r].off, run[r].total, run[r].i, run[r].templates)
      BY <1>1, <2>1, RunWith
    <2>3. Sound(x, handled')
      BY <1>3, <1>5, <2>2, WorkIsSound DEF Is
    <2>4. run' = [run EXCEPT ![r] = x]
      BY <1>6, <2>1, Zenon DEF SaveProgress, Go
    <2>5. QED
      BY <2>2, <2>3, <2>4 DEF Becomes, Is
  <1>7. CASE FeedFails(r)
    <2>1. PICK x : x = [run[r] EXCEPT !.at = "feed", !.bc = bc]
      OBVIOUS
    <2>2. Is(x, "feed", bc, run[r].phase, run[r].off, run[r].total, run[r].i, run[r].templates)
      BY <1>1, <2>1, RunWith
    <2>3. Sound(x, handled')
      BY <1>3, <1>5, <2>2, WorkIsSound DEF Is, SendingPoint
    <2>4. run' = [run EXCEPT ![r] = x]
      BY <1>7, <2>1, Zenon DEF FeedFails, Go
    <2>5. QED
      BY <2>2, <2>3, <2>4 DEF Becomes, Is
  <1>8. QED
    BY <1>6, <1>7

\* The steps that end with the return of Process.
Returning(r) ==
    \/ PrepareAudience(r) \/ PauseQueueEntries(r) \/ Timeout(r) \/ TestCompleted(r)
    \/ PauseForFeed(r) \/ Finish(r) \/ Fail(r) \/ FinalizeStatus(r)

\* They leave a sound run.
LEMMA ReturningDoes ==
    ASSUME Inv, NEW r \in Runs, Returning(r)
    PROVE  (\E new : Becomes(r, new)) /\ handled' = handled
  <1>1. handled' = handled
    BY Zenon DEF Returning, PrepareAudience, PauseQueueEntries, Timeout, TestCompleted, PauseForFeed, Finish,
                 Fail, FinalizeStatus
  <1>2. \/ \E res \in {"more", "completed", "failed"} : Return(r, res)
        \/ ReturnError(r)
    <2>1. PrepareAudience(r) \/ Finish(r) => Return(r, "more") \/ Return(r, "completed") \/ ReturnError(r)
      BY Zenon DEF PrepareAudience, Finish
    <2>2. PauseQueueEntries(r) \/ Timeout(r) \/ TestCompleted(r) => Return(r, "more")
      BY Zenon DEF PauseQueueEntries, Timeout, TestCompleted
    <2>3. PauseForFeed(r) \/ FinalizeStatus(r) => Return(r, "failed")
      BY Zenon DEF PauseForFeed, FinalizeStatus
    <2>4. Fail(r) => ReturnError(r)
      BY Zenon DEF Fail
    <2>5. QED
      BY <2>1, <2>2, <2>3, <2>4, Zenon DEF Returning
  <1>3. QED
    <2>1. ASSUME NEW res \in {"more", "completed", "failed"}, Return(r, res)
          PROVE  \E new : Becomes(r, new)
      BY <1>1, <2>1, ReturnDoes
    <2>2. ASSUME ReturnError(r)
          PROVE  \E new : Becomes(r, new)
      <3>1. "failed" \in {"more", "completed", "failed"}
        OBVIOUS
      <3>2. QED
        BY <1>1, <2>2, <3>1, ReturnDoes
    <2>3. QED
      BY <1>1, <1>2, <2>1, <2>2

-----------------------------------------------------------------------------
(* One step, variable by variable.                                           *)

\* A step of run r.
Step(r) ==
    \/ StartRun(r) \/ ReadToPrepare(r) \/ ReadToFinalize(r) \/ EndRun(r) \/ Crash(r) \/ CutOff(r)
    \/ CountRecipients(r) \/ LoadPhase(r) \/ MarkTesting(r) \/ ReadToEvaluate(r) \/ EvaluateWinner(r)
    \/ Refresh(r) \/ SkipRefresh(r) \/ PhaseComplete(r) \/ FetchBatch(r) \/ SendRecipient(r)
    \/ EndBatch(r) \/ SaveProgress(r) \/ FeedFails(r) \/ Returning(r)

\* A step of a request, of the clock or of an event.
Outside ==
    \/ ScheduleBroadcast \/ TimeComes \/ HandlePausedEvent \/ Change
    \/ \E op \in Op : ReadToChange(op)

\* There are no other steps.
LEMMA Steps ==
    Next <=> Outside \/ \E r \in Runs : Step(r)
  BY Zenon DEF Next, Outside, Step, Returning, Process

\* Recipients that have been dealt with stay so, and the audience is what it is.
LEMMA Grows ==
    ASSUME Inv, [Next]_vars
    PROVE  handled \subseteq handled' /\ audience' = audience /\ handled' \subseteq Recipient
  <1>0. handled \subseteq Recipient
    BY DEF Inv, TypeOK
  <1>1. CASE UNCHANGED vars
    BY <1>0, <1>1 DEF vars
  <1>2. CASE Outside
    <2>1. UNCHANGED <<handled, audience>>
      BY <1>2, Zenon DEF Outside, ScheduleBroadcast, TimeComes, HandlePausedEvent, Change, ReadToChange,
                     PauseBroadcast, ResumeBroadcast, CancelBroadcast, SelectWinner
    <2>2. QED
      BY <1>0, <2>1
  <1>3. ASSUME NEW r \in Runs, Step(r)
        PROVE  handled \subseteq handled' /\ audience' = audience /\ handled' \subseteq Recipient
    <2>1. audience' = audience
      <3>1. Returning(r) => audience' = audience
        BY Zenon DEF Returning, PrepareAudience, PauseQueueEntries, Timeout, TestCompleted, PauseForFeed, Finish,
                     Fail, FinalizeStatus
      <3>2. QED
        BY <1>3, <3>1, Zenon DEF Step, StartRun, ReadToPrepare, ReadToFinalize, EndRun, Crash, CutOff,
             CountRecipients, LoadPhase, MarkTesting, ReadToEvaluate, EvaluateWinner, Refresh, SkipRefresh,
             PhaseComplete, FetchBatch, SendRecipient, EndBatch, SaveProgress, FeedFails
    <2>2. CASE SendRecipient(r)
      BY <2>1, <2>2, SendDoes
    <2>3. CASE Returning(r)
      BY <1>0, <2>1, <2>3, ReturningDoes
    <2>4. CASE ~SendRecipient(r) /\ ~Returning(r)
      <3>1. handled' = handled
        BY <1>3, <2>4, Zenon DEF Step, StartRun, ReadToPrepare, ReadToFinalize, EndRun, Crash, CutOff,
             CountRecipients, LoadPhase, MarkTesting, ReadToEvaluate, EvaluateWinner, Refresh, SkipRefresh,
             PhaseComplete, FetchBatch, EndBatch, SaveProgress, FeedFails
      <3>2. QED
        BY <1>0, <2>1, <3>1
    <2>5. QED
      BY <2>2, <2>3, <2>4
  <1>4. QED
    BY <1>1, <1>2, <1>3, Steps

\* Every step of a run leaves a sound run.
LEMMA StepDoes ==
    ASSUME Inv, NEW r \in Runs, Step(r)
    PROVE  \E new : Becomes(r, new)
  <1>1. CASE StartRun(r) \/ ReadToPrepare(r) \/ ReadToFinalize(r)
    BY <1>1, StartDoes, ReadsDoes
  <1>2. CASE EndRun(r) \/ Crash(r) \/ CutOff(r)
    BY <1>2, GoneDoes, CutDoes
  <1>3. CASE CountRecipients(r) \/ LoadPhase(r) \/ MarkTesting(r)
    BY <1>3, CountDoes, LoadDoes, MarkDoes
  <1>4. CASE ReadToEvaluate(r) \/ EvaluateWinner(r) \/ Refresh(r) \/ SkipRefresh(r)
    BY <1>4, EvaluateReadDoes, EvaluateDoes, RefreshDoes
  <1>5. CASE PhaseComplete(r) \/ FetchBatch(r) \/ SendRecipient(r)
    BY <1>5, CompleteDoes, FetchDoes, SendDoes
  <1>6. CASE EndBatch(r) \/ SaveProgress(r) \/ FeedFails(r) \/ Returning(r)
    BY <1>6, BatchDoes, SaveDoes, ReturningDoes
  <1>7. QED
    BY <1>1, <1>2, <1>3, <1>4, <1>5, <1>6, Zenon DEF Step

\* What becomes of the runs: they stay sound, and a row in memory was read, written or
\* kept.
LEMMA RunsDo ==
    ASSUME Inv, [Next]_vars
    PROVE  /\ run' \in [Runs -> Run] /\ RunsSound'
           /\ \A q \in Runs : run'[q].bc \in {run[q].bc, bc, bc', Draft}
  <1>1. handled \subseteq handled' /\ audience' = audience
    BY Grows
  <1>2. CASE run' = run
    <2>1. run \in [Runs -> Run] /\ \A q \in Runs : Sound(run[q], handled)
      BY DEF Inv, TypeOK, RunsSound
    <2>2. \A q \in Runs : Sound(run[q], handled')
      BY <1>1, <2>1, SoundGrows
    <2>3. QED
      BY <1>1, <1>2, <2>1, <2>2 DEF RunsSound, Sound
  <1>3. ASSUME NEW r \in Runs, Step(r)
        PROVE  /\ run' \in [Runs -> Run] /\ RunsSound'
               /\ \A q \in Runs : run'[q].bc \in {run[q].bc, bc, bc', Draft}
    <2>1. PICK new : Becomes(r, new)
      BY <1>3, StepDoes
    <2>2. QED
      BY <1>1, <2>1, RunStep
  <1>4. Outside \/ UNCHANGED vars => run' = run
    BY Zenon DEF Outside, ScheduleBroadcast, TimeComes, HandlePausedEvent, Change, ReadToChange,
                 PauseBroadcast, ResumeBroadcast, CancelBroadcast, SelectWinner, vars
  <1>5. QED
    BY <1>2, <1>3, <1>4, Steps

\* A task that knows no more than its runs.
GoodTask(t) ==
    /\ t \in Task /\ t.total \in {0, audience} /\ 1..t.off \subseteq handled
    /\ ~Testing => t.phase \in {"none", "single"}

\* The task is good, so is the empty one, and so is one that a handler writes.
LEMMA TasksAreGood ==
    ASSUME Inv
    PROVE  /\ GoodTask(task) /\ GoodTask(NoTask)
           /\ \A st \in {"pending", "running", "paused", "failed"} : \A x :
                /\ x = [NoTask EXCEPT !.st = st, !.due = TRUE] => GoodTask(x)
                /\ x = [NoTask EXCEPT !.st = st, !.due = FALSE] => GoodTask(x)
                /\ x = [task EXCEPT !.st = st] => GoodTask(x)
                /\ x = [task EXCEPT !.due = TRUE] => GoodTask(x)
                /\ x = [task EXCEPT !.st = st, !.due = TRUE] => GoodTask(x)
                /\ x = [task EXCEPT !.st = st, !.due = FALSE] => GoodTask(x)
                /\ x = [task EXCEPT !.st = st, !.due = TRUE, !.retries = 0] => GoodTask(x)
                /\ \A n \in 0..(MaxRetries + 1) :
                     x = [task EXCEPT !.st = st, !.due = FALSE, !.retries = n] => GoodTask(x)
  <1>1. GoodTask(task)
    BY DEF Inv, TypeOK, TaskSound, GoodTask
  <1>2. GoodTask(NoTask)
    BY EmptyRows DEF GoodTask
  <1>3. 0 \in 0..(MaxRetries + 1)
    OBVIOUS
  <1>4. ASSUME NEW t, GoodTask(t), NEW st \in {"pending", "running", "paused", "failed"}, NEW x,
               NEW n \in 0..(MaxRetries + 1)
        PROVE  /\ x = [t EXCEPT !.st = st] => GoodTask(x)
               /\ x = [t EXCEPT !.due = TRUE] => GoodTask(x)
               /\ x = [t EXCEPT !.st = st, !.due = TRUE] => GoodTask(x)
               /\ x = [t EXCEPT !.st = st, !.due = FALSE] => GoodTask(x)
               /\ x = [t EXCEPT !.st = st, !.due = TRUE, !.retries = 0] => GoodTask(x)
               /\ x = [t EXCEPT !.st = st, !.due = FALSE, !.retries = n] => GoodTask(x)
    BY <1>3, <1>4, ZenonT(90) DEF GoodTask, Task
  <1>5. QED
    BY <1>1, <1>2, <1>3, <1>4, ZenonT(90)

\* The task of a failed run.
LEMMA FailedIsGood ==
    ASSUME Inv
    PROVE  GoodTask(FailedTask)
  <1>1. PICK st \in {"pending", "failed"} : st = IF task.retries < MaxRetries THEN "pending" ELSE "failed"
    OBVIOUS
  <1>2. task.retries \in 0..(MaxRetries + 1)
    BY DEF Inv, TypeOK, Task
  <1>3. PICK n \in 0..(MaxRetries + 1) : n = IF task.retries > MaxRetries THEN task.retries ELSE task.retries + 1
    BY <1>2
  <1>4. PICK x : x = [task EXCEPT !.st = st, !.due = FALSE, !.retries = n]
    OBVIOUS
  <1>5. GoodTask(x)
    BY <1>4, TasksAreGood
  <1>6. FailedTask = x
    BY <1>1, <1>3, <1>4, Zenon DEF FailedTask
  <1>7. QED
    BY <1>5, <1>6

\* The task of a run that says what it knows.
LEMMA SavedIsGood ==
    ASSUME Inv, NEW r \in Runs, NEW st \in {"pending", "completed"}
    PROVE  /\ GoodTask(SavedTask(r, st))
           /\ GoodTask([task EXCEPT !.off = run[r].off, !.phase = run[r].phase, !.total = run[r].total])
  <1>1. GoodTask(task)
    BY TasksAreGood
  <1>2. PICK off \in 0..MaxAudience, phase \in Phase, total \in 0..MaxAudience :
          off = run[r].off /\ phase = run[r].phase /\ total = run[r].total
    BY RunParts DEF Inv
  <1>3. /\ total \in {0, audience} /\ 1..off \subseteq handled
        /\ ~Testing => phase \in {"none", "single"}
    BY <1>2 DEF Inv, RunsSound, Sound
  <1>4. PICK n \in 0..(MaxRetries + 1) : n = IF st = "pending" THEN 0 ELSE task.retries
    BY <1>1 DEF GoodTask, Task
  <1>5. PICK x : x = [task EXCEPT !.st = st, !.due = TRUE, !.phase = phase, !.off = off, !.total = total, !.retries = n]
    OBVIOUS
  <1>6. PICK y : y = [task EXCEPT !.off = off, !.phase = phase, !.total = total]
    OBVIOUS
  <1>7. GoodTask(x)
    BY <1>1, <1>3, <1>5 DEF GoodTask, Task
  <1>8. GoodTask(y)
    BY <1>1, <1>3, <1>6 DEF GoodTask, Task
  <1>9. SavedTask(r, st) = x
    BY <1>2, <1>4, <1>5, Zenon DEF SavedTask
  <1>10. [task EXCEPT !.off = run[r].off, !.phase = run[r].phase, !.total = run[r].total] = y
    BY <1>2, <1>6, Zenon
  <1>11. QED
    BY <1>7, <1>8, <1>9, <1>10, Zenon

\* What a request or an event makes of the task.
LEMMA TaskFromOutside ==
    ASSUME Inv, Outside
    PROVE  GoodTask(task')
  <1>1. GoodTask(task) /\ GoodTask(FailedTask)
    BY TasksAreGood, FailedIsGood
  <1>2. CASE ScheduleBroadcast
    <2>1. PICK now \in BOOLEAN : task' = [NoTask EXCEPT !.st = "pending", !.due = now]
      BY <1>2, Zenon DEF ScheduleBroadcast
    <2>2. CASE now = TRUE
      <3>1. task' = [NoTask EXCEPT !.st = "pending", !.due = TRUE]
        BY <2>1, <2>2, Zenon
      <3>2. QED
        BY <3>1, TasksAreGood
    <2>3. CASE now = FALSE
      <3>1. task' = [NoTask EXCEPT !.st = "pending", !.due = FALSE]
        BY <2>1, <2>3, Zenon
      <3>2. QED
        BY <3>1, TasksAreGood
    <2>4. QED
      BY <2>2, <2>3
  <1>3. CASE TimeComes
    BY <1>3, TasksAreGood DEF TimeComes
  <1>4. CASE HandlePausedEvent
    <2>1. task' = task \/ task' = [task EXCEPT !.st = "paused", !.due = FALSE]
      BY <1>4, Zenon DEF HandlePausedEvent
    <2>2. QED
      BY <1>1, <2>1, TasksAreGood
  <1>5. CASE PauseBroadcast
    <2>1. task' = task \/ task' = [task EXCEPT !.st = "paused", !.due = FALSE]
      BY <1>5, Zenon DEF PauseBroadcast, Handled, HandledAlone
    <2>2. QED
      BY <1>1, <2>1, TasksAreGood
  <1>6. CASE ResumeBroadcast
    <2>1. task' = task \/ task' = [task EXCEPT !.st = "pending", !.due = TRUE, !.retries = 0]
      BY <1>6, Zenon DEF ResumeBroadcast, Handled, HandledAlone
    <2>2. QED
      BY <1>1, <2>1, TasksAreGood
  <1>7. CASE CancelBroadcast
    <2>1. task' = task \/ task' = FailedTask
      BY <1>7, Zenon DEF CancelBroadcast, Handled, HandledAlone
    <2>2. QED
      BY <1>1, <2>1, Zenon
  <1>8. ASSUME NEW v \in Variation, SelectWinner(v)
        PROVE  GoodTask(task')
    <2>1. task' = task \/ task' = [task EXCEPT !.st = "pending", !.due = TRUE]
      BY <1>8, Zenon DEF SelectWinner
    <2>2. QED
      BY <1>1, <2>1, TasksAreGood
  <1>9. ASSUME NEW op \in Op, ReadToChange(op)
        PROVE  GoodTask(task')
    <2>1. task' = task
      BY <1>9, Zenon DEF ReadToChange
    <2>2. QED
      BY <1>1, <2>1
  <1>10. QED
    BY <1>2, <1>3, <1>4, <1>5, <1>6, <1>7, <1>8, <1>9, Zenon DEF Outside, Change

\* What a run makes of the task.
LEMMA TaskFromRun ==
    ASSUME Inv, NEW r \in Runs, Step(r)
    PROVE  GoodTask(task')
  <1>1. GoodTask(task) /\ GoodTask(FailedTask)
    BY TasksAreGood, FailedIsGood
  <1>2. CASE StartRun(r)
    BY <1>2, TasksAreGood DEF StartRun
  <1>3. CASE SaveProgress(r)
    <2>1. \/ task' = task
          \/ task' = [task EXCEPT !.off = run[r].off, !.phase = run[r].phase, !.total = run[r].total]
      BY <1>3, Zenon DEF SaveProgress
    <2>2. GoodTask([task EXCEPT !.off = run[r].off, !.phase = run[r].phase, !.total = run[r].total])
      BY SavedIsGood
    <2>3. QED
      BY <1>1, <2>1, <2>2, Zenon
  <1>4. CASE EndRun(r)
    <2>1. task' \in {task, SavedTask(r, "pending"), SavedTask(r, "completed"), FailedTask}
      <3>1. run[r].res \in {"more", "completed", "failed"}
        BY DEF Inv, TypeOK, Run
      <3>2. task' = IF ~run[r].live THEN task
                    ELSE CASE run[r].res = "more" -> SavedTask(r, "pending")
                           [] run[r].res = "completed" -> SavedTask(r, "completed")
                           [] OTHER -> FailedTask
        BY <1>4, Zenon DEF EndRun
      <3>3. PICK a, b, c : a = SavedTask(r, "pending") /\ b = SavedTask(r, "completed") /\ c = FailedTask
        OBVIOUS
      <3>4. task' = IF ~run[r].live THEN task
                    ELSE CASE run[r].res = "more" -> a [] run[r].res = "completed" -> b [] OTHER -> c
        BY <3>2, <3>3, Zenon
      <3>5. task' \in {task, a, b, c}
        BY <3>1, <3>4
      <3>6. QED
        BY <3>3, <3>5, Zenon
    <2>2. GoodTask(SavedTask(r, "pending")) /\ GoodTask(SavedTask(r, "completed"))
      BY SavedIsGood
    <2>3. QED
      BY <1>1, <2>1, <2>2, Zenon
  <1>5. CASE CutOff(r)
    <2>1. task' = task \/ task' = FailedTask \/ task' = [task EXCEPT !.st = "pending", !.due = FALSE]
      BY <1>5, Zenon DEF CutOff
    <2>2. \A x : x = [task EXCEPT !.st = "pending", !.due = FALSE] => GoodTask(x)
      BY TasksAreGood
    <2>3. QED
      BY <1>1, <2>1, <2>2, Zenon
  <1>6. CASE ~StartRun(r) /\ ~SaveProgress(r) /\ ~EndRun(r) /\ ~CutOff(r)
    <2>1. Returning(r) => task' = task
      BY Zenon DEF Returning, PrepareAudience, PauseQueueEntries, Timeout, TestCompleted, PauseForFeed, Finish,
                   Fail, FinalizeStatus
    <2>2. task' = task
      BY <1>6, <2>1, Zenon DEF Step, ReadToPrepare, ReadToFinalize, Crash, CountRecipients, LoadPhase, MarkTesting,
           ReadToEvaluate, EvaluateWinner, Refresh, SkipRefresh, PhaseComplete, FetchBatch, SendRecipient, EndBatch,
           FeedFails
    <2>3. QED
      BY <1>1, <2>2
  <1>7. QED
    BY <1>2, <1>3, <1>4, <1>5, <1>6

\* The task stays sound.
LEMMA TaskDoes ==
    ASSUME Inv, [Next]_vars
    PROVE  task' \in Task /\ TaskSound'
  <1>1. GoodTask(task')
    <2>1. UNCHANGED vars => task' = task
      BY Zenon DEF vars
    <2>2. QED
      BY <2>1, Steps, TaskFromOutside, TaskFromRun, TasksAreGood, Zenon
  <1>2. handled \subseteq handled' /\ audience' = audience
    BY Grows
  <1>3. QED
    BY <1>1, <1>2 DEF GoodTask, TaskSound

\* A row that claims to be completely enqueued only when it is.
GoodRow(b) == b \in Row /\ (b.completed => 1..audience \subseteq handled)

\* Every row that is stored, in the memory of a run or of a request, is good.
LEMMA RowsAreGood ==
    ASSUME Inv
    PROVE  /\ GoodRow(bc) /\ GoodRow(Draft)
           /\ \A r \in Runs : GoodRow(run[r].bc)
           /\ \A op \in Op : GoodRow(req[op])
  <1>1. GoodRow(bc) /\ \A op \in Op : GoodRow(req[op])
    BY DEF Inv, TypeOK, RowsSound, GoodRow
  <1>2. ASSUME NEW r \in Runs
        PROVE  GoodRow(run[r].bc)
    <2>1. run[r].bc \in Row /\ Sound(run[r], handled)
      BY RunParts DEF Inv, RunsSound
    <2>2. QED
      BY <2>1 DEF Sound, GoodRow
  <1>3. GoodRow(Draft)
    BY EmptyRows DEF GoodRow
  <1>4. QED
    BY <1>1, <1>2, <1>3

\* What the writes make of a good row.
LEMMA WrittenIsGood ==
    ASSUME NEW b, GoodRow(b), NEW x
    PROVE  /\ x = [b EXCEPT !.prepared = TRUE] => GoodRow(x)
           /\ x = [b EXCEPT !.future = FALSE] => GoodRow(x)
           /\ \A st \in {"scheduled", "processing", "testing", "paused", "test_completed", "failed"} :
                x = [b EXCEPT !.st = st] => GoodRow(x)
           /\ \A v \in Variation : x = [b EXCEPT !.win = v, !.st = "winner_selected"] => GoodRow(x)
           /\ x = [b EXCEPT !.st = "processing", !.started = TRUE, !.future = FALSE] => GoodRow(x)
           /\ x = [b EXCEPT !.st = "scheduled", !.started = FALSE, !.future = TRUE] => GoodRow(x)
           /\ x = [b EXCEPT !.st = "processed", !.completed = TRUE] /\ 1..audience \subseteq handled => GoodRow(x)
  <1>1. b \in Row /\ (b.completed => 1..audience \subseteq handled)
    BY DEF GoodRow
  <1>2. ASSUME NEW st \in {"scheduled", "processing", "testing", "paused", "test_completed", "failed"}, NEW v \in Variation
        PROVE  /\ x = [b EXCEPT !.st = st] => x \in Row /\ (x.completed => b.completed)
               /\ x = [b EXCEPT !.prepared = TRUE] => x \in Row /\ (x.completed => b.completed)
               /\ x = [b EXCEPT !.future = FALSE] => x \in Row /\ (x.completed => b.completed)
               /\ x = [b EXCEPT !.win = v, !.st = "winner_selected"] => x \in Row /\ (x.completed => b.completed)
    BY <1>1, ZenonT(90) DEF Row
  <1>3. /\ x = [b EXCEPT !.st = "processing", !.started = TRUE, !.future = FALSE] => x \in Row /\ (x.completed => b.completed)
        /\ x = [b EXCEPT !.st = "scheduled", !.started = FALSE, !.future = TRUE] => x \in Row /\ (x.completed => b.completed)
    BY <1>1 DEF Row
  <1>4. x = [b EXCEPT !.st = "processed", !.completed = TRUE] => x \in Row
    BY <1>1 DEF Row
  <1>5. \E v \in Variation : TRUE
    BY DEF Variation
  <1>6. QED
    BY <1>1, <1>2, <1>3, <1>4, <1>5 DEF GoodRow

\* A status change of a request takes the claim of the row that was read.
LEMMA StatusIsGood ==
    ASSUME GoodRow(bc), NEW b, GoodRow(b), NEW started \in BOOLEAN,
           NEW st \in {"scheduled", "processing", "paused", "processed", "cancelled"},
           StatusWrite(b, st, started)
    PROVE  GoodRow(bc')
  <1>1. b.completed \in BOOLEAN
    BY DEF GoodRow, Row
  <1>2. bc' = [bc EXCEPT !.st = st, !.started = started, !.completed = b.completed]
    BY Zenon DEF StatusWrite
  <1>3. ASSUME NEW x
        PROVE  /\ x = [bc EXCEPT !.st = st, !.started = TRUE, !.completed = TRUE] => x \in Row /\ x.completed
               /\ x = [bc EXCEPT !.st = st, !.started = TRUE, !.completed = FALSE] => x \in Row /\ ~x.completed
               /\ x = [bc EXCEPT !.st = st, !.started = FALSE, !.completed = TRUE] => x \in Row /\ x.completed
               /\ x = [bc EXCEPT !.st = st, !.started = FALSE, !.completed = FALSE] => x \in Row /\ ~x.completed
    BY ZenonT(90) DEF GoodRow, Row
  <1>4. \/ bc' = [bc EXCEPT !.st = st, !.started = TRUE, !.completed = TRUE] /\ b.completed = TRUE
        \/ bc' = [bc EXCEPT !.st = st, !.started = FALSE, !.completed = TRUE] /\ b.completed = TRUE
        \/ bc' = [bc EXCEPT !.st = st, !.started = TRUE, !.completed = FALSE]
        \/ bc' = [bc EXCEPT !.st = st, !.started = FALSE, !.completed = FALSE]
    <2>1. (started = TRUE \/ started = FALSE) /\ (b.completed = TRUE \/ b.completed = FALSE)
      BY <1>1
    <2>2. QED
      BY <1>2, <2>1, Zenon
  <1>5. bc' \in Row /\ (bc'.completed => b.completed)
    BY <1>3, <1>4
  <1>6. QED
    BY <1>5 DEF GoodRow

\* Whatever a run writes is a good row.
LEMMA RowFromRun ==
    ASSUME Inv, NEW r \in Runs, Step(r)
    PROVE  GoodRow(bc')
  <1>1. GoodRow(bc) /\ GoodRow(run[r].bc)
    BY RowsAreGood
  <1>2. CASE PrepareAudience(r)
    <2>1. bc' = bc \/ bc' = [run[r].bc EXCEPT !.prepared = TRUE]
      BY <1>2, Zenon DEF PrepareAudience
    <2>2. QED
      BY <1>1, <2>1, WrittenIsGood
  <1>3. CASE CountRecipients(r)
    <2>1. CASE audience > 0
      BY <1>1, <1>3, <2>1 DEF CountRecipients
    <2>2. CASE ~(audience > 0)
      <3>1. bc' = bc \/ bc' = [bc EXCEPT !.st = "processed", !.completed = TRUE]
        BY <1>3, <2>2, Zenon DEF CountRecipients
      <3>2. 1..audience \subseteq handled
        BY <2>2 DEF Inv, TypeOK
      <3>3. QED
        BY <1>1, <3>1, <3>2, WrittenIsGood
    <2>3. QED
      BY <2>1, <2>2
  <1>4. CASE MarkTesting(r)
    <2>1. bc' = bc \/ bc' = [run[r].bc EXCEPT !.st = "testing"]
      BY <1>4, Zenon DEF MarkTesting
    <2>2. QED
      BY <1>1, <2>1, WrittenIsGood
  <1>5. CASE EvaluateWinner(r)
    <2>1. bc' = bc \/ \E v \in Variation : bc' = [run[r].bc EXCEPT !.win = v, !.st = "winner_selected"]
      BY <1>5, Zenon DEF EvaluateWinner
    <2>2. QED
      BY <1>1, <2>1, WrittenIsGood
  <1>6. CASE TestCompleted(r)
    <2>1. bc' = bc \/ bc' = [run[r].bc EXCEPT !.st = "test_completed"]
      BY <1>6, Zenon DEF TestCompleted
    <2>2. QED
      BY <1>1, <2>1, WrittenIsGood
  <1>7. CASE PauseForFeed(r)
    <2>1. bc' = bc \/ bc' = [run[r].bc EXCEPT !.st = "paused"]
      BY <1>7, Zenon DEF PauseForFeed
    <2>2. QED
      BY <1>1, <2>1, WrittenIsGood
  <1>8. CASE Finish(r)
    <2>1. bc' = bc \/ bc' = run[r].bc \/ bc' = [run[r].bc EXCEPT !.st = "processed", !.completed = TRUE]
      BY <1>8, Zenon DEF Finish
    <2>2. 1..audience \subseteq handled
      <3>1. run[r].at = "finish"
        BY <1>8, Zenon DEF Finish, At
      <3>2. Sound(run[r], handled)
        BY DEF Inv, RunsSound
      <3>3. run[r].off >= audience /\ 1..run[r].off \subseteq handled
        BY <3>1, <3>2 DEF Sound, Working
      <3>4. run[r].off \in Nat /\ audience \in Nat
        BY RunParts DEF Inv
      <3>5. QED
        BY <3>3, <3>4
    <2>3. QED
      BY <1>1, <2>1, <2>2, WrittenIsGood
  <1>9. CASE FinalizeStatus(r)
    <2>1. PICK st \in {"failed", "paused"} : st = IF run[r].live THEN "failed" ELSE "paused"
      OBVIOUS
    <2>2. bc' = bc \/ bc' = [run[r].bc EXCEPT !.st = st]
      BY <1>9, <2>1, Zenon DEF FinalizeStatus
    <2>3. QED
      BY <1>1, <2>2, WrittenIsGood
  <1>10. CASE /\ ~PrepareAudience(r) /\ ~CountRecipients(r) /\ ~MarkTesting(r) /\ ~EvaluateWinner(r)
              /\ ~TestCompleted(r) /\ ~PauseForFeed(r) /\ ~Finish(r) /\ ~FinalizeStatus(r)
    <2>1. bc' = bc
      BY <1>10, Zenon DEF Step, Returning, StartRun, ReadToPrepare, ReadToFinalize, EndRun, Crash, CutOff, LoadPhase,
           ReadToEvaluate, Refresh, SkipRefresh, PhaseComplete, FetchBatch, SendRecipient, EndBatch, SaveProgress,
           FeedFails, PauseQueueEntries, Timeout, Fail
    <2>2. QED
      BY <1>1, <2>1
  <1>11. QED
    BY <1>2, <1>3, <1>4, <1>5, <1>6, <1>7, <1>8, <1>9, <1>10

\* Whatever a request writes is a good row.
LEMMA RowFromOutside ==
    ASSUME Inv, Outside
    PROVE  GoodRow(bc')
  <1>1. GoodRow(bc) /\ \A op \in Op : GoodRow(req[op])
    BY RowsAreGood
  <1>2. CASE ScheduleBroadcast
    <2>1. PICK now \in BOOLEAN : bc' = [bc EXCEPT !.st = IF now THEN "processing" ELSE "scheduled",
                                                  !.started = now, !.future = ~now]
      BY <1>2, Zenon DEF ScheduleBroadcast
    <2>2. CASE now = TRUE
      <3>1. bc' = [bc EXCEPT !.st = "processing", !.started = TRUE, !.future = FALSE]
        BY <2>1, <2>2
      <3>2. QED
        BY <1>1, <3>1, WrittenIsGood
    <2>3. CASE now = FALSE
      <3>1. bc' = [bc EXCEPT !.st = "scheduled", !.started = FALSE, !.future = TRUE]
        BY <2>1, <2>3
      <3>2. QED
        BY <1>1, <3>1, WrittenIsGood
    <2>4. QED
      BY <2>2, <2>3
  <1>3. CASE TimeComes
    <2>1. bc' = [bc EXCEPT !.future = FALSE]
      BY <1>3, Zenon DEF TimeComes
    <2>2. QED
      BY <1>1, <2>1, WrittenIsGood
  <1>4. CASE PauseBroadcast
    <2>1. bc' = bc \/ StatusWrite(req["pause"], "paused", req["pause"].started)
      BY <1>4, Zenon DEF PauseBroadcast, HandledAlone
    <2>2. GoodRow(req["pause"]) /\ req["pause"].started \in BOOLEAN
      BY <1>1 DEF Op, GoodRow, Row
    <2>3. QED
      BY <1>1, <2>1, <2>2, StatusIsGood
  <1>5. CASE ResumeBroadcast
    <2>1. PICK st \in {"processed", "scheduled", "processing"} :
            st = IF req["resume"].completed THEN "processed"
                 ELSE IF bc.future /\ ~req["resume"].started THEN "scheduled" ELSE "processing"
      OBVIOUS
    <2>2. bc' = bc \/ StatusWrite(req["resume"], st, req["resume"].started \/ st = "processing")
      BY <1>5, <2>1, Zenon DEF ResumeBroadcast, HandledAlone
    <2>3. GoodRow(req["resume"]) /\ (req["resume"].started \/ st = "processing") \in BOOLEAN
      BY <1>1 DEF Op
    <2>4. QED
      BY <1>1, <2>2, <2>3, StatusIsGood
  <1>6. CASE CancelBroadcast
    <2>1. bc' = bc \/ StatusWrite(req["cancel"], "cancelled", req["cancel"].started)
      BY <1>6, Zenon DEF CancelBroadcast, HandledAlone
    <2>2. GoodRow(req["cancel"]) /\ req["cancel"].started \in BOOLEAN
      BY <1>1 DEF Op, GoodRow, Row
    <2>3. QED
      BY <1>1, <2>1, <2>2, StatusIsGood
  <1>7. ASSUME NEW v \in Variation, SelectWinner(v)
        PROVE  GoodRow(bc')
    <2>1. PICK op \in Op : op = IF v = "A" THEN "selectA" ELSE "selectB"
      BY DEF Op
    <2>2. bc' = bc \/ bc' = [req[op] EXCEPT !.win = v, !.st = "winner_selected"]
      BY <1>7, <2>1, Zenon DEF SelectWinner
    <2>3. QED
      BY <1>1, <2>2, WrittenIsGood
  <1>8. HandlePausedEvent \/ (\E op \in Op : ReadToChange(op)) => bc' = bc
    BY Zenon DEF HandlePausedEvent, ReadToChange
  <1>9. QED
    BY <1>1, <1>2, <1>3, <1>4, <1>5, <1>6, <1>7, <1>8, Zenon DEF Outside, Change

\* A request holds the row it had, the row as it was read, or none.
LEMMA RequestsDo ==
    ASSUME Inv, [Next]_vars
    PROVE  req' \in [Op -> Row] /\ \A op \in Op : GoodRow(req'[op])
  <1>1. req \in [Op -> Row] /\ GoodRow(bc) /\ GoodRow(Draft) /\ \A op \in Op : GoodRow(req[op])
    BY RowsAreGood DEF Inv, TypeOK
  <1>2. req' = req \/ \E op \in Op, b \in {bc, Draft} : req' = [req EXCEPT ![op] = b]
    <2>1. CASE PauseBroadcast \/ ResumeBroadcast \/ CancelBroadcast
      BY <2>1 DEF PauseBroadcast, ResumeBroadcast, CancelBroadcast, Op
    <2>2. ASSUME NEW v \in Variation, SelectWinner(v)
          PROVE  \E op \in Op, b \in {bc, Draft} : req' = [req EXCEPT ![op] = b]
      <3>1. PICK op \in Op : op = IF v = "A" THEN "selectA" ELSE "selectB"
        BY DEF Op
      <3>2. req' = [req EXCEPT ![op] = Draft]
        BY <2>2, <3>1, Zenon DEF SelectWinner
      <3>3. QED
        BY <3>2
    <2>3. ASSUME NEW op \in Op, ReadToChange(op)
          PROVE  req' = [req EXCEPT ![op] = bc]
      BY <2>3, Zenon DEF ReadToChange
    <2>4. ASSUME NEW r \in Runs, Step(r)
          PROVE  req' = req
      <3>1. Returning(r) => req' = req
        BY Zenon DEF Returning, PrepareAudience, PauseQueueEntries, Timeout, TestCompleted, PauseForFeed, Finish,
                     Fail, FinalizeStatus
      <3>2. QED
        BY <2>4, <3>1, Zenon DEF Step, StartRun, ReadToPrepare, ReadToFinalize, EndRun, Crash, CutOff,
             CountRecipients, LoadPhase, MarkTesting, ReadToEvaluate, EvaluateWinner, Refresh, SkipRefresh,
             PhaseComplete, FetchBatch, SendRecipient, EndBatch, SaveProgress, FeedFails
    <2>5. ScheduleBroadcast \/ TimeComes \/ HandlePausedEvent \/ UNCHANGED vars => req' = req
      BY Zenon DEF ScheduleBroadcast, TimeComes, HandlePausedEvent, vars
    <2>6. QED
      BY <2>1, <2>2, <2>3, <2>4, <2>5, Steps DEF Outside, Change
  <1>3. CASE req' = req
    BY <1>1, <1>3
  <1>4. ASSUME NEW o \in Op, NEW b \in {bc, Draft}, req' = [req EXCEPT ![o] = b]
        PROVE  req' \in [Op -> Row] /\ \A op \in Op : GoodRow(req'[op])
    <2>1. GoodRow(b) /\ b \in Row
      BY <1>1 DEF GoodRow
    <2>2. QED
      BY <1>1, <1>4, <2>1
  <1>5. QED
    BY <1>2, <1>3, <1>4

\* The queue: typed, and without a test only one key per recipient.
GoodQueue(q) ==
    /\ q \in [Keys -> {"none", "intent", "pending", "paused"}]
    /\ ~Testing => \A k \in Keys : q[k] # "none" => k[2] = "single" /\ k[3] = "A"

\* Deleting, pausing and resuming make no intent.
LEMMA QueueStatements ==
    ASSUME Inv
    PROVE  GoodQueue(rows) /\ GoodQueue(DeletedRows) /\ GoodQueue(PausedRows) /\ GoodQueue(ResumedRows)
  <1>1. GoodQueue(rows)
    BY DEF Inv, TypeOK, RowsSound, GoodQueue
  <1>2. GoodQueue(DeletedRows)
    BY <1>1 DEF GoodQueue, DeletedRows
  <1>3. GoodQueue(PausedRows)
    BY <1>1 DEF GoodQueue, PausedRows
  <1>4. GoodQueue(ResumedRows)
    BY <1>1 DEF GoodQueue, ResumedRows
  <1>5. QED
    BY <1>1, <1>2, <1>3, <1>4

\* The key of a recipient names a phase and one of the loaded templates.
LEMMA KeyOfRecipient ==
    ASSUME Inv, NEW r \in Runs, run[r].at = "send", NEW rcp \in Recipient
    PROVE  /\ EffectKey(r, rcp) \in Keys
           /\ ~Testing => EffectKey(r, rcp) = <<rcp, "single", "A">>
  <1>1. Sound(run[r], handled) /\ run[r].phase \in Phase /\ run[r].templates \subseteq Variation
    BY RunParts DEF Inv, RunsSound
  <1>2. run[r].templates # {} /\ (~Testing => run[r].templates \subseteq {"A"} /\ run[r].phase \in {"none", "single"})
    BY <1>1 DEF Sound, SendingPoint
  <1>3. (CHOOSE v \in run[r].templates : TRUE) \in run[r].templates
    BY <1>2
  <1>4. PICK t : t = Template(r, rcp)
    OBVIOUS
  <1>5. t \in run[r].templates \/ (run[r].templates = Variation /\ t \in {"A", "B"})
    <2>1. CASE run[r].win \in run[r].templates
      BY <1>4, <2>1, Zenon DEF Template
    <2>2. CASE run[r].win \notin run[r].templates /\ run[r].templates = Variation
      <3>1. t = IF rcp % 2 = 1 THEN "A" ELSE "B"
        BY <1>4, <2>2, Zenon DEF Template
      <3>2. QED
        BY <2>2, <3>1, Zenon
    <2>3. CASE run[r].win \notin run[r].templates /\ run[r].templates # Variation
      <3>1. t = CHOOSE v \in run[r].templates : TRUE
        BY <1>4, <2>3, Zenon DEF Template
      <3>2. QED
        BY <1>3, <3>1, Zenon
    <2>4. QED
      BY <2>1, <2>2, <2>3
  <1>6. t \in run[r].templates
    BY <1>5 DEF Variation
  <1>7. PICK ph : ph = IF run[r].phase = "none" THEN "single" ELSE run[r].phase
    OBVIOUS
  <1>8. ph \in {"single", "test", "winner"} /\ (~Testing => ph = "single")
    BY <1>1, <1>2, <1>7 DEF Phase
  <1>9. EffectKey(r, rcp) = <<rcp, ph, t>>
    BY <1>4, <1>7, Zenon DEF EffectKey
  <1>10. <<rcp, ph, t>> \in Keys
    <2>1. t \in Variation
      BY <1>1, <1>6
    <2>2. QED
      BY <1>8, <2>1 DEF Keys
  <1>11. ~Testing => t = "A" /\ ph = "single"
    BY <1>2, <1>6, <1>8
  <1>12. QED
    BY <1>9, <1>10, <1>11, Zenon

\* What a step makes of the queue.
LEMMA QueueDoes ==
    ASSUME Inv, [Next]_vars
    PROVE  GoodQueue(rows')
  <1>1. GoodQueue(rows) /\ GoodQueue(DeletedRows) /\ GoodQueue(PausedRows) /\ GoodQueue(ResumedRows)
    BY QueueStatements
  <1>2. ASSUME NEW r \in Runs, SendRecipient(r)
        PROVE  GoodQueue(rows')
    <2>1. PICK rcp, k : rcp = run[r].i + 1 /\ k = EffectKey(r, rcp)
      OBVIOUS
    <2>2. /\ run[r].at = "send" /\ handled' = handled \cup {rcp}
          /\ rows' = rows \/ \E new \in {"intent", "pending"} : rows' = [rows EXCEPT ![k] = new]
      BY <1>2, <2>1, Zenon DEF SendRecipient, At
    <2>3. rcp \in Recipient
      BY <1>2, <2>2, SendDoes
    <2>4. k \in Keys /\ (~Testing => k = <<rcp, "single", "A">>)
      BY <2>1, <2>2, <2>3, KeyOfRecipient
    <2>5. ASSUME NEW new \in {"intent", "pending"}, rows' = [rows EXCEPT ![k] = new]
          PROVE  GoodQueue(rows')
      <3>1. rows' \in [Keys -> {"none", "intent", "pending", "paused"}]
        BY <1>1, <2>4, <2>5 DEF GoodQueue
      <3>2. ~Testing => k[2] = "single" /\ k[3] = "A"
        BY <2>4
      <3>3. \A q \in Keys : rows'[q] # "none" => rows[q] # "none" \/ q = k
        BY <1>1, <2>4, <2>5 DEF GoodQueue
      <3>4. QED
        BY <1>1, <3>1, <3>2, <3>3 DEF GoodQueue
    <2>6. QED
      BY <1>1, <2>2, <2>5
  <1>3. ASSUME NEW r \in Runs, Step(r), ~SendRecipient(r)
        PROVE  GoodQueue(rows')
    <2>1. Returning(r) => rows' = rows \/ rows' = PausedRows
      BY Zenon DEF Returning, PrepareAudience, PauseQueueEntries, Timeout, TestCompleted, PauseForFeed, Finish,
                   Fail, FinalizeStatus
    <2>2. Refresh(r) => rows' = rows \/ rows' = DeletedRows
      BY DEF Refresh
    <2>3. rows' = rows \/ rows' = PausedRows \/ rows' = DeletedRows
      BY <1>3, <2>1, <2>2, Zenon DEF Step, StartRun, ReadToPrepare, ReadToFinalize, EndRun, Crash, CutOff,
           CountRecipients, LoadPhase, MarkTesting, ReadToEvaluate, EvaluateWinner, SkipRefresh,
           PhaseComplete, FetchBatch, EndBatch, SaveProgress, FeedFails
    <2>4. QED
      BY <1>1, <2>3, Zenon
  <1>4. CASE Outside
    <2>1. rows' = rows \/ rows' = PausedRows \/ rows' = ResumedRows \/ rows' = DeletedRows
      BY <1>4, Zenon DEF Outside, ScheduleBroadcast, TimeComes, HandlePausedEvent, Change, ReadToChange,
           PauseBroadcast, ResumeBroadcast, CancelBroadcast, SelectWinner, HandledAlone
    <2>2. QED
      BY <1>1, <2>1, Zenon
  <1>5. UNCHANGED vars => rows' = rows
    BY Zenon DEF vars
  <1>6. QED
    BY <1>1, <1>2, <1>3, <1>4, <1>5, Steps, Zenon

\* The counters stay within their bounds.
LEMMA CountersDo ==
    ASSUME Inv, [Next]_vars
    PROVE  event' \in BOOLEAN /\ ops' \in 0..MaxOps /\ faults' \in 0..MaxFaults
  <1>1. event \in BOOLEAN /\ ops \in 0..MaxOps /\ faults \in 0..MaxFaults
    BY DEF Inv, TypeOK
  <1>2. ops' = ops \/ (ops < MaxOps /\ ops' = ops + 1)
    <2>1. Outside => ops' = ops \/ (ops < MaxOps /\ ops' = ops + 1)
      BY Zenon DEF Outside, ScheduleBroadcast, TimeComes, HandlePausedEvent, Change, ReadToChange,
           PauseBroadcast, ResumeBroadcast, CancelBroadcast, SelectWinner
    <2>2. ASSUME NEW r \in Runs, Step(r)
          PROVE  ops' = ops
      <3>1. Returning(r) => ops' = ops
        BY Zenon DEF Returning, PrepareAudience, PauseQueueEntries, Timeout, TestCompleted, PauseForFeed, Finish,
                     Fail, FinalizeStatus
      <3>2. QED
        BY <2>2, <3>1, Zenon DEF Step, StartRun, ReadToPrepare, ReadToFinalize, EndRun, Crash, CutOff,
             CountRecipients, LoadPhase, MarkTesting, ReadToEvaluate, EvaluateWinner, Refresh, SkipRefresh,
             PhaseComplete, FetchBatch, SendRecipient, EndBatch, SaveProgress, FeedFails
    <2>3. UNCHANGED vars => ops' = ops
      BY Zenon DEF vars
    <2>4. QED
      BY <2>1, <2>2, <2>3, Steps, Zenon
  <1>3. faults' = faults \/ Fault
    <2>1. Outside => faults' = faults \/ Fault
      BY Zenon DEF Outside, ScheduleBroadcast, TimeComes, HandlePausedEvent, Change, ReadToChange,
           PauseBroadcast, ResumeBroadcast, CancelBroadcast, SelectWinner, Handled, HandledAlone
    <2>2. ASSUME NEW r \in Runs, Step(r)
          PROVE  faults' = faults \/ Fault
      <3>1. Returning(r) => faults' = faults \/ Fault
        BY Zenon DEF Returning, PrepareAudience, PauseQueueEntries, Timeout, TestCompleted, PauseForFeed, Finish,
                     Fail, FinalizeStatus
      <3>2. QED
        BY <2>2, <3>1, Zenon DEF Step, StartRun, ReadToPrepare, ReadToFinalize, EndRun, Crash, CutOff,
             CountRecipients, LoadPhase, MarkTesting, ReadToEvaluate, EvaluateWinner, Refresh, SkipRefresh,
             PhaseComplete, FetchBatch, SendRecipient, EndBatch, SaveProgress, FeedFails
    <2>3. UNCHANGED vars => faults' = faults
      BY Zenon DEF vars
    <2>4. QED
      BY <2>1, <2>2, <2>3, Steps, Zenon
  <1>4. event' \in BOOLEAN
    <2>1. Outside => event' = event \/ event' = FALSE
      BY Zenon DEF Outside, ScheduleBroadcast, TimeComes, HandlePausedEvent, Change, ReadToChange,
           PauseBroadcast, ResumeBroadcast, CancelBroadcast, SelectWinner
    <2>2. ASSUME NEW r \in Runs, Step(r)
          PROVE  event' = event \/ event' = TRUE
      <3>1. Returning(r) => event' = event \/ event' = TRUE
        BY Zenon DEF Returning, PrepareAudience, PauseQueueEntries, Timeout, TestCompleted, PauseForFeed, Finish,
                     Fail, FinalizeStatus
      <3>2. QED
        BY <2>2, <3>1, Zenon DEF Step, StartRun, ReadToPrepare, ReadToFinalize, EndRun, Crash, CutOff,
             CountRecipients, LoadPhase, MarkTesting, ReadToEvaluate, EvaluateWinner, Refresh, SkipRefresh,
             PhaseComplete, FetchBatch, SendRecipient, EndBatch, SaveProgress, FeedFails
    <2>3. UNCHANGED vars => event' = event
      BY Zenon DEF vars
    <2>4. QED
      BY <1>1, <2>1, <2>2, <2>3, Steps, Zenon
  <1>5. QED
    BY <1>1, <1>2, <1>3, <1>4 DEF Fault

-----------------------------------------------------------------------------
(* The theorems.                                                             *)

\* The invariant holds at first.
LEMMA InvInit ==
    ASSUME Init
    PROVE  Inv
  <1>1. /\ bc = Draft /\ task = NoTask /\ run = [r \in Runs |-> NoRun] /\ rows = [k \in Keys |-> "none"]
        /\ handled = {} /\ req = [op \in Op |-> Draft] /\ event = FALSE /\ audience \in {0, MaxAudience}
        /\ ops = 0 /\ faults = 0
    BY DEF Init
  <1>2. \A r \in Runs : run[r] = NoRun
    BY <1>1
  <1>3. /\ Draft \in Row /\ ~Draft.completed /\ NoTask \in Task /\ NoTask.off = 0 /\ NoTask.total = 0
        /\ NoTask.phase = "none" /\ NoRun \in Run
    BY EmptyRows
  <1>4. TypeOK
    <2>1. bc \in Row /\ task \in Task /\ run \in [Runs -> Run] /\ req \in [Op -> Row]
      BY <1>1, <1>3
    <2>2. rows \in [Keys -> {"none", "intent", "pending", "paused"}]
      BY <1>1
    <2>3. /\ handled \in SUBSET Recipient /\ audience \in 0..MaxAudience
          /\ ops \in 0..MaxOps /\ faults \in 0..MaxFaults
      BY <1>1
    <2>4. event \in BOOLEAN
      BY <1>1, Zenon
    <2>5. QED
      BY <2>1, <2>2, <2>3, <2>4 DEF TypeOK
  <1>5. Sound(NoRun, handled)
    <2>1. /\ NoRun.total = 0 /\ NoRun.off = 0 /\ NoRun.bc = Draft /\ NoRun.at = "idle"
          /\ NoRun.phase = "none" /\ NoRun.templates = {} /\ ~Draft.completed
      BY EmptyRows
    <2>2. QED
      BY <2>1 DEF Sound, Working, SendingPoint
  <1>6. RunsSound
    BY <1>2, <1>5 DEF RunsSound
  <1>7. TaskSound
    BY <1>1, <1>3 DEF TaskSound
  <1>8. RowsSound
    BY <1>1, <1>3 DEF RowsSound
  <1>9. QED
    BY <1>4, <1>6, <1>7, <1>8 DEF Inv

\* Every step preserves the invariant.
LEMMA InvStep ==
    ASSUME Inv, [Next]_vars
    PROVE  Inv'
  <1>1. handled \subseteq handled' /\ audience' = audience /\ handled' \subseteq Recipient
    BY Grows
  <1>2. run' \in [Runs -> Run] /\ RunsSound'
    BY RunsDo
  <1>3. task' \in Task /\ TaskSound'
    BY TaskDoes
  <1>4. GoodRow(bc')
    <2>1. UNCHANGED vars => bc' = bc
      BY Zenon DEF vars
    <2>2. QED
      BY <2>1, Steps, RowFromRun, RowFromOutside, RowsAreGood, Zenon
  <1>5. req' \in [Op -> Row] /\ \A op \in Op : GoodRow(req'[op])
    BY RequestsDo
  <1>6. GoodQueue(rows')
    BY QueueDoes
  <1>7. event' \in BOOLEAN /\ ops' \in 0..MaxOps /\ faults' \in 0..MaxFaults
    BY CountersDo
  <1>8. TypeOK'
    <2>1. audience' \in 0..MaxAudience
      BY <1>1 DEF Inv, TypeOK
    <2>2. QED
      BY <1>1, <1>2, <1>3, <1>4, <1>5, <1>6, <1>7, <2>1 DEF TypeOK, GoodRow, GoodQueue
  <1>9. RowsSound'
    BY <1>1, <1>4, <1>5, <1>6 DEF RowsSound, GoodRow, GoodQueue
  <1>10. QED
    BY <1>2, <1>3, <1>8, <1>9 DEF Inv

\* The invariant holds throughout.
LEMMA InvHolds == Spec => []Inv
  <1>1. Init => Inv
    BY InvInit
  <1>2. Inv /\ [Next]_vars => Inv'
    BY InvStep
  <1>3. QED
    BY <1>1, <1>2, PTL DEF Spec

\* The broadcast, its task, its runs, its queue rows and the requests under way always
\* hold values of their types.
THEOREM BroadcastTypeCorrect == Spec => []TypeOK
  <1>1. Inv => TypeOK
    BY DEF Inv
  <1>2. QED
    BY <1>1, InvHolds, PTL

\* No cursor, saved or in memory, has a recipient behind it that was not dealt with, and
\* a broadcast that counts as completely enqueued has skipped nobody, however many
\* batches, retries, crashes, overlapping runs and requests there are.
THEOREM NobodySkipped == Spec => []NoneSkipped
  <1>1. Inv => NoneSkipped
    BY DEF Inv, NoneSkipped, TaskSound, RunsSound, RowsSound, Sound
  <1>2. QED
    BY <1>1, InvHolds, PTL

\* A broadcast without an A/B test makes at most one delivery for a recipient, however
\* often its cursor is replayed.
THEOREM OneEmailPerRecipient ==
    ASSUME ~Testing
    PROVE  Spec => []OneEmailEach
  <1>1. ASSUME Inv
        PROVE  OneEmailEach
    <2>1. ASSUME NEW rcp \in Recipient
          PROVE  Cardinality({k \in Keys : k[1] = rcp /\ rows[k] # "none"}) =< 1
      <3>1. PICK S : S = {k \in Keys : k[1] = rcp /\ rows[k] # "none"}
        OBVIOUS
      <3>2. ASSUME NEW k \in S
            PROVE  k = <<rcp, "single", "A">>
        <4>1. k \in Keys /\ k[1] = rcp /\ rows[k] # "none"
          BY <3>1
        <4>2. k[2] = "single" /\ k[3] = "A"
          BY <1>1, <4>1 DEF Inv, RowsSound
        <4>3. k = <<k[1], k[2], k[3]>>
          BY <4>1 DEF Keys
        <4>4. QED
          BY <4>1, <4>2, <4>3
      <3>3. S \subseteq {<<rcp, "single", "A">>}
        BY <3>2
      <3>4. IsFiniteSet({<<rcp, "single", "A">>}) /\ Cardinality({<<rcp, "single", "A">>}) = 1
        BY FS_Singleton
      <3>5. Cardinality(S) =< 1
        BY <3>3, <3>4, FS_Subset
      <3>6. QED
        BY <3>1, <3>5
    <2>2. QED
      BY <2>1 DEF OneEmailEach
  <1>2. QED
    BY <1>1, InvHolds, PTL

-----------------------------------------------------------------------------
(* A cancelled broadcast.                                                    *)

\* When requests follow one another, none is under way while the broadcast is cancelled,
\* and a run that has seen the cancellation is right.
CancelInv ==
    /\ \A r \in Runs : run[r].bc.st = "cancelled" => bc.st = "cancelled"
    /\ \A o, p \in Op : req[o].st # "draft" /\ req[p].st # "draft" => o = p
    /\ \A o \in Op : req[o].st # "draft" => bc.st # "cancelled"

\* A run neither cancels nor revives.
LEMMA RunsDoNotCancel ==
    ASSUME Inv, CancelInv, NEW r \in Runs, Step(r)
    PROVE  bc'.st = "cancelled" <=> bc.st = "cancelled"
  <1>1. /\ bc \in Row /\ run[r].bc \in Row
        /\ run[r].bc.st = "cancelled" => bc.st = "cancelled"
    BY RunParts DEF Inv, CancelInv
  <1>2. ASSUME NEW b \in Row, NEW x, NEW v \in Variation,
               NEW st \in {"testing", "test_completed", "winner_selected", "paused", "processed", "failed"}
        PROVE  /\ x = [b EXCEPT !.prepared = TRUE] => x.st = b.st
               /\ x = [b EXCEPT !.st = st] => x.st # "cancelled"
               /\ x = [b EXCEPT !.win = v, !.st = st] => x.st # "cancelled"
               /\ x = [b EXCEPT !.st = st, !.completed = TRUE] => x.st # "cancelled"
    BY DEF Row
  <1>3. Writable(bc) => bc.st # "cancelled"
    BY DEF Writable
  <1>4. \E v \in Variation : TRUE
    BY DEF Variation
  <1>5. CASE PrepareAudience(r)
    <2>1. bc' = bc \/ (Writable(bc) /\ bc' = [run[r].bc EXCEPT !.prepared = TRUE])
      BY <1>5, Zenon DEF PrepareAudience
    <2>2. QED
      BY <1>1, <1>2, <1>3, <1>4, <2>1
  <1>6. CASE CountRecipients(r)
    <2>1. bc' = bc \/ (Writable(bc) /\ bc' = [bc EXCEPT !.st = "processed", !.completed = TRUE])
      BY <1>6, Zenon DEF CountRecipients
    <2>2. QED
      BY <1>1, <1>2, <1>3, <1>4, <2>1
  <1>7. CASE MarkTesting(r)
    <2>1. bc' = bc \/ (Writable(bc) /\ bc' = [run[r].bc EXCEPT !.st = "testing"])
      BY <1>7, Zenon DEF MarkTesting
    <2>2. QED
      BY <1>1, <1>2, <1>3, <1>4, <2>1
  <1>8. CASE EvaluateWinner(r)
    <2>1. \/ bc' = bc
          \/ Writable(bc) /\ \E v \in Variation : bc' = [run[r].bc EXCEPT !.win = v, !.st = "winner_selected"]
      BY <1>8, Zenon DEF EvaluateWinner
    <2>2. QED
      BY <1>1, <1>3, <2>1 DEF Row
  <1>9. CASE TestCompleted(r)
    <2>1. bc' = bc \/ (Writable(bc) /\ bc' = [run[r].bc EXCEPT !.st = "test_completed"])
      BY <1>9, Zenon DEF TestCompleted
    <2>2. QED
      BY <1>1, <1>2, <1>3, <1>4, <2>1
  <1>10. CASE PauseForFeed(r)
    <2>1. bc' = bc \/ (Writable(bc) /\ bc' = [run[r].bc EXCEPT !.st = "paused"])
      BY <1>10, Zenon DEF PauseForFeed
    <2>2. QED
      BY <1>1, <1>2, <1>3, <1>4, <2>1
  <1>11. CASE Finish(r)
    <2>1. \/ bc' = bc
          \/ Writable(bc) /\ bc' = run[r].bc
          \/ Writable(bc) /\ bc' = [run[r].bc EXCEPT !.st = "processed", !.completed = TRUE]
      BY <1>11, Zenon DEF Finish
    <2>2. QED
      BY <1>1, <1>2, <1>3, <1>4, <2>1
  <1>12. CASE FinalizeStatus(r)
    <2>1. PICK st \in {"failed", "paused"} : st = IF run[r].live THEN "failed" ELSE "paused"
      OBVIOUS
    <2>2. bc' = bc \/ (Writable(bc) /\ bc' = [run[r].bc EXCEPT !.st = st])
      BY <1>12, <2>1, Zenon DEF FinalizeStatus
    <2>3. QED
      BY <1>1, <1>3, <2>2 DEF Row
  <1>13. CASE /\ ~PrepareAudience(r) /\ ~CountRecipients(r) /\ ~MarkTesting(r) /\ ~EvaluateWinner(r)
              /\ ~TestCompleted(r) /\ ~PauseForFeed(r) /\ ~Finish(r) /\ ~FinalizeStatus(r)
    <2>1. bc' = bc
      BY <1>13, Zenon DEF Step, Returning, StartRun, ReadToPrepare, ReadToFinalize, EndRun, Crash, CutOff, LoadPhase,
           ReadToEvaluate, Refresh, SkipRefresh, PhaseComplete, FetchBatch, SendRecipient, EndBatch, SaveProgress,
           FeedFails, PauseQueueEntries, Timeout, Fail
    <2>2. QED
      BY <2>1
  <1>14. QED
    BY <1>5, <1>6, <1>7, <1>8, <1>9, <1>10, <1>11, <1>12, <1>13

\* Outside a run, only the cancellation cancels, and nothing revives.
LEMMA OnlyCancelCancels ==
    ASSUME Inv, CancelInv, Outside
    PROVE  /\ bc.st = "cancelled" => bc'.st = "cancelled"
           /\ bc'.st = "cancelled" /\ bc.st # "cancelled" => CancelBroadcast
  <1>1. bc \in Row /\ req \in [Op -> Row]
    BY DEF Inv, TypeOK
  <1>2. \A o \in Op : req[o].st # "draft" => bc.st # "cancelled"
    BY DEF CancelInv
  <1>3. ASSUME NEW b, NEW st \in {"processed", "scheduled", "processing", "paused"}, NEW started,
               StatusWrite(b, st, started)
        PROVE  bc'.st # "cancelled"
    <2>1. bc' = [bc EXCEPT !.st = st, !.started = started, !.completed = b.completed]
      BY <1>3, Zenon DEF StatusWrite
    <2>2. PICK s, c : s = started /\ c = b.completed
      OBVIOUS
    <2>3. bc' = [bc EXCEPT !.st = st, !.started = s, !.completed = c]
      BY <2>1, <2>2, Zenon
    <2>4. QED
      BY <1>1, <2>3 DEF Row
  <1>4. CASE ScheduleBroadcast
    <2>1. PICK now \in BOOLEAN : /\ bc.st = "draft"
                                 /\ bc' = [bc EXCEPT !.st = IF now THEN "processing" ELSE "scheduled",
                                                     !.started = now, !.future = ~now]
      BY <1>4, Zenon DEF ScheduleBroadcast
    <2>2. CASE now = TRUE
      <3>1. bc' = [bc EXCEPT !.st = "processing", !.started = TRUE, !.future = FALSE]
        BY <2>1, <2>2
      <3>2. QED
        BY <1>1, <2>1, <3>1 DEF Row
    <2>3. CASE now = FALSE
      <3>1. bc' = [bc EXCEPT !.st = "scheduled", !.started = FALSE, !.future = TRUE]
        BY <2>1, <2>3
      <3>2. QED
        BY <1>1, <2>1, <3>1 DEF Row
    <2>4. QED
      BY <2>2, <2>3
  <1>5. CASE TimeComes
    <2>1. bc' = [bc EXCEPT !.future = FALSE]
      BY <1>5, Zenon DEF TimeComes
    <2>2. QED
      BY <1>1, <2>1 DEF Row
  <1>6. CASE PauseBroadcast
    <2>1. /\ req["pause"].st # "draft"
          /\ bc' = bc \/ StatusWrite(req["pause"], "paused", req["pause"].started)
      BY <1>6, Zenon DEF PauseBroadcast, HandledAlone
    <2>2. bc.st # "cancelled"
      BY <1>2, <2>1 DEF Op
    <2>3. QED
      BY <1>3, <2>1, <2>2
  <1>7. CASE ResumeBroadcast
    <2>1. PICK st \in {"processed", "scheduled", "processing"} :
            st = IF req["resume"].completed THEN "processed"
                 ELSE IF bc.future /\ ~req["resume"].started THEN "scheduled" ELSE "processing"
      OBVIOUS
    <2>2. PICK started : started = (req["resume"].started \/ st = "processing")
      OBVIOUS
    <2>3. /\ req["resume"].st # "draft"
          /\ bc' = bc \/ StatusWrite(req["resume"], st, started)
      BY <1>7, <2>1, <2>2, Zenon DEF ResumeBroadcast, HandledAlone
    <2>4. bc.st # "cancelled"
      BY <1>2, <2>3 DEF Op
    <2>5. QED
      BY <1>3, <2>3, <2>4
  <1>8. CASE CancelBroadcast
    <2>1. req["cancel"].st # "draft"
      BY <1>8, Zenon DEF CancelBroadcast
    <2>2. QED
      BY <1>2, <1>8, <2>1 DEF Op
  <1>9. ASSUME NEW v \in Variation, SelectWinner(v)
        PROVE  bc'.st = "cancelled" <=> bc.st = "cancelled"
    <2>1. PICK op \in Op : op = IF v = "A" THEN "selectA" ELSE "selectB"
      BY DEF Op
    <2>2. \/ bc' = bc
          \/ Writable(bc) /\ bc' = [req[op] EXCEPT !.win = v, !.st = "winner_selected"]
      BY <1>9, <2>1, Zenon DEF SelectWinner
    <2>3. QED
      BY <1>1, <2>2 DEF Writable, Row
  <1>10. HandlePausedEvent \/ (\E op \in Op : ReadToChange(op)) => bc' = bc
    BY Zenon DEF HandlePausedEvent, ReadToChange
  <1>11. QED
    BY <1>4, <1>5, <1>6, <1>7, <1>8, <1>9, <1>10, Zenon DEF Outside, Change

\* A request that is under way was under way, or it has just read a row that is not
\* cancelled and found no other.
LEMMA PendingRequests ==
    ASSUME Inv, Serial, [Next]_vars
    PROVE  \/ \A o \in Op : req'[o].st # "draft" => req[o].st # "draft" /\ (o = "cancel" => ~CancelBroadcast)
           \/ bc' = bc /\ bc.st # "cancelled" /\ \E o \in Op : \A p \in Op \ {o} : req'[p].st = "draft"
  <1>1. req \in [Op -> Row] /\ Draft.st = "draft"
    BY EmptyRows DEF Inv, TypeOK
  <1>2. ASSUME NEW op \in Op, ReadToChange(op)
        PROVE  bc' = bc /\ bc.st # "cancelled" /\ \A p \in Op \ {op} : req'[p].st = "draft"
    <2>1. /\ bc' = bc /\ Allowed(op, bc) /\ req' = [req EXCEPT ![op] = bc]
          /\ \A o \in Op : req[o].st = "draft"
      BY <1>2, Zenon DEF ReadToChange
    <2>2. bc.st # "cancelled"
      BY <2>1 DEF Allowed, Op
    <2>3. QED
      BY <1>1, <2>1, <2>2
  <1>3. ASSUME NEW op \in Op, req' = [req EXCEPT ![op] = Draft], op = "cancel" \/ ~CancelBroadcast
        PROVE  \A o \in Op : req'[o].st # "draft" => req[o].st # "draft" /\ (o = "cancel" => ~CancelBroadcast)
    BY <1>1, <1>3
  <1>4. CASE CancelBroadcast
    <2>1. req' = [req EXCEPT !["cancel"] = Draft] /\ "cancel" \in Op
      BY <1>4, Zenon DEF CancelBroadcast, Op
    <2>2. QED
      BY <1>3, <2>1
  <1>5. CASE (PauseBroadcast \/ ResumeBroadcast) /\ ~CancelBroadcast
    <2>1. \E op \in Op : req' = [req EXCEPT ![op] = Draft]
      BY <1>5 DEF PauseBroadcast, ResumeBroadcast, Op
    <2>2. QED
      BY <1>3, <1>5, <2>1
  <1>6. ASSUME NEW v \in Variation, SelectWinner(v), ~CancelBroadcast
        PROVE  \E op \in Op : req' = [req EXCEPT ![op] = Draft]
    <2>1. PICK op \in Op : op = IF v = "A" THEN "selectA" ELSE "selectB"
      BY DEF Op
    <2>2. req' = [req EXCEPT ![op] = Draft]
      BY <1>6, <2>1, Zenon DEF SelectWinner
    <2>3. QED
      BY <2>2
  <1>7. CASE req' = req /\ ~CancelBroadcast
    BY <1>7
  <1>8. ASSUME NEW r \in Runs, Step(r)
        PROVE  req' = req
    <2>1. Returning(r) => req' = req
      BY Zenon DEF Returning, PrepareAudience, PauseQueueEntries, Timeout, TestCompleted, PauseForFeed, Finish,
                   Fail, FinalizeStatus
    <2>2. QED
      BY <1>8, <2>1, Zenon DEF Step, StartRun, ReadToPrepare, ReadToFinalize, EndRun, Crash, CutOff,
           CountRecipients, LoadPhase, MarkTesting, ReadToEvaluate, EvaluateWinner, Refresh, SkipRefresh,
           PhaseComplete, FetchBatch, SendRecipient, EndBatch, SaveProgress, FeedFails
  <1>9. ScheduleBroadcast \/ TimeComes \/ HandlePausedEvent \/ UNCHANGED vars => req' = req
    BY Zenon DEF ScheduleBroadcast, TimeComes, HandlePausedEvent, vars
  <1>10. \/ CancelBroadcast
         \/ PauseBroadcast \/ ResumeBroadcast \/ \E v \in Variation : SelectWinner(v)
         \/ \E op \in Op : ReadToChange(op)
         \/ req' = req
    BY <1>8, <1>9, Steps, Zenon DEF Outside, Change
  <1>11. QED
    BY <1>2, <1>3, <1>4, <1>5, <1>6, <1>7, <1>10

\* The strengthened invariant of serial requests.
LEMMA CancelStep ==
    ASSUME Inv, CancelInv, Serial, [Next]_vars
    PROVE  CancelInv' /\ (bc.st = "cancelled" => bc'.st = "cancelled")
  <1>1. /\ bc.st = "cancelled" => bc'.st = "cancelled"
        /\ bc'.st = "cancelled" /\ bc.st # "cancelled" => CancelBroadcast
    <2>1. UNCHANGED vars => bc' = bc
      BY Zenon DEF vars
    <2>2. QED
      BY <2>1, Steps, RunsDoNotCancel, OnlyCancelCancels, Zenon
  <1>2. \A r \in Runs : run'[r].bc.st = "cancelled" => bc'.st = "cancelled"
    <2>1. \A r \in Runs : run'[r].bc \in {run[r].bc, bc, bc', Draft}
      BY RunsDo
    <2>2. \A r \in Runs : run[r].bc.st = "cancelled" => bc.st = "cancelled"
      BY DEF CancelInv
    <2>3. Draft.st # "cancelled"
      BY EmptyRows
    <2>4. QED
      BY <1>1, <2>1, <2>2, <2>3
  <1>3. /\ \A o, p \in Op : req[o].st # "draft" /\ req[p].st # "draft" => o = p
        /\ \A o \in Op : req[o].st # "draft" => bc.st # "cancelled"
    BY DEF CancelInv
  <1>4. CancelBroadcast => req["cancel"].st # "draft" /\ "cancel" \in Op
    BY Zenon DEF CancelBroadcast, Op
  <1>5. /\ \A o, p \in Op : req'[o].st # "draft" /\ req'[p].st # "draft" => o = p
        /\ \A o \in Op : req'[o].st # "draft" => bc'.st # "cancelled"
    <2>1. CASE \A o \in Op : req'[o].st # "draft" => req[o].st # "draft" /\ (o = "cancel" => ~CancelBroadcast)
      BY <1>1, <1>3, <1>4, <2>1
    <2>2. CASE bc' = bc /\ bc.st # "cancelled" /\ \E o \in Op : \A p \in Op \ {o} : req'[p].st = "draft"
      BY <2>2
    <2>3. QED
      BY <2>1, <2>2, PendingRequests
  <1>6. QED
    BY <1>1, <1>2, <1>5 DEF CancelInv

\* As long as one request is answered before the next is made, a cancelled broadcast stays
\* cancelled, whatever a run writes from the row it read before.
THEOREM CancelledForGood ==
    ASSUME Serial
    PROVE  Spec => CancelIsFinal
  <1>1. Init => CancelInv
    <2>1. ASSUME Init
          PROVE  CancelInv
      <3>1. /\ run = [r \in Runs |-> NoRun] /\ req = [op \in Op |-> Draft]
            /\ Draft.st = "draft" /\ NoRun.bc = Draft
        BY <2>1, EmptyRows DEF Init
      <3>2. QED
        BY <3>1 DEF CancelInv
    <2>2. QED
      BY <2>1
  <1>2. Inv /\ CancelInv /\ [Next]_vars => CancelInv' /\ (bc.st = "cancelled" => bc'.st = "cancelled")
    BY CancelStep
  <1>3. QED
    BY <1>1, <1>2, InvHolds, PTL DEF Spec, CancelIsFinal
=============================================================================
