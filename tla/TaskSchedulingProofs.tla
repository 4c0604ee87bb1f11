------------------------- MODULE TaskSchedulingProofs -------------------------
(***************************************************************************)
(* Proofs about TaskScheduling, for every set of tasks and reports and     *)
(* every bound.  The claim lets a task go when each of its conditions is   *)
(* satisfied, and writes that down in the same transaction; apply adds a   *)
(* condition to a row it has just seen not to be running.  So nothing      *)
(* holds a task an agent is at work on, provided no step can revive a      *)
(* condition, which is what the lemmas about the change sets say.  And no  *)
(* task waits, through others, for itself: whoever it waits for was walked *)
(* before the edge was written, and a walk that visits more tasks than     *)
(* there are has come back to one of them.                                 *)
(***************************************************************************)
EXTENDS TaskScheduling, SequenceTheorems, FiniteSetTheorems,
        WellFoundedInduction, TLAPS

Rows == [status : Statuses, version : Nat, task_version : Nat,
         priority : {"raised", "normal", "lowered"},
         source : {"none", "reader", "automation"},
         failures : Nat, resting : BOOLEAN, result : BOOLEAN]

TaskStates == [status : {"absent", "open", "done", "dropped"}, version : Nat]
Timings == [due : Dates, effort : Efforts]
Projections == [report : Report, identity : Nat, at : Nat, read : Nat]

-----------------------------------------------------------------------------
(* Change sets: none of these steps revives a condition *)

\* What is a function on the domain of a sequence is a sequence.
LEMMA OverSequence ==
  ASSUME NEW S, NEW T, NEW s \in Seq(S), NEW f \in [DOMAIN s -> T]
  PROVE  f \in Seq(T) /\ DOMAIN f = DOMAIN s
<1>1. DOMAIN s = 1..Len(s) /\ Len(s) \in Nat
  BY LenProperties
<1>2. f \in [1..Len(s) -> T]
  BY <1>1
<1>3. f \in UNION {[1..n -> T] : n \in Nat}
  BY <1>1, <1>2
<1> QED
  BY <1>2, <1>3, <1>1, SeqDef

LEMMA ChangeSetTypes ==
  ASSUME TypeOK, NEW k \in DOMAIN changes
  PROVE  changes[k] \in ChangeSets
<1>1. changes \in Seq(ChangeSets)
  BY DEF TypeOK
<1> QED
  BY <1>1, LenProperties, ElementOfSeq

\* The change sets move, and each that counts for a task counted before.
NothingRevived(new) ==
    \A k \in DOMAIN changes :
      new[k].condition \in Live => /\ changes[k].condition \in Live
                                   /\ new[k].task = changes[k].task

LEMMA Moved ==
  ASSUME TypeOK, NEW new \in [DOMAIN changes -> ChangeSets], NothingRevived(new)
  PROVE  /\ new \in Seq(ChangeSets)
         /\ \A t \in Tasks : LiveOn(new, t) \subseteq LiveOn(changes, t)
<1>1. changes \in Seq(ChangeSets)
  BY DEF TypeOK
<1>2. new \in Seq(ChangeSets) /\ DOMAIN new = DOMAIN changes
  BY <1>1, OverSequence
<1> QED
  BY <1>2 DEF LiveOn, NothingRevived

\* A card goes its way.
LEMMA CardKeeps ==
  ASSUME TypeOK, NEW c \in ChangeSets, NEW status \in CardStates
  PROVE  /\ [c EXCEPT !.card = status] \in ChangeSets
         /\ [c EXCEPT !.card = status].condition = c.condition
         /\ [c EXCEPT !.card = status].task = c.task
BY DEF ChangeSets

LEMMA CardMoved ==
  ASSUME TypeOK, NEW i, NEW status \in CardStates, Set(i, status)
  PROVE  /\ changes' \in Seq(ChangeSets)
         /\ \A t \in Tasks : LiveOn(changes', t) \subseteq LiveOn(changes, t)
<1> DEFINE new == [changes EXCEPT ![i].card = status]
<1>1. DOMAIN new = DOMAIN changes
  OBVIOUS
<1>2. ASSUME NEW k \in DOMAIN changes
      PROVE  /\ new[k] \in ChangeSets
             /\ new[k].condition = changes[k].condition
             /\ new[k].task = changes[k].task
  <2>1. changes[k] \in ChangeSets
    BY ChangeSetTypes
  <2>2. CASE k = i
    <3>1. new[k] = [changes[k] EXCEPT !.card = status]
      BY <2>2
    <3> HIDE DEF new
    <3> QED
      BY <2>1, <3>1, CardKeeps
  <2>3. CASE k # i
    <3>1. new[k] = changes[k]
      BY <2>3
    <3> QED
      BY <2>1, <3>1
  <2> QED
    BY <2>2, <2>3
<1>3. new = [k \in DOMAIN changes |-> new[k]]
  OBVIOUS
<1>4. changes' = new
  BY DEF Set
<1> HIDE DEF new
<1>5. new \in [DOMAIN changes -> ChangeSets] /\ NothingRevived(new)
  BY <1>2, <1>3 DEF NothingRevived
<1> QED
  BY <1>4, <1>5, Moved

\* Conditions are looked at: they rest, are met, or are put to the reader.
LEMMA RefreshedTypes ==
  ASSUME TypeOK, NEW c \in ChangeSets
  PROVE  Refreshed(c) \in ConditionStates
BY DEF Refreshed, ConditionStates, ChangeSets, After

LEMMA Evaluated ==
  ASSUME TypeOK, NEW S
  PROVE  /\ Evaluate(changes, S) \in Seq(ChangeSets)
         /\ \A t \in Tasks : LiveOn(Evaluate(changes, S), t) \subseteq LiveOn(changes, t)
<1> DEFINE new == Evaluate(changes, S)
<1>1. \A k \in DOMAIN changes :
        /\ changes[k] \in ChangeSets
        /\ Refreshed(changes[k]) \in ConditionStates
  BY ChangeSetTypes, RefreshedTypes
<1>2. \A k \in DOMAIN changes :
        new[k] = IF changes[k].task \in S /\ changes[k].condition \in Live
                 THEN [changes[k] EXCEPT !.condition = Refreshed(changes[k])]
                 ELSE changes[k]
  BY DEF Evaluate
<1>3. new \in [DOMAIN changes -> ChangeSets]
  <2>1. \A c \in ChangeSets, x \in ConditionStates :
          [c EXCEPT !.condition = x] \in ChangeSets
    BY DEF ChangeSets
  <2>2. \A k \in DOMAIN changes : new[k] \in ChangeSets
    BY <1>1, <1>2, <2>1
  <2>3. new = [k \in DOMAIN changes |-> new[k]]
    BY DEF Evaluate
  <2> QED
    BY <2>2, <2>3
<1>4. NothingRevived(new)
  BY <1>1, <1>2 DEF NothingRevived, ChangeSets
<1> QED
  BY <1>3, <1>4, Moved

\* What lets a task go is written down with it.
LEMMA ReleasedIsFree ==
  ASSUME TypeOK, NEW S, NEW t \in Tasks \cap S, Eligible(t)
  PROVE  LiveOn(Evaluate(changes, S), t) = {}
<1>1. \A k \in DOMAIN changes :
        /\ changes[k] \in ChangeSets
        /\ Evaluate(changes, S)[k] =
             IF changes[k].task \in S /\ changes[k].condition \in Live
             THEN [changes[k] EXCEPT !.condition = Refreshed(changes[k])]
             ELSE changes[k]
  BY ChangeSetTypes DEF Evaluate
<1>2. DOMAIN Evaluate(changes, S) = DOMAIN changes
  BY DEF Evaluate
<1>3. ASSUME NEW k \in LiveOn(Evaluate(changes, S), t) PROVE FALSE
  <2>1. k \in DOMAIN changes /\ Evaluate(changes, S)[k].task = t
        /\ Evaluate(changes, S)[k].condition \in Live
    BY <1>2, <1>3 DEF LiveOn
  <2>2. changes[k].task = t /\ changes[k].condition \in Live
    BY <1>1, <2>1 DEF ChangeSets
  <2>3. Refreshed(changes[k]) = "satisfied"
    BY <2>1, <2>2 DEF LiveOn, Eligible
  <2>4. Evaluate(changes, S)[k].condition = "satisfied"
    BY <1>1, <2>1, <2>2, <2>3 DEF ChangeSets
  <2> QED
    BY <2>1, <2>4 DEF Live
<1> QED
  BY <1>3

-----------------------------------------------------------------------------
(* The steps that leave the conditions as they are, or fewer *)

\* What every step has to keep.
Good == TypeOK /\ RunningIsFree

\* No task begins to run and no condition comes back.
LEMMA StillFree ==
  ASSUME RunningIsFree,
         \A t \in Tasks : wf'[t].status = "running" => wf[t].status = "running",
         \A t \in Tasks : LiveOn(changes', t) \subseteq LiveOn(changes, t)
  PROVE  RunningIsFree'
BY DEF RunningIsFree

LEMMA SameChanges ==
  ASSUME RunningIsFree, UNCHANGED changes,
         \A t \in Tasks : wf'[t].status = "running" => wf[t].status = "running"
  PROVE  RunningIsFree'
BY DEF RunningIsFree

LEMMA SameSets ==
  ASSUME DOMAIN pass' = DOMAIN pass
  PROVE  ChangeSets' = ChangeSets
BY DEF ChangeSets

LEMMA InitGood == Init => Good
<1> SUFFICES ASSUME Init PROVE Good
  OBVIOUS
<1>1. PICK R \in Reports : pass = [j \in DOMAIN R |-> [report |-> R[j], identity |-> 0,
                                                       at |-> 0, read |-> 0]]
  BY DEF Init
<1>2. pass \in [DOMAIN pass -> Projections]
  <2>1. \A j \in DOMAIN R : R[j] \in Report
    BY TaskSchedulingAssumption
  <2> QED
    BY <1>1, <2>1 DEF Projections
<1>3. changes \in Seq(ChangeSets) /\ DOMAIN changes = {}
  BY DEF Init
<1>4. /\ task \in [Tasks -> TaskStates]
      /\ wf \in [Tasks -> Rows]
  BY DEF Init, TaskStates, Rows, NewRow, Statuses
<1>5. timing \in [Tasks -> Timings]
  BY DEF Init, Timings, Efforts, Never, Dates
<1>6. begun \subseteq Tasks /\ now \in Days /\ claims \in 0..MaxClaims /\ inputs \in 0..MaxInputs
  BY TaskSchedulingAssumption DEF Init
<1>7. RunningIsFree
  BY <1>3 DEF RunningIsFree, LiveOn
<1> QED
  BY <1>2, <1>3, <1>4, <1>5, <1>6, <1>7 DEF Good, TypeOK, Projections, TaskStates, Rows, Timings

LEMMA PassAt ==
  ASSUME NEW p \in Projections, NEW n \in Nat, NEW m \in Nat, NEW k \in Nat
  PROVE  /\ [p EXCEPT !.at = n, !.read = m] \in Projections
         /\ [p EXCEPT !.identity = k, !.at = n] \in Projections
         /\ [p EXCEPT !.read = m] \in Projections
BY DEF Projections

LEMMA PassTypes ==
  ASSUME TypeOK, NEW j \in DOMAIN pass
  PROVE  /\ pass[j] \in Projections /\ pass[j].report \in Report
         /\ Target(j) \in Tasks
         /\ Items(j) \in Seq(Recommendations) /\ Len(Items(j)) \in Nat
         /\ Ahead(j) \in Projections
<1>1. pass[j] \in Projections /\ pass[j].report \in Report
  BY DEF TypeOK, Projections
<1>2. Target(j) \in Tasks /\ Items(j) \in Seq(Recommendations)
  BY <1>1, TaskSchedulingAssumption DEF Target, Items, Report
<1>3. Len(Items(j)) \in Nat
  BY <1>2, LenProperties
<1>4. Ahead(j) \in Projections
  <2>1. pass[j].at + 1 \in Nat
    BY <1>1 DEF Projections
  <2> QED
    BY <1>1, <2>1, PassAt DEF Ahead
<1> QED
  BY <1>1, <1>2, <1>3, <1>4

\* The projection of a report moves, with or without its timing.
LEMMA PassMoves ==
  ASSUME Good, NEW j \in DOMAIN pass, Publish(j) \/ Look(j) \/ BreakOff(j) \/ RecordTiming(j)
  PROVE  Good'
<1> USE DEF Good
<1>0. pass \in [DOMAIN pass -> Projections]
  BY DEF TypeOK, Projections
<1>1. UNCHANGED <<task, wf, changes, begun, now, claims, inputs>>
  BY DEF Publish, Look, BreakOff, RecordTiming
<1>2. pass' \in [DOMAIN pass -> Projections]
  <2>1. \A p \in Projections : pass' = [pass EXCEPT ![j] = p] =>
                                 pass' \in [DOMAIN pass -> Projections]
    BY <1>0
  <2>0. task[Target(j)].version \in Nat /\ wf[Target(j)].version \in Nat
    BY PassTypes DEF TypeOK
  <2>2. CASE Publish(j)
    <3>1. [pass[j] EXCEPT !.identity = task[Target(j)].version, !.at = 1] \in Projections
      BY <2>0, PassTypes, PassAt
    <3>2. pass' = [pass EXCEPT ![j] = [pass[j] EXCEPT !.identity = task[Target(j)].version,
                                                      !.at = 1]]
      BY <1>0, <2>2 DEF Publish, Projections
    <3> QED
      BY <3>1, <3>2, <2>1
  <2>5. CASE Look(j)
    <3>1. [pass[j] EXCEPT !.read = wf[Target(j)].version] \in Projections
      BY <2>0, PassTypes, PassAt
    <3>2. \/ pass' = [pass EXCEPT ![j] = Ahead(j)]
          \/ pass' = [pass EXCEPT ![j] = [pass[j] EXCEPT !.read = wf[Target(j)].version]]
      BY <1>0, <2>5 DEF Look
    <3> QED
      BY <3>1, <3>2, <2>1, PassTypes
  <2>3. CASE BreakOff(j)
    <3>0. pass[j] \in Projections /\ Len(Items(j)) + 1 \in Nat
      BY PassTypes
    <3>1. [pass[j] EXCEPT !.at = Len(Items(j)) + 1, !.read = 0] \in Projections
      BY <3>0, PassAt
    <3> QED
      BY <1>0, <2>3, <3>1, <2>1 DEF BreakOff
  <2>4. CASE RecordTiming(j)
    BY <2>4, <2>1, PassTypes DEF RecordTiming
  <2> QED
    BY <2>2, <2>3, <2>4, <2>5
<1>3. timing' \in [Tasks -> Timings]
  <2>1. timing \in [Tasks -> Timings]
    BY DEF TypeOK, Timings
  <2>2. CASE RecordTiming(j)
    <3>1. /\ pass[j].report.due \in Dates /\ pass[j].report.effort \in Efforts
          /\ Target(j) \in Tasks
      BY PassTypes DEF Report
    <3> QED
      BY <2>1, <2>2, <3>1 DEF RecordTiming, Timings
  <2> QED
    BY <2>1, <2>2 DEF Publish, Look, BreakOff
<1>4. ChangeSets' = ChangeSets /\ DOMAIN pass' = DOMAIN pass
  BY <1>2, SameSets
<1>5. TypeOK'
  BY <1>1, <1>2, <1>3, <1>4 DEF TypeOK, Projections, Timings
<1> QED
  BY <1>1, <1>5, SameChanges

\* A card goes out, arrives, comes back or is kept.
LEMMA CardMoves ==
  ASSUME Good, NEW i, NEW status \in CardStates, Set(i, status), UNCHANGED <<task, wf, Others>>
  PROVE  Good'
<1>1. ChangeSets' = ChangeSets
  BY SameSets DEF Others
<1>2. changes' \in Seq(ChangeSets) /\ \A t \in Tasks : LiveOn(changes', t) \subseteq LiveOn(changes, t)
  BY CardMoved DEF Good
<1>3. TypeOK'
  BY <1>1, <1>2 DEF TypeOK, Good, Others
<1> QED
  BY <1>2, <1>3, StillFree DEF Good

\* A row of the queue is written with its version advanced.
LEMMA RowMoves ==
  ASSUME NEW r \in Rows
  PROVE  /\ [r EXCEPT !.status = "cancelled", !.version = r.version + 1] \in Rows
         /\ [r EXCEPT !.status = "cancelled", !.version = r.version + 1].status = "cancelled"
         /\ [r EXCEPT !.priority = "normal", !.source = "none",
                      !.version = r.version + 1] \in Rows
         /\ [r EXCEPT !.priority = "normal", !.source = "none",
                      !.version = r.version + 1].status = r.status
<1>1. r.version + 1 \in Nat
  BY DEF Rows
<1> QED
  BY <1>1 DEF Rows, Statuses

LEMMA UndoRefusedGood ==
  ASSUME Good, NEW i \in DOMAIN changes, UndoRefused(i)
  PROVE  Good'
<1> DEFINE c   == [changes[i] EXCEPT !.state = "undo_conflict"]
           new == [changes EXCEPT ![i].state = "undo_conflict"]
<1>1. TypeOK /\ changes' = new /\ UNCHANGED <<task, wf, Others>>
  BY DEF Good, UndoRefused
<1>2. changes[i] \in ChangeSets
  BY <1>1, ChangeSetTypes
<1>3. c \in ChangeSets /\ c.condition = changes[i].condition /\ c.task = changes[i].task
  BY <1>2 DEF ChangeSets
<1>4. \A k \in DOMAIN changes : new[k] = IF k = i THEN c ELSE changes[k]
  OBVIOUS
<1>5. new \in [DOMAIN changes -> ChangeSets] /\ NothingRevived(new)
  BY <1>1, <1>3, <1>4, ChangeSetTypes DEF NothingRevived
<1>6. changes' \in Seq(ChangeSets) /\ \A t \in Tasks : LiveOn(changes', t) \subseteq LiveOn(changes, t)
  BY <1>1, <1>5, Moved
<1>7. ChangeSets' = ChangeSets
  BY <1>1, SameSets DEF Others
<1>8. TypeOK'
  BY <1>1, <1>6, <1>7 DEF TypeOK, Others
<1> QED
  BY <1>1, <1>6, <1>8, StillFree DEF Good

\* Undoing cancels the condition and leaves nobody running.
LEMMA UndoGood ==
  ASSUME Good, NEW i \in DOMAIN changes, Undo(i)
  PROVE  Good'
<1> DEFINE old == changes[i]
           c   == [old EXCEPT !.state = "undone", !.card = "resolved",
                              !.condition = IF @ = "none" THEN @ ELSE "canceled"]
           new == [changes EXCEPT ![i] = c]
<1>1. TypeOK /\ RunningIsFree /\ changes' = new /\ UNCHANGED Others
  BY DEF Good, Undo
<1>2. old \in ChangeSets
  BY <1>1, ChangeSetTypes
<1>3. c \in ChangeSets /\ c.condition \notin Live
  BY <1>2 DEF ChangeSets, ConditionStates, CardStates, Live
<1>4. \A k \in DOMAIN changes : new[k] = IF k = i THEN c ELSE changes[k]
  OBVIOUS
<1>5. new \in [DOMAIN changes -> ChangeSets] /\ NothingRevived(new)
  BY <1>1, <1>3, <1>4, ChangeSetTypes DEF NothingRevived
<1>6. changes' \in Seq(ChangeSets) /\ \A t \in Tasks : LiveOn(changes', t) \subseteq LiveOn(changes, t)
  BY <1>1, <1>5, Moved
<1>7. task' \in [Tasks -> TaskStates]
  <2>1. task \in [Tasks -> TaskStates]
    BY <1>1 DEF TypeOK, TaskStates
  <2> QED
    BY <2>1 DEF Undo, TaskStates
<1>8. /\ wf' \in [Tasks -> Rows]
      /\ \A t \in Tasks : wf'[t].status = "running" => wf[t].status = "running"
  <2>1. wf \in [Tasks -> Rows]
    BY <1>1 DEF TypeOK, Rows
  <2> DEFINE gone(r)    == [r EXCEPT !.status = "cancelled", !.version = r.version + 1]
             lowered(r) == [r EXCEPT !.priority = "normal", !.source = "none",
                                     !.version = r.version + 1]
  <2>2. ASSUME NEW t \in Tasks
        PROVE  /\ wf'[t] \in Rows
               /\ wf'[t].status = "running" => wf[t].status = "running"
    <3>1. wf[t] \in Rows
      BY <2>1
    <3>2. wf'[t] \in {wf[t], gone(wf[t]), lowered(wf[t])}
      BY DEF Undo
    <3>3. /\ gone(wf[t]) \in Rows /\ gone(wf[t]).status = "cancelled"
          /\ lowered(wf[t]) \in Rows /\ lowered(wf[t]).status = wf[t].status
      BY <3>1, RowMoves
    <3> HIDE DEF gone, lowered
    <3> QED
      BY <3>1, <3>2, <3>3
  <2>3. wf' = [t \in Tasks |-> wf'[t]]
    BY DEF Undo
  <2> QED
    BY <2>2, <2>3
<1>9. ChangeSets' = ChangeSets
  BY <1>1, SameSets DEF Others
<1>10. TypeOK'
  BY <1>1, <1>6, <1>7, <1>8, <1>9 DEF TypeOK, Others, TaskStates, Rows
<1> QED
  BY <1>1, <1>6, <1>8, <1>10, StillFree DEF Good

-----------------------------------------------------------------------------
(* Advice is applied: to a row that was just seen not to run *)

LEMMA NewRowType == NewRow \in Rows /\ NewRow.status = "queued"
BY DEF NewRow, Rows, Statuses

\* The change set apply writes.
Recorded(j, item, expected, related) ==
    LET raises   == item.kind = "raise_priority"
        creates  == item.kind = "create_prerequisite"
        waits    == creates \/ item.kind = "after_task_completed"
    IN [job |-> j, item |-> item, task |-> Target(j),
        task_version |-> pass[j].identity, expected |-> expected,
        resulting |-> IF raises THEN expected + 1 ELSE expected,
        related |-> IF waits THEN related ELSE "none",
        created |-> IF creates THEN related ELSE "none", state |-> "active",
        condition |-> IF Adds(item) THEN "active" ELSE "none",
        card |-> "pending"]

LEMMA RecordedType ==
  ASSUME TypeOK, NEW j \in DOMAIN pass, NEW item \in Recommendations, NEW n \in Nat,
         NEW related \in Tasks
  PROVE  Recorded(j, item, n, related) \in ChangeSets
<1>1. Target(j) \in Tasks /\ pass[j].identity \in Nat
  BY PassTypes DEF Projections
<1>2. n + 1 \in Nat
  OBVIOUS
<1> QED
  BY <1>1, <1>2 DEF Recorded, ChangeSets, ConditionStates, CardStates, Adds

LEMMA Appended ==
  ASSUME TypeOK, NEW e \in ChangeSets, changes' = Append(changes, e)
  PROVE  /\ changes' \in Seq(ChangeSets)
         /\ \A t \in Tasks : t # e.task => LiveOn(changes', t) \subseteq LiveOn(changes, t)
<1>1. changes \in Seq(ChangeSets)
  BY DEF TypeOK
<1>2. /\ DOMAIN changes = 1..Len(changes) /\ Len(changes) \in Nat
      /\ changes' \in Seq(ChangeSets)
      /\ DOMAIN changes' = 1..(Len(changes) + 1)
      /\ \A k \in 1..Len(changes) : changes'[k] = changes[k]
      /\ changes'[Len(changes) + 1] = e
  BY <1>1, AppendProperties, LenProperties
<1>3. ASSUME NEW t \in Tasks, t # e.task, NEW k \in LiveOn(changes', t)
      PROVE  k \in LiveOn(changes, t)
  <2>1. k \in DOMAIN changes' /\ changes'[k].task = t /\ changes'[k].condition \in Live
    BY <1>3 DEF LiveOn
  <2>2. k # Len(changes) + 1
    BY <1>2, <1>3, <2>1
  <2>3. k \in 1..Len(changes)
    BY <1>2, <2>1, <2>2
  <2> QED
    BY <1>2, <2>1, <2>3 DEF LiveOn
<1> QED
  BY <1>2, <1>3

LEMMA ApplyNextGood ==
  ASSUME Good, NEW j \in DOMAIN pass, ApplyNext(j)
  PROVE  Good'
<1> DEFINE item == Items(j)[pass[j].at]
           fit  == {r \in Tasks : Admits(j, item, pass[j].read, r)}
<1>0. TypeOK /\ RunningIsFree /\ UNCHANGED <<timing, begun, now, claims, inputs>>
  BY DEF Good, ApplyNext
<1>1. /\ pass \in [DOMAIN pass -> Projections]
      /\ task \in [Tasks -> TaskStates]
      /\ wf \in [Tasks -> Rows]
  BY <1>0 DEF TypeOK, Projections, TaskStates, Rows
<1>2. pass' \in [DOMAIN pass -> Projections] /\ DOMAIN pass' = DOMAIN pass
  BY <1>0, <1>1, PassTypes DEF ApplyNext
<1>3. item \in Recommendations /\ pass[j].read \in Nat /\ Target(j) \in Tasks
  <2>1. Items(j) \in Seq(Recommendations) /\ pass[j].at \in DOMAIN Items(j)
    BY <1>0, PassTypes DEF ApplyNext
  <2> QED
    BY <1>0, <1>1, <2>1, PassTypes, LenProperties, ElementOfSeq DEF Projections
<1>4. ChangeSets' = ChangeSets
  BY <1>2, SameSets
<1>5. CASE fit = {}
  <2>1. UNCHANGED <<task, wf, changes>>
    BY <1>5 DEF ApplyNext
  <2>2. TypeOK'
    BY <1>0, <1>2, <1>4, <2>1 DEF TypeOK, Projections
  <2> QED
    BY <1>0, <2>1, <2>2, SameChanges DEF Good
<1>6. CASE fit # {}
  <2>1. PICK related \in Tasks : /\ Admits(j, item, pass[j].read, related)
                                 /\ Apply(j, item, pass[j].read, related)
    BY <1>6 DEF ApplyNext
  <2> DEFINE e == Recorded(j, item, pass[j].read, related)
  <2>2. e \in ChangeSets /\ e.task = Target(j)
    BY <1>0, <1>3, RecordedType DEF Recorded
  <2>3. changes' = Append(changes, e)
    BY <2>1 DEF Apply, Recorded
  <2> HIDE DEF e
  <2>4. /\ changes' \in Seq(ChangeSets)
        /\ \A t \in Tasks : t # Target(j) => LiveOn(changes', t) \subseteq LiveOn(changes, t)
    BY <1>0, <2>2, <2>3, Appended
  <2>5. wf[Target(j)].status # "running"
    BY <2>1 DEF Admits, MaySchedule, Refusable
  <2>6. task' \in [Tasks -> TaskStates]
    BY <1>1, <2>1 DEF Apply, Created, TaskStates
  <2> DEFINE raised == [wf[Target(j)] EXCEPT !.priority = "raised", !.source = "automation",
                                             !.version = pass[j].read + 1]
  <2>7. raised \in Rows /\ raised.status = wf[Target(j)].status
    <3>1. wf[Target(j)] \in Rows /\ pass[j].read + 1 \in Nat
      BY <1>1, <1>3
    <3> QED
      BY <3>1 DEF Rows
  <2>8. \/ wf' = wf
        \/ wf' = [wf EXCEPT ![related] = NewRow]
        \/ wf' = [wf EXCEPT ![Target(j)] = raised]
    BY <1>1, <1>3, <2>1 DEF Apply, Rows
  <2> HIDE DEF raised, item, fit
  <2>9. /\ wf' \in [Tasks -> Rows]
        /\ \A t \in Tasks : wf'[t].status = "running" =>
             wf[t].status = "running" /\ t # Target(j)
    BY <1>1, <1>3, <2>5, <2>7, <2>8, NewRowType
  <2>10. TypeOK'
    BY <1>0, <1>2, <1>4, <2>4, <2>6, <2>9 DEF TypeOK, Projections, TaskStates, Rows
  <2>11. RunningIsFree'
    BY <1>0, <2>4, <2>9 DEF RunningIsFree
  <2> QED
    BY <2>10, <2>11 DEF Good
<1> QED
  BY <1>5, <1>6

-----------------------------------------------------------------------------
(* The execution ledger *)

LEMMA CancelStaleTypes ==
  ASSUME TypeOK, NEW t \in Tasks
  PROVE  /\ CancelStale \in [Tasks -> Rows]
         /\ CancelStale[t].status \in {wf[t].status, "cancelled"}
         /\ CancelStale[t].status = "running" => wf[t].status = "running"
<1>1. wf \in [Tasks -> Rows]
  BY DEF TypeOK, Rows
<1>2. ASSUME NEW u \in Tasks
      PROVE  /\ CancelStale[u] \in Rows
             /\ CancelStale[u].status \in {wf[u].status, "cancelled"}
  <2> DEFINE gone == [wf[u] EXCEPT !.status = "cancelled", !.version = wf[u].version + 1,
                                   !.resting = FALSE]
  <2>1. gone \in Rows /\ gone.status = "cancelled"
    <3>1. wf[u] \in Rows /\ wf[u].version + 1 \in Nat
      BY <1>1 DEF Rows
    <3> QED
      BY <3>1 DEF Rows, Statuses
  <2>2. CancelStale[u] \in {wf[u], gone}
    BY DEF CancelStale
  <2> HIDE DEF gone
  <2> QED
    BY <1>1, <2>1, <2>2
<1>3. CancelStale = [u \in Tasks |-> CancelStale[u]]
  BY DEF CancelStale
<1> QED
  BY <1>2, <1>3

\* The row of a claimed task.
Running(row) == [row EXCEPT !.status = "running", !.version = row.version + 1,
                            !.priority = "normal", !.source = "none"]

LEMMA RunningType ==
  ASSUME NEW row \in Rows
  PROVE  Running(row) \in Rows
<1>1. row.version + 1 \in Nat
  BY DEF Rows
<1> QED
  BY <1>1 DEF Running, Rows, Statuses

\* The two ways a claim ends.
LEMMA ClaimCases ==
  ASSUME Claim, TypeOK
  PROVE  /\ UNCHANGED <<task, timing, pass, now, inputs>>
         /\ \/ /\ \E S : changes' = Evaluate(changes, S)
               /\ wf' = CancelStale
               /\ UNCHANGED <<begun, claims>>
            \/ \E t \in Tasks :
                 /\ Eligible(t) /\ CancelStale[t].status = "queued"
                 /\ \E S : t \in S /\ changes' = Evaluate(changes, S)
                 /\ wf' = [CancelStale EXCEPT ![t] = Running(CancelStale[t])]
                 /\ begun' = begun \cup {t}
                 /\ claims > 0 /\ claims' = claims - 1
<1> DEFINE rows   == CancelStale
           queue  == {t \in Tasks : rows[t].status = "queued" /\ ~rows[t].resting}
           ready  == {t \in queue : Eligible(t)}
           place  == Places
           before(t) == {u \in queue : place[u] < place[t]}
           beside(t) == {u \in queue \ ready : place[u] = place[t]}
<1>1. UNCHANGED <<task, timing, pass, now, inputs>>
  BY DEF Claim
<1>2. \/ /\ changes' = Evaluate(changes, queue) /\ wf' = rows
         /\ UNCHANGED <<begun, claims>>
      \/ \E t \in ready : \E S \in SUBSET beside(t) :
           /\ claims > 0
           /\ changes' = Evaluate(changes, before(t) \cup S \cup {t})
           /\ wf' = [rows EXCEPT ![t].status = "running", ![t].version = @ + 1,
                                 ![t].priority = "normal", ![t].source = "none"]
           /\ begun' = begun \cup {t}
           /\ claims' = claims - 1
  BY DEF Claim
<1>3. ASSUME NEW t \in ready
      PROVE  [rows EXCEPT ![t].status = "running", ![t].version = @ + 1,
                          ![t].priority = "normal", ![t].source = "none"]
               = [rows EXCEPT ![t] = Running(rows[t])]
  <2>1. rows \in [Tasks -> Rows] /\ t \in Tasks
    BY CancelStaleTypes
  <2> HIDE DEF rows
  <2> QED
    BY <2>1 DEF Running, Rows
<1>4. \A t \in ready : t \in Tasks /\ Eligible(t) /\ rows[t].status = "queued"
  OBVIOUS
<1>5. \A t, S : t \in before(t) \cup S \cup {t}
  OBVIOUS
<1> HIDE DEF rows, queue, ready, place, before, beside
<1>6. CASE \E t \in ready : \E S \in SUBSET beside(t) :
           /\ claims > 0
           /\ changes' = Evaluate(changes, before(t) \cup S \cup {t})
           /\ wf' = [rows EXCEPT ![t].status = "running", ![t].version = @ + 1,
                                 ![t].priority = "normal", ![t].source = "none"]
           /\ begun' = begun \cup {t}
           /\ claims' = claims - 1
  <2>0. PICK t \in ready : \E S \in SUBSET beside(t) :
           /\ claims > 0
           /\ changes' = Evaluate(changes, before(t) \cup S \cup {t})
           /\ wf' = [rows EXCEPT ![t].status = "running", ![t].version = @ + 1,
                                 ![t].priority = "normal", ![t].source = "none"]
           /\ begun' = begun \cup {t}
           /\ claims' = claims - 1
    BY <1>6
  <2>1. PICK S \in SUBSET beside(t) :
           /\ claims > 0
           /\ changes' = Evaluate(changes, before(t) \cup S \cup {t})
           /\ wf' = [rows EXCEPT ![t].status = "running", ![t].version = @ + 1,
                                 ![t].priority = "normal", ![t].source = "none"]
           /\ begun' = begun \cup {t}
           /\ claims' = claims - 1
    BY <2>0
  <2>2. wf' = [CancelStale EXCEPT ![t] = Running(CancelStale[t])]
    BY <1>3, <2>1 DEF rows
  <2>3. t \in Tasks /\ Eligible(t) /\ CancelStale[t].status = "queued"
    BY <1>4 DEF rows
  <2>4. \E Q : t \in Q /\ changes' = Evaluate(changes, Q)
    BY <1>5, <2>1
  <2> QED
    BY <1>1, <2>1, <2>2, <2>3, <2>4
<1>7. CASE /\ changes' = Evaluate(changes, queue) /\ wf' = rows
           /\ UNCHANGED <<begun, claims>>
  BY <1>1, <1>7 DEF rows
<1> QED
  BY <1>2, <1>6, <1>7

\* The claim lets go of whom nothing holds, and writes that down.
LEMMA ClaimGood ==
  ASSUME Good, Claim
  PROVE  Good'
<1>0. TypeOK /\ RunningIsFree /\ UNCHANGED <<task, timing, pass, now, inputs>>
  BY ClaimCases DEF Good
<1>1. ChangeSets' = ChangeSets
  BY <1>0, SameSets
<1>2. \A t \in Tasks : /\ CancelStale \in [Tasks -> Rows]
                       /\ CancelStale[t].status = "running" => wf[t].status = "running"
  BY <1>0, CancelStaleTypes
<1>3. CASE /\ \E S : changes' = Evaluate(changes, S)
           /\ wf' = CancelStale
           /\ UNCHANGED <<begun, claims>>
  <2>1. /\ changes' \in Seq(ChangeSets)
        /\ \A t \in Tasks : LiveOn(changes', t) \subseteq LiveOn(changes, t)
    BY <1>0, <1>3, Evaluated
  <2>2. wf' \in [Tasks -> Rows]
    <3>1. CancelStale = [t \in Tasks |-> CancelStale[t]]
      BY DEF CancelStale
    <3> QED
      BY <1>2, <1>3, <3>1
  <2>3. TypeOK'
    BY <1>0, <1>1, <1>3, <2>1, <2>2 DEF TypeOK, Rows
  <2> QED
    BY <1>0, <1>2, <1>3, <2>1, <2>3, StillFree DEF Good
<1>4. ASSUME NEW t \in Tasks,
             Eligible(t), CancelStale[t].status = "queued",
             NEW S, t \in S, changes' = Evaluate(changes, S),
             wf' = [CancelStale EXCEPT ![t] = Running(CancelStale[t])],
             begun' = begun \cup {t},
             claims > 0, claims' = claims - 1
      PROVE  Good'
  <2>1. /\ changes' \in Seq(ChangeSets)
        /\ \A u \in Tasks : LiveOn(changes', u) \subseteq LiveOn(changes, u)
        /\ LiveOn(changes', t) = {}
    BY <1>0, <1>4, Evaluated, ReleasedIsFree
  <2>2. /\ wf' \in [Tasks -> Rows]
        /\ \A u \in Tasks : wf'[u].status = "running" /\ u # t => wf[u].status = "running"
    <3>1. Running(CancelStale[t]) \in Rows
      BY <1>2, RunningType
    <3> QED
      BY <1>2, <1>4, <3>1
  <2>3. claims' \in 0..MaxClaims
    <3>1. claims \in 0..MaxClaims
      BY <1>0 DEF TypeOK
    <3>2. claims > 0 /\ claims' = claims - 1
      BY <1>4
    <3>3. MaxClaims \in Nat
      BY TaskSchedulingAssumption
    <3> QED BY ONLY <3>1, <3>2, <3>3
  <2>4. TypeOK'
    <3>1. begun' \subseteq Tasks
      BY <1>0, <1>4 DEF TypeOK
    <3>2. /\ task' = task /\ timing' = timing /\ pass' = pass
          /\ now' = now /\ inputs' = inputs
      BY <1>0
    <3>3. wf' \in [Tasks -> Rows] /\ changes' \in Seq(ChangeSets)'
      BY <1>1, <2>1, <2>2
    <3> QED BY <1>0, <2>3, <3>1, <3>2, <3>3 DEF TypeOK, Rows
  <2>5. RunningIsFree'
    BY <1>0, <2>1, <2>2 DEF RunningIsFree
  <2> QED
    BY <2>4, <2>5 DEF Good
<1> QED
  BY <1>0, <1>3, <1>4, ClaimCases

\* A step of the queue that starts nothing and leaves the conditions alone.
LEMMA QueueMoves ==
  ASSUME Good, wf' \in [Tasks -> Rows], UNCHANGED <<task, changes, timing, pass, begun, now, claims>>,
         inputs' \in 0..MaxInputs,
         \A t \in Tasks : wf'[t].status = "running" => wf[t].status = "running"
  PROVE  Good'
<1>1. ChangeSets' = ChangeSets
  BY SameSets
<1>2. TypeOK'
  BY <1>1 DEF Good, TypeOK, Rows
<1> QED
  BY <1>2, SameChanges DEF Good

LEMMA EndPassGood ==
  ASSUME Good, NEW t \in Tasks, NEW how \in Ends, EndPass(t, how)
  PROVE  Good'
<1> DEFINE row      == wf[t]
           status   == IF how = "result" THEN "awaiting_review" ELSE "queued"
           version  == row.version + 1
           result   == row.result \/ how = "result"
           failures == IF how = "failure" THEN row.failures + 1 ELSE row.failures
           resting  == how \in {"failure", "timeout"}
           ended == [row EXCEPT !.status = status, !.version = version,
                                !.result = result, !.failures = failures,
                                !.resting = resting]
<1>1. wf \in [Tasks -> Rows]
  BY DEF Good, TypeOK, Rows
<1>2. ended \in Rows /\ ended.status # "running"
  <2>1. row \in Rows /\ version \in Nat /\ failures \in Nat
    BY <1>1 DEF Rows
  <2>2. result \in BOOLEAN /\ resting \in BOOLEAN
    OBVIOUS
  <2>3. status \in Statuses /\ status # "running"
    BY DEF Statuses
  <2> HIDE DEF row, status, version, result, failures, resting
  <2> QED
    BY <2>1, <2>2, <2>3 DEF Rows
<1>3. wf' = [wf EXCEPT ![t] = ended]
  BY <1>1 DEF EndPass, Rows
<1>4. UNCHANGED <<task, changes, Others>>
  BY DEF EndPass
<1> HIDE DEF ended
<1>5. /\ wf' \in [Tasks -> Rows]
      /\ \A u \in Tasks : wf'[u].status = "running" => wf[u].status = "running"
  BY <1>1, <1>2, <1>3
<1>6. inputs' \in 0..MaxInputs
  BY <1>4 DEF Good, TypeOK, Others
<1> QED
  BY <1>4, <1>5, <1>6, QueueMoves DEF Others

LEMMA RestEndsGood ==
  ASSUME Good, NEW t \in Tasks, RestEnds(t)
  PROVE  Good'
<1>1. wf \in [Tasks -> Rows]
  BY DEF Good, TypeOK, Rows
<1>2. [wf[t] EXCEPT !.resting = FALSE] \in Rows
      /\ [wf[t] EXCEPT !.resting = FALSE].status = wf[t].status
  BY <1>1 DEF Rows
<1>3. wf' = [wf EXCEPT ![t] = [wf[t] EXCEPT !.resting = FALSE]]
  BY DEF RestEnds
<1>4. /\ wf' \in [Tasks -> Rows]
      /\ \A u \in Tasks : wf'[u].status = "running" => wf[u].status = "running"
  BY <1>1, <1>2, <1>3
<1>5. UNCHANGED <<task, changes, Others>> /\ inputs' \in 0..MaxInputs
  BY DEF RestEnds, Good, TypeOK, Others
<1> QED
  BY <1>4, <1>5, QueueMoves DEF Others

LEMMA RescheduleGood ==
  ASSUME Good, NEW t \in Tasks, Reschedule(t)
  PROVE  Good'
<1> DEFINE row == [NewRow EXCEPT !.version = wf[t].version + 1,
                                 !.task_version = task[t].version]
<1>1. wf \in [Tasks -> Rows] /\ task \in [Tasks -> TaskStates]
  BY DEF Good, TypeOK, Rows, TaskStates
<1>2. row \in Rows /\ row.status = "queued"
  <2>1. wf[t].version + 1 \in Nat /\ task[t].version \in Nat
    BY <1>1 DEF Rows, TaskStates
  <2> QED
    BY <2>1, NewRowType DEF Rows
<1>3. wf' = [wf EXCEPT ![t] = row]
  BY DEF Reschedule
<1> HIDE DEF row
<1>4. /\ wf' \in [Tasks -> Rows]
      /\ \A u \in Tasks : wf'[u].status = "running" => wf[u].status = "running"
  BY <1>1, <1>2, <1>3
<1>5. UNCHANGED <<task, changes, Others>> /\ inputs' \in 0..MaxInputs
  BY DEF Reschedule, Good, TypeOK, Others
<1> QED
  BY <1>4, <1>5, QueueMoves DEF Others

\* What the reader does counts against a bound.
LEMMA InputCounts ==
  ASSUME Good, NEW kind, Input(kind)
  PROVE  inputs' \in 0..MaxInputs
BY TaskSchedulingAssumption DEF Input, Good, TypeOK

LEMMA SetPriorityGood ==
  ASSUME Good, NEW t \in Tasks, NEW p \in {"raised", "normal", "lowered"}, SetPriority(t, p)
  PROVE  Good'
<1> DEFINE rows == CancelStale
           row  == rows[t]
           set  == [row EXCEPT !.priority = p, !.version = row.version + 1,
                               !.source = IF p = "normal" THEN "none" ELSE "reader"]
<1>1. /\ rows \in [Tasks -> Rows]
      /\ \A u \in Tasks : rows[u].status = "running" => wf[u].status = "running"
  <2>1. TypeOK
    BY DEF Good
  <2>2. rows = [u \in Tasks |-> rows[u]]
    BY DEF CancelStale
  <2> QED
    BY <2>1, <2>2, CancelStaleTypes
<1>2. wf' = [rows EXCEPT ![t].priority = p, ![t].version = @ + 1,
                         ![t].source = IF p = "normal" THEN "none" ELSE "reader"]
  BY DEF SetPriority
<1>3. UNCHANGED <<task, changes, timing, pass, begun, now, claims>> /\ inputs' \in 0..MaxInputs
  BY InputCounts DEF SetPriority
<1> HIDE DEF rows
<1>4. wf' = [rows EXCEPT ![t] = set]
  BY <1>1, <1>2 DEF Rows
<1>5. set \in Rows /\ set.status = row.status
  <2>1. row \in Rows /\ row.version + 1 \in Nat
    BY <1>1 DEF Rows
  <2> QED
    BY <2>1 DEF Rows
<1> HIDE DEF set
<1>6. /\ wf' \in [Tasks -> Rows]
      /\ \A u \in Tasks : wf'[u].status = "running" => wf[u].status = "running"
  BY <1>1, <1>4, <1>5
<1> QED
  BY <1>3, <1>6, QueueMoves

LEMMA MoveTaskGood ==
  ASSUME Good, NEW t \in Tasks, NEW s \in {"open", "done", "dropped"}, MoveTask(t, s)
  PROVE  Good'
<1>1. task' \in [Tasks -> TaskStates]
  BY DEF MoveTask, Good, TypeOK, TaskStates
<1>2. UNCHANGED <<wf, changes, timing, pass, begun, now, claims>> /\ inputs' \in 0..MaxInputs
  BY InputCounts DEF MoveTask
<1>3. ChangeSets' = ChangeSets
  BY <1>2, SameSets
<1>4. TypeOK'
  BY <1>1, <1>2, <1>3 DEF Good, TypeOK, TaskStates
<1> QED
  BY <1>2, <1>4, SameChanges DEF Good

LEMMA NextDayGood ==
  ASSUME Good, NextDay
  PROVE  Good'
<1>1. now' \in Days /\ UNCHANGED <<task, wf, changes, timing, pass, begun, claims, inputs>>
  BY DEF NextDay
<1>2. ChangeSets' = ChangeSets
  BY <1>1, SameSets
<1>3. TypeOK'
  BY <1>1, <1>2 DEF Good, TypeOK
<1> QED
  BY <1>1, <1>3, SameChanges DEF Good

-----------------------------------------------------------------------------
(* The theorems *)

LEMMA NextGood == Good /\ [Next]_vars => Good'
<1> SUFFICES ASSUME Good, [Next]_vars PROVE Good'
  OBVIOUS
<1>1. ASSUME NEW j \in DOMAIN pass,
             Publish(j) \/ Look(j) \/ ApplyNext(j) \/ BreakOff(j) \/ RecordTiming(j)
      PROVE  Good'
  BY <1>1, PassMoves, ApplyNextGood
<1>2. CASE ClaimCard
  BY <1>2, CardMoves DEF ClaimCard, CardStates
<1>3. CASE Claim
  BY <1>3, ClaimGood
<1>4. CASE NextDay
  BY <1>4, NextDayGood
<1>5. ASSUME NEW i \in DOMAIN changes,
             CompleteDelivery(i) \/ FailDelivery(i) \/ Keep(i)
      PROVE  Good'
  <2>1. \E status \in CardStates : Set(i, status) /\ UNCHANGED <<task, wf, Others>>
    BY <1>5 DEF CompleteDelivery, FailDelivery, Keep, CardStates
  <2> QED
    BY <2>1, CardMoves
<1>6. ASSUME NEW i \in DOMAIN changes, Undo(i) \/ UndoRefused(i) PROVE Good'
  BY <1>6, UndoGood, UndoRefusedGood
<1>7. ASSUME NEW t \in Tasks,
             \/ RestEnds(t) \/ Reschedule(t)
             \/ \E how \in Ends : EndPass(t, how)
             \/ \E p \in {"raised", "normal", "lowered"} : SetPriority(t, p)
             \/ \E s \in {"open", "done", "dropped"} : MoveTask(t, s)
      PROVE  Good'
  BY <1>7, RestEndsGood, RescheduleGood, EndPassGood, SetPriorityGood, MoveTaskGood
<1>8. CASE UNCHANGED vars
  <2>1. ChangeSets' = ChangeSets
    BY <1>8, SameSets DEF vars
  <2> QED
    BY <1>8, <2>1 DEF vars, Good, TypeOK, RunningIsFree, LiveOn
<1> QED
  BY <1>1, <1>2, <1>3, <1>4, <1>5, <1>6, <1>7, <1>8 DEF Next

LEMMA AlwaysGood == Spec => []Good
BY InitGood, NextGood, PTL DEF Spec

\* The rows of the queue, the change sets with their conditions and cards and
\* the projections of the reports are always what their tables admit, whatever
\* TaskSchedulingService and the ledger do to them.
THEOREM SchedulingTypes == Spec => []TypeOK
BY AlwaysGood, PTL DEF Good

\* No condition holds a task whose agent is at work: _target_refusal refuses a
\* running row, the claim's transaction writes the conditions it found met, and
\* nothing brings a condition back.
THEOREM RunningTasksAreFree == Spec => []RunningIsFree
BY AlwaysGood, PTL DEF Good

-----------------------------------------------------------------------------
(* Automation yields.  A prerequisite is taken back only with its row as    *)
(* apply made it, at version 1; whoever has been at it, an agent or the     *)
(* reader, has left a later version behind.                                 *)

Traces ==
    \A t \in Tasks :
      /\ task[t].status = "absent" <=> wf[t].status = "absent"
      /\ wf[t].version >= 1
      /\ t \in begun \/ wf[t].source = "reader" =>
           task[t].status # "absent" /\ wf[t].version > 1

\* What a step makes of one row.
Kept(t) == /\ wf'[t].version = wf[t].version /\ wf'[t].source = wf[t].source
           /\ wf'[t].status = wf[t].status
           /\ t \in begun' => t \in begun
           /\ task'[t].status = "absent" <=> task[t].status = "absent"
Advanced(t) == /\ wf'[t].version > wf[t].version
               /\ wf[t].status # "absent" /\ wf'[t].status # "absent"
               /\ task'[t].status = "absent" <=> task[t].status = "absent"
Made(t) == /\ task[t].status = "absent" /\ task'[t].status = "open"
           /\ wf'[t] = NewRow
           /\ t \in begun' => t \in begun

Steps == \A t \in Tasks : Kept(t) \/ Advanced(t) \/ Made(t)

LEMMA StepsLeaveTraces ==
  ASSUME TypeOK, TypeOK', Traces, Steps
  PROVE  Traces'
<1> SUFFICES ASSUME NEW t \in Tasks
             PROVE  /\ task'[t].status = "absent" <=> wf'[t].status = "absent"
                    /\ wf'[t].version >= 1
                    /\ t \in begun' \/ wf'[t].source = "reader" =>
                         task'[t].status # "absent" /\ wf'[t].version > 1
  BY DEF Traces
<1>1. wf[t].version \in Nat /\ wf'[t].version \in Nat
  BY DEF TypeOK
<1>2. /\ task[t].status = "absent" <=> wf[t].status = "absent"
      /\ wf[t].version >= 1
      /\ t \in begun \/ wf[t].source = "reader" =>
           task[t].status # "absent" /\ wf[t].version > 1
  BY DEF Traces
<1>3. CASE Kept(t)
  BY <1>2, <1>3 DEF Kept
<1>4. CASE Advanced(t)
  BY <1>1, <1>2, <1>4 DEF Advanced
<1>5. CASE Made(t)
  BY <1>2, <1>5 DEF Made, NewRow
<1> QED
  BY <1>3, <1>4, <1>5 DEF Steps

\* The change sets there are stay, and none is undone.
NoneUndone == /\ DOMAIN changes' = DOMAIN changes
              /\ \A k \in DOMAIN changes :
                   changes'[k].state = "undone" => changes[k].state = "undone"

LEMMA NothingAutomated == NoneUndone => Yields
BY DEF NoneUndone, Yields, Automated

LEMMA CardsStay ==
  ASSUME TypeOK, NEW i, NEW status \in CardStates, Set(i, status)
  PROVE  NoneUndone
<1>1. \A k \in DOMAIN changes : changes[k] \in ChangeSets
  BY ChangeSetTypes
<1>2. /\ DOMAIN changes' = DOMAIN changes
      /\ \A k \in DOMAIN changes :
           changes'[k] = IF k = i THEN [changes[k] EXCEPT !.card = status] ELSE changes[k]
  BY DEF Set
<1> QED
  BY <1>1, <1>2 DEF NoneUndone, ChangeSets

LEMMA EvaluatedStay ==
  ASSUME TypeOK, NEW S, changes' = Evaluate(changes, S)
  PROVE  NoneUndone
<1>1. \A k \in DOMAIN changes : changes[k] \in ChangeSets
  BY ChangeSetTypes
<1>2. /\ DOMAIN changes' = DOMAIN changes
      /\ \A k \in DOMAIN changes :
           \/ changes'[k] = [changes[k] EXCEPT !.condition = Refreshed(changes[k])]
           \/ changes'[k] = changes[k]
  BY DEF Evaluate
<1> QED
  BY <1>1, <1>2 DEF NoneUndone, ChangeSets

\* A stale row is cancelled with its version advanced, the others stay.
LEMMA CancelStaleSteps ==
  ASSUME TypeOK, NEW t \in Tasks
  PROVE  \/ CancelStale[t] = wf[t]
         \/ /\ CancelStale[t].version > wf[t].version
            /\ wf[t].status # "absent" /\ CancelStale[t].status = "cancelled"
<1>1. wf[t] \in Rows
  BY DEF TypeOK, Rows
<1>2. CASE /\ wf[t].status \notin {"absent", "cancelled"}
           /\ task[t].status # "open" \/ task[t].version # wf[t].task_version
  <2>1. CancelStale[t] = [wf[t] EXCEPT !.status = "cancelled", !.version = wf[t].version + 1,
                                       !.resting = FALSE]
    BY <1>2 DEF CancelStale
  <2>2. CancelStale[t].version = wf[t].version + 1 /\ CancelStale[t].status = "cancelled"
    BY <1>1, <2>1 DEF Rows
  <2> QED
    BY <1>1, <1>2, <2>2 DEF Rows
<1>3. CASE ~(/\ wf[t].status \notin {"absent", "cancelled"}
             /\ task[t].status # "open" \/ task[t].version # wf[t].task_version)
  BY <1>3 DEF CancelStale
<1> QED
  BY <1>2, <1>3

\* A row written on top of the stale ones' cancelling.
LEMMA OverStale ==
  ASSUME TypeOK, NEW t \in Tasks, CancelStale[t].status = "queued",
         NEW row, row.version = CancelStale[t].version + 1, row.status # "absent",
         wf' = [CancelStale EXCEPT ![t] = row],
         \A u \in Tasks \ {t} : u \in begun' => u \in begun,
         UNCHANGED task
  PROVE  Steps
<1>1. ASSUME NEW u \in Tasks, u # t PROVE Kept(u) \/ Advanced(u)
  <2>1. wf'[u] = CancelStale[u]
    BY <1>1 DEF CancelStale
  <2> QED
    BY <1>1, <2>1, CancelStaleSteps DEF Kept, Advanced
<1>2. Advanced(t)
  <2>1. wf'[t] = row
    BY DEF CancelStale
  <2>2. CancelStale[t] = wf[t]
    BY CancelStaleSteps
  <2>3. wf[t].version \in Nat
    BY DEF TypeOK
  <2> QED
    BY <2>1, <2>2, <2>3 DEF Advanced
<1> QED
  BY <1>1, <1>2 DEF Steps

LEMMA ClaimSteps ==
  ASSUME TypeOK, Claim
  PROVE  Steps /\ NoneUndone
<1>1. NoneUndone
  BY ClaimCases, EvaluatedStay
<1>2. UNCHANGED task
  BY ClaimCases
<1>3. CASE wf' = CancelStale /\ UNCHANGED begun
  BY <1>1, <1>2, <1>3, CancelStaleSteps DEF Steps, Kept, Advanced
<1>4. ASSUME NEW t \in Tasks, CancelStale[t].status = "queued",
             wf' = [CancelStale EXCEPT ![t] = Running(CancelStale[t])],
             begun' = begun \cup {t}
      PROVE  Steps
  <2>1. CancelStale[t] \in Rows
    BY CancelStaleTypes
  <2>2. /\ Running(CancelStale[t]).version = CancelStale[t].version + 1
        /\ Running(CancelStale[t]).status # "absent"
    BY <2>1 DEF Running, Rows
  <2> QED
    BY <1>2, <1>4, <2>2, OverStale
<1> QED
  BY <1>1, <1>3, <1>4, ClaimCases

LEMMA OthersSteps ==
  ASSUME TypeOK, NEW t \in Tasks,
         \/ RestEnds(t) \/ Reschedule(t)
         \/ \E how \in Ends : EndPass(t, how)
         \/ \E p \in {"raised", "normal", "lowered"} : SetPriority(t, p)
         \/ \E s \in {"open", "done", "dropped"} : MoveTask(t, s)
  PROVE  Steps /\ NoneUndone
<1>0. wf \in [Tasks -> Rows] /\ task \in [Tasks -> TaskStates] /\ wf[t].version \in Nat
  BY DEF TypeOK, Rows, TaskStates
<1>1. CASE RestEnds(t)
  <2>1. /\ wf' = [wf EXCEPT ![t] = [wf[t] EXCEPT !.resting = FALSE]]
        /\ UNCHANGED <<task, changes, begun>>
    BY <1>1 DEF RestEnds, Others
  <2>2. \A u \in Tasks : /\ wf'[u].version = wf[u].version /\ wf'[u].source = wf[u].source
                         /\ wf'[u].status = wf[u].status
    BY <1>0, <2>1 DEF Rows
  <2> QED
    BY <2>1, <2>2 DEF Steps, Kept, NoneUndone
<1>2. CASE Reschedule(t)
  <2>1. /\ wf[t].status = "cancelled"
        /\ wf' = [wf EXCEPT ![t] = [NewRow EXCEPT !.version = wf[t].version + 1,
                                                  !.task_version = task[t].version]]
        /\ UNCHANGED <<task, changes, begun>>
    BY <1>2 DEF Reschedule, Others
  <2>2. /\ wf'[t].version = wf[t].version + 1 /\ wf'[t].status = "queued"
        /\ \A u \in Tasks \ {t} : wf'[u] = wf[u]
    BY <1>0, <2>1 DEF NewRow
  <2> QED
    BY <1>0, <2>1, <2>2 DEF Steps, Kept, Advanced, NoneUndone
<1>3. ASSUME NEW how \in Ends, EndPass(t, how)
      PROVE  Steps /\ NoneUndone
  <2>1. wf[t].status = "running" /\ UNCHANGED <<task, changes, begun>>
    BY <1>3 DEF EndPass, Others
  <2>2. /\ wf'[t].version = wf[t].version + 1
        /\ wf'[t].status \in {"awaiting_review", "queued"}
        /\ \A u \in Tasks \ {t} : wf'[u] = wf[u]
    <3>1. wf[t] \in Rows
      BY <1>0
    <3> QED BY <1>0, <1>3, <3>1 DEF EndPass, Rows
  <2>3. Advanced(t)
    <3>1. wf'[t].version > wf[t].version
      BY <1>0, <2>2
    <3>2. wf[t].status # "absent" /\ wf'[t].status # "absent"
      BY <2>1, <2>2
    <3> QED BY <2>1, <3>1, <3>2 DEF Advanced
  <2>4. \A u \in Tasks \ {t} : Kept(u)
    BY <2>1, <2>2 DEF Kept
  <2>5. NoneUndone
    BY <2>1 DEF NoneUndone
  <2> QED BY <2>3, <2>4, <2>5 DEF Steps
<1>4. ASSUME NEW p \in {"raised", "normal", "lowered"}, SetPriority(t, p)
      PROVE  Steps /\ NoneUndone
  <2> DEFINE row == [CancelStale[t] EXCEPT
                       !.priority = p, !.version = CancelStale[t].version + 1,
                       !.source = IF p = "normal" THEN "none" ELSE "reader"]
  <2>1. CancelStale \in [Tasks -> Rows]
    BY CancelStaleTypes
  <2>2. /\ CancelStale[t].status = "queued"
        /\ wf' = [CancelStale EXCEPT ![t] = row]
        /\ UNCHANGED <<task, changes, begun>>
    BY <1>4, <2>1 DEF SetPriority, Rows
  <2>3. row.version = CancelStale[t].version + 1 /\ row.status = "queued"
    BY <2>1, <2>2 DEF Rows
  <2> HIDE DEF row
  <2>4. Steps
    BY <2>2, <2>3, OverStale
  <2> QED
    BY <2>2, <2>4 DEF NoneUndone
<1>5. ASSUME NEW s \in {"open", "done", "dropped"}, MoveTask(t, s)
      PROVE  Steps /\ NoneUndone
  <2>1. /\ task' = [task EXCEPT ![t] = [status |-> s, version |-> task[t].version + 1]]
        /\ task[t].status # "absent"
        /\ UNCHANGED <<wf, changes, begun>>
    BY <1>5 DEF MoveTask
  <2>2. \A u \in Tasks : task'[u].status = "absent" <=> task[u].status = "absent"
    BY <1>0, <2>1
  <2> QED
    BY <2>1, <2>2 DEF Steps, Kept, NoneUndone
<1> QED
  BY <1>1, <1>2, <1>3, <1>4, <1>5

\* Advice that is applied touches a row nobody has chosen the place of, or
\* makes one.
LEMMA ApplyNextYields ==
  ASSUME TypeOK, Traces, NEW j \in DOMAIN pass, ApplyNext(j)
  PROVE  Steps /\ Yields
<1> DEFINE item == Items(j)[pass[j].at]
           fit  == {r \in Tasks : Admits(j, item, pass[j].read, r)}
           t    == Target(j)
<1>0. /\ wf \in [Tasks -> Rows] /\ task \in [Tasks -> TaskStates] /\ t \in Tasks
      /\ begun' = begun
  BY PassTypes DEF TypeOK, Rows, TaskStates, ApplyNext
<1>1. CASE fit = {}
  <2>1. UNCHANGED <<task, wf, changes, begun>>
    BY <1>0, <1>1 DEF ApplyNext
  <2> QED
    BY <2>1 DEF Steps, Kept, Yields
<1>2. CASE fit # {}
  <2>1. PICK related \in Tasks : /\ Admits(j, item, pass[j].read, related)
                                 /\ Apply(j, item, pass[j].read, related)
    BY <1>2 DEF ApplyNext
  <2>2. CASE item.kind = "create_prerequisite"
    <3>1. /\ task[related].status = "absent"
          /\ task' = [task EXCEPT ![related] = [status |-> "open", version |-> 1]]
          /\ wf' = [wf EXCEPT ![related] = NewRow]
      BY <2>1, <2>2 DEF Admits, Apply, Created
    <3>2. Made(related) /\ \A u \in Tasks \ {related} : Kept(u)
      BY <1>0, <3>1 DEF Made, Kept
    <3>3. related \notin begun /\ wf[related].source # "reader"
      BY <3>1 DEF Traces
    <3> QED
      BY <1>0, <3>1, <3>2, <3>3 DEF Steps, Yields
  <2>3. CASE item.kind = "raise_priority"
    <3>1. /\ wf[t].source = "none" /\ wf[t].status = "queued"
          /\ wf[t].version = pass[j].read
          /\ task' = task
          /\ wf' = [wf EXCEPT ![t].priority = "raised", ![t].source = "automation",
                              ![t].version = pass[j].read + 1]
      BY <2>1, <2>3 DEF Admits, Apply, MayRaise, MaySchedule
    <3>2. /\ wf'[t].version = wf[t].version + 1 /\ wf'[t].status = "queued"
          /\ \A u \in Tasks \ {t} : wf'[u] = wf[u]
      BY <1>0, <3>1 DEF Rows
    <3>3. wf[t].version \in Nat
      BY <1>0 DEF Rows
    <3>4. Advanced(t) /\ \A u \in Tasks \ {t} : Kept(u)
      BY <1>0, <3>1, <3>2, <3>3 DEF Advanced, Kept
    <3> QED
      BY <1>0, <3>1, <3>2, <3>4 DEF Steps, Yields
  <2>4. CASE item.kind \notin {"create_prerequisite", "raise_priority"}
    <3>1. UNCHANGED <<task, wf>>
      BY <2>1, <2>4 DEF Apply
    <3> QED
      BY <1>0, <3>1 DEF Steps, Kept, Yields
  <2> QED
    BY <2>2, <2>3, <2>4
<1> QED
  BY <1>1, <1>2

\* What is undone is a priority that is still automation's, or a row that is
\* still at its first version, which nobody has begun and no reader placed.
LEMMA UndoYields ==
  ASSUME TypeOK, Traces, NEW i \in DOMAIN changes, Undo(i)
  PROVE  Steps /\ Yields
<1> DEFINE c == changes[i]
<1>0. /\ wf \in [Tasks -> Rows] /\ task \in [Tasks -> TaskStates]
      /\ begun' = begun /\ c \in ChangeSets
  BY ChangeSetTypes DEF TypeOK, Rows, TaskStates, Undo, Others
<1>1. c.created # "none" => Pristine(c.created)
  BY DEF Undo, Conflicts
<1>2. /\ c.task \in Tasks
      /\ task[c.task].status = "open"
      /\ c.item.kind = "raise_priority" => wf[c.task].source = "automation"
  BY <1>0 DEF Undo, Conflicts, MaySchedule, ChangeSets
<1>3. \A t \in Tasks :
        /\ task'[t] = IF t = c.created THEN [status |-> "dropped", version |-> 2]
                      ELSE task[t]
        /\ wf'[t] = IF t = c.created
                    THEN [wf[t] EXCEPT !.status = "cancelled", !.version = wf[t].version + 1]
                    ELSE IF t = c.task /\ c.item.kind = "raise_priority"
                    THEN [wf[t] EXCEPT !.priority = "normal", !.source = "none",
                                       !.version = wf[t].version + 1]
                    ELSE wf[t]
  BY DEF Undo
<1> HIDE DEF c
<1>4. ASSUME NEW t \in Tasks
      PROVE  /\ Kept(t) \/ Advanced(t)
             /\ wf[t].source = "reader" => wf'[t] = wf[t]
             /\ t \in begun => task'[t] = task[t]
  <2>1. wf[t] \in Rows /\ wf[t].version \in Nat
    BY <1>0 DEF Rows
  <2>2. CASE t = c.created
    <3>1. "none" \notin Tasks
      BY TaskSchedulingAssumption
    <3>2. /\ task[t] = [status |-> "open", version |-> 1]
          /\ wf[t].status = "queued" /\ wf[t].version = 1
      BY <1>1, <2>2, <3>1 DEF Pristine
    <3>3. wf'[t].version = wf[t].version + 1 /\ wf'[t].status = "cancelled"
      BY <1>3, <2>1, <2>2 DEF Rows
    <3>4. task'[t].status = "dropped"
      <4>1. task'[t] = [status |-> "dropped", version |-> 2]
        BY <1>3, <2>2
      <4> QED
        BY <4>1
    <3>5. Advanced(t)
      BY <2>1, <3>2, <3>3, <3>4 DEF Advanced
    <3>6. t \notin begun /\ wf[t].source # "reader"
      BY <3>2 DEF Traces
    <3> QED
      BY <3>5, <3>6
  <2>3. CASE t # c.created /\ t = c.task /\ c.item.kind = "raise_priority"
    <3>1. task'[t] = task[t] /\ wf[t].source = "automation"
      BY <1>2, <1>3, <2>3
    <3>2. wf[t].status # "absent"
      BY <1>2, <2>3 DEF Traces
    <3>3. wf'[t].version = wf[t].version + 1 /\ wf'[t].status = wf[t].status
      BY <1>3, <2>1, <2>3 DEF Rows
    <3> QED
      BY <2>1, <3>1, <3>2, <3>3 DEF Advanced
  <2>4. CASE t # c.created /\ ~(t = c.task /\ c.item.kind = "raise_priority")
    <3>1. task'[t] = task[t] /\ wf'[t] = wf[t]
      BY <1>3, <2>4
    <3> QED
      BY <1>0, <3>1 DEF Kept
  <2> QED
    BY <2>2, <2>3, <2>4
<1> QED
  BY <1>4 DEF Steps, Yields

LEMMA NextYields ==
  ASSUME Good, Traces, [Next]_vars
  PROVE  Steps /\ Yields
<1>0. TypeOK
  BY DEF Good
<1>1. ASSUME UNCHANGED <<task, wf, changes, begun>>
      PROVE  Steps /\ Yields
  BY <1>1 DEF Steps, Kept, Yields
<1>2. ASSUME NEW j \in DOMAIN pass,
             Publish(j) \/ Look(j) \/ ApplyNext(j) \/ BreakOff(j) \/ RecordTiming(j)
      PROVE  Steps /\ Yields
  BY <1>0, <1>1, <1>2, ApplyNextYields DEF Publish, Look, BreakOff, RecordTiming
<1>3. ASSUME NEW i, NEW status \in CardStates, Set(i, status), UNCHANGED <<task, wf, Others>>
      PROVE  Steps /\ Yields
  <2>1. NoneUndone
    BY <1>0, <1>3, CardsStay
  <2> QED
    BY <1>3, <2>1, NothingAutomated DEF Steps, Kept, Others
<1>4. CASE ClaimCard
  BY <1>3, <1>4 DEF ClaimCard, CardStates
<1>5. CASE Claim
  BY <1>0, <1>5, ClaimSteps, NothingAutomated
<1>6. CASE NextDay
  BY <1>1, <1>6 DEF NextDay
<1>7. ASSUME NEW i \in DOMAIN changes,
             CompleteDelivery(i) \/ FailDelivery(i) \/ Keep(i)
      PROVE  Steps /\ Yields
  BY <1>3, <1>7 DEF CompleteDelivery, FailDelivery, Keep, CardStates
<1>8. ASSUME NEW i \in DOMAIN changes, UndoRefused(i)
      PROVE  Steps /\ Yields
  <2>1. /\ changes[i] \in ChangeSets
        /\ changes' = [changes EXCEPT ![i].state = "undo_conflict"]
        /\ UNCHANGED <<task, wf, begun>>
    BY <1>0, <1>8, ChangeSetTypes DEF UndoRefused, Others
  <2>2. NoneUndone
    BY <2>1 DEF NoneUndone, ChangeSets
  <2> QED
    BY <2>1, <2>2, NothingAutomated DEF Steps, Kept
<1>9. ASSUME NEW i \in DOMAIN changes, Undo(i)
      PROVE  Steps /\ Yields
  BY <1>0, <1>9, UndoYields
<1>10. ASSUME NEW t \in Tasks,
              \/ RestEnds(t) \/ Reschedule(t)
              \/ \E how \in Ends : EndPass(t, how)
              \/ \E p \in {"raised", "normal", "lowered"} : SetPriority(t, p)
              \/ \E s \in {"open", "done", "dropped"} : MoveTask(t, s)
       PROVE  Steps /\ Yields
  BY <1>0, <1>10, OthersSteps, NothingAutomated
<1>11. CASE UNCHANGED vars
  BY <1>1, <1>11 DEF vars
<1> QED
  BY <1>2, <1>4, <1>5, <1>6, <1>7, <1>8, <1>9, <1>10, <1>11 DEF Next

LEMMA InitTraces == Init => Traces
BY DEF Init, Traces, NewRow

LEMMA AlwaysTraces == Spec => []Traces
<1>1. Good /\ Good' /\ Traces /\ [Next]_vars => Traces'
  BY NextYields, StepsLeaveTraces DEF Good
<1> QED
  BY <1>1, InitTraces, AlwaysGood, PTL DEF Spec

\* No step that applies advice or undoes it touches a workflow whose place the
\* reader chose or drops a task an agent has ever begun: MayRaise asks who set
\* the priority, _undo_conflict whether the row is still at its first version,
\* and every claim and every choice of the reader advances the version.
THEOREM AutomationAlwaysYields == Spec => AutomationYields
<1>1. Good /\ Traces /\ [Next]_vars => [Yields]_vars
  BY NextYields
<1> QED
  BY <1>1, AlwaysGood, AlwaysTraces, PTL DEF Spec, AutomationYields

-----------------------------------------------------------------------------
(* Nobody waits in a circle                                                *)

\* Whatever holds 0, and with a number its successor, holds all of them.
LEMMA SetInduction ==
  ASSUME NEW S, 0 \in S, \A n \in S \cap Nat : n + 1 \in S
  PROVE  Nat \subseteq S
<1> DEFINE missing == Nat \ S
           less == {p \in Nat \X Nat : p[1] < p[2]}
<1>1. SUFFICES ASSUME missing # {} PROVE FALSE
  OBVIOUS
<1>2. IsWellFoundedOn(less, Nat)
  BY NatLessThanWellFounded DEF OpToRel
<1>3. missing \subseteq Nat
  OBVIOUS
<1> HIDE DEF missing, less
<1>4. PICK n \in missing : \A m \in missing : ~(<<m, n>> \in less)
  BY ONLY <1>1, <1>2, <1>3, WFMin, Zenon
<1>5. \A m \in missing : ~(m < n)
  BY ONLY <1>3, <1>4 DEF less
<1>6. n # 0 /\ n \in Nat
  BY <1>3 DEF missing
<1>7. n - 1 \in Nat /\ n - 1 < n /\ (n - 1) + 1 = n
  BY ONLY <1>6
<1>8. n - 1 \in S
  BY <1>5, <1>7 DEF missing
<1> QED
  BY <1>7, <1>8, <1>6, <1>4 DEF missing

\* A function that is defined by recursion over the numbers exists.
LEMMA Iterated ==
  ASSUME NEW V, NEW start \in V, NEW step \in [V -> V]
  PROVE  \E f \in [Nat -> V] : /\ f[0] = start
                               /\ \A k \in Nat : f[k + 1] = step[f[k]]
<1> DEFINE Begins(g, n) == /\ g[0] = start
                           /\ \A k \in Nat : k < n => g[k + 1] = step[g[k]]
           S == {n \in Nat : \E g \in [0..n -> V] : Begins(g, n)}
<1>1. 0 \in S
  <2>1. [k \in 0..0 |-> start] \in [0..0 -> V] /\ Begins([k \in 0..0 |-> start], 0)
    OBVIOUS
  <2> QED BY <2>1
<1>2. ASSUME NEW n \in S PROVE n + 1 \in S
  <2>1. PICK g \in [0..n -> V] : Begins(g, n)
    OBVIOUS
  <2> DEFINE h == [k \in 0..(n + 1) |-> IF k = n + 1 THEN step[g[n]] ELSE g[k]]
  <2>2. n \in Nat /\ n \in 0..n /\ 0 \in 0..n
    OBVIOUS
  <2>3. h \in [0..(n + 1) -> V]
    <3>1. step[g[n]] \in V
      BY <2>1, <2>2
    <3>2. \A k \in 0..(n + 1) : k # n + 1 => k \in 0..n
      BY <2>2
    <3> QED BY <2>1, <3>1, <3>2
  <2>4. Begins(h, n + 1)
    <3>1. h[0] = start
      BY <2>1, <2>2
    <3>2. ASSUME NEW k \in Nat, k < n + 1 PROVE h[k + 1] = step[h[k]]
      <4>1. k \in 0..(n + 1) /\ k + 1 \in 0..(n + 1) /\ k # n + 1
        BY <2>2, <3>2
      <4>2. h[k] = g[k]
        BY <4>1
      <4>3. CASE k = n
        BY <4>1, <4>2, <4>3
      <4>4. CASE k # n
        <5>1. k < n /\ k + 1 # n + 1
          BY <2>2, <3>2, <4>4
        <5>2. g[k + 1] = step[g[k]]
          BY <2>1, <5>1
        <5> QED BY <4>1, <4>2, <5>1, <5>2
      <4> QED BY <4>3, <4>4
    <3> HIDE DEF h
    <3> QED BY <3>1, <3>2
  <2>5. n + 1 \in Nat
    BY <2>2
  <2> HIDE DEF h, Begins
  <2> QED BY <2>3, <2>4, <2>5
<1>3. Nat \subseteq S
  <2> HIDE DEF S
  <2> QED BY <1>1, <1>2, SetInduction
<1> DEFINE at(n) == CHOOSE g \in [0..n -> V] : Begins(g, n)
           f == [n \in Nat |-> at(n)[n]]
<1>4. ASSUME NEW n \in Nat PROVE at(n) \in [0..n -> V] /\ Begins(at(n), n)
  <2>1. \E g \in [0..n -> V] : Begins(g, n)
    BY <1>3
  <2> HIDE DEF Begins
  <2> QED BY <2>1
<1> HIDE DEF at
<1>5. ASSUME NEW n \in Nat PROVE at(n + 1)[n] = at(n)[n]
  <2> DEFINE T == {k \in Nat : k <= n => at(n + 1)[k] = at(n)[k]}
  <2>1. Begins(at(n), n) /\ Begins(at(n + 1), n + 1)
    <3>1. n + 1 \in Nat
      OBVIOUS
    <3> HIDE DEF Begins
    <3> QED BY <1>4, <3>1
  <2>2. 0 \in T
    BY <2>1
  <2>3. ASSUME NEW k \in T, k + 1 <= n PROVE at(n + 1)[k + 1] = at(n)[k + 1]
    <3>1. k \in Nat /\ k < n /\ k < n + 1 /\ k <= n
      BY <2>3
    <3>2. at(n)[k + 1] = step[at(n)[k]] /\ at(n + 1)[k + 1] = step[at(n + 1)[k]]
      BY <2>1, <3>1
    <3> QED BY <3>1, <3>2
  <2>4. Nat \subseteq T
    <3>1. \A k \in T \cap Nat : k + 1 \in T
      BY <2>3
    <3> HIDE DEF T
    <3> QED BY <2>2, <3>1, SetInduction
  <2> QED BY <2>4
<1>6. f \in [Nat -> V]
  BY <1>4
<1>7. f[0] = start
  BY <1>4
<1>8. ASSUME NEW k \in Nat PROVE f[k + 1] = step[f[k]]
  <2>1. k + 1 \in Nat /\ k < k + 1
    OBVIOUS
  <2>2. at(k + 1)[k + 1] = step[at(k + 1)[k]]
    BY <1>4, <2>1
  <2> QED BY <1>5, <2>1, <2>2
<1> HIDE DEF f
<1> QED BY <1>6, <1>7, <1>8

\* The waits that can be followed from a task, n of them.
LEMMA WaitsFollowed ==
  ASSUME NEW next
  PROVE  \E f \in [Nat -> SUBSET Tasks] :
           /\ f[0] = Tasks
           /\ \A k \in Nat : f[k + 1] = {t \in Tasks : next[t] \cap f[k] # {}}
           /\ \A n \in Nat : WaitsDeep(next, n) = f[n]
<1> DEFINE V == SUBSET Tasks
           step == [A \in V |-> {t \in Tasks : next[t] \cap A # {}}]
           Rule(f) == [k \in Nat |-> IF k = 0 THEN Tasks
                                     ELSE {t \in Tasks : next[t] \cap f[k - 1] # {}}]
<1>1. PICK f \in [Nat -> V] : f[0] = Tasks /\ \A k \in Nat : f[k + 1] = step[f[k]]
  <2>1. Tasks \in V /\ step \in [V -> V]
    OBVIOUS
  <2> HIDE DEF V, step
  <2> QED BY <2>1, Iterated
<1>2. ASSUME NEW k \in Nat PROVE f[k + 1] = {t \in Tasks : next[t] \cap f[k] # {}}
  <2>1. f[k + 1] = step[f[k]]
    BY <1>1
  <2>2. f[k] \in V
    OBVIOUS
  <2> QED BY ONLY <2>1, <2>2
<1>3. f = Rule(f)
  <2>1. ASSUME NEW k \in Nat PROVE f[k] = Rule(f)[k]
    <3>1. CASE k = 0
      BY <1>1, <3>1
    <3>2. CASE k # 0
      <4>1. k - 1 \in Nat /\ (k - 1) + 1 = k
        BY <3>2
      <4> QED BY <1>2, <3>2, <4>1
    <3> QED BY <3>1, <3>2
  <2>2. f = [k \in Nat |-> f[k]] /\ Rule(f) = [k \in Nat |-> Rule(f)[k]]
    OBVIOUS
  <2> HIDE DEF Rule
  <2> QED BY <2>1, <2>2
\* Another such function is the same.
<1>4. ASSUME NEW g, g = Rule(g), NEW n \in Nat PROVE g[n] = f[n]
  <2> DEFINE S == {k \in Nat : g[k] = f[k]}
  <2>1. g[0] = Tasks /\ \A k \in Nat : g[k + 1] = {t \in Tasks : next[t] \cap g[k] # {}}
    <3>1. \A k \in Nat : g[k] = Rule(g)[k]
      <4> HIDE DEF Rule
      <4> QED BY <1>4
    <3>2. \A k \in Nat : k + 1 \in Nat /\ k + 1 # 0 /\ (k + 1) - 1 = k
      OBVIOUS
    <3> QED BY <3>1, <3>2
  <2>2. 0 \in S
    BY <1>1, <2>1
  <2>3. ASSUME NEW k \in S PROVE k + 1 \in S
    <3>1. k \in Nat /\ k + 1 \in Nat /\ g[k] = f[k]
      OBVIOUS
    <3>2. /\ g[k + 1] = {t \in Tasks : next[t] \cap g[k] # {}}
          /\ f[k + 1] = {t \in Tasks : next[t] \cap f[k] # {}}
      BY <1>2, <2>1, <3>1
    <3>3. g[k + 1] = f[k + 1]
      BY ONLY <3>1, <3>2
    <3> QED BY <3>1, <3>3
  <2>4. Nat \subseteq S
    <3> HIDE DEF S
    <3> QED BY <2>2, <2>3, SetInduction
  <2> QED BY <2>4
<1>5. ASSUME NEW n \in Nat PROVE WaitsDeep(next, n) = f[n]
  <2> DEFINE from == CHOOSE h : h = Rule(h)
  <2>1. from = Rule(from)
    <3> HIDE DEF Rule
    <3> QED BY <1>3
  <2>2. WaitsDeep(next, n) = from[n]
    BY DEF WaitsDeep
  <2> HIDE DEF from, Rule
  <2> QED BY <2>1, <2>2, <1>4
<1> QED BY <1>1, <1>2, <1>5

\* Who waits for more is not free of the waits of who waits for less.
LEMMA WaitsGrow ==
  ASSUME NEW less, NEW more, \A t \in Tasks : less[t] \subseteq more[t], NEW n \in Nat
  PROVE  WaitsDeep(less, n) \subseteq WaitsDeep(more, n)
<1>1. PICK f \in [Nat -> SUBSET Tasks] :
        /\ f[0] = Tasks
        /\ \A k \in Nat : f[k + 1] = {t \in Tasks : less[t] \cap f[k] # {}}
        /\ \A k \in Nat : WaitsDeep(less, k) = f[k]
  BY WaitsFollowed
<1>2. PICK g \in [Nat -> SUBSET Tasks] :
        /\ g[0] = Tasks
        /\ \A k \in Nat : g[k + 1] = {t \in Tasks : more[t] \cap g[k] # {}}
        /\ \A k \in Nat : WaitsDeep(more, k) = g[k]
  BY WaitsFollowed
<1> DEFINE S == {k \in Nat : f[k] \subseteq g[k]}
<1>3. 0 \in S
  BY <1>1, <1>2
<1>4. ASSUME NEW k \in S PROVE k + 1 \in S
  <2>1. k \in Nat /\ k + 1 \in Nat /\ f[k] \subseteq g[k]
    OBVIOUS
  <2>2. /\ f[k + 1] = {t \in Tasks : less[t] \cap f[k] # {}}
        /\ g[k + 1] = {t \in Tasks : more[t] \cap g[k] # {}}
    BY <1>1, <1>2, <2>1
  <2>3. \A t \in Tasks : less[t] \cap f[k] # {} => more[t] \cap g[k] # {}
    BY <2>1
  <2>4. f[k + 1] \subseteq g[k + 1]
    BY ONLY <2>2, <2>3
  <2> QED BY <2>1, <2>4
<1>5. Nat \subseteq S
  <2> HIDE DEF S
  <2> QED BY <1>3, <1>4, SetInduction
<1> QED BY <1>1, <1>2, <1>5

-----------------------------------------------------------------------------
(* No waiting in circles.  A condition is written once, checked against    *)
(* all that can come into force again, and none is revived.                *)

\* What can be waited for is what could be, and every condition that can
\* come into force could before.
Fewer == /\ DOMAIN changes' = DOMAIN changes
         /\ \A k \in DOMAIN changes :
              changes'[k].condition \in Live =>
                /\ changes[k].condition \in Live
                /\ changes'[k].task = changes[k].task
                /\ changes'[k].related = changes[k].related

NoMoreWaits == \A t \in Tasks : Waits(changes', t) \subseteq Waits(changes, t)

LEMMA FewerWaits == ASSUME Fewer PROVE NoMoreWaits
<1> SUFFICES ASSUME NEW t \in Tasks, NEW r \in Waits(changes', t)
             PROVE  r \in Waits(changes, t)
  BY DEF NoMoreWaits
<1>1. PICK k \in LiveOn(changes', t) : After(changes'[k]) /\ r = changes'[k].related
  BY DEF Waits
<1>2. /\ k \in LiveOn(changes, t) /\ changes'[k].related = changes[k].related
  BY <1>1 DEF LiveOn, Fewer
<1> QED
  BY <1>1, <1>2 DEF Waits, After

LEMMA CardsLeaveWaits ==
  ASSUME TypeOK, NEW i, NEW status, Set(i, status)
  PROVE  Fewer
<1>1. \A k \in DOMAIN changes : changes[k] \in ChangeSets
  BY ChangeSetTypes
<1>2. /\ DOMAIN changes' = DOMAIN changes
      /\ \A k \in DOMAIN changes :
           changes'[k] = IF k = i THEN [changes[k] EXCEPT !.card = status] ELSE changes[k]
  BY DEF Set
<1> QED
  BY <1>1, <1>2 DEF Fewer, ChangeSets

LEMMA EvaluatedWaits ==
  ASSUME TypeOK, NEW S, changes' = Evaluate(changes, S)
  PROVE  Fewer
<1>1. \A k \in DOMAIN changes : changes[k] \in ChangeSets
  BY ChangeSetTypes
<1>2. /\ DOMAIN changes' = DOMAIN changes
      /\ \A k \in DOMAIN changes :
           \/ /\ changes'[k] = [changes[k] EXCEPT !.condition = Refreshed(changes[k])]
              /\ changes[k].condition \in Live
           \/ changes'[k] = changes[k]
  BY DEF Evaluate
<1> QED
  BY <1>1, <1>2 DEF Fewer, ChangeSets

LEMMA UndoLeavesWaits ==
  ASSUME TypeOK, NEW i \in DOMAIN changes, Undo(i) \/ UndoRefused(i)
  PROVE  Fewer
<1> DEFINE c == changes[i]
           undone == [c EXCEPT !.state = "undone", !.card = "resolved",
                               !.condition = IF @ = "none" THEN @ ELSE "canceled"]
           stands == [c EXCEPT !.state = "undo_conflict"]
<1>1. c \in ChangeSets
  BY ChangeSetTypes
<1>2. undone.condition \notin Live
  BY <1>1 DEF ChangeSets, Live
<1>3. /\ stands.condition = c.condition /\ stands.task = c.task
      /\ stands.related = c.related
  BY <1>1 DEF ChangeSets
<1>4. changes' = [changes EXCEPT ![i] = undone] \/ changes' = [changes EXCEPT ![i] = stands]
  BY DEF Undo, UndoRefused
<1> HIDE DEF undone, stands
<1> QED
  BY <1>2, <1>3, <1>4 DEF Fewer

\* What waits after a step could wait before it, or is what apply asked about.
OneMoreWait ==
  \E t \in Tasks, other \in Tasks :
    /\ LET next == [u \in Tasks |-> Waits(changes, u)
                                    \cup (IF u = t THEN {other} ELSE {})]
       IN ~Circular(next) /\ ~TooDeep(next)
    /\ \A u \in Tasks :
         Waits(changes', u) \subseteq Waits(changes, u) \cup (IF u = t THEN {other} ELSE {})

LEMMA AppendedWaits ==
  ASSUME TypeOK, NEW e \in ChangeSets, changes' = Append(changes, e), NEW u \in Tasks
  PROVE  Waits(changes', u) \subseteq
           Waits(changes, u) \cup (IF u = e.task /\ After(e) THEN {e.related} ELSE {})
<1>1. changes \in Seq(ChangeSets)
  BY DEF TypeOK
<1>2. /\ DOMAIN changes = 1..Len(changes) /\ Len(changes) \in Nat
      /\ DOMAIN changes' = 1..(Len(changes) + 1)
      /\ \A k \in 1..Len(changes) : changes'[k] = changes[k]
      /\ changes'[Len(changes) + 1] = e
  BY <1>1, AppendProperties, LenProperties
<1>3. ASSUME NEW r \in Waits(changes', u)
      PROVE  r \in Waits(changes, u) \/ (u = e.task /\ After(e) /\ r = e.related)
  <2>1. PICK k \in LiveOn(changes', u) : After(changes'[k]) /\ r = changes'[k].related
    BY <1>3 DEF Waits
  <2>2. k \in DOMAIN changes' /\ changes'[k].task = u /\ changes'[k].condition \in Live
    BY <2>1 DEF LiveOn
  <2>3. CASE k = Len(changes) + 1
    BY <1>2, <2>1, <2>2, <2>3
  <2>4. CASE k # Len(changes) + 1
    <3>1. k \in DOMAIN changes /\ changes'[k] = changes[k]
      BY <1>2, <2>2, <2>4
    <3>2. k \in LiveOn(changes, u)
      BY <2>2, <3>1 DEF LiveOn
    <3> QED
      BY <2>1, <3>1, <3>2 DEF Waits
  <2> QED
    BY <2>3, <2>4
<1> QED
  BY <1>3

LEMMA ApplyNextWaits ==
  ASSUME TypeOK, NEW j \in DOMAIN pass, ApplyNext(j)
  PROVE  NoMoreWaits \/ OneMoreWait
<1> DEFINE item == Items(j)[pass[j].at]
           fit  == {r \in Tasks : Admits(j, item, pass[j].read, r)}
           t    == Target(j)
<1>1. CASE fit = {}
  <2>1. changes' = changes
    BY <1>1 DEF ApplyNext
  <2> QED
    BY <2>1 DEF NoMoreWaits
<1>2. CASE fit # {}
  <2>1. PICK related \in Tasks : /\ Admits(j, item, pass[j].read, related)
                                 /\ Apply(j, item, pass[j].read, related)
    BY <1>2 DEF ApplyNext
  <2>2. item \in Recommendations /\ pass[j].read \in Nat /\ t \in Tasks
    <3>1. Items(j) \in Seq(Recommendations) /\ pass[j].at \in DOMAIN Items(j)
      BY PassTypes DEF ApplyNext
    <3>2. pass[j] \in Projections /\ t \in Tasks
      BY PassTypes
    <3> QED
      BY <3>1, <3>2, LenProperties, ElementOfSeq DEF Projections
  <2> DEFINE e == Recorded(j, item, pass[j].read, related)
             waits == item.kind \in {"create_prerequisite", "after_task_completed"}
  <2>3. e \in ChangeSets
    BY <2>2, RecordedType
  <2>4. changes' = Append(changes, e)
    BY <2>1 DEF Apply, Recorded
  <2>5. e.task = t /\ e.related = IF waits THEN related ELSE "none"
    BY DEF Recorded
  <2>6. waits => \E tasks : MayWait(tasks, t, related)
    BY <2>1 DEF Admits
  <2> HIDE DEF e, waits, item, fit
  <2>7. \A u \in Tasks : Waits(changes', u) \subseteq
          Waits(changes, u) \cup (IF u = t /\ After(e) THEN {e.related} ELSE {})
    BY <2>3, <2>4, <2>5, AppendedWaits
  <2>8. CASE waits
    <3>1. \A u \in Tasks : Waits(changes', u) \subseteq
            Waits(changes, u) \cup (IF u = t THEN {related} ELSE {})
      BY <2>5, <2>7, <2>8
    <3>2. LET next == [u \in Tasks |-> Waits(changes, u)
                                       \cup (IF u = t THEN {related} ELSE {})]
          IN ~Circular(next) /\ ~TooDeep(next)
      BY <2>6, <2>8 DEF MayWait
    <3> QED
      BY <2>2, <3>1, <3>2 DEF OneMoreWait
  <2>9. CASE ~waits
    <3>1. ~After(e)
      BY <2>5, <2>9 DEF After
    <3> QED
      BY <2>7, <3>1 DEF NoMoreWaits
  <2> QED
    BY <2>8, <2>9
<1> QED
  BY <1>1, <1>2

LEMMA NextWaits ==
  ASSUME TypeOK, [Next]_vars
  PROVE  NoMoreWaits \/ OneMoreWait
<1>1. ASSUME UNCHANGED changes PROVE NoMoreWaits
  BY <1>1 DEF NoMoreWaits
<1>2. ASSUME NEW j \in DOMAIN pass,
             Publish(j) \/ Look(j) \/ ApplyNext(j) \/ BreakOff(j) \/ RecordTiming(j)
      PROVE  NoMoreWaits \/ OneMoreWait
  BY <1>1, <1>2, ApplyNextWaits DEF Publish, Look, BreakOff, RecordTiming
<1>3. ASSUME NEW i, NEW status, Set(i, status) PROVE NoMoreWaits
  BY <1>3, CardsLeaveWaits, FewerWaits
<1>4. CASE ClaimCard
  BY <1>3, <1>4 DEF ClaimCard
<1>5. CASE Claim
  <2>1. \E S : changes' = Evaluate(changes, S)
    BY <1>5, ClaimCases
  <2> QED
    BY <2>1, EvaluatedWaits, FewerWaits
<1>6. CASE NextDay
  BY <1>1, <1>6 DEF NextDay
<1>7. ASSUME NEW i \in DOMAIN changes, CompleteDelivery(i) \/ FailDelivery(i) \/ Keep(i)
      PROVE  NoMoreWaits
  BY <1>3, <1>7 DEF CompleteDelivery, FailDelivery, Keep
<1>8. ASSUME NEW i \in DOMAIN changes, Undo(i) \/ UndoRefused(i)
      PROVE  NoMoreWaits
  BY <1>8, UndoLeavesWaits, FewerWaits
<1>9. ASSUME NEW t \in Tasks,
             \/ RestEnds(t) \/ Reschedule(t)
             \/ \E how \in Ends : EndPass(t, how)
             \/ \E p \in {"raised", "normal", "lowered"} : SetPriority(t, p)
             \/ \E s \in {"open", "done", "dropped"} : MoveTask(t, s)
      PROVE  NoMoreWaits
  <2>1. UNCHANGED changes
    BY <1>9 DEF RestEnds, Reschedule, EndPass, SetPriority, MoveTask
  <2> QED
    BY <1>1, <2>1
<1>10. CASE UNCHANGED vars
  BY <1>1, <1>10 DEF vars
<1> QED
  BY <1>2, <1>4, <1>5, <1>6, <1>7, <1>8, <1>9, <1>10 DEF Next

\* A graph with fewer waits is no worse.
LEMMA FewerCircles ==
  ASSUME NEW less, NEW more, \A t \in Tasks : less[t] \subseteq more[t],
         ~Circular(more), ~TooDeep(more)
  PROVE  ~Circular(less) /\ ~TooDeep(less)
<1>1. Cardinality(Tasks) \in Nat /\ MaxDepth + 1 \in Nat
  <2>1. IsFiniteSet(Tasks) /\ MaxDepth \in Nat
    BY TaskSchedulingAssumption
  <2> QED
    BY <2>1, FS_CardinalityType
<1> QED
  BY <1>1, WaitsGrow DEF Circular, TooDeep

LEMMA InitWaits == Init => NoWaitingInCircles
<1> SUFFICES ASSUME Init PROVE NoWaitingInCircles
  OBVIOUS
<1> DEFINE next == [t \in Tasks |-> Waits(changes, t)]
<1>1. \A t \in Tasks : next[t] = {}
  BY DEF Init, Waits, LiveOn
<1>2. ASSUME NEW n \in Nat, n # 0 PROVE WaitsDeep(next, n) = {}
  <2>1. PICK f \in [Nat -> SUBSET Tasks] :
          /\ f[0] = Tasks
          /\ \A k \in Nat : f[k + 1] = {t \in Tasks : next[t] \cap f[k] # {}}
          /\ \A k \in Nat : WaitsDeep(next, k) = f[k]
    <3> HIDE DEF next
    <3> QED BY ONLY WaitsFollowed
  <2>2. n - 1 \in Nat /\ (n - 1) + 1 = n
    BY <1>2
  <2>3. f[n] = {t \in Tasks : next[t] \cap f[n - 1] # {}}
    BY <2>1, <2>2
  <2> QED
    BY <1>1, <2>1, <2>3
<1>3. WaitsDeep(next, 0) = Tasks
  <2>1. WaitsDeep(next, 0) = Tasks
    <3> HIDE DEF next
    <3> QED BY WaitsFollowed
  <2> QED BY <2>1
<1>4. IsFiniteSet(Tasks) /\ MaxDepth \in Nat
  BY TaskSchedulingAssumption
<1>5. Cardinality(Tasks) \in Nat /\ (Cardinality(Tasks) = 0 => Tasks = {})
  BY <1>4, FS_CardinalityType, FS_EmptySet
<1>6. ~Circular(next)
  BY <1>2, <1>3, <1>5 DEF Circular
<1>7. ~TooDeep(next)
  <2>1. MaxDepth + 1 \in Nat /\ MaxDepth + 1 # 0
    BY <1>4
  <2> QED BY <1>2, <2>1 DEF TooDeep
<1> QED
  BY <1>6, <1>7 DEF NoWaitingInCircles

\* The conditions of tasks that wait for one another never close a circle and
\* never make a chain longer than MAX_DEPENDENCY_DEPTH: _dependency_refusal
\* follows every condition that can come into force again, and no step, of
\* reader, agent or claim, revives one it did not see.
THEOREM NobodyWaitsInCircles == Spec => []NoWaitingInCircles
<1>1. ASSUME TypeOK, NoWaitingInCircles, [Next]_vars PROVE NoWaitingInCircles'
  <2> DEFINE after == [t \in Tasks |-> Waits(changes', t)]
  <2>1. CASE NoMoreWaits
    <3> DEFINE before == [t \in Tasks |-> Waits(changes, t)]
    <3>1. \A t \in Tasks : after[t] \subseteq before[t]
      BY <2>1 DEF NoMoreWaits
    <3>2. ~Circular(before) /\ ~TooDeep(before)
      BY <1>1 DEF NoWaitingInCircles
    <3>3. ~Circular(after) /\ ~TooDeep(after)
      <4> HIDE DEF after, before
      <4> QED BY <3>1, <3>2, FewerCircles
    <3> QED
      BY <3>3 DEF NoWaitingInCircles, Circular, TooDeep, WaitsDeep
  <2>2. CASE OneMoreWait
    <3>1. PICK t \in Tasks, other \in Tasks :
            /\ LET next == [u \in Tasks |-> Waits(changes, u)
                                            \cup (IF u = t THEN {other} ELSE {})]
               IN ~Circular(next) /\ ~TooDeep(next)
            /\ \A u \in Tasks : Waits(changes', u) \subseteq
                 Waits(changes, u) \cup (IF u = t THEN {other} ELSE {})
      BY <2>2 DEF OneMoreWait
    <3> DEFINE next == [u \in Tasks |-> Waits(changes, u)
                                        \cup (IF u = t THEN {other} ELSE {})]
    <3>2. \A u \in Tasks : after[u] \subseteq next[u]
      BY <3>1
    <3>3. ~Circular(next) /\ ~TooDeep(next)
      BY <3>1
    <3>4. ~Circular(after) /\ ~TooDeep(after)
      <4> HIDE DEF after, next
      <4> QED BY <3>2, <3>3, FewerCircles
    <3> QED
      BY <3>4 DEF NoWaitingInCircles, Circular, TooDeep, WaitsDeep
  <2> QED
    BY <1>1, <2>1, <2>2, NextWaits
<1> QED
  BY <1>1, InitWaits, SchedulingTypes, PTL DEF Spec

-----------------------------------------------------------------------------
(* Deadlines.  Nobody waits in a circle, so in every round some task has   *)
(* only final dates behind it, and its own is final after the next.  What  *)
(* the rounds keep is that every date is the earliest of the task's own    *)
(* and of what the tasks dealt with ask; that a chain asks for it; and     *)
(* that no chain, of any length, asks for an earlier one.                  *)

LEMMA LeastIs ==
  ASSUME NEW S \in SUBSET Int, NEW x \in S, \A y \in S : x <= y
  PROVE  Least(S) = x
<1>1. Least(S) \in S /\ \A y \in S : Least(S) <= y
  BY DEF Least
<1>2. Least(S) <= x /\ x <= Least(S) /\ Least(S) \in Int /\ x \in Int
  BY <1>1
<1> QED BY <1>2

\* Some numbers, but not infinitely many, have a least one among them.
LEMMA LeastThereIs ==
  ASSUME NEW S \in SUBSET Int, IsFiniteSet(S), S # {}
  PROVE  Least(S) \in S /\ \A y \in S : Least(S) <= y
<1> DEFINE HasLeast(R) == \E x \in R : \A y \in R : x <= y
           T == {n \in Nat : \A R \in SUBSET S :
                               Cardinality(R) = n /\ R # {} => HasLeast(R)}
<1>1. 0 \in T
  <2>1. ASSUME NEW R \in SUBSET S, Cardinality(R) = 0 PROVE R = {}
    BY <2>1, FS_Subset, FS_EmptySet
  <2> QED BY <2>1
<1>2. ASSUME NEW n \in T PROVE n + 1 \in T
  <2>1. SUFFICES ASSUME NEW R \in SUBSET S, Cardinality(R) = n + 1, R # {}
                 PROVE  HasLeast(R)
    OBVIOUS
  <2>2. PICK z \in R : TRUE
    BY <2>1
  <2>3. Cardinality(R \ {z}) = n /\ R \ {z} \in SUBSET S
    <3>1. IsFiniteSet(R)
      BY FS_Subset
    <3>2. Cardinality(R \ {z}) = Cardinality(R) - 1
      BY ONLY <2>2, <3>1, FS_RemoveElement
    <3>3. n \in Nat /\ (n + 1) - 1 = n
      OBVIOUS
    <3> QED BY ONLY <2>1, <3>2, <3>3
  <2>4. CASE R \ {z} = {}
    <3>1. \A y \in R : y = z
      BY <2>4
    <3> QED BY <2>2, <3>1
  <2>5. CASE R \ {z} # {}
    <3>1. PICK x \in R \ {z} : \A y \in R \ {z} : x <= y
      BY <2>3, <2>5
    <3>2. x \in Int /\ z \in Int /\ R \subseteq Int
      BY <2>2
    <3>3. CASE x <= z
      <4>1. \A y \in R : x <= y
        BY <3>1, <3>3
      <4> QED BY <3>1, <4>1
    <3>4. CASE z <= x
      <4>1. \A y \in R : z <= y
        BY <3>1, <3>2, <3>4
      <4> QED BY <2>2, <4>1
    <3> QED BY <3>2, <3>3, <3>4
  <2> QED BY <2>4, <2>5
<1>3. Nat \subseteq T
  <2> HIDE DEF T
  <2> QED BY <1>1, <1>2, SetInduction
<1>4. Cardinality(S) \in Nat
  BY FS_CardinalityType
<1>5. PICK x \in S : \A y \in S : x <= y
  BY <1>3, <1>4
<1> HIDE DEF T
<1>6. Least(S) = x
  BY <1>5, LeastIs
<1> QED BY <1>5, <1>6

LEMMA DateTypes ==
  ASSUME TypeOK, NEW t \in Tasks
  PROVE  /\ DueDate(t) \in Int /\ DueDate(t) <= Never
         /\ Effort(t) \in Nat
         /\ Never \in Nat
<1>1. timing[t] \in Timings /\ Due[t] \in Dates
  BY TaskSchedulingAssumption DEF TypeOK, Timings
<1>2. Due[t] \in Int /\ Due[t] <= Never /\ timing[t].due \in Int /\ timing[t].due <= Never
  <2>1. timing[t].due \in Dates
    BY ONLY <1>1 DEF Timings
  <2>2. \A d \in Dates : d \in Int /\ d <= Never
    BY DEF Dates, Never
  <2> QED BY ONLY <1>1, <2>1, <2>2
<1> DEFINE a == Due[t]
           b == timing[t].due
<1>3. CASE a <= b
  <2>1. Least({a, b}) = a
    <3>1. {a, b} \in SUBSET Int /\ a \in {a, b} /\ \A y \in {a, b} : a <= y
      BY <1>2, <1>3
    <3> HIDE DEF a, b
    <3> QED BY <3>1, LeastIs
  <2> QED BY <1>1, <1>2, <2>1 DEF DueDate, Effort, EffortDays, Timings, Efforts, Never
<1>4. CASE b <= a
  <2>1. Least({a, b}) = b
    <3>1. {a, b} \in SUBSET Int /\ b \in {a, b} /\ \A y \in {a, b} : b <= y
      BY <1>2, <1>4
    <3> HIDE DEF a, b
    <3> QED BY <3>1, LeastIs
  <2> QED BY <1>1, <1>2, <2>1 DEF DueDate, Effort, EffortDays, Timings, Efforts, Never
<1> QED BY <1>2, <1>3, <1>4

\* Among any tasks there is one that none of them waits for.
LEMMA OneIsFree ==
  ASSUME NoWaitingInCircles, NEW R \in SUBSET Tasks, R # {}
  PROVE  \E t \in R : \A d \in R : t \notin Waits(changes, d)
<1> DEFINE next == [t \in Tasks |-> Waits(changes, t)]
           N == Cardinality(Tasks)
<1>1. PICK f \in [Nat -> SUBSET Tasks] :
        /\ f[0] = Tasks
        /\ \A k \in Nat : f[k + 1] = {t \in Tasks : next[t] \cap f[k] # {}}
        /\ \A k \in Nat : WaitsDeep(next, k) = f[k]
  <2> HIDE DEF next
  <2> QED BY ONLY WaitsFollowed
<1>2. N \in Nat /\ f[N] = {}
  <2>1. N \in Nat
    BY TaskSchedulingAssumption, FS_CardinalityType
  <2>2. WaitsDeep(next, N) = {}
    BY DEF NoWaitingInCircles, Circular
  <2> HIDE DEF next, N
  <2> QED BY <1>1, <2>1, <2>2
<1> HIDE DEF N
<1> DEFINE S == {k \in Nat : f[k] \cap R # {}}
<1>3. 0 \in S
  BY <1>1
<1>4. PICK k \in S : k + 1 \notin S
  <2>1. SUFFICES ASSUME \A k \in S : k + 1 \in S PROVE FALSE
    OBVIOUS
  <2>2. Nat \subseteq S
    <3> HIDE DEF S
    <3> QED BY <1>3, <2>1, SetInduction
  <2> QED BY <1>2, <2>2
<1>5. PICK t \in R : t \in f[k]
  BY <1>4
<1>6. ASSUME NEW d \in R, t \in Waits(changes, d) PROVE FALSE
  <2>1. k \in Nat /\ k + 1 \in Nat /\ d \in Tasks
    BY <1>4
  <2>2. next[d] \cap f[k] # {}
    BY <1>5, <1>6, <2>1
  <2>3. d \in f[k + 1]
    BY <1>1, <2>1, <2>2
  <2> QED BY <1>4, <1>6, <2>1, <2>3
<1> QED BY <1>5, <1>6

LEMMA DependantsWait ==
  ASSUME NEW t \in Tasks, NEW d \in Dependants[t]
  PROVE  d \in Tasks /\ t \in Waits(changes, d)
<1>1. PICK i \in DOMAIN changes : /\ changes[i].task = d
                                  /\ changes[i].condition = "active"
                                  /\ changes[i].related = t
  BY DEF Dependants
<1>2. d \in Tasks
  BY DEF Dependants
<1>3. i \in LiveOn(changes, d) /\ After(changes[i])
  BY <1>1, TaskSchedulingAssumption DEF LiveOn, Live, After
<1> QED BY <1>1, <1>2, <1>3 DEF Waits

LEMMA NobodyIsCyclic ==
  ASSUME NoWaitingInCircles
  PROVE  Cyclic = {}
<1> DEFINE V == [Tasks -> SUBSET Tasks]
           next == Dependants
           Wider(b) == [t \in Tasks |-> b[t] \cup UNION {next[d] : d \in b[t]}]
           step == [b \in V |-> Wider(b)]
           Rule(b) == [k \in Nat |-> IF k = 0 THEN next
                                     ELSE [t \in Tasks |-> b[k - 1][t]
                                           \cup UNION {next[d] : d \in b[k - 1][t]}]]
           beyond == CHOOSE b : b = Rule(b)
           N == Cardinality(Tasks)
<1>1. next \in V
  BY DEF Dependants
<1>2. Cyclic = {t \in Tasks : t \in beyond[N][t]}
  BY DEF Cyclic
<1> HIDE DEF next
<1>3. PICK g \in [Nat -> V] : g[0] = next /\ \A k \in Nat : g[k + 1] = step[g[k]]
  <2>1. ASSUME NEW b \in V PROVE Wider(b) \in V
    <3>1. ASSUME NEW t \in Tasks PROVE b[t] \cup UNION {next[d] : d \in b[t]} \in SUBSET Tasks
      BY <1>1
    <3> QED BY <3>1
  <2>2. step \in [V -> V]
    <3> HIDE DEF V, Wider
    <3> QED BY <2>1
  <2> HIDE DEF V, step
  <2> QED BY <1>1, <2>2, Iterated
<1>4. g = Rule(g)
  <2>1. ASSUME NEW k \in Nat PROVE g[k] = Rule(g)[k]
    <3>1. CASE k = 0
      BY <1>3, <3>1
    <3>2. CASE k # 0
      <4>1. k - 1 \in Nat /\ (k - 1) + 1 = k
        BY <3>2
      <4>2. g[k] = step[g[k - 1]] /\ g[k - 1] \in V
        BY <1>3, <4>1
      <4>3. g[k] = Wider(g[k - 1])
        BY ONLY <4>2
      <4> QED BY <3>2, <4>3
    <3> QED BY <3>1, <3>2
  <2>2. g = [k \in Nat |-> g[k]] /\ Rule(g) = [k \in Nat |-> Rule(g)[k]]
    OBVIOUS
  <2> HIDE DEF Rule
  <2> QED BY <2>1, <2>2
<1>5. beyond = Rule(beyond)
  <2> HIDE DEF Rule
  <2> QED BY <1>4
<1>6. beyond[0] = next /\ \A k \in Nat : beyond[k + 1] = Wider(beyond[k])
  <2>1. \A k \in Nat : beyond[k] = Rule(beyond)[k]
    <3> HIDE DEF Rule, beyond
    <3> QED BY <1>5
  <2>2. \A k \in Nat : k + 1 \in Nat /\ k + 1 # 0 /\ (k + 1) - 1 = k
    OBVIOUS
  <2> HIDE DEF beyond
  <2> QED BY <2>1, <2>2
<1> HIDE DEF beyond
<1> DEFINE waits == [t \in Tasks |-> Waits(changes, t)]
<1>7. PICK f \in [Nat -> SUBSET Tasks] :
        /\ f[0] = Tasks
        /\ \A k \in Nat : f[k + 1] = {t \in Tasks : waits[t] \cap f[k] # {}}
        /\ \A k \in Nat : WaitsDeep(waits, k) = f[k]
  <2> HIDE DEF waits
  <2> QED BY ONLY WaitsFollowed
<1>8. N \in Nat /\ f[N] = {}
  <2>1. N \in Nat
    BY TaskSchedulingAssumption, FS_CardinalityType
  <2>2. WaitsDeep(waits, N) = {}
    BY DEF NoWaitingInCircles, Circular
  <2> HIDE DEF waits, N
  <2> QED BY <1>7, <2>1, <2>2
<1> HIDE DEF N
<1>9. \A k \in Nat : f[k + 1] \subseteq f[k]
  <2> DEFINE S == {k \in Nat : f[k + 1] \subseteq f[k]}
  <2>1. 0 \in S
    BY <1>7
  <2>2. ASSUME NEW k \in S PROVE k + 1 \in S
    <3>1. k \in Nat /\ k + 1 \in Nat /\ f[k + 1] \subseteq f[k]
      OBVIOUS
    <3>2. /\ f[k + 1] = {t \in Tasks : waits[t] \cap f[k] # {}}
          /\ f[(k + 1) + 1] = {t \in Tasks : waits[t] \cap f[k + 1] # {}}
      BY <1>7, <3>1
    <3>3. \A t \in Tasks : waits[t] \cap f[k + 1] # {} => waits[t] \cap f[k] # {}
      BY <3>1
    <3>4. f[(k + 1) + 1] \subseteq f[k + 1]
      BY ONLY <3>2, <3>3
    <3> QED BY <3>1, <3>4
  <2>3. Nat \subseteq S
    <3> HIDE DEF S
    <3> QED BY <2>1, <2>2, SetInduction
  <2> QED BY <2>3
\* Each step along the graph goes one deeper.
<1>10. ASSUME NEW j \in Nat, NEW t \in f[j], NEW u \in next[t]
       PROVE  u \in f[j + 1]
  <2>1. u \in Tasks /\ t \in waits[u]
    BY DependantsWait DEF next
  <2> QED BY <1>7, <2>1
<1> DEFINE S == {k \in Nat : \A j \in Nat : \A t \in f[j] : \A u \in beyond[k][t] :
                               u \in f[j + 1]}
<1>11. 0 \in S
  BY <1>6, <1>10
<1>12. ASSUME NEW k \in S PROVE k + 1 \in S
  <2>1. SUFFICES ASSUME NEW j \in Nat, NEW t \in f[j], NEW u \in beyond[k + 1][t]
                 PROVE  u \in f[j + 1]
    OBVIOUS
  <2>2. k \in Nat /\ t \in Tasks /\ j + 1 \in Nat
    OBVIOUS
  <2>3. u \in beyond[k][t] \cup UNION {next[d] : d \in beyond[k][t]}
    BY <1>6, <2>1, <2>2
  <2>4. CASE u \in beyond[k][t]
    BY <2>1, <2>4
  <2>5. CASE u \notin beyond[k][t]
    <3>1. PICK d \in beyond[k][t] : u \in next[d]
      BY <2>3, <2>5
    <3>2. d \in f[j + 1]
      BY <2>1
    <3>3. u \in f[(j + 1) + 1]
      BY <1>10, <2>2, <3>1, <3>2
    <3> QED BY <1>9, <2>2, <3>3
  <2> QED BY <2>4, <2>5
<1>13. Nat \subseteq S
  <2> HIDE DEF S
  <2> QED BY <1>11, <1>12, SetInduction
<1>14. ASSUME NEW t \in Tasks, t \in beyond[N][t] PROVE FALSE
  <2> DEFINE T == {j \in Nat : t \in f[j]}
  <2>1. 0 \in T
    BY <1>7
  <2>2. ASSUME NEW j \in T PROVE j + 1 \in T
    BY <1>8, <1>13, <1>14, <2>2
  <2>3. Nat \subseteq T
    <3> HIDE DEF T
    <3> QED BY <2>1, <2>2, SetInduction
  <2> QED BY <1>8, <2>3
<1> QED BY <1>2, <1>14

\* Who pulls whom: every open task the tasks it waits for.
LEMMA WhoPulls ==
  ASSUME NoWaitingInCircles, NEW d \in Tasks, NEW t \in Tasks
  PROVE  <<d, t>> \in Pulls <=> d \in Dependants[t] /\ task[d].status = "open"
<1>1. Cyclic = {}
  BY NobodyIsCyclic
<1> QED BY <1>1 DEF Pulls

-----------------------------------------------------------------------------
(* One round *)

\* What is passed on, and that the earliest of it counts.
PulledDown(pulls, dates, from, new) ==
    /\ new \in [Tasks -> Int]
    /\ \A t \in Tasks :
         /\ new[t] <= dates[t]
         /\ \A d \in from : <<d, t>> \in pulls /\ dates[d] # Never
                              => new[t] <= dates[d] - Effort(d)
         /\ \/ new[t] = dates[t]
            \/ \E d \in from : /\ <<d, t>> \in pulls /\ dates[d] # Never
                               /\ new[t] = dates[d] - Effort(d)

LEMMA PulledIs ==
  ASSUME TypeOK, NEW pulls, NEW dates \in [Tasks -> Int], NEW from \in SUBSET Tasks
  PROVE  PulledDown(pulls, dates, from, Pulled(pulls, dates, from))
<1> DEFINE new == Pulled(pulls, dates, from)
<1>1. ASSUME NEW t \in Tasks
      PROVE  /\ new[t] \in Int
             /\ new[t] <= dates[t]
             /\ \A d \in from : <<d, t>> \in pulls /\ dates[d] # Never
                                  => new[t] <= dates[d] - Effort(d)
             /\ \/ new[t] = dates[t]
                \/ \E d \in from : /\ <<d, t>> \in pulls /\ dates[d] # Never
                                   /\ new[t] = dates[d] - Effort(d)
  <2> DEFINE asking == {d \in from : <<d, t>> \in pulls /\ dates[d] # Never}
             asked == {dates[d] - Effort(d) : d \in asking}
             S == {dates[t]} \cup asked
  <2>1. new[t] = Least(S)
    BY DEF Pulled
  <2>2. asked \in SUBSET Int
    <3>1. ASSUME NEW d \in asking PROVE dates[d] - Effort(d) \in Int
      BY DateTypes
    <3> QED BY <3>1
  <2>3. IsFiniteSet(asked)
    <3>1. IsFiniteSet(asking)
      <4>1. IsFiniteSet(Tasks) /\ asking \in SUBSET Tasks
        BY TaskSchedulingAssumption
      <4> HIDE DEF asking
      <4> QED BY <4>1, FS_Subset
    <3>2. [d \in asking |-> dates[d] - Effort(d)] \in Surjection(asking, asked)
      BY DEF Surjection
    <3> HIDE DEF asking, asked
    <3> QED BY <3>1, <3>2, FS_Surjection
  <2>4. S \in SUBSET Int /\ IsFiniteSet(S) /\ S # {}
    <3>1. dates[t] \in Int
      OBVIOUS
    <3>2. S = asked \cup {dates[t]}
      OBVIOUS
    <3> HIDE DEF asked, S
    <3> QED BY <2>2, <2>3, <3>1, <3>2, FS_AddElement
  <2>5. Least(S) \in S /\ \A y \in S : Least(S) <= y
    <3> HIDE DEF S
    <3> QED BY <2>4, LeastThereIs
  <2> HIDE DEF new
  <2> QED BY <2>1, <2>4, <2>5
<1>2. new = [t \in Tasks |-> new[t]]
  BY DEF Pulled
<1> HIDE DEF new
<1>3. new \in [Tasks -> Int]
  BY <1>1, <1>2
<1>4. PulledDown(pulls, dates, from, new)
  BY <1>1, <1>3 DEF PulledDown
<1> QED BY <1>4 DEF new

RoundRows == [dates : [Tasks -> Int], done : SUBSET Tasks]
FirstRound == [dates |-> [t \in Tasks |-> DueDate(t)], done |-> {}]

LEMMA RoundTypes ==
  ASSUME TypeOK
  PROVE  /\ FirstRound \in RoundRows
         /\ \A r \in RoundRows : Round(Pulls, r) \in RoundRows
<1>1. FirstRound \in RoundRows
  BY DateTypes DEF FirstRound, RoundRows
<1>2. ASSUME NEW r \in RoundRows PROVE Round(Pulls, r) \in RoundRows
  <2> DEFINE ready == Ready(Pulls, r.done)
  <2>1. ready \in SUBSET Tasks /\ r.dates \in [Tasks -> Int] /\ r.done \in SUBSET Tasks
    BY DEF Ready, RoundRows
  <2>2. Pulled(Pulls, r.dates, ready) \in [Tasks -> Int]
    <3> HIDE DEF ready
    <3> QED BY <2>1, PulledIs DEF PulledDown
  <2> QED BY <2>1, <2>2 DEF Round, RoundRows
<1> QED BY <1>1, <1>2

\* The rounds of effective_deadlines, one after the other.
LEMMA Rounds ==
  ASSUME TypeOK
  PROVE  \E g \in [Nat -> RoundRows] :
           /\ g[0] = FirstRound
           /\ \A k \in Nat : g[k + 1] = Round(Pulls, g[k])
           /\ Effective = g[Cardinality(Tasks)].dates
<1> DEFINE step == [r \in RoundRows |-> Round(Pulls, r)]
           Rule(b) == [k \in Nat |->
                        IF k = 0 THEN [dates |-> [t \in Tasks |-> DueDate(t)], done |-> {}]
                        ELSE Round(Pulls, b[k - 1])]
           round == CHOOSE b : b = Rule(b)
<1>1. PICK g \in [Nat -> RoundRows] :
        g[0] = FirstRound /\ \A k \in Nat : g[k + 1] = step[g[k]]
  <2>1. step \in [RoundRows -> RoundRows]
    BY RoundTypes
  <2> HIDE DEF step
  <2> QED BY <2>1, RoundTypes, Iterated
<1>2. g = Rule(g)
  <2>1. ASSUME NEW k \in Nat PROVE g[k] = Rule(g)[k]
    <3>1. CASE k = 0
      BY <1>1, <3>1 DEF FirstRound
    <3>2. CASE k # 0
      <4>1. k - 1 \in Nat /\ (k - 1) + 1 = k
        BY <3>2
      <4>2. g[k] = Round(Pulls, g[k - 1])
        BY <1>1, <4>1
      <4> QED BY <3>2, <4>2
    <3> QED BY <3>1, <3>2
  <2>2. g = [k \in Nat |-> g[k]] /\ Rule(g) = [k \in Nat |-> Rule(g)[k]]
    OBVIOUS
  <2> HIDE DEF Rule
  <2> QED BY <2>1, <2>2
<1>3. round = Rule(round)
  <2> HIDE DEF Rule
  <2> QED BY <1>2
<1>4. Effective = round[Cardinality(Tasks)].dates
  BY DEF Effective
<1> HIDE DEF round
<1>5. \A k \in Nat : round[k] = Rule(round)[k]
  <2> HIDE DEF Rule
  <2> QED BY <1>3
<1>6. round[0] = FirstRound
  BY <1>5 DEF FirstRound
<1>7. ASSUME NEW k \in Nat PROVE round[k + 1] = Round(Pulls, round[k])
  <2>1. k + 1 \in Nat /\ k + 1 # 0 /\ (k + 1) - 1 = k
    OBVIOUS
  <2> QED BY <1>5, <2>1
<1> HIDE DEF Rule
<1> DEFINE S == {k \in Nat : round[k] \in RoundRows}
<1>8. Nat \subseteq S
  <2>1. 0 \in S /\ \A k \in S : k + 1 \in S
    BY <1>6, <1>7, RoundTypes
  <2> HIDE DEF S
  <2> QED BY <2>1, SetInduction
<1>9. round \in [Nat -> RoundRows]
  <2>1. round = [k \in Nat |-> round[k]]
    BY <1>3 DEF Rule
  <2> QED BY <1>8, <2>1
<1> QED BY <1>4, <1>6, <1>7, <1>9

\* The dates asked through chains of a number of tasks.
Askings == [task : Tasks, date : Int]
AskedFirst == {[task |-> t, date |-> DueDate(t)] : t \in Tasks}
AskedNext(A) == UNION {AskedBefore(Dependants, a) : a \in A}

LEMMA AskedTypes ==
  ASSUME TypeOK
  PROVE  /\ AskedFirst \in SUBSET Askings
         /\ \A A \in SUBSET Askings : AskedNext(A) \in SUBSET Askings
<1>1. AskedFirst \in SUBSET Askings
  BY DateTypes DEF AskedFirst, Askings
<1>2. ASSUME NEW a \in Askings PROVE AskedBefore(Dependants, a) \in SUBSET Askings
  <2>1. a.task \in Tasks /\ a.date \in Int
    BY DEF Askings
  <2>2. a.date - Effort(a.task) \in Int
    BY <2>1, DateTypes
  <2> QED BY <2>2 DEF AskedBefore, Askings
<1>3. ASSUME NEW A \in SUBSET Askings PROVE AskedNext(A) \in SUBSET Askings
  BY <1>2 DEF AskedNext
<1> QED BY <1>1, <1>3

LEMMA Askeds ==
  ASSUME TypeOK
  PROVE  \E h \in [Nat -> SUBSET Askings] :
           /\ h[0] = AskedFirst
           /\ \A k \in Nat : h[k + 1] = AskedNext(h[k])
           /\ Asked = UNION {h[k] : k \in 0..(Cardinality(Tasks) - 1)}
<1> DEFINE V == SUBSET Askings
           step == [A \in V |-> AskedNext(A)]
           Rule(b) == [k \in Nat |->
                        IF k = 0 THEN {[task |-> t, date |-> DueDate(t)] : t \in Tasks}
                        ELSE UNION {AskedBefore(Dependants, a) : a \in b[k - 1]}]
           asked == CHOOSE b : b = Rule(b)
<1>1. PICK h \in [Nat -> V] :
        h[0] = AskedFirst /\ \A k \in Nat : h[k + 1] = step[h[k]]
  <2>1. step \in [V -> V] /\ AskedFirst \in V
    BY AskedTypes
  <2> HIDE DEF step, V
  <2> QED BY <2>1, Iterated
<1>2. h = Rule(h)
  <2>1. ASSUME NEW k \in Nat PROVE h[k] = Rule(h)[k]
    <3>1. CASE k = 0
      BY <1>1, <3>1 DEF AskedFirst
    <3>2. CASE k # 0
      <4>1. k - 1 \in Nat /\ (k - 1) + 1 = k
        BY <3>2
      <4>2. h[k] = AskedNext(h[k - 1])
        BY <1>1, <4>1
      <4> QED BY <3>2, <4>2 DEF AskedNext
    <3> QED BY <3>1, <3>2
  <2>2. h = [k \in Nat |-> h[k]] /\ Rule(h) = [k \in Nat |-> Rule(h)[k]]
    OBVIOUS
  <2> HIDE DEF Rule
  <2> QED BY <2>1, <2>2
<1>3. asked = Rule(asked)
  <2> HIDE DEF Rule
  <2> QED BY <1>2
<1>4. Asked = UNION {asked[k] : k \in 0..(Cardinality(Tasks) - 1)}
  BY DEF Asked
<1> HIDE DEF asked
<1>5. \A k \in Nat : asked[k] = Rule(asked)[k]
  <2> HIDE DEF Rule
  <2> QED BY <1>3
<1>6. asked[0] = AskedFirst
  BY <1>5 DEF AskedFirst
<1>7. ASSUME NEW k \in Nat PROVE asked[k + 1] = AskedNext(asked[k])
  <2>1. k + 1 \in Nat /\ k + 1 # 0 /\ (k + 1) - 1 = k
    OBVIOUS
  <2> QED BY <1>5, <2>1 DEF AskedNext
<1> HIDE DEF Rule
<1> DEFINE S == {k \in Nat : asked[k] \in V}
<1>8. Nat \subseteq S
  <2>1. 0 \in S /\ \A k \in S : k + 1 \in S
    BY <1>6, <1>7, AskedTypes
  <2> HIDE DEF S
  <2> QED BY <2>1, SetInduction
<1>9. asked \in [Nat -> V]
  <2>1. asked = [k \in Nat |-> asked[k]]
    BY <1>3 DEF Rule
  <2> QED BY <1>8, <2>1
<1> QED BY <1>4, <1>6, <1>7, <1>9

-----------------------------------------------------------------------------
(* What the rounds keep *)

\* Who is dealt with was pulled by no one else; the dates are the earliest of
\* the tasks' own and of what those dealt with pass on.
Settled(r) ==
    /\ r \in RoundRows
    /\ \A t \in r.done, d \in Tasks : <<d, t>> \in Pulls => d \in r.done
    /\ \A t \in Tasks : r.dates[t] <= DueDate(t)
    /\ \A t \in Tasks, d \in r.done :
         <<d, t>> \in Pulls /\ r.dates[d] # Never => r.dates[t] <= r.dates[d] - Effort(d)
    /\ \A t \in Tasks :
         \/ r.dates[t] = DueDate(t)
         \/ \E d \in r.done : /\ <<d, t>> \in Pulls /\ r.dates[d] # Never
                              /\ r.dates[t] = r.dates[d] - Effort(d)

\* After k rounds, at least k tasks are dealt with.
HasDealt(r, k) == r.done = Tasks \/ Cardinality(r.done) >= k

\* Each date of theirs is asked for through fewer than k waits.
Traced(h, r, k) ==
    \A t \in r.done : \E j \in Nat : /\ j < k
                                     /\ [task |-> t, date |-> r.dates[t]] \in h[j]

\* The dates of those dealt with stay.
LEMMA RoundMoves ==
  ASSUME TypeOK, NEW r, Settled(r), NEW ready, ready = Ready(Pulls, r.done),
         NEW new, new = Pulled(Pulls, r.dates, ready)
  PROVE  /\ r.dates \in [Tasks -> Int] /\ r.done \in SUBSET Tasks
         /\ ready \in SUBSET Tasks /\ new \in [Tasks -> Int]
         /\ \A t \in ready, d \in Tasks : <<d, t>> \in Pulls => d \in r.done
         /\ \A t \in r.done \cup ready : new[t] = r.dates[t]
         /\ Round(Pulls, r) = [dates |-> new, done |-> r.done \cup ready]
<1>1. r.dates \in [Tasks -> Int] /\ r.done \in SUBSET Tasks
  BY DEF Settled, RoundRows
<1>2. ready \in SUBSET Tasks /\ ready \cap r.done = {}
  BY DEF Ready
<1>3. /\ new \in [Tasks -> Int]
      /\ \A t \in Tasks : \/ new[t] = r.dates[t]
                          \/ \E d \in ready : <<d, t>> \in Pulls
  <2>1. PulledDown(Pulls, r.dates, ready, new)
    BY <1>1, <1>2, PulledIs
  <2> QED BY ONLY <2>1 DEF PulledDown
<1>4. ASSUME NEW t \in ready, NEW d \in Tasks, <<d, t>> \in Pulls PROVE d \in r.done
  <2> DEFINE e == <<d, t>>
  <2>1. e \in Pulls /\ e[1] = d /\ e[2] = t
    BY <1>4
  <2> HIDE DEF e
  <2>2. \A p \in Pulls : p[2] = t => p[1] \in r.done
    BY DEF Ready
  <2> QED BY <2>1, <2>2
<1>5. ASSUME NEW t \in r.done \cup ready PROVE new[t] = r.dates[t]
  <2>1. SUFFICES ASSUME NEW d \in ready, <<d, t>> \in Pulls PROVE FALSE
    BY <1>1, <1>2, <1>3
  <2>2. d \in r.done
    <3>1. CASE t \in r.done
      BY <1>2, <2>1, <3>1 DEF Settled
    <3>2. CASE t \in ready
      BY <1>2, <1>4, <2>1, <3>2
    <3> QED BY <3>1, <3>2
  <2> QED BY <1>2, <2>1, <2>2
<1>6. Round(Pulls, r) = [dates |-> new, done |-> r.done \cup ready]
  BY DEF Round
<1> QED BY <1>1, <1>2, <1>3, <1>4, <1>5, <1>6

LEMMA RoundSettles ==
  ASSUME TypeOK, NEW r, Settled(r)
  PROVE  Settled(Round(Pulls, r))
<1> DEFINE ready == Ready(Pulls, r.done)
           new == Pulled(Pulls, r.dates, ready)
           next == Round(Pulls, r)
<1>1. /\ r.dates \in [Tasks -> Int] /\ r.done \in SUBSET Tasks
      /\ ready \in SUBSET Tasks /\ new \in [Tasks -> Int]
      /\ \A t \in ready, d \in Tasks : <<d, t>> \in Pulls => d \in r.done
      /\ \A t \in r.done \cup ready : new[t] = r.dates[t]
      /\ next = [dates |-> new, done |-> r.done \cup ready]
  <2> HIDE DEF ready, new
  <2>1. ready = Ready(Pulls, r.done) /\ new = Pulled(Pulls, r.dates, ready)
    BY DEF ready, new
  <2> QED BY ONLY TypeOK, Settled(r), <2>1, RoundMoves
<1>2. \A t \in Tasks :
        /\ new[t] <= r.dates[t]
        /\ \A d \in ready : <<d, t>> \in Pulls /\ r.dates[d] # Never
                              => new[t] <= r.dates[d] - Effort(d)
        /\ \/ new[t] = r.dates[t]
           \/ \E d \in ready : /\ <<d, t>> \in Pulls /\ r.dates[d] # Never
                               /\ new[t] = r.dates[d] - Effort(d)
  <2>1. PulledDown(Pulls, r.dates, ready, new)
    <3> HIDE DEF ready
    <3> QED BY <1>1, PulledIs
  <2> HIDE DEF ready, new
  <2> QED BY ONLY <2>1 DEF PulledDown
<1> HIDE DEF ready, new, next
<1>3. next.dates = new /\ next.done = r.done \cup ready
  BY ONLY <1>1
<1>4. next \in RoundRows
  BY ONLY <1>1 DEF RoundRows
<1>5. ASSUME NEW t \in next.done, NEW d \in Tasks, <<d, t>> \in Pulls
      PROVE  d \in next.done
  <2>1. CASE t \in r.done
    BY <1>3, <1>5, <2>1 DEF Settled
  <2>2. CASE t \in ready
    BY <1>1, <1>3, <1>5, <2>2
  <2> QED BY <1>3, <1>5, <2>1, <2>2
<1>6. ASSUME NEW t \in Tasks PROVE next.dates[t] <= DueDate(t)
  <2>1. new[t] \in Int /\ r.dates[t] \in Int /\ DueDate(t) \in Int
    BY <1>1, DateTypes
  <2>2. new[t] <= r.dates[t] /\ r.dates[t] <= DueDate(t)
    BY <1>2 DEF Settled
  <2> QED BY <1>3, <2>1, <2>2
<1>7. ASSUME NEW t \in Tasks, NEW d \in next.done, <<d, t>> \in Pulls,
             next.dates[d] # Never
      PROVE  next.dates[t] <= next.dates[d] - Effort(d)
  <2>1. /\ d \in Tasks /\ d \in r.done \cup ready /\ next.dates[d] = r.dates[d]
        /\ next.dates[t] = new[t]
    BY <1>1, <1>3, <1>7
  <2>2. CASE d \in r.done
    <3>1. new[t] <= r.dates[t]
      BY <1>2
    <3>2. r.dates[t] <= r.dates[d] - Effort(d)
      BY <1>7, <2>1, <2>2 DEF Settled
    <3>3. new[t] \in Int /\ r.dates[t] \in Int /\ r.dates[d] - Effort(d) \in Int
      BY <1>1, <2>1, DateTypes
    <3> HIDE DEF Settled
    <3> QED BY <2>1, <3>1, <3>2, <3>3
  <2>3. CASE d \in ready
    BY <1>2, <1>7, <2>1, <2>3
  <2> QED BY <2>1, <2>2, <2>3
<1>8. ASSUME NEW t \in Tasks
      PROVE  \/ next.dates[t] = DueDate(t)
             \/ \E d \in next.done : /\ <<d, t>> \in Pulls /\ next.dates[d] # Never
                                     /\ next.dates[t] = next.dates[d] - Effort(d)
  <2>1. \A d \in next.done : next.dates[d] = r.dates[d]
    BY <1>1, <1>3
  <2>2. CASE new[t] = r.dates[t]
    <3>1. \/ r.dates[t] = DueDate(t)
          \/ \E d \in r.done : /\ <<d, t>> \in Pulls /\ r.dates[d] # Never
                               /\ r.dates[t] = r.dates[d] - Effort(d)
      BY DEF Settled
    <3> QED BY <1>3, <2>1, <2>2, <3>1
  <2>3. CASE \E d \in ready : /\ <<d, t>> \in Pulls /\ r.dates[d] # Never
                              /\ new[t] = r.dates[d] - Effort(d)
    BY <1>3, <2>1, <2>3
  <2> QED BY <1>2, <2>2, <2>3
<1>9. Settled(next)
  BY <1>4, <1>5, <1>6, <1>7, <1>8 DEF Settled
<1> QED BY <1>9 DEF next

\* Some task not dealt with has nobody behind it who still could pull it.
LEMMA RoundAdvances ==
  ASSUME TypeOK, NoWaitingInCircles, NEW r, Settled(r), NEW k \in Nat, HasDealt(r, k)
  PROVE  HasDealt(Round(Pulls, r), k + 1)
<1> DEFINE ready == Ready(Pulls, r.done)
           new == Pulled(Pulls, r.dates, ready)
           next == Round(Pulls, r)
           left == Tasks \ r.done
<1>1. /\ r.done \in SUBSET Tasks /\ ready \in SUBSET Tasks
      /\ next = [dates |-> new, done |-> r.done \cup ready]
  <2> HIDE DEF ready, new
  <2>1. ready = Ready(Pulls, r.done) /\ new = Pulled(Pulls, r.dates, ready)
    BY DEF ready, new
  <2> QED BY ONLY TypeOK, Settled(r), <2>1, RoundMoves
<1>2. next.done = r.done \cup ready
  <2> HIDE DEF ready, new, next
  <2> QED BY ONLY <1>1
<1>3. CASE r.done = Tasks
  <2>1. next.done = Tasks
    BY <1>1, <1>2, <1>3
  <2> QED BY <2>1 DEF HasDealt
<1>4. CASE r.done # Tasks
  <2>1. PICK t \in left : \A d \in left : t \notin Waits(changes, d)
    <3>1. left \in SUBSET Tasks /\ left # {}
      BY <1>1, <1>4
    <3> HIDE DEF left
    <3> QED BY <3>1, OneIsFree
  <2>2. t \in ready
    <3>1. ASSUME NEW e \in Pulls, e[2] = t PROVE e[1] \in r.done
      <4>1. e[1] \in Tasks /\ e = <<e[1], e[2]>>
        BY DEF Pulls
      <4>2. e[1] \in Dependants[t]
        BY <2>1, <3>1, <4>1, WhoPulls
      <4>3. t \in Waits(changes, e[1])
        BY <2>1, <4>2, DependantsWait
      <4> QED BY <2>1, <4>1, <4>3
    <3> QED BY <2>1, <3>1 DEF Ready
  <2>3. IsFiniteSet(r.done) /\ IsFiniteSet(next.done)
    BY <1>1, <1>2, TaskSchedulingAssumption, FS_Subset
  <2>4. Cardinality(r.done \cup {t}) = Cardinality(r.done) + 1
    BY <2>1, <2>3, FS_AddElement
  <2>5. Cardinality(r.done \cup {t}) <= Cardinality(next.done)
    <3>1. r.done \cup {t} \in SUBSET next.done
      BY <1>2, <2>2
    <3> HIDE DEF next
    <3> QED BY <2>3, <3>1, FS_Subset
  <2>6. Cardinality(r.done) \in Nat /\ Cardinality(next.done) \in Nat
    BY <2>3, FS_CardinalityType
  <2>7. Cardinality(r.done) >= k
    BY <1>4 DEF HasDealt
  <2>8. Cardinality(next.done) >= k + 1
    <3> HIDE DEF next
    <3> QED BY <2>4, <2>5, <2>6, <2>7
  <2> QED BY <2>8 DEF HasDealt
<1> QED BY <1>3, <1>4

LEMMA RoundTraces ==
  ASSUME TypeOK, NoWaitingInCircles, NEW r, Settled(r), NEW k \in Nat,
         NEW h \in [Nat -> SUBSET Askings], h[0] = AskedFirst,
         \A j \in Nat : h[j + 1] = AskedNext(h[j]),
         Traced(h, r, k)
  PROVE  Traced(h, Round(Pulls, r), k + 1)
<1> DEFINE ready == Ready(Pulls, r.done)
           new == Pulled(Pulls, r.dates, ready)
           next == Round(Pulls, r)
<1>1. /\ r.dates \in [Tasks -> Int] /\ r.done \in SUBSET Tasks
      /\ ready \in SUBSET Tasks
      /\ \A t \in ready, d \in Tasks : <<d, t>> \in Pulls => d \in r.done
      /\ \A t \in r.done \cup ready : new[t] = r.dates[t]
      /\ next = [dates |-> new, done |-> r.done \cup ready]
  <2> HIDE DEF ready, new
  <2>1. ready = Ready(Pulls, r.done) /\ new = Pulled(Pulls, r.dates, ready)
    BY DEF ready, new
  <2> QED BY ONLY TypeOK, Settled(r), <2>1, RoundMoves
<1> HIDE DEF ready, new, next
<1>2. next.dates = new /\ next.done = r.done \cup ready
  BY ONLY <1>1
<1>3. ASSUME NEW t \in next.done
      PROVE  \E j \in Nat : /\ j < k + 1
                            /\ [task |-> t, date |-> next.dates[t]] \in h[j]
  <2>1. t \in Tasks /\ next.dates[t] = r.dates[t]
    BY <1>1, <1>2
  <2>2. CASE t \in r.done
    <3>1. PICK j \in Nat : j < k /\ [task |-> t, date |-> r.dates[t]] \in h[j]
      BY <2>2 DEF Traced
    <3>2. j < k + 1
      BY <3>1
    <3> QED BY <2>1, <3>1, <3>2
  <2>3. CASE r.dates[t] = DueDate(t)
    <3>1. [task |-> t, date |-> r.dates[t]] \in h[0]
      BY <2>1, <2>3 DEF AskedFirst
    <3>2. 0 \in Nat /\ 0 < k + 1
      OBVIOUS
    <3> QED BY <2>1, <3>1, <3>2
  <2>4. CASE r.dates[t] # DueDate(t)
    <3>1. PICK d \in r.done : /\ <<d, t>> \in Pulls /\ r.dates[d] # Never
                              /\ r.dates[t] = r.dates[d] - Effort(d)
      BY <2>1, <2>4 DEF Settled
    <3>2. PICK j \in Nat : j < k /\ [task |-> d, date |-> r.dates[d]] \in h[j]
      BY <3>1 DEF Traced
    <3> DEFINE a == [task |-> d, date |-> r.dates[d]]
    <3>3. a.task = d /\ a.date = r.dates[d] /\ a \in h[j]
      BY <3>2
    <3>4. d \in Tasks /\ d \in Dependants[t] /\ task[d].status = "open"
      BY <1>1, <2>1, <3>1, WhoPulls
    <3> HIDE DEF a
    <3>5. [task |-> t, date |-> r.dates[t]] \in AskedBefore(Dependants, a)
      BY <2>1, <3>1, <3>3, <3>4 DEF AskedBefore
    <3>6. [task |-> t, date |-> r.dates[t]] \in h[j + 1]
      BY <3>3, <3>5 DEF AskedNext
    <3>7. j + 1 \in Nat /\ j + 1 < k + 1
      BY <3>2
    <3> QED BY <2>1, <3>6, <3>7
  <2> QED BY <2>3, <2>4
<1>4. Traced(h, next, k + 1)
  BY <1>3 DEF Traced
<1> QED BY <1>4 DEF next

\* The rounds end where every date is final, and what is asked, through any
\* number of waits, is asked for no earlier than that.
LEMMA NoneAskedEarlier ==
  ASSUME TypeOK, NoWaitingInCircles, NEW r, Settled(r), r.done = Tasks,
         NEW h \in [Nat -> SUBSET Askings], h[0] = AskedFirst,
         \A j \in Nat : h[j + 1] = AskedNext(h[j])
  PROVE  \A j \in Nat : \A a \in h[j] : r.dates[a.task] <= a.date
<1> DEFINE S == {j \in Nat : \A a \in h[j] : r.dates[a.task] <= a.date /\ a.date <= Never}
<1>0. r.dates \in [Tasks -> Int]
  BY DEF Settled, RoundRows
<1>1. 0 \in S
  <2>1. ASSUME NEW a \in h[0] PROVE r.dates[a.task] <= a.date /\ a.date <= Never
    <3>1. PICK t \in Tasks : a = [task |-> t, date |-> DueDate(t)]
      BY DEF AskedFirst
    <3>2. a.task = t /\ a.date = DueDate(t)
      BY <3>1
    <3> QED BY <3>2, DateTypes DEF Settled
  <2> QED BY <2>1
<1>2. ASSUME NEW j \in S PROVE j + 1 \in S
  <2>1. j \in Nat /\ j + 1 \in Nat /\ \A a \in h[j] : r.dates[a.task] <= a.date /\ a.date <= Never
    OBVIOUS
  <2>2. ASSUME NEW b \in h[j + 1] PROVE r.dates[b.task] <= b.date /\ b.date <= Never
    <3>1. PICK a \in h[j] : b \in AskedBefore(Dependants, a)
      BY <2>1 DEF AskedNext
    <3>2. PICK u \in Tasks : /\ a.task \in Dependants[u]
                             /\ task[a.task].status = "open" /\ a.date # Never
                             /\ b = [task |-> u, date |-> a.date - Effort(a.task)]
      BY <3>1 DEF AskedBefore
    <3>3. b.task = u /\ b.date = a.date - Effort(a.task)
      BY <3>2
    <3>4. a \in Askings
      BY <2>1
    <3>5. a.task \in Tasks /\ a.date \in Int
      BY <3>4 DEF Askings
    <3>6. <<a.task, u>> \in Pulls
      BY <3>2, <3>5, WhoPulls
    <3>7. /\ r.dates[a.task] <= a.date /\ a.date <= Never
          /\ r.dates[a.task] \in Int /\ r.dates[u] \in Int
          /\ Never \in Nat /\ Effort(a.task) \in Nat
      BY <1>0, <2>1, <3>1, <3>2, <3>5, DateTypes
    <3>8. r.dates[a.task] # Never
      BY <3>2, <3>5, <3>7
    <3>9. r.dates[u] <= r.dates[a.task] - Effort(a.task)
      BY <3>2, <3>5, <3>6, <3>8 DEF Settled
    <3> QED BY ONLY <3>3, <3>5, <3>7, <3>9
  <2> QED BY <2>1, <2>2
<1>3. Nat \subseteq S
  <2> HIDE DEF S
  <2> QED BY <1>1, <1>2, SetInduction
<1> QED BY <1>3

LEMMA RoundsReach ==
  ASSUME TypeOK, NoWaitingInCircles
  PROVE  DeadlinesReach
<1> DEFINE N == Cardinality(Tasks)
<1>1. PICK g \in [Nat -> RoundRows] :
        /\ g[0] = FirstRound
        /\ \A k \in Nat : g[k + 1] = Round(Pulls, g[k])
        /\ Effective = g[N].dates
  BY Rounds
<1>2. PICK h \in [Nat -> SUBSET Askings] :
        /\ h[0] = AskedFirst
        /\ \A k \in Nat : h[k + 1] = AskedNext(h[k])
        /\ Asked = UNION {h[k] : k \in 0..(N - 1)}
  BY Askeds
<1>3. N \in Nat /\ IsFiniteSet(Tasks)
  BY TaskSchedulingAssumption, FS_CardinalityType
<1> HIDE DEF N
<1> DEFINE S == {k \in Nat : Settled(g[k]) /\ HasDealt(g[k], k) /\ Traced(h, g[k], k)}
<1>4. 0 \in S
  <2>1. FirstRound \in RoundRows
    BY RoundTypes
  <2>2. /\ FirstRound.done = {}
        /\ \A t \in Tasks : FirstRound.dates[t] = DueDate(t) /\ DueDate(t) \in Int
    BY DateTypes DEF FirstRound
  <2>3. Settled(FirstRound)
    BY <2>1, <2>2 DEF Settled
  <2>4. HasDealt(FirstRound, 0)
    BY <2>2, FS_EmptySet DEF HasDealt
  <2>5. Traced(h, FirstRound, 0)
    BY <2>2 DEF Traced
  <2> QED BY <1>1, <2>3, <2>4, <2>5
<1>5. ASSUME NEW k \in S PROVE k + 1 \in S
  <2>1. k \in Nat /\ k + 1 \in Nat /\ Settled(g[k]) /\ HasDealt(g[k], k) /\ Traced(h, g[k], k)
    OBVIOUS
  <2>2. g[k + 1] = Round(Pulls, g[k])
    BY <1>1, <2>1
  <2>3. Settled(g[k + 1])
    BY <2>1, <2>2, RoundSettles
  <2>4. HasDealt(g[k + 1], k + 1)
    BY <2>1, <2>2, RoundAdvances
  <2>5. Traced(h, g[k + 1], k + 1)
    BY <1>2, <2>1, <2>2, RoundTraces
  <2> QED BY <2>1, <2>3, <2>4, <2>5
<1>6. Nat \subseteq S
  <2> HIDE DEF S
  <2> QED BY <1>4, <1>5, SetInduction
<1> DEFINE r == g[N]
<1>7. Settled(r) /\ HasDealt(r, N) /\ Traced(h, r, N)
  BY <1>3, <1>6
<1> HIDE DEF r
<1>8. r.done = Tasks
  <2>1. r.done \in SUBSET Tasks
    BY <1>7 DEF Settled, RoundRows
  <2>2. IsFiniteSet(r.done) /\ Cardinality(r.done) <= N /\ Cardinality(r.done) \in Nat
    BY <1>3, <2>1, FS_Subset, FS_CardinalityType DEF N
  <2>3. r.done = Tasks \/ Cardinality(r.done) = N
    BY <1>3, <1>7, <2>2 DEF HasDealt
  <2> QED BY <1>3, <2>1, <2>3, FS_Subset DEF N
<1>9. \A j \in Nat : \A a \in h[j] : r.dates[a.task] <= a.date
  BY <1>2, <1>7, <1>8, NoneAskedEarlier
<1>10. ASSUME NEW t \in Tasks
       PROVE  r.dates[t] = Least({a.date : a \in {b \in Asked : b.task = t}})
  <2> DEFINE asked == {a.date : a \in {b \in Asked : b.task = t}}
  <2>1. ASSUME NEW x \in asked PROVE x \in Int /\ r.dates[t] <= x
    <3>1. PICK a \in Asked : a.task = t /\ x = a.date
      OBVIOUS
    <3>2. PICK j \in Nat : a \in h[j]
      BY <1>2, <1>3
    <3>3. a \in Askings
      BY <3>2
    <3> QED BY <1>9, <3>1, <3>2, <3>3 DEF Askings
  <2>2. r.dates[t] \in asked
    <3>1. PICK j \in Nat : j < N /\ [task |-> t, date |-> r.dates[t]] \in h[j]
      BY <1>7, <1>8 DEF Traced
    <3>2. j \in 0..(N - 1)
      BY <1>3, <3>1
    <3>3. [task |-> t, date |-> r.dates[t]] \in Asked
      BY <1>2, <3>1, <3>2
    <3> DEFINE a == [task |-> t, date |-> r.dates[t]]
    <3>4. a \in Asked /\ a.task = t /\ a.date = r.dates[t]
      BY <3>3
    <3> HIDE DEF a
    <3> QED BY <3>4
  <2>3. asked \in SUBSET Int
    BY <2>1
  <2> HIDE DEF asked
  <2>4. Least(asked) = r.dates[t]
    BY <2>1, <2>2, <2>3, LeastIs
  <2> QED BY <2>4 DEF asked
<1>11. Effective = r.dates
  BY <1>1 DEF r
<1> QED BY <1>10, <1>11 DEF DeadlinesReach

\* effective_deadlines gives every task the earliest date that is asked of it,
\* its own or, through whatever chain of open tasks that wait for it, that of
\* another less the effort between them; it takes no task before all who can
\* pull it are dealt with.
THEOREM DeadlinesReachThroughChains == Spec => []DeadlinesReach
<1>1. Spec => []TypeOK
  BY SchedulingTypes
<1>2. Spec => []NoWaitingInCircles
  BY NobodyWaitsInCircles
<1>3. TypeOK /\ NoWaitingInCircles => DeadlinesReach
  BY RoundsReach
<1> QED BY <1>1, <1>2, <1>3, PTL
=============================================================================
