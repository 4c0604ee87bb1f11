--------------------------- MODULE TaskScheduling ---------------------------
(***************************************************************************)
(* What published research may do to the queue on its own:                 *)
(* apply_published_recommendations carries a report's recommendations, one *)
(* by one, into TaskSchedulingService, which holds tasks back (until a day *)
(* or until another task is done), raises them, or creates a task to be    *)
(* done first.  Each change gets a card, delivered at least once under a   *)
(* lease, on which the reader keeps or undoes it.  The claim of the        *)
(* execution ledger asks evaluate_task_conditions for leave and takes the  *)
(* row with the earliest effective deadline (task_deadlines.py).           *)
(*                                                                         *)
(* Every call of the service is one transaction and one action; the        *)
(* projection of a report is a sequence of them, with the reader, the      *)
(* agents and the clock between any two.  The rest of the ledger is kept   *)
(* to what versions, priorities and conditions can tell apart: no start or *)
(* review gates, no parking and one source tier.                           *)
(***************************************************************************)
EXTENDS Integers, FiniteSets, Sequences

CONSTANTS
    Tasks,
    Known,          \* the tasks there are at first; the others can be created
    Reports,        \* what research may come to write: for each of its jobs
                    \* the task, the recommendations and the timing it cites
    Due,            \* [Tasks -> date or Never]: the tasks' own due dates
    ReaderOwned,    \* tasks of one of the reader's aliases
    MaxConditions,  \* MAX_ACTIVE_CONDITIONS
    MaxEdges,       \* MAX_PREREQUISITE_EDGES
    MaxDepth,       \* MAX_DEPENDENCY_DEPTH
    Days,           \* bound: the dates the clock shows
    Ends,           \* bound: how an agent's pass may end
    InputKinds,     \* bound: what the reader may do to tasks and queue
    MaxChanges,     \* bound: change sets ever applied
    MaxClaims,      \* bound: claims ever granted
    MaxInputs       \* bound: what the reader does beside the cards

Never == 1000       \* no date: later than every date
Dates == 0..Never

Efforts == {"none", "hour", "day", "week"}
EffortDays == [none |-> 0, hour |-> 0, day |-> 1, week |-> 7]

Kinds == {"after_task_completed", "not_before", "raise_priority",
          "create_prerequisite"}
Recommendations == [kind : Kinds, related : Tasks \cup {"none"}, date : Nat]
Report == [task : Known, items : Seq(Recommendations), due : Dates,
           effort : Efforts]

ASSUME TaskSchedulingAssumption ==
    /\ IsFiniteSet(Tasks) /\ Known \subseteq Tasks /\ "none" \notin Tasks
    /\ \A R \in Reports : R \in [DOMAIN R -> Report]
    /\ Due \in [Tasks -> Dates] /\ ReaderOwned \subseteq Tasks /\ Days \subseteq Nat
    /\ Ends \subseteq {"result", "failure", "timeout", "release"}
    /\ InputKinds \subseteq {"open", "done", "dropped", "raised", "normal",
                             "lowered"}
    /\ {MaxConditions, MaxEdges, MaxDepth, MaxChanges, MaxClaims, MaxInputs} \subseteq Nat

VARIABLES
    task,       \* tasks
    wf,         \* task_execution_workflows
    changes,    \* the change sets, each with its condition and its card
    timing,     \* task_timing: what research cited of a task
    pass,       \* how far the projection of each report has come
    begun,      \* the tasks with a "claimed" event
    now, claims, inputs

vars == <<task, wf, changes, timing, pass, begun, now, claims, inputs>>

Statuses == {"absent", "queued", "running", "awaiting_review", "cancelled"}
ConditionStates == {"none", "active", "needs_review", "satisfied", "canceled"}
CardStates == {"pending", "delivering", "delivered", "resolved"}

ChangeSets ==
    [job : DOMAIN pass, item : Recommendations, task : Tasks, task_version : Nat,
     expected : Nat, resulting : Nat, related : Tasks \cup {"none"},
     created : Tasks \cup {"none"}, state : {"active", "undo_conflict", "undone"},
     condition : ConditionStates, card : CardStates]

TypeOK ==
    /\ task \in [Tasks -> [status : {"absent", "open", "done", "dropped"},
                           version : Nat]]
    /\ wf \in [Tasks -> [status : Statuses, version : Nat, task_version : Nat,
                         priority : {"raised", "normal", "lowered"},
                         source : {"none", "reader", "automation"},
                         failures : Nat, resting : BOOLEAN, result : BOOLEAN]]
    /\ changes \in Seq(ChangeSets)
    /\ timing \in [Tasks -> [due : Dates, effort : Efforts]]
    /\ pass \in [DOMAIN pass -> [report : Report, identity : Nat, at : Nat, read : Nat]]
    /\ begun \subseteq Tasks
    /\ now \in Days /\ claims \in 0..MaxClaims /\ inputs \in 0..MaxInputs

NewRow == [status |-> "queued", version |-> 1, task_version |-> 1,
           priority |-> "normal", source |-> "none", failures |-> 0,
           resting |-> FALSE, result |-> FALSE]

Init ==
    /\ task = [t \in Tasks |-> IF t \in Known
                               THEN [status |-> "open", version |-> 1]
                               ELSE [status |-> "absent", version |-> 0]]
    /\ wf = [t \in Tasks |-> IF t \in Known THEN NewRow
                             ELSE [NewRow EXCEPT !.status = "absent"]]
    /\ changes = <<>>
    /\ timing = [t \in Tasks |-> [due |-> Never, effort |-> "none"]]
    /\ \E R \in Reports :
         pass = [j \in DOMAIN R |-> [report |-> R[j], identity |-> 0, at |-> 0,
                                 read |-> 0]]
    /\ begun = {}
    /\ now \in {d \in Days : \A e \in Days : d <= e}
    /\ claims = MaxClaims /\ inputs = MaxInputs

-----------------------------------------------------------------------------
(* Conditions and the graph they make *)

Least(S) == CHOOSE x \in S : \A y \in S : x <= y

Live == {"active", "needs_review"}

\* The conditions that count for a task, by their change sets.
LiveOn(sets, t) == {i \in DOMAIN sets : /\ sets[i].task = t
                                        /\ sets[i].condition \in Live}

After(change) == change.related # "none"

Waits(sets, t) == {sets[i].related : i \in {k \in LiveOn(sets, t) : After(sets[k])}}

\* The tasks from which n waits can be followed: some for every n if there is
\* a circle, else none beyond the depth of the graph.
WaitsDeep(next, n) ==
    LET from[k \in Nat] == IF k = 0 THEN Tasks
                           ELSE {t \in Tasks : next[t] \cap from[k - 1] # {}}
    IN from[n]

Circular(next) == WaitsDeep(next, Cardinality(Tasks)) # {}
TooDeep(next)  == WaitsDeep(next, MaxDepth + 1) # {}

\* What would go wrong: conditions that wait for the reader are left out.
MayWaitActive(tasks, t, other) ==
    /\ other # t /\ tasks[other].status = "open"
    /\ LET next == [u \in Tasks |->
                      {changes[i].related : i \in {k \in LiveOn(changes, u) :
                         After(changes[k]) /\ changes[k].condition = "active"}}
                      \cup (IF u = t THEN {other} ELSE {})]
       IN ~Circular(next) /\ ~TooDeep(next)

\* _dependency_refusal, of a task that is to wait for another.
MayWait(tasks, t, other) ==
    /\ other # t
    /\ tasks[other].status = "open"
    /\ Cardinality({i \in LiveOn(changes, t) : After(changes[i])}) < MaxEdges
    /\ LET next == [u \in Tasks |-> Waits(changes, u)
                                    \cup (IF u = t THEN {other} ELSE {})]
       IN ~Circular(next) /\ ~TooDeep(next)

\* evaluate_task_conditions: what becomes of one condition when its task is
\* looked at, and whether it lets the task go.
Refreshed(c) ==
    IF c.task_version # task[c.task].version THEN "needs_review"
    ELSE IF After(c)
    THEN CASE task[c.related].status = "done" -> "satisfied"
           [] task[c.related].status = "open" -> c.condition
           [] OTHER -> "needs_review"
    ELSE IF now >= c.item.date THEN "satisfied" ELSE c.condition

Evaluate(sets, S) ==
    [i \in DOMAIN sets |->
       IF sets[i].task \in S /\ sets[i].condition \in Live
       THEN [sets[i] EXCEPT !.condition = Refreshed(sets[i])] ELSE sets[i]]

Eligible(t) == \A i \in LiveOn(changes, t) : Refreshed(changes[i]) = "satisfied"

-----------------------------------------------------------------------------
(* Effective deadlines: effective_deadlines over _deadline_graph *)

\* _deadline_graph: who waits for a task, by the conditions in force.
Dependants ==
    [t \in Tasks |->
       {d \in Tasks : \E i \in DOMAIN changes : /\ changes[i].task = d
                                                /\ changes[i].condition = "active"
                                                /\ changes[i].related = t}]

\* with_research_timing: a cited date counts when it is the earlier one.
DueDate(t) == Least({Due[t], timing[t].due})
Effort(t)  == EffortDays[timing[t].effort]

\* Tasks on a circle keep their own date and pull nobody.
Cyclic ==
    LET next == Dependants
        beyond[k \in Nat] ==
          IF k = 0 THEN next
          ELSE [t \in Tasks |-> beyond[k - 1][t]
                                \cup UNION {next[d] : d \in beyond[k - 1][t]}]
    IN {t \in Tasks : t \in beyond[Cardinality(Tasks)][t]}

\* An open task pulls the tasks it waits for to its own date.
Pulls ==
    LET next   == Dependants
        circle == Cyclic
    IN {e \in (Tasks \ circle) \X (Tasks \ circle) :
          e[1] \in next[e[2]] /\ task[e[1]].status = "open"}

\* What would go wrong: a task passes on a date that is not yet final.
ReadyAtOnce(pulls, done) == Tasks \ done

\* Those that nobody not yet dealt with can still pull.
Ready(pulls, done) ==
    {t \in Tasks \ done : \A e \in pulls : e[2] = t => e[1] \in done}

\* Each of those in from passes its date, if it has one, on to the tasks it
\* waits for.
Pulled(pulls, dates, from) ==
    [t \in Tasks |->
       LET asking == {d \in from : <<d, t>> \in pulls /\ dates[d] # Never}
       IN Least({dates[t]} \cup {dates[d] - Effort(d) : d \in asking})]

Round(pulls, r) ==
    LET ready == Ready(pulls, r.done)
    IN [dates |-> Pulled(pulls, r.dates, ready), done |-> r.done \cup ready]

\* From the tasks nobody waits behind to those that are waited for.
Effective ==
    LET pulls == Pulls
        round[k \in Nat] ==
          IF k = 0 THEN [dates |-> [t \in Tasks |-> DueDate(t)], done |-> {}]
          ELSE Round(pulls, round[k - 1])
    IN round[Cardinality(Tasks)].dates

\* band, and the place a row takes in the queue of a claim.
Band(date) == IF date <= now + 3 THEN 0 ELSE IF date <= now + 14 THEN 1 ELSE 2

Places ==
    LET dates == Effective
        rank(t) == CASE \/ wf[t].priority = "raised"
                        \/ t \in ReaderOwned /\ dates[t] <= now + 2 -> 0
                     [] wf[t].priority = "normal" -> 1
                     [] OTHER -> 2
    IN [t \in Tasks |-> 3 * rank(t) + Band(dates[t])]

-----------------------------------------------------------------------------
(* TaskSchedulingService.apply *)

Adds(item) == item.kind # "raise_priority"

\* _target_refusal
Refusable == {"running", "completed", "cancelled", "awaiting_review"}

\* What would go wrong: a task is scheduled beneath the agent at work on it.
MayScheduleRunning(t, identity, expected) ==
    /\ task[t].status = "open"
    /\ task[t].version = identity
    /\ wf[t].version = expected

MaySchedule(t, identity, expected) ==
    /\ task[t].status = "open"
    /\ task[t].version = identity
    /\ wf[t].version = expected
    /\ wf[t].status \notin Refusable

\* A priority somebody has set is never overwritten by research.
MayRaise(t) ==
    /\ wf[t].priority = "normal" /\ wf[t].source = "none"
    /\ wf[t].status = "queued" /\ ~wf[t].resting

Fits(t, item) ==
    Adds(item) =>
      /\ Cardinality(LiveOn(changes, t)) < MaxConditions
      /\ item.kind = "not_before" =>
           /\ item.date > now
           /\ \A i \in LiveOn(changes, t) : After(changes[i])

\* _create_prerequisite: a task and its workflow, queued from the start.
Created(new) == [task EXCEPT ![new] = [status |-> "open", version |-> 1]]

\* The same advice, read at the same workflow version, is applied once.
Repeated(j, item, expected) ==
    \E i \in DOMAIN changes : /\ changes[i].job = j /\ changes[i].item = item
                              /\ changes[i].expected = expected

Target(j) == pass[j].report.task
Items(j)  == pass[j].report.items

\* What apply asks; related is the task it makes the other one wait for.
Admits(j, item, expected, related) ==
    LET t == Target(j)
    IN /\ ~Repeated(j, item, expected)
       /\ MaySchedule(t, pass[j].identity, expected)
       /\ Fits(t, item)
       /\ CASE item.kind = "raise_priority"      -> MayRaise(t)
            [] item.kind = "after_task_completed" ->
                 related = item.related /\ MayWait(task, t, related)
            [] item.kind = "create_prerequisite" ->
                 /\ task[related].status = "absent"
                 /\ MayWait(Created(related), t, related)
            [] OTHER -> TRUE

\* What apply does: one change set, its condition and its card.
Apply(j, item, expected, related) ==
    LET t        == Target(j)
        raises   == item.kind = "raise_priority"
        creates  == item.kind = "create_prerequisite"
        waits    == creates \/ item.kind = "after_task_completed"
        version  == IF raises THEN expected + 1 ELSE expected
    IN /\ changes' = Append(changes,
            [job |-> j, item |-> item, task |-> t,
             task_version |-> pass[j].identity, expected |-> expected,
             resulting |-> version, related |-> IF waits THEN related ELSE "none",
             created |-> IF creates THEN related ELSE "none", state |-> "active",
             condition |-> IF Adds(item) THEN "active" ELSE "none",
             card |-> "pending"])
       /\ task' = IF creates THEN Created(related) ELSE task
       /\ wf' = IF creates THEN [wf EXCEPT ![related] = NewRow]
                ELSE IF raises
                THEN [wf EXCEPT ![t].priority = "raised",
                                ![t].source = "automation", ![t].version = version]
                ELSE wf

-----------------------------------------------------------------------------
(* apply_published_recommendations, as the research runner calls it *)

Ahead(j) == [pass[j] EXCEPT !.at = @ + 1, !.read = 0]

\* The store has published the report of a job; its projection begins.
Publish(j) ==
    /\ pass[j].at = 0
    /\ task[Target(j)].status = "open"
    /\ pass' = [pass EXCEPT ![j].identity = task[Target(j)].version, ![j].at = 1]
    /\ UNCHANGED <<task, wf, changes, timing, begun, now, claims, inputs>>

\* A recommendation of this report that has its change already is passed by.
\* A date is stored in another form than the report writes it in, so a date
\* never matches.
Matched(j, item) ==
    item.kind # "not_before" /\ \E i \in DOMAIN changes :
        /\ changes[i].job = j /\ changes[i].item = item
        /\ changes[i].task_version = pass[j].identity

Look(j) ==
    /\ pass[j].at \in DOMAIN Items(j) /\ pass[j].read = 0
    /\ LET item == Items(j)[pass[j].at]
       IN pass' = [pass EXCEPT ![j] =
                     IF Matched(j, item) \/ wf[Target(j)].status = "absent"
                     THEN Ahead(j)
                     ELSE [@ EXCEPT !.read = wf[Target(j)].version]]
    /\ UNCHANGED <<task, wf, changes, timing, begun, now, claims, inputs>>

\* service.apply, with the version read in another transaction; a refusal
\* passes on to the next recommendation.
ApplyNext(j) ==
    /\ pass[j].at \in DOMAIN Items(j) /\ pass[j].read # 0
    /\ Len(changes) < MaxChanges
    /\ pass' = [pass EXCEPT ![j] = Ahead(j)]
    /\ LET item == Items(j)[pass[j].at]
           fit  == {r \in Tasks : Admits(j, item, pass[j].read, r)}
       IN IF fit = {} THEN UNCHANGED <<task, wf, changes>>
          ELSE Apply(j, item, pass[j].read, CHOOSE r \in fit : TRUE)
    /\ UNCHANGED <<timing, begun, now, claims, inputs>>

\* A busy database ends the projection where it is; the report stands.
BreakOff(j) ==
    /\ pass[j].at \in DOMAIN Items(j)
    /\ pass' = [pass EXCEPT ![j] = [@ EXCEPT !.at = Len(Items(j)) + 1, !.read = 0]]
    /\ UNCHANGED <<task, wf, changes, timing, begun, now, claims, inputs>>

\* record_research_timing: what the report cites replaces what was cited.
RecordTiming(j) ==
    /\ pass[j].at = Len(Items(j)) + 1
    /\ pass' = [pass EXCEPT ![j] = Ahead(j)]
    /\ timing' = [timing EXCEPT ![Target(j)] =
                    [due    |-> IF pass[j].report.due = Never THEN @.due ELSE pass[j].report.due,
                     effort |-> IF pass[j].report.effort = "none" THEN @.effort
                                ELSE pass[j].report.effort]]
    /\ UNCHANGED <<task, wf, changes, begun, now, claims, inputs>>

-----------------------------------------------------------------------------
(* The cards *)

Others == <<timing, pass, begun, now, claims, inputs>>
Shows(i, status) == i \in DOMAIN changes /\ changes[i].card = status

Set(i, status) == changes' = [changes EXCEPT ![i].card = status]

\* claim_next: the oldest card goes out.
ClaimCard ==
    LET waiting == {i \in DOMAIN changes : changes[i].card = "pending"}
    IN /\ waiting # {}
       /\ Set(Least(waiting), "delivering")
       /\ UNCHANGED <<task, wf, Others>>

\* complete_delivery, with the token, version and lease of the claim.
CompleteDelivery(i) ==
    /\ Shows(i, "delivering")
    /\ Set(i, "delivered")
    /\ UNCHANGED <<task, wf, Others>>

\* fail_delivery, or the lease ends: the card goes back and the claim with it.
\* (The code writes the lapse at the next claim; till then every call on the
\* card is refused as it is here.)
FailDelivery(i) ==
    /\ Shows(i, "delivering")
    /\ Set(i, "pending")
    /\ UNCHANGED <<task, wf, Others>>

Keep(i) == Shows(i, "delivered") /\ Set(i, "resolved") /\ UNCHANGED <<task, wf, Others>>

\* What would go wrong: a prerequisite an agent has tried is taken back.
PristineUnanswered(t) ==
    /\ task[t] = [status |-> "open", version |-> 1]
    /\ wf[t].status = "queued" /\ wf[t].failures = 0 /\ ~wf[t].result

\* The created task and its workflow are as they were made.
Pristine(t) ==
    /\ task[t] = [status |-> "open", version |-> 1]
    /\ wf[t].status = "queued" /\ wf[t].version = 1
    /\ wf[t].failures = 0 /\ ~wf[t].result

\* _undo_conflict
Conflicts(c) ==
    \/ c.state # "active"
    \/ ~MaySchedule(c.task, c.task_version, c.resulting)
    \/ /\ c.item.kind = "raise_priority"
       /\ wf[c.task].priority # "raised" \/ wf[c.task].source # "automation"
    \/ c.created # "none" /\ ~Pristine(c.created)

\* act(undo) against a world that moved on: the change stands, for good.
UndoRefused(i) ==
    /\ Shows(i, "delivered") /\ Conflicts(changes[i])
    /\ changes[i].state = "active"
    /\ changes' = [changes EXCEPT ![i].state = "undo_conflict"]
    /\ UNCHANGED <<task, wf, Others>>

\* act(undo): what this change did, and nothing else, is taken back.
Undo(i) ==
    LET c == changes[i]
    IN /\ Shows(i, "delivered") /\ ~Conflicts(c)
       /\ changes' = [changes EXCEPT ![i] =
                        [c EXCEPT !.state = "undone", !.card = "resolved",
                                  !.condition = IF @ = "none" THEN @ ELSE "canceled"]]
       /\ task' = [t \in Tasks |-> IF t = c.created
                                   THEN [status |-> "dropped", version |-> 2]
                                   ELSE task[t]]
       /\ wf' = [t \in Tasks |->
                   IF t = c.created
                   THEN [wf[t] EXCEPT !.status = "cancelled", !.version = @ + 1]
                   ELSE IF t = c.task /\ c.item.kind = "raise_priority"
                   THEN [wf[t] EXCEPT !.priority = "normal", !.source = "none",
                                      !.version = @ + 1]
                   ELSE wf[t]]
       /\ UNCHANGED Others

-----------------------------------------------------------------------------
(* The execution ledger, as far as scheduling sees it *)

\* _cancel_stale
CancelStale ==
    [t \in Tasks |->
       IF /\ wf[t].status \notin {"absent", "cancelled"}
          /\ \/ task[t].status # "open"
             \/ task[t].version # wf[t].task_version
       THEN [wf[t] EXCEPT !.status = "cancelled", !.version = @ + 1,
                          !.resting = FALSE]
       ELSE wf[t]]

\* claim_next: rows are asked for leave in the order of their place until
\* one has it; every condition looked at on the way is brought up to date.
Claim ==
    LET rows   == CancelStale
        queue  == {t \in Tasks : rows[t].status = "queued" /\ ~rows[t].resting}
        ready  == {t \in queue : Eligible(t)}
        place  == Places
        before(t) == {u \in queue : place[u] < place[t]}
        beside(t) == {u \in queue \ ready : place[u] = place[t]}
    IN /\ \/ /\ ready = {}
             /\ changes' = Evaluate(changes, queue)
             /\ wf' = rows
             /\ <<changes', wf'>> # <<changes, wf>>
             /\ UNCHANGED <<begun, claims>>
          \/ \E t \in ready : \E S \in SUBSET beside(t) :
               /\ claims > 0
               /\ before(t) \cap ready = {}
               /\ changes' = Evaluate(changes, before(t) \cup S \cup {t})
               /\ wf' = [rows EXCEPT ![t].status = "running",
                                      ![t].version = @ + 1,
                                      ![t].priority = "normal",
                                      ![t].source = "none"]
               /\ begun' = begun \cup {t}
               /\ claims' = claims - 1
       /\ UNCHANGED <<task, timing, pass, now, inputs>>

\* How the agent's pass ends: record_result, fail, release.
EndPass(t, how) ==
    /\ wf[t].status = "running"
    /\ wf' = [wf EXCEPT ![t].status = IF how = "result" THEN "awaiting_review"
                                     ELSE "queued",
                         ![t].version  = @ + 1,
                         ![t].result   = @ \/ how = "result",
                         ![t].failures = IF how = "failure" THEN @ + 1 ELSE @,
                         ![t].resting  = how \in {"failure", "timeout"}]
    /\ UNCHANGED <<task, changes, Others>>

\* A retry's next_attempt_at arrives.
RestEnds(t) ==
    /\ wf[t].resting
    /\ wf' = [wf EXCEPT ![t].resting = FALSE]
    /\ UNCHANGED <<task, changes, Others>>

\* schedule_new, of a task whose workflow ended with an earlier version.
Reschedule(t) ==
    /\ task[t].status = "open"
    /\ wf[t].status = "cancelled" /\ wf[t].task_version # task[t].version
    /\ wf' = [wf EXCEPT ![t] = [NewRow EXCEPT !.version = wf[t].version + 1,
                                              !.task_version = task[t].version]]
    /\ UNCHANGED <<task, changes, Others>>

Input(kind) == kind \in InputKinds /\ inputs > 0 /\ inputs' = inputs - 1

\* set_priority: raise, lower or clear, on the card of a queued task.
SetPriority(t, priority) ==
    LET row == CancelStale[t]
    IN /\ Input(priority)
       /\ row.status = "queued" /\ ~row.resting
       /\ row.priority # priority \/ row.source # "none"
       /\ wf' = [CancelStale EXCEPT ![t].priority = priority,
                                     ![t].version = @ + 1,
                                     ![t].source = IF priority = "normal" THEN "none"
                                                   ELSE "reader"]
       /\ UNCHANGED <<task, changes, timing, pass, begun, now, claims>>

\* The reader, or the task's source, edits, closes or reopens it.
MoveTask(t, status) ==
    /\ Input(status)
    /\ task[t].status \in (IF status = "open" THEN {"open", "done", "dropped"}
                           ELSE {"open"})
    /\ task' = [task EXCEPT ![t] = [status |-> status, version |-> @.version + 1]]
    /\ UNCHANGED <<wf, changes, timing, pass, begun, now, claims>>

NextDay ==
    /\ now' \in {d \in Days : d > now /\ \A e \in Days : e > now => d <= e}
    /\ UNCHANGED <<task, wf, changes, timing, pass, begun, claims, inputs>>

Next ==
    \/ \E j \in DOMAIN pass : Publish(j) \/ Look(j) \/ ApplyNext(j) \/ BreakOff(j)
                       \/ RecordTiming(j)
    \/ ClaimCard \/ Claim \/ NextDay
    \/ \E i \in DOMAIN changes : \/ CompleteDelivery(i) \/ FailDelivery(i)
                                 \/ Keep(i) \/ Undo(i)
                                 \/ UndoRefused(i)
    \/ \E t \in Tasks : \/ RestEnds(t) \/ Reschedule(t)
                        \/ \E how \in Ends : EndPass(t, how)
                        \/ \E p \in {"raised", "normal", "lowered"} :
                             SetPriority(t, p)
                        \/ \E s \in {"open", "done", "dropped"} : MoveTask(t, s)

Spec == Init /\ [][Next]_vars

-----------------------------------------------------------------------------
(* Properties *)

\* No chain of conditions leads back to where it started, and none is longer
\* than MAX_DEPENDENCY_DEPTH, however tasks are dropped and reopened between
\* the recommendations: _dependency_refusal looks at every condition that can
\* come into force again.
NoWaitingInCircles ==
    LET next == [t \in Tasks |-> Waits(changes, t)]
    IN ~Circular(next) /\ ~TooDeep(next)

\* While an agent is at work no condition holds its task: apply and the claim
\* exclude each other although the version is read in another transaction.
RunningIsFree ==
    \A t \in Tasks : wf[t].status = "running" => LiveOn(changes, t) = {}

\* Advice and its undoing yield to what others did: no workflow whose place
\* the reader chose is touched, and no prerequisite is dropped that an agent
\* has ever begun.
Automated(i) == \/ i \notin DOMAIN changes
                \/ changes[i].state = "active" /\ changes'[i].state = "undone"

Yields ==
    (\E i \in DOMAIN changes' : Automated(i)) =>
      \A t \in Tasks :
        /\ wf[t].source = "reader" => wf'[t] = wf[t]
        /\ t \in begun => task'[t] = task[t]

AutomationYields == [][Yields]_vars

\* The date a task is queued by is the earliest that any chain of open tasks
\* waiting for it asks for, each less the effort of the tasks it comes through.
\* What a task is asked by a date is asked of those it waits for before it.
AskedBefore(next, a) ==
    {[task |-> t, date |-> a.date - Effort(a.task)] :
       t \in {u \in Tasks : /\ a.task \in next[u]
                           /\ task[a.task].status = "open" /\ a.date # Never}}

\* What is asked of tasks through chains of less than as many as there are.
Asked ==
    LET next == Dependants
        asked[k \in Nat] ==
          IF k = 0 THEN {[task |-> t, date |-> DueDate(t)] : t \in Tasks}
          ELSE UNION {AskedBefore(next, a) : a \in asked[k - 1]}
    IN UNION {asked[k] : k \in 0..(Cardinality(Tasks) - 1)}

DeadlinesReach ==
    LET dates == Effective
        asked == Asked
    IN \A t \in Tasks :
         dates[t] = Least({a.date : a \in {b \in asked : b.task = t}})
=============================================================================
