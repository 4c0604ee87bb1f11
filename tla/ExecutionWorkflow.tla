-------------------------- MODULE ExecutionWorkflow --------------------------
(***************************************************************************)
(* Foxhound's execution ledger: TaskExecutionService over one SQLite       *)
(* database (src/foxhound/task_execution.py).                              *)
(*                                                                         *)
(* Every public method runs in one BEGIN IMMEDIATE transaction, so every   *)
(* method is one action here, with everything the method does on the way   *)
(* (_cancel_stale, _recover_expired, request_pending_research, the scan of *)
(* the queue) inside it.  A call the service refuses rolls back and is not *)
(* a step.  Interleaving is between transactions: hosts that claim, agents *)
(* that answer late or never, a reader, the source feed that revises and   *)
(* withdraws tasks, and the clock.                                         *)
(***************************************************************************)
EXTENDS WorkflowRules

CONSTANTS
    Tasks,
    SlotCap,            \* execution_slot_cap
    PlanCap,            \* plan_ready_cap
    ReaderCap,          \* awaiting_reader_cap
    ScanLimit,          \* MAX_CLAIM_SCAN
    Tier,               \* [Tasks -> Nat]: _SOURCE_QUEUE_ORDER_SQL
    PlanGranted,        \* tasks whose _initial_status is 'queued' at start
    ExecuteGranted,     \* execution_grants at start
    ActionGranted,      \* action_grants at start
    SkipPlan,           \* skip_planning_for
    Researched,         \* research_before_planning
    Disputable,         \* researched tasks whose report may dispute the owner
    Forge,              \* tasks of kind issue or review_request
    ReviewRequests,     \* tasks of kind review_request
    Unresearchable,     \* researched tasks whose request is always refused
    Conditional,        \* tasks that start with an unmet condition
    Losable,            \* tasks whose pinned profile may be uninstalled
    Allowlists,         \* the allowed_phases a runner may claim with
    InputKinds,         \* bound: which inputs this instance exercises
    Answers,            \* contents a worker may put in a result
    MaxClaims,          \* bound: claims ever issued
    MaxInputs,          \* bound: reader, operator and source inputs
    MaxFaults           \* bound: failed attempts and expired leases

ASSUME TasksAssumption == IsFiniteSet(Tasks)
ASSUME BoundsAssumption ==
    {SlotCap, PlanCap, ReaderCap, ScanLimit, MaxClaims, MaxInputs, MaxFaults}
      \subseteq Nat
ASSUME TierAssumption == Tier \in [Tasks -> Nat]
ASSUME PolicyAssumption ==
    /\ {PlanGranted, ExecuteGranted, ActionGranted, SkipPlan, Researched,
        Disputable, Forge, ReviewRequests, Unresearchable, Conditional,
        Losable} \subseteq SUBSET Tasks
    /\ SkipPlan \subseteq PlanGranted \cap ExecuteGranted
    /\ SkipPlan \cap Researched = {}
    /\ ReviewRequests \subseteq Forge
ASSUME AllowlistsAssumption == Allowlists \subseteq SUBSET Phases

ClaimIds == 1..MaxClaims

VARIABLES
    task,       \* the tasks row, with its source lifecycle and research
    wf,         \* the execution ledger, one row per task
    claims,     \* what each claim handed to its agent
    fate,       \* how each claim ended
    results,    \* task_execution_results
    grants,     \* the grants the running configuration gives
    inputs,     \* inputs left
    faults      \* faults left

vars == <<task, wf, claims, fate, results, grants, inputs, faults>>

Withdrawals == {"current", "preserved_open", "reader_conflict",
                "closed_by_source"}
ResearchStates == {"none", "active", "overdue", "agrees", "disputes", "ended"}
Fates == {"unissued", "live", "recorded", "released", "failed", "expired",
          "cancelled", "preempted"}

TaskRows ==
    [status : {"open", "done", "dropped"}, version : Nat,
     bound : Nat,       \* task_version of its task_candidate_lifecycle row
     source : Withdrawals, reopened : Nat, research : ResearchStates,
     review : {"none", "pending", "decided"}, owner_pinned : BOOLEAN,
     blocked : BOOLEAN]

ClaimRows == [task : Tasks, version : Nat, task_version : Nat, phase : Phases]
NoClaimRow == [version |-> 0]

ResultRows == [claim : ClaimIds, outcome : Outcomes, answer : Answers,
               cycle : Nat]

GrantRows == [plan : SUBSET Tasks, execute : SUBSET Tasks, act : SUBSET Tasks]

TypeOK ==
    /\ task \in [Tasks -> TaskRows]
    /\ wf \in [Tasks -> Rows]
    /\ claims \in [ClaimIds -> ClaimRows \cup {NoClaimRow}]
    /\ fate \in [ClaimIds -> Fates]
    /\ results \subseteq ResultRows
    /\ grants \in GrantRows
    /\ inputs \in 0..MaxInputs
    /\ faults \in 0..MaxFaults

Init ==
    /\ task = [t \in Tasks |->
                 [status |-> "open", version |-> 1, bound |-> 1, source |-> "current",
                  reopened |-> 0, research |-> "none", review |-> "none",
                  owner_pinned |-> FALSE, blocked |-> t \in Conditional]]
    /\ wf = [t \in Tasks |-> NoRow]
    /\ claims = [k \in ClaimIds |-> NoClaimRow]
    /\ fate = [k \in ClaimIds |-> "unissued"]
    /\ results = {}
    /\ grants = [plan |-> PlanGranted, execute |-> ExecuteGranted,
                 act |-> ActionGranted]
    /\ inputs = MaxInputs
    /\ faults = MaxFaults

-----------------------------------------------------------------------------
(* Guards and queries shared by the operations *)

\* The task is open and still at the version the row was scheduled for.
Current(tasks, rows, t) ==
    /\ tasks[t].status = "open"
    /\ tasks[t].version = rows[t].task_version

Preserved(tasks, t) == tasks[t].source = "preserved_open"

Stale(tasks, rows) ==
    {t \in Tasks : /\ rows[t].status \notin Terminal \cup {"absent"}
                   /\ ~Current(tasks, rows, t) \/ Preserved(tasks, t)}

CancelStale(tasks, rows) ==
    LET stale == Stale(tasks, rows)
    IN [t \in Tasks |-> IF t \in stale THEN Cancelled(rows[t]) ELSE rows[t]]

\* Mutant: an expired lease is left to its holder.
ExpiredNever(rows) == {}

Expired(rows) == {t \in Tasks : rows[t].status = "running" /\ rows[t].timer = 0}

RecoverExpired(rows) ==
    LET expired == Expired(rows)
    IN [t \in Tasks |-> IF t \in expired THEN Deferred(rows[t], "other")
                        ELSE rows[t]]

Running(rows) == {t \in Tasks : rows[t].status = "running"}

InitialStatus(t) == IF t \in grants.plan THEN "queued" ELSE "awaiting_start"
InitialPhase(t)  == IF t \in SkipPlan THEN "execute" ELSE "plan"

Advance(t, phase, outcome) ==
    GrantedAdvance(phase, outcome, t \in grants.execute, t \in grants.act)

\* The claims that the rows of a set of tasks hold.
ClaimsOf(rows, S) == {rows[t].claim : t \in S}

Settle(ks, how) == [k \in ClaimIds |-> IF k \in ks THEN how ELSE fate[k]]

\* A new task version: research and ownership proposals are kept per version.
NextVersion(row) ==
    [row EXCEPT !.version = @ + 1, !.research = "none", !.review = "none"]

Bound(row) == [row EXCEPT !.bound = row.version]

\* The forge closed the source, and that answers the task.
ClosedBySource(row, action) ==
    Bound([NextVersion(row) EXCEPT
             !.status = IF action = "done" THEN "done" ELSE "dropped",
             !.source = "closed_by_source"])

\* _close_for_forge_source and _apply_review_lifecycle_action on the row.
ClosedRow(row, version, action) ==
    IF row.status \in Terminal \cup {"absent"} THEN row
    ELSE LifecycleClosed(row, version, action)

Input(kind) == kind \in InputKinds /\ inputs > 0 /\ inputs' = inputs - 1

-----------------------------------------------------------------------------
(* schedule_new: one pass of the scheduler                                 *)

\* Mutant: a workflow that was cancelled with its task version is final.
EligibleOnce(tasks, rows) ==
    {t \in Tasks :
       /\ tasks[t].status = "open"
       /\ ~Preserved(tasks, t)
       /\ \/ rows[t].status = "absent"
          \/ /\ rows[t].task_version # tasks[t].version
             /\ tasks[t].reopened > rows[t].task_version}

\* Tasks with no workflow for their present version that may have one.
Eligible(tasks, rows) ==
    {t \in Tasks :
       /\ tasks[t].status = "open"
       /\ ~Preserved(tasks, t)
       /\ \/ rows[t].status = "absent"
          \/ /\ rows[t].task_version # tasks[t].version
             /\ \/ tasks[t].reopened > rows[t].task_version
                \/ t \in ReviewRequests
                \/ /\ rows[t].status = "cancelled"
                   /\ ~rows[t].updated_now
                   /\ rows[t].last_event = "cancelled"
                   /\ rows[t].scheduled_for # tasks[t].version}

\* Gates an automatic grant now covers: start gates, then review gates.
Promotable(rows) ==
    {t \in Tasks : /\ rows[t].status = "awaiting_start"
                   /\ rows[t].phase = "plan"
                   /\ Current(task, rows, t)
                   /\ task[t].review # "pending"
                   /\ ~Preserved(task, t)
                   /\ InitialStatus(t) = "queued"}

Advanceable(rows) ==
    {t \in Tasks : /\ rows[t].status = "awaiting_review"
                   /\ Current(task, rows, t)
                   /\ ~Preserved(task, t)
                   /\ Advance(t, rows[t].phase, rows[t].last_outcome)
                        # rows[t].phase}

\* Mutant: only what was never scheduled is closed.
AbandonedUnscheduled(rows) ==
    {t \in Forge : /\ task[t].source = "reader_conflict"
                   /\ rows[t].status = "absent"}

\* Forge tasks withdrawn during a pass that has ended since.
Abandoned(rows) ==
    {t \in Forge : /\ task[t].status = "open"
                   /\ task[t].source = "reader_conflict"
                   /\ rows[t].status # "running"}

ReadyPlans(rows) ==
    {t \in Tasks : /\ rows[t].status = "queued"
                   /\ rows[t].phase = "plan"
                   /\ rows[t].timer = 0}

AwaitingReader(rows) ==
    {t \in Tasks : /\ task[t].status = "open"
                   /\ rows[t].status \in {"awaiting_start", "awaiting_review",
                                          "completed"}}

Room(cap, used) == IF Cardinality(used) < cap THEN cap - Cardinality(used)
                   ELSE 0

\* S takes from class, in queue order, as many tasks as there is room for.
Fills(S, class, room) ==
    /\ Cardinality(S \cap class) = IF Cardinality(class) < room
                                   THEN Cardinality(class) ELSE room
    /\ \A a \in S \cap class, b \in class \ S : Tier[a] <= Tier[b]

ScheduleNew ==
    LET fresh    == CancelStale(task, wf)
        promoted == Promotable(fresh)
        advanced == Advanceable(fresh)
        opened   == [t \in Tasks |->
                       IF t \in promoted THEN Promoted(fresh[t])
                       ELSE IF t \in advanced
                       THEN GateGranted(fresh[t], Advance(t, fresh[t].phase,
                                                     fresh[t].last_outcome))
                       ELSE fresh[t]]
        closing  == Abandoned(opened)
        tasks    == [t \in Tasks |-> IF t \in closing
                                     THEN ClosedBySource(task[t], "done")
                                     ELSE task[t]]
        rows     == [t \in Tasks |->
                       IF t \in closing
                       THEN ClosedRow(opened[t], tasks[t].version, "done")
                       ELSE opened[t]]
        eligible == Eligible(tasks, rows)
        plans    == {t \in eligible : /\ InitialStatus(t) = "queued"
                                      /\ InitialPhase(t) = "plan"}
        asking   == {t \in eligible : InitialStatus(t) = "awaiting_start"}
    IN \E S \in SUBSET eligible :
         /\ Fills(S, plans, Room(PlanCap, ReadyPlans(fresh)))
         /\ Fills(S, asking, Room(ReaderCap, AwaitingReader(fresh)))
         /\ eligible \ (plans \cup asking) \subseteq S
         /\ task' = tasks
         /\ wf' = [t \in Tasks |->
                     IF t \in S
                     THEN Scheduled(rows[t], tasks[t].version,
                                    InitialStatus(t), InitialPhase(t))
                     ELSE rows[t]]
         /\ fate' = Settle(ClaimsOf(wf, Stale(task, wf)), "cancelled")
         /\ UNCHANGED <<claims, results, grants, inputs, faults>>

\* schedule: one task, on request, whatever the caps say.
Schedule(t) ==
    /\ Input("schedule")
    /\ task[t].status = "open"
    /\ ~Preserved(task, t)
    /\ \/ wf[t].task_version # task[t].version
       \/ wf[t].status \in Terminal \cup {"parked"}
    /\ wf' = [wf EXCEPT ![t] = Scheduled(@, task[t].version, InitialStatus(t),
                                         InitialPhase(t))]
    /\ fate' = Settle({wf[t].claim}, "cancelled")
    /\ UNCHANGED <<task, claims, results, grants, faults>>
-----------------------------------------------------------------------------
(* claim_next: one pass of one runner                                      *)

Rank == [raised |-> 0, normal |-> 1, lowered |-> 2]

Ahead(rows, a, b) ==
    \/ Tier[a] < Tier[b]
    \/ /\ Tier[a] = Tier[b]
       /\ Rank[rows[a].queue_priority] < Rank[rows[b].queue_priority]

\* Mutant: parked rows are never retried.
ClaimableQueued(rows, phases) ==
    {t \in Tasks : /\ rows[t].status = "queued"
                   /\ rows[t].timer = 0
                   /\ rows[t].phase \in phases
                   /\ Current(task, rows, t)}

Claimable(rows, phases) ==
    {t \in Tasks : /\ rows[t].status \in {"queued", "parked"}
                   /\ rows[t].timer = 0
                   /\ rows[t].phase \in phases
                   /\ Current(task, rows, t)}

\* Plans whose research is requested on the way, slots free or not.
Unrequested(rows) ==
    {t \in Researched \ Unresearchable :
       /\ rows[t].status \in {"queued", "parked"}
       /\ rows[t].phase = "plan"
       /\ Current(task, rows, t)
       /\ task[t].research = "none"}

Gated(rows, t) == rows[t].phase = "plan" /\ t \in Researched

\* The research report is in and names another owner, undecided so far.
Contested(tasks, t) ==
    /\ tasks[t].research = "disputes"
    /\ tasks[t].review = "none"
    /\ ~tasks[t].owner_pinned

\* Mutant: an ownership proposal under review holds nothing.
WaitsForResearch(tasks, rows, t) ==
    tasks[t].blocked \/ (Gated(rows, t) /\ tasks[t].research = "active")

\* Held without a trace: an unmet condition, research on its way, a reader
\* who has not answered an ownership proposal.
Waits(tasks, rows, t) ==
    \/ tasks[t].blocked
    \/ /\ Gated(rows, t)
       /\ \/ tasks[t].research = "active"
          \/ /\ tasks[t].research \in {"agrees", "disputes"}
             /\ tasks[t].review = "pending"

\* What the scan does with one candidate.
Verdict(tasks, rows, t) ==
    CASE Waits(tasks, rows, t) -> "pass over"
      [] ~Waits(tasks, rows, t) /\ Gated(rows, t) /\ Contested(tasks, t) ->
           "hold"
      [] OTHER -> IF rows[t].resolvable THEN "claim" ELSE "defer"

\* The scan looks at seen, a prefix of the queue no longer than ScanLimit.
Scans(rows, queue, seen) ==
    /\ Cardinality(seen) <= ScanLimit
    /\ \A s \in seen, q \in queue \ seen : ~Ahead(rows, q, s)

\* Everything before the slot check, committed whatever follows.
SweptRows == RecoverExpired(CancelStale(task, wf))

SweptFate ==
    LET cancelled == ClaimsOf(wf, Stale(task, wf))
        expired   == ClaimsOf(wf, Expired(CancelStale(task, wf)))
    IN [k \in ClaimIds |-> IF k \in cancelled THEN "cancelled"
                           ELSE IF k \in expired THEN "expired"
                           ELSE fate[k]]

SweptTasks(rows) ==
    LET requested == Unrequested(rows)
    IN [t \in Tasks |-> IF t \in requested
                        THEN [task[t] EXCEPT !.research = "active"]
                        ELSE task[t]]

SlotFree(rows) ==
    Cardinality({t \in Running(rows) : Current(task, rows, t)}) < SlotCap

With(tasks, rows, passed, verdict) ==
    {t \in passed : Verdict(tasks, rows, t) = verdict}

\* What the scan leaves on the candidates it passed over.  Holding a parked
\* row breaks the CHECK that ties parked_at to that status, and the whole
\* transaction rolls back: no step passes over such a row.
PassesOver(tasks, rows, passed) ==
    /\ With(tasks, rows, passed, "claim") = {}
    /\ \A t \in With(tasks, rows, passed, "hold") : rows[t].status = "queued"
    /\ task' = [t \in Tasks |->
                  IF t \in With(tasks, rows, passed, "hold")
                  THEN [tasks[t] EXCEPT !.review = "pending"]
                  ELSE tasks[t]]
    /\ LET deferred == Cardinality(With(tasks, rows, passed, "defer"))
       IN deferred <= faults /\ faults' = faults - deferred

PassedRows(tasks, rows, passed) ==
    LET held     == With(tasks, rows, passed, "hold")
        deferred == With(tasks, rows, passed, "defer")
    IN [t \in Tasks |-> IF t \in held THEN HeldForOwner(rows[t])
                        ELSE IF t \in deferred THEN Deferred(rows[t], "other")
                        ELSE rows[t]]

NextClaim(k) == /\ fate[k] = "unissued"
                /\ \A j \in ClaimIds : j < k => fate[j] # "unissued"

SlotsBusy ==
    LET rows == SweptRows
    IN /\ ~SlotFree(rows)
       /\ wf' = rows
       /\ task' = SweptTasks(rows)
       /\ fate' = SweptFate
       /\ UNCHANGED <<claims, results, grants, inputs, faults>>

NothingToClaim(phases) ==
    LET rows  == SweptRows
        tasks == SweptTasks(rows)
        queue == Claimable(rows, phases)
    IN /\ SlotFree(rows)
       /\ \E passed \in SUBSET queue :
            /\ Scans(rows, queue, passed)
            /\ Cardinality(passed) = ScanLimit \/ passed = queue
            /\ PassesOver(tasks, rows, passed)
            /\ wf' = PassedRows(tasks, rows, passed)
       /\ fate' = SweptFate
       /\ UNCHANGED <<claims, results, grants, inputs>>

Claim(phases, t, k) ==
    LET rows  == SweptRows
        tasks == SweptTasks(rows)
        queue == Claimable(rows, phases)
    IN /\ NextClaim(k)
       /\ SlotFree(rows)
       /\ t \in queue
       /\ Verdict(tasks, rows, t) = "claim"
       /\ \E passed \in SUBSET (queue \ {t}) :
            /\ Scans(rows, queue, passed \cup {t})
            /\ \A p \in passed : ~Ahead(rows, t, p)
            /\ PassesOver(tasks, rows, passed)
            /\ wf' = [PassedRows(tasks, rows, passed) EXCEPT
                        ![t] = Claimed(@, k)]
       /\ claims' = [claims EXCEPT ![k] =
                       [task |-> t, version |-> rows[t].version + 1,
                        task_version |-> rows[t].task_version,
                        phase |-> rows[t].phase]]
       /\ fate' = [SweptFate EXCEPT ![k] = "live"]
       /\ UNCHANGED <<results, grants, inputs>>

ClaimNext == \/ SlotsBusy
             \/ \E phases \in Allowlists :
                  \/ NothingToClaim(phases)
                  \/ \E t \in Tasks, k \in ClaimIds : Claim(phases, t, k)

-----------------------------------------------------------------------------
(* The agent that holds a claim                                            *)

\* _running_guard and _task_guard: the capability k still opens row t.
Accepts(t, k) ==
    /\ fate[k] # "unissued"
    /\ claims[k].task = t
    /\ wf[t].status = "running"
    /\ wf[t].version = claims[k].version
    /\ wf[t].claim = k
    /\ wf[t].timer > 0
    /\ Current(task, wf, t)

Renew(t, k) ==
    /\ Accepts(t, k)
    /\ wf' = [wf EXCEPT ![t] =
                Logged([@ EXCEPT !.timer = LeaseTime, !.updated_now = TRUE],
                       "claim_renewed")]
    /\ UNCHANGED <<task, claims, fate, results, grants, inputs, faults>>

Release(t, k) ==
    /\ Accepts(t, k)
    /\ faults > 0
    /\ wf' = [wf EXCEPT ![t] = Released(@)]
    /\ fate' = Settle({k}, "released")
    /\ faults' = faults - 1
    /\ UNCHANGED <<task, claims, results, grants, inputs>>

Fail(t, k, reason) ==
    /\ Accepts(t, k)
    /\ faults > 0
    /\ wf' = [wf EXCEPT ![t] = Deferred(@, reason)]
    /\ fate' = Settle({k}, "failed")
    /\ faults' = faults - 1
    /\ UNCHANGED <<task, claims, results, grants, inputs>>

\* _repeats_an_earlier_answer: the same content for the same phase of the
\* same task version, since the workflow was last scheduled.
Repeats(t, outcome, answer) ==
    \E r \in results :
      /\ claims[r.claim].task = t
      /\ claims[r.claim].task_version = wf[t].task_version
      /\ claims[r.claim].phase = wf[t].phase
      /\ claims[r.claim].version >= wf[t].cycle
      /\ r.outcome = outcome
      /\ r.answer = answer

RecordResult(t, k, outcome, answer) ==
    /\ Accepts(t, k)
    /\ claims[k].task_version = task[t].version
    /\ claims[k].phase = wf[t].phase
    /\ ~Repeats(t, outcome, answer)
    /\ outcome \in PhaseOutcomes[wf[t].phase]
    /\ results' = results \cup {[claim |-> k, outcome |-> outcome,
                                 answer |-> answer, cycle |-> wf[t].cycle]}
    /\ wf' = [wf EXCEPT ![t] =
                Recorded(@, k, outcome, Advance(t, @.phase, outcome))]
    /\ fate' = Settle({k}, "recorded")
    /\ UNCHANGED <<task, claims, grants, inputs, faults>>

-----------------------------------------------------------------------------
(* The reader and the operator                                             *)

StartAction(t, action) ==
    /\ Input("reader")
    /\ wf[t].status \in {"awaiting_start", "snoozed", "parked"}
    /\ Current(task, wf, t)
    /\ action = "start" /\ wf[t].status = "snoozed" => wf[t].timer = 0
    /\ wf' = [wf EXCEPT ![t] = Started(@, action)]
    /\ task' = IF action = "start" /\ task[t].review = "pending"
               THEN [task EXCEPT ![t].review = "decided",
                                 ![t].owner_pinned = TRUE]
               ELSE task
    /\ UNCHANGED <<claims, fate, results, grants, faults>>

ReviewAction(t, action) ==
    /\ Input("reader")
    /\ wf[t].status \in {"awaiting_review", "snoozed"}
                          \cup (IF action = "snooze" THEN {"completed"} ELSE {})
    /\ Current(task, wf, t)
    /\ wf[t].status = "snoozed" => wf[t].timer = 0
    /\ wf[t].last_outcome # "none"
    /\ action = "approve" => wf[t].last_outcome \in DOMAIN GateOpens
    /\ wf' = [wf EXCEPT ![t] = Reviewed(@, action)]
    /\ UNCHANGED <<task, claims, fate, results, grants, faults>>

\* The reader ends task and workflow together, from a card or in bulk.
LifecycleAction(t, action) ==
    /\ Input("lifecycle")
    /\ task[t].status = "open"
    /\ wf[t].status # "absent"
    /\ action = "done" => /\ Current(task, wf, t)
                          /\ wf[t].status \in {"awaiting_start", "snoozed",
                                               "parked", "awaiting_review"}
    /\ task' = [task EXCEPT ![t] =
                  [NextVersion(@) EXCEPT
                     !.status = IF action = "done" THEN "done" ELSE "dropped"]]
    /\ wf' = [wf EXCEPT ![t] = LifecycleClosed(@, task[t].version + 1, action)]
    /\ fate' = Settle({wf[t].claim}, "cancelled")
    /\ UNCHANGED <<claims, results, grants, faults>>

Steer(t) ==
    /\ Input("steer")
    /\ wf[t].status = "running"
    /\ Current(task, wf, t)
    /\ wf' = [wf EXCEPT ![t] = Steered(@)]
    /\ fate' = Settle({wf[t].claim}, "preempted")
    /\ UNCHANGED <<task, claims, results, grants, faults>>

\* submit_input: a note, or another owner, on the card of a gate.
OnCard(t) == /\ \/ wf[t].status \in {"awaiting_start", "parked",
                                       "awaiting_review"}
                \/ wf[t].status = "snoozed" /\ wf[t].timer = 0
             /\ Current(task, wf, t)

Discuss(t) ==
    /\ Input("discuss")
    /\ OnCard(t)
    /\ wf' = [wf EXCEPT ![t] = Discussed(@)]
    /\ UNCHANGED <<task, claims, fate, results, grants, faults>>

Reassign(t) ==
    /\ Input("reassign")
    /\ OnCard(t)
    /\ task' = [task EXCEPT ![t] = [NextVersion(@) EXCEPT
                                      !.owner_pinned = TRUE]]
    /\ wf' = [wf EXCEPT ![t] = Reassigned(@, task[t].version + 1)]
    /\ UNCHANGED <<claims, fate, results, grants, faults>>

Retry(t) ==
    /\ Input("reader")
    /\ wf[t].status \in {"queued", "parked"}
    /\ Current(task, wf, t)
    /\ wf' = [wf EXCEPT ![t] = Retried(@)]
    /\ UNCHANGED <<task, claims, fate, results, grants, faults>>

SetPriority(t, priority) ==
    LET rows == CancelStale(task, wf)
    IN /\ Input("priority")
       /\ rows[t].status = "queued"
       /\ rows[t].timer = 0
       /\ Current(task, rows, t)
       /\ ~(priority = "normal" /\ rows[t].queue_priority = "normal")
       /\ wf' = [rows EXCEPT ![t] = Prioritised(@, priority)]
       /\ fate' = Settle(ClaimsOf(wf, Stale(task, wf)), "cancelled")
       /\ UNCHANGED <<task, claims, results, grants, faults>>

\* The catalog is rewritten without the revision a row is pinned to, ...
LoseProfile(t) ==
    /\ Input("profile")
    /\ t \in Losable
    /\ wf[t].status \notin Terminal \cup {"absent"}
    /\ wf[t].resolvable
    /\ wf' = [wf EXCEPT ![t].resolvable = FALSE]
    /\ UNCHANGED <<task, claims, fate, results, grants, faults>>

\* ... and the row adopts the installed one.
Adopt(t) ==
    /\ Input("profile")
    /\ wf[t].status \notin Terminal \cup {"absent", "running"}
    /\ ~wf[t].resolvable
    /\ Current(task, wf, t)
    /\ wf' = [wf EXCEPT ![t] = Adopted(@)]
    /\ UNCHANGED <<task, claims, fate, results, grants, faults>>

\* The service restarts under another configuration.
Reconfigure(t, gate) ==
    /\ Input("reconfigure")
    /\ grants' = [grants EXCEPT ![gate] = IF t \in @ THEN @ \ {t}
                                          ELSE @ \cup {t}]
    /\ SkipPlan \subseteq grants'.plan \cap grants'.execute
    /\ UNCHANGED <<task, wf, claims, fate, results, faults>>

-----------------------------------------------------------------------------
(* The source feed, the rest of Foxhound and the clock                     *)

\* The source revises a task, for the workflow a new task version.
EditTask(t) ==
    /\ Input("edit")
    /\ task[t].status = "open"
    /\ task[t].source = "current"
    /\ task' = [task EXCEPT ![t] = Bound(NextVersion(@))]
    /\ UNCHANGED <<wf, claims, fate, results, grants, faults>>

\* The reader ends or reopens a task in the ledger; the workflow row stays.
CloseTask(t, status) ==
    /\ Input("close")
    /\ task[t].status = "open"
    /\ task' = [task EXCEPT ![t] = [NextVersion(@) EXCEPT !.status = status]]
    /\ UNCHANGED <<wf, claims, fate, results, grants, faults>>

\* The event the scheduler looks for is written when done becomes open.
Reopened(row) ==
    [NextVersion(row) EXCEPT
       !.status = "open",
       !.reopened = IF row.status = "done" THEN row.version + 1 ELSE @]

ReopenTask(t, bySource) ==
    /\ Input("reopen")
    /\ task[t].status # "open"
    /\ bySource => task[t].status = "done" /\ task[t].source = "current"
    /\ task' = [task EXCEPT ![t] = IF bySource THEN Bound(Reopened(@))
                                   ELSE Reopened(@)]
    /\ UNCHANGED <<wf, claims, fate, results, grants, faults>>

\* The source moved past what the ledger holds, or work is under way.
Conflicting(t) ==
    \/ task[t].version # task[t].bound
    \/ wf[t].status \notin Terminal \cup {"absent", "awaiting_start"}

\* Mutant: a forge item that closes takes its running pass with it.
SourceWithdrawsMidPass(t, action) ==
    /\ Input("withdraw")
    /\ t \in Forge
    /\ task[t].source = "current"
    /\ task[t].status = "open"
    /\ task' = [task EXCEPT ![t] = ClosedBySource(@, action)]
    /\ wf' = [wf EXCEPT ![t] = ClosedRow(@, task[t].version + 1, action)]
    /\ UNCHANGED <<claims, fate, results, grants, faults>>

SourceWithdraws(t, action) ==
    /\ Input("withdraw")
    /\ task[t].source = "current"
    /\ LET closes    == /\ t \in Forge
                        /\ task[t].status = "open"
                        /\ wf[t].status # "running"
           preserves == task[t].status = "open" /\ ~Conflicting(t)
           closed    == ClosedBySource(task[t], action)
       IN /\ task' = [task EXCEPT ![t] =
                        IF closes THEN closed
                        ELSE IF preserves
                        THEN [Bound(NextVersion(@)) EXCEPT
                                !.source = "preserved_open"]
                        ELSE [Bound(@) EXCEPT !.source = "reader_conflict"]]
          /\ wf' = IF closes
                   THEN [wf EXCEPT ![t] = ClosedRow(@, closed.version, action)]
                   ELSE wf
    /\ UNCHANGED <<claims, fate, results, grants, faults>>

\* The source emits the item again; a done task is open once more.
SourceReturns(t) ==
    /\ Input("return")
    /\ task[t].source # "current"
    /\ task' = [task EXCEPT ![t] =
                  IF \/ task[t].source = "reader_conflict"
                     \/ task[t].status = "dropped"
                     \/ Conflicting(t)
                  THEN [Bound(@) EXCEPT !.source = "current"]
                  ELSE [Bound(NextVersion(@)) EXCEPT !.status = "open",
                                                     !.source = "current"]]
    /\ UNCHANGED <<wf, claims, fate, results, grants, faults>>

ConditionMet(t) ==
    /\ task[t].blocked
    /\ task' = [task EXCEPT ![t].blocked = FALSE]
    /\ UNCHANGED <<wf, claims, fate, results, grants, inputs, faults>>

\* Research outlives the wait it is given, reports, or ends without a report.
ResearchMoves(t, to) ==
    /\ \/ task[t].research = "active"
       \/ task[t].research = "overdue" /\ to # "overdue"
    /\ to = "disputes" => t \in Disputable
    /\ task' = [task EXCEPT ![t].research = to]
    /\ UNCHANGED <<wf, claims, fate, results, grants, inputs, faults>>

\* A lease may run out only while the fault budget lasts.
Tick ==
    LET ending == {t \in Running(wf) : wf[t].timer = 1}
    IN /\ Cardinality(ending) <= faults
       /\ faults' = faults - Cardinality(ending)
       /\ wf' = [t \in Tasks |-> Aged(wf[t])]
       /\ UNCHANGED <<task, claims, fate, results, grants, inputs>>

-----------------------------------------------------------------------------
Work(t, k) ==
    \/ Renew(t, k)
    \/ Release(t, k)
    \/ \E reason \in FailureReasons : Fail(t, k, reason)
    \/ \E outcome \in Outcomes, answer \in Answers :
         RecordResult(t, k, outcome, answer)

ReaderStep(t) ==
    \/ \E action \in StartActions : StartAction(t, action)
    \/ \E action \in ReviewActions : ReviewAction(t, action)
    \/ \E action \in {"done", "drop"} : LifecycleAction(t, action)
    \/ Steer(t) \/ Discuss(t) \/ Reassign(t) \/ Retry(t)
    \/ \E priority \in DOMAIN Rank : SetPriority(t, priority)

OperatorStep(t) ==
    \/ Schedule(t)
    \/ LoseProfile(t)
    \/ Adopt(t)
    \/ \E gate \in DOMAIN grants : Reconfigure(t, gate)

SourceStep(t) ==
    \/ EditTask(t)
    \/ \E status \in {"done", "dropped"} : CloseTask(t, status)
    \/ \E bySource \in BOOLEAN : ReopenTask(t, bySource)
    \/ \E action \in {"done", "drop"} : SourceWithdraws(t, action)
    \/ SourceReturns(t)
    \/ ConditionMet(t)
    \/ \E to \in {"overdue", "agrees", "disputes", "ended"} :
         ResearchMoves(t, to)

Next ==
    \/ ScheduleNew
    \/ ClaimNext
    \/ Tick
    \/ \E t \in Tasks, k \in ClaimIds : Work(t, k)
    \/ \E t \in Tasks : ReaderStep(t) \/ OperatorStep(t) \/ SourceStep(t)

Spec == Init /\ [][Next]_vars

(* The scheduler and the runner are driven by timers, time passes, an      *)
(* agent ends its pass with a result unless it fails first, research ends. *)
Answer(k) == \E t \in Tasks, outcome \in Outcomes, answer \in Answers :
               RecordResult(t, k, outcome, answer)

ResearchEnds(t) == \E to \in {"agrees", "disputes", "ended"} :
                     ResearchMoves(t, to)

Fairness ==
    /\ WF_vars(ScheduleNew)
    /\ WF_vars(ClaimNext)
    /\ WF_vars(Tick)
    /\ \A k \in ClaimIds : WF_vars(Answer(k))
    /\ \A t \in Tasks : WF_vars(ResearchEnds(t))

FairSpec == Spec /\ Fairness

-----------------------------------------------------------------------------
(* Safety                                                                  *)

Live == {k \in ClaimIds : fate[k] = "live"}

\* claim_next never lets more than execution_slot_cap agents run, whatever is
\* cancelled, recovered or deferred on the way to the claim.
SlotCapHeld == Cardinality(Live) <= SlotCap

\* The agents that still believe in their claim are exactly those a running
\* row names, at the version, task version and phase they were handed: no row
\* forgets its agent, no two agents share a row, and no settled claim can be
\* used again however late its holder answers.
ClaimMatchesRow ==
    /\ \A k \in Live :
         /\ wf[claims[k].task].claim = k
         /\ wf[claims[k].task].version = claims[k].version
         /\ wf[claims[k].task].task_version = claims[k].task_version
         /\ wf[claims[k].task].phase = claims[k].phase
    /\ \A t \in Tasks : wf[t].status = "running" <=> wf[t].claim \in Live

\* A row that works beyond its plan got there through a gate: the phase was
\* approved or granted since the plan, and the result the row still carries
\* asked for it or was made in it (or the source skips planning).
PhaseIsEarned ==
    \A t \in Tasks :
      wf[t].status \in {"queued", "running", "parked"} /\ wf[t].phase # "plan"
        => /\ wf[t].phase \in wf[t].authority
           /\ \/ wf[t].phase = "execute" /\ t \in SkipPlan
              \/ /\ wf[t].last_outcome \in DOMAIN GateOpens
                 /\ GateOpens[wf[t].last_outcome] = wf[t].phase
              \/ /\ wf[t].last_outcome # "none"
                 /\ claims[wf[t].last_claim].phase = wf[t].phase

\* The result a reader is asked about was made for the task as the row has it.
ReviewedResultIsCurrent ==
    \A t \in Tasks :
      wf[t].status \in {"awaiting_review", "snoozed", "queued", "running",
                        "parked", "awaiting_start"}
        /\ wf[t].last_outcome # "none"
        => /\ fate[wf[t].last_claim] = "recorded"
           /\ claims[wf[t].last_claim].task = t
           /\ claims[wf[t].last_claim].task_version = wf[t].task_version

\* A row that may still be claimed without the reader has attempts left.
BoundedAttempts ==
    \A t \in Tasks : wf[t].status \in {"queued", "running"}
                       => wf[t].failure_count < MaxAttempts

\* One result per claim, from a claim that ended by recording it, and no
\* answer is accepted twice in one cycle of one phase of one task version.
ResultsAreAnswers ==
    /\ \A r \in results : fate[r.claim] = "recorded"
    /\ \A r, s \in results :
         r # s =>
           /\ r.claim # s.claim
           /\ \/ claims[r.claim].task # claims[s.claim].task
              \/ claims[r.claim].task_version # claims[s.claim].task_version
              \/ claims[r.claim].phase # claims[s.claim].phase
              \/ <<r.outcome, r.answer>> # <<s.outcome, s.answer>>
              \/ r.cycle # s.cycle

\* An undecided ownership proposal of the present task version is never
\* planned over, wherever the reader has sent the row meanwhile.
OwnerIsDecidedFirst ==
    \A t \in Tasks :
      task[t].review = "pending" /\ Current(task, wf, t)
        => ~(wf[t].status = "running" /\ wf[t].phase = "plan")

-----------------------------------------------------------------------------
(* What a step may never do                                                *)

\* A settled claim stays as it settled; every claim is issued once.
SettledOnce ==
    [][\A k \in ClaimIds :
         /\ fate[k] \notin {"unissued", "live"} => fate'[k] = fate[k]
         /\ fate[k] # "unissued" => claims'[k] = claims[k]]_vars

\* Cards, agents and operators name the version they saw.  No row changes
\* its status, phase, claim, task version or result under a version that was
\* seen before, and no version comes back.
FencedByVersion ==
    [][\A t \in Tasks :
         /\ wf'[t].version >= wf[t].version
         /\ wf'[t].version = wf[t].version =>
              /\ wf'[t].status = wf[t].status
              /\ wf'[t].phase = wf[t].phase
              /\ wf'[t].claim = wf[t].claim
              /\ wf'[t].task_version = wf[t].task_version
              /\ wf'[t].last_claim = wf[t].last_claim]_vars

-----------------------------------------------------------------------------
(* What must eventually happen, while faults and inputs are finite         *)

OutOfClaims == \A k \in ClaimIds : fate[k] # "unissued"

Ready(t) == /\ wf[t].status \in {"queued", "parked"}
            /\ wf[t].timer = 0
            /\ Current(task, wf, t)
            /\ ~task[t].blocked

\* No agent holds a claim for ever, however often it renews it: the next pass
\* takes an expired claim back (a pass that would need a claim beyond MaxClaims
\* is outside the model).
EveryClaimSettles ==
    \A k \in ClaimIds :
      fate[k] = "live" ~> \/ fate[k] # "live"
                          \/ OutOfClaims /\ \E t \in Tasks : Ready(t)

\* Work that is ready does not starve behind the queue, the slots, the
\* research gate or a profile that is gone.
ReadyWorkMoves ==
    \A t \in Tasks : Ready(t) ~> (~Ready(t) \/ OutOfClaims)

\* A task revised under its workflow is planned again: the revision costs a
\* re-plan, never the task.
Outdated(t) == /\ task[t].status = "open"
               /\ task[t].source = "current"
               /\ wf[t].task_version # task[t].version

RevisionReplans ==
    \A t \in Tasks : Outdated(t) ~> (~Outdated(t) \/ OutOfClaims)

\* A forge item that closed while a pass was running closes its task once the
\* pass is over, however it ends.
Orphaned(t) == /\ t \in Forge
               /\ task[t].status = "open"
               /\ task[t].source = "reader_conflict"

WithdrawnIsClosed == \A t \in Forge : Orphaned(t) ~> ~Orphaned(t)

-----------------------------------------------------------------------------
(* The ledger as its agents see it: ClaimLedger is implemented by the      *)
(* claim columns of the workflow rows and the results they left.           *)

Ledger == INSTANCE ClaimLedger
            WITH holder   <- [t \in Tasks |-> wf[t].claim],
                 answered <- {r.claim : r \in results}

LedgerSpec == Ledger!Spec

-----------------------------------------------------------------------------
(* What the repository says of the program and the program does not do     *)

\* task_execution.py, claim_next: "One such row then stopped every OTHER queued
\* workflow behind it" is what deferring and moving on is there to prevent.
\* A plan held for its owner must not stop the work behind it.
HeldPlanStopsNobody ==
    \A t \in Tasks \ Researched : Ready(t) ~> (~Ready(t) \/ OutOfClaims)

\* task_execution.py, schedule_new: "A re-surfaced task needs a fresh workflow
\* whatever its source kind."
Resurfaced(t) == /\ task[t].status = "open"
                 /\ task[t].source = "current"
                 /\ wf[t].status = "completed"

ResurfacedIsScheduled ==
    \A t \in Tasks : Resurfaced(t) ~> (~Resurfaced(t) \/ OutOfClaims)

\* task_research_gate.py, evaluate_research_gate: "Waiting for it would be a
\* silent stall, which is the one outcome this gate must not have."  A plan in
\* the queue has no card, so it must not wait for a reader.
SilentlyHeld(t) == /\ wf[t].status = "queued"
                   /\ wf[t].phase = "plan"
                   /\ Current(task, wf, t)
                   /\ task[t].review = "pending"

GateNeverStalls == \A t \in Tasks : SilentlyHeld(t) ~> ~SilentlyHeld(t)
=============================================================================
