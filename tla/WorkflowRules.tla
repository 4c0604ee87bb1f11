---------------------------- MODULE WorkflowRules ----------------------------
(***************************************************************************)
(* One row of Foxhound's execution ledger and what each transaction of     *)
(* TaskExecutionService writes to it (src/foxhound/task_execution.py).     *)
(*                                                                         *)
(* A row is the task_execution_workflows row of one task together with     *)
(* the few facts the service later reads back from the append-only event   *)
(* log of that task.  Every operator below maps a row to the row a single  *)
(* UPDATE leaves behind; guards live with the actions that use them.       *)
(*                                                                         *)
(* Time.  due_at, next_attempt_at and claim_expires_at are never read in   *)
(* the same status, so a row carries one countdown, timer: the time left   *)
(* until the instant its status compares with "now".  0 means the instant  *)
(* has come, Never that the column is NULL on a parked row.                *)
(***************************************************************************)
EXTENDS Integers, FiniteSets

CONSTANTS
    MaxAttempts,    \* _max_attempts: failures that park a workflow
    LeaseTime,      \* claim_lease_seconds of the claiming profile
    RetryDelay,     \* any cooldown shorter than a park
    ParkDelay,      \* PARK_RETRY_INTERVAL
    SnoozeDelay     \* _calendar_snooze_until

ASSUME AttemptsAssumption == MaxAttempts \in Nat \ {0}
ASSUME DelayAssumption ==
    {LeaseTime, RetryDelay, ParkDelay, SnoozeDelay} \subseteq Nat \ {0}

Never   == -1
NoClaim == 0

Phases   == {"plan", "execute", "external_action"}
Statuses == {"awaiting_start", "snoozed", "queued", "running",
             "awaiting_review", "completed", "cancelled", "parked"}
Outcomes == {"awaiting_plan", "awaiting_external", "completed", "declined",
             "ineligible"}
Terminal == {"completed", "cancelled"}

\* Outcomes a worker may record in each phase.
PhaseOutcomes ==
    [plan            |-> {"awaiting_plan", "completed", "ineligible"},
     execute         |-> {"awaiting_external", "completed", "declined",
                          "ineligible"},
     external_action |-> {"completed", "declined", "ineligible"}]

\* The phase that approving a result opens; absent pairs ask for nothing.
GateOpens == [awaiting_plan |-> "execute", awaiting_external |-> "external_action"]

FailureReasons == {"timeout", "budget_handoff", "context_exhausted", "other"}

-----------------------------------------------------------------------------
(* The row of a task that was never scheduled. *)
NoRow ==
    [status |-> "absent", phase |-> "plan", version |-> 0, task_version |-> 0,
     timer |-> 0, failure_count |-> 0, claim |-> NoClaim,
     last_outcome |-> "none", last_claim |-> NoClaim,
     resolvable |-> TRUE,            \* the pinned profile revision is installed
     queue_priority |-> "normal",
     updated_now |-> FALSE,          \* updated_at is this very instant
     \* read back from task_execution_events:
     last_event |-> "other",         \* "cancelled" when that is its last kind
     scheduled_for |-> 0,            \* task_version of its last 'scheduled'
     cycle |-> 0,                    \* workflow_version of its last 'scheduled'
     parks |-> [p \in Phases |-> 0], \* 'parked' since the last answer
     authority |-> {}]               \* phases opened on the way to this one

Rows ==
    [status : Statuses \cup {"absent"}, phase : Phases, version : Nat,
     task_version : Nat, timer : Nat \cup {Never}, failure_count : Nat,
     claim : Nat, last_outcome : Outcomes \cup {"none"}, last_claim : Nat,
     resolvable : BOOLEAN, queue_priority : {"raised", "normal", "lowered"},
     updated_now : BOOLEAN, last_event : {"cancelled", "other"},
     scheduled_for : Nat, cycle : Nat, parks : [Phases -> Nat],
     authority : SUBSET Phases]

-----------------------------------------------------------------------------
(* Appending an event.  The count of unanswered parks saturates at         *)
(* MaxAttempts, above which the service makes no distinction.              *)
AnswerEvents == {"start_approved", "phase_approved", "revision_requested",
                 "discussion_requested", "phase_granted"}

Saturated(n) == IF n < MaxAttempts THEN n + 1 ELSE n

Parks(r, kind) ==
    CASE kind \in AnswerEvents -> [p \in Phases |-> 0]
      [] kind = "parked" ->
           [r.parks EXCEPT ![r.phase] = Saturated(r.parks[r.phase])]
      [] OTHER -> r.parks

\* What has opened the phase a row is in, since its plan.
Authority(r, kind) ==
    CASE r.phase = "plan" -> {}
      [] r.phase # "plan" /\ kind = "scheduled" -> {r.phase}
      [] r.phase # "plan" /\ kind \in {"phase_approved", "phase_granted"} ->
           r.authority \cup {r.phase}
      [] OTHER -> r.authority

Logged(r, kind) ==
    [r EXCEPT
        !.last_event    = IF kind = "cancelled" THEN "cancelled" ELSE "other",
        !.scheduled_for = IF kind = "scheduled" THEN r.task_version ELSE @,
        !.cycle         = IF kind = "scheduled" THEN r.version ELSE @,
        !.parks         = Parks(r, kind),
        !.authority     = Authority(r, kind)]

(* Every status change bumps the version, gives up the claim and stamps    *)
(* updated_at; Restarted also clears the failure columns.                  *)
Moved(r, status) ==
    [r EXCEPT !.status = status, !.version = @ + 1, !.claim = NoClaim,
              !.updated_now = TRUE]

\* Mutant: the optimistic version is not advanced.
RestartedUnversioned(r, status) ==
    [r EXCEPT !.status = status, !.claim = NoClaim, !.updated_now = TRUE,
              !.failure_count = 0, !.timer = 0]

Restarted(r, status) ==
    [Moved(r, status) EXCEPT !.failure_count = 0, !.timer = 0]

-----------------------------------------------------------------------------
(* Scheduling *)
Scheduled(r, taskVersion, status, phase) ==
    Logged([Restarted(r, status) EXCEPT
              !.task_version = taskVersion, !.phase = phase,
              !.last_outcome = "none", !.last_claim = NoClaim,
              !.resolvable = TRUE], "scheduled")

Promoted(r) ==
    Logged([Moved(r, "queued") EXCEPT !.timer = 0, !.resolvable = TRUE],
           "scheduled")

GateGranted(r, phase) ==
    Logged([Restarted(r, "queued") EXCEPT !.phase = phase,
                                          !.resolvable = TRUE],
           "phase_granted")

Cancelled(r) ==
    Logged([Moved(r, "cancelled") EXCEPT !.timer = 0], "cancelled")

(* The reader, or the forge that closed the source, ends task and workflow *)
(* in one transaction (_apply_review_lifecycle_action).                    *)
LifecycleClosed(r, taskVersion, action) ==
    Logged([Restarted(r, IF action = "done" THEN "completed" ELSE "cancelled")
              EXCEPT !.task_version = taskVersion],
           IF action = "done" THEN "task_completed" ELSE "task_dropped")

-----------------------------------------------------------------------------
(* Claims *)
Claimed(r, k) ==
    Logged([Moved(r, "running") EXCEPT
              !.claim = k, !.timer = LeaseTime, !.queue_priority = "normal",
              !.failure_count = IF r.status = "parked" THEN 0 ELSE @],
           "claimed")

Released(r) == Logged([Moved(r, "queued") EXCEPT !.timer = 0], "released")

(* A plan whose cited research names another owner waits for its reader.   *)
HeldForOwner(r) ==
    Logged([Moved(r, "awaiting_start") EXCEPT !.timer = 0], "scheduled")

(* _defer_failure: a timeout is retried without counting; a budget handoff *)
(* parks at once but retries soon until MaxAttempts - 1 parks went         *)
(* unanswered; an exhausted context parks for good; anything else counts   *)
(* towards MaxAttempts.                                                    *)
Deferred(r, reason) ==
    LET failures == IF reason = "timeout" THEN r.failure_count
                    ELSE r.failure_count + 1
        parks == \/ reason \in {"budget_handoff", "context_exhausted"}
                 \/ reason = "other" /\ failures >= MaxAttempts
        soon  == reason = "budget_handoff"
                 /\ r.parks[r.phase] < MaxAttempts - 1
        delay == CASE reason = "context_exhausted" -> Never
                   [] parks /\ ~soon -> ParkDelay
                   [] OTHER -> RetryDelay
    IN Logged([Moved(r, IF parks THEN "parked" ELSE "queued") EXCEPT
                 !.failure_count = failures, !.timer = delay],
              IF parks THEN "parked" ELSE "retry_scheduled")

\* Mutant: any answer to a plan opens its execution.
GrantedAdvanceAnyOutcome(phase, outcome, mayExecute, mayAct) ==
    CASE phase = "plan" /\ mayExecute -> "execute"
      [] phase = "execute" /\ outcome = "awaiting_external" /\ mayAct ->
           "external_action"
      [] OTHER -> phase

(* The phase a standing grant opens for this result; its own phase if none *)
GrantedAdvance(phase, outcome, mayExecute, mayAct) ==
    CASE phase = "plan" /\ outcome = "awaiting_plan" /\ mayExecute ->
           "execute"
      [] phase = "execute" /\ outcome = "awaiting_external" /\ mayAct ->
           "external_action"
      [] OTHER -> phase

Recorded(r, k, outcome, next) ==
    LET stored == Logged([Restarted(r, "awaiting_review") EXCEPT
                            !.last_outcome = outcome, !.last_claim = k],
                         "result_recorded")
    IN IF next = r.phase THEN stored
       ELSE Logged([stored EXCEPT !.status = "queued", !.phase = next],
                   "phase_granted")

-----------------------------------------------------------------------------
(* Reader decisions *)
StartActions == {"start", "snooze", "cancel"}

Started(r, action) ==
    CASE action = "start"  -> Logged(Restarted(r, "queued"), "start_approved")
      [] action = "snooze" -> Logged([Restarted(r, "snoozed") EXCEPT
                                        !.timer = SnoozeDelay], "snoozed")
      [] action = "cancel" -> Logged(Restarted(r, "cancelled"), "cancelled")

ReviewActions == {"approve", "revise", "snooze", "cancel"}

Reviewed(r, action) ==
    CASE action = "approve" ->
           Logged([Restarted(r, "queued") EXCEPT
                     !.phase = GateOpens[r.last_outcome]], "phase_approved")
      [] action = "revise" ->
           Logged([Restarted(r, "queued") EXCEPT !.phase = "plan"],
                  "revision_requested")
      [] action = "snooze" ->
           Logged([Restarted(r, "snoozed") EXCEPT !.timer = SnoozeDelay],
                  "snoozed")
      [] action = "cancel" -> Logged(Restarted(r, "cancelled"), "cancelled")

(* A note on a running pass pre-empts it; its next claim reads the note.    *)
Steered(r) == Logged([Moved(r, "queued") EXCEPT !.timer = 0],
                     "discussion_requested")

(* A note on a gate asks for a new plan: at the Start gate the reader       *)
(* still has to press Start.  Naming another owner revises the task too.   *)
AsksReview(r) ==
    \/ r.phase = "plan" /\ r.last_outcome = "awaiting_plan"
    \/ r.phase = "execute" /\ r.last_outcome = "awaiting_external"
    \/ r.last_outcome \in {"completed", "declined", "ineligible"}

AtStartGate(r) == \/ r.status \in {"awaiting_start", "parked"}
                  \/ r.status = "snoozed" /\ ~AsksReview(r)

Discussed(r) ==
    Logged([Restarted(r, IF AtStartGate(r) THEN "awaiting_start" ELSE "queued")
              EXCEPT !.phase = "plan"], "discussion_requested")

\* Mutant: the result of the task as it was stays with the row.
ReassignedWithResult(r, taskVersion) ==
    Logged([Restarted(r, "awaiting_start") EXCEPT
              !.phase = "plan", !.task_version = taskVersion], "reassigned")

Reassigned(r, taskVersion) ==
    Logged([Restarted(r, "awaiting_start") EXCEPT
              !.phase = "plan", !.task_version = taskVersion,
              !.last_outcome = "none", !.last_claim = NoClaim], "reassigned")

Retried(r) == Logged(Restarted(r, "queued"), "retry_scheduled")

Prioritised(r, priority) ==
    Logged([r EXCEPT !.version = @ + 1, !.updated_now = TRUE,
                     !.queue_priority = priority], "priority_changed")

(* adopt_installed_revision and select_agent rebind the pinned profile.    *)
Adopted(r) ==
    Logged([r EXCEPT !.version = @ + 1, !.updated_now = TRUE,
                     !.resolvable = TRUE], "agent_selected")

(* One tick of the clock. *)
Aged(r) == [r EXCEPT !.timer = IF @ > 0 THEN @ - 1 ELSE @,
                     !.updated_now = FALSE]
=============================================================================
