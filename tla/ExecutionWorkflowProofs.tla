------------------------ MODULE ExecutionWorkflowProofs ------------------------
(***************************************************************************)
(* Theorems about ExecutionWorkflow, for every set of tasks and every      *)
(* value of the caps, limits and bounds.                                   *)
(*                                                                         *)
(* The argument has three layers.  First, each write to a row either       *)
(* leaves it as its holder knows it or leaves it without a claim at a      *)
(* later version.  From that, every step of the service is shown to be of  *)
(* one of three kinds: claims are let go, one claim is answered, or claims *)
(* are let go and one is granted.  The properties of the claims follow     *)
(* from the three kinds alone.                                             *)
(***************************************************************************)
EXTENDS ExecutionWorkflow, FiniteSetTheorems, TLAPS

-----------------------------------------------------------------------------
(* A row that may be attempted without a new decision has attempts left.   *)
HasAttempts(r) ==
    r.status \in {"awaiting_start", "queued", "running"}
      => r.failure_count < MaxAttempts

(* A transaction leaves row r without a claim and at a later version, ...  *)
Left(r, s) == /\ s \in Rows
              /\ s.version > r.version
              /\ s.claim = NoClaim
              /\ s.status # "running"
              /\ HasAttempts(r) => HasAttempts(s)

(* ... or as every card and every agent knows it.                          *)
Kept(r, s) == /\ s \in Rows
              /\ s.status = r.status
              /\ s.phase = r.phase
              /\ s.version = r.version
              /\ s.task_version = r.task_version
              /\ s.claim = r.claim
              /\ s.last_claim = r.last_claim
              /\ s.failure_count = r.failure_count

-----------------------------------------------------------------------------
\* NoRow, the state of a task that was never scheduled, is a row.
LEMMA NoRowType == NoRow \in Rows
BY DEF NoRow, Rows, NoClaim, Phases, Statuses, Outcomes

\* Appending an event keeps a row a row and touches none of its own columns.
LEMMA LoggedType ==
    ASSUME NEW r \in Rows, NEW kind
    PROVE  Logged(r, kind) \in Rows
PROOF
<1>1. Parks(r, kind) \in [Phases -> Nat]
  <2>1. r.parks \in [Phases -> Nat] /\ r.phase \in Phases
    BY DEF Rows
  <2>2. Saturated(r.parks[r.phase]) \in Nat
    <3>1. r.parks[r.phase] \in Nat
      BY <2>1
    <3> QED BY ONLY <3>1 DEF Saturated
  <2> QED BY <2>1, <2>2 DEF Parks
<1>2. Authority(r, kind) \in SUBSET Phases
  <2>1. r.authority \in SUBSET Phases /\ r.phase \in Phases
    BY DEF Rows
  <2> QED BY <2>1 DEF Authority
<1> QED BY ONLY <1>1, <1>2, r \in Rows DEF Logged, Rows

LEMMA LoggedKeeps ==
    ASSUME NEW r \in Rows, NEW kind
    PROVE  LET s == Logged(r, kind)
           IN /\ s.status = r.status
              /\ s.phase = r.phase
              /\ s.version = r.version
              /\ s.task_version = r.task_version
              /\ s.claim = r.claim
              /\ s.last_claim = r.last_claim
              /\ s.failure_count = r.failure_count
BY DEF Logged, Rows

\* Every change of status advances the version and gives up the claim.
LEMMA MovedType ==
    ASSUME NEW r \in Rows, NEW status \in Statuses
    PROVE  LET s == Moved(r, status)
           IN /\ s \in Rows
              /\ s.status = status
              /\ s.phase = r.phase
              /\ s.version = r.version + 1
              /\ s.claim = NoClaim
              /\ s.failure_count = r.failure_count
PROOF
<1>1. r.version + 1 \in Nat /\ 0 \in Nat
  BY DEF Rows
<1> QED BY <1>1 DEF Moved, Rows, NoClaim

LEMMA RestartedType ==
    ASSUME NEW r \in Rows, NEW status \in Statuses
    PROVE  LET s == Restarted(r, status)
           IN /\ s \in Rows
              /\ s.status = status
              /\ s.phase = r.phase
              /\ s.version = r.version + 1
              /\ s.claim = NoClaim
              /\ s.failure_count = 0
PROOF
<1>1. r.version + 1 \in Nat /\ 0 \in Nat
  BY DEF Rows
<1> QED BY <1>1 DEF Restarted, Moved, Rows, NoClaim

-----------------------------------------------------------------------------
LEMMA LoggedLeaves ==
    ASSUME NEW r \in Rows, NEW m, Left(r, m), NEW kind
    PROVE  Left(r, Logged(m, kind))
PROOF
<1>1. m \in Rows
  BY DEF Left
<1>2. Logged(m, kind) \in Rows
  BY <1>1, LoggedType
<1> QED BY <1>1, <1>2, LoggedKeeps DEF Left, HasAttempts

\* Any status but running may follow a transaction; without a reset of the
\* failures, only one the row already had attempts for.
LEMMA MovedLeaves ==
    ASSUME NEW r \in Rows, NEW status \in Statuses \ {"running"},
           HasAttempts(r) => (\/ status \notin {"awaiting_start", "queued"}
                              \/ r.failure_count < MaxAttempts)
    PROVE  Left(r, Moved(r, status))
PROOF
<1>1. r.version \in Nat
  BY DEF Rows
<1> QED BY <1>1, MovedType DEF Left, HasAttempts

\* What is said of a row by Left reads four of its fields.
LEMMA LeftAgrees ==
    ASSUME NEW r, NEW a, NEW m \in Rows, Left(r, a),
           m.status = a.status, m.claim = a.claim, m.version = a.version,
           m.failure_count = a.failure_count
    PROVE  Left(r, m)
PROOF BY DEF Left, HasAttempts

LEMMA RestartedLeaves ==
    ASSUME NEW r \in Rows, NEW status \in Statuses \ {"running"}
    PROVE  Left(r, Restarted(r, status))
PROOF
<1>1. r.version \in Nat
  BY DEF Rows
<1> QED BY <1>1, AttemptsAssumption, RestartedType DEF Left, HasAttempts

-----------------------------------------------------------------------------
(* Scheduling *)

\* Scheduling starts a row afresh at the task version it is given.
LEMMA ScheduledLeaves ==
    ASSUME NEW r \in Rows, NEW taskVersion \in Nat,
           NEW status \in {"queued", "awaiting_start"}, NEW phase \in Phases
    PROVE  Left(r, Scheduled(r, taskVersion, status, phase))
PROOF
<1> DEFINE a == Restarted(r, status)
           m == [a EXCEPT !.task_version = taskVersion, !.phase = phase,
                          !.last_outcome = "none", !.last_claim = NoClaim,
                          !.resolvable = TRUE]
<1>1. Left(r, a)
  BY RestartedLeaves DEF Statuses, HasAttempts
<1> HIDE DEF a
<1>2. Left(r, m)
  <2>1. a \in Rows
    BY <1>1 DEF Left
  <2>2. "plan" \in Phases /\ NoClaim \in Nat
    BY DEF Phases, NoClaim
  <2>3. m \in Rows
    BY <2>1, <2>2, DelayAssumption DEF Rows
  <2>4. /\ m.status = a.status /\ m.claim = a.claim /\ m.version = a.version
        /\ m.failure_count = a.failure_count
    BY <2>1 DEF Rows
  <2> QED BY <1>1, <2>3, <2>4, LeftAgrees
<1> HIDE DEF m
<1>3. Scheduled(r, taskVersion, status, phase) = Logged(m, "scheduled")
  BY DEF Scheduled, m, a
<1> QED BY <1>2, <1>3, LoggedLeaves

\* A granted Start gate keeps the attempts the row had.
LEMMA PromotedLeaves ==
    ASSUME NEW r \in Rows, r.status = "awaiting_start"
    PROVE  Left(r, Promoted(r))
PROOF
<1> DEFINE a == Moved(r, "queued")
           m == [a EXCEPT !.timer = 0, !.resolvable = TRUE]
<1>1. Left(r, a)
  BY MovedLeaves DEF Statuses, HasAttempts
<1> HIDE DEF a
<1>2. Left(r, m)
  <2>1. a \in Rows
    BY <1>1 DEF Left
  <2>2. "plan" \in Phases /\ NoClaim \in Nat
    BY DEF Phases, NoClaim
  <2>3. m \in Rows
    BY <2>1, <2>2, DelayAssumption DEF Rows
  <2>4. /\ m.status = a.status /\ m.claim = a.claim /\ m.version = a.version
        /\ m.failure_count = a.failure_count
    BY <2>1 DEF Rows
  <2> QED BY <1>1, <2>3, <2>4, LeftAgrees
<1> HIDE DEF m
<1>3. Promoted(r) = Logged(m, "scheduled")
  BY DEF Promoted, m, a
<1> QED BY <1>2, <1>3, LoggedLeaves

LEMMA GateGrantedLeaves ==
    ASSUME NEW r \in Rows, NEW phase \in Phases
    PROVE  Left(r, GateGranted(r, phase))
PROOF
<1> DEFINE a == Restarted(r, "queued")
           m == [a EXCEPT !.phase = phase, !.resolvable = TRUE]
<1>1. Left(r, a)
  BY RestartedLeaves DEF Statuses, HasAttempts
<1> HIDE DEF a
<1>2. Left(r, m)
  <2>1. a \in Rows
    BY <1>1 DEF Left
  <2>2. "plan" \in Phases /\ NoClaim \in Nat
    BY DEF Phases, NoClaim
  <2>3. m \in Rows
    BY <2>1, <2>2, DelayAssumption DEF Rows
  <2>4. /\ m.status = a.status /\ m.claim = a.claim /\ m.version = a.version
        /\ m.failure_count = a.failure_count
    BY <2>1 DEF Rows
  <2> QED BY <1>1, <2>3, <2>4, LeftAgrees
<1> HIDE DEF m
<1>3. GateGranted(r, phase) = Logged(m, "phase_granted")
  BY DEF GateGranted, m, a
<1> QED BY <1>2, <1>3, LoggedLeaves

LEMMA CancelledLeaves ==
    ASSUME NEW r \in Rows
    PROVE  Left(r, Cancelled(r))
PROOF
<1> DEFINE a == Moved(r, "cancelled")
           m == [a EXCEPT !.timer = 0]
<1>1. Left(r, a)
  BY MovedLeaves DEF Statuses, HasAttempts
<1> HIDE DEF a
<1>2. Left(r, m)
  <2>1. a \in Rows
    BY <1>1 DEF Left
  <2>2. "plan" \in Phases /\ NoClaim \in Nat
    BY DEF Phases, NoClaim
  <2>3. m \in Rows
    BY <2>1, <2>2, DelayAssumption DEF Rows
  <2>4. /\ m.status = a.status /\ m.claim = a.claim /\ m.version = a.version
        /\ m.failure_count = a.failure_count
    BY <2>1 DEF Rows
  <2> QED BY <1>1, <2>3, <2>4, LeftAgrees
<1> HIDE DEF m
<1>3. Cancelled(r) = Logged(m, "cancelled")
  BY DEF Cancelled, m, a
<1> QED BY <1>2, <1>3, LoggedLeaves

LEMMA LifecycleClosedLeaves ==
    ASSUME NEW r \in Rows, NEW taskVersion \in Nat, NEW action
    PROVE  Left(r, LifecycleClosed(r, taskVersion, action))
PROOF
<1> DEFINE a == Restarted(r, IF action = "done" THEN "completed"
                                            ELSE "cancelled")
           m == [a EXCEPT !.task_version = taskVersion]
<1>1. Left(r, a)
  BY RestartedLeaves DEF Statuses, HasAttempts
<1> HIDE DEF a
<1>2. Left(r, m)
  <2>1. a \in Rows
    BY <1>1 DEF Left
  <2>2. "plan" \in Phases /\ NoClaim \in Nat
    BY DEF Phases, NoClaim
  <2>3. m \in Rows
    BY <2>1, <2>2, DelayAssumption DEF Rows
  <2>4. /\ m.status = a.status /\ m.claim = a.claim /\ m.version = a.version
        /\ m.failure_count = a.failure_count
    BY <2>1 DEF Rows
  <2> QED BY <1>1, <2>3, <2>4, LeftAgrees
<1> HIDE DEF m
<1>3. LifecycleClosed(r, taskVersion, action) = Logged(m, IF action = "done"
                            THEN "task_completed" ELSE "task_dropped")
  BY DEF LifecycleClosed, m, a
<1> QED BY <1>2, <1>3, LoggedLeaves

(* Claims *)

LEMMA ReleasedLeaves ==
    ASSUME NEW r \in Rows, r.status = "running"
    PROVE  Left(r, Released(r))
PROOF
<1> DEFINE a == Moved(r, "queued")
           m == [a EXCEPT !.timer = 0]
<1>1. Left(r, a)
  BY MovedLeaves DEF Statuses, HasAttempts
<1> HIDE DEF a
<1>2. Left(r, m)
  <2>1. a \in Rows
    BY <1>1 DEF Left
  <2>2. "plan" \in Phases /\ NoClaim \in Nat
    BY DEF Phases, NoClaim
  <2>3. m \in Rows
    BY <2>1, <2>2, DelayAssumption DEF Rows
  <2>4. /\ m.status = a.status /\ m.claim = a.claim /\ m.version = a.version
        /\ m.failure_count = a.failure_count
    BY <2>1 DEF Rows
  <2> QED BY <1>1, <2>3, <2>4, LeftAgrees
<1> HIDE DEF m
<1>3. Released(r) = Logged(m, "released")
  BY DEF Released, m, a
<1> QED BY <1>2, <1>3, LoggedLeaves

LEMMA HeldForOwnerLeaves ==
    ASSUME NEW r \in Rows, r.status = "queued"
    PROVE  Left(r, HeldForOwner(r))
PROOF
<1> DEFINE a == Moved(r, "awaiting_start")
           m == [a EXCEPT !.timer = 0]
<1>1. Left(r, a)
  BY MovedLeaves DEF Statuses, HasAttempts
<1> HIDE DEF a
<1>2. Left(r, m)
  <2>1. a \in Rows
    BY <1>1 DEF Left
  <2>2. "plan" \in Phases /\ NoClaim \in Nat
    BY DEF Phases, NoClaim
  <2>3. m \in Rows
    BY <2>1, <2>2, DelayAssumption DEF Rows
  <2>4. /\ m.status = a.status /\ m.claim = a.claim /\ m.version = a.version
        /\ m.failure_count = a.failure_count
    BY <2>1 DEF Rows
  <2> QED BY <1>1, <2>3, <2>4, LeftAgrees
<1> HIDE DEF m
<1>3. HeldForOwner(r) = Logged(m, "scheduled")
  BY DEF HeldForOwner, m, a
<1> QED BY <1>2, <1>3, LoggedLeaves

\* A failure either parks the row or leaves it an attempt; a timeout counts
\* for nothing and so needs a row that has attempts left.
LEMMA DeferredLeaves ==
    ASSUME NEW r \in Rows, NEW reason \in FailureReasons,
           reason = "timeout" => r.status = "running"
    PROVE  Left(r, Deferred(r, reason))
PROOF
<1> DEFINE failures == IF reason = "timeout" THEN r.failure_count
                       ELSE r.failure_count + 1
           parks == \/ reason \in {"budget_handoff", "context_exhausted"}
                    \/ reason = "other" /\ failures >= MaxAttempts
           soon  == reason = "budget_handoff"
                    /\ r.parks[r.phase] < MaxAttempts - 1
           delay == CASE reason = "context_exhausted" -> Never
                      [] parks /\ ~soon -> ParkDelay
                      [] OTHER -> RetryDelay
           status == IF parks THEN "parked" ELSE "queued"
           a == Moved(r, status)
           m == [a EXCEPT !.failure_count = failures, !.timer = delay]
<1>1. failures \in Nat /\ r.version \in Nat /\ MaxAttempts \in Nat
  BY AttemptsAssumption DEF Rows
<1>2. delay \in Nat \cup {Never}
  BY DelayAssumption
<1>3. status \in {"queued", "parked"} /\ status \in Statuses
  BY DEF Statuses
<1>4. /\ a \in Rows
      /\ a.status = status
      /\ a.version = r.version + 1
      /\ a.claim = NoClaim
  BY <1>3, MovedType
<1>5. Deferred(r, reason) = Logged(m, IF parks THEN "parked"
                                      ELSE "retry_scheduled")
  BY DEF Deferred
<1>6. status = "queued" /\ HasAttempts(r)
        => failures < MaxAttempts
  BY <1>1 DEF HasAttempts, FailureReasons
<1> HIDE DEF a, failures, delay, status, parks
<1>7. /\ m \in Rows
      /\ m.status = status
      /\ m.version = r.version + 1
      /\ m.claim = NoClaim
      /\ m.failure_count = failures
  BY <1>1, <1>2, <1>4 DEF Rows
<1> HIDE DEF m
<1>8. Left(r, m)
  BY <1>1, <1>3, <1>6, <1>7 DEF Left, HasAttempts
<1> QED BY <1>5, <1>8, LoggedLeaves

\* A granted row runs under the new claim; one that comes back from a park
\* starts its count anew.
LEMMA ClaimedRuns ==
    ASSUME NEW r \in Rows, NEW k \in Nat, r.status \in {"queued", "parked"}
    PROVE  LET s == Claimed(r, k)
           IN /\ s \in Rows
              /\ s.status = "running"
              /\ s.claim = k
              /\ s.version = r.version + 1
              /\ s.task_version = r.task_version
              /\ s.phase = r.phase
              /\ HasAttempts(r) => HasAttempts(s)
PROOF
<1> DEFINE a == Moved(r, "running")
           failures == IF r.status = "parked" THEN 0 ELSE a.failure_count
           m == [a EXCEPT !.claim = k, !.timer = LeaseTime,
                          !.queue_priority = "normal",
                          !.failure_count = failures]
<1>1. /\ a \in Rows
      /\ a.status = "running"
      /\ a.phase = r.phase
      /\ a.version = r.version + 1
      /\ a.task_version = r.task_version
      /\ a.failure_count = r.failure_count
  <2>1. "running" \in Statuses
    BY DEF Statuses
  <2>2. a.task_version = r.task_version
    BY DEF Moved, Rows
  <2> QED BY <2>1, <2>2, MovedType
<1>2. Claimed(r, k) = Logged(m, "claimed")
  BY DEF Claimed
<1> HIDE DEF a
<1>3. failures \in Nat
  BY <1>1 DEF Rows
<1>4. HasAttempts(r) => failures < MaxAttempts
  BY <1>1, AttemptsAssumption DEF HasAttempts
<1> HIDE DEF failures
<1>5. /\ m \in Rows
      /\ m.status = "running"
      /\ m.claim = k
      /\ m.version = r.version + 1
      /\ m.task_version = r.task_version
      /\ m.phase = r.phase
      /\ m.failure_count = failures
  BY <1>1, <1>3, DelayAssumption DEF Rows
<1> HIDE DEF m
<1>6. Logged(m, "claimed") \in Rows
  BY <1>5, LoggedType
<1> QED BY <1>2, <1>4, <1>5, <1>6, LoggedKeeps DEF HasAttempts

\* Renewing a lease, losing a profile and the passing of time leave a row as
\* its holder knows it.
LEMMA RenewedKeeps ==
    ASSUME NEW r \in Rows
    PROVE  Kept(r, Logged([r EXCEPT !.timer = LeaseTime, !.updated_now = TRUE],
                          "claim_renewed"))
PROOF
<1> DEFINE m == [r EXCEPT !.timer = LeaseTime, !.updated_now = TRUE]
<1>1. Kept(r, m)
  BY DelayAssumption DEF Kept, Rows
<1>2. ASSUME NEW n, Kept(r, n)
      PROVE  Kept(r, Logged(n, "claim_renewed"))
  <2>1. n \in Rows /\ Logged(n, "claim_renewed") \in Rows
    BY <1>2, LoggedType DEF Kept
  <2> QED BY <1>2, <2>1, LoggedKeeps DEF Kept
<1> QED BY <1>1, <1>2

LEMMA UnresolvableKeeps ==
    ASSUME NEW r \in Rows
    PROVE  Kept(r, [r EXCEPT !.resolvable = FALSE])
BY DEF Kept, Rows

LEMMA AgedKeeps ==
    ASSUME NEW r \in Rows
    PROVE  Kept(r, Aged(r))
PROOF
<1>1. (IF r.timer > 0 THEN r.timer - 1 ELSE r.timer) \in Nat \cup {Never}
  BY DEF Rows, Never
<1> QED BY <1>1 DEF Aged, Kept, Rows

\* A result ends the claim whether or not a grant opens the next phase.
LEMMA RecordedLeaves ==
    ASSUME NEW r \in Rows, NEW k \in Nat, NEW outcome \in Outcomes,
           NEW next \in Phases
    PROVE  Left(r, Recorded(r, k, outcome, next))
PROOF
<1> DEFINE a == Restarted(r, "awaiting_review")
           m == [a EXCEPT !.last_outcome = outcome, !.last_claim = k]
           stored == Logged(m, "result_recorded")
           n == [stored EXCEPT !.status = "queued", !.phase = next]
<1>1. Left(r, a) /\ a.failure_count = 0
  <2>1. "awaiting_review" \in Statuses \ {"running"}
    BY DEF Statuses
  <2> QED BY <2>1, RestartedLeaves, RestartedType
<1>2. Recorded(r, k, outcome, next) =
        IF next = r.phase THEN stored ELSE Logged(n, "phase_granted")
  BY DEF Recorded
<1> HIDE DEF a
<1>3. Left(r, m) /\ m.failure_count = 0
  <2>1. a \in Rows
    BY <1>1 DEF Left
  <2>2. /\ m \in Rows
        /\ m.status = a.status /\ m.claim = a.claim /\ m.version = a.version
        /\ m.failure_count = a.failure_count
    BY <2>1 DEF Rows
  <2> QED BY <1>1, <2>2, LeftAgrees
<1> HIDE DEF m
<1>4. Left(r, stored)
  BY <1>3, LoggedLeaves
<1>5. stored.failure_count = 0
  BY <1>3, LoggedKeeps DEF Left
<1> HIDE DEF stored
<1>6. Left(r, n)
  <2>1. "queued" \in Statuses /\ stored \in Rows
    BY <1>4 DEF Statuses, Left
  <2>2. /\ n \in Rows
        /\ n.status = "queued"
        /\ n.version = stored.version
        /\ n.claim = stored.claim
        /\ n.failure_count = stored.failure_count
    BY <2>1 DEF Rows
  <2> HIDE DEF n
  <2> QED BY <1>4, <1>5, <2>2, AttemptsAssumption DEF Left, HasAttempts
<1> HIDE DEF n
<1>7. Left(r, Logged(n, "phase_granted"))
  BY <1>6, LoggedLeaves
<1> QED BY <1>2, <1>4, <1>7

-----------------------------------------------------------------------------
(* Reader decisions *)

LEMMA SteeredLeaves ==
    ASSUME NEW r \in Rows, r.status = "running"
    PROVE  Left(r, Steered(r))
PROOF
<1> DEFINE a == Moved(r, "queued")
           m == [a EXCEPT !.timer = 0]
<1>1. Left(r, a)
  BY MovedLeaves DEF Statuses, HasAttempts
<1> HIDE DEF a
<1>2. Left(r, m)
  <2>1. a \in Rows
    BY <1>1 DEF Left
  <2>2. "plan" \in Phases /\ NoClaim \in Nat
    BY DEF Phases, NoClaim
  <2>3. m \in Rows
    BY <2>1, <2>2, DelayAssumption DEF Rows
  <2>4. /\ m.status = a.status /\ m.claim = a.claim /\ m.version = a.version
        /\ m.failure_count = a.failure_count
    BY <2>1 DEF Rows
  <2> QED BY <1>1, <2>3, <2>4, LeftAgrees
<1> HIDE DEF m
<1>3. Steered(r) = Logged(m, "discussion_requested")
  BY DEF Steered, m, a
<1> QED BY <1>2, <1>3, LoggedLeaves

LEMMA RetriedLeaves ==
    ASSUME NEW r \in Rows
    PROVE  Left(r, Retried(r))
PROOF
<1> DEFINE a == Restarted(r, "queued")
<1>1. Left(r, a)
  BY RestartedLeaves DEF Statuses, HasAttempts
<1> HIDE DEF a
<1>2. Retried(r) = Logged(a, "retry_scheduled")
  BY DEF Retried, a
<1> QED BY <1>1, <1>2, LoggedLeaves

LEMMA ReassignedLeaves ==
    ASSUME NEW r \in Rows, NEW taskVersion \in Nat
    PROVE  Left(r, Reassigned(r, taskVersion))
PROOF
<1> DEFINE a == Restarted(r, "awaiting_start")
           m == [a EXCEPT !.phase = "plan", !.task_version = taskVersion,
                          !.last_outcome = "none", !.last_claim = NoClaim]
<1>1. Left(r, a)
  BY RestartedLeaves DEF Statuses, HasAttempts
<1> HIDE DEF a
<1>2. Left(r, m)
  <2>1. a \in Rows
    BY <1>1 DEF Left
  <2>2. "plan" \in Phases /\ NoClaim \in Nat
    BY DEF Phases, NoClaim
  <2>3. m \in Rows
    BY <2>1, <2>2, DelayAssumption DEF Rows
  <2>4. /\ m.status = a.status /\ m.claim = a.claim /\ m.version = a.version
        /\ m.failure_count = a.failure_count
    BY <2>1 DEF Rows
  <2> QED BY <1>1, <2>3, <2>4, LeftAgrees
<1> HIDE DEF m
<1>3. Reassigned(r, taskVersion) = Logged(m, "reassigned")
  BY DEF Reassigned, m, a
<1> QED BY <1>2, <1>3, LoggedLeaves

LEMMA DiscussedLeaves ==
    ASSUME NEW r \in Rows
    PROVE  Left(r, Discussed(r))
PROOF
<1> DEFINE a == Restarted(r, IF AtStartGate(r) THEN "awaiting_start"
                        ELSE "queued")
           m == [a EXCEPT !.phase = "plan"]
<1>1. Left(r, a)
  BY RestartedLeaves DEF Statuses, HasAttempts
<1> HIDE DEF a
<1>2. Left(r, m)
  <2>1. a \in Rows
    BY <1>1 DEF Left
  <2>2. "plan" \in Phases /\ NoClaim \in Nat
    BY DEF Phases, NoClaim
  <2>3. m \in Rows
    BY <2>1, <2>2, DelayAssumption DEF Rows
  <2>4. /\ m.status = a.status /\ m.claim = a.claim /\ m.version = a.version
        /\ m.failure_count = a.failure_count
    BY <2>1 DEF Rows
  <2> QED BY <1>1, <2>3, <2>4, LeftAgrees
<1> HIDE DEF m
<1>3. Discussed(r) = Logged(m, "discussion_requested")
  BY DEF Discussed, m, a
<1> QED BY <1>2, <1>3, LoggedLeaves

LEMMA StartedLeaves ==
    ASSUME NEW r \in Rows, NEW action \in StartActions
    PROVE  Left(r, Started(r, action))
PROOF
<1>1. CASE action = "start"
  <2> DEFINE a == Restarted(r, "queued")
  <2>1. Left(r, a)
    BY RestartedLeaves DEF Statuses
  <2>2. Started(r, action) = Logged(a, "start_approved")
    BY <1>1 DEF Started
  <2> HIDE DEF a
  <2> QED BY <2>1, <2>2, LoggedLeaves
<1>2. CASE action = "snooze"
  <2> DEFINE a == Restarted(r, "snoozed")
             m == [a EXCEPT !.timer = SnoozeDelay]
  <2>1. Left(r, a)
    BY RestartedLeaves DEF Statuses
  <2>2. Started(r, action) = Logged(m, "snoozed")
    BY <1>2 DEF Started
  <2> HIDE DEF a
  <2>3. Left(r, m)
    BY <2>1, DelayAssumption DEF Left, Rows, HasAttempts
  <2> HIDE DEF m
  <2> QED BY <2>2, <2>3, LoggedLeaves
<1>3. CASE action = "cancel"
  <2> DEFINE a == Restarted(r, "cancelled")
  <2>1. Left(r, a)
    BY RestartedLeaves DEF Statuses
  <2>2. Started(r, action) = Logged(a, "cancelled")
    BY <1>3 DEF Started
  <2> HIDE DEF a
  <2> QED BY <2>1, <2>2, LoggedLeaves
<1> QED BY <1>1, <1>2, <1>3 DEF StartActions

\* An approval opens the phase its result asked for and nothing else.
LEMMA ReviewedLeaves ==
    ASSUME NEW r \in Rows, NEW action \in ReviewActions,
           action = "approve" => r.last_outcome \in DOMAIN GateOpens
    PROVE  Left(r, Reviewed(r, action))
PROOF
<1>1. CASE action = "approve"
  <2> DEFINE a == Restarted(r, "queued")
             phase == GateOpens[r.last_outcome]
             m == [a EXCEPT !.phase = phase]
  <2>1. Left(r, a)
    BY RestartedLeaves DEF Statuses
  <2>2. Reviewed(r, action) = Logged(m, "phase_approved")
    BY <1>1 DEF Reviewed
  <2>3. phase \in Phases
    BY <1>1 DEF GateOpens, Phases
  <2> HIDE DEF a, phase
  <2>4. Left(r, m)
    BY <2>1, <2>3 DEF Left, Rows, HasAttempts
  <2> HIDE DEF m
  <2> QED BY <2>2, <2>4, LoggedLeaves
<1>2. CASE action = "revise"
  <2> DEFINE a == Restarted(r, "queued")
             m == [a EXCEPT !.phase = "plan"]
  <2>1. Left(r, a)
    BY RestartedLeaves DEF Statuses
  <2>2. Reviewed(r, action) = Logged(m, "revision_requested")
    BY <1>2 DEF Reviewed
  <2> HIDE DEF a
  <2>3. Left(r, m)
    BY <2>1 DEF Left, Rows, HasAttempts, Phases
  <2> HIDE DEF m
  <2> QED BY <2>2, <2>3, LoggedLeaves
<1>3. CASE action = "snooze"
  <2> DEFINE a == Restarted(r, "snoozed")
             m == [a EXCEPT !.timer = SnoozeDelay]
  <2>1. Left(r, a)
    BY RestartedLeaves DEF Statuses
  <2>2. Reviewed(r, action) = Logged(m, "snoozed")
    BY <1>3 DEF Reviewed
  <2> HIDE DEF a
  <2>3. Left(r, m)
    BY <2>1, DelayAssumption DEF Left, Rows, HasAttempts
  <2> HIDE DEF m
  <2> QED BY <2>2, <2>3, LoggedLeaves
<1>4. CASE action = "cancel"
  <2> DEFINE a == Restarted(r, "cancelled")
  <2>1. Left(r, a)
    BY RestartedLeaves DEF Statuses
  <2>2. Reviewed(r, action) = Logged(a, "cancelled")
    BY <1>4 DEF Reviewed
  <2> HIDE DEF a
  <2> QED BY <2>1, <2>2, LoggedLeaves
<1> QED BY <1>1, <1>2, <1>3, <1>4 DEF ReviewActions

\* A new priority and a new profile change the version of a row that waits.
LEMMA PrioritisedLeaves ==
    ASSUME NEW r \in Rows, NEW priority \in {"raised", "normal", "lowered"},
           r.status # "running", r.claim = NoClaim
    PROVE  Left(r, Prioritised(r, priority))
PROOF
<1> DEFINE m == [r EXCEPT !.version = @ + 1, !.updated_now = TRUE,
                          !.queue_priority = priority]
<1>1. r.version \in Nat /\ r.version + 1 \in Nat
  BY DEF Rows
<1>2. /\ m \in Rows
      /\ m.version = r.version + 1
      /\ m.status = r.status
      /\ m.claim = r.claim
      /\ m.failure_count = r.failure_count
  BY <1>1 DEF Rows
<1>3. Prioritised(r, priority) = Logged(m, "priority_changed")
  BY DEF Prioritised
<1> HIDE DEF m
<1>4. Left(r, m)
  BY <1>1, <1>2 DEF Left, HasAttempts
<1> QED BY <1>3, <1>4, LoggedLeaves

LEMMA AdoptedLeaves ==
    ASSUME NEW r \in Rows, r.status # "running", r.claim = NoClaim
    PROVE  Left(r, Adopted(r))
PROOF
<1> DEFINE m == [r EXCEPT !.version = @ + 1, !.updated_now = TRUE,
                          !.resolvable = TRUE]
<1>1. r.version \in Nat /\ r.version + 1 \in Nat
  BY DEF Rows
<1>2. /\ m \in Rows
      /\ m.version = r.version + 1
      /\ m.status = r.status
      /\ m.claim = r.claim
      /\ m.failure_count = r.failure_count
  BY <1>1 DEF Rows
<1>3. Adopted(r) = Logged(m, "agent_selected")
  BY DEF Adopted
<1> HIDE DEF m
<1>4. Left(r, m)
  BY <1>1, <1>2 DEF Left, HasAttempts
<1> QED BY <1>3, <1>4, LoggedLeaves

-----------------------------------------------------------------------------
(* Several of these writes in one transaction *)

Stepped(r, s) == Left(r, s) \/ Kept(r, s)

LEMMA SteppedTwice ==
    ASSUME NEW r \in Rows, NEW s, NEW u, Stepped(r, s), Stepped(s, u)
    PROVE  /\ Stepped(r, u)
           /\ Left(r, s) \/ Left(s, u) => Left(r, u)
PROOF
<1>1. s \in Rows /\ u \in Rows
  BY DEF Stepped, Left, Kept
<1>2. r.version \in Nat /\ s.version \in Nat /\ u.version \in Nat
  BY <1>1 DEF Rows
<1>3. CASE Kept(r, s) /\ Kept(s, u)
  <2>1. Kept(r, u)
    BY <1>3 DEF Kept
  <2>2. ~Left(r, s) /\ ~Left(s, u)
    BY <1>2, <1>3 DEF Left, Kept
  <2> QED BY <2>1, <2>2 DEF Stepped
<1>4. CASE Left(r, s) /\ Kept(s, u)
  <2>1. Left(r, u)
    BY <1>2, <1>4 DEF Left, Kept, HasAttempts
  <2> QED BY <2>1 DEF Stepped
<1>5. CASE Kept(r, s) /\ Left(s, u)
  <2>1. Left(r, u)
    BY <1>2, <1>5 DEF Left, Kept, HasAttempts
  <2> QED BY <2>1 DEF Stepped
<1>6. CASE Left(r, s) /\ Left(s, u)
  <2>1. Left(r, u)
    BY <1>2, <1>6 DEF Left, HasAttempts
  <2> QED BY <2>1 DEF Stepped
<1> QED BY <1>3, <1>4, <1>5, <1>6 DEF Stepped

-----------------------------------------------------------------------------
(* The inductive invariant                                                 *)

\* Rows, fates and claims of one moment fit together: a row has a claim
\* exactly while it runs, that claim is live and was handed out for the row
\* as it is, and every live claim is the claim of a row.
Shape(rows, fates, handed) ==
    /\ rows \in [Tasks -> Rows]
    /\ fates \in [ClaimIds -> Fates]
    /\ \A t \in Tasks :
         /\ rows[t].status = "running" <=> rows[t].claim # NoClaim
         /\ rows[t].claim # NoClaim =>
              /\ rows[t].claim \in ClaimIds
              /\ fates[rows[t].claim] = "live"
              /\ handed[rows[t].claim] =
                   [task |-> t, version |-> rows[t].version,
                    task_version |-> rows[t].task_version,
                    phase |-> rows[t].phase]
    /\ \A k \in ClaimIds :
         fates[k] = "live" => \E t \in Tasks : rows[t].claim = k

Attempts(rows) == \A t \in Tasks : HasAttempts(rows[t])

ClaimInv == TypeOK /\ Shape(wf, fate, claims) /\ Attempts(wf)

-----------------------------------------------------------------------------
(* The three kinds of step                                                 *)

Lost == Fates \ {"unissued", "live", "recorded"}

\* Rows move on, and the claims that end are those whose rows gave them up.
LetsGo(rows, rows2, fates, fates2) ==
    /\ \A t \in Tasks : Stepped(rows[t], rows2[t])
    /\ rows2 \in [Tasks -> Rows]
    /\ fates2 \in [ClaimIds -> Fates]
    /\ \A k \in ClaimIds :
         \/ /\ fates2[k] = fates[k]
            /\ \A t \in Tasks : rows[t].claim = k => rows2[t].claim = k
         \/ /\ fates2[k] \in Lost
            /\ \E t \in Tasks : rows[t].claim = k /\ rows2[t].claim = NoClaim

LettingGo == /\ LetsGo(wf, wf', fate, fate')
             /\ UNCHANGED <<claims, results>>

Answering(t, k) ==
    /\ wf[t].claim = k
    /\ wf' \in [Tasks -> Rows]
    /\ Left(wf[t], wf'[t])
    /\ \A u \in Tasks \ {t} : wf'[u] = wf[u]
    /\ fate' = [fate EXCEPT ![k] = "recorded"]
    /\ claims' = claims
    /\ {r.claim : r \in results'} = {r.claim : r \in results} \cup {k}

Granting(t, k, rows, fates) ==
    /\ LetsGo(wf, rows, fate, fates)
    /\ rows[t].status \in {"queued", "parked"}
    /\ fates[k] = "unissued"
    /\ Cardinality(Running(rows)) < SlotCap
    /\ wf' = [rows EXCEPT ![t] = Claimed(rows[t], k)]
    /\ fate' = [fates EXCEPT ![k] = "live"]
    /\ claims' = [claims EXCEPT ![k] =
                    [task |-> t, version |-> rows[t].version + 1,
                     task_version |-> rows[t].task_version,
                     phase |-> rows[t].phase]]
    /\ results' = results

LedgerStep ==
    \/ LettingGo
    \/ \E t \in Tasks, k \in ClaimIds :
         \/ Answering(t, k)
         \/ \E rows, fates : Granting(t, k, rows, fates)

-----------------------------------------------------------------------------
(* What each kind of step preserves                                        *)

\* NoClaim names no claim.
LEMMA ClaimIdsPositive == ClaimIds \subseteq Nat /\ NoClaim \notin ClaimIds
BY BoundsAssumption DEF ClaimIds, NoClaim

\* No claim serves two tasks.
LEMMA OneTaskPerClaim ==
    ASSUME NEW rows, NEW fates, NEW handed, Shape(rows, fates, handed),
           NEW t \in Tasks, NEW u \in Tasks,
           rows[t].claim # NoClaim, rows[u].claim = rows[t].claim
    PROVE  u = t
PROOF
<1>1. ASSUME NEW v \in Tasks, rows[v].claim # NoClaim
      PROVE  handed[rows[v].claim].task = v
  <2>1. handed[rows[v].claim] =
          [task |-> v, version |-> rows[v].version,
           task_version |-> rows[v].task_version, phase |-> rows[v].phase]
    BY <1>1 DEF Shape
  <2> QED BY <2>1
<1> QED BY <1>1

\* Letting claims go keeps rows, fates and claims in step.
LEMMA LetsGoShape ==
    ASSUME NEW rows, NEW rows2, NEW fates, NEW fates2, NEW handed,
           Shape(rows, fates, handed), LetsGo(rows, rows2, fates, fates2)
    PROVE  Shape(rows2, fates2, handed)
PROOF
<1>1. rows2 \in [Tasks -> Rows] /\ fates2 \in [ClaimIds -> Fates]
  BY DEF LetsGo
<1>2. ASSUME NEW t \in Tasks, rows2[t].claim # NoClaim
      PROVE  /\ Kept(rows[t], rows2[t])
             /\ rows[t].claim \in ClaimIds
             /\ fates2[rows[t].claim] = "live"
  <2>1. Kept(rows[t], rows2[t])
    BY <1>2 DEF LetsGo, Stepped, Left
  <2>2. rows[t].claim = rows2[t].claim
    BY <2>1 DEF Kept
  <2>3. rows[t].claim \in ClaimIds /\ fates[rows[t].claim] = "live"
    BY <1>2, <2>2 DEF Shape
  <2>4. ~ \E u \in Tasks : rows[u].claim = rows[t].claim
                             /\ rows2[u].claim = NoClaim
    <3>1. SUFFICES ASSUME NEW u \in Tasks, rows[u].claim = rows[t].claim
                   PROVE  u = t
      BY <1>2
    <3> QED BY <1>2, <2>2, <3>1, OneTaskPerClaim
  <2> QED BY <2>1, <2>3, <2>4 DEF LetsGo
<1>3. ASSUME NEW t \in Tasks
      PROVE  /\ rows2[t].status = "running" <=> rows2[t].claim # NoClaim
             /\ rows2[t].claim # NoClaim =>
                  /\ rows2[t].claim \in ClaimIds
                  /\ fates2[rows2[t].claim] = "live"
                  /\ handed[rows2[t].claim] =
                       [task |-> t, version |-> rows2[t].version,
                        task_version |-> rows2[t].task_version,
                        phase |-> rows2[t].phase]
  <2>1. CASE rows2[t].claim = NoClaim
    BY <2>1 DEF LetsGo, Stepped, Left, Kept, Shape
  <2>2. CASE rows2[t].claim # NoClaim
    BY <1>2, <2>2 DEF Kept, Shape
  <2> QED BY <2>1, <2>2
<1>4. ASSUME NEW k \in ClaimIds, fates2[k] = "live"
      PROVE  \E t \in Tasks : rows2[t].claim = k
  BY <1>4 DEF LetsGo, Lost, Shape
<1> QED BY <1>1, <1>3, <1>4 DEF Shape

\* Nor does it use up attempts.
LEMMA LetsGoAttempts ==
    ASSUME NEW rows, NEW rows2, NEW fates, NEW fates2,
           Attempts(rows), LetsGo(rows, rows2, fates, fates2)
    PROVE  Attempts(rows2)
BY DEF Attempts, LetsGo, Stepped, Left, Kept, HasAttempts

\* An answer takes its claim from its row and touches no other row.
LEMMA AnsweringShape ==
    ASSUME NEW t \in Tasks, NEW k \in ClaimIds, ClaimInv, Answering(t, k)
    PROVE  Shape(wf', fate', claims') /\ Attempts(wf')
PROOF
<1>1. k # NoClaim
  BY ClaimIdsPositive
<1>2. /\ wf' \in [Tasks -> Rows]
      /\ fate' \in [ClaimIds -> Fates]
      /\ "recorded" \in Fates
  BY DEF Answering, ClaimInv, Shape, Fates
<1>3. ASSUME NEW u \in Tasks
      PROVE  /\ wf'[u].status = "running" <=> wf'[u].claim # NoClaim
             /\ wf'[u].claim # NoClaim =>
                  /\ wf'[u].claim \in ClaimIds
                  /\ fate'[wf'[u].claim] = "live"
                  /\ claims'[wf'[u].claim] =
                       [task |-> u, version |-> wf'[u].version,
                        task_version |-> wf'[u].task_version,
                        phase |-> wf'[u].phase]
             /\ HasAttempts(wf'[u])
  <2>1. CASE u = t
    BY <2>1 DEF Answering, Left, ClaimInv, Attempts
  <2>2. CASE u # t
    <3>1. wf'[u] = wf[u] /\ claims' = claims
      BY <2>2 DEF Answering
    <3>2. wf[u].claim # k
      BY <1>1, <2>2, OneTaskPerClaim DEF Answering, ClaimInv
    <3> QED BY <3>1, <3>2 DEF Answering, ClaimInv, Shape, Attempts
  <2> QED BY <2>1, <2>2
<1>4. ASSUME NEW j \in ClaimIds, fate'[j] = "live"
      PROVE  \E u \in Tasks : wf'[u].claim = j
  <2>1. j # k /\ fate[j] = "live"
    BY <1>4 DEF Answering, ClaimInv, Shape
  <2>2. PICK u \in Tasks : wf[u].claim = j
    BY <2>1 DEF ClaimInv, Shape
  <2> QED BY <2>1, <2>2 DEF Answering
<1> QED BY <1>2, <1>3, <1>4 DEF Shape, Attempts

\* A grant hands an unissued claim to a row that has none.
LEMMA GrantingShape ==
    ASSUME NEW t \in Tasks, NEW k \in ClaimIds, NEW rows, NEW fates,
           ClaimInv, Granting(t, k, rows, fates)
    PROVE  Shape(wf', fate', claims') /\ Attempts(wf')
PROOF
<1>1. Shape(rows, fates, claims) /\ Attempts(rows)
  BY LetsGoShape, LetsGoAttempts DEF Granting, ClaimInv
<1>2. k \in Nat /\ k # NoClaim
  BY ClaimIdsPositive
<1>3. rows \in [Tasks -> Rows] /\ rows[t] \in Rows
  BY <1>1 DEF Shape
<1>4. /\ wf'[t] = Claimed(rows[t], k)
      /\ \A u \in Tasks \ {t} : wf'[u] = rows[u]
      /\ DOMAIN wf' = Tasks
      /\ wf' = [u \in Tasks |-> wf'[u]]
  BY <1>3 DEF Granting
<1>5. /\ wf'[t] \in Rows
      /\ wf'[t].status = "running"
      /\ wf'[t].claim = k
      /\ wf'[t].version = rows[t].version + 1
      /\ wf'[t].task_version = rows[t].task_version
      /\ wf'[t].phase = rows[t].phase
      /\ HasAttempts(rows[t]) => HasAttempts(wf'[t])
  BY <1>2, <1>3, <1>4, ClaimedRuns DEF Granting
<1>6. /\ fate' = [fates EXCEPT ![k] = "live"]
      /\ fates \in [ClaimIds -> Fates] /\ fates[k] = "unissued"
      /\ fate' \in [ClaimIds -> Fates]
  BY <1>1 DEF Granting, Shape, Fates
<1>7. claims \in [ClaimIds -> ClaimRows \cup {NoClaimRow}]
  BY DEF ClaimInv, TypeOK
<1>8. wf' \in [Tasks -> Rows]
  BY <1>3, <1>4, <1>5
<1>9. ASSUME NEW u \in Tasks
      PROVE  /\ wf'[u].status = "running" <=> wf'[u].claim # NoClaim
             /\ wf'[u].claim # NoClaim =>
                  /\ wf'[u].claim \in ClaimIds
                  /\ fate'[wf'[u].claim] = "live"
                  /\ claims'[wf'[u].claim] =
                       [task |-> u, version |-> wf'[u].version,
                        task_version |-> wf'[u].task_version,
                        phase |-> wf'[u].phase]
             /\ HasAttempts(wf'[u])
  <2>1. CASE u = t
    <3>1. claims'[k] = [task |-> t, version |-> rows[t].version + 1,
                        task_version |-> rows[t].task_version,
                        phase |-> rows[t].phase]
      BY <1>7 DEF Granting
    <3> QED BY <1>1, <1>2, <1>5, <1>6, <2>1, <3>1 DEF Attempts
  <2>2. CASE u # t
    <3>1. wf'[u] = rows[u]
      BY <1>4, <2>2
    <3>2. rows[u].claim # k
      BY <1>1, <1>2, <1>6 DEF Shape
    <3>3. rows[u].claim \in ClaimIds => claims'[rows[u].claim] = claims[rows[u].claim]
      BY <1>7, <3>2 DEF Granting
    <3> QED BY <1>1, <1>6, <3>1, <3>2, <3>3 DEF Shape, Attempts
  <2> QED BY <2>1, <2>2
<1>10. ASSUME NEW j \in ClaimIds, fate'[j] = "live"
       PROVE  \E u \in Tasks : wf'[u].claim = j
  <2>1. CASE j = k
    BY <1>5, <2>1
  <2>2. CASE j # k
    <3>1. PICK u \in Tasks : rows[u].claim = j
      BY <1>1, <1>6, <1>10, <2>2 DEF Shape
    <3>2. rows[t].claim = NoClaim
      BY <1>1 DEF Granting, Shape
    <3>3. j # NoClaim
      BY ClaimIdsPositive
    <3> QED BY <1>4, <3>1, <3>2, <3>3
  <2> QED BY <2>1, <2>2
<1> QED BY <1>6, <1>8, <1>9, <1>10 DEF Shape, Attempts

-----------------------------------------------------------------------------
(* Every step of the service is of one of the three kinds                  *)

\* Rows that step on, the claims of S settled on the way.
LEMMA SettlesGo ==
    ASSUME NEW rows2, NEW fates2, NEW S, ClaimInv,
           rows2 \in [Tasks -> Rows],
           fates2 \in [ClaimIds -> Fates],
           \A t \in Tasks : Stepped(wf[t], rows2[t]),
           \A t \in S : t \in Tasks /\ rows2[t].claim = NoClaim,
           \A t \in Tasks \ S : rows2[t].claim = wf[t].claim,
           \A k \in ClaimIds : IF k \in ClaimsOf(wf, S) THEN fates2[k] \in Lost
                               ELSE fates2[k] = fate[k]
    PROVE  LetsGo(wf, rows2, fate, fates2)
BY DEF LetsGo, ClaimsOf

\* One row steps on and its claim, if it had one, is settled, ...
LEMMA OneRowSettles ==
    ASSUME NEW t \in Tasks, NEW s, NEW how \in Lost, ClaimInv,
           Left(wf[t], s)
    PROVE  LetsGo(wf, [wf EXCEPT ![t] = s], fate, Settle({wf[t].claim}, how))
PROOF
<1> DEFINE rows2 == [wf EXCEPT ![t] = s]
           fates2 == Settle({wf[t].claim}, how)
<1>1. wf \in [Tasks -> Rows] /\ fate \in [ClaimIds -> Fates]
  BY DEF ClaimInv, TypeOK
<1>2. how \in Fates /\ s \in Rows /\ s.claim = NoClaim
  BY DEF Lost, Left
<1>3. rows2 \in [Tasks -> Rows] /\ fates2 \in [ClaimIds -> Fates]
  BY <1>1, <1>2 DEF Settle
<1>4. \A u \in Tasks : Stepped(wf[u], rows2[u])
  BY <1>1 DEF Stepped, Kept
<1>5. /\ \A u \in {t} : u \in Tasks /\ rows2[u].claim = NoClaim
      /\ \A u \in Tasks \ {t} : rows2[u].claim = wf[u].claim
  BY <1>1, <1>2
<1>6. \A k \in ClaimIds : IF k \in ClaimsOf(wf, {t}) THEN fates2[k] \in Lost
                          ELSE fates2[k] = fate[k]
  BY DEF ClaimsOf, Settle
<1> HIDE DEF rows2, fates2
<1>7. LetsGo(wf, rows2, fate, fates2)
  BY <1>3, <1>4, <1>5, <1>6, SettlesGo
<1> QED BY <1>7 DEF rows2, fates2

\* ... or it keeps the claim it had or had not.
LEMMA OneRowMoves ==
    ASSUME NEW t \in Tasks, NEW s, ClaimInv,
           Stepped(wf[t], s), s.claim = wf[t].claim
    PROVE  LetsGo(wf, [wf EXCEPT ![t] = s], fate, fate)
PROOF
<1>1. wf \in [Tasks -> Rows] /\ fate \in [ClaimIds -> Fates]
  BY DEF ClaimInv, TypeOK
<1>2. s \in Rows
  BY DEF Stepped, Left, Kept
<1>3. \A u \in Tasks : Stepped(wf[u], [wf EXCEPT ![t] = s][u])
  BY <1>1 DEF Stepped, Kept
<1> QED BY <1>1, <1>2, <1>3 DEF LetsGo

\* A row that does not run has no claim to lose.
LEMMA WaitingRowLeaves ==
    ASSUME NEW t \in Tasks, NEW s, ClaimInv,
           wf[t].status # "running", Left(wf[t], s)
    PROVE  LetsGo(wf, [wf EXCEPT ![t] = s], fate, fate)
PROOF
<1>1. wf[t].claim = NoClaim
  BY DEF ClaimInv, Shape
<1> QED BY <1>1, OneRowMoves DEF Stepped, Left

LEMMA NothingGoes ==
    ASSUME ClaimInv, UNCHANGED <<wf, claims, fate, results>>
    PROVE  LettingGo
PROOF
<1>1. wf \in [Tasks -> Rows] /\ fate \in [ClaimIds -> Fates]
  BY DEF ClaimInv, TypeOK
<1>2. \A t \in Tasks : Stepped(wf[t], wf[t])
  BY <1>1 DEF Stepped, Kept
<1> QED BY <1>1, <1>2 DEF LettingGo, LetsGo

\* The holder of a claim: renewing, releasing, failing, answering.
LEMMA WorkSteps ==
    ASSUME NEW t \in Tasks, NEW k \in ClaimIds, ClaimInv, Work(t, k)
    PROVE  LedgerStep
PROOF
<1>1. wf[t] \in Rows /\ wf \in [Tasks -> Rows]
  BY DEF ClaimInv, TypeOK
<1>2. CASE Renew(t, k)
  <2> DEFINE s == Logged([wf[t] EXCEPT !.timer = LeaseTime,
                                       !.updated_now = TRUE], "claim_renewed")
  <2>1. Kept(wf[t], s)
    BY <1>1, RenewedKeeps
  <2>2. wf' = [wf EXCEPT ![t] = s] /\ UNCHANGED <<claims, fate, results>>
    BY <1>2 DEF Renew
  <2> HIDE DEF s
  <2> QED BY <2>1, <2>2, OneRowMoves DEF LedgerStep, LettingGo, Stepped, Kept
<1>3. CASE Release(t, k)
  <2>1. wf[t].status = "running" /\ wf[t].claim = k
    BY <1>3 DEF Release, Accepts
  <2>2. Left(wf[t], Released(wf[t]))
    BY <1>1, <2>1, ReleasedLeaves
  <2>3. /\ wf' = [wf EXCEPT ![t] = Released(wf[t])]
        /\ fate' = Settle({wf[t].claim}, "released")
        /\ UNCHANGED <<claims, results>>
    BY <1>3, <2>1 DEF Release
  <2>4. "released" \in Lost
    BY DEF Lost, Fates
  <2> QED BY <2>2, <2>3, <2>4, OneRowSettles DEF LedgerStep, LettingGo
<1>4. ASSUME NEW reason \in FailureReasons, Fail(t, k, reason)
      PROVE  LedgerStep
  <2>1. wf[t].status = "running" /\ wf[t].claim = k
    BY <1>4 DEF Fail, Accepts
  <2>2. Left(wf[t], Deferred(wf[t], reason))
    BY <1>1, <2>1, DeferredLeaves
  <2>3. /\ wf' = [wf EXCEPT ![t] = Deferred(wf[t], reason)]
        /\ fate' = Settle({wf[t].claim}, "failed")
        /\ UNCHANGED <<claims, results>>
    BY <1>4, <2>1 DEF Fail
  <2>4. "failed" \in Lost
    BY DEF Lost, Fates
  <2> QED BY <2>2, <2>3, <2>4, OneRowSettles DEF LedgerStep, LettingGo
<1>5. ASSUME NEW outcome \in Outcomes, NEW answer \in Answers,
             RecordResult(t, k, outcome, answer)
      PROVE  LedgerStep
  <2> DEFINE next == Advance(t, wf[t].phase, outcome)
  <2>1. next \in Phases
    BY <1>1 DEF Advance, GrantedAdvance, Phases, Rows
  <2>2. k \in Nat
    BY ClaimIdsPositive
  <2> DEFINE s == Recorded(wf[t], k, outcome, next)
  <2>3. wf' = [wf EXCEPT ![t] = s]
    BY <1>5 DEF RecordResult
  <2> HIDE DEF next
  <2>4. Left(wf[t], s)
    BY <1>1, <2>1, <2>2, RecordedLeaves
  <2> HIDE DEF s
  <2>5. fate' = [fate EXCEPT ![k] = "recorded"]
    BY <1>5 DEF RecordResult, Settle, ClaimInv, TypeOK
  <2>6. PICK r : r.claim = k /\ results' = results \cup {r}
    BY <1>5 DEF RecordResult
  <2>7. {q.claim : q \in results'} = {q.claim : q \in results} \cup {k}
    BY <2>6
  <2>8. wf[t].claim = k /\ claims' = claims
    BY <1>5 DEF RecordResult, Accepts
  <2>9. s \in Rows
    BY <2>4 DEF Left
  <2>10. Answering(t, k)
    BY <1>1, <2>3, <2>4, <2>5, <2>7, <2>8, <2>9 DEF Answering
  <2> QED BY <2>10 DEF LedgerStep
<1> QED BY <1>2, <1>3, <1>4, <1>5 DEF Work

\* The workflows of tasks that are gone, revised or withdrawn are cancelled.
LEMMA CancelStaleSteps ==
    ASSUME ClaimInv
    PROVE  LET rows == CancelStale(task, wf)
           IN /\ rows \in [Tasks -> Rows]
              /\ \A t \in Tasks : Stepped(wf[t], rows[t])
              /\ \A t \in Stale(task, wf) :
                   t \in Tasks /\ Left(wf[t], rows[t])
              /\ \A t \in Tasks \ Stale(task, wf) : rows[t] = wf[t]
PROOF
<1> DEFINE rows == CancelStale(task, wf)
<1>1. wf \in [Tasks -> Rows]
  BY DEF ClaimInv, TypeOK
<1>2. ASSUME NEW t \in Stale(task, wf)
      PROVE  t \in Tasks /\ Left(wf[t], rows[t]) /\ rows[t] \in Rows
  <2>1. t \in Tasks /\ rows[t] = Cancelled(wf[t])
    BY <1>2 DEF Stale, CancelStale
  <2>2. Left(wf[t], Cancelled(wf[t]))
    BY <1>1, <2>1, CancelledLeaves
  <2> QED BY <2>1, <2>2 DEF Left
<1>3. \A t \in Tasks \ Stale(task, wf) : rows[t] = wf[t]
  BY DEF CancelStale
<1>4. \A t \in Tasks : Stepped(wf[t], rows[t]) /\ rows[t] \in Rows
  BY <1>1, <1>2, <1>3 DEF Stepped, Kept
<1>5. rows \in [Tasks -> Rows]
  BY <1>4 DEF CancelStale
<1> QED BY <1>2, <1>3, <1>4, <1>5

\* Setting a priority cancels what is stale first.
LEMMA PrioritySteps ==
    ASSUME NEW t \in Tasks, NEW priority \in DOMAIN Rank, ClaimInv,
           SetPriority(t, priority)
    PROVE  LettingGo
PROOF
<1> DEFINE rows == CancelStale(task, wf)
           s == Prioritised(rows[t], priority)
           rows2 == [rows EXCEPT ![t] = s]
           fates2 == Settle(ClaimsOf(wf, Stale(task, wf)), "cancelled")
<1>1. /\ rows \in [Tasks -> Rows]
      /\ \A u \in Tasks : Stepped(wf[u], rows[u])
      /\ \A u \in Stale(task, wf) : u \in Tasks /\ rows[u].claim = NoClaim
      /\ \A u \in Tasks \ Stale(task, wf) : rows[u] = wf[u]
  BY CancelStaleSteps DEF Left
<1>2. /\ rows[t].status = "queued"
      /\ wf' = rows2
      /\ fate' = fates2
      /\ UNCHANGED <<claims, results>>
  BY DEF SetPriority
<1>3. priority \in {"raised", "normal", "lowered"}
  BY DEF Rank
<1>4. fates2 \in [ClaimIds -> Fates]
  BY DEF Settle, ClaimInv, TypeOK, Fates
<1>5. \A k \in ClaimIds :
        IF k \in ClaimsOf(wf, Stale(task, wf)) THEN fates2[k] \in Lost
        ELSE fates2[k] = fate[k]
  BY DEF Settle, Lost, Fates
<1> HIDE DEF rows, fates2
<1>6. rows[t] \in Rows /\ rows[t].claim = NoClaim
  BY <1>1, <1>2 DEF ClaimInv, Shape
<1>7. Left(rows[t], s)
  BY <1>2, <1>3, <1>6, PrioritisedLeaves
<1> HIDE DEF s
<1>8. wf[t] \in Rows
  BY DEF ClaimInv, TypeOK
<1>9. Stepped(wf[t], s) /\ s \in Rows /\ s.claim = NoClaim
  BY <1>1, <1>7, <1>8, SteppedTwice DEF Stepped, Left
<1>10. LetsGo(wf, rows2, fate, fates2)
  <2>1. rows2 \in [Tasks -> Rows]
    BY <1>1, <1>9
  <2>2. \A u \in Tasks : Stepped(wf[u], rows2[u])
    BY <1>1, <1>9
  <2>3. \A u \in Stale(task, wf) : u \in Tasks /\ rows2[u].claim = NoClaim
    BY <1>1, <1>9
  <2>4. \A u \in Tasks \ Stale(task, wf) : rows2[u].claim = wf[u].claim
    BY <1>1, <1>6, <1>9
  <2> HIDE DEF rows2
  <2> QED BY <1>4, <1>5, <2>1, <2>2, <2>3, <2>4, SettlesGo
<1> QED BY <1>2, <1>10 DEF LettingGo

\* The reader at a gate, a card or the queue.
LEMMA ReaderSteps ==
    ASSUME NEW t \in Tasks, ClaimInv, ReaderStep(t)
    PROVE  LedgerStep
PROOF
<1>1. /\ wf[t] \in Rows
      /\ wf \in [Tasks -> Rows]
      /\ task[t] \in TaskRows
      /\ task[t].version \in Nat /\ task[t].version + 1 \in Nat
  BY DEF ClaimInv, TypeOK, TaskRows
<1>2. ASSUME NEW action \in StartActions, StartAction(t, action)
      PROVE  LedgerStep
  <2>1. wf[t].status # "running"
    BY <1>2 DEF StartAction
  <2>2. Left(wf[t], Started(wf[t], action))
    BY <1>1, StartedLeaves
  <2>3. /\ wf' = [wf EXCEPT ![t] = Started(wf[t], action)]
        /\ UNCHANGED <<claims, fate, results>>
    BY <1>2 DEF StartAction
  <2> QED BY <2>1, <2>2, <2>3, WaitingRowLeaves DEF LedgerStep, LettingGo
<1>3. ASSUME NEW action \in ReviewActions, ReviewAction(t, action)
      PROVE  LedgerStep
  <2>1. /\ wf[t].status # "running"
        /\ action = "approve" => wf[t].last_outcome \in DOMAIN GateOpens
    BY <1>3 DEF ReviewAction
  <2>2. Left(wf[t], Reviewed(wf[t], action))
    BY <1>1, <2>1, ReviewedLeaves
  <2>3. /\ wf' = [wf EXCEPT ![t] = Reviewed(wf[t], action)]
        /\ UNCHANGED <<claims, fate, results>>
    BY <1>3 DEF ReviewAction
  <2> QED BY <2>1, <2>2, <2>3, WaitingRowLeaves DEF LedgerStep, LettingGo
<1>4. ASSUME NEW action \in {"done", "drop"}, LifecycleAction(t, action)
      PROVE  LedgerStep
  <2> DEFINE s == LifecycleClosed(wf[t], task[t].version + 1, action)
  <2>1. Left(wf[t], s)
    BY <1>1, LifecycleClosedLeaves
  <2>2. /\ wf' = [wf EXCEPT ![t] = s]
        /\ fate' = Settle({wf[t].claim}, "cancelled")
        /\ UNCHANGED <<claims, results>>
    BY <1>4 DEF LifecycleAction
  <2>3. "cancelled" \in Lost
    BY DEF Lost, Fates
  <2> HIDE DEF s
  <2> QED BY <2>1, <2>2, <2>3, OneRowSettles DEF LedgerStep, LettingGo
<1>5. CASE Steer(t)
  <2>1. Left(wf[t], Steered(wf[t]))
    BY <1>1, <1>5, SteeredLeaves DEF Steer
  <2>2. /\ wf' = [wf EXCEPT ![t] = Steered(wf[t])]
        /\ fate' = Settle({wf[t].claim}, "preempted")
        /\ UNCHANGED <<claims, results>>
    BY <1>5 DEF Steer
  <2>3. "preempted" \in Lost
    BY DEF Lost, Fates
  <2> QED BY <2>1, <2>2, <2>3, OneRowSettles DEF LedgerStep, LettingGo
<1>6. CASE Discuss(t)
  <2>1. wf[t].status # "running"
    BY <1>6 DEF Discuss, OnCard
  <2>2. Left(wf[t], Discussed(wf[t]))
    BY <1>1, DiscussedLeaves
  <2>3. /\ wf' = [wf EXCEPT ![t] = Discussed(wf[t])]
        /\ UNCHANGED <<claims, fate, results>>
    BY <1>6 DEF Discuss
  <2> QED BY <2>1, <2>2, <2>3, WaitingRowLeaves DEF LedgerStep, LettingGo
<1>7. CASE Reassign(t)
  <2> DEFINE s == Reassigned(wf[t], task[t].version + 1)
  <2>1. wf[t].status # "running"
    BY <1>7 DEF Reassign, OnCard
  <2>2. Left(wf[t], s)
    BY <1>1, ReassignedLeaves
  <2>3. /\ wf' = [wf EXCEPT ![t] = s]
        /\ UNCHANGED <<claims, fate, results>>
    BY <1>7 DEF Reassign
  <2> HIDE DEF s
  <2> QED BY <2>1, <2>2, <2>3, WaitingRowLeaves DEF LedgerStep, LettingGo
<1>8. CASE Retry(t)
  <2>1. wf[t].status # "running"
    BY <1>8 DEF Retry
  <2>2. Left(wf[t], Retried(wf[t]))
    BY <1>1, RetriedLeaves
  <2>3. /\ wf' = [wf EXCEPT ![t] = Retried(wf[t])]
        /\ UNCHANGED <<claims, fate, results>>
    BY <1>8 DEF Retry
  <2> QED BY <2>1, <2>2, <2>3, WaitingRowLeaves DEF LedgerStep, LettingGo
<1>9. ASSUME NEW priority \in DOMAIN Rank, SetPriority(t, priority)
      PROVE  LedgerStep
  BY <1>9, PrioritySteps DEF LedgerStep
<1> QED
  BY <1>2, <1>3, <1>4, <1>5, <1>6, <1>7, <1>8, <1>9 DEF ReaderStep

\* The operator: scheduling one task, profiles, configuration.
LEMMA OperatorSteps ==
    ASSUME NEW t \in Tasks, ClaimInv, OperatorStep(t)
    PROVE  LedgerStep
PROOF
<1>1. /\ wf[t] \in Rows
      /\ wf \in [Tasks -> Rows]
      /\ task[t].version \in Nat
  BY DEF ClaimInv, TypeOK, TaskRows
<1>2. CASE Schedule(t)
  <2> DEFINE s == Scheduled(wf[t], task[t].version, InitialStatus(t),
                            InitialPhase(t))
  <2>1. /\ InitialStatus(t) \in {"queued", "awaiting_start"}
        /\ InitialPhase(t) \in Phases
    BY DEF InitialStatus, InitialPhase, Phases
  <2>2. Left(wf[t], s)
    BY <1>1, <2>1, ScheduledLeaves
  <2>3. /\ wf' = [wf EXCEPT ![t] = s]
        /\ fate' = Settle({wf[t].claim}, "cancelled")
        /\ UNCHANGED <<claims, results>>
    BY <1>2 DEF Schedule
  <2>4. "cancelled" \in Lost
    BY DEF Lost, Fates
  <2> HIDE DEF s
  <2> QED BY <2>2, <2>3, <2>4, OneRowSettles DEF LedgerStep, LettingGo
<1>3. CASE LoseProfile(t)
  <2> DEFINE s == [wf[t] EXCEPT !.resolvable = FALSE]
  <2>1. Kept(wf[t], s)
    BY <1>1, UnresolvableKeeps
  <2>2. /\ wf' = [wf EXCEPT ![t] = s]
        /\ UNCHANGED <<claims, fate, results>>
    BY <1>1, <1>3 DEF LoseProfile
  <2> HIDE DEF s
  <2> QED BY <2>1, <2>2, OneRowMoves DEF LedgerStep, LettingGo, Stepped, Kept
<1>4. CASE Adopt(t)
  <2>1. wf[t].status # "running" /\ wf[t].claim = NoClaim
    BY <1>4 DEF Adopt, ClaimInv, Shape
  <2>2. Left(wf[t], Adopted(wf[t]))
    BY <1>1, <2>1, AdoptedLeaves
  <2>3. /\ wf' = [wf EXCEPT ![t] = Adopted(wf[t])]
        /\ UNCHANGED <<claims, fate, results>>
    BY <1>4 DEF Adopt
  <2> QED BY <2>1, <2>2, <2>3, WaitingRowLeaves DEF LedgerStep, LettingGo
<1>5. ASSUME NEW gate \in DOMAIN grants, Reconfigure(t, gate)
      PROVE  LedgerStep
  BY <1>5, NothingGoes DEF Reconfigure, LedgerStep
<1> QED BY <1>2, <1>3, <1>4, <1>5 DEF OperatorStep

\* The feed and the ledger: only a forge item that closes touches a workflow.
LEMMA SourceSteps ==
    ASSUME NEW t \in Tasks, ClaimInv, SourceStep(t)
    PROVE  LettingGo
PROOF
<1>1. CASE UNCHANGED <<wf, claims, fate, results>>
  BY <1>1, NothingGoes
<1>2. ASSUME NEW action \in {"done", "drop"}, SourceWithdraws(t, action)
      PROVE  LettingGo
  <2>1. UNCHANGED <<claims, fate, results>>
    BY <1>2 DEF SourceWithdraws
  <2>2. CASE wf' = wf
    BY <2>1, <2>2, NothingGoes
  <2>3. CASE wf' # wf
    <3> DEFINE version == ClosedBySource(task[t], action).version
    <3>1. /\ wf' = [wf EXCEPT ![t] = ClosedRow(wf[t], version, action)]
          /\ wf[t].status # "running"
      BY <1>2, <2>3 DEF SourceWithdraws
    <3>2. version \in Nat
      <4>1. task[t] \in TaskRows
        BY DEF ClaimInv, TypeOK
      <4>2. version = task[t].version + 1
        BY <4>1 DEF ClosedBySource, NextVersion, Bound, TaskRows
      <4> QED BY <4>1, <4>2 DEF TaskRows
    <3> HIDE DEF version
    <3>3. wf[t] \in Rows /\ wf \in [Tasks -> Rows]
      BY DEF ClaimInv, TypeOK
    <3>4. ClosedRow(wf[t], version, action) # wf[t]
      BY <2>3, <3>1, <3>3
    <3>5. ClosedRow(wf[t], version, action) =
            LifecycleClosed(wf[t], version, action)
      BY <3>4 DEF ClosedRow
    <3>6. Left(wf[t], LifecycleClosed(wf[t], version, action))
      BY <3>2, <3>3, LifecycleClosedLeaves
    <3> QED BY <2>1, <3>1, <3>5, <3>6, WaitingRowLeaves DEF LettingGo
  <2> QED BY <2>2, <2>3
<1> QED
  BY <1>1, <1>2
  DEF SourceStep, EditTask, CloseTask, ReopenTask, SourceReturns,
      ConditionMet, ResearchMoves

\* Time passes for every row and for no claim.
LEMMA TickSteps ==
    ASSUME ClaimInv, Tick
    PROVE  LettingGo
PROOF
<1>1. wf \in [Tasks -> Rows] /\ fate \in [ClaimIds -> Fates]
  BY DEF ClaimInv, TypeOK
<1>2. /\ wf' = [t \in Tasks |-> Aged(wf[t])]
      /\ UNCHANGED <<claims, fate, results>>
  BY DEF Tick
<1>3. \A t \in Tasks : Kept(wf[t], wf'[t]) /\ wf'[t] \in Rows
  BY <1>1, <1>2, AgedKeeps DEF Kept
<1>4. wf' \in [Tasks -> Rows]
  BY <1>2, <1>3
<1>5. LetsGo(wf, wf', fate, fate')
  BY <1>1, <1>2, <1>3, <1>4 DEF LetsGo, Stepped, Kept
<1> QED BY <1>2, <1>5 DEF LettingGo

-----------------------------------------------------------------------------
(* claim_next                                                              *)

\* The sweep that opens every claim pass: stale rows, then expired leases.
LEMMA SweepGoes ==
    ASSUME ClaimInv
    PROVE  LetsGo(wf, SweptRows, fate, SweptFate)
PROOF
<1> DEFINE cs == CancelStale(task, wf)
           S == Stale(task, wf) \cup Expired(cs)
<1>1. /\ cs \in [Tasks -> Rows]
      /\ \A t \in Tasks : Stepped(wf[t], cs[t])
      /\ \A t \in Stale(task, wf) : t \in Tasks /\ Left(wf[t], cs[t])
      /\ \A t \in Tasks \ Stale(task, wf) : cs[t] = wf[t]
  BY CancelStaleSteps
<1>2. SweptRows = [t \in Tasks |-> IF t \in Expired(cs)
                                   THEN Deferred(cs[t], "other") ELSE cs[t]]
  BY DEF SweptRows, RecoverExpired
<1>3. \A k \in ClaimIds :
        IF k \in ClaimsOf(wf, S) THEN SweptFate[k] \in Lost
        ELSE SweptFate[k] = fate[k]
  BY DEF SweptFate, ClaimsOf, Lost, Fates
<1>4. SweptFate \in [ClaimIds -> Fates]
  BY DEF SweptFate, ClaimInv, TypeOK, Fates
<1> HIDE DEF cs
<1>5. ASSUME NEW t \in Expired(cs)
      PROVE  /\ t \in Tasks
             /\ t \notin Stale(task, wf)
             /\ Left(wf[t], SweptRows[t])
  <2>1. t \in Tasks /\ cs[t].status = "running"
    BY DEF Expired
  <2>2. t \notin Stale(task, wf)
    BY <1>1, <2>1 DEF Left
  <2>3. "other" \in FailureReasons
    BY DEF FailureReasons
  <2>4. Left(cs[t], Deferred(cs[t], "other"))
    BY <1>1, <2>1, <2>3, DeferredLeaves
  <2> QED BY <1>1, <1>2, <2>1, <2>2, <2>4
<1>6. \A t \in Tasks \ Expired(cs) : SweptRows[t] = cs[t]
  BY <1>2
<1>7. \A t \in Tasks : Stepped(wf[t], SweptRows[t]) /\ SweptRows[t] \in Rows
  BY <1>1, <1>5, <1>6 DEF Stepped, Left
<1>8. SweptRows \in [Tasks -> Rows]
  BY <1>2, <1>7
<1>9. \A t \in S : t \in Tasks /\ SweptRows[t].claim = NoClaim
  BY <1>1, <1>5, <1>6 DEF Left
<1>10. \A t \in Tasks \ S : SweptRows[t].claim = wf[t].claim
  BY <1>1, <1>6
<1> HIDE DEF S
<1> QED BY <1>3, <1>4, <1>7, <1>8, <1>9, <1>10, SettlesGo

\* What runs after the sweep still runs for the task as it is.
LEMMA SweptRunIsCurrent ==
    ASSUME ClaimInv, NEW t \in Running(SweptRows)
    PROVE  t \in Tasks /\ Current(task, SweptRows, t)
PROOF
<1> DEFINE cs == CancelStale(task, wf)
<1>1. t \in Tasks /\ SweptRows[t].status = "running"
  BY DEF Running
<1>2. SweptRows[t] = IF t \in Expired(cs) THEN Deferred(cs[t], "other")
                     ELSE cs[t]
  BY <1>1 DEF SweptRows, RecoverExpired
<1>3. t \notin Expired(cs)
  <2>1. SUFFICES ASSUME t \in Expired(cs) PROVE FALSE
    OBVIOUS
  <2>2. "other" \in FailureReasons /\ cs[t].status = "running" /\ cs[t] \in Rows
    BY <2>1, CancelStaleSteps DEF FailureReasons, Expired
  <2>3. Left(cs[t], Deferred(cs[t], "other"))
    BY <2>2, DeferredLeaves
  <2> QED BY <1>1, <1>2, <2>1, <2>3 DEF Left
<1>4. t \notin Stale(task, wf)
  BY <1>1, <1>2, <1>3, CancelStaleSteps DEF Left
<1>5. SweptRows[t] = wf[t]
  BY <1>1, <1>2, <1>3, <1>4, CancelStaleSteps
<1> QED BY <1>1, <1>4, <1>5 DEF Stale, Current, Terminal

\* The scan adds rows it holds or defers, none of which has a claim.
LEMMA ScanGoes ==
    ASSUME NEW rows, NEW fates, NEW tasks, NEW phases, NEW passed,
           ClaimInv, LetsGo(wf, rows, fate, fates),
           passed \subseteq Claimable(rows, phases),
           \A t \in With(tasks, rows, passed, "hold") : rows[t].status = "queued"
    PROVE  LET scanned == PassedRows(tasks, rows, passed)
           IN /\ LetsGo(wf, scanned, fate, fates)
              /\ \A t \in Tasks \ passed : scanned[t] = rows[t]
              /\ Running(scanned) = Running(rows)
PROOF
<1> DEFINE scanned == PassedRows(tasks, rows, passed)
           held == With(tasks, rows, passed, "hold")
           deferred == With(tasks, rows, passed, "defer")
<1>1. Shape(rows, fates, claims)
  BY LetsGoShape DEF ClaimInv
<1>2. rows \in [Tasks -> Rows] /\ fates \in [ClaimIds -> Fates]
  BY <1>1 DEF Shape
<1>3. ASSUME NEW t \in passed
      PROVE  /\ t \in Tasks
             /\ rows[t].status \in {"queued", "parked"}
             /\ rows[t].claim = NoClaim
  BY <1>1, <1>3 DEF Claimable, Shape
<1>4. held \subseteq passed /\ deferred \subseteq passed
  BY DEF With
<1>5. scanned = [t \in Tasks |-> IF t \in held THEN HeldForOwner(rows[t])
                                 ELSE IF t \in deferred
                                 THEN Deferred(rows[t], "other") ELSE rows[t]]
  BY DEF PassedRows
<1>6. ASSUME NEW t \in passed
      PROVE  /\ Stepped(rows[t], scanned[t])
             /\ scanned[t] \in Rows
             /\ scanned[t].claim = NoClaim
             /\ scanned[t].status # "running"
  <2>1. t \in Tasks /\ rows[t] \in Rows /\ rows[t].claim = NoClaim
    BY <1>2, <1>3
  <2>2. CASE t \in held
    BY <1>5, <2>1, <2>2, HeldForOwnerLeaves DEF Stepped, Left
  <2>3. CASE t \notin held /\ t \in deferred
    <3>1. "other" \in FailureReasons
      BY DEF FailureReasons
    <3> QED BY <1>5, <2>1, <2>3, <3>1, DeferredLeaves DEF Stepped, Left
  <2>4. CASE t \notin held /\ t \notin deferred
    BY <1>3, <1>5, <2>1, <2>4 DEF Stepped, Kept
  <2> QED BY <2>2, <2>3, <2>4
<1>7. \A t \in Tasks \ passed : scanned[t] = rows[t]
  BY <1>4, <1>5
<1> HIDE DEF held, deferred
<1>8. DOMAIN scanned = Tasks /\ scanned = [t \in Tasks |-> scanned[t]]
  BY <1>5
<1> HIDE DEF scanned
<1>9. \A t \in Tasks : /\ Stepped(rows[t], scanned[t])
                       /\ scanned[t] \in Rows
                       /\ scanned[t].claim = rows[t].claim
  BY <1>2, <1>3, <1>6, <1>7 DEF Stepped, Kept
<1>10. scanned \in [Tasks -> Rows]
  BY <1>8, <1>9
<1>11. \A t \in Tasks : Stepped(wf[t], scanned[t])
  <2>1. \A t \in Tasks : wf[t] \in Rows
    BY DEF ClaimInv, TypeOK
  <2> QED BY <1>9, <2>1, SteppedTwice DEF LetsGo
<1>12. LetsGo(wf, scanned, fate, fates)
  BY <1>9, <1>10, <1>11 DEF LetsGo
<1>13. Running(scanned) = Running(rows)
  BY <1>3, <1>6, <1>7 DEF Running
<1> QED BY <1>7, <1>12, <1>13 DEF scanned

\* One pass of one runner.
LEMMA ClaimNextSteps ==
    ASSUME ClaimInv, ClaimNext
    PROVE  LedgerStep
PROOF
<1>1. LetsGo(wf, SweptRows, fate, SweptFate)
  BY SweepGoes
<1>2. CASE SlotsBusy
  BY <1>1, <1>2 DEF SlotsBusy, LedgerStep, LettingGo
<1>3. ASSUME NEW phases \in Allowlists, NothingToClaim(phases)
      PROVE  LedgerStep
  <2> DEFINE tasks == SweptTasks(SweptRows)
  <2>1. PICK passed \in SUBSET Claimable(SweptRows, phases) :
          /\ \A t \in With(tasks, SweptRows, passed, "hold") :
               SweptRows[t].status = "queued"
          /\ wf' = PassedRows(tasks, SweptRows, passed)
    BY <1>3 DEF NothingToClaim, PassesOver
  <2>2. fate' = SweptFate /\ UNCHANGED <<claims, results>>
    BY <1>3 DEF NothingToClaim
  <2> HIDE DEF tasks
  <2>3. LetsGo(wf, wf', fate, fate')
    BY <1>1, <2>1, <2>2, ScanGoes
  <2> QED BY <2>2, <2>3 DEF LedgerStep, LettingGo
<1>4. ASSUME NEW phases \in Allowlists, NEW t \in Tasks, NEW k \in ClaimIds,
             Claim(phases, t, k)
      PROVE  LedgerStep
  <2> DEFINE tasks == SweptTasks(SweptRows)
  <2>1. PICK passed \in SUBSET (Claimable(SweptRows, phases) \ {t}) :
          /\ \A u \in With(tasks, SweptRows, passed, "hold") :
               SweptRows[u].status = "queued"
          /\ wf' = [PassedRows(tasks, SweptRows, passed) EXCEPT
                      ![t] = Claimed(@, k)]
    BY <1>4 DEF Claim, PassesOver
  <2>2. /\ fate[k] = "unissued"
        /\ SlotFree(SweptRows)
        /\ t \in Claimable(SweptRows, phases)
        /\ claims' = [claims EXCEPT ![k] =
                        [task |-> t, version |-> SweptRows[t].version + 1,
                         task_version |-> SweptRows[t].task_version,
                         phase |-> SweptRows[t].phase]]
        /\ fate' = [SweptFate EXCEPT ![k] = "live"]
        /\ results' = results
    BY <1>4 DEF Claim, NextClaim
  <2> DEFINE scanned == PassedRows(tasks, SweptRows, passed)
  <2>3. wf' = [scanned EXCEPT ![t] = Claimed(scanned[t], k)]
    BY <2>1
  <2> HIDE DEF tasks
  <2>4. /\ LetsGo(wf, scanned, fate, SweptFate)
        /\ scanned[t] = SweptRows[t]
        /\ Running(scanned) = Running(SweptRows)
    BY <1>1, <2>1, ScanGoes
  <2> HIDE DEF scanned
  <2>5. SweptFate[k] = "unissued"
    <3>1. ~ \E u \in Tasks : wf[u].claim = k
      BY <2>2, ClaimIdsPositive DEF ClaimInv, Shape
    <3> QED BY <1>1, <2>2, <3>1 DEF LetsGo
  <2>6. Cardinality(Running(scanned)) < SlotCap
    <3>1. {u \in Running(SweptRows) : Current(task, SweptRows, u)}
            = Running(SweptRows)
      BY SweptRunIsCurrent
    <3> QED BY <2>2, <2>4, <3>1 DEF SlotFree
  <2>7. scanned[t].status \in {"queued", "parked"}
    BY <2>2, <2>4 DEF Claimable
  <2>8. Granting(t, k, scanned, SweptFate)
    BY <2>2, <2>3, <2>4, <2>5, <2>6, <2>7 DEF Granting
  <2> QED BY <2>8 DEF LedgerStep
<1> QED BY <1>2, <1>3, <1>4 DEF ClaimNext

-----------------------------------------------------------------------------
(* schedule_new                                                            *)

\* One pass of the scheduler leaves every running row that is not stale alone.
LEMMA ScheduleNewSteps ==
    ASSUME ClaimInv, ScheduleNew
    PROVE  LettingGo
PROOF
<1> DEFINE fresh == CancelStale(task, wf)
           promoted == Promotable(fresh)
           advanced == Advanceable(fresh)
           next(t) == Advance(t, fresh[t].phase, fresh[t].last_outcome)
           opened == [t \in Tasks |->
                        IF t \in promoted THEN Promoted(fresh[t])
                        ELSE IF t \in advanced
                        THEN GateGranted(fresh[t], next(t))
                        ELSE fresh[t]]
           closing == Abandoned(opened)
           tasks == [t \in Tasks |-> IF t \in closing
                                     THEN ClosedBySource(task[t], "done")
                                     ELSE task[t]]
           rows == [t \in Tasks |->
                      IF t \in closing
                      THEN ClosedRow(opened[t], tasks[t].version, "done")
                      ELSE opened[t]]
<1>1. PICK S \in SUBSET Eligible(tasks, rows) :
        wf' = [t \in Tasks |->
                 IF t \in S
                 THEN Scheduled(rows[t], tasks[t].version, InitialStatus(t),
                                InitialPhase(t))
                 ELSE rows[t]]
  BY DEF ScheduleNew
<1>2. /\ fate' = Settle(ClaimsOf(wf, Stale(task, wf)), "cancelled")
      /\ UNCHANGED <<claims, results>>
  BY DEF ScheduleNew
<1>3. /\ \A t \in Tasks : Stepped(wf[t], fresh[t]) /\ fresh[t] \in Rows
      /\ \A t \in Stale(task, wf) : t \in Tasks /\ Left(wf[t], fresh[t])
      /\ \A t \in Tasks \ Stale(task, wf) : fresh[t] = wf[t]
  BY CancelStaleSteps
<1> HIDE DEF fresh
<1>4. ASSUME NEW t \in Tasks
      PROVE  /\ Stepped(fresh[t], opened[t])
             /\ opened[t] \in Rows
             /\ fresh[t].status = "running" => opened[t] = fresh[t]
  <2>1. fresh[t] \in Rows /\ next(t) \in Phases
    BY <1>3 DEF Advance, GrantedAdvance, Phases, Rows
  <2> HIDE DEF next
  <2>2. CASE t \in promoted
    <3>1. fresh[t].status = "awaiting_start"
      BY <2>2 DEF Promotable
    <3>2. Left(fresh[t], Promoted(fresh[t]))
      BY <2>1, <3>1, PromotedLeaves
    <3> QED BY <2>2, <3>1, <3>2 DEF Stepped, Left
  <2>3. CASE t \notin promoted /\ t \in advanced
    <3>1. fresh[t].status = "awaiting_review"
      BY <2>3 DEF Advanceable
    <3>2. Left(fresh[t], GateGranted(fresh[t], next(t)))
      BY <2>1, GateGrantedLeaves
    <3>3. opened[t] = GateGranted(fresh[t], next(t))
      BY <2>3
    <3> QED BY <3>1, <3>2, <3>3 DEF Stepped, Left
  <2>4. CASE t \notin promoted /\ t \notin advanced
    BY <2>1, <2>4 DEF Stepped, Kept
  <2> QED BY <2>2, <2>3, <2>4
<1> HIDE DEF opened
<1>5. ASSUME NEW t \in Tasks
      PROVE  tasks[t].version \in Nat
  <2>1. task[t] \in TaskRows
    BY DEF ClaimInv, TypeOK
  <2>2. ClosedBySource(task[t], "done").version = task[t].version + 1
    BY <2>1 DEF ClosedBySource, NextVersion, Bound, TaskRows
  <2> QED BY <2>1, <2>2 DEF TaskRows
<1>6. ASSUME NEW t \in Tasks
      PROVE  /\ Stepped(opened[t], rows[t])
             /\ rows[t] \in Rows
             /\ opened[t].status = "running" =>
                  rows[t] = opened[t] /\ tasks[t] = task[t]
  <2>1. CASE t \in closing
    <3> DEFINE version == tasks[t].version
    <3>1. opened[t].status # "running"
      BY <2>1 DEF Abandoned
    <3>2. rows[t] = ClosedRow(opened[t], version, "done")
      BY <2>1
    <3>3. opened[t] \in Rows /\ version \in Nat
      BY <1>4, <1>5
    <3> HIDE DEF version
    <3>4. Left(opened[t], LifecycleClosed(opened[t], version, "done"))
      BY <3>3, LifecycleClosedLeaves
    <3>5. rows[t] \in {opened[t], LifecycleClosed(opened[t], version, "done")}
      BY <3>2 DEF ClosedRow
    <3> QED BY <3>1, <3>3, <3>4, <3>5 DEF Stepped, Left, Kept
  <2>2. CASE t \notin closing
    BY <1>4, <2>2 DEF Stepped, Kept
  <2> QED BY <2>1, <2>2
<1> HIDE DEF tasks, rows
<1>7. ASSUME NEW t \in Tasks
      PROVE  /\ Stepped(rows[t], wf'[t])
             /\ wf'[t] \in Rows
             /\ fresh[t].status = "running" => wf'[t] = fresh[t]
  <2>1. CASE t \in S
    <3>1. /\ InitialStatus(t) \in {"queued", "awaiting_start"}
          /\ InitialPhase(t) \in Phases
      BY DEF InitialStatus, InitialPhase, Phases
    <3>2. Left(rows[t], wf'[t])
      BY <1>1, <1>5, <1>6, <2>1, <3>1, ScheduledLeaves
    <3>3. fresh[t].status # "running"
      <4>1. SUFFICES ASSUME fresh[t].status = "running" PROVE FALSE
        OBVIOUS
      <4>2. rows[t] = fresh[t] /\ tasks[t] = task[t]
        BY <1>4, <1>6, <4>1
      <4>3. t \notin Stale(task, wf) /\ fresh[t] = wf[t]
        BY <1>3, <4>1 DEF Left
      <4>4. wf[t].task_version = task[t].version
        BY <4>1, <4>3 DEF Stale, Current, Terminal
      <4>5. \/ rows[t].status = "absent"
               \/ rows[t].task_version # tasks[t].version
        BY <2>1 DEF Eligible
      <4> QED BY <4>1, <4>2, <4>3, <4>4, <4>5
    <3> QED BY <3>2, <3>3 DEF Stepped, Left
  <2>2. CASE t \notin S
    BY <1>1, <1>4, <1>6, <2>2 DEF Stepped, Kept
  <2> QED BY <2>1, <2>2
<1>8. ASSUME NEW t \in Tasks
      PROVE  Stepped(wf[t], wf'[t])
  <2>1. wf[t] \in Rows /\ fresh[t] \in Rows /\ opened[t] \in Rows
    BY <1>3, <1>4 DEF ClaimInv, TypeOK
  <2>2. Stepped(wf[t], opened[t])
    BY <1>3, <1>4, <2>1, SteppedTwice
  <2>3. Stepped(wf[t], rows[t])
    BY <1>6, <2>1, <2>2, SteppedTwice
  <2> QED BY <1>7, <2>1, <2>3, SteppedTwice
<1>9. ASSUME NEW t \in Tasks, fresh[t].status # "running"
      PROVE  fresh[t].claim = NoClaim /\ wf'[t].claim = NoClaim
  <2>1. fresh[t].claim = NoClaim
    BY <1>3, <1>9 DEF Left, ClaimInv, Shape
  <2> QED BY <1>4, <1>6, <1>7, <2>1 DEF Stepped, Left, Kept
<1>10. \A t \in Stale(task, wf) : t \in Tasks /\ wf'[t].claim = NoClaim
  BY <1>3, <1>9 DEF Left
<1>11. \A t \in Tasks \ Stale(task, wf) : wf'[t].claim = wf[t].claim
  BY <1>3, <1>7, <1>9
<1>12. wf' \in [Tasks -> Rows]
  BY <1>1, <1>7
<1>13. fate' \in [ClaimIds -> Fates]
  BY <1>2 DEF Settle, ClaimInv, TypeOK, Fates
<1>14. \A k \in ClaimIds :
         IF k \in ClaimsOf(wf, Stale(task, wf)) THEN fate'[k] \in Lost
         ELSE fate'[k] = fate[k]
  BY <1>2 DEF Settle, Lost, Fates
<1>15. LetsGo(wf, wf', fate, fate')
  BY <1>8, <1>10, <1>11, <1>12, <1>13, <1>14, SettlesGo
<1> QED BY <1>2, <1>15 DEF LettingGo

\* Every step of the service is a ledger step.
LEMMA NextSteps ==
    ASSUME ClaimInv, [Next]_vars
    PROVE  LedgerStep
PROOF
<1>1. CASE UNCHANGED vars
  BY <1>1, NothingGoes DEF vars, LedgerStep
<1>2. CASE Next
  BY <1>2, ScheduleNewSteps, ClaimNextSteps, TickSteps, WorkSteps,
     ReaderSteps, OperatorSteps, SourceSteps
  DEF Next, LedgerStep
<1> QED BY <1>1, <1>2

-----------------------------------------------------------------------------
(* Types                                                                   *)

LEMMA NextVersionType ==
    ASSUME NEW row \in TaskRows
    PROVE  NextVersion(row) \in TaskRows
PROOF
<1>1. row.version + 1 \in Nat
  BY DEF TaskRows
<1> QED BY <1>1 DEF NextVersion, TaskRows, ResearchStates

LEMMA BoundType ==
    ASSUME NEW row \in TaskRows
    PROVE  Bound(row) \in TaskRows
BY DEF Bound, TaskRows

LEMMA ClosedBySourceType ==
    ASSUME NEW row \in TaskRows, NEW action
    PROVE  ClosedBySource(row, action) \in TaskRows
PROOF
<1> DEFINE a == NextVersion(row)
           b == [a EXCEPT !.status = IF action = "done" THEN "done"
                                     ELSE "dropped",
                          !.source = "closed_by_source"]
<1>1. a \in TaskRows
  BY NextVersionType
<1>2. ClosedBySource(row, action) = Bound(b)
  BY DEF ClosedBySource
<1> HIDE DEF a
<1>3. b \in TaskRows
  BY <1>1 DEF TaskRows, Withdrawals
<1> HIDE DEF b
<1> QED BY <1>2, <1>3, BoundType

LEMMA ReopenedType ==
    ASSUME NEW row \in TaskRows
    PROVE  Reopened(row) \in TaskRows
PROOF
<1> DEFINE a == NextVersion(row)
           reopened == IF row.status = "done" THEN row.version + 1
                       ELSE a.reopened
           b == [a EXCEPT !.status = "open", !.reopened = reopened]
<1>1. a \in TaskRows
  BY NextVersionType
<1>2. Reopened(row) = b
  BY DEF Reopened
<1> HIDE DEF a
<1>3. reopened \in Nat
  BY <1>1 DEF TaskRows
<1> HIDE DEF reopened
<1> QED BY <1>1, <1>2, <1>3 DEF TaskRows

\* Every writer of the tasks table leaves rows behind.
LEMMA TaskType ==
    ASSUME ClaimInv, Next
    PROVE  task' \in [Tasks -> TaskRows]
PROOF
<1>1. task \in [Tasks -> TaskRows]
  BY DEF ClaimInv, TypeOK
<1>2. CASE ScheduleNew
  <2>1. PICK C : task' = [t \in Tasks |-> IF t \in C
                                          THEN ClosedBySource(task[t], "done")
                                          ELSE task[t]]
    BY <1>2 DEF ScheduleNew
  <2> QED BY <1>1, <2>1, ClosedBySourceType
<1>3. CASE ClaimNext
  <2>1. ASSUME NEW rows PROVE SweptTasks(rows) \in [Tasks -> TaskRows]
    BY <1>1 DEF SweptTasks, TaskRows, ResearchStates
  <2>2. CASE SlotsBusy
    BY <2>1, <2>2 DEF SlotsBusy
  <2>3. ASSUME NEW passed, PassesOver(SweptTasks(SweptRows), SweptRows, passed)
        PROVE  task' \in [Tasks -> TaskRows]
    <3> DEFINE tasks == SweptTasks(SweptRows)
    <3>1. tasks \in [Tasks -> TaskRows]
      BY <2>1
    <3>2. task' = [t \in Tasks |->
                     IF t \in With(tasks, SweptRows, passed, "hold")
                     THEN [tasks[t] EXCEPT !.review = "pending"] ELSE tasks[t]]
      BY <2>3 DEF PassesOver
    <3> HIDE DEF tasks
    <3> QED BY <3>1, <3>2 DEF TaskRows
  <2> QED BY <1>3, <2>2, <2>3 DEF ClaimNext, NothingToClaim, Claim
<1>4. CASE Tick
  BY <1>1, <1>4 DEF Tick
<1>5. ASSUME NEW t \in Tasks, NEW k \in ClaimIds, Work(t, k)
      PROVE  task' \in [Tasks -> TaskRows]
  BY <1>1, <1>5 DEF Work, Renew, Release, Fail, RecordResult
<1>6. ASSUME NEW t \in Tasks, ReaderStep(t)
      PROVE  task' \in [Tasks -> TaskRows]
  <2>1. ASSUME NEW action, StartAction(t, action)
        PROVE  task' \in [Tasks -> TaskRows]
    <3> DEFINE decided == [task[t] EXCEPT !.review = "decided", !.owner_pinned = TRUE]
    <3>1. task[t] \in TaskRows
      BY <1>1
    <3>2. decided \in TaskRows
      BY <3>1 DEF TaskRows
    <3>3. task' = [task EXCEPT ![t] = decided] \/ task' = task
      BY <1>1, <2>1 DEF StartAction, TaskRows
    <3> HIDE DEF decided
    <3> QED BY <1>1, <3>2, <3>3
  <2>2. ASSUME NEW action, LifecycleAction(t, action)
        PROVE  task' \in [Tasks -> TaskRows]
    <3> DEFINE a == NextVersion(task[t])
               b == [a EXCEPT !.status = IF action = "done" THEN "done"
                                         ELSE "dropped"]
    <3>1. a \in TaskRows
      BY <1>1, NextVersionType
    <3>2. task' = [task EXCEPT ![t] = b]
      BY <2>2 DEF LifecycleAction
    <3> HIDE DEF a
    <3>3. b \in TaskRows
      BY <3>1 DEF TaskRows
    <3> QED BY <1>1, <3>2, <3>3
  <2>3. CASE Reassign(t)
    <3> DEFINE a == NextVersion(task[t])
               b == [a EXCEPT !.owner_pinned = TRUE]
    <3>1. a \in TaskRows
      BY <1>1, NextVersionType
    <3>2. task' = [task EXCEPT ![t] = b]
      BY <2>3 DEF Reassign
    <3> HIDE DEF a
    <3>3. b \in TaskRows
      BY <3>1 DEF TaskRows
    <3> QED BY <1>1, <3>2, <3>3
  <2> QED BY <1>1, <1>6, <2>1, <2>2, <2>3
          DEF ReaderStep, ReviewAction, Steer, Discuss, Retry, SetPriority
<1>7. ASSUME NEW t \in Tasks, OperatorStep(t)
      PROVE  task' \in [Tasks -> TaskRows]
  BY <1>1, <1>7 DEF OperatorStep, Schedule, LoseProfile, Adopt, Reconfigure
<1>8. ASSUME NEW t \in Tasks, SourceStep(t)
      PROVE  task' \in [Tasks -> TaskRows]
  <2> DEFINE next == NextVersion(task[t])
  <2>1. next \in TaskRows /\ Bound(next) \in TaskRows
    BY <1>1, NextVersionType, BoundType
  <2>2. CASE EditTask(t)
    BY <1>1, <2>1, <2>2 DEF EditTask
  <2>3. ASSUME NEW status \in {"done", "dropped"}, CloseTask(t, status)
        PROVE  task' \in [Tasks -> TaskRows]
    <3>1. task' = [task EXCEPT ![t] = [next EXCEPT !.status = status]]
      BY <2>3 DEF CloseTask
    <3> HIDE DEF next
    <3>2. [next EXCEPT !.status = status] \in TaskRows
      BY <2>1 DEF TaskRows
    <3> QED BY <1>1, <3>1, <3>2
  <2>4. ASSUME NEW bySource \in BOOLEAN, ReopenTask(t, bySource)
        PROVE  task' \in [Tasks -> TaskRows]
    <3>1. Reopened(task[t]) \in TaskRows /\ Bound(Reopened(task[t])) \in TaskRows
      BY <1>1, ReopenedType, BoundType
    <3> QED BY <1>1, <2>4, <3>1 DEF ReopenTask
  <2>5. ASSUME NEW action, SourceWithdraws(t, action)
        PROVE  task' \in [Tasks -> TaskRows]
    <3> DEFINE closed == ClosedBySource(task[t], action)
               bound == Bound(next)
               kept == [bound EXCEPT !.source = "preserved_open"]
               here == Bound(task[t])
               left == [here EXCEPT !.source = "reader_conflict"]
    <3>1. \/ task' = [task EXCEPT ![t] = closed]
          \/ task' = [task EXCEPT ![t] = kept]
          \/ task' = [task EXCEPT ![t] = left]
      BY <2>5 DEF SourceWithdraws
    <3>2. closed \in TaskRows /\ bound \in TaskRows /\ here \in TaskRows
      BY <1>1, <2>1, ClosedBySourceType, BoundType
    <3> HIDE DEF closed, bound, here
    <3>3. kept \in TaskRows /\ left \in TaskRows
      BY <3>2 DEF TaskRows, Withdrawals
    <3> QED BY <1>1, <3>1, <3>2, <3>3
  <2>6. CASE SourceReturns(t)
    <3> DEFINE bound == Bound(next)
               opened == [bound EXCEPT !.status = "open", !.source = "current"]
               here == Bound(task[t])
               back == [here EXCEPT !.source = "current"]
    <3>1. \E x \in {opened, back} : task' = [task EXCEPT ![t] = x]
      BY <1>1, <2>6 DEF SourceReturns
    <3>2. bound \in TaskRows /\ here \in TaskRows
      BY <1>1, <2>1, BoundType
    <3> HIDE DEF bound, here
    <3>3. opened \in TaskRows /\ back \in TaskRows
      BY <3>2 DEF TaskRows, Withdrawals
    <3> QED BY <1>1, <3>1, <3>3
  <2>7. CASE ConditionMet(t)
    <3>1. task[t] \in TaskRows
      BY <1>1
    <3>2. [task[t] EXCEPT !.blocked = FALSE] \in TaskRows
      BY ONLY <3>1 DEF TaskRows
    <3> QED BY <1>1, <2>7, <3>2 DEF ConditionMet
  <2>8. ASSUME NEW to \in {"overdue", "agrees", "disputes", "ended"},
               ResearchMoves(t, to)
        PROVE  task' \in [Tasks -> TaskRows]
    BY <1>1, <2>8 DEF ResearchMoves, TaskRows, ResearchStates
  <2> QED BY <1>8, <2>2, <2>3, <2>4, <2>5, <2>6, <2>7, <2>8 DEF SourceStep
<1> QED BY <1>2, <1>3, <1>4, <1>5, <1>6, <1>7, <1>8 DEF Next

\* Only an answer adds a result, and it is one the worker may give.
LEMMA ResultsType ==
    ASSUME ClaimInv, Next
    PROVE  results' \subseteq ResultRows
PROOF
<1>1. results \subseteq ResultRows
  BY DEF ClaimInv, TypeOK
<1>2. ASSUME NEW t \in Tasks, NEW k \in ClaimIds, NEW outcome \in Outcomes,
             NEW answer \in Answers, RecordResult(t, k, outcome, answer)
      PROVE  results' \subseteq ResultRows
  <2> DEFINE r == [claim |-> k, outcome |-> outcome, answer |-> answer,
                   cycle |-> wf[t].cycle]
  <2>1. wf[t].cycle \in Nat
    BY DEF ClaimInv, TypeOK, Rows
  <2>2. results' = results \cup {r} /\ r \in ResultRows
    BY <1>2, <2>1 DEF RecordResult, ResultRows
  <2> QED BY <1>1, <2>2
<1>3. ASSUME results' = results
      PROVE  results' \subseteq ResultRows
  BY <1>1, <1>3
<1>4. ASSUME NEW t \in Tasks, NEW k \in ClaimIds, Work(t, k)
      PROVE  results' \subseteq ResultRows
  BY <1>2, <1>3, <1>4 DEF Work, Renew, Release, Fail
<1>5. ASSUME NEW t \in Tasks, ReaderStep(t) \/ OperatorStep(t) \/ SourceStep(t)
      PROVE  results' = results
  <2>1. CASE ReaderStep(t)
    BY <2>1 DEF ReaderStep, StartAction, ReviewAction, LifecycleAction, Steer,
                Discuss, Reassign, Retry, SetPriority
  <2>2. CASE OperatorStep(t)
    BY <2>2 DEF OperatorStep, Schedule, LoseProfile, Adopt, Reconfigure
  <2>3. CASE SourceStep(t)
    BY <2>3 DEF SourceStep, EditTask, CloseTask, ReopenTask, SourceWithdraws,
                SourceReturns, ConditionMet, ResearchMoves
  <2> QED BY <1>5, <2>1, <2>2, <2>3
<1>6. CASE ScheduleNew \/ ClaimNext \/ Tick
  BY <1>3, <1>6 DEF ScheduleNew, ClaimNext, SlotsBusy, NothingToClaim, Claim,
                    Tick
<1> QED BY <1>3, <1>4, <1>5, <1>6 DEF Next

\* Only a new configuration changes the grants.
LEMMA GrantsType ==
    ASSUME ClaimInv, Next
    PROVE  grants' \in GrantRows
PROOF
<1>1. grants \in GrantRows
  BY DEF ClaimInv, TypeOK
<1>2. ASSUME NEW t \in Tasks, NEW gate \in DOMAIN grants, Reconfigure(t, gate)
      PROVE  grants' \in GrantRows
  <2> DEFINE S == IF t \in grants[gate] THEN grants[gate] \ {t}
                  ELSE grants[gate] \cup {t}
  <2>1. grants' = [grants EXCEPT ![gate] = S]
    BY <1>2 DEF Reconfigure
  <2>2. gate \in {"plan", "execute", "act"} /\ grants[gate] \subseteq Tasks
    BY <1>1 DEF GrantRows
  <2>3. S \subseteq Tasks
    BY <2>2
  <2> HIDE DEF S
  <2> QED BY <1>1, <2>1, <2>2, <2>3 DEF GrantRows
<1>3. ASSUME NEW t \in Tasks, ReaderStep(t) \/ SourceStep(t)
      PROVE  grants' = grants
  <2>1. CASE ReaderStep(t)
    BY <2>1 DEF ReaderStep, StartAction, ReviewAction, LifecycleAction, Steer,
                Discuss, Reassign, Retry, SetPriority
  <2>2. CASE SourceStep(t)
    BY <2>2 DEF SourceStep, EditTask, CloseTask, ReopenTask, SourceWithdraws,
                SourceReturns, ConditionMet, ResearchMoves
  <2> QED BY <1>3, <2>1, <2>2
<1>4. ASSUME NEW t \in Tasks, OperatorStep(t)
      PROVE  grants' \in GrantRows
  BY <1>1, <1>2, <1>4 DEF OperatorStep, Schedule, LoseProfile, Adopt
<1>5. ASSUME NEW t \in Tasks, NEW k \in ClaimIds, Work(t, k)
      PROVE  grants' = grants
  BY <1>5 DEF Work, Renew, Release, Fail, RecordResult
<1>6. CASE ScheduleNew \/ ClaimNext \/ Tick
  BY <1>1, <1>6 DEF ScheduleNew, ClaimNext, SlotsBusy, NothingToClaim, Claim,
                    Tick
<1> QED BY <1>1, <1>3, <1>4, <1>5, <1>6 DEF Next

\* The bounds of an instance are never overdrawn.
LEMMA TasksFinite ==
    ASSUME NEW S \in SUBSET Tasks
    PROVE  Cardinality(S) \in Nat
BY TasksAssumption, FS_Subset, FS_CardinalityType

LEMMA BoundsType ==
    ASSUME ClaimInv, Next
    PROVE  inputs' \in 0..MaxInputs /\ faults' \in 0..MaxFaults
PROOF
<1>1. /\ inputs \in 0..MaxInputs /\ faults \in 0..MaxFaults
      /\ MaxInputs \in Nat /\ MaxFaults \in Nat
  BY BoundsAssumption DEF ClaimInv, TypeOK
<1>2. ASSUME NEW n \in Nat, n <= faults, faults' = faults - n
      PROVE  faults' \in 0..MaxFaults
  BY <1>1, <1>2
<1>3. ASSUME NEW kind, Input(kind)
      PROVE  inputs' \in 0..MaxInputs
  BY <1>1, <1>3 DEF Input
<1>4. CASE ScheduleNew
  BY <1>1, <1>4 DEF ScheduleNew
<1>5. CASE ClaimNext
  <2>1. CASE SlotsBusy
    BY <1>1, <2>1 DEF SlotsBusy
  <2>2. ASSUME NEW tasks, NEW phases, NEW passed,
               passed \subseteq Claimable(SweptRows, phases),
               PassesOver(tasks, SweptRows, passed)
        PROVE  faults' \in 0..MaxFaults
    <3> DEFINE deferred == With(tasks, SweptRows, passed, "defer")
    <3>1. deferred \subseteq Tasks
      BY <2>2 DEF With, Claimable
    <3>2. Cardinality(deferred) \in Nat
      BY <3>1, TasksFinite
    <3>3. /\ Cardinality(deferred) <= faults
          /\ faults' = faults - Cardinality(deferred)
      BY <2>2 DEF PassesOver
    <3> QED BY <1>2, <3>2, <3>3
  <2>3. ASSUME NEW phases, NothingToClaim(phases)
        PROVE  faults' \in 0..MaxFaults /\ inputs' = inputs
    BY <2>2, <2>3 DEF NothingToClaim
  <2>4. ASSUME NEW phases, NEW t, NEW k, Claim(phases, t, k)
        PROVE  faults' \in 0..MaxFaults /\ inputs' = inputs
    <3>1. PICK passed \in SUBSET (Claimable(SweptRows, phases) \ {t}) :
            PassesOver(SweptTasks(SweptRows), SweptRows, passed)
      BY <2>4 DEF Claim
    <3> QED BY <2>2, <2>4, <3>1 DEF Claim
  <2> QED BY <1>1, <1>5, <2>1, <2>3, <2>4 DEF ClaimNext
<1>6. CASE Tick
  <2> DEFINE ending == {t \in Running(wf) : wf[t].timer = 1}
  <2>1. Cardinality(ending) \in Nat
    BY TasksFinite DEF Running
  <2>2. /\ Cardinality(ending) <= faults
        /\ faults' = faults - Cardinality(ending)
        /\ inputs' = inputs
    BY <1>6 DEF Tick
  <2> HIDE DEF ending
  <2> QED BY <1>1, <1>2, <2>1, <2>2
<1>7. ASSUME NEW t \in Tasks, NEW k \in ClaimIds, Work(t, k)
      PROVE  inputs' \in 0..MaxInputs /\ faults' \in 0..MaxFaults
  BY <1>1, <1>7 DEF Work, Renew, Release, Fail, RecordResult
<1>8. ASSUME NEW t \in Tasks, ReaderStep(t)
      PROVE  inputs' \in 0..MaxInputs /\ faults' = faults
  BY <1>3, <1>8
  DEF ReaderStep, StartAction, ReviewAction, LifecycleAction, Steer, Discuss,
      Reassign, Retry, SetPriority
<1>9. ASSUME NEW t \in Tasks, OperatorStep(t)
      PROVE  inputs' \in 0..MaxInputs /\ faults' = faults
  BY <1>3, <1>9 DEF OperatorStep, Schedule, LoseProfile, Adopt, Reconfigure
<1>10. ASSUME NEW t \in Tasks, SourceStep(t)
       PROVE  inputs' \in 0..MaxInputs /\ faults' = faults
  BY <1>1, <1>3, <1>10
  DEF SourceStep, EditTask, CloseTask, ReopenTask, SourceWithdraws,
      SourceReturns, ConditionMet, ResearchMoves
<1> QED BY <1>1, <1>4, <1>5, <1>6, <1>7, <1>8, <1>9, <1>10 DEF Next

-----------------------------------------------------------------------------
(* The invariant                                                           *)

\* A ledger step leaves rows, fates and claims of the right type and shape.
LEMMA LedgerStepInv ==
    ASSUME ClaimInv, LedgerStep
    PROVE  /\ Shape(wf', fate', claims') /\ Attempts(wf')
           /\ claims' \in [ClaimIds -> ClaimRows \cup {NoClaimRow}]
PROOF
<1>1. claims \in [ClaimIds -> ClaimRows \cup {NoClaimRow}]
  BY DEF ClaimInv, TypeOK
<1>2. CASE LettingGo
  <2>1. Shape(wf', fate', claims) /\ Attempts(wf')
    BY <1>2, LetsGoShape, LetsGoAttempts DEF LettingGo, ClaimInv
  <2> QED BY <1>1, <1>2, <2>1 DEF LettingGo
<1>3. ASSUME NEW t \in Tasks, NEW k \in ClaimIds, Answering(t, k)
      PROVE  /\ Shape(wf', fate', claims') /\ Attempts(wf')
             /\ claims' \in [ClaimIds -> ClaimRows \cup {NoClaimRow}]
  BY <1>1, <1>3, AnsweringShape DEF Answering
<1>4. ASSUME NEW t \in Tasks, NEW k \in ClaimIds, NEW rows, NEW fates,
             Granting(t, k, rows, fates)
      PROVE  /\ Shape(wf', fate', claims') /\ Attempts(wf')
             /\ claims' \in [ClaimIds -> ClaimRows \cup {NoClaimRow}]
  <2> DEFINE c == [task |-> t, version |-> rows[t].version + 1,
                   task_version |-> rows[t].task_version,
                   phase |-> rows[t].phase]
  <2>1. rows[t] \in Rows
    BY <1>4 DEF Granting, LetsGo
  <2>2. rows[t].version + 1 \in Nat
    BY <2>1 DEF Rows
  <2>3. c \in ClaimRows
    BY <2>1, <2>2 DEF ClaimRows, Rows
  <2>4. claims' = [claims EXCEPT ![k] = c]
    BY <1>4 DEF Granting
  <2> HIDE DEF c
  <2> QED BY <1>1, <1>4, <2>3, <2>4, GrantingShape
<1> QED BY <1>2, <1>3, <1>4 DEF LedgerStep

LEMMA InitInv ==
    ASSUME Init
    PROVE  ClaimInv
PROOF
<1>1. TypeOK
  <2>1. task \in [Tasks -> TaskRows]
    BY DEF Init, TaskRows, Withdrawals, ResearchStates
  <2>2. wf \in [Tasks -> Rows]
    BY NoRowType DEF Init
  <2>3. grants \in GrantRows
    BY PolicyAssumption DEF Init, GrantRows
  <2>4. inputs \in 0..MaxInputs /\ faults \in 0..MaxFaults
    BY BoundsAssumption DEF Init
  <2> QED BY <2>1, <2>2, <2>3, <2>4 DEF Init, TypeOK, Fates
<1>2. \A t \in Tasks : wf[t].status = "absent" /\ wf[t].claim = NoClaim
  BY DEF Init, NoRow
<1>3. Shape(wf, fate, claims)
  BY <1>1, <1>2 DEF Init, TypeOK, Shape
<1>4. Attempts(wf)
  BY <1>2 DEF Attempts, HasAttempts
<1> QED BY <1>1, <1>3, <1>4 DEF ClaimInv

LEMMA NextInv ==
    ASSUME ClaimInv, [Next]_vars
    PROVE  ClaimInv'
PROOF
<1>1. CASE UNCHANGED vars
  BY <1>1 DEF vars, ClaimInv, TypeOK, Shape, Attempts
<1>2. CASE Next
  <2>1. /\ Shape(wf', fate', claims') /\ Attempts(wf')
        /\ claims' \in [ClaimIds -> ClaimRows \cup {NoClaimRow}]
    BY <1>2, NextSteps, LedgerStepInv
  <2>2. TypeOK'
    BY <1>2, <2>1, TaskType, ResultsType, GrantsType, BoundsType
       DEF TypeOK, Shape
  <2> QED BY <2>1, <2>2 DEF ClaimInv, Shape, Attempts
<1> QED BY <1>1, <1>2

\* The invariant behind every theorem below.
THEOREM ClaimInvariant == Spec => []ClaimInv
PROOF
<1>1. Init => ClaimInv
  BY InitInv
<1>2. ClaimInv /\ [Next]_vars => ClaimInv'
  BY NextInv
<1> QED BY <1>1, <1>2, PTL DEF Spec

-----------------------------------------------------------------------------
(* What every reachable state and every step satisfies                     *)

\* The service's rows, claims, results and grants always have their types.
THEOREM TypeCorrect == Spec => []TypeOK
PROOF
<1>1. ClaimInv => TypeOK
  BY DEF ClaimInv
<1> QED BY <1>1, ClaimInvariant, PTL

\* The agents that still believe in their claim are those of the running rows,
\* at the version they were handed: claim_next, _recover_expired,
\* _cancel_stale, steering and every answer keep row and claim in step.
THEOREM ClaimsMatchRows == Spec => []ClaimMatchesRow
PROOF
<1>1. ASSUME ClaimInv PROVE ClaimMatchesRow
  <2>1. ASSUME NEW k \in Live
        PROVE  /\ wf[claims[k].task].claim = k
               /\ wf[claims[k].task].version = claims[k].version
               /\ wf[claims[k].task].task_version = claims[k].task_version
               /\ wf[claims[k].task].phase = claims[k].phase
    <3>1. k \in ClaimIds /\ fate[k] = "live"
      BY DEF Live
    <3>2. PICK t \in Tasks : wf[t].claim = k
      BY <1>1, <3>1 DEF ClaimInv, Shape
    <3>3. claims[k] = [task |-> t, version |-> wf[t].version,
                       task_version |-> wf[t].task_version,
                       phase |-> wf[t].phase]
      BY <1>1, <3>1, <3>2, ClaimIdsPositive DEF ClaimInv, Shape
    <3> QED BY <3>2, <3>3
  <2>2. ASSUME NEW t \in Tasks
        PROVE  wf[t].status = "running" <=> wf[t].claim \in Live
    BY <1>1, ClaimIdsPositive DEF ClaimInv, Shape, Live
  <2> QED BY <2>1, <2>2 DEF ClaimMatchesRow
<1> QED BY <1>1, ClaimInvariant, PTL

\* A row that may be claimed without the reader has attempts left, whatever
\* mixture of failures, timeouts, handoffs, releases and retries it has seen.
THEOREM AttemptsBounded == Spec => []BoundedAttempts
PROOF
<1>1. ClaimInv => BoundedAttempts
  BY DEF ClaimInv, Attempts, HasAttempts, BoundedAttempts
<1> QED BY <1>1, ClaimInvariant, PTL

LEMMA OnlyLiveClaimsGo ==
    ASSUME ClaimInv, NEW fates, NEW rows, LetsGo(wf, rows, fate, fates),
           NEW k \in ClaimIds
    PROVE  /\ fate[k] \notin {"unissued", "live"} => fates[k] = fate[k]
           /\ fates[k] = "unissued" => fate[k] = "unissued"
PROOF
<1>1. CASE fates[k] = fate[k]
  BY <1>1
<1>2. CASE fates[k] # fate[k]
  <2>1. PICK t \in Tasks : wf[t].claim = k
    BY <1>2 DEF LetsGo
  <2>2. fate[k] = "live"
    BY <2>1, ClaimIdsPositive DEF ClaimInv, Shape
  <2> QED BY <1>2, <2>2 DEF LetsGo, Lost
<1> QED BY <1>1, <1>2

\* No step touches a claim that has ended, nor what an issued one was given.
Settles == \A k \in ClaimIds :
             /\ fate[k] \notin {"unissued", "live"} => fate'[k] = fate[k]
             /\ fate[k] # "unissued" => claims'[k] = claims[k]

LEMMA StepSettles ==
    ASSUME ClaimInv, [Next]_vars
    PROVE  Settles
PROOF
<1>1. CASE LettingGo
  BY <1>1, OnlyLiveClaimsGo DEF LettingGo, Settles
<1>2. ASSUME NEW t \in Tasks, NEW k \in ClaimIds, Answering(t, k)
      PROVE  Settles
  <2>1. fate[k] = "live"
    BY <1>2, ClaimIdsPositive DEF Answering, ClaimInv, Shape
  <2> QED BY <1>2, <2>1 DEF Answering, ClaimInv, TypeOK, Settles
<1>3. ASSUME NEW t \in Tasks, NEW k \in ClaimIds, NEW rows, NEW fates,
             Granting(t, k, rows, fates)
      PROVE  Settles
  <2>1. fates \in [ClaimIds -> Fates] /\ fate[k] = "unissued"
    BY <1>3, OnlyLiveClaimsGo DEF Granting, LetsGo
  <2> QED BY <1>3, <2>1, OnlyLiveClaimsGo DEF Granting, ClaimInv, TypeOK, Settles
<1> QED BY <1>1, <1>2, <1>3, NextSteps DEF LedgerStep

\* A claim that has ended never changes its end, however late its holder calls.
THEOREM ClaimsSettleOnce == Spec => SettledOnce
PROOF
<1>1. ClaimInv /\ [Next]_vars => \A k \in ClaimIds :
                                   /\ fate[k] \notin {"unissued", "live"}
                                        => fate'[k] = fate[k]
                                   /\ fate[k] # "unissued" => claims'[k] = claims[k]
  BY StepSettles DEF Settles
<1> QED BY <1>1, ClaimInvariant, PTL DEF Spec, SettledOnce

\* No row changes what a card or an agent knows of it under a version that was
\* seen before, and no version comes back: the optimistic version fences every
\* late decision.
THEOREM VersionsFence == Spec => FencedByVersion
PROOF
<1> DEFINE Fenced(r, s) ==
             /\ s.version >= r.version
             /\ s.version = r.version =>
                  /\ s.status = r.status
                  /\ s.phase = r.phase
                  /\ s.claim = r.claim
                  /\ s.task_version = r.task_version
                  /\ s.last_claim = r.last_claim
           Step ==
             \A t \in Tasks :
               /\ wf'[t].version >= wf[t].version
               /\ wf'[t].version = wf[t].version =>
                    /\ wf'[t].status = wf[t].status
                    /\ wf'[t].phase = wf[t].phase
                    /\ wf'[t].claim = wf[t].claim
                    /\ wf'[t].task_version = wf[t].task_version
                    /\ wf'[t].last_claim = wf[t].last_claim
<1>1. ASSUME NEW r \in Rows, NEW s, Stepped(r, s)
      PROVE  Fenced(r, s)
  <2>1. s \in Rows /\ r.version \in Nat /\ s.version \in Nat
    BY <1>1 DEF Stepped, Left, Kept, Rows
  <2> QED BY <1>1, <2>1 DEF Stepped, Left, Kept
<1>2. ASSUME \A t \in Tasks : Fenced(wf[t], wf'[t]) PROVE Step
  BY <1>2
<1>3. ASSUME ClaimInv, [Next]_vars
      PROVE  \A t \in Tasks : Fenced(wf[t], wf'[t])
  <2> HIDE DEF Fenced
  <2>1. wf \in [Tasks -> Rows]
    BY <1>3 DEF ClaimInv, TypeOK
  <2>2. CASE LettingGo
    BY <1>1, <2>1, <2>2 DEF LettingGo, LetsGo
  <2>3. ASSUME NEW t \in Tasks, NEW k \in ClaimIds, Answering(t, k)
        PROVE  \A u \in Tasks : Fenced(wf[u], wf'[u])
    <3>1. \A u \in Tasks : Stepped(wf[u], wf'[u])
      BY <2>1, <2>3 DEF Answering, Stepped, Kept
    <3> QED BY <1>1, <2>1, <3>1
  <2>4. ASSUME NEW t \in Tasks, NEW k \in ClaimIds, NEW rows, NEW fates,
               Granting(t, k, rows, fates)
        PROVE  \A u \in Tasks : Fenced(wf[u], wf'[u])
    <3>1. \A u \in Tasks : Stepped(wf[u], rows[u]) /\ rows[u] \in Rows
      BY <2>4 DEF Granting, LetsGo
    <3>2. \A u \in Tasks \ {t} : wf'[u] = rows[u]
      BY <2>4 DEF Granting, LetsGo
    <3>3. wf'[t] = Claimed(rows[t], k)
      BY <2>4 DEF Granting, LetsGo
    <3>4. k \in Nat
      BY ClaimIdsPositive
    <3>5. wf'[t].version = rows[t].version + 1 /\ wf'[t] \in Rows
      BY <2>4, <3>1, <3>3, <3>4, ClaimedRuns DEF Granting
    <3>6. rows[t].version >= wf[t].version
      BY <1>1, <2>1, <3>1 DEF Fenced
    <3>7. wf[t].version \in Nat /\ rows[t].version \in Nat
      BY <2>1, <3>1 DEF Rows
    <3>8. Fenced(wf[t], wf'[t])
      BY <3>5, <3>6, <3>7 DEF Fenced
    <3> QED BY <1>1, <2>1, <3>1, <3>2, <3>8
  <2> QED BY <1>3, <2>2, <2>3, <2>4, NextSteps DEF LedgerStep
<1>4. ASSUME ClaimInv, [Next]_vars PROVE Step
  BY <1>2, <1>3, <1>4
<1> QED BY <1>4, ClaimInvariant, PTL DEF Spec, FencedByVersion

-----------------------------------------------------------------------------
(* The slot cap                                                            *)

LiveIn(fates) == {k \in ClaimIds : fates[k] = "live"}

LEMMA ClaimsFinite ==
    ASSUME NEW S \in SUBSET ClaimIds
    PROVE  IsFiniteSet(S) /\ Cardinality(S) \in Nat
PROOF
<1>1. 1 \in Int /\ MaxClaims \in Int
  BY BoundsAssumption
<1>2. IsFiniteSet(1..MaxClaims)
  BY <1>1, FS_Interval
<1>3. IsFiniteSet(ClaimIds)
  BY <1>2 DEF ClaimIds
<1> QED BY <1>3, FS_Subset, FS_CardinalityType

\* There are no more live claims than running rows.
LEMMA LiveNeedRunning ==
    ASSUME NEW rows, NEW fates, NEW handed, Shape(rows, fates, handed)
    PROVE  Cardinality(LiveIn(fates)) <= Cardinality(Running(rows))
PROOF
<1> DEFINE f == [t \in Running(rows) |-> rows[t].claim]
<1>1. \A t \in Running(rows) : rows[t].claim \in LiveIn(fates)
  BY DEF Running, LiveIn, Shape
<1>2. \A k \in LiveIn(fates) : \E t \in Running(rows) : rows[t].claim = k
  <2>1. ASSUME NEW k \in LiveIn(fates)
        PROVE  \E t \in Tasks : rows[t].claim = k /\ rows[t].status = "running"
    <3>1. k \in ClaimIds /\ k # NoClaim
      BY ClaimIdsPositive DEF LiveIn
    <3>2. PICK t \in Tasks : rows[t].claim = k
      BY <3>1 DEF LiveIn, Shape
    <3>3. rows[t].status = "running"
      BY <3>1, <3>2 DEF Shape
    <3> QED BY <3>2, <3>3
  <2> QED BY <2>1 DEF Running
<1>3. f \in Surjection(Running(rows), LiveIn(fates))
  BY <1>1, <1>2 DEF Surjection
<1>4. IsFiniteSet(Running(rows))
  BY TasksAssumption, FS_Subset DEF Running
<1> QED BY <1>3, <1>4, FS_Surjection

\* However claims are cancelled, recovered and granted in one pass, no more
\* agents than execution_slot_cap hold a live claim.
THEOREM SlotsAreCapped == Spec => []SlotCapHeld
PROOF
<1> DEFINE Inv == ClaimInv /\ SlotCapHeld
<1>1. Live = LiveIn(fate) /\ Live \subseteq ClaimIds
  BY DEF Live, LiveIn
<1>2. SlotCap \in Nat
  BY BoundsAssumption
<1>3. Init => Inv
  <2>1. ASSUME Init PROVE Live = {}
    BY <2>1 DEF Init, Live
  <2> QED BY <1>2, <2>1, InitInv, FS_EmptySet DEF SlotCapHeld
<1>4. ASSUME Inv, [Next]_vars
      PROVE  Inv'
  <2>1. ASSUME LiveIn(fate') \subseteq LiveIn(fate)
        PROVE  Cardinality(LiveIn(fate')) <= SlotCap
    <3>1. IsFiniteSet(LiveIn(fate)) /\ Cardinality(LiveIn(fate)) \in Nat
      BY <1>1, ClaimsFinite
    <3>2. Cardinality(LiveIn(fate')) <= Cardinality(LiveIn(fate))
      BY <2>1, <3>1, FS_Subset
    <3>3. Cardinality(LiveIn(fate')) \in Nat
      BY ClaimsFinite DEF LiveIn
    <3> QED BY <1>1, <1>2, <1>4, <3>1, <3>2, <3>3 DEF SlotCapHeld
  <2>2. ASSUME LettingGo
        PROVE  Cardinality(LiveIn(fate')) <= SlotCap
    <3>1. LiveIn(fate') \subseteq LiveIn(fate)
      BY <2>2 DEF LettingGo, LetsGo, Lost, LiveIn
    <3> QED BY <2>1, <3>1
  <2>3. ASSUME NEW t \in Tasks, NEW k \in ClaimIds, Answering(t, k)
        PROVE  Cardinality(LiveIn(fate')) <= SlotCap
    <3>1. LiveIn(fate') \subseteq LiveIn(fate)
      BY <1>4, <2>3 DEF Answering, LiveIn, ClaimInv, TypeOK
    <3> QED BY <2>1, <3>1
  <2>4. ASSUME NEW t \in Tasks, NEW k \in ClaimIds, NEW rows, NEW fates,
               Granting(t, k, rows, fates)
        PROVE  Cardinality(LiveIn(fate')) <= SlotCap
    <3>1. Shape(rows, fates, claims)
      BY <1>4, <2>4, LetsGoShape DEF Granting, ClaimInv
    <3>2. LiveIn(fate') = LiveIn(fates) \cup {k} /\ k \notin LiveIn(fates)
      BY <2>4, <3>1 DEF Granting, LiveIn, Shape
    <3>3. Cardinality(LiveIn(fates)) < SlotCap
      <4>1. Cardinality(LiveIn(fates)) <= Cardinality(Running(rows))
        BY <3>1, LiveNeedRunning
      <4>2. Cardinality(Running(rows)) < SlotCap
        BY <2>4 DEF Granting
      <4>3. Cardinality(Running(rows)) \in Nat
        BY TasksFinite DEF Running
      <4>4. Cardinality(LiveIn(fates)) \in Nat
        BY ClaimsFinite DEF LiveIn
      <4> QED BY <1>2, <4>1, <4>2, <4>3, <4>4
    <3>4. IsFiniteSet(LiveIn(fates)) /\ Cardinality(LiveIn(fates)) \in Nat
      BY ClaimsFinite DEF LiveIn
    <3>5. Cardinality(LiveIn(fate')) = Cardinality(LiveIn(fates)) + 1
      BY <3>2, <3>4, FS_AddElement
    <3> QED BY <1>2, <3>3, <3>4, <3>5
  <2>5. Cardinality(LiveIn(fate')) <= SlotCap
    BY <1>4, <2>2, <2>3, <2>4, NextSteps DEF LedgerStep
  <2>6. Live' = LiveIn(fate')
    BY DEF Live, LiveIn
  <2> QED BY <1>4, <2>5, <2>6, NextInv DEF SlotCapHeld
<1>5. Inv => SlotCapHeld
  OBVIOUS
<1> QED BY <1>3, <1>4, <1>5, PTL DEF Spec

-----------------------------------------------------------------------------
(* The ledger its agents see                                               *)

\* The tasks whose claims a transaction takes away.
Robbed(rows) == {t \in Tasks : /\ wf[t].claim # NoClaim
                               /\ rows[t].claim = NoClaim}

LEMMA SameCardinality ==
    ASSUME NEW S
    PROVE  Ledger!Cardinality(S) = Cardinality(S)
BY DEF Ledger!Cardinality, Cardinality

\* Letting claims go is what ClaimLedger calls it.
LEMMA LetsGoRefines ==
    ASSUME ClaimInv, NEW rows, NEW fates, LetsGo(wf, rows, fate, fates)
    PROVE  /\ Robbed(rows) \in SUBSET Ledger!Held
           /\ [t \in Tasks |-> rows[t].claim] = Ledger!Freed(Robbed(rows))
           /\ \E end \in [Robbed(rows) -> Ledger!Ends \ {"recorded"}] :
                fates = Ledger!Ended(Robbed(rows), end)
PROOF
<1> DEFINE S == Robbed(rows)
           end == [t \in S |-> fates[wf[t].claim]]
<1>1. S \in SUBSET Ledger!Held
  BY DEF Robbed, Ledger!Held
<1>2. \A t \in Tasks \ S : rows[t].claim = wf[t].claim
  BY DEF Robbed, LetsGo, Stepped, Left, Kept
<1>3. [t \in Tasks |-> rows[t].claim] = Ledger!Freed(S)
  BY <1>2 DEF Robbed, Ledger!Freed
<1>4. ASSUME NEW t \in S
      PROVE  wf[t].claim \in ClaimIds /\ fates[wf[t].claim] \in Lost
  <2>1. t \in Tasks /\ wf[t].claim # NoClaim /\ rows[t].claim = NoClaim
    BY DEF Robbed
  <2>2. wf[t].claim \in ClaimIds
    BY <2>1 DEF ClaimInv, Shape
  <2> QED BY <2>1, <2>2 DEF LetsGo
<1>5. end \in [S -> Ledger!Ends \ {"recorded"}]
  BY <1>4 DEF Lost, Fates, Ledger!Ends
<1>6. ASSUME NEW k \in ClaimIds
      PROVE  fates[k] = Ledger!Ended(S, end)[k]
  <2>1. \A t \in S : t \in Tasks
    BY DEF Robbed
  <2>2. CASE \E t \in S : wf[t].claim = k
    <3> DEFINE c == CHOOSE t \in S : [u \in Tasks |-> wf[u].claim][t] = k
    <3>1. \E t \in S : [u \in Tasks |-> wf[u].claim][t] = k
      BY <2>1, <2>2
    <3>2. c \in S /\ [u \in Tasks |-> wf[u].claim][c] = k
      BY <3>1
    <3>3. wf[c].claim = k
      BY <2>1, <3>2
    <3>4. Ledger!Ended(S, end)[k] = end[c]
      BY <3>1 DEF Ledger!Ended
    <3> HIDE DEF c
    <3> QED BY <3>2, <3>3, <3>4
  <2>3. CASE ~ \E t \in S : wf[t].claim = k
    <3>1. fates[k] = fate[k]
      <4>1. k # NoClaim
        BY ClaimIdsPositive
      <4> QED BY <2>3, <4>1 DEF LetsGo, Robbed
    <3>2. ~ \E t \in S : [u \in Tasks |-> wf[u].claim][t] = k
      BY <2>1, <2>3
    <3> QED BY <3>1, <3>2 DEF Ledger!Ended
  <2> QED BY <2>2, <2>3
<1>7. fates = Ledger!Ended(S, end)
  <2>1. fates = [k \in ClaimIds |-> fates[k]]
    BY DEF LetsGo
  <2>2. Ledger!Ended(S, end) = [k \in ClaimIds |-> Ledger!Ended(S, end)[k]]
    BY DEF Ledger!Ended
  <2> QED BY <1>6, <2>1, <2>2
<1> QED BY <1>1, <1>3, <1>5, <1>7

\* The execution ledger implements ClaimLedger: whatever the gates, the queue,
\* the retries and the sources do, its claims are issued once and within the
\* cap, end once, and are answered by their holder only.
THEOREM LedgerImplemented == Spec => LedgerSpec
PROOF
<1>1. Init => Ledger!Init
  <2>1. ASSUME Init
        PROVE  \A t \in Tasks : wf[t].claim = NoClaim
    BY <2>1 DEF Init, NoRow
  <2> QED BY <2>1 DEF Init, Ledger!Init
<1>2. ASSUME ClaimInv, LettingGo
      PROVE  Ledger!Next
  <2>1. LetsGo(wf, wf', fate, fate') /\ results' = results
    BY <1>2 DEF LettingGo
  <2>2. PICK S \in SUBSET Ledger!Held : S = Robbed(wf')
    BY <1>2, <2>1, LetsGoRefines
  <2>3. Ledger!LetGo(S)
    BY <1>2, <2>1, <2>2, LetsGoRefines DEF Ledger!LetGo
  <2> QED BY <2>3 DEF Ledger!Next
<1>3. ASSUME ClaimInv, NEW t \in Tasks, NEW k \in ClaimIds, Answering(t, k)
      PROVE  Ledger!Next
  <2>1. t \in Ledger!Held
    BY <1>3, ClaimIdsPositive DEF Answering, Ledger!Held
  <2>2. [u \in Tasks |-> wf'[u].claim] = Ledger!Freed({t})
    BY <1>3 DEF Answering, Left, Ledger!Freed
  <2>3. fate' = [fate EXCEPT ![wf[t].claim] = "recorded"]
    BY <1>3 DEF Answering
  <2>4. {r.claim : r \in results'} = {r.claim : r \in results} \cup {wf[t].claim}
    BY <1>3 DEF Answering
  <2>5. Ledger!Returns(t)
    BY <2>1, <2>2, <2>3, <2>4 DEF Ledger!Returns
  <2> QED BY <2>5 DEF Ledger!Next
<1>4. ASSUME ClaimInv, NEW t \in Tasks, NEW k \in ClaimIds, NEW rows,
             NEW fates, Granting(t, k, rows, fates)
      PROVE  Ledger!Next
  <2> DEFINE S == Robbed(rows)
  <2>1. /\ LetsGo(wf, rows, fate, fates)
        /\ wf' = [rows EXCEPT ![t] = Claimed(rows[t], k)]
        /\ fate' = [fates EXCEPT ![k] = "live"]
        /\ results' = results
        /\ rows \in [Tasks -> Rows]
    BY <1>4 DEF Granting, LetsGo
  <2>2. /\ S \in SUBSET Ledger!Held
        /\ [u \in Tasks |-> rows[u].claim] = Ledger!Freed(S)
        /\ \E end \in [S -> Ledger!Ends \ {"recorded"}] :
             fates = Ledger!Ended(S, end)
    BY <1>4, <2>1, LetsGoRefines
  <2>3. Shape(rows, fates, claims)
    BY <1>4, <2>1, LetsGoShape DEF ClaimInv
  <2>4. Ledger!Held \ S = Running(rows)
    <3>0. \A u \in Tasks : rows[u].claim \in {wf[u].claim, NoClaim}
      BY <2>1 DEF LetsGo, Stepped, Left, Kept
    <3>1. \A u \in Tasks : rows[u].claim # NoClaim
                             <=> wf[u].claim # NoClaim /\ u \notin S
      BY <3>0 DEF Robbed
    <3>2. Ledger!Held = {u \in Tasks : wf[u].claim # NoClaim}
      BY DEF Ledger!Held
    <3>3. Running(rows) = {u \in Tasks : rows[u].claim # NoClaim}
      <4>1. \A u \in Tasks : rows[u].status = "running" <=> rows[u].claim # NoClaim
        BY <2>3 DEF Shape
      <4> QED BY ONLY <4>1 DEF Running
    <3> HIDE DEF S
    <3> QED BY <3>1, <3>2, <3>3
  <2>5. Cardinality(Ledger!Held \ S) < SlotCap /\ t \notin Ledger!Held \ S
    BY <1>4, <2>4 DEF Granting, Running
  <2>6. fate[k] = "unissued"
    BY <1>4, <2>1, OnlyLiveClaimsGo DEF Granting
  <2>7. Claimed(rows[t], k).claim = k
    BY <1>4, <2>1, ClaimIdsPositive, ClaimedRuns DEF Granting
  <2>8. [u \in Tasks |-> wf'[u].claim] = [Ledger!Freed(S) EXCEPT ![t] = k]
    <3>1. [u \in Tasks |-> wf'[u].claim] =
            [[u \in Tasks |-> rows[u].claim] EXCEPT ![t] = k]
      BY <2>1, <2>7
    <3> QED BY <2>2, <3>1
  <2> HIDE DEF S
  <2>9. Ledger!Grants(S, t, k)
    BY <2>1, <2>2, <2>5, <2>6, <2>8, SameCardinality DEF Ledger!Grants
  <2> QED BY <2>2, <2>9 DEF Ledger!Next
<1>5. ASSUME ClaimInv, [Next]_vars
      PROVE  [Ledger!Next]_(Ledger!ledgerVars)
  BY <1>2, <1>3, <1>4, <1>5, NextSteps DEF LedgerStep
<1> QED BY <1>1, <1>5, ClaimInvariant, PTL DEF Spec, LedgerSpec, Ledger!Spec

-----------------------------------------------------------------------------
(* The gates: what the result a row carries has to do with the phase it is *)
(* in.  Rows first.                                                        *)

Over(r) == r.status \in Terminal \cup {"absent"}

\* The last result asks for the phase, and a gate has opened it.
Opened(s) == /\ s.last_outcome \in DOMAIN GateOpens
             /\ s.phase = GateOpens[s.last_outcome]
             /\ s.phase \in s.authority

\* A write leaves a row over, or keeps the last result with it and has its
\* phase be the plan, the one it was in or the one that result asked for.
Carries(r, s) ==
    /\ s.task_version = r.task_version
    /\ s.status = "completed" => r.status = "completed"
    /\ ~Over(s) => /\ ~Over(r)
                   /\ s.last_outcome = r.last_outcome
                   /\ s.last_claim = r.last_claim
                   /\ \/ s.phase = "plan"
                      \/ s.phase = r.phase /\ r.authority \subseteq s.authority
                      \/ Opened(s)

LEMMA PromotedCarries ==
    ASSUME NEW r \in Rows, ~Over(r), r.phase = "plan"
    PROVE  Carries(r, Promoted(r))
BY DEF Promoted, Logged, Moved, Carries, Rows, Authority

LEMMA GateGrantedCarries ==
    ASSUME NEW r \in Rows, ~Over(r), r.last_outcome \in DOMAIN GateOpens
    PROVE  Carries(r, GateGranted(r, GateOpens[r.last_outcome]))
BY DEF GateGranted, Logged, Restarted, Moved, Carries, Rows, Authority, Opened, GateOpens

LEMMA CancelledCarries ==
    ASSUME NEW r \in Rows
    PROVE  Carries(r, Cancelled(r))
BY DEF Cancelled, Logged, Moved, Carries, Rows, Over, Terminal

LEMMA ClaimedCarries ==
    ASSUME NEW r \in Rows, ~Over(r), NEW k
    PROVE  Carries(r, Claimed(r, k))
BY DEF Claimed, Logged, Moved, Carries, Rows, Authority

LEMMA ReleasedCarries ==
    ASSUME NEW r \in Rows, ~Over(r)
    PROVE  Carries(r, Released(r))
BY DEF Released, Logged, Moved, Carries, Rows, Authority

LEMMA HeldForOwnerCarries ==
    ASSUME NEW r \in Rows, ~Over(r), r.phase = "plan"
    PROVE  Carries(r, HeldForOwner(r))
BY DEF HeldForOwner, Logged, Moved, Carries, Rows, Authority

LEMMA DeferredCarries ==
    ASSUME NEW r \in Rows, ~Over(r), NEW reason
    PROVE  Carries(r, Deferred(r, reason))
BY DEF Deferred, Logged, Moved, Carries, Rows, Authority

LEMMA StartedCarries ==
    ASSUME NEW r \in Rows, ~Over(r), NEW action \in StartActions
    PROVE  Carries(r, Started(r, action))
BY DEF Started, StartActions, Logged, Restarted, Moved, Carries, Rows, Authority

LEMMA ReviewedCarries ==
    ASSUME NEW r \in Rows, ~Over(r), NEW action \in ReviewActions,
           action = "approve" => r.last_outcome \in DOMAIN GateOpens
    PROVE  Carries(r, Reviewed(r, action))
<1>1. CASE action = "approve"
  <2> DEFINE m == [Restarted(r, "queued") EXCEPT !.phase = GateOpens[r.last_outcome]]
             s == Logged(m, "phase_approved")
  <2>1. Reviewed(r, action) = s
    BY <1>1 DEF Reviewed
  <2>2. /\ m.task_version = r.task_version /\ m.last_outcome = r.last_outcome
        /\ m.last_claim = r.last_claim /\ m.phase = GateOpens[r.last_outcome]
        /\ m.status = "queued" /\ DOMAIN m = DOMAIN r
    BY DEF Restarted, Moved, Rows
  <2> HIDE DEF m
  <2>3. /\ s.task_version = m.task_version /\ s.last_outcome = m.last_outcome
        /\ s.last_claim = m.last_claim /\ s.phase = m.phase
        /\ s.status = m.status /\ s.authority = Authority(m, "phase_approved")
    BY <2>2 DEF Logged, Rows
  <2> HIDE DEF s
  <2>4. s.phase \in s.authority \/ s.phase = "plan"
    BY <2>3 DEF Authority
  <2> QED BY <1>1, <2>1, <2>2, <2>3, <2>4 DEF Carries, Opened, Over, Terminal
<1>2. CASE action = "revise"
  <2> DEFINE m == [Restarted(r, "queued") EXCEPT !.phase = "plan"]
             s == Logged(m, "revision_requested")
  <2>1. Reviewed(r, action) = s
    BY <1>2 DEF Reviewed
  <2>2. /\ m.task_version = r.task_version /\ m.last_outcome = r.last_outcome
        /\ m.last_claim = r.last_claim /\ m.phase = "plan"
        /\ m.status = "queued" /\ DOMAIN m = DOMAIN r
    BY DEF Restarted, Moved, Rows
  <2> HIDE DEF m
  <2>3. /\ s.task_version = m.task_version /\ s.last_outcome = m.last_outcome
        /\ s.last_claim = m.last_claim /\ s.phase = m.phase /\ s.status = m.status
    BY <2>2 DEF Logged, Rows
  <2> HIDE DEF s
  <2> QED BY <2>1, <2>2, <2>3 DEF Carries
<1>3. CASE action \in {"snooze", "cancel"}
  BY <1>3 DEF Reviewed, Logged, Restarted, Moved, Carries, Rows, Authority
<1> QED BY <1>1, <1>2, <1>3 DEF ReviewActions

LEMMA SteeredCarries ==
    ASSUME NEW r \in Rows, ~Over(r)
    PROVE  Carries(r, Steered(r))
BY DEF Steered, Logged, Moved, Carries, Rows, Authority

LEMMA DiscussedCarries ==
    ASSUME NEW r \in Rows, ~Over(r)
    PROVE  Carries(r, Discussed(r))
BY DEF Discussed, Logged, Restarted, Moved, Carries, Rows, Authority

LEMMA RetriedCarries ==
    ASSUME NEW r \in Rows, ~Over(r)
    PROVE  Carries(r, Retried(r))
BY DEF Retried, Logged, Restarted, Moved, Carries, Rows, Authority

LEMMA PrioritisedCarries ==
    ASSUME NEW r \in Rows, ~Over(r), NEW priority
    PROVE  Carries(r, Prioritised(r, priority))
BY DEF Prioritised, Logged, Carries, Rows, Authority

LEMMA AdoptedCarries ==
    ASSUME NEW r \in Rows, ~Over(r)
    PROVE  Carries(r, Adopted(r))
BY DEF Adopted, Logged, Carries, Rows, Authority

LEMMA RenewedCarries ==
    ASSUME NEW r \in Rows, ~Over(r)
    PROVE  Carries(r, Logged([r EXCEPT !.timer = LeaseTime, !.updated_now = TRUE],
                             "claim_renewed"))
BY DEF Logged, Carries, Rows, Authority

LEMMA UnresolvableCarries ==
    ASSUME NEW r \in Rows
    PROVE  Carries(r, [r EXCEPT !.resolvable = FALSE])
BY DEF Carries, Rows, Over

LEMMA AgedCarries ==
    ASSUME NEW r \in Rows
    PROVE  Carries(r, Aged(r))
BY DEF Aged, Carries, Rows, Over

LEMMA CarriesTwice ==
    ASSUME NEW r, NEW s, NEW u, Carries(r, s), Carries(s, u)
    PROVE  Carries(r, u)
BY DEF Carries, Opened

-----------------------------------------------------------------------------
(* The writes that do not carry the last result over *)

\* A row without a result starts at the plan, or where planning is skipped.
Fresh(s, version, phase) ==
    /\ s.task_version = version /\ s.status # "completed"
    /\ s.last_outcome = "none" /\ s.phase = phase
    /\ phase # "plan" => phase \in s.authority

LEMMA ScheduledFresh ==
    ASSUME NEW r \in Rows, NEW version, NEW status \in {"queued", "awaiting_start"},
           NEW phase \in Phases
    PROVE  Fresh(Scheduled(r, version, status, phase), version, phase)
BY DEF Scheduled, Logged, Restarted, Moved, Fresh, Rows, Authority

LEMMA ReassignedFresh ==
    ASSUME NEW r \in Rows, NEW version
    PROVE  Fresh(Reassigned(r, version), version, "plan")
BY DEF Reassigned, Logged, Restarted, Moved, Fresh, Rows, Authority

\* A row that is closed with its task is over, at the version that closed it.
LEMMA LifecycleClosedIsOver ==
    ASSUME NEW r \in Rows, NEW version, NEW action
    PROVE  LET s == LifecycleClosed(r, version, action)
           IN Over(s) /\ s.task_version = version
BY DEF LifecycleClosed, Logged, Restarted, Moved, Rows, Over, Terminal

\* An answer is the last result now, for the task as the row had it; the phase
\* is the one it was given in or the one it asked for.
Gives(r, s, k, outcome) ==
    /\ s.last_outcome = outcome /\ s.last_claim = k
    /\ s.task_version = r.task_version /\ s.status # "completed"
    /\ \/ s.phase = "plan"
       \/ s.phase = r.phase /\ r.authority \subseteq s.authority
       \/ Opened(s)

LEMMA RecordedGives ==
    ASSUME NEW r \in Rows, NEW k \in Nat, NEW outcome \in Outcomes, NEW next,
           \/ next = r.phase
           \/ outcome \in DOMAIN GateOpens /\ next = GateOpens[outcome]
    PROVE  Gives(r, Recorded(r, k, outcome, next), k, outcome)
PROOF
<1> DEFINE m      == Restarted(r, "awaiting_review")
           a      == [m EXCEPT !.last_outcome = outcome, !.last_claim = k]
           stored == Logged(a, "result_recorded")
           b      == [stored EXCEPT !.status = "queued", !.phase = next]
<1>1. /\ m \in Rows /\ m.phase = r.phase /\ m.task_version = r.task_version
      /\ m.authority = r.authority /\ m.status = "awaiting_review"
  <2>1. m \in Rows /\ m.phase = r.phase /\ m.status = "awaiting_review"
    BY RestartedType DEF Statuses
  <2>2. m.task_version = r.task_version /\ m.authority = r.authority
    BY DEF Restarted, Moved, Rows
  <2> QED BY <2>1, <2>2
<1> HIDE DEF m
<1>2. /\ a \in Rows /\ a.last_outcome = outcome /\ a.last_claim = k
      /\ a.phase = r.phase /\ a.task_version = r.task_version /\ a.authority = r.authority
      /\ a.status = "awaiting_review"
  BY <1>1 DEF Rows
<1>3. Recorded(r, k, outcome, next) = IF next = r.phase THEN stored
                                      ELSE Logged(b, "phase_granted")
  BY DEF Recorded, m
<1> HIDE DEF a
<1>4. /\ stored \in Rows /\ stored.last_outcome = outcome /\ stored.last_claim = k
      /\ stored.task_version = r.task_version /\ stored.phase = r.phase
      /\ stored.status = "awaiting_review"
      /\ r.phase # "plan" => stored.authority = r.authority
  <2>1. /\ stored \in Rows /\ stored.last_claim = a.last_claim
        /\ stored.task_version = a.task_version /\ stored.phase = a.phase
        /\ stored.status = a.status
    BY <1>2, LoggedType, LoggedKeeps
  <2>2. stored.last_outcome = a.last_outcome
    BY <1>2 DEF Logged, Rows
  <2>3. stored.authority = Authority(a, "result_recorded")
    BY <1>2 DEF Logged, Rows
  <2>4. r.phase # "plan" => Authority(a, "result_recorded") = a.authority
    BY <1>2 DEF Authority
  <2> QED BY <1>2, <2>1, <2>2, <2>3, <2>4
<1> HIDE DEF stored
<1>5. CASE next = r.phase
  BY <1>3, <1>4, <1>5 DEF Gives
<1>6. CASE next # r.phase
  <2>1. outcome \in DOMAIN GateOpens /\ next = GateOpens[outcome]
    BY <1>6
  <2>2. next # "plan" /\ next \in Phases
    BY <2>1 DEF GateOpens, Phases
  <2>3. /\ b \in Rows /\ b.last_outcome = outcome /\ b.last_claim = k
        /\ b.task_version = r.task_version /\ b.phase = next /\ b.status = "queued"
    BY <1>4, <2>2 DEF Rows, Statuses
  <2> DEFINE s == Logged(b, "phase_granted")
  <2> HIDE DEF b
  <2>4. /\ s.last_outcome = outcome /\ s.last_claim = k
        /\ s.task_version = r.task_version /\ s.phase = next /\ s.status = "queued"
        /\ next \in s.authority
    BY <2>2, <2>3 DEF Logged, Rows, Authority
  <2>5. Recorded(r, k, outcome, next) = s
    BY <1>3, <1>6
  <2> HIDE DEF s
  <2> QED BY <2>1, <2>4, <2>5 DEF Gives, Opened
<1> QED BY <1>5, <1>6

-----------------------------------------------------------------------------
(* Task rows *)

\* A write to the tasks table never takes a version back, opens a task under a
\* later version only, and neither proposes an owner nor alters the report a
\* proposal rests on.
Follows(r, s) == /\ s.version >= r.version
                 /\ s.version = r.version /\ s.status = "open" => r.status = "open"
Grows(r, s) == /\ Follows(r, s)
               /\ s.review = "pending" => /\ r.review = "pending"
                                          /\ r.research = "disputes" =>
                                               s.research = "disputes"

LEMMA SelfGrows ==
    ASSUME NEW r \in TaskRows
    PROVE  Grows(r, r)
BY DEF Grows, Follows, TaskRows

\* A later version has no proposal, whatever else the write says of it.
LEMMA LaterGrows ==
    ASSUME NEW r \in TaskRows, NEW s, s.version = r.version + 1, s.review # "pending"
    PROVE  Grows(r, s)
BY DEF Grows, Follows, TaskRows

LEMMA NextVersionIs ==
    ASSUME NEW r \in TaskRows
    PROVE  /\ NextVersion(r).version = r.version + 1
           /\ NextVersion(r).review = "none"
           /\ Bound(NextVersion(r)).version = r.version + 1
           /\ Bound(NextVersion(r)).review = "none"
BY DEF NextVersion, Bound, TaskRows

LEMMA ClosedBySourceIs ==
    ASSUME NEW r \in TaskRows, NEW action
    PROVE  /\ ClosedBySource(r, action).version = r.version + 1
           /\ ClosedBySource(r, action).review = "none"
           /\ ClosedBySource(r, action).status # "open"
BY DEF ClosedBySource, NextVersion, Bound, TaskRows

LEMMA OneTaskGrows ==
    ASSUME ClaimInv, NEW t \in Tasks, NEW s, Grows(task[t], s),
           task' = [task EXCEPT ![t] = s]
    PROVE  \A u \in Tasks : Grows(task[u], task'[u])
BY SelfGrows DEF ClaimInv, TypeOK

\* Only a runner's pass proposes an owner.
LEMMA TasksGrow ==
    ASSUME ClaimInv, Next, ~ClaimNext
    PROVE  \A u \in Tasks : Grows(task[u], task'[u])
PROOF
<1>1. task \in [Tasks -> TaskRows]
  BY DEF ClaimInv, TypeOK
<1>2. CASE ScheduleNew
  <2>1. PICK C : task' = [t \in Tasks |-> IF t \in C
                                          THEN ClosedBySource(task[t], "done")
                                          ELSE task[t]]
    BY <1>2 DEF ScheduleNew
  <2>2. \A t \in Tasks : Grows(task[t], ClosedBySource(task[t], "done"))
    BY <1>1, ClosedBySourceIs, LaterGrows
  <2> QED BY <1>1, <2>1, <2>2, SelfGrows
<1>3. CASE task' = task
  BY <1>1, <1>3, SelfGrows
<1>4. ASSUME NEW t \in Tasks, NEW k \in ClaimIds, Work(t, k)
      PROVE  task' = task
  BY <1>4 DEF Work, Renew, Release, Fail, RecordResult
<1>5. ASSUME NEW t \in Tasks, ReaderStep(t)
      PROVE  \A u \in Tasks : Grows(task[u], task'[u])
  <2>0. task[t] \in TaskRows
    BY <1>1
  <2>1. ASSUME NEW action, StartAction(t, action)
        PROVE  \A u \in Tasks : Grows(task[u], task'[u])
    <3> DEFINE decided == [task[t] EXCEPT !.review = "decided", !.owner_pinned = TRUE]
    <3>1. Grows(task[t], decided)
      BY <2>0 DEF Grows, Follows, TaskRows
    <3>2. task' = [task EXCEPT ![t] = decided] \/ task' = task
      BY <1>1, <2>1 DEF StartAction, TaskRows
    <3> HIDE DEF decided
    <3> QED BY <1>3, <3>1, <3>2, OneTaskGrows
  <2>2. ASSUME NEW action, LifecycleAction(t, action)
        PROVE  \A u \in Tasks : Grows(task[u], task'[u])
    <3> DEFINE a == NextVersion(task[t])
               b == [a EXCEPT !.status = IF action = "done" THEN "done"
                                         ELSE "dropped"]
    <3>1. task' = [task EXCEPT ![t] = b]
      BY <2>2 DEF LifecycleAction
    <3>2. a \in TaskRows /\ a.version = task[t].version + 1 /\ a.review = "none"
      BY <2>0, NextVersionIs, NextVersionType
    <3> HIDE DEF a
    <3>3. b.version = task[t].version + 1 /\ b.review = "none"
      BY <3>2 DEF TaskRows
    <3> HIDE DEF b
    <3> QED BY <2>0, <3>1, <3>3, LaterGrows, OneTaskGrows
  <2>3. CASE Reassign(t)
    <3> DEFINE a == NextVersion(task[t])
               b == [a EXCEPT !.owner_pinned = TRUE]
    <3>1. task' = [task EXCEPT ![t] = b]
      BY <2>3 DEF Reassign
    <3>2. a \in TaskRows /\ a.version = task[t].version + 1 /\ a.review = "none"
      BY <2>0, NextVersionIs, NextVersionType
    <3> HIDE DEF a
    <3>3. b.version = task[t].version + 1 /\ b.review = "none"
      BY <3>2 DEF TaskRows
    <3> HIDE DEF b
    <3> QED BY <2>0, <3>1, <3>3, LaterGrows, OneTaskGrows
  <2>4. CASE \/ \E action \in ReviewActions : ReviewAction(t, action)
             \/ Steer(t) \/ Discuss(t) \/ Retry(t)
             \/ \E priority \in DOMAIN Rank : SetPriority(t, priority)
    BY <1>3, <2>4 DEF ReviewAction, Steer, Discuss, Retry, SetPriority
  <2> QED BY <1>5, <2>1, <2>2, <2>3, <2>4 DEF ReaderStep
<1>6. ASSUME NEW t \in Tasks, OperatorStep(t)
      PROVE  task' = task
  BY <1>6 DEF OperatorStep, Schedule, LoseProfile, Adopt, Reconfigure
<1>7. ASSUME NEW t \in Tasks, SourceStep(t)
      PROVE  \A u \in Tasks : Grows(task[u], task'[u])
  <2> DEFINE next == NextVersion(task[t])
             bound == Bound(next)
  <2>0. task[t] \in TaskRows
    BY <1>1
  <2>1. /\ next \in TaskRows /\ next.version = task[t].version + 1
        /\ next.review = "none"
        /\ bound \in TaskRows /\ bound.version = task[t].version + 1
        /\ bound.review = "none"
    BY <2>0, NextVersionType, BoundType, NextVersionIs
  <2>2. CASE EditTask(t)
    BY <2>0, <2>1, <2>2, LaterGrows, OneTaskGrows DEF EditTask
  <2>3. ASSUME NEW status \in {"done", "dropped"}, CloseTask(t, status)
        PROVE  \A u \in Tasks : Grows(task[u], task'[u])
    <3> DEFINE s == [next EXCEPT !.status = status]
    <3>1. task' = [task EXCEPT ![t] = s]
      BY <2>3 DEF CloseTask
    <3> HIDE DEF next
    <3>2. s.version = task[t].version + 1 /\ s.review = "none"
      BY <2>1 DEF TaskRows
    <3> HIDE DEF s
    <3> QED BY <2>0, <3>1, <3>2, LaterGrows, OneTaskGrows
  <2>4. ASSUME NEW bySource \in BOOLEAN, ReopenTask(t, bySource)
        PROVE  \A u \in Tasks : Grows(task[u], task'[u])
    <3> DEFINE s == Reopened(task[t])
    <3>1. s.version = task[t].version + 1 /\ s.review = "none" /\ s \in TaskRows
      <4>1. s.version = next.version /\ s.review = next.review
        BY <2>1 DEF Reopened, TaskRows
      <4> QED BY <2>0, <2>1, <4>1, ReopenedType
    <3>2. Bound(s).version = task[t].version + 1 /\ Bound(s).review = "none"
      BY <3>1 DEF Bound, TaskRows
    <3>3. task' = [task EXCEPT ![t] = s] \/ task' = [task EXCEPT ![t] = Bound(s)]
      BY <2>4 DEF ReopenTask
    <3> HIDE DEF s
    <3>4. Grows(task[t], s) /\ Grows(task[t], Bound(s))
      BY <2>0, <3>1, <3>2, LaterGrows
    <3> QED BY <3>3, <3>4, OneTaskGrows
  <2>5. ASSUME NEW action, SourceWithdraws(t, action)
        PROVE  \A u \in Tasks : Grows(task[u], task'[u])
    <3> DEFINE closed == ClosedBySource(task[t], action)
               kept == [bound EXCEPT !.source = "preserved_open"]
               left == [Bound(task[t]) EXCEPT !.source = "reader_conflict"]
    <3>1. \E x \in {closed, kept, left} : task' = [task EXCEPT ![t] = x]
      BY <1>1, <2>5 DEF SourceWithdraws
    <3>2. Grows(task[t], closed)
      BY <2>0, ClosedBySourceIs, LaterGrows
    <3>3. Grows(task[t], left)
      BY <2>0 DEF Bound, Grows, Follows, TaskRows
    <3> HIDE DEF bound
    <3>4. kept.version = task[t].version + 1 /\ kept.review = "none"
      BY <2>1 DEF TaskRows
    <3> HIDE DEF closed, kept, left
    <3>5. Grows(task[t], kept)
      BY <2>0, <3>4, LaterGrows
    <3> QED BY <3>1, <3>2, <3>3, <3>5, OneTaskGrows
  <2>6. CASE SourceReturns(t)
    <3> DEFINE opened == [bound EXCEPT !.status = "open", !.source = "current"]
               back == [Bound(task[t]) EXCEPT !.source = "current"]
    <3>1. \E x \in {opened, back} : task' = [task EXCEPT ![t] = x]
      BY <1>1, <2>6 DEF SourceReturns
    <3>2. Grows(task[t], back)
      BY <2>0 DEF Bound, Grows, Follows, TaskRows
    <3> HIDE DEF bound
    <3>3. opened.version = task[t].version + 1 /\ opened.review = "none"
      BY <2>1 DEF TaskRows
    <3> HIDE DEF opened, back
    <3>4. Grows(task[t], opened)
      BY <2>0, <3>3, LaterGrows
    <3> QED BY <3>1, <3>2, <3>4, OneTaskGrows
  <2>7. CASE ConditionMet(t)
    <3> DEFINE s == [task[t] EXCEPT !.blocked = FALSE]
    <3>1. task' = [task EXCEPT ![t] = s]
      BY <2>7 DEF ConditionMet
    <3>2. Grows(task[t], s)
      BY <2>0 DEF Grows, Follows, TaskRows
    <3> HIDE DEF s
    <3> QED BY <3>1, <3>2, OneTaskGrows
  <2>8. ASSUME NEW to \in {"overdue", "agrees", "disputes", "ended"},
               ResearchMoves(t, to)
        PROVE  \A u \in Tasks : Grows(task[u], task'[u])
    <3> DEFINE s == [task[t] EXCEPT !.research = to]
    <3>1. task' = [task EXCEPT ![t] = s] /\ task[t].research # "disputes"
      BY <2>8 DEF ResearchMoves
    <3>2. Grows(task[t], s)
      BY <2>0, <3>1 DEF Grows, Follows, TaskRows
    <3> HIDE DEF s
    <3> QED BY <3>1, <3>2, OneTaskGrows
  <2> QED BY <1>7, <2>2, <2>3, <2>4, <2>5, <2>6, <2>7, <2>8 DEF SourceStep
<1>8. CASE Tick
  BY <1>3, <1>8 DEF Tick
<1> QED BY <1>2, <1>3, <1>4, <1>5, <1>6, <1>7, <1>8 DEF Next

-----------------------------------------------------------------------------
(* Every step passes every row on *)

\* What a step makes of the last result of a row: it is carried, dropped with
\* the plan it belonged to, closed with its task, or replaced by an answer.
Passed(t) ==
    \/ Carries(wf[t], wf'[t])
    \/ \E phase \in {"plan", InitialPhase(t)} : Fresh(wf'[t], task'[t].version, phase)
    \/ Over(wf'[t]) /\ wf'[t].task_version = task'[t].version /\ task'[t].status # "open"
    \/ \E k \in ClaimIds, outcome \in Outcomes :
         /\ wf[t].claim = k /\ wf[t].status = "running"
         /\ fate'[k] = "recorded" /\ claims' = claims
         /\ Gives(wf[t], wf'[t], k, outcome)

AllPass == \A t \in Tasks : Passed(t)

LEMMA SelfCarries ==
    ASSUME NEW r \in Rows
    PROVE  Carries(r, r)
BY DEF Carries, Rows

\* Where only one row is written, only that row matters.
LEMMA OneRowPasses ==
    ASSUME ClaimInv, NEW t \in Tasks, NEW s, wf' = [wf EXCEPT ![t] = s], Passed(t)
    PROVE  AllPass
BY SelfCarries DEF AllPass, Passed, ClaimInv, TypeOK

LEMMA OneRowCarries ==
    ASSUME ClaimInv, NEW t \in Tasks, NEW s, wf' = [wf EXCEPT ![t] = s],
           Carries(wf[t], s)
    PROVE  AllPass
BY OneRowPasses DEF Passed, ClaimInv, TypeOK

LEMMA NoRowPasses ==
    ASSUME ClaimInv, wf' = wf
    PROVE  AllPass
BY SelfCarries DEF AllPass, Passed, ClaimInv, TypeOK

\* The holder of a claim.
LEMMA WorkPasses ==
    ASSUME NEW t \in Tasks, NEW k \in ClaimIds, ClaimInv, Work(t, k)
    PROVE  AllPass
PROOF
<1>1. wf[t] \in Rows /\ wf \in [Tasks -> Rows]
  BY DEF ClaimInv, TypeOK
<1>2. CASE Renew(t, k)
  <2> DEFINE s == Logged([wf[t] EXCEPT !.timer = LeaseTime,
                                       !.updated_now = TRUE], "claim_renewed")
  <2>1. ~Over(wf[t])
    BY <1>2 DEF Renew, Accepts, Over, Terminal
  <2>2. Carries(wf[t], s)
    BY <1>1, <2>1, RenewedCarries
  <2>3. wf' = [wf EXCEPT ![t] = s]
    BY <1>2 DEF Renew
  <2> HIDE DEF s
  <2> QED BY <2>2, <2>3, OneRowCarries
<1>3. CASE Release(t, k)
  <2>1. ~Over(wf[t])
    BY <1>3 DEF Release, Accepts, Over, Terminal
  <2> QED BY <1>1, <1>3, <2>1, ReleasedCarries, OneRowCarries DEF Release
<1>4. ASSUME NEW reason \in FailureReasons, Fail(t, k, reason)
      PROVE  AllPass
  <2>1. ~Over(wf[t])
    BY <1>4 DEF Fail, Accepts, Over, Terminal
  <2> QED BY <1>1, <1>4, <2>1, DeferredCarries, OneRowCarries DEF Fail
<1>5. ASSUME NEW outcome \in Outcomes, NEW answer \in Answers,
             RecordResult(t, k, outcome, answer)
      PROVE  AllPass
  <2> DEFINE next == Advance(t, wf[t].phase, outcome)
             s == Recorded(wf[t], k, outcome, next)
  <2>1. \/ next = wf[t].phase
        \/ outcome \in DOMAIN GateOpens /\ next = GateOpens[outcome]
    BY DEF Advance, GrantedAdvance, GateOpens
  <2>2. k \in Nat
    BY ClaimIdsPositive
  <2>3. /\ wf' = [wf EXCEPT ![t] = s] /\ claims' = claims
        /\ wf[t].claim = k /\ wf[t].status = "running"
    BY <1>5 DEF RecordResult, Accepts
  <2> HIDE DEF next
  <2>4. Gives(wf[t], s, k, outcome)
    BY <1>1, <2>1, <2>2, RecordedGives
  <2>5. fate'[k] = "recorded"
    BY <1>5 DEF RecordResult, Settle
  <2> HIDE DEF s
  <2>6. Passed(t)
    BY <1>1, <2>3, <2>4, <2>5 DEF Passed
  <2> QED BY <2>3, <2>6, OneRowPasses
<1> QED BY <1>2, <1>3, <1>4, <1>5 DEF Work

\* Cancelling what is stale carries every row.
LEMMA CancelStaleCarries ==
    ASSUME ClaimInv, NEW t \in Tasks
    PROVE  Carries(wf[t], CancelStale(task, wf)[t])
BY CancelledCarries, SelfCarries DEF CancelStale, ClaimInv, TypeOK

\* The reader, who is never asked about a completed row: its task has moved on.
CompletedIsPast == \A t \in Tasks : wf[t].status = "completed" => ~Current(task, wf, t)

LEMMA ReaderPasses ==
    ASSUME NEW t \in Tasks, ClaimInv, CompletedIsPast, ReaderStep(t)
    PROVE  AllPass
PROOF
<1>1. wf[t] \in Rows /\ wf \in [Tasks -> Rows] /\ task \in [Tasks -> TaskRows]
  BY DEF ClaimInv, TypeOK
<1>2. ASSUME NEW action \in StartActions, StartAction(t, action)
      PROVE  AllPass
  <2>1. ~Over(wf[t])
    BY <1>2 DEF StartAction, Over, Terminal
  <2> QED BY <1>1, <1>2, <2>1, StartedCarries, OneRowCarries DEF StartAction
<1>3. ASSUME NEW action \in ReviewActions, ReviewAction(t, action)
      PROVE  AllPass
  <2>1. ~Over(wf[t]) /\ (action = "approve" => wf[t].last_outcome \in DOMAIN GateOpens)
    BY <1>3 DEF ReviewAction, CompletedIsPast, Over, Terminal
  <2> QED BY <1>1, <1>3, <2>1, ReviewedCarries, OneRowCarries DEF ReviewAction
<1>4. ASSUME NEW action \in {"done", "drop"}, LifecycleAction(t, action)
      PROVE  AllPass
  <2> DEFINE s == LifecycleClosed(wf[t], task[t].version + 1, action)
             a == NextVersion(task[t])
             b == [a EXCEPT !.status = IF action = "done" THEN "done" ELSE "dropped"]
  <2>1. Over(s) /\ s.task_version = task[t].version + 1
    BY <1>1, LifecycleClosedIsOver
  <2>2. wf' = [wf EXCEPT ![t] = s] /\ task' = [task EXCEPT ![t] = b]
    BY <1>4 DEF LifecycleAction
  <2>3. a \in TaskRows /\ a.version = task[t].version + 1
    BY <1>1, NextVersionIs, NextVersionType
  <2> HIDE DEF s, a
  <2>4. b.status # "open" /\ b.version = task[t].version + 1
    BY <2>3 DEF TaskRows
  <2> HIDE DEF b
  <2>5. Passed(t)
    BY <1>1, <2>1, <2>2, <2>4 DEF Passed
  <2> QED BY <2>2, <2>5, OneRowPasses
<1>5. CASE Steer(t)
  <2>1. ~Over(wf[t])
    BY <1>5 DEF Steer, Over, Terminal
  <2> QED BY <1>1, <1>5, <2>1, SteeredCarries, OneRowCarries DEF Steer
<1>6. CASE Discuss(t)
  <2>1. ~Over(wf[t])
    BY <1>6 DEF Discuss, OnCard, Over, Terminal
  <2> QED BY <1>1, <1>6, <2>1, DiscussedCarries, OneRowCarries DEF Discuss
<1>7. CASE Reassign(t)
  <2> DEFINE s == Reassigned(wf[t], task[t].version + 1)
             a == NextVersion(task[t])
             b == [a EXCEPT !.owner_pinned = TRUE]
  <2>1. Fresh(s, task[t].version + 1, "plan")
    BY <1>1, ReassignedFresh
  <2>2. wf' = [wf EXCEPT ![t] = s] /\ task' = [task EXCEPT ![t] = b]
    BY <1>7 DEF Reassign
  <2>3. a \in TaskRows /\ a.version = task[t].version + 1
    BY <1>1, NextVersionIs, NextVersionType
  <2> HIDE DEF s, a
  <2>4. b.version = task[t].version + 1
    BY <2>3 DEF TaskRows
  <2> HIDE DEF b
  <2>5. Passed(t)
    BY <1>1, <2>1, <2>2, <2>4 DEF Passed
  <2> QED BY <2>2, <2>5, OneRowPasses
<1>8. CASE Retry(t)
  <2>1. ~Over(wf[t])
    BY <1>8 DEF Retry, Over, Terminal
  <2> QED BY <1>1, <1>8, <2>1, RetriedCarries, OneRowCarries DEF Retry
<1>9. ASSUME NEW priority \in DOMAIN Rank, SetPriority(t, priority)
      PROVE  AllPass
  <2> DEFINE rows == CancelStale(task, wf)
             s == Prioritised(rows[t], priority)
  <2>1. rows \in [Tasks -> Rows] /\ \A u \in Tasks : Carries(wf[u], rows[u])
    BY CancelStaleSteps, CancelStaleCarries
  <2>2. rows[t].status = "queued" /\ wf' = [rows EXCEPT ![t] = s]
    BY <1>9 DEF SetPriority
  <2> HIDE DEF rows
  <2>3. ~Over(rows[t])
    BY <2>2 DEF Over, Terminal
  <2>4. Carries(rows[t], s)
    BY <2>1, <2>3, PrioritisedCarries
  <2> HIDE DEF s
  <2>5. \A u \in Tasks : Carries(wf[u], wf'[u])
    BY <2>1, <2>2, <2>4, CarriesTwice
  <2> QED BY <2>5 DEF AllPass, Passed
<1> QED BY <1>2, <1>3, <1>4, <1>5, <1>6, <1>7, <1>8, <1>9 DEF ReaderStep

\* The operator.
LEMMA OperatorPasses ==
    ASSUME NEW t \in Tasks, ClaimInv, OperatorStep(t)
    PROVE  AllPass
PROOF
<1>1. wf[t] \in Rows /\ wf \in [Tasks -> Rows]
  BY DEF ClaimInv, TypeOK
<1>2. CASE Schedule(t)
  <2> DEFINE s == Scheduled(wf[t], task[t].version, InitialStatus(t), InitialPhase(t))
  <2>1. /\ InitialStatus(t) \in {"queued", "awaiting_start"}
        /\ InitialPhase(t) \in Phases
    BY DEF InitialStatus, InitialPhase, Phases
  <2>2. Fresh(s, task[t].version, InitialPhase(t))
    BY <1>1, <2>1, ScheduledFresh
  <2>3. wf' = [wf EXCEPT ![t] = s] /\ task' = task
    BY <1>2 DEF Schedule
  <2> HIDE DEF s
  <2>4. Passed(t)
    BY <1>1, <2>2, <2>3 DEF Passed
  <2> QED BY <2>3, <2>4, OneRowPasses
<1>3. CASE LoseProfile(t)
  <2> DEFINE s == [wf[t] EXCEPT !.resolvable = FALSE]
  <2>1. Carries(wf[t], s) /\ wf' = [wf EXCEPT ![t] = s]
    BY <1>1, <1>3, UnresolvableCarries DEF LoseProfile
  <2> HIDE DEF s
  <2> QED BY <2>1, OneRowCarries
<1>4. CASE Adopt(t)
  <2>1. ~Over(wf[t])
    BY <1>4 DEF Adopt, Over
  <2> QED BY <1>1, <1>4, <2>1, AdoptedCarries, OneRowCarries DEF Adopt
<1>5. ASSUME NEW gate \in DOMAIN grants, Reconfigure(t, gate)
      PROVE  AllPass
  BY <1>5, NoRowPasses DEF Reconfigure
<1> QED BY <1>2, <1>3, <1>4, <1>5 DEF OperatorStep

\* A row a forge item closes is over already or closed with its task.
LEMMA ClosedRowPasses ==
    ASSUME NEW r \in Rows, NEW version, NEW action
    PROVE  LET s == ClosedRow(r, version, action)
           IN s = r \/ (Over(s) /\ s.task_version = version)
BY LifecycleClosedIsOver DEF ClosedRow

\* The feed.
LEMMA SourcePasses ==
    ASSUME NEW t \in Tasks, ClaimInv, SourceStep(t)
    PROVE  AllPass
PROOF
<1>1. wf[t] \in Rows /\ wf \in [Tasks -> Rows] /\ task \in [Tasks -> TaskRows]
  BY DEF ClaimInv, TypeOK
<1>2. CASE wf' = wf
  BY <1>2, NoRowPasses
<1>3. ASSUME NEW action \in {"done", "drop"}, SourceWithdraws(t, action)
      PROVE  AllPass
  <2> DEFINE closed == ClosedBySource(task[t], action)
             s == ClosedRow(wf[t], closed.version, action)
  <2>1. CASE wf' # wf
    <3>1. wf' = [wf EXCEPT ![t] = s] /\ task' = [task EXCEPT ![t] = closed]
      BY <1>3, <2>1 DEF SourceWithdraws
    <3>2. closed.status # "open"
      BY <1>1, ClosedBySourceIs
    <3> HIDE DEF closed
    <3>3. s = wf[t] \/ (Over(s) /\ s.task_version = closed.version)
      BY <1>1, ClosedRowPasses
    <3> HIDE DEF s
    <3>4. CASE s = wf[t]
      BY <1>1, <3>1, <3>4, SelfCarries, OneRowCarries
    <3>5. CASE Over(s) /\ s.task_version = closed.version
      <4>1. Passed(t)
        BY <1>1, <3>1, <3>2, <3>5 DEF Passed
      <4> QED BY <3>1, <4>1, OneRowPasses
    <3> QED BY <3>3, <3>4, <3>5
  <2> QED BY <1>2, <2>1
<1> QED
  BY <1>2, <1>3
  DEF SourceStep, EditTask, CloseTask, ReopenTask, SourceReturns,
      ConditionMet, ResearchMoves

\* The clock.
LEMMA TickPasses ==
    ASSUME ClaimInv, Tick
    PROVE  AllPass
BY AgedCarries DEF Tick, AllPass, Passed, ClaimInv, TypeOK

\* The sweep that opens a runner's pass, ...
LEMMA SweepCarries ==
    ASSUME ClaimInv, NEW t \in Tasks
    PROVE  SweptRows[t] \in Rows /\ Carries(wf[t], SweptRows[t])
PROOF
<1> DEFINE cs == CancelStale(task, wf)
<1>1. cs[t] \in Rows /\ Carries(wf[t], cs[t])
  BY CancelStaleSteps, CancelStaleCarries
<1>2. SweptRows[t] = IF t \in Expired(cs) THEN Deferred(cs[t], "other") ELSE cs[t]
  BY DEF SweptRows, RecoverExpired
<1> HIDE DEF cs
<1>3. t \in Expired(cs) => ~Over(cs[t])
  BY DEF Expired, Over, Terminal
<1>4. SweptRows[t] \in Rows
  BY SweepGoes DEF LetsGo
<1> QED BY <1>1, <1>2, <1>3, <1>4, DeferredCarries, CarriesTwice

\* ... and what the scan leaves on the rows it looks at.
LEMMA ScanCarries ==
    ASSUME NEW rows, NEW tasks, NEW phases, NEW passed, NEW t \in Tasks,
           rows[t] \in Rows, passed \subseteq Claimable(rows, phases)
    PROVE  LET scanned == PassedRows(tasks, rows, passed)
           IN /\ Carries(rows[t], scanned[t])
              /\ t \notin passed => scanned[t] = rows[t]
PROOF
<1> DEFINE scanned == PassedRows(tasks, rows, passed)
           held == With(tasks, rows, passed, "hold")
           deferred == With(tasks, rows, passed, "defer")
<1>1. scanned[t] = IF t \in held THEN HeldForOwner(rows[t])
                   ELSE IF t \in deferred THEN Deferred(rows[t], "other")
                   ELSE rows[t]
  BY DEF PassedRows
<1>2. /\ t \in held => t \in passed /\ rows[t].phase = "plan"
      /\ t \in deferred => t \in passed
  BY DEF With, Verdict, Gated
<1>3. t \in passed => ~Over(rows[t])
  BY DEF Claimable, Over, Terminal
<1> HIDE DEF held, deferred, scanned
<1>4. Carries(rows[t], scanned[t])
  BY <1>1, <1>2, <1>3, HeldForOwnerCarries, DeferredCarries, SelfCarries
<1> QED BY <1>1, <1>2, <1>4 DEF scanned

LEMMA ClaimNextPasses ==
    ASSUME ClaimInv, ClaimNext
    PROVE  AllPass
PROOF
<1>1. \A t \in Tasks : SweptRows[t] \in Rows /\ Carries(wf[t], SweptRows[t])
  BY SweepCarries
<1>2. CASE SlotsBusy
  BY <1>1, <1>2 DEF SlotsBusy, AllPass, Passed
<1>3. ASSUME NEW phases \in Allowlists, NothingToClaim(phases)
      PROVE  AllPass
  <2> DEFINE tasks == SweptTasks(SweptRows)
  <2>1. PICK passed \in SUBSET Claimable(SweptRows, phases) :
          wf' = PassedRows(tasks, SweptRows, passed)
    BY <1>3 DEF NothingToClaim
  <2> HIDE DEF tasks
  <2>2. \A t \in Tasks : Carries(SweptRows[t], wf'[t])
    BY <1>1, <2>1, ScanCarries
  <2>3. \A t \in Tasks : Carries(wf[t], wf'[t])
    BY <1>1, <2>2, CarriesTwice
  <2> QED BY <2>3 DEF AllPass, Passed
<1>4. ASSUME NEW phases \in Allowlists, NEW t \in Tasks, NEW k \in ClaimIds,
             Claim(phases, t, k)
      PROVE  AllPass
  <2> DEFINE tasks == SweptTasks(SweptRows)
  <2>1. PICK passed \in SUBSET (Claimable(SweptRows, phases) \ {t}) :
          wf' = [PassedRows(tasks, SweptRows, passed) EXCEPT ![t] = Claimed(@, k)]
    BY <1>4 DEF Claim
  <2>2. t \in Claimable(SweptRows, phases)
    BY <1>4 DEF Claim
  <2> DEFINE scanned == PassedRows(tasks, SweptRows, passed)
  <2>3. \A u \in Tasks : /\ Carries(SweptRows[u], scanned[u])
                         /\ u \notin passed => scanned[u] = SweptRows[u]
    <3> HIDE DEF tasks
    <3> QED BY <1>1, <2>1, ScanCarries
  <2>4. wf' = [scanned EXCEPT ![t] = Claimed(scanned[t], k)] /\ DOMAIN scanned = Tasks
    BY <2>1 DEF PassedRows
  <2> HIDE DEF scanned, tasks
  <2>5. scanned[t] = SweptRows[t] /\ ~Over(SweptRows[t])
    BY <2>1, <2>2, <2>3 DEF Claimable, Over, Terminal
  <2>6. Carries(SweptRows[t], Claimed(SweptRows[t], k))
    BY <1>1, <2>5, ClaimedCarries
  <2>7. \A u \in Tasks : Carries(SweptRows[u], wf'[u])
    BY <2>3, <2>4, <2>5, <2>6
  <2>8. \A u \in Tasks : Carries(wf[u], wf'[u])
    BY <1>1, <2>7, CarriesTwice
  <2> QED BY <2>8 DEF AllPass, Passed
<1> QED BY <1>2, <1>3, <1>4 DEF ClaimNext

\* The scheduler: gates it opens carry the result that asked, tasks it closes
\* take their rows along, and what it schedules starts without a result.
LEMMA ScheduleNewPasses ==
    ASSUME ClaimInv, ScheduleNew
    PROVE  AllPass
PROOF
<1> DEFINE fresh == CancelStale(task, wf)
           promoted == Promotable(fresh)
           advanced == Advanceable(fresh)
           next(t) == Advance(t, fresh[t].phase, fresh[t].last_outcome)
           opened == [t \in Tasks |->
                        IF t \in promoted THEN Promoted(fresh[t])
                        ELSE IF t \in advanced THEN GateGranted(fresh[t], next(t))
                        ELSE fresh[t]]
           closing == Abandoned(opened)
           tasks == [t \in Tasks |-> IF t \in closing
                                     THEN ClosedBySource(task[t], "done")
                                     ELSE task[t]]
           rows == [t \in Tasks |->
                      IF t \in closing
                      THEN ClosedRow(opened[t], tasks[t].version, "done")
                      ELSE opened[t]]
<1>1. PICK S \in SUBSET Eligible(tasks, rows) :
        wf' = [t \in Tasks |->
                 IF t \in S
                 THEN Scheduled(rows[t], tasks[t].version, InitialStatus(t),
                                InitialPhase(t))
                 ELSE rows[t]]
  BY DEF ScheduleNew
<1>2. task' = tasks
  BY DEF ScheduleNew
<1> SUFFICES ASSUME NEW t \in Tasks PROVE Passed(t)
  BY DEF AllPass
<1>3. fresh[t] \in Rows /\ wf[t] \in Rows /\ task[t] \in TaskRows
      /\ Carries(wf[t], fresh[t])
  BY CancelStaleSteps, CancelStaleCarries DEF ClaimInv, TypeOK
<1>4. Carries(fresh[t], opened[t]) /\ opened[t] \in Rows
  <2> HIDE DEF fresh
  <2>1. next(t) \in Phases
    BY <1>3 DEF Advance, GrantedAdvance, Phases, Rows
  <2>2. CASE t \in promoted
    <3>1. /\ fresh[t].phase = "plan" /\ ~Over(fresh[t])
          /\ fresh[t].status = "awaiting_start"
      BY <2>2 DEF Promotable, Over, Terminal
    <3>2. opened[t] = Promoted(fresh[t])
      BY <2>2
    <3>3. opened[t] \in Rows
      BY <1>3, <3>1, <3>2, PromotedLeaves DEF Left
    <3> QED BY <1>3, <3>1, <3>2, <3>3, PromotedCarries
  <2>3. CASE t \notin promoted /\ t \in advanced
    <3>1. next(t) # fresh[t].phase /\ ~Over(fresh[t])
      BY <2>3 DEF Advanceable, Over, Terminal
    <3>2. opened[t] = GateGranted(fresh[t], next(t))
      BY <2>3
    <3>3. opened[t] \in Rows
      BY <1>3, <2>1, <3>2, GateGrantedLeaves DEF Left
    <3>4. /\ fresh[t].last_outcome \in DOMAIN GateOpens
          /\ next(t) = GateOpens[fresh[t].last_outcome]
      BY <3>1 DEF Advance, GrantedAdvance, GateOpens
    <3> HIDE DEF next
    <3> QED BY <1>3, <3>1, <3>2, <3>3, <3>4, GateGrantedCarries
  <2>4. CASE t \notin promoted /\ t \notin advanced
    BY <1>3, <2>4, SelfCarries
  <2> QED BY <2>2, <2>3, <2>4
<1> HIDE DEF fresh, opened
<1>5. Carries(wf[t], opened[t])
  BY <1>3, <1>4, CarriesTwice
<1>6. CASE t \in closing
  <2>1. tasks[t].status # "open"
    BY <1>3, <1>6, ClosedBySourceIs
  <2>2. rows[t] = ClosedRow(opened[t], tasks[t].version, "done")
    BY <1>6
  <2> HIDE DEF rows, tasks
  <2>3. wf'[t] = rows[t]
    BY <1>1, <2>1 DEF Eligible
  <2>4. rows[t] = opened[t] \/ (Over(rows[t]) /\ rows[t].task_version = tasks[t].version)
    BY <1>4, <2>2, ClosedRowPasses
  <2> QED BY <1>2, <1>5, <2>1, <2>3, <2>4 DEF Passed
<1>7. CASE t \notin closing
  <2>1. rows[t] = opened[t]
    BY <1>7
  <2> HIDE DEF rows, tasks
  <2>2. CASE t \in S
    <3>1. /\ InitialStatus(t) \in {"queued", "awaiting_start"}
          /\ InitialPhase(t) \in Phases
      BY DEF InitialStatus, InitialPhase, Phases
    <3>2. Fresh(wf'[t], tasks[t].version, InitialPhase(t))
      BY <1>1, <1>4, <2>1, <2>2, <3>1, ScheduledFresh
    <3> QED BY <1>2, <3>2 DEF Passed
  <2>3. CASE t \notin S
    BY <1>1, <1>5, <2>1, <2>3 DEF Passed
  <2> QED BY <2>2, <2>3
<1> QED BY <1>6, <1>7

LEMMA NextPasses ==
    ASSUME ClaimInv, CompletedIsPast, [Next]_vars
    PROVE  AllPass
PROOF
<1>1. CASE UNCHANGED vars
  BY <1>1, NoRowPasses DEF vars
<1>2. CASE Next
  BY <1>2, ScheduleNewPasses, ClaimNextPasses, TickPasses, WorkPasses, ReaderPasses,
     OperatorPasses, SourcePasses DEF Next
<1> QED BY <1>1, <1>2

\* What a runner's pass does to the tasks: no version moves, research is asked
\* for, and an owner is proposed where a disputed plan is held.
LEMMA ClaimNextProposes ==
    ASSUME ClaimInv, ClaimNext, NEW t \in Tasks
    PROVE  /\ Follows(task[t], task'[t])
           /\ task'[t].research # task[t].research => task[t].research = "none"
           /\ task'[t].review = "pending" =>
                \/ task[t].review = "pending"
                \/ /\ task'[t].research = "disputes" /\ t \in Researched
                   /\ wf'[t].status # "running"
PROOF
<1> DEFINE tasks == SweptTasks(SweptRows)
<1>1. task[t] \in TaskRows /\ SweptRows[t] \in Rows
  BY SweepCarries DEF ClaimInv, TypeOK
<1>2. /\ Follows(task[t], tasks[t]) /\ tasks[t] \in TaskRows
      /\ tasks[t].review = task[t].review
      /\ tasks[t].research # task[t].research => task[t].research = "none"
  BY <1>1 DEF SweptTasks, Unrequested, Follows, TaskRows, ResearchStates
<1>3. CASE SlotsBusy
  BY <1>2, <1>3 DEF SlotsBusy
<1>4. ASSUME NEW phases, NEW passed, passed \subseteq Claimable(SweptRows, phases),
             PassesOver(tasks, SweptRows, passed),
             wf'[t].status # "running" \/ wf'[t] = PassedRows(tasks, SweptRows, passed)[t]
                \/ t \notin passed
      PROVE  /\ Follows(task[t], task'[t])
             /\ task'[t].research # task[t].research => task[t].research = "none"
             /\ task'[t].review = "pending" =>
                  \/ task[t].review = "pending"
                  \/ /\ task'[t].research = "disputes" /\ t \in Researched
                     /\ wf'[t].status # "running"
  <2> DEFINE held == With(tasks, SweptRows, passed, "hold")
  <2>1. task'[t] = IF t \in held THEN [tasks[t] EXCEPT !.review = "pending"] ELSE tasks[t]
    BY <1>4 DEF PassesOver
  <2>2. CASE t \in held
    <3>1. t \in passed /\ tasks[t].research = "disputes" /\ t \in Researched
      BY <2>2 DEF With, Verdict, Gated, Contested
    <3>2. wf'[t].status # "running"
      <4>1. PassedRows(tasks, SweptRows, passed)[t] = HeldForOwner(SweptRows[t])
        BY <2>2 DEF PassedRows
      <4>2. HeldForOwner(SweptRows[t]).status # "running"
        BY <1>1, <1>4, <2>2, HeldForOwnerLeaves DEF Left, PassesOver
      <4> QED BY <1>4, <3>1, <4>1, <4>2
    <3> HIDE DEF held, tasks
    <3> QED BY <1>2, <2>1, <2>2, <3>1, <3>2 DEF Follows, TaskRows
  <2>3. CASE t \notin held
    BY <1>2, <2>1, <2>3
  <2> QED BY <2>2, <2>3
<1>5. ASSUME NEW phases \in Allowlists, NothingToClaim(phases)
      PROVE  \E passed \in SUBSET Claimable(SweptRows, phases) :
               /\ PassesOver(tasks, SweptRows, passed)
               /\ wf' = PassedRows(tasks, SweptRows, passed)
  BY <1>5 DEF NothingToClaim
<1>6. ASSUME NEW phases \in Allowlists, NEW u \in Tasks, NEW k \in ClaimIds,
             Claim(phases, u, k)
      PROVE  \E passed \in SUBSET Claimable(SweptRows, phases) :
               /\ PassesOver(tasks, SweptRows, passed)
               /\ t \in passed => wf'[t] = PassedRows(tasks, SweptRows, passed)[t]
  BY <1>6 DEF Claim, PassedRows
<1> HIDE DEF tasks
<1> QED BY <1>3, <1>4, <1>5, <1>6 DEF ClaimNext

-----------------------------------------------------------------------------
(* What runs after a step *)

\* Only a runner's pass makes a claim live.
LEMMA NothingGoesLive ==
    ASSUME Next, ~ClaimNext, NEW k \in ClaimIds, fate'[k] = "live"
    PROVE  fate[k] = "live"
PROOF
<1>1. CASE ScheduleNew \/ Tick
  BY <1>1 DEF ScheduleNew, Tick, Settle
<1>2. ASSUME NEW t \in Tasks, NEW j \in ClaimIds, Work(t, j)
      PROVE  fate[k] = "live"
  BY <1>2 DEF Work, Renew, Release, Fail, RecordResult, Settle
<1>3. ASSUME NEW t \in Tasks, ReaderStep(t)
      PROVE  fate[k] = "live"
  BY <1>3 DEF ReaderStep, StartAction, ReviewAction, LifecycleAction, Steer, Discuss,
              Reassign, Retry, SetPriority, Settle
<1>4. ASSUME NEW t \in Tasks, OperatorStep(t)
      PROVE  fate[k] = "live"
  BY <1>4 DEF OperatorStep, Schedule, LoseProfile, Adopt, Reconfigure, Settle
<1>5. ASSUME NEW t \in Tasks, SourceStep(t)
      PROVE  fate[k] = "live"
  BY <1>5 DEF SourceStep, EditTask, CloseTask, ReopenTask, SourceWithdraws,
              SourceReturns, ConditionMet, ResearchMoves
<1> QED BY <1>1, <1>2, <1>3, <1>4, <1>5 DEF Next

\* What runs ran before, ...
LEMMA RunningRanBefore ==
    ASSUME ClaimInv, [Next]_vars, ~ClaimNext, NEW t \in Tasks, wf'[t].status = "running"
    PROVE  Kept(wf[t], wf'[t])
PROOF
<1>1. wf[t] \in Rows
  BY DEF ClaimInv, TypeOK
<1>2. CASE LettingGo
  BY <1>2 DEF LettingGo, LetsGo, Stepped, Left
<1>3. ASSUME NEW u \in Tasks, NEW k \in ClaimIds, Answering(u, k)
      PROVE  Kept(wf[t], wf'[t])
  BY <1>1, <1>3 DEF Answering, Left, Kept
<1>4. ASSUME NEW u \in Tasks, NEW k \in ClaimIds, NEW rows, NEW fates,
             Granting(u, k, rows, fates)
      PROVE  FALSE
  <2>1. fate[k] = "unissued" /\ fate'[k] = "live"
    BY <1>4, OnlyLiveClaimsGo DEF Granting, LetsGo
  <2> QED BY <2>1, NothingGoesLive DEF vars
<1> QED BY <1>2, <1>3, <1>4, NextSteps DEF LedgerStep

\* ... or it was claimed just now, and no proposal held it.
Unproposed(t) == ~ /\ wf'[t].phase = "plan" /\ t \in Researched
                   /\ task'[t].review = "pending" /\ task'[t].research = "disputes"

LEMMA RunningWasFree ==
    ASSUME ClaimInv, ClaimNext, NEW t \in Tasks, wf'[t].status = "running"
    PROVE  Kept(wf[t], wf'[t]) \/ Unproposed(t)
PROOF
<1>1. LetsGo(wf, SweptRows, fate, SweptFate)
  BY SweepGoes
<1>2. CASE SlotsBusy
  BY <1>1, <1>2 DEF SlotsBusy, LetsGo, Stepped, Left
<1>3. ASSUME NEW phases \in Allowlists, NothingToClaim(phases)
      PROVE  Kept(wf[t], wf'[t])
  <2> DEFINE tasks == SweptTasks(SweptRows)
  <2>1. PICK passed \in SUBSET Claimable(SweptRows, phases) :
          /\ \A u \in With(tasks, SweptRows, passed, "hold") :
               SweptRows[u].status = "queued"
          /\ wf' = PassedRows(tasks, SweptRows, passed)
    BY <1>3 DEF NothingToClaim, PassesOver
  <2> HIDE DEF tasks
  <2>2. LetsGo(wf, wf', fate, SweptFate)
    BY <1>1, <2>1, ScanGoes
  <2> QED BY <2>2 DEF LetsGo, Stepped, Left
<1>4. ASSUME NEW phases \in Allowlists, NEW u \in Tasks, NEW k \in ClaimIds,
             Claim(phases, u, k)
      PROVE  Kept(wf[t], wf'[t]) \/ Unproposed(t)
  <2> DEFINE tasks == SweptTasks(SweptRows)
  <2>1. PICK passed \in SUBSET (Claimable(SweptRows, phases) \ {u}) :
          /\ \A v \in With(tasks, SweptRows, passed, "hold") :
               SweptRows[v].status = "queued"
          /\ PassesOver(tasks, SweptRows, passed)
          /\ wf' = [PassedRows(tasks, SweptRows, passed) EXCEPT ![u] = Claimed(@, k)]
    BY <1>4 DEF Claim, PassesOver
  <2>2. u \in Claimable(SweptRows, phases) /\ Verdict(tasks, SweptRows, u) = "claim"
    BY <1>4 DEF Claim
  <2> DEFINE scanned == PassedRows(tasks, SweptRows, passed)
  <2>3. wf' = [scanned EXCEPT ![u] = Claimed(scanned[u], k)]
    BY <2>1
  <2> HIDE DEF tasks
  <2>4. LetsGo(wf, scanned, fate, SweptFate) /\ scanned[u] = SweptRows[u]
    <3>1. /\ passed \subseteq Claimable(SweptRows, phases)
          /\ \A v \in With(tasks, SweptRows, passed, "hold") :
               SweptRows[v].status = "queued"
      BY <2>1
    <3>2. LetsGo(wf, PassedRows(tasks, SweptRows, passed), fate, SweptFate)
      BY ONLY ClaimInv, <1>1, <3>1, ScanGoes
    <3>3. scanned[u] = SweptRows[u]
      BY DEF PassedRows, With
    <3> QED BY <3>2, <3>3
  <2>5. DOMAIN scanned = Tasks
    BY DEF PassedRows
  <2> HIDE DEF scanned
  <2>6. CASE t # u
    BY <2>3, <2>4, <2>5, <2>6 DEF LetsGo, Stepped, Left
  <2>7. CASE t = u
    <3>1. /\ SweptRows[u] \in Rows /\ k \in Nat
          /\ SweptRows[u].status \in {"queued", "parked"}
      BY <1>1, <2>2, ClaimIdsPositive DEF LetsGo, Claimable
    <3>2. wf'[t].phase = SweptRows[u].phase
      BY <2>3, <2>4, <2>5, <2>7, <3>1, ClaimedRuns
    <3>3. ~Waits(tasks, SweptRows, u)
      BY <2>2 DEF Verdict
    <3>4. task'[t] = tasks[t]
      BY <2>1, <2>7 DEF PassesOver, With
    <3> QED BY <2>7, <3>2, <3>3, <3>4 DEF Waits, Gated, Unproposed
  <2> QED BY <2>6, <2>7
<1> QED BY <1>2, <1>3, <1>4 DEF ClaimNext

-----------------------------------------------------------------------------
(* The inductive invariant *)

\* No row is ahead of its task.
RowFollowsTask(t) == wf[t].task_version <= task[t].version

\* A row that is not over names the claim whose answer it last took, for the
\* task at the version the row has.
ResultIsForTask(t) ==
    ~Over(wf[t]) /\ wf[t].last_outcome # "none" =>
      /\ wf[t].last_claim \in ClaimIds
      /\ fate[wf[t].last_claim] = "recorded"
      /\ claims[wf[t].last_claim].task = t
      /\ claims[wf[t].last_claim].task_version = wf[t].task_version

\* Wherever a row is, beyond the plan its phase was opened.
PhaseWasOpened(t) ==
    ~Over(wf[t]) /\ wf[t].phase # "plan" =>
      /\ wf[t].phase \in wf[t].authority
      /\ \/ wf[t].phase = "execute" /\ t \in SkipPlan
         \/ Opened(wf[t])
         \/ /\ wf[t].last_outcome # "none"
            /\ claims[wf[t].last_claim].phase = wf[t].phase

\* A proposal rests on a report that disputes the owner, and no plan runs.
ProposalHolds(t) ==
    task[t].review = "pending" =>
      /\ task[t].research = "disputes" /\ t \in Researched
      /\ ~(wf[t].status = "running" /\ wf[t].phase = "plan")

GateInv ==
    /\ ClaimInv /\ CompletedIsPast
    /\ \A t \in Tasks : /\ RowFollowsTask(t) /\ ResultIsForTask(t)
                        /\ PhaseWasOpened(t) /\ ProposalHolds(t)

LEMMA GateInit ==
    ASSUME Init
    PROVE  GateInv
PROOF
<1>1. ClaimInv
  BY InitInv
<1>2. \A t \in Tasks : Over(wf[t]) /\ wf[t].status = "absent" /\ wf[t].task_version = 0
                       /\ task[t].version = 1 /\ task[t].review = "none"
  BY DEF Init, NoRow, Over
<1> QED BY <1>1, <1>2 DEF GateInv, CompletedIsPast, RowFollowsTask, ResultIsForTask,
                          PhaseWasOpened, ProposalHolds

\* Tasks go forward under every row.
LEMMA StepFollows ==
    ASSUME ClaimInv, [Next]_vars, NEW t \in Tasks
    PROVE  Follows(task[t], task'[t])
PROOF
<1>1. CASE UNCHANGED vars
  BY <1>1 DEF vars, Follows, ClaimInv, TypeOK, TaskRows
<1>2. CASE Next /\ ~ClaimNext
  BY <1>2, TasksGrow DEF Grows
<1>3. CASE ClaimNext
  BY <1>3, ClaimNextProposes
<1> QED BY <1>1, <1>2, <1>3

\* What Passed says of a row is enough for what the invariant says of it.
LEMMA RowInvariant ==
    ASSUME GateInv, [Next]_vars, NEW t \in Tasks
    PROVE  /\ RowFollowsTask(t)' /\ ResultIsForTask(t)' /\ PhaseWasOpened(t)'
           /\ wf'[t].status = "completed" => ~Current(task', wf', t)
PROOF
<1>1. ClaimInv /\ ClaimInv'
  BY NextInv DEF GateInv
<1>2. Passed(t)
  BY <1>1, NextPasses DEF GateInv, AllPass
<1>3. Follows(task[t], task'[t])
  BY <1>1, StepFollows
<1>4. Settles
  BY <1>1, StepSettles
<1>5. /\ wf[t] \in Rows /\ wf'[t] \in Rows /\ task[t] \in TaskRows /\ task'[t] \in TaskRows
      /\ wf[t].task_version \in Nat /\ wf'[t].task_version \in Nat
      /\ task[t].version \in Nat /\ task'[t].version \in Nat
  BY <1>1 DEF ClaimInv, TypeOK, Rows, TaskRows
<1>6. /\ RowFollowsTask(t) /\ ResultIsForTask(t) /\ PhaseWasOpened(t)
      /\ wf[t].status = "completed" => ~Current(task, wf, t)
  BY DEF GateInv, CompletedIsPast
<1>7. CASE Carries(wf[t], wf'[t])
  <2>1. RowFollowsTask(t)'
    BY <1>3, <1>5, <1>6, <1>7 DEF Carries, Follows, RowFollowsTask
  <2>2. wf'[t].status = "completed" => ~Current(task', wf', t)
    BY <1>3, <1>5, <1>6, <1>7 DEF Carries, Follows, RowFollowsTask, Current
  <2>3. ASSUME ~Over(wf'[t]), wf'[t].last_outcome # "none"
        PROVE  /\ wf'[t].last_claim = wf[t].last_claim
               /\ wf'[t].last_claim \in ClaimIds
               /\ fate'[wf'[t].last_claim] = "recorded"
               /\ claims'[wf'[t].last_claim] = claims[wf[t].last_claim]
               /\ claims[wf[t].last_claim].task = t
               /\ claims[wf[t].last_claim].task_version = wf'[t].task_version
    <3>1. /\ ~Over(wf[t]) /\ wf'[t].last_outcome = wf[t].last_outcome
          /\ wf'[t].last_claim = wf[t].last_claim
          /\ wf'[t].task_version = wf[t].task_version
      BY <1>7, <2>3 DEF Carries
    <3> QED BY <1>4, <1>6, <2>3, <3>1 DEF ResultIsForTask, Settles
  <2>4. ResultIsForTask(t)'
    BY <2>3 DEF ResultIsForTask, Over
  <2>5. ASSUME ~Over(wf'[t]), wf'[t].phase # "plan"
        PROVE  /\ wf'[t].phase \in wf'[t].authority
               /\ \/ wf'[t].phase = "execute" /\ t \in SkipPlan
                  \/ Opened(wf'[t])
                  \/ /\ wf'[t].last_outcome # "none"
                     /\ claims'[wf'[t].last_claim].phase = wf'[t].phase
    <3>1. /\ ~Over(wf[t]) /\ wf'[t].last_outcome = wf[t].last_outcome
          /\ \/ wf'[t].phase = wf[t].phase /\ wf[t].authority \subseteq wf'[t].authority
             \/ Opened(wf'[t])
      BY <1>7, <2>5 DEF Carries
    <3>2. CASE Opened(wf'[t])
      BY <3>2 DEF Opened
    <3>3. CASE wf'[t].phase = wf[t].phase /\ wf[t].authority \subseteq wf'[t].authority
      <4>1. /\ wf[t].phase \in wf[t].authority
            /\ \/ wf[t].phase = "execute" /\ t \in SkipPlan
               \/ Opened(wf[t])
               \/ /\ wf[t].last_outcome # "none"
                  /\ claims[wf[t].last_claim].phase = wf[t].phase
        BY <1>6, <2>5, <3>1, <3>3 DEF PhaseWasOpened
      <4>2. Opened(wf[t]) => Opened(wf'[t])
        BY <3>1, <3>3 DEF Opened
      <4> QED BY <2>3, <2>5, <3>1, <3>3, <4>1, <4>2
    <3> QED BY <3>1, <3>2, <3>3
  <2>6. PhaseWasOpened(t)'
    BY <2>5 DEF PhaseWasOpened, Over, Opened
  <2> QED BY <2>1, <2>2, <2>4, <2>6
<1>8. CASE \E phase \in {"plan", InitialPhase(t)} : Fresh(wf'[t], task'[t].version, phase)
  BY <1>5, <1>8 DEF Fresh, RowFollowsTask, ResultIsForTask, PhaseWasOpened, InitialPhase
<1>9. CASE Over(wf'[t]) /\ wf'[t].task_version = task'[t].version
           /\ task'[t].status # "open"
  BY <1>5, <1>9 DEF Current, RowFollowsTask, ResultIsForTask, PhaseWasOpened, Over
<1>10. ASSUME NEW k \in ClaimIds, NEW outcome \in Outcomes,
              wf[t].claim = k, wf[t].status = "running",
              fate'[k] = "recorded", claims' = claims,
              Gives(wf[t], wf'[t], k, outcome)
       PROVE  /\ RowFollowsTask(t)' /\ ResultIsForTask(t)' /\ PhaseWasOpened(t)'
              /\ wf'[t].status = "completed" => ~Current(task', wf', t)
  <2>1. claims[k] = [task |-> t, version |-> wf[t].version,
                     task_version |-> wf[t].task_version, phase |-> wf[t].phase]
    BY <1>1, <1>10, ClaimIdsPositive DEF ClaimInv, Shape
  <2>2. /\ claims'[k].task = t /\ claims'[k].task_version = wf[t].task_version
        /\ claims'[k].phase = wf[t].phase
    BY <1>10, <2>1
  <2>3. "none" \notin Outcomes
    BY DEF Outcomes
  <2>4. ~Over(wf[t])
    BY <1>10 DEF Over, Terminal
  <2>5. RowFollowsTask(t)'
    BY <1>3, <1>5, <1>6, <1>10 DEF Gives, Follows, RowFollowsTask
  <2>6. ResultIsForTask(t)'
    BY <1>10, <2>2 DEF Gives, ResultIsForTask
  <2>7. PhaseWasOpened(t)'
    BY <1>6, <1>10, <2>2, <2>3, <2>4 DEF Gives, PhaseWasOpened, Opened
  <2> QED BY <1>10, <2>5, <2>6, <2>7 DEF Gives
<1> QED BY <1>2, <1>7, <1>8, <1>9, <1>10 DEF Passed

LEMMA ProposalInvariant ==
    ASSUME GateInv, [Next]_vars, NEW t \in Tasks
    PROVE  ProposalHolds(t)'
PROOF
<1>1. ClaimInv /\ ProposalHolds(t)
  BY DEF GateInv
<1> SUFFICES ASSUME task'[t].review = "pending"
             PROVE  /\ task'[t].research = "disputes" /\ t \in Researched
                    /\ ~(wf'[t].status = "running" /\ wf'[t].phase = "plan")
  BY DEF ProposalHolds
<1>2. CASE UNCHANGED vars
  BY <1>1, <1>2 DEF vars, ProposalHolds
<1>3. CASE Next /\ ~ClaimNext
  <2>1. task[t].review = "pending" /\ (task[t].research = "disputes" =>
                                         task'[t].research = "disputes")
    BY <1>1, <1>3, TasksGrow DEF Grows
  <2>2. wf'[t].status = "running" => Kept(wf[t], wf'[t])
    BY <1>1, <1>3, RunningRanBefore
  <2> QED BY <1>1, <2>1, <2>2 DEF ProposalHolds, Kept
<1>4. CASE ClaimNext
  <2>1. /\ task'[t].research # task[t].research => task[t].research = "none"
        /\ \/ task[t].review = "pending"
           \/ /\ task'[t].research = "disputes" /\ t \in Researched
              /\ wf'[t].status # "running"
    BY <1>1, <1>4, ClaimNextProposes
  <2>2. wf'[t].status = "running" => Kept(wf[t], wf'[t]) \/ Unproposed(t)
    BY <1>1, <1>4, RunningWasFree
  <2> QED BY <1>1, <2>1, <2>2 DEF ProposalHolds, Kept, Unproposed
<1> QED BY <1>2, <1>3, <1>4

THEOREM GateInvariant == Spec => []GateInv
PROOF
<1>1. Init => GateInv
  BY GateInit
<1>2. ASSUME GateInv, [Next]_vars PROVE GateInv'
  <2>1. ClaimInv'
    BY <1>2, NextInv DEF GateInv
  <2>2. CompletedIsPast'
    BY <1>2, RowInvariant DEF CompletedIsPast
  <2> QED BY <1>2, <2>1, <2>2, RowInvariant, ProposalInvariant DEF GateInv
<1> QED BY <1>1, <1>2, PTL DEF Spec

-----------------------------------------------------------------------------
(* What the runs check, for every instance *)

\* A row works beyond its plan only in a phase a gate opened since the plan, for
\* the result it carries: _granted_advance, _apply_review_action, schedule_new's
\* advances, retries, notes, parking and the sweep leave no other way there.
THEOREM PhasesAreEarned == Spec => []PhaseIsEarned
PROOF
<1>1. GateInv => PhaseIsEarned
  BY DEF GateInv, PhaseWasOpened, PhaseIsEarned, Opened, Over, Terminal
<1> QED BY <1>1, GateInvariant, PTL

\* The result on a row was recorded by its claim, for this task at the version
\* the row has: revising, closing, reopening and rescheduling never leave the
\* reader to decide on the result of another task version.
THEOREM ReviewedResultsAreCurrent == Spec => []ReviewedResultIsCurrent
PROOF
<1>1. GateInv => ReviewedResultIsCurrent
  BY DEF GateInv, ResultIsForTask, ReviewedResultIsCurrent, Over, Terminal
<1> QED BY <1>1, GateInvariant, PTL

\* No plan runs while the owner its research proposed is undecided, whether the
\* row was started, retried, parked, promoted or rescheduled meanwhile.
THEOREM OwnersAreDecidedFirst == Spec => []OwnerIsDecidedFirst
PROOF
<1>1. GateInv => OwnerIsDecidedFirst
  BY DEF GateInv, ProposalHolds, OwnerIsDecidedFirst
<1> QED BY <1>1, GateInvariant, PTL
=============================================================================
