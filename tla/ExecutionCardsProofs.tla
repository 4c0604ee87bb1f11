------------------------- MODULE ExecutionCardsProofs -------------------------
(***************************************************************************)
(* What holds of every card and every message, for any number of tasks,    *)
(* consumers, cards and deliveries.                                        *)
(*                                                                         *)
(* First the rows: whatever the reader answers, a row carries the result   *)
(* of a pass that recorded it, so every card can be made from its row.     *)
(* Then the cards: each change of a card raises its version (Turned), each *)
(* lease takes the version it raised the card to, so at most one message   *)
(* of a card is at the card's version, and that one shows the row the card *)
(* was made from.                                                          *)
(***************************************************************************)
EXTENDS ExecutionCards, FiniteSetTheorems, TLAPS

-----------------------------------------------------------------------------
(* What the properties need of each other to hold after every step         *)

\* A row carries the result its last answer was about, or none.
Carries(r) ==
    r.last_claim # None =>
      /\ r.last_claim \in ClaimIds
      /\ results[r.last_claim].outcome = r.last_outcome
      /\ r.last_outcome # "none"

\* A pass works under a claim of its own, which has no result yet.
RowsFollow ==
    \A t \in Tasks :
      /\ Carries(wf[t])
      /\ wf[t].status # "running" => wf[t].claim = NoClaim
      /\ wf[t].status = "running" =>
           /\ wf[t].claim \in ClaimIds
           /\ results[wf[t].claim].task = t
           /\ results[wf[t].claim].outcome = "none"

ResultsStand ==
    \A k \in ClaimIds : results[k].task = None => results[k].outcome = "none"

\* Cards are made in the order of their ids.
MadeInOrder ==
    \A c \in CardIds : \A b \in 1..c :
      cards[c].status # "unmade" => cards[b].status # "unmade"

Issued(d) == deliveries[d].stage # "unissued"

\* A lease is of a card that exists, at no later a version than the card's; at
\* the very version, it shows the row the card was made from.
LeasesFollowCards ==
    \A d \in DeliveryIds : Issued(d) =>
      LET c == deliveries[d].card
      IN /\ c # None
         /\ cards[c].status # "unmade"
         /\ deliveries[d].version <= cards[c].version
         /\ deliveries[d].version = cards[c].version =>
              deliveries[d].shows = cards[c].workflow_version

\* No two leases are of one card at its present version.
NewestLease(d) == Issued(d) /\ deliveries[d].version = cards[deliveries[d].card].version

OneNewestLease ==
    \A d, e \in DeliveryIds :
      NewestLease(d) /\ NewestLease(e) /\ deliveries[d].card = deliveries[e].card => d = e

\* A task is asked about by one card at a time.
OneActiveCard ==
    \A b, c \in CardIds :
      /\ cards[b].status \in Active /\ cards[c].status \in Active
      /\ cards[b].task = cards[c].task
      => b = c

MadeCardsHaveTasks ==
    \A c \in CardIds : cards[c].status # "unmade" => cards[c].task \in Tasks

UnissuedAreBlank ==
    \A d \in DeliveryIds : ~Issued(d) => deliveries[d].card = None

-----------------------------------------------------------------------------
(* What an answer makes of a row                                           *)

LEMMA TaskIsNotNone == None \notin Tasks
  BY CardsAssumption DEF None

\* The row is not worked on, and carries the result it carried or none.
Settles(r, s) ==
    /\ s \in Rows
    /\ s.status # "running" /\ s.claim = NoClaim
    /\ \/ s.last_claim = r.last_claim /\ s.last_outcome = r.last_outcome
       \/ s.last_claim = NoClaim

(* Every status change yields a row again.                                 *)

\* NoRow, the state of a task that was never scheduled, is a row.
LEMMA NoRowType == NoRow \in Rows
BY DEF NoRow, Rows, NoClaim, Phases, Statuses, Outcomes

\* Appending an event keeps a row a row and touches none of its own columns.
LEMMA LoggedType ==
    ASSUME NEW r \in Rows, NEW kind
    PROVE  Logged(r, kind) \in Rows
PROOF
<1>1. Parks(r, kind) \in [Phases -> Nat]
  <2>1. r.parks \in [Phases -> Nat] /\ r.phase \in Phases
    BY DEF Rows
  <2>2. Saturated(r.parks[r.phase]) \in Nat
    <3>1. r.parks[r.phase] \in Nat
      BY <2>1
    <3> QED BY ONLY <3>1 DEF Saturated
  <2> QED BY <2>1, <2>2 DEF Parks
<1>2. Authority(r, kind) \in SUBSET Phases
  <2>1. r.authority \in SUBSET Phases /\ r.phase \in Phases
    BY DEF Rows
  <2> QED BY <2>1 DEF Authority
<1> QED BY ONLY <1>1, <1>2, r \in Rows DEF Logged, Rows

\* Every change of status advances the version and gives up the claim.
LEMMA MovedType ==
    ASSUME NEW r \in Rows, NEW status \in Statuses
    PROVE  LET s == Moved(r, status)
           IN /\ s \in Rows
              /\ s.status = status
              /\ s.phase = r.phase
              /\ s.version = r.version + 1
              /\ s.claim = NoClaim
              /\ s.failure_count = r.failure_count
PROOF
<1>1. r.version + 1 \in Nat /\ 0 \in Nat
  BY DEF Rows
<1> QED BY <1>1 DEF Moved, Rows, NoClaim

LEMMA RestartedType ==
    ASSUME NEW r \in Rows, NEW status \in Statuses
    PROVE  LET s == Restarted(r, status)
           IN /\ s \in Rows
              /\ s.status = status
              /\ s.phase = r.phase
              /\ s.version = r.version + 1
              /\ s.claim = NoClaim
              /\ s.failure_count = 0
PROOF
<1>1. r.version + 1 \in Nat /\ 0 \in Nat
  BY DEF Rows
<1> QED BY <1>1 DEF Restarted, Moved, Rows, NoClaim

\* A status other than running leaves a row at rest with its result.
Rests(r, s) ==
    /\ s \in Rows
    /\ s.status # "running" /\ s.claim = NoClaim
    /\ s.last_claim = r.last_claim /\ s.last_outcome = r.last_outcome

LEMMA MovedRests ==
    ASSUME NEW r \in Rows, NEW status \in Statuses \ {"running"}
    PROVE  Rests(r, Moved(r, status))
<1>1. /\ Moved(r, status) \in Rows /\ Moved(r, status).status = status
      /\ Moved(r, status).claim = NoClaim
  BY MovedType
<1>2. /\ Moved(r, status).last_claim = r.last_claim
      /\ Moved(r, status).last_outcome = r.last_outcome
  BY DEF Moved, Rows
<1> QED BY <1>1, <1>2 DEF Rests

LEMMA RestartedRests ==
    ASSUME NEW r \in Rows, NEW status \in Statuses \ {"running"}
    PROVE  Rests(r, Restarted(r, status))
<1>1. /\ Restarted(r, status) \in Rows /\ Restarted(r, status).status = status
      /\ Restarted(r, status).claim = NoClaim
  BY RestartedType
<1>2. /\ Restarted(r, status).last_claim = r.last_claim
      /\ Restarted(r, status).last_outcome = r.last_outcome
  BY DEF Restarted, Moved, Rows
<1> QED BY <1>1, <1>2 DEF Rests

\* What is said of a row by Settles reads five of its fields.
LEMMA RestsAgree ==
    ASSUME NEW r, NEW a, NEW m \in Rows, Rests(r, a),
           m.status = a.status, m.claim = a.claim,
           \/ m.last_claim = a.last_claim /\ m.last_outcome = a.last_outcome
           \/ m.last_claim = NoClaim
    PROVE  Settles(r, m)
  BY DEF Rests, Settles

\* Appending an event settles what was settled.
LEMMA LoggedSettles ==
    ASSUME NEW r \in Rows, NEW m, Settles(r, m), NEW event
    PROVE  Settles(r, Logged(m, event))
<1>1. m \in Rows
  BY DEF Settles
<1>2. Logged(m, event) \in Rows
  BY <1>1, LoggedType
<1>3. /\ Logged(m, event).status = m.status /\ Logged(m, event).claim = m.claim
      /\ Logged(m, event).last_claim = m.last_claim
      /\ Logged(m, event).last_outcome = m.last_outcome
  BY <1>1 DEF Logged, Rows
<1> QED BY <1>2, <1>3 DEF Settles

LEMMA StartedSettles ==
    ASSUME NEW r \in Rows, NEW action \in StartActions
    PROVE  Settles(r, Started(r, action))
<1>1. CASE action = "start"
  <2> DEFINE a == Restarted(r, "queued")
  <2>1. Rests(r, a)
    BY RestartedRests DEF Statuses
  <2>2. Started(r, action) = Logged(a, "start_approved")
    BY <1>1 DEF Started
  <2> HIDE DEF a
  <2>3. Settles(r, a)
    BY <2>1 DEF Rests, Settles
  <2> QED BY <2>2, <2>3, LoggedSettles
<1>2. CASE action = "snooze"
  <2> DEFINE a == Restarted(r, "snoozed")
             m == [a EXCEPT !.timer = SnoozeDelay]
  <2>1. Rests(r, a)
    BY RestartedRests DEF Statuses
  <2>2. Started(r, action) = Logged(m, "snoozed")
    BY <1>2 DEF Started
  <2> HIDE DEF a
  <2>3. SnoozeDelay \in Nat
    BY DelayAssumption
  <2>4. m \in Rows
    BY <2>1, <2>3 DEF Rests, Rows
  <2>5. /\ m.status = a.status /\ m.claim = a.claim
        /\ m.last_claim = a.last_claim /\ m.last_outcome = a.last_outcome
    BY <2>1 DEF Rests, Rows
  <2> HIDE DEF m
  <2>6. Settles(r, m)
    BY <2>1, <2>4, <2>5, RestsAgree
  <2> QED BY <2>2, <2>6, LoggedSettles
<1>3. CASE action = "cancel"
  <2> DEFINE a == Restarted(r, "cancelled")
  <2>1. Rests(r, a)
    BY RestartedRests DEF Statuses
  <2>2. Started(r, action) = Logged(a, "cancelled")
    BY <1>3 DEF Started
  <2> HIDE DEF a
  <2>3. Settles(r, a)
    BY <2>1 DEF Rests, Settles
  <2> QED BY <2>2, <2>3, LoggedSettles
<1> QED BY <1>1, <1>2, <1>3 DEF StartActions

LEMMA ReviewedSettles ==
    ASSUME NEW r \in Rows, NEW action \in ReviewActions,
           action = "approve" => r.last_outcome \in DOMAIN GateOpens
    PROVE  Settles(r, Reviewed(r, action))
<1>1. CASE action = "approve"
  <2> DEFINE a == Restarted(r, "queued")
             m == [a EXCEPT !.phase = GateOpens[r.last_outcome]]
  <2>1. Rests(r, a)
    BY RestartedRests DEF Statuses
  <2>2. Reviewed(r, action) = Logged(m, "phase_approved")
    BY <1>1 DEF Reviewed
  <2> HIDE DEF a
  <2>3. GateOpens[r.last_outcome] \in Phases
    BY <1>1 DEF GateOpens, Phases
  <2>4. m \in Rows
    BY <2>1, <2>3 DEF Rests, Rows
  <2>5. /\ m.status = a.status /\ m.claim = a.claim
        /\ m.last_claim = a.last_claim /\ m.last_outcome = a.last_outcome
    BY <2>1 DEF Rests, Rows
  <2> HIDE DEF m
  <2>6. Settles(r, m)
    BY <2>1, <2>4, <2>5, RestsAgree
  <2> QED BY <2>2, <2>6, LoggedSettles
<1>2. CASE action = "revise"
  <2> DEFINE a == Restarted(r, "queued")
             m == [a EXCEPT !.phase = "plan"]
  <2>1. Rests(r, a)
    BY RestartedRests DEF Statuses
  <2>2. Reviewed(r, action) = Logged(m, "revision_requested")
    BY <1>2 DEF Reviewed
  <2> HIDE DEF a
  <2>3. "plan" \in Phases
    BY DEF Phases
  <2>4. m \in Rows
    BY <2>1, <2>3 DEF Rests, Rows
  <2>5. /\ m.status = a.status /\ m.claim = a.claim
        /\ m.last_claim = a.last_claim /\ m.last_outcome = a.last_outcome
    BY <2>1 DEF Rests, Rows
  <2> HIDE DEF m
  <2>6. Settles(r, m)
    BY <2>1, <2>4, <2>5, RestsAgree
  <2> QED BY <2>2, <2>6, LoggedSettles
<1>3. CASE action = "snooze"
  <2> DEFINE a == Restarted(r, "snoozed")
             m == [a EXCEPT !.timer = SnoozeDelay]
  <2>1. Rests(r, a)
    BY RestartedRests DEF Statuses
  <2>2. Reviewed(r, action) = Logged(m, "snoozed")
    BY <1>3 DEF Reviewed
  <2> HIDE DEF a
  <2>3. SnoozeDelay \in Nat
    BY DelayAssumption
  <2>4. m \in Rows
    BY <2>1, <2>3 DEF Rests, Rows
  <2>5. /\ m.status = a.status /\ m.claim = a.claim
        /\ m.last_claim = a.last_claim /\ m.last_outcome = a.last_outcome
    BY <2>1 DEF Rests, Rows
  <2> HIDE DEF m
  <2>6. Settles(r, m)
    BY <2>1, <2>4, <2>5, RestsAgree
  <2> QED BY <2>2, <2>6, LoggedSettles
<1>4. CASE action = "cancel"
  <2> DEFINE a == Restarted(r, "cancelled")
  <2>1. Rests(r, a)
    BY RestartedRests DEF Statuses
  <2>2. Reviewed(r, action) = Logged(a, "cancelled")
    BY <1>4 DEF Reviewed
  <2> HIDE DEF a
  <2>3. Settles(r, a)
    BY <2>1 DEF Rests, Settles
  <2> QED BY <2>2, <2>3, LoggedSettles
<1> QED BY <1>1, <1>2, <1>3, <1>4 DEF ReviewActions

LEMMA SteeredSettles ==
    ASSUME NEW r \in Rows
    PROVE  Settles(r, Steered(r))
<1> DEFINE a == Moved(r, "queued")
           m == [a EXCEPT !.timer = 0]
<1>1. Rests(r, a)
  BY MovedRests DEF Statuses
<1>2. Steered(r) = Logged(m, "discussion_requested")
  BY DEF Steered
<1> HIDE DEF a
<1>3. Settles(r, m)
  <2>1. a \in Rows /\ "plan" \in Phases /\ NoClaim \in Nat
    BY <1>1 DEF Rests, Phases, NoClaim
  <2>2. m \in Rows
    BY <2>1, DelayAssumption DEF Rows
  <2>3. /\ m.status = a.status /\ m.claim = a.claim
        /\ \/ m.last_claim = a.last_claim /\ m.last_outcome = a.last_outcome
           \/ m.last_claim = NoClaim
    BY <2>1 DEF Rows
  <2> HIDE DEF m
  <2> QED BY <1>1, <2>2, <2>3, RestsAgree
<1> HIDE DEF m
<1> QED BY <1>2, <1>3, LoggedSettles

LEMMA ReassignedSettles ==
    ASSUME NEW r \in Rows, NEW v \in Nat
    PROVE  Settles(r, Reassigned(r, v))
<1> DEFINE a == Restarted(r, "awaiting_start")
           m == [a EXCEPT !.phase = "plan", !.task_version = v,
                          !.last_outcome = "none", !.last_claim = NoClaim]
<1>1. Rests(r, a)
  BY RestartedRests DEF Statuses
<1>2. Reassigned(r, v) = Logged(m, "reassigned")
  BY DEF Reassigned
<1> HIDE DEF a
<1>3. Settles(r, m)
  <2>1. a \in Rows /\ "plan" \in Phases /\ NoClaim \in Nat
    BY <1>1 DEF Rests, Phases, NoClaim
  <2>2. m \in Rows
    BY <2>1, DelayAssumption DEF Rows
  <2>3. /\ m.status = a.status /\ m.claim = a.claim
        /\ \/ m.last_claim = a.last_claim /\ m.last_outcome = a.last_outcome
           \/ m.last_claim = NoClaim
    BY <2>1 DEF Rows
  <2> HIDE DEF m
  <2> QED BY <1>1, <2>2, <2>3, RestsAgree
<1> HIDE DEF m
<1> QED BY <1>2, <1>3, LoggedSettles

LEMMA ClosedSettles ==
    ASSUME NEW r \in Rows, NEW v \in Nat, NEW action
    PROVE  Settles(r, LifecycleClosed(r, v, action))
<1> DEFINE a == Restarted(r, IF action = "done" THEN "completed"
                                            ELSE "cancelled")
           m == [a EXCEPT !.task_version = v]
<1>1. Rests(r, a)
  BY RestartedRests DEF Statuses
<1>2. LifecycleClosed(r, v, action) = Logged(m, IF action = "done"
                             THEN "task_completed" ELSE "task_dropped")
  BY DEF LifecycleClosed
<1> HIDE DEF a
<1>3. Settles(r, m)
  <2>1. a \in Rows /\ "plan" \in Phases /\ NoClaim \in Nat
    BY <1>1 DEF Rests, Phases, NoClaim
  <2>2. m \in Rows
    BY <2>1, DelayAssumption DEF Rows
  <2>3. /\ m.status = a.status /\ m.claim = a.claim
        /\ \/ m.last_claim = a.last_claim /\ m.last_outcome = a.last_outcome
           \/ m.last_claim = NoClaim
    BY <2>1 DEF Rows
  <2> HIDE DEF m
  <2> QED BY <1>1, <2>2, <2>3, RestsAgree
<1> HIDE DEF m
<1> QED BY <1>2, <1>3, LoggedSettles

LEMMA CancelledSettles ==
    ASSUME NEW r \in Rows
    PROVE  Settles(r, Cancelled(r))
<1> DEFINE a == Moved(r, "cancelled")
           m == [a EXCEPT !.timer = 0]
<1>1. Rests(r, a)
  BY MovedRests DEF Statuses
<1>2. Cancelled(r) = Logged(m, "cancelled")
  BY DEF Cancelled
<1> HIDE DEF a
<1>3. Settles(r, m)
  <2>1. a \in Rows /\ "plan" \in Phases /\ NoClaim \in Nat
    BY <1>1 DEF Rests, Phases, NoClaim
  <2>2. m \in Rows
    BY <2>1, DelayAssumption DEF Rows
  <2>3. /\ m.status = a.status /\ m.claim = a.claim
        /\ \/ m.last_claim = a.last_claim /\ m.last_outcome = a.last_outcome
           \/ m.last_claim = NoClaim
    BY <2>1 DEF Rows
  <2> HIDE DEF m
  <2> QED BY <1>1, <2>2, <2>3, RestsAgree
<1> HIDE DEF m
<1> QED BY <1>2, <1>3, LoggedSettles

LEMMA ScheduledSettles ==
    ASSUME NEW r \in Rows, NEW v \in Nat
    PROVE  Settles(r, Scheduled(r, v, "awaiting_start", "plan"))
<1> DEFINE a == Restarted(r, "awaiting_start")
           m == [a EXCEPT !.task_version = v, !.phase = "plan",
                          !.last_outcome = "none", !.last_claim = NoClaim,
                          !.resolvable = TRUE]
<1>1. Rests(r, a)
  BY RestartedRests DEF Statuses
<1>2. Scheduled(r, v, "awaiting_start", "plan") = Logged(m, "scheduled")
  BY DEF Scheduled
<1> HIDE DEF a
<1>3. Settles(r, m)
  <2>1. a \in Rows /\ "plan" \in Phases /\ NoClaim \in Nat
    BY <1>1 DEF Rests, Phases, NoClaim
  <2>2. m \in Rows
    BY <2>1, DelayAssumption DEF Rows
  <2>3. /\ m.status = a.status /\ m.claim = a.claim
        /\ \/ m.last_claim = a.last_claim /\ m.last_outcome = a.last_outcome
           \/ m.last_claim = NoClaim
    BY <2>1 DEF Rows
  <2> HIDE DEF m
  <2> QED BY <1>1, <2>2, <2>3, RestsAgree
<1> HIDE DEF m
<1> QED BY <1>2, <1>3, LoggedSettles

LEMMA RescheduledSettles ==
    ASSUME NEW r \in Rows, NEW v \in Nat
    PROVE  Settles(r, Scheduled(Cancelled(r), v, "awaiting_start", "plan"))
<1>1. Cancelled(r) \in Rows
  BY CancelledSettles DEF Settles
<1>2. Settles(Cancelled(r), Scheduled(Cancelled(r), v, "awaiting_start", "plan"))
  BY <1>1, ScheduledSettles
<1>3. Scheduled(Cancelled(r), v, "awaiting_start", "plan").last_claim = NoClaim
  BY <1>1 DEF Scheduled, Logged, Restarted, Moved, Rows
<1> QED BY <1>2, <1>3 DEF Settles

LEMMA AdoptedSettles ==
    ASSUME NEW r \in Rows, r.status # "running", r.claim = NoClaim
    PROVE  Settles(r, Adopted(r))
<1> DEFINE m == [r EXCEPT !.version = @ + 1, !.updated_now = TRUE,
                          !.resolvable = TRUE]
<1>1. r.version + 1 \in Nat
  BY DEF Rows
<1>2. m \in Rows
  BY <1>1 DEF Rows
<1>3. /\ m.status = r.status /\ m.claim = r.claim
      /\ m.last_claim = r.last_claim /\ m.last_outcome = r.last_outcome
  BY DEF Rows
<1>4. Adopted(r) = Logged(m, "agent_selected")
  BY DEF Adopted
<1> HIDE DEF m
<1>5. Settles(r, m)
  BY <1>2, <1>3 DEF Settles
<1> QED BY <1>4, <1>5, LoggedSettles

LEMMA DeferredSettles ==
    ASSUME NEW r \in Rows
    PROVE  Settles(r, Deferred(r, "other"))
<1> DEFINE failures == r.failure_count + 1
           parks == failures >= MaxAttempts
           status == IF parks THEN "parked" ELSE "queued"
           delay == IF parks THEN ParkDelay ELSE RetryDelay
           a == Moved(r, status)
           m == [a EXCEPT !.failure_count = failures, !.timer = delay]
<1>1. failures \in Nat /\ delay \in Nat
  BY DelayAssumption DEF Rows
<1>2. Rests(r, a)
  BY MovedRests DEF Statuses
<1>3. Deferred(r, "other") = Logged(m, IF parks THEN "parked" ELSE "retry_scheduled")
  BY DEF Deferred
<1> HIDE DEF a, failures, delay, parks
<1>4. m \in Rows
  BY <1>1, <1>2 DEF Rests, Rows
<1>5. /\ m.status = a.status /\ m.claim = a.claim
      /\ m.last_claim = a.last_claim /\ m.last_outcome = a.last_outcome
  BY <1>2 DEF Rests, Rows
<1> HIDE DEF m
<1>6. Settles(r, m)
  BY <1>2, <1>4, <1>5, RestsAgree
<1> QED BY <1>3, <1>6, LoggedSettles

\* A tick of the clock leaves a row as every card knows it.
LEMMA AgedKeeps ==
    ASSUME NEW r \in Rows
    PROVE  /\ Aged(r) \in Rows
           /\ Aged(r).status = r.status /\ Aged(r).claim = r.claim
           /\ Aged(r).last_claim = r.last_claim
           /\ Aged(r).last_outcome = r.last_outcome
<1>1. (IF r.timer > 0 THEN r.timer - 1 ELSE r.timer) \in Nat \cup {Never}
  BY DEF Rows, Never
<1> QED BY <1>1 DEF Aged, Rows

\* A granted row runs under the new claim and keeps its result.
LEMMA ClaimedRuns ==
    ASSUME NEW r \in Rows, NEW k \in Nat
    PROVE  /\ Claimed(r, k) \in Rows
           /\ Claimed(r, k).status = "running" /\ Claimed(r, k).claim = k
           /\ Claimed(r, k).last_claim = r.last_claim
           /\ Claimed(r, k).last_outcome = r.last_outcome
<1> DEFINE a == Moved(r, "running")
           failures == IF r.status = "parked" THEN 0 ELSE a.failure_count
           m == [a EXCEPT !.claim = k, !.timer = LeaseTime,
                          !.queue_priority = "normal", !.failure_count = failures]
<1>1. a \in Rows /\ a.status = "running"
  BY MovedType DEF Statuses
<1>2. a.last_claim = r.last_claim /\ a.last_outcome = r.last_outcome
  BY DEF Moved, Rows
<1>3. Claimed(r, k) = Logged(m, "claimed")
  BY DEF Claimed
<1> HIDE DEF a
<1>4. failures \in Nat
  BY <1>1 DEF Rows
<1> HIDE DEF failures
<1>5. m \in Rows
  BY <1>1, <1>4, DelayAssumption DEF Rows
<1>6. /\ m.status = "running" /\ m.claim = k
      /\ m.last_claim = r.last_claim /\ m.last_outcome = r.last_outcome
  BY <1>1, <1>2 DEF Rows
<1> HIDE DEF m
<1>7. Logged(m, "claimed") \in Rows
  BY <1>5, LoggedType
<1>8. /\ Logged(m, "claimed").status = m.status
      /\ Logged(m, "claimed").claim = m.claim
      /\ Logged(m, "claimed").last_claim = m.last_claim
      /\ Logged(m, "claimed").last_outcome = m.last_outcome
  BY <1>5 DEF Logged, Rows
<1> QED BY <1>3, <1>6, <1>7, <1>8

\* A result ends the claim of the row and is what the row now carries.
LEMMA RecordedRests ==
    ASSUME NEW r \in Rows, NEW k \in Nat, NEW outcome \in Outcomes
    PROVE  LET s == Recorded(r, k, outcome, r.phase)
           IN /\ s \in Rows
              /\ s.status # "running" /\ s.claim = NoClaim
              /\ s.last_claim = k /\ s.last_outcome = outcome
<1> DEFINE a == Restarted(r, "awaiting_review")
           m == [a EXCEPT !.last_outcome = outcome, !.last_claim = k]
<1>1. Rests(r, a)
  BY RestartedRests DEF Statuses
<1>2. Recorded(r, k, outcome, r.phase) = Logged(m, "result_recorded")
  BY DEF Recorded
<1> HIDE DEF a
<1>3. m \in Rows
  BY <1>1 DEF Rests, Rows
<1>4. /\ m.status = a.status /\ m.claim = a.claim
      /\ m.last_claim = k /\ m.last_outcome = outcome
  BY <1>1 DEF Rests, Rows
<1> HIDE DEF m
<1>5. Logged(m, "result_recorded") \in Rows
  BY <1>3, LoggedType
<1>6. /\ Logged(m, "result_recorded").status = m.status
      /\ Logged(m, "result_recorded").claim = m.claim
      /\ Logged(m, "result_recorded").last_claim = m.last_claim
      /\ Logged(m, "result_recorded").last_outcome = m.last_outcome
  BY <1>3 DEF Logged, Rows
<1> QED BY <1>1, <1>2, <1>4, <1>5, <1>6 DEF Rests

\* The rows a wait for the owner, its end and a note leave behind.
LEMMA OwnerHeldSettles ==
    ASSUME NEW r \in Rows
    PROVE  Settles(r, OwnerHeld(r))
<1> DEFINE m == [Restarted(r, "snoozed") EXCEPT !.phase = "plan", !.timer = SnoozeDelay]
<1>1. r.version + 1 \in Nat /\ SnoozeDelay \in Nat
  BY DelayAssumption DEF Rows
<1>2. Settles(r, m)
  <2> DEFINE a == Restarted(r, "snoozed")
  <2>1. a \in Rows
    BY RestartedType DEF Statuses
  <2>2. /\ a.status = "snoozed" /\ a.claim = NoClaim
        /\ a.last_claim = r.last_claim /\ a.last_outcome = r.last_outcome
    BY DEF Restarted, Moved, Rows
  <2>3. "plan" \in Phases
    BY DEF Phases
  <2> HIDE DEF a
  <2>4. [a EXCEPT !.phase = "plan", !.timer = SnoozeDelay] \in Rows
    BY <1>1, <2>1, <2>3 DEF Rows
  <2>5. /\ m \in Rows /\ m.status = a.status /\ m.claim = a.claim
        /\ m.last_claim = a.last_claim /\ m.last_outcome = a.last_outcome
    BY <2>1, <2>4 DEF Rows, a
  <2> QED BY <2>2, <2>5 DEF Settles
<1>3. OwnerHeld(r) = Logged(m, "snoozed")
  BY DEF OwnerHeld
<1> HIDE DEF m
<1> QED BY <1>2, <1>3, LoggedSettles

LEMMA HoldReleasedSettles ==
    ASSUME NEW r \in Rows
    PROVE  Settles(r, HoldReleased(r))
<1> DEFINE m == [Restarted(r, "awaiting_start") EXCEPT !.phase = "plan"]
<1>1. r.version + 1 \in Nat
  BY DEF Rows
<1>2. Settles(r, m)
  BY <1>1 DEF Settles, Restarted, Moved, Rows, NoClaim, Statuses, Phases
<1>3. HoldReleased(r) = Logged(m, "scheduled")
  BY DEF HoldReleased
<1> HIDE DEF m
<1> QED BY <1>2, <1>3, LoggedSettles

LEMMA NotedOnSettles ==
    ASSUME NEW r \in Rows, NEW kind
    PROVE  Settles(r, NotedOn(kind, r))
<1> DEFINE status == IF kind = "start" THEN "awaiting_start" ELSE "queued"
           phase  == IF kind = "steer" THEN r.phase ELSE "plan"
           m == [Restarted(r, status) EXCEPT !.phase = phase]
<1>1. r.version + 1 \in Nat /\ phase \in Phases /\ r.phase \in Phases
  BY DEF Rows, Phases
<1>2. status \in {"awaiting_start", "queued"}
  OBVIOUS
<1>3. NotedOn(kind, r) = Logged(m, "discussion_requested")
  <2>1. Restarted(r, status).phase = r.phase
    BY DEF Restarted, Moved, Rows
  <2> QED BY <2>1 DEF NotedOn
<1> HIDE DEF status, phase
<1>4. Settles(r, m)
  BY <1>1, <1>2 DEF Settles, Restarted, Moved, Rows, NoClaim, Statuses
<1> HIDE DEF m
<1> QED BY <1>3, <1>4, LoggedSettles

-----------------------------------------------------------------------------
(* What the reader's answers make of a row                                 *)

\* What a row is like that a card of this kind asks about.
Answerable(kind, r) ==
    /\ kind = "steer" => r.status = "running"
    /\ kind \in {"plan_review", "external_review"} => r.last_outcome \in DOMAIN GateOpens

Answers(kind) == Buttons[kind] \cup Notes(kind)

LEMMA AnswerSettles ==
    ASSUME NEW r \in Rows, NEW kind \in Kinds, NEW action \in Answers(kind),
           Answerable(kind, r)
    PROVE  Settles(r, AnsweredRow(kind, r, action))
<1>0. r.task_version + 1 \in Nat
  BY DEF Rows
<1>1. CASE action \in Ends
  <2>1. AnsweredRow(kind, r, action) = LifecycleClosed(r, r.task_version + 1, action)
    BY <1>1 DEF AnsweredRow, Ends
  <2> QED BY <1>0, <2>1, ClosedSettles
<1>2. CASE action = "discuss"
  <2>1. AnsweredRow(kind, r, action) = NotedOn(kind, r)
    BY <1>2 DEF AnsweredRow, Ends
  <2> QED BY <2>1, NotedOnSettles
<1>3. CASE action = "reassign"
  <2>1. AnsweredRow(kind, r, action) = Reassigned(r, r.task_version + 1)
    BY <1>3 DEF AnsweredRow, Ends
  <2> QED BY <1>0, <2>1, ReassignedSettles
<1>4. CASE action = "until_meeting"
  <2>1. AnsweredRow(kind, r, action) = OwnerHeld(r)
    BY <1>4 DEF AnsweredRow, Ends
  <2> QED BY <2>1, OwnerHeldSettles
<1>5. CASE action = "comment_and_go"
  <2>1. CASE kind = "start"
    <3>1. AnsweredRow(kind, r, action) = Started(r, "start")
      BY <1>5, <2>1 DEF AnsweredRow, Ends
    <3> QED BY <3>1, StartedSettles DEF StartActions
  <2>2. CASE kind = "steer"
    <3>1. AnsweredRow(kind, r, action) = Steered(r)
      BY <1>5, <2>2 DEF AnsweredRow, Ends
    <3> QED BY <2>2, <3>1, SteeredSettles DEF Answerable
  <2>3. CASE kind \in {"plan_review", "external_review"}
    <3>1. AnsweredRow(kind, r, action) = Reviewed(r, "approve")
      BY <1>5, <2>3 DEF AnsweredRow, Ends
    <3> QED BY <2>3, <3>1, ReviewedSettles DEF ReviewActions, Answerable
  <2>4. kind # "result_review"
    BY <1>5 DEF Answers, Buttons, Notes
  <2> QED BY <2>1, <2>2, <2>3, <2>4 DEF Kinds
<1>6. CASE action \notin Ends \cup {"discuss", "reassign", "until_meeting", "comment_and_go"}
  <2>1. CASE kind = "start"
    <3>1. action \in StartActions
      BY <1>6, <2>1 DEF Answers, Buttons, Notes, StartActions, Ends
    <3>2. AnsweredRow(kind, r, action) = Started(r, action)
      BY <1>6, <2>1 DEF AnsweredRow, Ends
    <3> QED BY <3>1, <3>2, StartedSettles
  <2>2. CASE kind # "start"
    <3>1. /\ action \in ReviewActions
          /\ action = "approve" => kind \in {"plan_review", "external_review"}
      BY <1>6, <2>2 DEF Kinds, Answers, Buttons, Notes, ReviewActions, Ends
    <3>2. AnsweredRow(kind, r, action) = Reviewed(r, action)
      BY <1>6, <2>2 DEF AnsweredRow, Ends
    <3> QED BY <3>1, <3>2, ReviewedSettles DEF Answerable
  <2> QED BY <2>1, <2>2
<1> QED BY <1>1, <1>2, <1>3, <1>4, <1>5, <1>6

LEMMA QueueViewSettles ==
    ASSUME NEW r \in Rows, NEW kind \in Kinds, NEW action \in Answers(kind),
           Answerable(kind, r)
    PROVE  Settles(r, QueueViewRow(kind, r, action))
<1>1. CASE action = "reassign"
  <2> DEFINE m == Reassigned(r, r.task_version + 1)
  <2>1. r.task_version + 1 \in Nat
    BY DEF Rows
  <2>2. Settles(r, m)
    BY <2>1, ReassignedSettles
  <2>3. QueueViewRow(kind, r, action) =
          [m EXCEPT !.last_outcome = r.last_outcome, !.last_claim = r.last_claim]
    BY <1>1 DEF QueueViewRow, Ends
  <2> HIDE DEF m
  <2>4. r.last_outcome \in Outcomes \cup {"none"} /\ r.last_claim \in Nat
    BY DEF Rows
  <2>5. m \in Rows
    BY <2>2 DEF Settles
  <2>6. QueueViewRow(kind, r, action) \in Rows
    BY <2>3, <2>4, <2>5 DEF Rows
  <2>7. /\ QueueViewRow(kind, r, action).status = m.status
        /\ QueueViewRow(kind, r, action).claim = m.claim
        /\ QueueViewRow(kind, r, action).last_outcome = r.last_outcome
        /\ QueueViewRow(kind, r, action).last_claim = r.last_claim
    BY <2>3, <2>5 DEF Rows
  <2> QED BY <2>2, <2>6, <2>7 DEF Settles
<1>2. CASE action # "reassign" /\ kind = "start" /\ action \notin Ends \cup {"discuss"}
  <2>1. QueueViewRow(kind, r, action) = Started(r, "start")
    BY <1>2 DEF QueueViewRow
  <2> QED BY <2>1, StartedSettles DEF StartActions
<1>3. CASE action # "reassign" /\ (kind # "start" \/ action \in Ends \cup {"discuss"})
  <2>1. QueueViewRow(kind, r, action) = AnsweredRow(kind, r, action)
    BY <1>3 DEF QueueViewRow
  <2> QED BY <2>1, AnswerSettles
<1> QED BY <1>1, <1>2, <1>3

-----------------------------------------------------------------------------
(* Rows and results                                                        *)

TypeInv == /\ TypeOK
           /\ RowsFollow /\ ResultsStand
           /\ MadeCardsHaveTasks /\ UnissuedAreBlank

\* A card that is still its row's question can be answered.
LEMMA CurrentIsAnswerable ==
    ASSUME TypeInv, NEW c \in CardIds, cards[c].status # "unmade", CurrentCard(cards[c])
    PROVE  /\ cards[c].task \in Tasks
           /\ wf[cards[c].task] \in Rows
           /\ cards[c].kind \in Kinds
           /\ Answerable(cards[c].kind, wf[cards[c].task])
<1> DEFINE card == cards[c]
           r == wf[card.task]
<1>1. card.task \in Tasks /\ r \in Rows /\ card.kind \in Kinds
  BY DEF TypeInv, TypeOK, MadeCardsHaveTasks, CardRows
<1>2. card.kind = "steer" => r.status = "running"
  BY DEF CurrentCard, StatusesOf
<1>3. ASSUME card.kind \in {"plan_review", "external_review"}
      PROVE  r.last_outcome \in DOMAIN GateOpens
  <2>1. /\ card.result # None /\ r.last_claim = card.result
        /\ ReviewOf(results[card.result].phase, results[card.result].outcome) = card.kind
    BY <1>3 DEF CurrentCard
  <2>2. results[card.result].outcome = r.last_outcome
    BY <1>1, <2>1 DEF TypeInv, RowsFollow, Carries
  <2>3. r.last_outcome \in {"awaiting_plan", "awaiting_external"}
    BY <1>3, <2>1, <2>2 DEF ReviewOf
  <2> QED BY <2>3 DEF GateOpens
<1> QED BY <1>1, <1>2, <1>3 DEF Answerable

\* The rows a step without a result leaves.
RowsStep == \A t \in Tasks : \/ wf'[t] = wf[t]
                             \/ wf'[t] = Aged(wf[t])
                             \/ Settles(wf[t], wf'[t])

RowsMove == /\ UNCHANGED results
            /\ wf' = [t \in Tasks |-> wf'[t]]
            /\ RowsStep

LEMMA RowsChange ==
    ASSUME TypeInv, Next
    PROVE  \/ RowsMove
           \/ \E t \in Tasks, k \in ClaimIds : BeginPass(t, k)
           \/ \E t \in Tasks, outcome \in FirstOutcomes : RecordPass(t, outcome)
<1>0. wf \in [Tasks -> Rows]
  BY DEF TypeInv, TypeOK
<1>a. UNCHANGED <<wf, results>> => RowsMove
  BY <1>0 DEF RowsMove, RowsStep
<1>b. ASSUME NEW t \in Tasks, NEW s, wf' = [wf EXCEPT ![t] = s], UNCHANGED results,
             s = Aged(wf[t]) \/ Settles(wf[t], s)
      PROVE  RowsMove
  BY <1>0, <1>b DEF RowsMove, RowsStep
<1>1. CASE PollHolds
  <2>1. PICK ending \in SUBSET Tasks :
          wf' = [t \in Tasks |-> IF t \in ending THEN HoldReleased(wf[t]) ELSE wf[t]]
    BY <1>1 DEF PollHolds
  <2>2. UNCHANGED results
    BY <1>1 DEF PollHolds
  <2>3. \A t \in Tasks : Settles(wf[t], HoldReleased(wf[t]))
    BY <1>0, HoldReleasedSettles
  <2>4. RowsStep
    BY <2>1, <2>3 DEF RowsStep
  <2> QED BY <2>1, <2>2, <2>4 DEF RowsMove
<1>2. CASE Schedule \/ Delivery \/ Retraction
  BY <1>2, <1>a DEF Schedule, Delivery, Retraction, ClaimNext, Post, CompleteDelivery,
     FailDelivery, LoseDelivery, ReleaseDelivery, RetryDelivery, RecoverDelivery,
     RequeueUnanswered, ClaimRetraction, DeleteMessage, CompleteRetraction, FailRetraction
<1>3. ASSUME NEW d \in DeliveryIds, NEW action \in Actions, Press(d, action)
      PROVE  RowsMove
  <2> DEFINE c == deliveries[d].card
             t == cards[c].task
  <2>1. c \in CardIds /\ cards[c].status # "unmade" /\ CurrentCard(cards[c])
    BY <1>3 DEF Press, Opens, TypeInv, TypeOK, DeliveryRows
  <2>2. t \in Tasks /\ Settles(wf[t], AnsweredRow(cards[c].kind, wf[t], action))
    <3>1. action \in Answers(cards[c].kind)
      BY <1>3 DEF Press, Answers
    <3> QED BY <2>1, <3>1, CurrentIsAnswerable, AnswerSettles
  <2>3. /\ wf' = [wf EXCEPT ![t] = AnsweredRow(cards[c].kind, wf[t], action)]
        /\ UNCHANGED results
    BY <1>3 DEF Press
  <2> HIDE DEF c, t
  <2> QED BY <1>b, <2>2, <2>3
<1>4. ASSUME NEW c \in CardIds, NEW consumer \in Consumers, NEW action \in Actions,
             ResolveQueueView(c, consumer, action)
      PROVE  RowsMove
  <2> DEFINE t == cards[c].task
  <2>1. cards[c].status # "unmade" /\ CurrentCard(cards[c])
    BY <1>4 DEF ResolveQueueView
  <2>2. t \in Tasks /\ Settles(wf[t], QueueViewRow(cards[c].kind, wf[t], action))
    <3>1. action \in Answers(cards[c].kind)
      BY <1>4 DEF ResolveQueueView, Answers
    <3> QED BY <2>1, <3>1, CurrentIsAnswerable, QueueViewSettles
  <2>3. /\ wf' = [wf EXCEPT ![t] = QueueViewRow(cards[c].kind, wf[t], action)]
        /\ UNCHANGED results
    BY <1>4 DEF ResolveQueueView
  <2> HIDE DEF t
  <2> QED BY <1>b, <2>2, <2>3
<1>5. ASSUME NEW d \in DeliveryIds, NEW answered \in BOOLEAN, SelectAgent(d, answered)
      PROVE  RowsMove
  <2> DEFINE c == deliveries[d].card
             t == cards[c].task
  <2>1. c \in CardIds /\ cards[c].status # "unmade" /\ CurrentCard(cards[c])
    BY <1>5 DEF SelectAgent, Opens, TypeInv, TypeOK, DeliveryRows
  <2>2. t \in Tasks /\ wf[t] \in Rows
    BY <2>1, CurrentIsAnswerable
  <2>3. wf[t].status # "running" /\ wf[t].claim = NoClaim
    BY <1>5, <2>2 DEF SelectAgent, TypeInv, RowsFollow
  <2>4. Settles(wf[t], Adopted(wf[t]))
    BY <2>2, <2>3, AdoptedSettles
  <2>5. wf' = [wf EXCEPT ![t] = Adopted(wf[t])] /\ UNCHANGED results
    BY <1>5 DEF SelectAgent
  <2> HIDE DEF c, t
  <2> QED BY <1>b, <2>2, <2>4, <2>5
<1>6. ASSUME NEW t \in Tasks, FailPass(t) \/ ReviseTask(t) \/ Replan(t)
      PROVE  RowsMove
  <2>1. CASE FailPass(t)
    <3>1. wf' = [wf EXCEPT ![t] = Deferred(wf[t], "other")] /\ UNCHANGED results
      BY <2>1 DEF FailPass
    <3> QED BY <1>0, <1>b, <3>1, DeferredSettles
  <2>2. CASE ReviseTask(t)
    BY <1>a, <2>2 DEF ReviseTask
  <2>3. CASE Replan(t)
    <3> DEFINE s == Scheduled(Cancelled(wf[t]), task[t].version, "awaiting_start", "plan")
    <3>1. wf' = [wf EXCEPT ![t] = s] /\ UNCHANGED results
      BY <2>3 DEF Replan
    <3>2. Settles(wf[t], s)
      BY <1>0, RescheduledSettles DEF TypeInv, TypeOK
    <3> HIDE DEF s
    <3> QED BY <1>b, <3>1, <3>2
  <2> QED BY <1>6, <2>1, <2>2, <2>3
<1>7. CASE Clock
  <2>1. ASSUME NEW t \in Tasks, RowAges(t)
        PROVE  RowsMove
    <3>1. wf' = [wf EXCEPT ![t] = Aged(wf[t])] /\ UNCHANGED results
      BY <2>1 DEF RowAges
    <3> QED BY <1>b, <3>1
  <2>2. ASSUME NEW c \in CardIds, CardAges(c) \/ RetractionAges(c)
        PROVE  RowsMove
    BY <1>a, <2>2 DEF CardAges, RetractionAges
  <2> QED BY <1>7, <2>1, <2>2 DEF Clock
<1> QED BY <1>1, <1>2, <1>3, <1>4, <1>5, <1>6, <1>7 DEF Next, Reader, Ledger

\* Every row stays a row that carries a recorded result, and every pass keeps
\* a claim of its own.
RowsInv == wf \in [Tasks -> Rows] /\ RowsFollow

LEMMA RowsMoveKeeps ==
    ASSUME TypeInv, RowsMove
    PROVE  RowsInv'
<1>1. ASSUME NEW t \in Tasks
      PROVE  /\ wf'[t] \in Rows
             /\ \/ /\ wf'[t].last_claim = wf[t].last_claim
                   /\ wf'[t].last_outcome = wf[t].last_outcome
                \/ wf'[t].last_claim = NoClaim
             /\ \/ wf'[t].status # "running" /\ wf'[t].claim = NoClaim
                \/ wf'[t].status = wf[t].status /\ wf'[t].claim = wf[t].claim
  <2>0. wf[t] \in Rows
    BY DEF TypeInv, TypeOK
  <2>1. CASE wf'[t] = wf[t]
    BY <2>0, <2>1
  <2>2. CASE wf'[t] = Aged(wf[t])
    BY <2>0, <2>2, AgedKeeps
  <2>3. CASE Settles(wf[t], wf'[t])
    BY <2>3 DEF Settles
  <2> QED BY <2>1, <2>2, <2>3 DEF RowsMove, RowsStep
<1>2. wf' \in [Tasks -> Rows]
  BY <1>1 DEF RowsMove
<1>3. RowsFollow'
  BY <1>1 DEF RowsMove, TypeInv, RowsFollow, Carries, NoClaim, None
<1> QED BY <1>2, <1>3 DEF RowsInv

LEMMA BeginPassKeeps ==
    ASSUME TypeInv, NEW t \in Tasks, NEW k \in ClaimIds, BeginPass(t, k)
    PROVE  /\ RowsInv'
           /\ results' \in [ClaimIds -> ResultRows]
           /\ ResultsStand'
<1>1. /\ wf \in [Tasks -> Rows] /\ k \in Nat
      /\ results \in [ClaimIds -> ResultRows]
  BY CardsAssumption DEF TypeInv, TypeOK, ClaimIds
<1>2. results[k].task = None /\ results[k].outcome = "none"
  BY <1>1 DEF BeginPass, TypeInv, ResultsStand
<1> DEFINE r == wf[t]
           s == Claimed(r, k)
<1>3. /\ s \in Rows /\ s.status = "running" /\ s.claim = k
      /\ s.last_claim = r.last_claim /\ s.last_outcome = r.last_outcome
  <2>1. r \in Rows
    BY <1>1
  <2> QED BY <1>1, <2>1, ClaimedRuns
<1>4. wf' = [wf EXCEPT ![t] = s] /\ results' = [results EXCEPT ![k].task = t]
  BY DEF BeginPass
<1> HIDE DEF s
<1>5. wf' \in [Tasks -> Rows] /\ results' \in [ClaimIds -> ResultRows]
  BY <1>1, <1>3, <1>4 DEF ResultRows
<1>6. /\ results'[k].task = t /\ results'[k].outcome = "none"
      /\ \A j \in ClaimIds : results'[j].outcome = results[j].outcome
      /\ \A j \in ClaimIds \ {k} : results'[j] = results[j]
  BY <1>1, <1>2, <1>4 DEF ResultRows
<1>7. ASSUME NEW u \in Tasks
      PROVE  /\ Carries(wf[u])'
             /\ wf'[u].status # "running" => wf'[u].claim = NoClaim
             /\ wf'[u].status = "running" =>
                  /\ wf'[u].claim \in ClaimIds
                  /\ results'[wf'[u].claim].task = u
                  /\ results'[wf'[u].claim].outcome = "none"
  <2>1. CASE u = t
    BY <1>1, <1>3, <1>4, <1>6, <2>1 DEF TypeInv, RowsFollow, Carries
  <2>2. CASE u # t
    <3>1. wf'[u] = wf[u]
      BY <1>1, <1>4, <2>2
    <3> QED BY <1>2, <1>6, <3>1, TaskIsNotNone DEF TypeInv, RowsFollow, Carries
  <2> QED BY <2>1, <2>2
<1>8. RowsFollow'
  BY <1>7 DEF RowsFollow
<1>9. ResultsStand'
  BY <1>6, TaskIsNotNone DEF TypeInv, ResultsStand
<1> QED BY <1>5, <1>8, <1>9 DEF RowsInv

LEMMA RecordPassKeeps ==
    ASSUME TypeInv, NEW t \in Tasks, NEW outcome, RecordPass(t, outcome)
    PROVE  /\ RowsInv'
           /\ results' \in [ClaimIds -> ResultRows]
           /\ ResultsStand'
<1> DEFINE r == wf[t]
           k == wf[t].claim
           s == Recorded(r, k, outcome, r.phase)
<1>1. /\ wf \in [Tasks -> Rows] /\ r \in Rows /\ r.phase \in Phases
      /\ r.version \in Nat /\ r.task_version \in Nat
      /\ results \in [ClaimIds -> ResultRows]
  BY DEF TypeInv, TypeOK, Rows
<1>2. k \in ClaimIds /\ k \in Nat /\ results[k].outcome = "none" /\ results[k].task = t
  BY CardsAssumption DEF RecordPass, TypeInv, RowsFollow, ClaimIds
<1>3. outcome \in Outcomes /\ outcome # "none"
  BY <1>1 DEF RecordPass, PhaseOutcomes, Phases, Outcomes
<1>4. /\ s \in Rows /\ s.status # "running" /\ s.claim = NoClaim
      /\ s.last_claim = k /\ s.last_outcome = outcome
  BY <1>1, <1>2, <1>3, RecordedRests
<1>5. /\ wf' = [wf EXCEPT ![t] = s]
      /\ results' = [results EXCEPT
                       ![k] = [phase |-> r.phase, outcome |-> outcome, task |-> t,
                               task_version |-> r.task_version, version |-> r.version]]
  BY DEF RecordPass
<1> HIDE DEF s
<1>6. wf' \in [Tasks -> Rows] /\ results' \in [ClaimIds -> ResultRows]
  BY <1>1, <1>3, <1>4, <1>5 DEF ResultRows
<1>7. /\ results'[k].task = t /\ results'[k].outcome = outcome
      /\ \A j \in ClaimIds \ {k} : results'[j] = results[j]
  BY <1>1, <1>2, <1>5
<1> HIDE DEF k
<1>8. ASSUME NEW u \in Tasks
      PROVE  /\ Carries(wf[u])'
             /\ wf'[u].status # "running" => wf'[u].claim = NoClaim
             /\ wf'[u].status = "running" =>
                  /\ wf'[u].claim \in ClaimIds
                  /\ results'[wf'[u].claim].task = u
                  /\ results'[wf'[u].claim].outcome = "none"
  <2>1. CASE u = t
    BY <1>1, <1>2, <1>3, <1>4, <1>5, <1>7, <2>1 DEF Carries
  <2>2. CASE u # t
    <3>1. wf'[u] = wf[u]
      BY <1>1, <1>5, <2>2
    <3>2. /\ Carries(wf[u])
          /\ wf[u].status # "running" => wf[u].claim = NoClaim
          /\ wf[u].status = "running" =>
               /\ wf[u].claim \in ClaimIds
               /\ results[wf[u].claim].task = u
               /\ results[wf[u].claim].outcome = "none"
      BY DEF TypeInv, RowsFollow
    <3>3. Carries(wf[u])'
      BY <1>2, <1>7, <3>1, <3>2 DEF Carries
    <3> QED BY <1>2, <1>7, <2>2, <3>1, <3>2, <3>3
  <2> QED BY <2>1, <2>2
<1>9. RowsFollow'
  BY <1>8 DEF RowsFollow
<1>10. ResultsStand'
  BY <1>7, TaskIsNotNone DEF TypeInv, ResultsStand
<1> QED BY <1>6, <1>9, <1>10 DEF RowsInv

LEMMA RowsKept ==
    ASSUME TypeInv, Next
    PROVE  /\ RowsInv'
           /\ results' \in [ClaimIds -> ResultRows]
           /\ ResultsStand'
<1>1. CASE RowsMove
  <2>1. results' = results
    BY <1>1 DEF RowsMove
  <2> QED BY <1>1, <2>1, RowsMoveKeeps DEF TypeInv, TypeOK, ResultsStand
<1> QED BY <1>1, RowsChange, BeginPassKeeps, RecordPassKeeps

-----------------------------------------------------------------------------
(* What every change of a card leaves                                      *)

Out(card) == card.status \in {"delivering", "delivered"}

\* A made card stays about its task; it can be reopened by nothing; and what
\* it says of its row changes with its version only.
Follows(x, y) ==
    /\ y \in CardRows
    /\ y.task = x.task /\ y.kind = x.kind
    /\ y.status = "unmade" <=> x.status = "unmade"
    /\ y.status \in Active => x.status \in Active
    /\ \/ y.version > x.version
       \/ y.version = x.version /\ y.workflow_version = x.workflow_version

\* Besides, nobody comes to hold it.
Turned(x, y) ==
    /\ Follows(x, y)
    /\ Out(y) => Out(x) /\ y.consumer = x.consumer

LEMMA TurnedStands ==
    ASSUME NEW x \in CardRows
    PROVE  Turned(x, x)
  BY DEF Turned, Follows

LEMMA TurnedTwice ==
    ASSUME NEW x \in CardRows, NEW y, NEW z, Turned(x, y), Turned(y, z)
    PROVE  Turned(x, z)
<1>1. x.version \in Nat /\ y.version \in Nat /\ z.version \in Nat
  BY DEF Turned, Follows, CardRows
<1> QED BY <1>1 DEF Turned, Follows

\* A card that leaves its consumer's hands.
LEMMA PutDownTurned ==
    ASSUME NEW x \in CardRows, x.status # "unmade", NEW y \in CardRows,
           y.task = x.task, y.kind = x.kind, y.version > x.version, ~Out(y),
           y.status # "unmade", y.status \in Active => x.status \in Active
    PROVE  Turned(x, y)
  BY DEF Turned, Follows

LEMMA SweptTurned ==
    ASSUME TypeInv, NEW c \in CardIds
    PROVE  Turned(cards[c], SweptCards[c])
<1>1. cards[c] \in CardRows /\ cards[c].version + 1 \in Nat
  BY DEF TypeInv, TypeOK, CardRows
<1>2. CASE c \in StaleCards
  <2>1. SweptCards[c] = CancelledCard(c)
    BY <1>2 DEF SweptCards
  <2>2. cards[c].status \in Active
    BY <1>2 DEF StaleCards
  <2> DEFINE x == cards[c]
             old == IF x.status = "delivered" THEN x.lease ELSE None
  <2>3. /\ SweptCards[c] = [x EXCEPT !.status = "cancelled", !.version = x.version + 1,
                                     !.superseded = old, !.lease = None, !.due = FALSE]
        /\ old \in DeliveryIds \cup {None}
    BY <1>1, <2>1 DEF CancelledCard, CardRows
  <2>4. x.version + 1 > x.version
    BY <1>1 DEF CardRows
  <2> HIDE DEF old
  <2>0. x \in CardRows
    BY <1>1
  <2> HIDE DEF x
  <2> DEFINE y == [x EXCEPT !.status = "cancelled", !.version = x.version + 1,
                            !.superseded = old, !.lease = None, !.due = FALSE]
  <2>8. SweptCards[c] = y /\ old \in DeliveryIds \cup {None}
    BY ONLY <2>3
  <2>9. /\ "cancelled" \in CardStatuses /\ x.version + 1 \in Nat
        /\ None \in DeliveryIds \cup {None} /\ FALSE \in BOOLEAN
    BY <2>0 DEF CardStatuses, CardRows
  <2>10. y \in CardRows
    BY ONLY <2>0, <2>8, <2>9 DEF CardRows
  <2>11. /\ y.status = "cancelled" /\ y.version = x.version + 1
         /\ y.task = x.task /\ y.kind = x.kind
    BY ONLY <2>0 DEF CardRows
  <2> HIDE DEF y
  <2>5. /\ SweptCards[c] \in CardRows
        /\ SweptCards[c].status = "cancelled" /\ SweptCards[c].version = x.version + 1
        /\ SweptCards[c].task = x.task /\ SweptCards[c].kind = x.kind
    BY <2>8, <2>10, <2>11
  <2>6. ~Out(SweptCards[c]) /\ SweptCards[c].status \notin Active /\ x.status # "unmade"
    BY <2>2, <2>5 DEF Out, Active, x
  <2>7. Turned(x, SweptCards[c])
    BY <2>0, <2>4, <2>5, <2>6, PutDownTurned
  <2> QED BY <2>7 DEF x
<1>3. CASE c \notin StaleCards
  <2>1. SweptCards[c] = cards[c]
    BY <1>3 DEF SweptCards
  <2> QED BY <1>1, <2>1, TurnedStands
<1> QED BY <1>2, <1>3

LEMMA BackTurned ==
    ASSUME NEW x \in CardRows, x.status \in Active
    PROVE  /\ Turned(x, BackToPending(x))
           /\ Turned(x, [BackToPending(x) EXCEPT !.consumer = x.consumer])
<1>1. x.version + 1 \in Nat /\ x.version + 1 > x.version /\ x.status # "unmade"
  BY DEF CardRows, Active
<1> DEFINE y == BackToPending(x)
           z == [BackToPending(x) EXCEPT !.consumer = x.consumer]
<1>2. "pending" \in CardStatuses /\ x.consumer \in Consumers \cup {None}
  BY DEF CardStatuses, Active, CardRows
<1>3. /\ y \in CardRows /\ y.status = "pending" /\ y.version = x.version + 1
      /\ y.task = x.task /\ y.kind = x.kind
  BY <1>1, <1>2 DEF BackToPending, CardRows
<1>4. /\ z \in CardRows /\ z.status = "pending" /\ z.version = x.version + 1
      /\ z.task = x.task /\ z.kind = x.kind
  BY <1>2, <1>3 DEF CardRows
<1> HIDE DEF y, z
<1>5. ~Out(y) /\ ~Out(z)
  BY <1>3, <1>4 DEF Out
<1> QED BY <1>1, <1>3, <1>4, <1>5, PutDownTurned DEF y, z

LEMMA RequeuedTurned ==
    ASSUME NEW x \in CardRows, x.status \in Active
    PROVE  Turned(x, Requeued(x))
<1>1. x.version + 1 \in Nat /\ x.version + 1 > x.version /\ x.status # "unmade"
  BY DEF CardRows, Active
<1> DEFINE y == Requeued(x)
<1>2. "pending" \in CardStatuses
  BY DEF CardStatuses, Active
<1>3. /\ y \in CardRows /\ y.status = "pending" /\ y.version = x.version + 1
      /\ y.task = x.task /\ y.kind = x.kind
  BY <1>1, <1>2 DEF Requeued, CardRows
<1> HIDE DEF y
<1>4. ~Out(y)
  BY <1>3 DEF Out
<1> QED BY <1>1, <1>3, <1>4, PutDownTurned DEF y

LEMMA ResolvedTurned ==
    ASSUME NEW x \in CardRows, x.status # "unmade", NEW action,
           StoredAction(x.kind, action) \in Resolutions
    PROVE  /\ Turned(x, ResolvedCard(x, action))
           /\ Turned(x, [ResolvedCard(x, action) EXCEPT !.version = x.version + 2])
<1>1. /\ x.version + 1 \in Nat /\ x.version + 1 > x.version
      /\ x.version + 2 \in Nat /\ x.version + 2 > x.version
  BY DEF CardRows
<1> DEFINE y == ResolvedCard(x, action)
           z == [ResolvedCard(x, action) EXCEPT !.version = x.version + 2]
<1>2. /\ y \in CardRows /\ y.status = "resolved" /\ y.version = x.version + 1
      /\ y.task = x.task /\ y.kind = x.kind
  BY <1>1 DEF ResolvedCard, CardRows, CardStatuses
<1>3. /\ z \in CardRows /\ z.status = "resolved" /\ z.version = x.version + 2
      /\ z.task = x.task /\ z.kind = x.kind
  BY <1>1, <1>2 DEF CardRows
<1> HIDE DEF y, z
<1>4. ~Out(y) /\ ~Out(z) /\ y.status \notin Active /\ z.status \notin Active
  BY <1>2, <1>3 DEF Out, Active
<1> QED BY <1>1, <1>2, <1>3, <1>4, PutDownTurned DEF y, z

LEMMA AnswersResolve ==
    ASSUME NEW kind \in Kinds
    PROVE  \A action \in Answers(kind) : StoredAction(kind, action) \in Resolutions
  BY DEF Kinds, Answers, Buttons, Notes, Resolutions, StoredAction

\* What a claim of a lease finds: nothing stale, no lease that has ended.
LeaseTable == [c \in CardIds |->
                 IF c \in ExpiredLeases(SweptCards)
                 THEN BackToPending(SweptCards[c]) ELSE SweptCards[c]]

LEMMA LeaseTableTurned ==
    ASSUME TypeInv, NEW c \in CardIds
    PROVE  Turned(cards[c], LeaseTable[c])
<1>1. Turned(cards[c], SweptCards[c]) /\ cards[c] \in CardRows
  BY SweptTurned DEF TypeInv, TypeOK
<1>2. CASE c \in ExpiredLeases(SweptCards)
  <2>1. SweptCards[c] \in CardRows /\ SweptCards[c].status \in Active
    BY <1>1, <1>2 DEF Turned, Follows, ExpiredLeases, Active
  <2>2. Turned(SweptCards[c], BackToPending(SweptCards[c]))
    BY <2>1, BackTurned
  <2>3. LeaseTable[c] = BackToPending(SweptCards[c])
    BY <1>2 DEF LeaseTable
  <2> QED BY <1>1, <2>2, <2>3, TurnedTwice
<1>3. CASE c \notin ExpiredLeases(SweptCards)
  BY <1>1, <1>3 DEF LeaseTable
<1> QED BY <1>2, <1>3

\* A card that is still pending in that table asks what its row asks now.
LEMMA PendingIsCurrent ==
    ASSUME TypeInv, NEW c \in CardIds, LeaseTable[c].status = "pending"
    PROVE  /\ cards[c].task \in Tasks
           /\ cards[c].status \in Active
           /\ LeaseTable[c].task = cards[c].task
           /\ LeaseTable[c].workflow_version = wf[cards[c].task].version
<1>1. Turned(cards[c], LeaseTable[c]) /\ Turned(cards[c], SweptCards[c])
  BY LeaseTableTurned, SweptTurned
<1>2. cards[c] \in CardRows /\ cards[c].status \in Active
  BY <1>1 DEF Turned, Follows, Active, TypeInv, TypeOK
<1>3. cards[c].task \in Tasks
  BY <1>2 DEF TypeInv, MadeCardsHaveTasks, Active
<1>4. c \notin StaleCards
  <2>1. SUFFICES ASSUME c \in StaleCards PROVE FALSE
    OBVIOUS
  <2>2. SweptCards[c] = CancelledCard(c) /\ CancelledCard(c).status = "cancelled"
    BY <1>2, <2>1 DEF SweptCards, CancelledCard, CardRows
  <2>3. LeaseTable[c] = SweptCards[c]
    BY <2>2 DEF LeaseTable, ExpiredLeases
  <2> QED BY <2>2, <2>3
<1>5. CurrentCard(cards[c]) /\ SweptCards[c] = cards[c]
  BY <1>2, <1>4 DEF StaleCards, SweptCards
<1>6. LeaseTable[c].workflow_version = cards[c].workflow_version
  BY <1>2, <1>5 DEF LeaseTable, BackToPending, CardRows
<1> QED BY <1>1, <1>2, <1>3, <1>5, <1>6 DEF CurrentCard, Turned, Follows

-----------------------------------------------------------------------------
(* schedule makes one card for each task that asks and has none            *)

LEMMA NewCardType ==
    ASSUME TypeInv, NEW t \in Tasks
    PROVE  /\ NewCard(t) \in CardRows
           /\ NewCard(t).status = "pending" /\ NewCard(t).task = t
<1> DEFINE kind == KindForWorkflow(wf[t])
           result == IF kind \in {"start", "steer"} THEN None ELSE wf[t].last_claim
<1>1. wf[t] \in Rows
  BY DEF TypeInv, TypeOK
<1>2. kind \in Kinds
  BY DEF KindForWorkflow, ReviewOf, Kinds
<1>3. result \in ClaimIds \cup {None}
  BY DEF TypeInv, RowsFollow, Carries
<1>4. NewCard(t) = [status |-> "pending", kind |-> kind, task |-> t,
                    task_version |-> wf[t].task_version,
                    workflow_version |-> wf[t].version, phase |-> wf[t].phase,
                    result |-> result, version |-> 1, lease |-> None,
                    consumer |-> None, superseded |-> None, due |-> FALSE,
                    resolution |-> "none"]
  BY DEF NewCard
<1> HIDE DEF kind, result
<1>5. /\ wf[t].task_version \in Nat /\ wf[t].version \in Nat /\ wf[t].phase \in Phases
  BY <1>1 DEF Rows
<1>6. /\ "pending" \in CardStatuses /\ "none" \in Resolutions /\ 1 \in Nat
      /\ FALSE \in BOOLEAN
  BY DEF CardStatuses, Active, Resolutions
<1> QED BY ONLY <1>2, <1>3, <1>4, <1>5, <1>6, t \in Tasks DEF CardRows

\* The cards that exist are the first so many.
LEMMA MadeAreFirst ==
    ASSUME MadeInOrder
    PROVE  /\ IsFiniteSet(Made) /\ Cardinality(Made) \in Nat
           /\ \A c \in CardIds : c <= Cardinality(Made) <=> cards[c].status # "unmade"
<1>1. MaxCards \in Nat /\ Made \subseteq CardIds
  BY CardsAssumption DEF Made
<1>2. IsFiniteSet(CardIds) /\ IsFiniteSet(Made)
  <2>1. 1 \in Int /\ MaxCards \in Int
    BY <1>1
  <2>2. IsFiniteSet(1..MaxCards)
    BY <2>1, FS_Interval
  <2>3. IsFiniteSet(CardIds)
    BY <2>2 DEF CardIds
  <2> QED BY <1>1, <2>3, FS_Subset
<1>3. Cardinality(Made) \in Nat
  BY <1>2, FS_CardinalityType
<1>4. ASSUME NEW c \in CardIds, cards[c].status # "unmade"
      PROVE  c <= Cardinality(Made)
  <2>1. 1..c \subseteq Made
    BY <1>1, <1>4 DEF MadeInOrder, CardIds, Made
  <2>2. Cardinality(1..c) = c
    BY <1>1, FS_Interval DEF CardIds
  <2>3. Cardinality(1..c) <= Cardinality(Made)
    BY <1>2, <2>1, FS_Subset
  <2> QED BY <2>2, <2>3
<1>5. ASSUME NEW c \in CardIds, cards[c].status = "unmade"
      PROVE  ~(c <= Cardinality(Made))
  <2>1. c \in Nat /\ c >= 1
    BY <1>1 DEF CardIds
  <2>2. ASSUME NEW b \in Made
        PROVE  b \in 1..(c - 1)
    <3>1. b \in CardIds /\ cards[b].status # "unmade"
      BY DEF Made
    <3>2. ~(c \in 1..b)
      BY <1>5, <3>1 DEF MadeInOrder
    <3> QED BY <1>1, <2>1, <3>1, <3>2 DEF CardIds
  <2>3. IsFiniteSet(1..(c - 1)) /\ Cardinality(1..(c - 1)) = c - 1
    BY <2>1, FS_Interval
  <2>4. Cardinality(Made) <= Cardinality(1..(c - 1))
    BY <2>2, <2>3, FS_Subset
  <2> QED BY <1>3, <2>1, <2>3, <2>4
<1> QED BY <1>2, <1>3, <1>4, <1>5

\* What Schedule does to the cards: ids that follow the last are given out to
\* tasks without a card, each to another task.
Schedules(fresh, owner) ==
    /\ cards' = [c \in CardIds |-> IF c \in fresh THEN NewCard(owner[c])
                                  ELSE SweptCards[c]]
    /\ \A c \in fresh :
         /\ cards[c].status = "unmade"
         /\ owner[c] \in Tasks /\ ~HasCard(owner[c])
         /\ \A b \in 1..(c - 1) : b \in fresh \/ cards[b].status # "unmade"
         /\ \A b \in fresh : owner[b] = owner[c] => b = c

LEMMA ScheduleSchedules ==
    ASSUME TypeInv, MadeInOrder, Schedule
    PROVE  \E fresh \in SUBSET CardIds : \E owner : Schedules(fresh, owner)
<1> DEFINE asking == {t \in Tasks : Asks(t) /\ ~HasCard(t)}
           first  == Cardinality(Made) + 1
           n      == Cardinality(asking)
           fresh  == first..(first + n - 1)
<1>1. fresh \subseteq CardIds
  BY DEF Schedule
<1>2. PICK owner \in [fresh -> asking] :
        /\ \A t \in asking : \E c \in fresh : owner[c] = t
        /\ cards' = [c \in CardIds |-> IF c \in fresh THEN NewCard(owner[c])
                                      ELSE SweptCards[c]]
  BY DEF Schedule
<1>3. first \in Nat /\ first >= 1
  BY MadeAreFirst
<1>4. n \in Nat
  <2>1. IsFiniteSet(asking)
    BY CardsAssumption, FS_Subset
  <2> QED BY <2>1, FS_CardinalityType
<1>5. \A c \in fresh : owner[c] \in Tasks /\ ~HasCard(owner[c])
  BY <1>2
<1> HIDE DEF asking, n
<1>6. IsFiniteSet(fresh) /\ Cardinality(fresh) = n
  <2>1. first + n - 1 \in Int /\ first \in Int
    BY <1>3, <1>4
  <2>2. IsFiniteSet(fresh)
        /\ Cardinality(fresh) = IF first > first + n - 1 THEN 0
                                ELSE (first + n - 1) - first + 1
    BY <2>1, FS_Interval
  <2> HIDE DEF first, fresh
  <2> QED BY <1>3, <1>4, <2>2
<1> HIDE DEF fresh
<1>7. owner \in Injection(fresh, asking)
  <2>1. owner \in Surjection(fresh, asking)
    BY <1>2 DEF Surjection
  <2>2. Cardinality(fresh) = Cardinality(asking)
    BY <1>6 DEF n
  <2> QED BY <1>6, <2>1, <2>2, FS_SurjSameCardinalityImpliesInj
<1>8. ASSUME NEW c \in fresh
      PROVE  /\ cards[c].status = "unmade"
             /\ owner[c] \in Tasks /\ ~HasCard(owner[c])
             /\ \A b \in 1..(c - 1) : b \in fresh \/ cards[b].status # "unmade"
             /\ \A b \in fresh : owner[b] = owner[c] => b = c
  <2>1. c \in Nat /\ c >= first /\ c \in CardIds
    BY <1>1, <1>3, <1>4 DEF fresh
  <2>2. cards[c].status = "unmade"
    BY <2>1, MadeAreFirst
  <2>3. ASSUME NEW b \in 1..(c - 1)
        PROVE  b \in fresh \/ cards[b].status # "unmade"
    <3>1. b \in CardIds
      BY <2>1, CardsAssumption DEF CardIds
    <3>2. CASE b < first
      BY <3>1, <3>2, <1>3, <2>1, MadeAreFirst
    <3>3. CASE b >= first
      BY <3>3, <1>3, <1>4, <2>1 DEF fresh
    <3> QED BY <3>2, <3>3, <1>3, <2>1
  <2>4. \A b \in fresh : owner[b] = owner[c] => b = c
    BY <1>7 DEF Injection, IsInjective
  <2> QED BY <1>5, <2>2, <2>3, <2>4
<1>9. Schedules(fresh, owner)
  BY <1>2, <1>8 DEF Schedules
<1> QED BY <1>1, <1>9

-----------------------------------------------------------------------------
(* What a step does to the cards                                           *)

CardsTurn == /\ cards' = [c \in CardIds |-> cards'[c]]
             /\ \A c \in CardIds : Turned(cards[c], cards'[c])

\* claim_next hands out the lease d of the card c.
TakesLease(consumer, c, d) ==
    /\ LeaseTable[c].status = "pending"
    /\ Fits(LeaseTable, consumer, LeaseTable[c].kind)
    /\ deliveries[d].stage = "unissued"
    /\ cards' = [LeaseTable EXCEPT
                   ![c].status = "delivering", ![c].version = @ + 1,
                   ![c].lease = d, ![c].consumer = consumer, ![c].due = FALSE]
    /\ deliveries' = [deliveries EXCEPT
                        ![d] = [card |-> c, version |-> LeaseTable[c].version + 1,
                                shows |-> wf[LeaseTable[c].task].version,
                                stage |-> "held"]]

LEMMA ClaimTurns ==
    ASSUME TypeInv, NEW consumer, ClaimNext(consumer)
    PROVE  \/ CardsTurn /\ UNCHANGED deliveries
           \/ \E c \in CardIds, d \in DeliveryIds : TakesLease(consumer, c, d)
<1> DEFINE first == {c \in CardIds : Foremost(LeaseTable, c)}
           fits  == {c \in first : Fits(LeaseTable, consumer, LeaseTable[c].kind)}
<1>1. CASE fits = {} /\ cards' = LeaseTable /\ UNCHANGED deliveries
  <2>1. \A c \in CardIds : cards'[c] = LeaseTable[c]
    BY <1>1
  <2>2. cards' = [c \in CardIds |-> cards'[c]]
    BY <1>1 DEF LeaseTable
  <2> QED BY <1>1, <2>1, <2>2, LeaseTableTurned DEF CardsTurn
<1> DEFINE takes(c, d) ==
             /\ deliveries[d].stage = "unissued"
             /\ \A e \in 1..(d - 1) : deliveries[e].stage # "unissued"
             /\ cards' = [LeaseTable EXCEPT
                            ![c].status = "delivering", ![c].version = @ + 1,
                            ![c].lease = d, ![c].consumer = consumer, ![c].due = FALSE]
             /\ deliveries' = [deliveries EXCEPT
                                 ![d] = [card |-> c, version |-> LeaseTable[c].version + 1,
                                         shows |-> wf[LeaseTable[c].task].version,
                                         stage |-> "held"]]
<1>2. ASSUME NEW c \in fits, NEW d \in DeliveryIds, takes(c, d)
      PROVE  c \in CardIds /\ TakesLease(consumer, c, d)
  <2>1. /\ c \in CardIds /\ Fits(LeaseTable, consumer, LeaseTable[c].kind)
        /\ LeaseTable[c].status = "pending"
    BY DEF Foremost
  <2> QED BY ONLY <1>2, <2>1 DEF TakesLease
<1>3. \/ fits = {} /\ cards' = LeaseTable /\ UNCHANGED deliveries
      \/ \E c \in fits, d \in DeliveryIds : takes(c, d)
  BY Zenon DEF ClaimNext, LeaseTable
<1> HIDE DEF fits, takes
<1> QED BY <1>1, <1>2, <1>3

\* One card changes, and the others stand.
LEMMA OneCardTurns ==
    ASSUME TypeInv, NEW c, NEW y, cards' = [cards EXCEPT ![c] = y],
           c \in CardIds => Turned(cards[c], y)
    PROVE  CardsTurn
<1>1. cards \in [CardIds -> CardRows]
  BY DEF TypeInv, TypeOK
<1>2. cards' = [e \in CardIds |-> cards'[e]]
  BY <1>1
<1>3. ASSUME NEW e \in CardIds
      PROVE  Turned(cards[e], cards'[e])
  <2>1. CASE e = c
    BY <1>1, <2>1
  <2>2. CASE e # c
    BY <1>1, <2>2, TurnedStands
  <2> QED BY <2>1, <2>2
<1> QED BY <1>2, <1>3 DEF CardsTurn

LEMMA CardsStandTurn ==
    ASSUME TypeInv, UNCHANGED cards
    PROVE  CardsTurn
<1>1. cards \in [CardIds -> CardRows]
  BY DEF TypeInv, TypeOK
<1> QED BY <1>1, TurnedStands DEF CardsTurn

LEMMA DeliveryTurns ==
    ASSUME TypeInv, NEW d \in DeliveryIds,
           CompleteDelivery(d) \/ FailDelivery(d) \/ ReleaseDelivery(d)
    PROVE  CardsTurn
<1> DEFINE c == deliveries[d].card
           x == cards[c]
<1>1. Leased(d) /\ c \in CardIds /\ x \in CardRows /\ x.status = "delivering"
  BY DEF CompleteDelivery, FailDelivery, ReleaseDelivery, Leased, TypeInv, TypeOK, DeliveryRows
<1>2. CASE CompleteDelivery(d)
  <2> DEFINE y == [x EXCEPT !.status = "delivered", !.superseded = None, !.due = FALSE]
  <2>1. cards' = [cards EXCEPT ![c] = y]
    BY <1>2 DEF CompleteDelivery
  <2>2. Turned(x, y)
    BY <1>1 DEF Turned, Follows, CardRows, CardStatuses, Active, Out
  <2> HIDE DEF y, c
  <2> QED BY <2>1, <2>2, OneCardTurns
<1>3. CASE FailDelivery(d)
  <2> DEFINE y == [BackToPending(x) EXCEPT !.consumer = x.consumer]
  <2>1. cards' = [cards EXCEPT ![c] = y]
    BY <1>3 DEF FailDelivery
  <2>2. Turned(x, y)
    BY <1>1, BackTurned DEF Active
  <2> HIDE DEF y, c
  <2> QED BY <2>1, <2>2, OneCardTurns
<1>4. CASE ReleaseDelivery(d)
  <2> DEFINE y == BackToPending(x)
  <2>1. cards' = [cards EXCEPT ![c] = y]
    BY <1>4 DEF ReleaseDelivery
  <2>2. Turned(x, y)
    BY <1>1, BackTurned DEF Active
  <2> HIDE DEF y, c
  <2> QED BY <2>1, <2>2, OneCardTurns
<1> QED BY <1>2, <1>3, <1>4

LEMMA RepairTurns ==
    ASSUME TypeInv, NEW c \in CardIds, RetryDelivery(c) \/ RecoverDelivery(c)
    PROVE  CardsTurn
<1> DEFINE x == cards[c]
<1>1. x \in CardRows /\ x.version + 1 \in Nat /\ x.version + 1 > x.version
  BY DEF TypeInv, TypeOK, CardRows
<1>2. CASE RetryDelivery(c)
  <2> DEFINE y == [x EXCEPT !.status = "pending", !.version = x.version + 1,
                            !.lease = None, !.due = FALSE]
  <2>1. cards' = [cards EXCEPT ![c] = y] /\ x.status = "delivered"
    BY <1>2 DEF RetryDelivery
  <2>2. Turned(x, y)
    BY <1>1, <2>1 DEF Turned, Follows, CardRows, CardStatuses, Active, Out
  <2> HIDE DEF y
  <2> QED BY <2>1, <2>2, OneCardTurns
<1>3. CASE RecoverDelivery(c)
  <2> DEFINE y == BackToPending(x)
  <2>1. cards' = [cards EXCEPT ![c] = y] /\ x.status = "delivering"
    BY <1>3 DEF RecoverDelivery
  <2>2. Turned(x, y)
    BY <1>1, <2>1, BackTurned DEF Active
  <2> HIDE DEF y
  <2> QED BY <2>1, <2>2, OneCardTurns
<1> QED BY <1>2, <1>3

LEMMA RequeueTurns ==
    ASSUME TypeInv, RequeueUnanswered
    PROVE  CardsTurn
<1> DEFINE again == {c \in CardIds : /\ SweptCards[c].status = "delivered"
                                    /\ SweptCards[c].kind # "steer"
                                    /\ SweptCards[c].due}
<1>1. cards' = [c \in CardIds |-> IF c \in again THEN Requeued(SweptCards[c])
                                 ELSE SweptCards[c]]
  BY DEF RequeueUnanswered
<1>2. ASSUME NEW c \in CardIds
      PROVE  Turned(cards[c], cards'[c])
  <2>1. Turned(cards[c], SweptCards[c]) /\ cards[c] \in CardRows
    BY SweptTurned DEF TypeInv, TypeOK
  <2>2. CASE c \in again
    <3>1. SweptCards[c] \in CardRows /\ SweptCards[c].status \in Active
      BY <2>1, <2>2 DEF Turned, Follows, Active
    <3>2. Turned(SweptCards[c], Requeued(SweptCards[c]))
      BY <3>1, RequeuedTurned
    <3> QED BY <1>1, <2>1, <2>2, <3>2, TurnedTwice
  <2>3. CASE c \notin again
    BY <1>1, <2>1, <2>3
  <2> QED BY <2>2, <2>3
<1>3. cards' = [c \in CardIds |-> cards'[c]]
  BY <1>1
<1> QED BY <1>2, <1>3 DEF CardsTurn

LEMMA ReaderTurns ==
    ASSUME TypeInv, Reader
    PROVE  CardsTurn
<1>1. ASSUME NEW d \in DeliveryIds, NEW action \in Actions, Press(d, action)
      PROVE  CardsTurn
  <2> DEFINE c == deliveries[d].card
             x == cards[c]
             y == ResolvedCard(x, action)
  <2>1. c \in CardIds /\ x \in CardRows /\ x.status # "unmade"
    BY <1>1 DEF Press, Opens, TypeInv, TypeOK, DeliveryRows
  <2>2. StoredAction(x.kind, action) \in Resolutions
    <3>1. x.kind \in Kinds /\ action \in Answers(x.kind)
      BY <1>1, <2>1 DEF Press, Answers, CardRows
    <3> QED BY <3>1, AnswersResolve
  <2>3. Turned(x, y)
    BY <2>1, <2>2, ResolvedTurned
  <2>4. cards' = [cards EXCEPT ![c] = y]
    BY <1>1 DEF Press
  <2> HIDE DEF y, c
  <2> QED BY <2>3, <2>4, OneCardTurns
<1>2. ASSUME NEW c \in CardIds, NEW consumer \in Consumers, NEW action \in Actions,
             ResolveQueueView(c, consumer, action)
      PROVE  CardsTurn
  <2> DEFINE x == cards[c]
             y == [ResolvedCard(x, action) EXCEPT !.version = x.version + 2]
  <2>1. x \in CardRows /\ x.status # "unmade"
    BY <1>2 DEF ResolveQueueView, TypeInv, TypeOK
  <2>2. StoredAction(x.kind, action) \in Resolutions
    <3>1. x.kind \in Kinds /\ action \in Answers(x.kind)
      BY <1>2, <2>1 DEF ResolveQueueView, Answers, CardRows
    <3> QED BY <3>1, AnswersResolve
  <2>3. Turned(x, y)
    BY <2>1, <2>2, ResolvedTurned
  <2>4. cards' = [cards EXCEPT ![c] = y]
    BY <1>2 DEF ResolveQueueView
  <2> HIDE DEF y
  <2> QED BY <2>3, <2>4, OneCardTurns
<1>3. ASSUME NEW d \in DeliveryIds, NEW answered \in BOOLEAN, SelectAgent(d, answered)
      PROVE  CardsTurn
  <2> DEFINE c == deliveries[d].card
             x == cards[c]
             y == [x EXCEPT !.version = x.version + 1,
                            !.workflow_version = x.workflow_version + 1]
  <2>1. c \in CardIds /\ x \in CardRows
    BY <1>3 DEF SelectAgent, Opens, TypeInv, TypeOK, DeliveryRows
  <2>2. /\ x.version + 1 \in Nat /\ x.version + 1 > x.version
        /\ x.workflow_version + 1 \in Nat
    BY <2>1 DEF CardRows
  <2>3. Turned(x, y)
    BY <2>1, <2>2 DEF Turned, Follows, CardRows, Out
  <2>4. cards' = [cards EXCEPT ![c] = y]
    BY <1>3 DEF SelectAgent
  <2> HIDE DEF y, c
  <2> QED BY <2>3, <2>4, OneCardTurns
<1> QED BY <1>1, <1>2, <1>3 DEF Reader

LEMMA CardsChange ==
    ASSUME TypeInv, Next
    PROVE  \/ CardsTurn
           \/ Schedule
           \/ \E consumer \in Consumers, c \in CardIds, d \in DeliveryIds :
                TakesLease(consumer, c, d)
<1>1. CASE PollHolds \/ Ledger
  BY <1>1, CardsStandTurn DEF PollHolds, Ledger, BeginPass, RecordPass, FailPass, ReviseTask,
     Replan
<1>2. CASE Delivery
  <2>1. ASSUME NEW d \in DeliveryIds, Post(d) \/ LoseDelivery(d)
        PROVE  CardsTurn
    BY <2>1, CardsStandTurn DEF Post, LoseDelivery
  <2> QED BY <1>2, <2>1, ClaimTurns, DeliveryTurns, RepairTurns, RequeueTurns DEF Delivery
<1>3. CASE Retraction
  <2>1. ASSUME ClaimRetraction \/ \E c \in CardIds : DeleteMessage(c) \/ FailRetraction(c)
        PROVE  CardsTurn
    BY <2>1, CardsStandTurn DEF ClaimRetraction, DeleteMessage, FailRetraction
  <2>2. ASSUME NEW c \in CardIds, CompleteRetraction(c)
        PROVE  CardsTurn
    <3> DEFINE y == [cards[c] EXCEPT !.superseded = None]
    <3>1. cards' = [cards EXCEPT ![c] = y] /\ cards[c] \in CardRows
      BY <2>2 DEF CompleteRetraction, TypeInv, TypeOK
    <3>2. Turned(cards[c], y)
      BY <3>1 DEF Turned, Follows, CardRows, Out
    <3> HIDE DEF y
    <3> QED BY <3>1, <3>2, OneCardTurns
  <2> QED BY <1>3, <2>1, <2>2 DEF Retraction
<1>4. CASE Clock
  <2>1. ASSUME NEW t \in Tasks, RowAges(t)
        PROVE  CardsTurn
    BY <2>1, CardsStandTurn DEF RowAges
  <2>2. ASSUME NEW c \in CardIds, RetractionAges(c)
        PROVE  CardsTurn
    BY <2>2, CardsStandTurn DEF RetractionAges
  <2>3. ASSUME NEW c \in CardIds, CardAges(c)
        PROVE  CardsTurn
    <3> DEFINE y == [cards[c] EXCEPT !.due = TRUE]
    <3>1. cards' = [cards EXCEPT ![c] = y] /\ cards[c] \in CardRows
      BY <2>3 DEF CardAges, TypeInv, TypeOK
    <3>2. Turned(cards[c], y)
      BY <3>1 DEF Turned, Follows, CardRows, Out
    <3> HIDE DEF y
    <3> QED BY <3>1, <3>2, OneCardTurns
  <2> QED BY <1>4, <2>1, <2>2, <2>3 DEF Clock
<1> QED BY <1>1, <1>2, <1>3, <1>4, ReaderTurns DEF Next

-----------------------------------------------------------------------------
(* What a step does to the leases                                          *)

DeliveriesKept ==
    /\ deliveries' \in [DeliveryIds -> DeliveryRows]
    /\ \A d \in DeliveryIds :
         /\ deliveries'[d].card = deliveries[d].card
         /\ deliveries'[d].version = deliveries[d].version
         /\ deliveries'[d].shows = deliveries[d].shows
         /\ deliveries'[d].stage = "unissued" <=> deliveries[d].stage = "unissued"

\* A message is posted, removed or lost: the lease says what it said.
LEMMA StageKeeps ==
    ASSUME TypeInv, NEW d, NEW stage \in {"posted", "removed", "lost"},
           deliveries' = [deliveries EXCEPT ![d].stage = stage],
           d \in DeliveryIds => Issued(d)
    PROVE  DeliveriesKept
<1>1. deliveries \in [DeliveryIds -> DeliveryRows]
  BY DEF TypeInv, TypeOK
<1>2. ASSUME NEW e \in DeliveryIds
      PROVE  /\ deliveries'[e] \in DeliveryRows
             /\ deliveries'[e].card = deliveries[e].card
             /\ deliveries'[e].version = deliveries[e].version
             /\ deliveries'[e].shows = deliveries[e].shows
             /\ deliveries'[e].stage = "unissued" <=> deliveries[e].stage = "unissued"
  <2>1. CASE e = d
    BY <1>1, <2>1 DEF Issued, DeliveryRows
  <2>2. CASE e # d
    BY <1>1, <2>2
  <2> QED BY <2>1, <2>2
<1>3. deliveries' \in [DeliveryIds -> DeliveryRows]
  BY <1>1, <1>2
<1> QED BY <1>2, <1>3 DEF DeliveriesKept

LEMMA LeasesStand ==
    ASSUME TypeInv, UNCHANGED deliveries
    PROVE  DeliveriesKept
  BY DEF TypeInv, TypeOK, DeliveriesKept

LEMMA LeasesChange ==
    ASSUME TypeInv, Next
    PROVE  \/ DeliveriesKept
           \/ \E consumer \in Consumers, c \in CardIds, d \in DeliveryIds :
                TakesLease(consumer, c, d)
           \/ \E d \in DeliveryIds : SelectAgent(d, TRUE)
<1>1. CASE PollHolds \/ Schedule \/ Ledger \/ Clock
  BY <1>1, LeasesStand DEF PollHolds, Schedule, Ledger, BeginPass, RecordPass, FailPass,
     ReviseTask, Replan, Clock, RowAges, CardAges, RetractionAges
<1>2. CASE Delivery
  <2>1. ASSUME NEW d \in DeliveryIds, Post(d)
        PROVE  DeliveriesKept
    BY <2>1, StageKeeps DEF Post, Issued
  <2>2. ASSUME NEW d \in DeliveryIds, LoseDelivery(d) \/ ReleaseDelivery(d)
        PROVE  DeliveriesKept
    <3>1. Issued(d)
      BY <2>2 DEF LoseDelivery, ReleaseDelivery, Leased, TypeInv, UnissuedAreBlank
    <3>2. CASE LoseDelivery(d)
      BY <3>1, <3>2, StageKeeps DEF LoseDelivery
    <3>3. CASE ReleaseDelivery(d)
      BY <3>1, <3>3, StageKeeps DEF ReleaseDelivery
    <3> QED BY <2>2, <3>2, <3>3
  <2>3. ASSUME NEW d \in DeliveryIds, CompleteDelivery(d) \/ FailDelivery(d)
        PROVE  DeliveriesKept
    BY <2>3, LeasesStand DEF CompleteDelivery, FailDelivery
  <2>4. ASSUME NEW c \in CardIds, RetryDelivery(c) \/ RecoverDelivery(c)
        PROVE  DeliveriesKept
    BY <2>4, LeasesStand DEF RetryDelivery, RecoverDelivery
  <2>5. CASE RequeueUnanswered
    BY <2>5, LeasesStand DEF RequeueUnanswered
  <2> QED BY <1>2, <2>1, <2>2, <2>3, <2>4, <2>5, ClaimTurns, LeasesStand DEF Delivery
<1>3. CASE Retraction
  <2>1. ASSUME ClaimRetraction \/ \E c \in CardIds : CompleteRetraction(c) \/ FailRetraction(c)
        PROVE  DeliveriesKept
    BY <2>1, LeasesStand DEF ClaimRetraction, CompleteRetraction, FailRetraction
  <2>2. ASSUME NEW c \in CardIds, DeleteMessage(c)
        PROVE  DeliveriesKept
    BY <2>2, StageKeeps DEF DeleteMessage, Issued
  <2> QED BY <1>3, <2>1, <2>2 DEF Retraction
<1>4. CASE Reader
  <2>1. ASSUME NEW d \in DeliveryIds, NEW answered \in BOOLEAN, SelectAgent(d, answered)
        PROVE  DeliveriesKept \/ SelectAgent(d, TRUE)
    <3>1. CASE answered = TRUE
      BY <2>1, <3>1
    <3>2. CASE answered = FALSE
      BY <2>1, <3>2, LeasesStand DEF SelectAgent
    <3> QED BY <3>1, <3>2
  <2>2. ASSUME NEW d \in DeliveryIds, NEW action \in Actions, Press(d, action)
        PROVE  DeliveriesKept
    BY <2>2, LeasesStand DEF Press
  <2>3. ASSUME NEW c \in CardIds, NEW consumer \in Consumers, NEW action \in Actions,
               ResolveQueueView(c, consumer, action)
        PROVE  DeliveriesKept
    BY <2>3, LeasesStand DEF ResolveQueueView
  <2> QED BY <1>4, <2>1, <2>2, <2>3 DEF Reader
<1> QED BY <1>1, <1>2, <1>3, <1>4 DEF Next

-----------------------------------------------------------------------------
(* The other columns                                                       *)

LEMMA CountersTyped ==
    ASSUME TypeInv, Next
    PROVE  polled' \in BOOLEAN /\ inputs' \in 0..MaxInputs /\ faults' \in 0..MaxFaults
<1>1. /\ polled \in BOOLEAN /\ inputs \in 0..MaxInputs /\ faults \in 0..MaxFaults
      /\ MaxInputs \in Nat /\ MaxFaults \in Nat
  BY CardsAssumption DEF TypeInv, TypeOK
<1>2. /\ inputs > 0 => inputs - 1 \in 0..MaxInputs
      /\ faults > 0 => faults - 1 \in 0..MaxFaults
  BY <1>1
<1>3. polled' \in {polled, TRUE, FALSE}
  BY DEF Next, PollHolds, Schedule, Delivery, Retraction, Reader, Ledger, Clock, ClaimNext, Post,
     CompleteDelivery, FailDelivery, LoseDelivery, ReleaseDelivery, RetryDelivery,
     RecoverDelivery, RequeueUnanswered, ClaimRetraction, DeleteMessage, CompleteRetraction,
     FailRetraction, Press, ResolveQueueView, SelectAgent, BeginPass, RecordPass, FailPass,
     ReviseTask, Replan, RowAges, CardAges, RetractionAges, Budget
<1>4. inputs' = inputs \/ (inputs > 0 /\ inputs' = inputs - 1)
  <2>1. CASE PollHolds \/ Schedule
    BY <2>1 DEF PollHolds, Schedule, Budget
  <2>2. CASE Delivery
    <3>1. ASSUME NEW consumer \in Consumers, ClaimNext(consumer) PROVE UNCHANGED Budget
      BY <3>1 DEF ClaimNext
    <3>2. CASE \E d \in DeliveryIds : Post(d) \/ CompleteDelivery(d)
      BY <3>2 DEF Post, CompleteDelivery, Budget
    <3>3. CASE \E d \in DeliveryIds : FailDelivery(d) \/ LoseDelivery(d) \/ ReleaseDelivery(d)
      BY <3>3 DEF FailDelivery, LoseDelivery, ReleaseDelivery, Budget
    <3>4. CASE \E c \in CardIds : RetryDelivery(c) \/ RecoverDelivery(c)
      BY <3>4 DEF RetryDelivery, RecoverDelivery, Input
    <3>5. CASE RequeueUnanswered
      BY <3>5 DEF RequeueUnanswered, Budget
    <3> QED BY <2>2, <3>1, <3>2, <3>3, <3>4, <3>5 DEF Delivery, Budget
  <2>3. CASE Retraction \/ Clock
    BY <2>3 DEF Retraction, Clock, ClaimRetraction, DeleteMessage, CompleteRetraction,
       FailRetraction, RowAges, CardAges, RetractionAges, Budget
  <2>4. CASE Reader
    BY <2>4 DEF Reader, Press, ResolveQueueView, SelectAgent, Input
  <2>5. CASE Ledger
    BY <2>5 DEF Ledger, BeginPass, RecordPass, FailPass, ReviseTask, Replan, Budget, Input
  <2> QED BY <2>1, <2>2, <2>3, <2>4, <2>5 DEF Next
<1>5. faults' = faults \/ (faults > 0 /\ faults' = faults - 1)
  <2>1. CASE PollHolds \/ Schedule
    BY <2>1 DEF PollHolds, Schedule, Budget
  <2>2. CASE Delivery
    <3>1. ASSUME NEW consumer \in Consumers, ClaimNext(consumer) PROVE UNCHANGED Budget
      BY <3>1 DEF ClaimNext
    <3>2. CASE \E d \in DeliveryIds : Post(d) \/ CompleteDelivery(d)
      BY <3>2 DEF Post, CompleteDelivery, Budget, Fault
    <3>3. CASE \E d \in DeliveryIds : FailDelivery(d) \/ LoseDelivery(d) \/ ReleaseDelivery(d)
      BY <3>3 DEF FailDelivery, LoseDelivery, ReleaseDelivery, Budget, Fault
    <3>4. CASE \E c \in CardIds : RetryDelivery(c) \/ RecoverDelivery(c)
      BY <3>4 DEF RetryDelivery, RecoverDelivery, Budget, Fault
    <3>5. CASE RequeueUnanswered
      BY <3>5 DEF RequeueUnanswered, Budget, Fault
    <3> QED BY <2>2, <3>1, <3>2, <3>3, <3>4, <3>5 DEF Delivery, Budget
  <2>3. CASE Retraction \/ Clock
    BY <2>3 DEF Retraction, Clock, ClaimRetraction, DeleteMessage, CompleteRetraction,
       FailRetraction, RowAges, CardAges, RetractionAges, Budget, Fault
  <2>4. CASE Reader
    BY <2>4 DEF Reader, Press, ResolveQueueView, SelectAgent
  <2>5. CASE Ledger
    BY <2>5 DEF Ledger, BeginPass, RecordPass, FailPass, ReviseTask, Replan, Budget, Fault
  <2> QED BY <2>1, <2>2, <2>3, <2>4, <2>5 DEF Next
<1> QED BY <1>1, <1>2, <1>3, <1>4, <1>5

LEMMA TasksTyped ==
    ASSUME TypeInv, Next
    PROVE  task' \in [Tasks -> [open : BOOLEAN, version : Nat]]
<1>1. task \in [Tasks -> [open : BOOLEAN, version : Nat]]
  BY DEF TypeInv, TypeOK
<1>2. ASSUME NEW t, NEW action, task' = [task EXCEPT ![t] = AnsweredTask(task[t], action)]
      PROVE  task' \in [Tasks -> [open : BOOLEAN, version : Nat]]
  <2>1. \A u \in Tasks : AnsweredTask(task[u], action) \in [open : BOOLEAN, version : Nat]
    BY <1>1 DEF AnsweredTask
  <2> QED BY <1>1, <1>2, <2>1
<1>3. ASSUME NEW t \in Tasks, task' = [task EXCEPT ![t].version = @ + 1]
      PROVE  task' \in [Tasks -> [open : BOOLEAN, version : Nat]]
  <2>1. task[t].version + 1 \in Nat
    BY <1>1
  <2> QED BY <1>1, <1>3, <2>1
<1>4. CASE PollHolds \/ Schedule \/ Delivery \/ Retraction \/ Clock
  <2>1. PollHolds \/ Schedule \/ RequeueUnanswered => UNCHANGED task
    BY DEF PollHolds, Schedule, RequeueUnanswered
  <2>2. \A consumer \in Consumers : ClaimNext(consumer) => UNCHANGED task
    BY DEF ClaimNext
  <2>3. \A d \in DeliveryIds : Post(d) \/ CompleteDelivery(d) => UNCHANGED task
    BY DEF Post, CompleteDelivery
  <2>4. \A d \in DeliveryIds :
          FailDelivery(d) \/ LoseDelivery(d) \/ ReleaseDelivery(d) => UNCHANGED task
    BY DEF FailDelivery, LoseDelivery, ReleaseDelivery
  <2>5. \A c \in CardIds : RetryDelivery(c) \/ RecoverDelivery(c) => UNCHANGED task
    BY DEF RetryDelivery, RecoverDelivery
  <2>6. Retraction => UNCHANGED task
    BY DEF Retraction, ClaimRetraction, DeleteMessage, CompleteRetraction, FailRetraction
  <2>7. Clock => UNCHANGED task
    BY DEF Clock, RowAges, CardAges, RetractionAges
  <2>8. Delivery => UNCHANGED task
    BY <2>1, <2>2, <2>3, <2>4, <2>5 DEF Delivery
  <2> QED BY <1>1, <1>4, <2>1, <2>6, <2>7, <2>8
<1>5. CASE Reader
  <2>1. ASSUME NEW d \in DeliveryIds, NEW action \in Actions, Press(d, action)
        PROVE  \E t : task' = [task EXCEPT ![t] = AnsweredTask(task[t], action)]
    BY <2>1 DEF Press
  <2>2. ASSUME NEW c \in CardIds, NEW consumer \in Consumers, NEW action \in Actions,
               ResolveQueueView(c, consumer, action)
        PROVE  \E t : task' = [task EXCEPT ![t] = AnsweredTask(task[t], action)]
    BY <2>2 DEF ResolveQueueView
  <2>3. ASSUME NEW d \in DeliveryIds, NEW answered \in BOOLEAN, SelectAgent(d, answered)
        PROVE  UNCHANGED task
    BY <2>3 DEF SelectAgent
  <2> QED BY <1>1, <1>2, <1>5, <2>1, <2>2, <2>3 DEF Reader
<1>6. CASE Ledger
  <2>1. UNCHANGED task
        \/ \E t \in Tasks : task' = [task EXCEPT ![t].version = @ + 1]
    BY <1>6 DEF Ledger, BeginPass, RecordPass, FailPass, ReviseTask, Replan
  <2> QED BY <1>1, <1>3, <2>1
<1> QED BY <1>4, <1>5, <1>6 DEF Next

LEMMA HoldsTyped ==
    ASSUME TypeInv, Next
    PROVE  hold' \in [Tasks -> HoldRows]
<1>1. hold \in [Tasks -> HoldRows] /\ wf \in [Tasks -> Rows]
  BY DEF TypeInv, TypeOK
<1>2. CASE PollHolds
  <2>1. \A t \in Tasks : /\ [hold[t] EXCEPT !.status = "released"] \in HoldRows
                         /\ [hold[t] EXCEPT !.status = "cancelled"] \in HoldRows
                         /\ hold[t] \in HoldRows
    BY <1>1 DEF HoldRows
  <2>2. PICK met : 
          LET held   == {t \in Tasks : hold[t].status = "active"}
              ending == {t \in held : CurrentHold(t) /\ (wf[t].timer = 0 \/ t \in met)}
          IN hold' = [t \in Tasks |->
                        IF t \in ending THEN [hold[t] EXCEPT !.status = "released"]
                        ELSE IF t \in held /\ ~CurrentHold(t)
                        THEN [hold[t] EXCEPT !.status = "cancelled"]
                        ELSE hold[t]]
    BY <1>2 DEF PollHolds
  <2> QED BY <2>1, <2>2
<1>3. ASSUME NEW d \in DeliveryIds, NEW action \in Actions, Press(d, action)
      PROVE  hold' \in [Tasks -> HoldRows]
  <2> DEFINE t == cards[deliveries[d].card].task
  <2>1. deliveries[d].card \in CardIds /\ cards[deliveries[d].card].status # "unmade"
    BY <1>3 DEF Press, Opens, TypeInv, TypeOK, DeliveryRows
  <2>2. t \in Tasks
    BY <2>1 DEF TypeInv, MadeCardsHaveTasks
  <2>3. wf[t].task_version \in Nat /\ wf[t].version + 1 \in Nat
    BY <1>1, <2>2 DEF Rows
  <2>4. hold' = IF action = "until_meeting"
                THEN [hold EXCEPT ![t] = [status |-> "active",
                                          task_version |-> wf[t].task_version,
                                          version |-> wf[t].version + 1]]
                ELSE hold
    BY <1>3 DEF Press
  <2> HIDE DEF t
  <2> QED BY <1>1, <2>2, <2>3, <2>4 DEF HoldRows
<1>4. ASSUME NEW c \in CardIds, NEW consumer \in Consumers, NEW action \in Actions,
             ResolveQueueView(c, consumer, action)
      PROVE  UNCHANGED hold
  BY <1>4 DEF ResolveQueueView
<1>5. ASSUME NEW d \in DeliveryIds, NEW answered \in BOOLEAN, SelectAgent(d, answered)
      PROVE  UNCHANGED hold
  BY <1>5 DEF SelectAgent
<1>6. CASE Schedule \/ Delivery \/ Retraction \/ Ledger \/ Clock
  <2>1. UNCHANGED hold
    BY <1>6 DEF Schedule, Delivery, Retraction, Ledger, Clock, ClaimNext, Post,
       CompleteDelivery, FailDelivery, LoseDelivery, ReleaseDelivery, RetryDelivery,
       RecoverDelivery, RequeueUnanswered, ClaimRetraction, DeleteMessage, CompleteRetraction,
       FailRetraction, BeginPass, RecordPass, FailPass, ReviseTask, Replan, RowAges, CardAges,
       RetractionAges
  <2> QED BY <1>1, <2>1
<1> QED BY <1>1, <1>2, <1>3, <1>4, <1>5, <1>6 DEF Next, Reader

LEMMA SweptRetractionsTyped ==
    ASSUME TypeInv
    PROVE  SweptRetractions \in [CardIds -> RetractionRows]
<1>1. \A c \in CardIds : /\ retractions[c] \in RetractionRows
                         /\ cards[c].lease \in DeliveryIds \cup {None}
  BY DEF TypeInv, TypeOK, CardRows
<1>2. \A c \in CardIds :
        [state |-> "pending", attempts |-> 0, ref |-> cards[c].lease, due |-> FALSE]
          \in RetractionRows
  BY <1>1 DEF RetractionRows, RetractionStates
<1> QED BY <1>1, <1>2 DEF SweptRetractions

LEMMA FailureTyped ==
    ASSUME NEW r \in RetractionRows
    PROVE  RetractionAfterFailure(r) \in RetractionRows
<1> DEFINE state == IF r.attempts >= 3 THEN "abandoned" ELSE "pending"
<1>1. state \in RetractionStates
  BY DEF RetractionStates
<1>2. RetractionAfterFailure(r) = [r EXCEPT !.state = state, !.due = FALSE]
  BY DEF RetractionAfterFailure
<1> HIDE DEF state
<1> QED BY <1>1, <1>2 DEF RetractionRows

LEMMA RetractionsTyped ==
    ASSUME TypeInv, Next
    PROVE  retractions' \in [CardIds -> RetractionRows]
<1>1. retractions \in [CardIds -> RetractionRows]
  BY DEF TypeInv, TypeOK
<1>2. CASE ClaimRetraction
  <2>1. RecoveredRetractions \in [CardIds -> RetractionRows]
    BY <1>1, FailureTyped DEF RecoveredRetractions
  <2> DEFINE table == RecoveredRetractions
             ready == {c \in CardIds : table[c].state = "pending" /\ table[c].attempts < 3}
  <2>2. CASE retractions' = table
    BY <2>1, <2>2
  <2>3. ASSUME NEW c \in ready,
               retractions' = [table EXCEPT ![c].state = "delivering",
                                            ![c].attempts = @ + 1, ![c].due = FALSE]
        PROVE  retractions' \in [CardIds -> RetractionRows]
    <3>1. table[c] \in RetractionRows /\ table[c].attempts < 3
      BY <2>1
    <3> DEFINE r == [table[c] EXCEPT !.state = "delivering",
                                     !.attempts = table[c].attempts + 1, !.due = FALSE]
    <3>2. table[c].attempts + 1 \in 0..3
      BY <3>1 DEF RetractionRows
    <3>3. r \in RetractionRows
      BY <3>1, <3>2 DEF RetractionRows, RetractionStates
    <3>4. retractions' = [table EXCEPT ![c] = r]
      BY <2>3
    <3> HIDE DEF r, table
    <3> QED BY <2>1, <3>3, <3>4 DEF table
  <2> QED BY <1>2, <2>2, <2>3 DEF ClaimRetraction
<1>3. ASSUME NEW c \in CardIds,
             CompleteRetraction(c) \/ FailRetraction(c) \/ RetractionAges(c)
      PROVE  retractions' \in [CardIds -> RetractionRows]
  <2>1. CASE CompleteRetraction(c)
    BY <1>1, <2>1 DEF CompleteRetraction, RetractionRows, RetractionStates
  <2>2. CASE FailRetraction(c)
    BY <1>1, <2>2, FailureTyped DEF FailRetraction
  <2>3. CASE RetractionAges(c)
    BY <1>1, <2>3 DEF RetractionAges, RetractionRows
  <2> QED BY <1>3, <2>1, <2>2, <2>3
<1>4. \/ retractions' \in {retractions, SweptRetractions}
      \/ ClaimRetraction
      \/ \E c \in CardIds : CompleteRetraction(c) \/ FailRetraction(c) \/ RetractionAges(c)
  BY DEF Next, PollHolds, Schedule, Delivery, Retraction, Reader, Ledger, Clock, ClaimNext, Post,
     CompleteDelivery, FailDelivery, LoseDelivery, ReleaseDelivery, RetryDelivery,
     RecoverDelivery, RequeueUnanswered, DeleteMessage, Press, ResolveQueueView, SelectAgent,
     BeginPass, RecordPass, FailPass, ReviseTask, Replan, RowAges, CardAges
<1> QED BY <1>1, <1>2, <1>3, <1>4, SweptRetractionsTyped

-----------------------------------------------------------------------------
(* The inductive invariant                                                 *)

CardsInv == /\ TypeInv
            /\ MadeInOrder /\ OneActiveCard
            /\ LeasesFollowCards /\ OneNewestLease
            /\ CeilingHeld

\* A card that is made is pending, and asks about a task.
Arises(x, y) == /\ x.status = "unmade"
                /\ y \in CardRows /\ y.status = "pending" /\ y.task \in Tasks

\* The lease that claim_next hands out is the only one at the card's version,
\* and shows the row the card was made from.
LEMMA LeaseFollows ==
    ASSUME TypeInv, NEW consumer \in Consumers, NEW c \in CardIds, NEW d \in DeliveryIds,
           TakesLease(consumer, c, d)
    PROVE  /\ cards' = [e \in CardIds |-> cards'[e]]
           /\ \A e \in CardIds : Follows(cards[e], cards'[e])
           /\ \A e \in CardIds \ {c} : cards'[e] = LeaseTable[e]
           /\ cards'[c].version > cards[c].version
           /\ cards'[c].kind = LeaseTable[c].kind /\ cards'[c].consumer = consumer
           /\ deliveries' \in [DeliveryIds -> DeliveryRows]
           /\ \A e \in DeliveryIds \ {d} : deliveries'[e] = deliveries[e]
           /\ deliveries'[d].card = c /\ deliveries'[d].stage = "held"
           /\ deliveries'[d].version = cards'[c].version
           /\ deliveries'[d].shows = cards'[c].workflow_version
<1> DEFINE x == LeaseTable[c]
           y == [x EXCEPT !.status = "delivering", !.version = x.version + 1,
                          !.lease = d, !.consumer = consumer, !.due = FALSE]
           lease == [card |-> c, version |-> x.version + 1,
                     shows |-> wf[x.task].version, stage |-> "held"]
<1>1. /\ \A e \in CardIds : Turned(cards[e], LeaseTable[e]) /\ cards[e] \in CardRows
      /\ deliveries \in [DeliveryIds -> DeliveryRows]
      /\ wf \in [Tasks -> Rows]
  BY LeaseTableTurned DEF TypeInv, TypeOK
<1>2. /\ x \in CardRows /\ x.version \in Nat /\ x.version + 1 \in Nat
      /\ x.version + 1 > x.version /\ cards[c].version \in Nat
      /\ x.status = "pending"
  BY <1>1 DEF Turned, Follows, CardRows, TakesLease
<1>3. /\ cards[c].status \in Active /\ x.task \in Tasks
      /\ x.workflow_version = wf[x.task].version
  BY <1>2, PendingIsCurrent
<1>4. cards' = [LeaseTable EXCEPT ![c] = y] /\ deliveries' = [deliveries EXCEPT ![d] = lease]
  BY DEF TakesLease
<1>5. /\ y \in CardRows /\ y.version = x.version + 1 /\ y.kind = x.kind
      /\ y.consumer = consumer /\ y.workflow_version = x.workflow_version
      /\ y.task = x.task /\ y.status = "delivering"
  BY <1>2 DEF CardRows, CardStatuses, Active
<1>6. lease \in DeliveryRows
  BY <1>1, <1>2, <1>3 DEF DeliveryRows, Rows
<1>7. lease.card = c /\ lease.stage = "held" /\ lease.version = x.version + 1
      /\ lease.shows = x.workflow_version
  BY <1>3
<1>8. Follows(cards[c], y) /\ y.version > cards[c].version
  <2>1. Follows(cards[c], x)
    BY <1>1 DEF Turned
  <2>2. y.version > cards[c].version
    BY <1>2, <1>5, <2>1 DEF Follows
  <2> QED BY <1>2, <1>3, <1>5, <2>1, <2>2 DEF Follows, Active
<1> HIDE DEF y, lease
<1>9. /\ cards' = [e \in CardIds |-> cards'[e]]
      /\ \A e \in CardIds \ {c} : cards'[e] = LeaseTable[e]
      /\ cards'[c] = y
  BY <1>4 DEF LeaseTable
<1>10. /\ deliveries' \in [DeliveryIds -> DeliveryRows]
       /\ \A e \in DeliveryIds \ {d} : deliveries'[e] = deliveries[e]
       /\ deliveries'[d] = lease
  BY <1>1, <1>4, <1>6
<1>11. \A e \in CardIds : Follows(cards[e], cards'[e])
  BY <1>1, <1>8, <1>9 DEF Turned
<1> QED BY <1>5, <1>7, <1>8, <1>9, <1>10, <1>11

LEMMA CardsStep ==
    ASSUME TypeInv, MadeInOrder, Next
    PROVE  /\ cards' = [c \in CardIds |-> cards'[c]]
           /\ \A c \in CardIds : \/ Follows(cards[c], cards'[c])
                                \/ Arises(cards[c], cards'[c])
<1>1. CASE CardsTurn
  BY <1>1 DEF CardsTurn, Turned
<1>2. CASE Schedule
  <2>1. PICK fresh \in SUBSET CardIds : \E owner : Schedules(fresh, owner)
    BY <1>2, ScheduleSchedules
  <2>2. PICK owner : Schedules(fresh, owner)
    BY <2>1
  <2>3. ASSUME NEW c \in CardIds
        PROVE  Follows(cards[c], cards'[c]) \/ Arises(cards[c], cards'[c])
    <3>1. CASE c \in fresh
      BY <2>2, <3>1, NewCardType DEF Schedules, Arises
    <3>2. CASE c \notin fresh
      BY <2>2, <3>2, SweptTurned DEF Schedules, Turned
    <3> QED BY <3>1, <3>2
  <2>4. cards' = [c \in CardIds |-> cards'[c]]
    BY <2>2 DEF Schedules
  <2> QED BY <2>3, <2>4
<1>3. ASSUME NEW consumer \in Consumers, NEW c \in CardIds, NEW d \in DeliveryIds,
             TakesLease(consumer, c, d)
      PROVE  /\ cards' = [e \in CardIds |-> cards'[e]]
             /\ \A e \in CardIds : Follows(cards[e], cards'[e])
  BY <1>3, LeaseFollows
<1> QED BY <1>1, <1>2, <1>3, CardsChange

LEMMA CardsTyped ==
    ASSUME TypeInv, MadeInOrder, Next
    PROVE  cards' \in [CardIds -> CardRows] /\ MadeCardsHaveTasks'
<1>1. \A c \in CardIds : cards'[c] \in CardRows
  BY CardsStep DEF Follows, Arises
<1>2. cards' \in [CardIds -> CardRows]
  BY <1>1, CardsStep
<1>3. MadeCardsHaveTasks'
  BY CardsStep DEF Follows, Arises, TypeInv, MadeCardsHaveTasks
<1> QED BY <1>2, <1>3

\* select_agent answers with the version it gave the card.
LEMMA SelectFollows ==
    ASSUME TypeInv, NEW d \in DeliveryIds, SelectAgent(d, TRUE)
    PROVE  /\ Issued(d) /\ deliveries[d].card \in CardIds
           /\ deliveries' \in [DeliveryIds -> DeliveryRows]
           /\ \A e \in DeliveryIds \ {d} : deliveries'[e] = deliveries[e]
           /\ deliveries'[d].card = deliveries[d].card
           /\ deliveries'[d].stage = deliveries[d].stage
           /\ deliveries[d].version = cards[deliveries[d].card].version
           /\ deliveries'[d].version = cards'[deliveries[d].card].version
           /\ cards'[deliveries[d].card].version > cards[deliveries[d].card].version
           /\ deliveries'[d].shows = cards'[deliveries[d].card].workflow_version
<1> DEFINE c == deliveries[d].card
           x == cards[c]
           t == x.task
           lease == [deliveries[d] EXCEPT !.version = x.version + 1,
                                          !.shows = wf[t].version + 1]
<1>1. /\ deliveries \in [DeliveryIds -> DeliveryRows] /\ deliveries[d] \in DeliveryRows
      /\ cards \in [CardIds -> CardRows] /\ wf \in [Tasks -> Rows]
  BY DEF TypeInv, TypeOK
<1>2. /\ deliveries[d].stage = "posted" /\ c # None /\ x.status = "delivered"
      /\ deliveries[d].version = x.version /\ wf[t].version = x.workflow_version
  BY DEF SelectAgent, Opens, CurrentCard
<1>3. /\ c \in CardIds /\ x \in CardRows /\ x.version + 1 \in Nat
      /\ x.version + 1 > x.version
  BY <1>1, <1>2 DEF DeliveryRows, CardRows
<1>4. t \in Tasks /\ wf[t].version + 1 \in Nat
  BY <1>1, <1>2, <1>3 DEF TypeInv, MadeCardsHaveTasks, Rows
<1>5. /\ cards' = [cards EXCEPT ![c] = [x EXCEPT !.version = x.version + 1,
                                               !.workflow_version = x.workflow_version + 1]]
      /\ deliveries' = [deliveries EXCEPT ![d] = lease]
  BY DEF SelectAgent
<1>6. /\ lease \in DeliveryRows /\ lease.card = c /\ lease.stage = deliveries[d].stage
      /\ lease.version = x.version + 1 /\ lease.shows = wf[t].version + 1
  BY <1>1, <1>3, <1>4 DEF DeliveryRows
<1>7. /\ cards'[c].version = x.version + 1
      /\ cards'[c].workflow_version = x.workflow_version + 1
  BY <1>1, <1>3, <1>5 DEF CardRows
<1> HIDE DEF lease
<1>8. /\ deliveries' \in [DeliveryIds -> DeliveryRows]
      /\ \A e \in DeliveryIds \ {d} : deliveries'[e] = deliveries[e]
      /\ deliveries'[d] = lease
  BY <1>1, <1>5, <1>6
<1> QED BY <1>2, <1>3, <1>6, <1>7, <1>8 DEF Issued

LEMMA LeasesTyped ==
    ASSUME TypeInv, Next
    PROVE  deliveries' \in [DeliveryIds -> DeliveryRows] /\ UnissuedAreBlank'
<1>0. UnissuedAreBlank
  BY DEF TypeInv
<1>1. CASE DeliveriesKept
  BY <1>0, <1>1 DEF DeliveriesKept, UnissuedAreBlank, Issued
<1>2. ASSUME NEW consumer \in Consumers, NEW c \in CardIds, NEW d \in DeliveryIds,
             TakesLease(consumer, c, d)
      PROVE  deliveries' \in [DeliveryIds -> DeliveryRows] /\ UnissuedAreBlank'
  <2>1. /\ deliveries' \in [DeliveryIds -> DeliveryRows]
        /\ \A e \in DeliveryIds \ {d} : deliveries'[e] = deliveries[e]
        /\ deliveries'[d].stage = "held"
    BY <1>2, LeaseFollows
  <2> QED BY <1>0, <2>1 DEF UnissuedAreBlank, Issued
<1>3. ASSUME NEW d \in DeliveryIds, SelectAgent(d, TRUE)
      PROVE  deliveries' \in [DeliveryIds -> DeliveryRows] /\ UnissuedAreBlank'
  <2>1. /\ deliveries' \in [DeliveryIds -> DeliveryRows]
        /\ \A e \in DeliveryIds \ {d} : deliveries'[e] = deliveries[e]
        /\ deliveries'[d].stage = deliveries[d].stage /\ Issued(d)
    BY <1>3, SelectFollows
  <2> QED BY <1>0, <2>1 DEF UnissuedAreBlank, Issued
<1> QED BY <1>1, <1>2, <1>3, LeasesChange

-----------------------------------------------------------------------------
(* The parts of the invariant, one by one                                  *)

LEMMA TypeStep ==
    ASSUME TypeInv, MadeInOrder, Next
    PROVE  TypeInv'
  BY RowsKept, CountersTyped, TasksTyped, HoldsTyped, RetractionsTyped, CardsTyped,
     LeasesTyped DEF TypeInv, TypeOK, RowsInv

LEMMA OrderStep ==
    ASSUME TypeInv, MadeInOrder, Next
    PROVE  MadeInOrder'
<1>1. \A c \in CardIds : \A b \in 1..c : b \in CardIds
  BY CardsAssumption DEF CardIds
<1>2. ASSUME NEW c \in CardIds, cards[c].status # "unmade"
      PROVE  cards'[c].status # "unmade"
  BY <1>2, CardsStep DEF Follows, Arises
<1>3. CASE Schedule
  <2>1. PICK fresh \in SUBSET CardIds : \E owner : Schedules(fresh, owner)
    BY <1>3, ScheduleSchedules
  <2>2. PICK owner : Schedules(fresh, owner)
    BY <2>1
  <2>3. \A c \in fresh : cards'[c].status # "unmade"
    BY <2>2, NewCardType DEF Schedules
  <2>4. ASSUME NEW c \in CardIds, NEW b \in 1..c, cards'[c].status # "unmade"
        PROVE  cards'[b].status # "unmade"
    <3>1. CASE c \in fresh
      <4>1. b \in 1..(c - 1) \/ b = c
        BY CardsAssumption DEF CardIds
      <4>2. b \in fresh \/ cards[b].status # "unmade"
        BY <2>2, <3>1, <4>1 DEF Schedules
      <4> QED BY <1>1, <1>2, <2>3, <4>2
    <3>2. CASE c \notin fresh
      <4>1. cards[c].status # "unmade"
        BY <2>2, <2>4, <3>2, SweptTurned DEF Schedules, Turned, Follows
      <4> QED BY <1>1, <1>2, <4>1 DEF MadeInOrder
    <3> QED BY <3>1, <3>2
  <2> QED BY <2>4 DEF MadeInOrder
<1>4. CASE \A c \in CardIds : Follows(cards[c], cards'[c])
  <2>1. \A c \in CardIds : cards'[c].status = "unmade" <=> cards[c].status = "unmade"
    BY <1>4 DEF Follows
  <2> QED BY <1>1, <2>1 DEF MadeInOrder
<1>5. Schedule \/ \A c \in CardIds : Follows(cards[c], cards'[c])
  BY CardsChange, LeaseFollows DEF CardsTurn, Turned
<1> QED BY <1>3, <1>4, <1>5

LEMMA OneActiveStep ==
    ASSUME TypeInv, MadeInOrder, OneActiveCard, Next
    PROVE  OneActiveCard'
<1>1. CASE Schedule
  <2>1. PICK fresh \in SUBSET CardIds : \E owner : Schedules(fresh, owner)
    BY <1>1, ScheduleSchedules
  <2>2. PICK owner : Schedules(fresh, owner)
    BY <2>1
  <2>3. \A c \in fresh : cards'[c].task = owner[c]
    BY <2>2, NewCardType DEF Schedules
  <2>4. \A c \in CardIds \ fresh :
          /\ cards'[c] = SweptCards[c]
          /\ cards'[c].task = cards[c].task
          /\ cards'[c].status \in Active => cards[c].status \in Active
    BY <2>2, SweptTurned DEF Schedules, Turned, Follows
  <2>5. ASSUME NEW b \in fresh, NEW c \in CardIds \ fresh, cards'[c].status \in Active
        PROVE  cards'[b].task # cards'[c].task
    <3>1. ~HasCard(owner[b])
      BY <2>2 DEF Schedules
    <3>2. HasCard(cards'[c].task)
      BY <2>4, <2>5, SweptTurned DEF HasCard
    <3> QED BY <2>3, <3>1, <3>2
  <2>6. \A b, c \in fresh : cards'[b].task = cards'[c].task => b = c
    BY <2>2, <2>3 DEF Schedules
  <2>7. \A b, c \in CardIds \ fresh :
          /\ cards'[b].status \in Active /\ cards'[c].status \in Active
          /\ cards'[b].task = cards'[c].task
          => b = c
    BY <2>4 DEF OneActiveCard
  <2> QED BY <2>5, <2>6, <2>7 DEF OneActiveCard
<1>2. CASE \A c \in CardIds : Follows(cards[c], cards'[c])
  BY <1>2 DEF OneActiveCard, Follows
<1>3. Schedule \/ \A c \in CardIds : Follows(cards[c], cards'[c])
  BY CardsChange, LeaseFollows DEF CardsTurn, Turned
<1> QED BY <1>1, <1>2, <1>3

\* The lease of a card made earlier is at an earlier version of it, or still
\* at the card's version and right about its row.
LEMMA OldLeasesStand ==
    ASSUME TypeInv, MadeInOrder, LeasesFollowCards, Next, NEW d \in DeliveryIds, Issued(d)
    PROVE  LET c == deliveries[d].card
           IN /\ c # None
              /\ cards'[c].status # "unmade"
              /\ deliveries[d].version <= cards'[c].version
              /\ deliveries[d].version = cards'[c].version =>
                   /\ deliveries[d].version = cards[c].version
                   /\ deliveries[d].shows = cards'[c].workflow_version
<1> DEFINE c == deliveries[d].card
<1>1. /\ c # None /\ cards[c].status # "unmade"
      /\ deliveries[d].version <= cards[c].version
      /\ deliveries[d].version = cards[c].version =>
           deliveries[d].shows = cards[c].workflow_version
  BY DEF LeasesFollowCards
<1>2. c \in CardIds /\ deliveries[d].version \in Nat /\ cards[c].version \in Nat
  BY <1>1 DEF TypeInv, TypeOK, DeliveryRows, CardRows
<1>3. Follows(cards[c], cards'[c])
  BY <1>1, <1>2, CardsStep DEF Arises
<1>4. cards'[c].version \in Nat
  BY <1>3 DEF Follows, CardRows
<1> QED BY <1>1, <1>2, <1>3, <1>4 DEF Follows

LEMMA LeasesStep ==
    ASSUME TypeInv, MadeInOrder, LeasesFollowCards, OneNewestLease, Next
    PROVE  LeasesFollowCards' /\ OneNewestLease'
<1>1. CASE DeliveriesKept
  <2>1. \A d \in DeliveryIds :
          /\ Issued(d)' <=> Issued(d)
          /\ deliveries'[d].card = deliveries[d].card
          /\ deliveries'[d].version = deliveries[d].version
          /\ deliveries'[d].shows = deliveries[d].shows
    BY <1>1 DEF DeliveriesKept, Issued
  <2>2. LeasesFollowCards'
    BY <2>1, OldLeasesStand DEF LeasesFollowCards
  <2>3. \A d \in DeliveryIds : NewestLease(d)' => NewestLease(d)
    BY <2>1, OldLeasesStand DEF NewestLease
  <2> QED BY <2>1, <2>2, <2>3 DEF OneNewestLease
<1>2. ASSUME NEW consumer \in Consumers, NEW c \in CardIds, NEW d \in DeliveryIds,
             TakesLease(consumer, c, d)
      PROVE  LeasesFollowCards' /\ OneNewestLease'
  <2>1. /\ \A e \in DeliveryIds \ {d} : deliveries'[e] = deliveries[e]
        /\ deliveries'[d].card = c /\ deliveries'[d].version = cards'[c].version
        /\ deliveries'[d].shows = cards'[c].workflow_version
        /\ cards'[c].version > cards[c].version
        /\ Follows(cards[c], cards'[c]) /\ deliveries'[d].stage = "held"
    BY <1>2, LeaseFollows
  <2>2. /\ c # None /\ cards'[c].status # "unmade" /\ Issued(d)'
        /\ cards'[c].version \in Nat /\ cards[c].version \in Nat
    <3>1. cards[c].status # "unmade" /\ cards[c] \in CardRows
      BY <1>2, PendingIsCurrent DEF TakesLease, TypeInv, TypeOK, Active
    <3>2. c # None
      BY CardsAssumption DEF CardIds, None
    <3> QED BY <2>1, <3>1, <3>2 DEF Follows, Issued, CardRows
  <2>3. LeasesFollowCards'
    BY <2>1, <2>2, OldLeasesStand DEF LeasesFollowCards, Issued
  <2>4. \A e \in DeliveryIds \ {d} : NewestLease(e)' => NewestLease(e)
    BY <2>1, OldLeasesStand DEF NewestLease, Issued
  <2>5. ASSUME NEW e \in DeliveryIds \ {d}, NewestLease(e)', deliveries'[e].card = c
        PROVE  FALSE
    <3>1. Issued(e) /\ deliveries[e].card = c /\ deliveries[e].version = cards'[c].version
      BY <2>1, <2>5 DEF NewestLease, Issued
    <3>2. deliveries[e].version <= cards[c].version /\ deliveries[e].version \in Nat
      BY <3>1 DEF LeasesFollowCards, TypeInv, TypeOK, DeliveryRows
    <3> QED BY <2>1, <2>2, <3>1, <3>2
  <2>6. OneNewestLease'
    BY <2>1, <2>4, <2>5 DEF OneNewestLease
  <2> QED BY <2>3, <2>6
<1>3. ASSUME NEW d \in DeliveryIds, SelectAgent(d, TRUE)
      PROVE  LeasesFollowCards' /\ OneNewestLease'
  <2> DEFINE c == deliveries[d].card
  <2>1. /\ \A e \in DeliveryIds \ {d} : deliveries'[e] = deliveries[e]
        /\ deliveries'[d].card = c /\ deliveries'[d].version = cards'[c].version
        /\ deliveries'[d].shows = cards'[c].workflow_version
        /\ deliveries'[d].stage = deliveries[d].stage
        /\ cards'[c].version > cards[c].version
        /\ Issued(d) /\ c \in CardIds
    BY <1>3, SelectFollows
  <2>2. /\ c # None /\ cards'[c].status # "unmade"
        /\ cards'[c].version \in Nat /\ cards[c].version \in Nat
    <3>1. cards'[c] \in CardRows /\ cards[c] \in CardRows
      BY <2>1, CardsTyped DEF TypeInv, TypeOK
    <3> QED BY <2>1, <3>1, OldLeasesStand DEF CardRows
  <2>3. LeasesFollowCards'
    BY <2>1, <2>2, OldLeasesStand DEF LeasesFollowCards, Issued
  <2>4. \A e \in DeliveryIds \ {d} : NewestLease(e)' => NewestLease(e)
    BY <2>1, OldLeasesStand DEF NewestLease, Issued
  <2>5. ASSUME NEW e \in DeliveryIds \ {d}, NewestLease(e)', deliveries'[e].card = c
        PROVE  FALSE
    <3>1. Issued(e) /\ deliveries[e].card = c /\ deliveries[e].version = cards'[c].version
      BY <2>1, <2>5 DEF NewestLease, Issued
    <3>2. deliveries[e].version <= cards[c].version /\ deliveries[e].version \in Nat
      BY <3>1 DEF LeasesFollowCards, TypeInv, TypeOK, DeliveryRows
    <3> QED BY <2>1, <2>2, <3>1, <3>2
  <2>6. OneNewestLease'
    BY <2>1, <2>4, <2>5 DEF OneNewestLease
  <2> QED BY <2>3, <2>6
<1> QED BY <1>1, <1>2, <1>3, LeasesChange

\* What a consumer holds is finite and, where nobody takes a lease, shrinks.
LEMMA HeldIsFinite ==
    ASSUME NEW table, NEW consumer, NEW kind
    PROVE  IsFiniteSet(Held(table, consumer, kind))
<1>1. 1 \in Int /\ MaxCards \in Int
  BY CardsAssumption
<1>2. IsFiniteSet(1..MaxCards)
  BY <1>1, FS_Interval
<1>3. IsFiniteSet(CardIds)
  BY <1>2 DEF CardIds
<1>4. Held(table, consumer, kind) \subseteq CardIds
  BY DEF Held
<1> QED BY <1>3, <1>4, FS_Subset

LEMMA HeldShrinks ==
    ASSUME NEW old, NEW new, NEW consumer, NEW kind,
           \A c \in CardIds : c \in Held(new, consumer, kind) => c \in Held(old, consumer, kind)
    PROVE  Cardinality(Held(new, consumer, kind)) <= Cardinality(Held(old, consumer, kind))
<1>1. Held(new, consumer, kind) \subseteq Held(old, consumer, kind)
  BY DEF Held
<1> QED BY <1>1, HeldIsFinite, FS_Subset

LEMMA CeilingsAreNumbers ==
    ASSUME NEW consumer \in Consumers, NEW kind
    PROVE  BandCeiling(consumer, kind) \in Nat
  BY CardsAssumption DEF BandCeiling

LEMMA CeilingStep ==
    ASSUME TypeInv, MadeInOrder, CeilingHeld, Next
    PROVE  CeilingHeld'
<1>1. CASE \A c \in CardIds :
             \/ Turned(cards[c], cards'[c])
             \/ ~Out(cards'[c])
  <2>1. ASSUME NEW consumer \in Consumers, NEW kind \in Kinds
        PROVE  Cardinality(Held(cards', consumer, kind)) <= BandCeiling(consumer, kind)
    <3>1. \A c \in CardIds :
            c \in Held(cards', consumer, kind) => c \in Held(cards, consumer, kind)
      BY <1>1 DEF Held, Turned, Follows, Out
    <3>2. Cardinality(Held(cards', consumer, kind))
            <= Cardinality(Held(cards, consumer, kind))
      BY <3>1, HeldShrinks
    <3>3. Cardinality(Held(cards, consumer, kind)) <= BandCeiling(consumer, kind)
      BY DEF CeilingHeld
    <3>4. /\ Cardinality(Held(cards', consumer, kind)) \in Nat
          /\ Cardinality(Held(cards, consumer, kind)) \in Nat
          /\ BandCeiling(consumer, kind) \in Nat
      BY HeldIsFinite, FS_CardinalityType, CeilingsAreNumbers
    <3> QED BY <3>2, <3>3, <3>4
  <2> QED BY <2>1 DEF CeilingHeld, Held, BandCeiling
<1>2. ASSUME NEW consumer \in Consumers, NEW c \in CardIds, NEW d \in DeliveryIds,
             TakesLease(consumer, c, d)
      PROVE  CeilingHeld'
  <2>0. /\ \A e \in CardIds \ {c} : cards'[e] = LeaseTable[e]
        /\ cards'[c].kind = LeaseTable[c].kind /\ cards'[c].consumer = consumer
        /\ \A e \in CardIds : Turned(cards[e], LeaseTable[e])
        /\ Fits(LeaseTable, consumer, LeaseTable[c].kind)
    <3>1. \A e \in CardIds : Turned(cards[e], LeaseTable[e])
      BY LeaseTableTurned
    <3>2. Fits(LeaseTable, consumer, LeaseTable[c].kind)
      BY <1>2 DEF TakesLease
    <3>3. /\ \A e \in CardIds \ {c} : cards'[e] = LeaseTable[e]
          /\ cards'[c].kind = LeaseTable[c].kind /\ cards'[c].consumer = consumer
      BY <1>2, LeaseFollows
    <3> QED BY <3>1, <3>2, <3>3
  <2>1. ASSUME NEW other \in Consumers, NEW kind \in Kinds
        PROVE  Cardinality(Held(cards', other, kind)) <= BandCeiling(other, kind)
    <3> DEFINE held == Held(LeaseTable, other, kind)
               after == Held(cards', other, kind)
    <3>1. /\ IsFiniteSet(held) /\ Cardinality(held) \in Nat
          /\ IsFiniteSet(after) /\ Cardinality(after) \in Nat
          /\ BandCeiling(other, kind) \in Nat
      BY HeldIsFinite, FS_CardinalityType, CeilingsAreNumbers
    <3>2. CASE other = consumer /\ Steers(LeaseTable[c].kind) = Steers(kind)
      <4>1. held = Held(LeaseTable, consumer, LeaseTable[c].kind)
            /\ BandCeiling(other, kind) = BandCeiling(consumer, LeaseTable[c].kind)
        BY <3>2 DEF Held, BandCeiling
      <4>2. Cardinality(held) < BandCeiling(other, kind)
        BY <2>0, <4>1 DEF Fits
      <4>3. after \subseteq held \cup {c}
        BY <2>0 DEF Held
      <4> HIDE DEF held, after
      <4>4. /\ IsFiniteSet(held \cup {c})
            /\ Cardinality(held \cup {c}) =
                 IF c \in held THEN Cardinality(held) ELSE Cardinality(held) + 1
        BY <3>1, FS_AddElement
      <4>5. Cardinality(after) <= Cardinality(held \cup {c})
        BY <4>3, <4>4, FS_Subset
      <4>6. Cardinality(held \cup {c}) <= BandCeiling(other, kind)
        BY <3>1, <4>2, <4>4
      <4> QED BY <3>1, <4>4, <4>5, <4>6 DEF after
    <3>3. CASE ~(other = consumer /\ Steers(LeaseTable[c].kind) = Steers(kind))
      <4>1. c \notin after
        BY <2>0, <3>3 DEF Held
      <4>2. \A e \in CardIds : e \in after => e \in held
        BY <2>0, <4>1 DEF Held
      <4>3. \A e \in CardIds : e \in held => e \in Held(cards, other, kind)
        BY <2>0 DEF Held, Turned, Follows, Out
      <4>4. Cardinality(after) <= Cardinality(Held(cards, other, kind))
        BY <4>2, <4>3, HeldShrinks
      <4>5. Cardinality(Held(cards, other, kind)) <= BandCeiling(other, kind)
        BY DEF CeilingHeld
      <4>6. Cardinality(Held(cards, other, kind)) \in Nat
        BY HeldIsFinite, FS_CardinalityType
      <4> HIDE DEF after
      <4> QED BY <3>1, <4>4, <4>5, <4>6 DEF after
    <3> QED BY <3>2, <3>3
  <2> QED BY <2>1 DEF CeilingHeld, Held, BandCeiling
<1>3. CASE Schedule
  <2>1. PICK fresh \in SUBSET CardIds : \E owner : Schedules(fresh, owner)
    BY <1>3, ScheduleSchedules
  <2>2. PICK owner : Schedules(fresh, owner)
    BY <2>1
  <2>3. \A c \in CardIds : Turned(cards[c], cards'[c]) \/ ~Out(cards'[c])
    BY <2>2, NewCardType, SweptTurned DEF Schedules, Out
  <2> QED BY <1>1, <2>3
<1>4. CASE CardsTurn
  BY <1>1, <1>4 DEF CardsTurn
<1> QED BY <1>2, <1>3, <1>4, CardsChange

-----------------------------------------------------------------------------
(* The theorems                                                            *)

LEMMA CardsInit == Init => CardsInv
<1> SUFFICES ASSUME Init PROVE CardsInv
  OBVIOUS
<1> DEFINE row == Scheduled(NoRow, 1, "awaiting_start", "plan")
<1>1. /\ row \in Rows /\ row.claim = NoClaim /\ row.status # "running"
      /\ row.last_claim = NoClaim
  <2>1. Settles(NoRow, row)
    BY NoRowType, ScheduledSettles
  <2>2. row.last_claim = NoClaim
    BY DEF Scheduled, Logged, Restarted, Moved, NoRow
  <2> QED BY <2>1, <2>2 DEF Settles
<1>2. wf = [t \in Tasks |-> row]
  BY DEF Init
<1> HIDE DEF row
<1>3. NoCard \in CardRows /\ NoCard.status = "unmade" /\ NoCard.status \notin Active
  BY DEF NoCard, CardRows, CardStatuses, Active, Resolutions, Kinds, Phases
<1>4. cards = [c \in CardIds |-> NoCard]
  BY DEF Init
<1>5. /\ results \in [ClaimIds -> ResultRows] /\ ResultsStand
  BY DEF Init, ResultRows, ResultsStand, Phases
<1>6. deliveries \in [DeliveryIds -> DeliveryRows]
  BY DEF Init, DeliveryRows
<1>7. /\ retractions \in [CardIds -> RetractionRows] /\ hold \in [Tasks -> HoldRows]
      /\ task \in [Tasks -> [open : BOOLEAN, version : Nat]]
  BY DEF Init, RetractionRows, RetractionStates, HoldRows
<1>8. polled \in BOOLEAN /\ inputs \in 0..MaxInputs /\ faults \in 0..MaxFaults
  <2>1. MaxInputs \in Nat /\ MaxFaults \in Nat
    BY CardsAssumption
  <2>2. polled = FALSE /\ inputs = MaxInputs /\ faults = MaxFaults
    BY DEF Init
  <2>3. inputs \in 0..MaxInputs /\ faults \in 0..MaxFaults
    BY <2>1, <2>2
  <2>4. polled \in BOOLEAN
    BY <2>2
  <2> QED BY <2>3, <2>4
<1>9. TypeOK
  BY <1>1, <1>2, <1>3, <1>4, <1>5, <1>6, <1>7, <1>8 DEF TypeOK
<1>10. RowsFollow
  BY <1>1, <1>2 DEF RowsFollow, Carries, NoClaim, None
<1>11. \A d \in DeliveryIds : ~Issued(d) /\ deliveries[d].card = None
  BY DEF Init, Issued
<1>12. MadeCardsHaveTasks /\ MadeInOrder /\ OneActiveCard
  BY <1>3, <1>4 DEF MadeCardsHaveTasks, MadeInOrder, OneActiveCard
<1>13. UnissuedAreBlank /\ LeasesFollowCards /\ OneNewestLease
  BY <1>11 DEF UnissuedAreBlank, LeasesFollowCards, OneNewestLease, NewestLease
<1>14. CeilingHeld
  <2>1. \A consumer, kind : Held(cards, consumer, kind) = {}
    BY <1>3, <1>4 DEF Held
  <2> QED BY <2>1, FS_EmptySet, CeilingsAreNumbers DEF CeilingHeld
<1> QED BY <1>5, <1>9, <1>10, <1>12, <1>13, <1>14 DEF CardsInv, TypeInv

LEMMA CardsInvStep == CardsInv /\ [Next]_vars => CardsInv'
<1> SUFFICES ASSUME CardsInv, [Next]_vars PROVE CardsInv'
  OBVIOUS
<1>1. CASE Next
  BY <1>1, TypeStep, OrderStep, OneActiveStep, LeasesStep, CeilingStep DEF CardsInv
<1>2. CASE UNCHANGED vars
  BY <1>2 DEF vars, CardsInv, TypeInv, TypeOK, RowsFollow, Carries, ResultsStand,
     MadeCardsHaveTasks, UnissuedAreBlank, Issued, MadeInOrder, OneActiveCard,
     LeasesFollowCards, OneNewestLease, NewestLease, CeilingHeld, Held, BandCeiling
<1> QED BY <1>1, <1>2

\* Whatever is asked, answered, lost, repeated or repaired, the tables hold
\* rows of their kind, every active card is the only one of its task, and a
\* lease never runs ahead of its card.
THEOREM CardsInvariant == Spec => []CardsInv
<1> QED BY CardsInit, CardsInvStep, PTL DEF Spec

THEOREM CardsTypes == Spec => []TypeOK
<1>1. CardsInv => TypeOK
  BY DEF CardsInv, TypeInv
<1> QED BY <1>1, CardsInvariant, PTL

\* A button that counts shows the row as it is: the card guard compares the
\* card's version, which every change of the card raises, and the state fence
\* the row's.
THEOREM CountingButtonsShowTheRow == Spec => []ButtonsShowTheRow
<1>1. CardsInv => ButtonsShowTheRow
  <2> SUFFICES ASSUME CardsInv, NEW d \in DeliveryIds,
                      deliveries[d].stage = "posted", Opens(d)
               PROVE  wf[cards[deliveries[d].card].task].version = deliveries[d].shows
    BY DEF ButtonsShowTheRow
  <2>1. deliveries[d].shows = cards[deliveries[d].card].workflow_version
    BY DEF CardsInv, LeasesFollowCards, Issued, Opens
  <2> QED BY <2>1 DEF Opens, CurrentCard
<1> QED BY <1>1, CardsInvariant, PTL

\* Of all the messages a task ever had, in whatever order they arrive, at most
\* one opens it.
THEOREM AtMostOneMessageOpens == Spec => []OneMessageOpens
<1>1. CardsInv => OneMessageOpens
  <2> SUFFICES ASSUME CardsInv, NEW d \in DeliveryIds, NEW e \in DeliveryIds,
                      deliveries[d].stage = "posted", Opens(d),
                      deliveries[e].stage = "posted", Opens(e),
                      cards[deliveries[d].card].task = cards[deliveries[e].card].task
               PROVE  d = e
    BY DEF OneMessageOpens
  <2>1. NewestLease(d) /\ NewestLease(e)
    BY DEF Opens, NewestLease, Issued
  <2>2. /\ deliveries[d].card \in CardIds /\ deliveries[e].card \in CardIds
        /\ cards[deliveries[d].card].status \in Active
        /\ cards[deliveries[e].card].status \in Active
    BY <2>1 DEF CardsInv, LeasesFollowCards, NewestLease, TypeInv, TypeOK, DeliveryRows, Opens,
       Active
  <2>3. deliveries[d].card = deliveries[e].card
    BY <2>2 DEF CardsInv, OneActiveCard
  <2> QED BY <2>1, <2>3 DEF CardsInv, OneNewestLease
<1> QED BY <1>1, CardsInvariant, PTL

\* No consumer ever holds more decisions, or more Steer cards, than its
\* ceiling, whichever of its leases expire, fail, are released or repaired.
THEOREM CeilingsHold == Spec => []CeilingHeld
<1>1. CardsInv => CeilingHeld
  BY DEF CardsInv
<1> QED BY <1>1, CardsInvariant, PTL
=============================================================================
