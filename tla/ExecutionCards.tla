---------------------------- MODULE ExecutionCards ----------------------------
(***************************************************************************)
(* The cards that put a gate of the execution ledger in front of a reader: *)
(* ExecutionCardService (src/foxhound/execution_cards.py).                 *)
(*                                                                         *)
(* A card is made for a row that asks something, leased to a consumer,     *)
(* posted by it to a chat, acknowledged, and answered by a button that     *)
(* carries the card's id and version.  Any of these calls may be lost,     *)
(* late or repeated; the ledger may move the row at any point in between;  *)
(* the card is then cancelled and its message retracted.                   *)
(*                                                                         *)
(* Every method is one BEGIN IMMEDIATE transaction and one action here.    *)
(* A delivery d is one lease of one card: the token the consumer holds,    *)
(* and, once posted, the message in the chat (its delivery_ref).           *)
(*                                                                         *)
(* Time.  due marks that the instant a card or a retraction waits for has  *)
(* come: the end of its lease, or an hour after its delivery.  The timer   *)
(* of a row is its snooze, its cooldown, or, while it runs, the time left  *)
(* before a Steer card may announce it.                                    *)
(***************************************************************************)
EXTENDS WorkflowRules

CONSTANTS
    Tasks,
    Announced,      \* tasks whose rows have steer_while_running = 1
    Consumers,      \* consumer digests; one works the queue view
    Ceiling,        \* [Consumers -> [decision : Nat, steer : Nat]]
    Actions,        \* bound: the reader's actions this instance exercises
    FirstOutcomes,  \* bound: the outcomes a pass records
    MaxCards,       \* bound: cards ever made
    MaxDeliveries,  \* bound: leases ever taken
    MaxClaims,      \* bound: passes over the tasks
    MaxInputs,      \* bound: reader, operator and source inputs
    MaxFaults       \* bound: lost, late and failed calls, failed passes

ASSUME CardsAssumption ==
    /\ IsFiniteSet(Tasks) /\ IsFiniteSet(Consumers) /\ 0 \notin Tasks
    /\ Announced \subseteq Tasks
    /\ Ceiling \in [Consumers -> [decision : Nat, steer : Nat]]
    /\ {MaxCards, MaxDeliveries, MaxClaims, MaxInputs, MaxFaults} \subseteq Nat

CardIds     == 1..MaxCards
DeliveryIds == 1..MaxDeliveries
ClaimIds    == 1..MaxClaims
None        == 0    \* a column that is NULL

VARIABLES
    task,           \* the tasks rows
    wf,             \* task_execution_workflows
    results,        \* task_execution_results, by the claim that recorded it
    cards,          \* execution_review_cards
    deliveries,     \* the leases handed out and the messages they became
    retractions,    \* execution_card_retractions
    hold,           \* the newest task_execution_owner_holds row of a task
    polled,         \* schedule() has polled the holds, the cards are next
    inputs, faults  \* inputs and faults left

vars == <<task, wf, results, cards, deliveries, retractions, hold, polled,
          inputs, faults>>

Kinds  == {"start", "plan_review", "external_review", "result_review", "steer"}
Active == {"pending", "delivering", "delivered"}
CardStatuses == Active \cup {"unmade", "resolved", "cancelled"}
Resolutions == {"none", "start", "snooze", "cancel", "approve", "revise",
                "discuss", "done", "reassign", "drop"}

NoCard ==
    [status |-> "unmade", kind |-> "start", task |-> None, task_version |-> 0,
     workflow_version |-> 0, phase |-> "plan", result |-> None, version |-> 0,
     lease |-> None, consumer |-> None, superseded |-> None, due |-> FALSE,
     resolution |-> "none"]

CardRows ==
    [status : CardStatuses, kind : Kinds, task : Tasks \cup {None},
     task_version : Nat, workflow_version : Nat, phase : Phases,
     result : ClaimIds \cup {None}, version : Nat,
     lease : DeliveryIds \cup {None},   \* claim token, then delivery_ref
     consumer : Consumers \cup {None}, superseded : DeliveryIds \cup {None},
     due : BOOLEAN, resolution : Resolutions]

\* held by its consumer, posted in the chat or removed from it, or lost with
\* its consumer; shows is the row version the message was rendered from.
DeliveryRows ==
    [card : CardIds \cup {None}, version : Nat, shows : Nat,
     stage : {"unissued", "held", "posted", "removed", "lost"}]

RetractionStates == {"none", "pending", "delivering", "completed", "abandoned"}
RetractionRows == [state : RetractionStates, attempts : 0..3,
                   ref : DeliveryIds \cup {None}, due : BOOLEAN]

ResultRows == [phase : Phases, outcome : Outcomes \cup {"none"},
               task : Tasks \cup {None}, task_version : Nat, version : Nat]

HoldRows == [status : {"none", "active", "released", "cancelled"},
             task_version : Nat, version : Nat]

TypeOK ==
    /\ task \in [Tasks -> [open : BOOLEAN, version : Nat]]
    /\ wf \in [Tasks -> Rows]
    /\ results \in [ClaimIds -> ResultRows]
    /\ cards \in [CardIds -> CardRows]
    /\ deliveries \in [DeliveryIds -> DeliveryRows]
    /\ retractions \in [CardIds -> RetractionRows]
    /\ hold \in [Tasks -> HoldRows]
    /\ polled \in BOOLEAN
    /\ inputs \in 0..MaxInputs
    /\ faults \in 0..MaxFaults

Init ==
    /\ task = [t \in Tasks |-> [open |-> TRUE, version |-> 1]]
    /\ wf = [t \in Tasks |-> Scheduled(NoRow, 1, "awaiting_start", "plan")]
    /\ results = [k \in ClaimIds |->
                    [phase |-> "plan", outcome |-> "none", task |-> None,
                     task_version |-> 0, version |-> 0]]
    /\ cards = [c \in CardIds |-> NoCard]
    /\ deliveries = [d \in DeliveryIds |->
                       [card |-> None, version |-> 0, shows |-> 0,
                        stage |-> "unissued"]]
    /\ retractions = [c \in CardIds |->
                        [state |-> "none", attempts |-> 0, ref |-> None,
                         due |-> FALSE]]
    /\ hold = [t \in Tasks |->
                 [status |-> "none", task_version |-> 0, version |-> 0]]
    /\ polled = FALSE
    /\ inputs = MaxInputs
    /\ faults = MaxFaults

Input(kind) == kind \in Actions /\ inputs > 0 /\ inputs' = inputs - 1
Fault == faults > 0 /\ faults' = faults - 1
Budget == <<inputs, faults>>

-----------------------------------------------------------------------------
(* Which card a row asks for, and whether a card is still that question    *)

ReviewOf(phase, outcome) ==
    CASE phase = "plan" /\ outcome = "awaiting_plan" -> "plan_review"
      [] phase = "execute" /\ outcome = "awaiting_external" -> "external_review"
      [] outcome \in {"completed", "declined", "ineligible"} -> "result_review"
      [] OTHER -> "start"

\* _kind_for_workflow: a gate that was never passed, or was stopped before,
\* asks to start; otherwise the last result decides.
KindForWorkflow(r) ==
    CASE r.status = "running" -> "steer"
      [] r.status \in {"awaiting_start", "parked"} -> "start"
      [] OTHER -> ReviewOf(r.phase, r.last_outcome)

StatusesOf(kind) ==
    CASE kind = "start"         -> {"awaiting_start", "snoozed", "parked"}
      [] kind = "steer"         -> {"running"}
      [] kind = "result_review" -> {"awaiting_review", "snoozed", "completed"}
      [] OTHER                  -> {"awaiting_review", "snoozed"}

TaskCurrent(t, version) == task[t].open /\ task[t].version = version

\* _current_card: the row is at the version, task version, phase and status
\* the card was made from, and a review still shows the result of that phase.
CurrentCard(card) ==
    LET r == wf[card.task]
        result == results[card.result]
    IN /\ TaskCurrent(card.task, card.task_version)
       /\ r.task_version = card.task_version
       /\ r.version = card.workflow_version
       /\ r.phase = card.phase
       /\ r.status \in StatusesOf(card.kind)
       /\ IF card.kind \in {"start", "steer"}
          THEN card.result = None
          ELSE /\ card.result # None
               /\ r.last_claim = card.result
               /\ result.task = card.task
               /\ result.task_version = card.task_version
               /\ result.version < card.workflow_version
               /\ result.phase = card.phase
               /\ ReviewOf(result.phase, result.outcome) = card.kind

StaleCards == {c \in CardIds : cards[c].status \in Active
                               /\ ~CurrentCard(cards[c])}

CancelledCard(c) ==
    [cards[c] EXCEPT !.status = "cancelled", !.version = @ + 1,
                     !.superseded = IF cards[c].status = "delivered"
                                    THEN cards[c].lease ELSE None,
                     !.lease = None, !.due = FALSE]

\* _cancel_stale, at the head of schedule, claim_next and requeue_unanswered.
SweptCards == [c \in CardIds |-> IF c \in StaleCards THEN CancelledCard(c)
                                 ELSE cards[c]]

\* Mutant: a stale card forgets its message.
SweptRetractionsLost == retractions

SweptRetractions ==
    [c \in CardIds |->
       IF c \in StaleCards /\ cards[c].status = "delivered"
       THEN [state |-> "pending", attempts |-> 0, ref |-> cards[c].lease,
             due |-> FALSE]
       ELSE retractions[c]]

-----------------------------------------------------------------------------
(* schedule: first the owner holds, then the cards                         *)

CurrentHold(t) == /\ TaskCurrent(t, hold[t].task_version)
                  /\ wf[t].task_version = hold[t].task_version
                  /\ wf[t].version = hold[t].version
                  /\ wf[t].status = "snoozed"

\* The reader waits for a meeting with the owner: a snooze with a backstop.
OwnerHeld(r) ==
    Logged([Restarted(r, "snoozed") EXCEPT !.phase = "plan",
                                           !.timer = SnoozeDelay], "snoozed")

HoldReleased(r) ==
    Logged([Restarted(r, "awaiting_start") EXCEPT !.phase = "plan"],
           "scheduled")

\* _poll_owner_holds: a stale hold is cancelled, an elapsed one released, and
\* so is one whose owner now has a meeting.  Each ends in a transaction of its
\* own, which looks at the hold again.
PollHolds ==
    /\ ~polled
    /\ \E met \in SUBSET {t \in Tasks : hold[t].status = "active"} :
         LET held    == {t \in Tasks : hold[t].status = "active"}
             ending  == {t \in held : CurrentHold(t)
                                      /\ (wf[t].timer = 0 \/ t \in met)}
         IN /\ hold' = [t \in Tasks |->
                          IF t \in ending
                          THEN [hold[t] EXCEPT !.status = "released"]
                          ELSE IF t \in held /\ ~CurrentHold(t)
                          THEN [hold[t] EXCEPT !.status = "cancelled"]
                          ELSE hold[t]]
            /\ wf' = [t \in Tasks |-> IF t \in ending THEN HoldReleased(wf[t])
                                      ELSE wf[t]]
    /\ polled' = TRUE
    /\ UNCHANGED <<task, results, cards, deliveries, retractions, Budget>>

HasCard(t) == \E c \in CardIds : SweptCards[c].status \in Active
                                 /\ SweptCards[c].task = t

\* A slow pass of an announced task, at most once per claim.
Announces(t) ==
    /\ t \in Announced
    /\ wf[t].timer = 0
    /\ ~\E c \in CardIds : /\ cards[c].task = t
                           /\ cards[c].kind = "steer"
                           /\ cards[c].workflow_version = wf[t].version

Asks(t) ==
    /\ TaskCurrent(t, wf[t].task_version)
    /\ \/ wf[t].status \in {"awaiting_start", "parked"}
       \/ wf[t].status = "snoozed" /\ wf[t].timer = 0
       \/ wf[t].status = "awaiting_review" /\ AsksReview(wf[t])
       \/ wf[t].status = "completed"
            /\ wf[t].last_outcome \in {"completed", "declined", "ineligible"}
       \/ wf[t].status = "running" /\ Announces(t)

NewCard(t) ==
    LET kind == KindForWorkflow(wf[t])
    IN [status |-> "pending", kind |-> kind, task |-> t,
        task_version |-> wf[t].task_version, workflow_version |-> wf[t].version,
        phase |-> wf[t].phase,
        result |-> IF kind \in {"start", "steer"} THEN None ELSE wf[t].last_claim,
        version |-> 1, lease |-> None, consumer |-> None, superseded |-> None,
        due |-> FALSE, resolution |-> "none"]

Made == {c \in CardIds : cards[c].status # "unmade"}

Schedule ==
    /\ polled
    /\ polled' = FALSE
    /\ LET asking == {t \in Tasks : Asks(t) /\ ~HasCard(t)}
           first  == Cardinality(Made) + 1
           fresh  == first..(first + Cardinality(asking) - 1)
       IN /\ fresh \subseteq CardIds
          /\ \E owner \in [fresh -> asking] :
               /\ \A t \in asking : \E c \in fresh : owner[c] = t
               /\ cards' = [c \in CardIds |-> IF c \in fresh
                                              THEN NewCard(owner[c])
                                              ELSE SweptCards[c]]
    /\ retractions' = SweptRetractions
    /\ UNCHANGED <<task, wf, results, deliveries, hold, Budget>>

-----------------------------------------------------------------------------
(* Delivery                                                                *)

Rank == [result_review |-> 0, plan_review |-> 1, external_review |-> 1,
         start |-> 2, steer |-> 3]

Foremost(table, c) ==
    /\ table[c].status = "pending"
    /\ \A e \in CardIds :
         table[e].status = "pending" =>
           \/ Rank[table[c].kind] < Rank[table[e].kind]
           \/ Rank[table[c].kind] = Rank[table[e].kind] /\ c <= e

Steers(kind) == kind = "steer"

\* _band: decision cards and Steer cards are counted apart.
Held(table, consumer, kind) ==
    {c \in CardIds : /\ table[c].status \in {"delivering", "delivered"}
                     /\ table[c].consumer = consumer
                     /\ Steers(table[c].kind) = Steers(kind)}

BandCeiling(consumer, kind) == IF Steers(kind) THEN Ceiling[consumer].steer
                               ELSE Ceiling[consumer].decision

Fits(table, consumer, kind) ==
    Cardinality(Held(table, consumer, kind)) < BandCeiling(consumer, kind)

\* An unacknowledged lease is over: the next lease has another version.
BackToPending(card) ==
    [card EXCEPT !.status = "pending", !.version = @ + 1, !.lease = None,
                 !.consumer = None, !.due = FALSE]

\* Mutant: a lease ends with its acknowledgement or not at all.
ExpiredNever(table) == {}

ExpiredLeases(table) == {c \in CardIds : table[c].status = "delivering"
                                         /\ table[c].due}

\* claim_next: cancel what is stale, take back expired leases, lease the card
\* that ranks first if its band has room.  It looks at no other card.
ClaimNext(consumer) ==
    LET swept == [c \in CardIds |->
                    IF c \in ExpiredLeases(SweptCards)
                    THEN BackToPending(SweptCards[c]) ELSE SweptCards[c]]
        first == {c \in CardIds : Foremost(swept, c)}
        fits  == {c \in first : Fits(swept, consumer, swept[c].kind)}
    IN /\ \/ /\ fits = {}
             /\ cards' = swept
             /\ UNCHANGED deliveries
          \/ \E c \in fits, d \in DeliveryIds :
               /\ deliveries[d].stage = "unissued"
               /\ \A e \in 1..(d - 1) : deliveries[e].stage # "unissued"
               /\ cards' = [swept EXCEPT
                              ![c].status = "delivering", ![c].version = @ + 1,
                              ![c].lease = d, ![c].consumer = consumer,
                              ![c].due = FALSE]
               /\ deliveries' = [deliveries EXCEPT
                                   ![d] = [card |-> c,
                                           version |-> swept[c].version + 1,
                                           shows |-> wf[swept[c].task].version,
                                           stage |-> "held"]]
       /\ retractions' = SweptRetractions
       /\ UNCHANGED <<task, wf, results, hold, polled, Budget>>

\* The consumer posts the message its lease entitles it to, however late.
Post(d) ==
    /\ deliveries[d].stage = "held"
    /\ deliveries' = [deliveries EXCEPT ![d].stage = "posted"]
    /\ UNCHANGED <<task, wf, results, cards, retractions, hold, polled, Budget>>

\* The lease d is the one its card names, at the version it was given.
Leased(d) ==
    LET c == deliveries[d].card
    IN /\ c # None
       /\ cards[c].status = "delivering"
       /\ cards[c].version = deliveries[d].version
       /\ cards[c].lease = d

\* A late acknowledgement is accepted until someone takes the lease back.
CompleteDelivery(d) ==
    /\ Leased(d)
    /\ deliveries[d].stage = "posted"
    /\ cards' = [cards EXCEPT ![deliveries[d].card].status = "delivered",
                              ![deliveries[d].card].superseded = None,
                              ![deliveries[d].card].due = FALSE]
    /\ UNCHANGED <<task, wf, results, deliveries, retractions, hold, polled,
                   Budget>>

\* The transport failed, whether or not the message got through.
FailDelivery(d) ==
    /\ Fault
    /\ Leased(d)
    /\ LET c == deliveries[d].card
       IN cards' = [cards EXCEPT ![c] = [BackToPending(cards[c]) EXCEPT
                                           !.consumer = cards[c].consumer]]
    /\ UNCHANGED <<task, wf, results, deliveries, retractions, hold, polled,
                   inputs>>

\* The consumer dies, or its acknowledgement never arrives.
LoseDelivery(d) ==
    /\ Fault
    /\ Leased(d)
    /\ deliveries' = [deliveries EXCEPT ![d].stage = "lost"]
    /\ UNCHANGED <<task, wf, results, cards, retractions, hold, polled, inputs>>

\* The surface is full: the lease is given back unposted.
ReleaseDelivery(d) ==
    /\ Fault
    /\ Leased(d)
    /\ deliveries[d].stage = "held"
    /\ cards' = [cards EXCEPT ![deliveries[d].card] = BackToPending(@)]
    /\ deliveries' = [deliveries EXCEPT ![d].stage = "removed"]
    /\ UNCHANGED <<task, wf, results, retractions, hold, polled, inputs>>

\* The operator repairs one delivery: acknowledged but never seen, or stalled.
RetryDelivery(c) ==
    /\ Input("repair")
    /\ cards[c].status = "delivered"
    /\ CurrentCard(cards[c])
    /\ cards' = [cards EXCEPT ![c].status = "pending", ![c].version = @ + 1,
                              ![c].lease = None, ![c].due = FALSE]
    /\ UNCHANGED <<task, wf, results, deliveries, retractions, hold, polled,
                   faults>>

RecoverDelivery(c) ==
    /\ Input("repair")
    /\ cards[c].status = "delivering"
    /\ cards[c].due
    /\ CurrentCard(cards[c])
    /\ cards' = [cards EXCEPT ![c] = BackToPending(@)]
    /\ UNCHANGED <<task, wf, results, deliveries, retractions, hold, polled,
                   faults>>

\* What went unanswered for an hour is asked again; the old message is handed
\* to whoever delivers the new one.
Requeued(card) ==
    [card EXCEPT !.status = "pending", !.version = @ + 1,
                 !.superseded = card.lease, !.lease = None, !.due = FALSE]

RequeueUnanswered ==
    LET again == {c \in CardIds : /\ SweptCards[c].status = "delivered"
                                  /\ SweptCards[c].kind # "steer"
                                  /\ SweptCards[c].due}
    IN /\ again # {} \/ StaleCards # {}
       /\ cards' = [c \in CardIds |-> IF c \in again
                                      THEN Requeued(SweptCards[c])
                                      ELSE SweptCards[c]]
       /\ retractions' = SweptRetractions
       /\ UNCHANGED <<task, wf, results, deliveries, hold, polled, Budget>>

-----------------------------------------------------------------------------
(* Retraction of the messages of cancelled cards                           *)

RetractionAfterFailure(r) ==
    [r EXCEPT !.state = IF r.attempts >= 3 THEN "abandoned" ELSE "pending",
              !.due = FALSE]

RecoveredRetractions ==
    [c \in CardIds |->
       IF retractions[c].state = "delivering" /\ retractions[c].due
       THEN RetractionAfterFailure(retractions[c]) ELSE retractions[c]]

\* Leases one obsolete message; each is tried three times at most.
ClaimRetraction ==
    LET table == RecoveredRetractions
        ready == {c \in CardIds : table[c].state = "pending"
                                  /\ table[c].attempts < 3}
    IN /\ \/ ready = {} /\ retractions' = table
          \/ \E c \in ready :
               retractions' = [table EXCEPT ![c].state = "delivering",
                                            ![c].attempts = @ + 1,
                                            ![c].due = FALSE]
       /\ UNCHANGED <<task, wf, results, cards, deliveries, hold, polled,
                      Budget>>

\* Any consumer that ever leased the retraction may delete the message.
DeleteMessage(c) ==
    /\ retractions[c].attempts > 0
    /\ deliveries[retractions[c].ref].stage = "posted"
    /\ deliveries' = [deliveries EXCEPT ![retractions[c].ref].stage = "removed"]
    /\ UNCHANGED <<task, wf, results, cards, retractions, hold, polled, Budget>>

\* Only the newest lease of a retraction can end it.
CompleteRetraction(c) ==
    /\ retractions[c].state = "delivering"
    /\ deliveries[retractions[c].ref].stage = "removed"
    /\ retractions' = [retractions EXCEPT ![c].state = "completed",
                                          ![c].due = FALSE]
    /\ cards' = [cards EXCEPT ![c].superseded = None]
    /\ UNCHANGED <<task, wf, results, deliveries, hold, polled, Budget>>

FailRetraction(c) ==
    /\ Fault
    /\ retractions[c].state = "delivering"
    /\ retractions' = [retractions EXCEPT ![c] = RetractionAfterFailure(@)]
    /\ UNCHANGED <<task, wf, results, cards, deliveries, hold, polled, inputs>>

-----------------------------------------------------------------------------
(* The reader's answer                                                     *)

\* _direct_actions_for_kind, and the notes every card takes.
Buttons ==
    [start |-> {"start", "snooze", "cancel", "done", "drop", "until_meeting"},
     plan_review     |-> {"approve", "revise", "snooze", "cancel", "done", "drop"},
     external_review |-> {"approve", "revise", "snooze", "cancel", "done", "drop"},
     result_review   |-> {"snooze", "done", "drop"},
     steer           |-> {"done", "drop"}]

Notes(kind) == {"discuss", "reassign"}
                 \cup (IF kind = "result_review" THEN {} ELSE {"comment_and_go"})

Ends == {"done", "drop"}

\* A note on a gate asks for a new plan, on a running pass for another pass.
NotedOn(kind, r) ==
    Logged([Restarted(r, IF kind = "start" THEN "awaiting_start" ELSE "queued")
              EXCEPT !.phase = IF kind = "steer" THEN @ ELSE "plan"],
           "discussion_requested")

\* What an action on a card of this kind makes of the row.
AnsweredRow(kind, r, action) ==
    CASE action \in Ends           -> LifecycleClosed(r, r.task_version + 1, action)
      [] action = "discuss"        -> NotedOn(kind, r)
      [] action = "reassign"       -> Reassigned(r, r.task_version + 1)
      [] action = "until_meeting"  -> OwnerHeld(r)
      [] action = "comment_and_go" ->
           (CASE kind = "start" -> Started(r, "start")
              [] kind = "steer" -> Steered(r)
              [] OTHER          -> Reviewed(r, "approve"))
      [] OTHER -> IF kind = "start" THEN Started(r, action)
                  ELSE Reviewed(r, action)

AnsweredTask(row, action) ==
    [open |-> row.open /\ action \notin Ends,
     version |-> IF action \in Ends \cup {"reassign"} THEN row.version + 1
                 ELSE row.version]

\* Mutant: a button answers whatever its card has become.
OpensLoosely(d) ==
    LET c == deliveries[d].card
    IN /\ deliveries[d].stage = "posted"
       /\ cards[c].status = "delivered"
       /\ CurrentCard(cards[c])

\* _card_guard and the state fence: the button of message d still counts.
Opens(d) ==
    LET c == deliveries[d].card
    IN /\ deliveries[d].stage = "posted"
       /\ cards[c].version = deliveries[d].version
       /\ cards[c].status = "delivered"
       /\ CurrentCard(cards[c])

\* What the card keeps of the answer: the decision it came to.
StoredAction(kind, action) ==
    CASE action = "until_meeting"  -> "snooze"
      [] action = "comment_and_go" -> (CASE kind = "start" -> "start"
                                         [] kind = "steer" -> "discuss"
                                         [] OTHER          -> "approve")
      [] OTHER -> action

ResolvedCard(card, action) ==
    [card EXCEPT !.status = "resolved", !.version = @ + 1, !.due = FALSE,
                 !.resolution = StoredAction(card.kind, action)]

\* act, submit_input and comment_and_go: one press of a button of message d.
Press(d, action) ==
    LET c == deliveries[d].card
        t == cards[c].task
    IN /\ Input(action)
       /\ c # None
       /\ Opens(d)
       /\ action \in Buttons[cards[c].kind] \cup Notes(cards[c].kind)
       /\ action = "until_meeting" => hold[t].status # "active"
       /\ wf' = [wf EXCEPT ![t] = AnsweredRow(cards[c].kind, @, action)]
       /\ task' = [task EXCEPT ![t] = AnsweredTask(@, action)]
       /\ hold' = IF action = "until_meeting"
                  THEN [hold EXCEPT ![t] = [status |-> "active",
                                            task_version |-> wf[t].task_version,
                                            version |-> wf[t].version + 1]]
                  ELSE hold
       /\ cards' = [cards EXCEPT ![c] = ResolvedCard(@, action)]
       /\ UNCHANGED <<results, deliveries, retractions, polled, faults>>

\* In the queue view every other answer to a Start card starts the work, and
\* a note leaves the columns of a failed or finished row as they are, which
\* the schema refuses.
QueueViewRow(kind, r, action) ==
    CASE action \in Ends \cup {"discuss"} -> AnsweredRow(kind, r, action)
      [] action = "reassign" ->
           [Reassigned(r, r.task_version + 1) EXCEPT
              !.last_outcome = r.last_outcome, !.last_claim = r.last_claim]
      [] OTHER -> IF kind = "start" THEN Started(r, "start")
                  ELSE AnsweredRow(kind, r, action)

\* resolve_queue_view: claim, deliver and answer a pending card at once.  It
\* stores a note with a decision under its own name, which the schema refuses.
ResolveQueueView(c, consumer, action) ==
    LET t == cards[c].task
        kind == cards[c].kind
    IN /\ Input(action)
       /\ cards[c].status = "pending"
       /\ CurrentCard(cards[c])
       /\ wf[t].status = "snoozed" => wf[t].timer = 0
       /\ Fits(cards, consumer, kind)
       /\ action \in (Buttons[kind] \cup Notes(kind)) \ {"comment_and_go"}
       /\ action \in {"discuss", "reassign"} =>
            wf[t].status \notin {"parked", "completed"}
       /\ wf' = [wf EXCEPT ![t] = QueueViewRow(kind, @, action)]
       /\ task' = [task EXCEPT ![t] = AnsweredTask(@, action)]
       /\ cards' = [cards EXCEPT ![c] = [ResolvedCard(@, action) EXCEPT
                                           !.version = cards[c].version + 2]]
       /\ UNCHANGED <<results, deliveries, retractions, hold, polled, faults>>

\* Mutant: the card keeps its version when another agent is chosen.
SelectAgentSameVersion(d, answered) ==
    LET c == deliveries[d].card
        t == cards[c].task
    IN /\ Input("select")
       /\ c # None
       /\ Opens(d)
       /\ cards[c].kind \in {"start", "plan_review"}
       /\ wf' = [wf EXCEPT ![t] = Adopted(@)]
       /\ cards' = [cards EXCEPT ![c].workflow_version = @ + 1]
       /\ UNCHANGED <<task, results, deliveries, retractions, hold, polled,
                      faults>>

\* select_agent: row and card move on together, and the answer carries the
\* card as it now is, unless it is lost.
SelectAgent(d, answered) ==
    LET c == deliveries[d].card
        t == cards[c].task
    IN /\ Input("select")
       /\ c # None
       /\ Opens(d)
       /\ \/ cards[c].kind = "start" /\ wf[t].status = "awaiting_start"
          \/ cards[c].kind = "plan_review" /\ wf[t].status = "awaiting_review"
       /\ wf' = [wf EXCEPT ![t] = Adopted(@)]
       /\ cards' = [cards EXCEPT ![c].version = @ + 1,
                                 ![c].workflow_version = @ + 1]
       /\ IF answered
          THEN /\ deliveries' = [deliveries EXCEPT
                                   ![d].version = cards[c].version + 1,
                                   ![d].shows = wf[t].version + 1]
               /\ UNCHANGED faults
          ELSE UNCHANGED deliveries /\ faults > 0 /\ faults' = faults - 1
       /\ UNCHANGED <<task, results, retractions, hold, polled>>

-----------------------------------------------------------------------------
(* The ledger and the clock move meanwhile (see ExecutionWorkflow)         *)

\* The k-th pass begins, ...
BeginPass(t, k) ==
    /\ \A j \in ClaimIds : results[j].task # None <=> j < k
    /\ wf[t].status \in {"queued", "parked"}
    /\ wf[t].timer = 0
    /\ TaskCurrent(t, wf[t].task_version)
    /\ wf' = [wf EXCEPT ![t] = Claimed(@, k)]
    /\ results' = [results EXCEPT ![k].task = t]
    /\ UNCHANGED <<task, cards, deliveries, retractions, hold, polled, Budget>>

\* ... records a result, ...
RecordPass(t, outcome) ==
    LET k == wf[t].claim
    IN /\ wf[t].status = "running"
       /\ outcome \in PhaseOutcomes[wf[t].phase]
       /\ results' = [results EXCEPT
                        ![k] = [phase |-> wf[t].phase, outcome |-> outcome,
                                task |-> t, task_version |-> wf[t].task_version,
                                version |-> wf[t].version]]
       /\ wf' = [wf EXCEPT ![t] = Recorded(@, k, outcome, wf[t].phase)]
       /\ UNCHANGED <<task, cards, deliveries, retractions, hold, polled, Budget>>

\* ... or fails, and parks once it failed too often.
FailPass(t) ==
    /\ Fault
    /\ wf[t].status = "running"
    /\ wf' = [wf EXCEPT ![t] = Deferred(@, "other")]
    /\ UNCHANGED <<task, results, cards, deliveries, retractions, hold, polled,
                   inputs>>

\* The task is revised, and its row cancelled and scheduled again.
ReviseTask(t) ==
    /\ Input("revise_task")
    /\ task[t].open
    /\ task' = [task EXCEPT ![t].version = @ + 1]
    /\ UNCHANGED <<wf, results, cards, deliveries, retractions, hold, polled,
                   faults>>

Replan(t) ==
    /\ task[t].open
    /\ wf[t].task_version # task[t].version
    /\ wf[t].status \notin {"completed"}
    /\ wf' = [wf EXCEPT ![t] = Scheduled(Cancelled(@), task[t].version,
                                         "awaiting_start", "plan")]
    /\ UNCHANGED <<task, results, cards, deliveries, retractions, hold, polled,
                   Budget>>

RowAges(t) ==
    /\ wf[t].timer > 0
    /\ wf' = [wf EXCEPT ![t] = Aged(@)]
    /\ UNCHANGED <<task, results, cards, deliveries, retractions, hold, polled,
                   Budget>>

CardAges(c) ==
    /\ cards[c].status \in {"delivering", "delivered"}
    /\ ~cards[c].due
    /\ cards' = [cards EXCEPT ![c].due = TRUE]
    /\ UNCHANGED <<task, wf, results, deliveries, retractions, hold, polled,
                   Budget>>

RetractionAges(c) ==
    /\ retractions[c].state = "delivering"
    /\ ~retractions[c].due
    /\ retractions' = [retractions EXCEPT ![c].due = TRUE]
    /\ UNCHANGED <<task, wf, results, cards, deliveries, hold, polled, Budget>>

-----------------------------------------------------------------------------
Delivery ==
    \/ \E consumer \in Consumers : ClaimNext(consumer)
    \/ \E d \in DeliveryIds :
         \/ Post(d) \/ CompleteDelivery(d)
         \/ FailDelivery(d) \/ LoseDelivery(d) \/ ReleaseDelivery(d)
    \/ \E c \in CardIds : RetryDelivery(c) \/ RecoverDelivery(c)
    \/ RequeueUnanswered

Retraction ==
    \/ ClaimRetraction
    \/ \E c \in CardIds :
         DeleteMessage(c) \/ CompleteRetraction(c) \/ FailRetraction(c)

Reader ==
    \/ \E d \in DeliveryIds, action \in Actions : Press(d, action)
    \/ \E c \in CardIds, consumer \in Consumers, action \in Actions :
         "queue_view" \in Actions /\ ResolveQueueView(c, consumer, action)
    \/ \E d \in DeliveryIds, answered \in BOOLEAN : SelectAgent(d, answered)

Ledger ==
    \/ \E t \in Tasks, k \in ClaimIds : BeginPass(t, k)
    \/ \E t \in Tasks, outcome \in FirstOutcomes : RecordPass(t, outcome)
    \/ \E t \in Tasks : FailPass(t) \/ ReviseTask(t) \/ Replan(t)

Clock == \/ \E t \in Tasks : RowAges(t)
         \/ \E c \in CardIds : CardAges(c) \/ RetractionAges(c)

Next == PollHolds \/ Schedule \/ Delivery \/ Retraction \/ Reader \/ Ledger
          \/ Clock

Spec == Init /\ [][Next]_vars

(* schedule, the drip's claim and the retraction poll are called by timers, *)
(* time passes, a consumer that holds a lease posts and acknowledges unless *)
(* a fault is spent on it, and a message in the chat can be deleted.        *)
Fairness ==
    /\ WF_vars(PollHolds) /\ WF_vars(Schedule)
    /\ \A consumer \in Consumers : WF_vars(ClaimNext(consumer))
    /\ WF_vars(\E d \in DeliveryIds : Post(d) \/ CompleteDelivery(d))
    /\ WF_vars(ClaimRetraction)
    /\ WF_vars(\E c \in CardIds : DeleteMessage(c) \/ CompleteRetraction(c))
    /\ WF_vars(Clock)

FairSpec == Spec /\ Fairness

-----------------------------------------------------------------------------
(* Safety                                                                  *)

\* Whatever expires, fails, is requeued or resolved in another view, no
\* consumer ever holds more decisions, or more Steer cards, than its ceiling.
CeilingHeld ==
    \A consumer \in Consumers, kind \in Kinds :
      Cardinality(Held(cards, consumer, kind)) <= BandCeiling(consumer, kind)

\* A message whose buttons count shows the row as it is: the row has not
\* moved, in any column, since the message was rendered.
ButtonsShowTheRow ==
    \A d \in DeliveryIds :
      deliveries[d].stage = "posted" /\ Opens(d) =>
        wf[cards[deliveries[d].card].task].version = deliveries[d].shows

\* A task can be answered in one place at a time: leases that ran out,
\* repeated deliveries and requeued questions leave messages behind, and
\* only the newest of them opens the task.
OneMessageOpens ==
    \A d, e \in DeliveryIds :
      /\ deliveries[d].stage = "posted" /\ Opens(d)
      /\ deliveries[e].stage = "posted" /\ Opens(e)
      /\ cards[deliveries[d].card].task = cards[deliveries[e].card].task
      => d = e

-----------------------------------------------------------------------------
(* What must eventually happen                                             *)

OutOfBounds == \/ Cardinality(Made) + Cardinality(Tasks) > MaxCards
               \/ \A d \in DeliveryIds : deliveries[d].stage # "unissued"

Waiting(t) ==
    /\ TaskCurrent(t, wf[t].task_version)
    /\ wf[t].status \in {"awaiting_start", "awaiting_review", "snoozed",
                          "parked"}

Shown(t) == \E c \in CardIds : /\ cards[c].task = t
                               /\ cards[c].status = "delivered"
                               /\ CurrentCard(cards[c])

\* The questions of other tasks take all the room a consumer has.
SurfaceFull(t) ==
    \E consumer \in Consumers :
      Cardinality({c \in Held(cards, consumer, "start") : cards[c].task # t})
        >= BandCeiling(consumer, "start")

\* The last result is of another phase than the one the row is back in.
Mismatched(t) == /\ KindForWorkflow(wf[t]) \notin {"start", "steer"}
                 /\ results[wf[t].last_claim].phase # wf[t].phase

\* A row that waits for its reader is asked about, however the card that asks
\* is lost on the way, unless others fill the surface.
Unasked(t) == Waiting(t) /\ ~Shown(t) /\ ~Mismatched(t)

GateIsAsked ==
    \A t \in Tasks : Unasked(t) ~> (~Unasked(t) \/ SurfaceFull(t) \/ OutOfBounds)

\* The message of a card that was cancelled under it leaves the chat, or was
\* tried three times.
Obsolete(d) ==
    LET c == deliveries[d].card
    IN /\ deliveries[d].stage = "posted"
       /\ cards[c].status = "cancelled"
       /\ cards[c].superseded = d
       /\ retractions[c].state # "abandoned"

ObsoleteMessageGoes == \A d \in DeliveryIds : Obsolete(d) ~> ~Obsolete(d)

-----------------------------------------------------------------------------
(* What the repository says of the program and the program does not do     *)

\* ADR 0041: the queue view "applies the existing action against the exact
\* task and workflow versions".  The existing snooze does not start the work.
SnoozeStartsNothing ==
    [][\A c \in CardIds :
         cards[c].status # "resolved" /\ cards'[c].resolution = "snooze"
           => wf'[cards[c].task].status # "queued"]_vars

\* execution_cards.py, _kind_for_workflow: a snoozed gate with the result of
\* another phase is asked about, "and asking it beats never asking".
MadeCardIsCurrent ==
    [][\A c \in CardIds :
         cards[c].status = "unmade" /\ cards'[c].status = "pending"
           => CurrentCard(cards[c])']_vars
=============================================================================
