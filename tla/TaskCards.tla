------------------------------ MODULE TaskCards ------------------------------
(***************************************************************************)
(* The cards that ask a reader whether a task is done or is the same as    *)
(* another: TaskCardService (src/foxhound/task_cards.py), with the stores  *)
(* its cards carry questions from, task_completion.py,                     *)
(* task_duplicate_proposals.py and task_relations.py.                      *)
(*                                                                         *)
(* A detector leaves evidence that one task is finished, or a proposal     *)
(* that two tasks are one.  A pass of the scheduler binds a question to    *)
(* the task's card, making one when there is none.  A consumer leases the  *)
(* card, posts it with the question it carried then, and acknowledges; the *)
(* reader presses a button of some message, old or new.  Meanwhile feeds,  *)
(* other surfaces and the execution ledger move the tasks.                 *)
(*                                                                         *)
(* Every method is one BEGIN IMMEDIATE transaction and one action.  A card *)
(* is named by its task and its place among the cards of that task.        *)
(***************************************************************************)
EXTENDS Integers, FiniteSets, Sequences

CONSTANTS
    Tasks,          \* task ids, positive integers: a pair is ordered by id
    Consumers,      \* consumer digests
    Ceiling,        \* TASK_CARD_CLAIM_CEILINGS of each consumer's role
    Sightings,      \* <<task, quotation>> pairs a completion detector finds
    Suspects,       \* <<task, task>> pairs a duplicate detector finds
    MaxOpen,        \* MAX_OPEN_QUESTIONS_PER_TASK, ..PROPOSALS_PER_TASK
    InputKinds,     \* bound: kinds of outside moves this instance exercises
    MaxCards,       \* bound: cards ever made for a task
    MaxProposals,   \* bound: proposals ever recorded
    MaxAnswers,     \* bound: answers of the reader
    MaxInputs,      \* bound: outside moves and operator's repairs
    MaxFaults       \* bound: leases that lapse, messages left unanswered

ASSUME TaskCardsAssumption ==
    /\ IsFiniteSet(Tasks) /\ Tasks \subseteq Nat \ {0}
    /\ Ceiling \in [Consumers -> Nat \ {0}]
    /\ \A s \in Sightings : s[1] \in Tasks
    /\ \A s \in Suspects : s[1] \in Tasks /\ s[2] \in Tasks /\ s[1] < s[2]
    /\ {MaxOpen, MaxCards, MaxProposals, MaxAnswers, MaxInputs, MaxFaults} \subseteq Nat

None == 0

VARIABLES
    task,           \* the tasks rows, with the revision their source is at
    wf,             \* what the task's execution workflow is doing
    cards,          \* task_review_cards, by task
    messages,       \* what has been posted, or may have been, of each card
    evidence,       \* task_completion_evidence, in the order of its ids
    proposals,      \* task_duplicate_proposals, in the order of their ids
    merged,         \* live duplicate_of rows of task_relations
    answers, inputs, faults  \* answers, inputs and faults left

vars == <<task, wf, cards, messages, evidence, proposals, merged, answers,
          inputs, faults>>

Active        == {"pending", "delivering", "delivered", "snoozed"}
CardActions   == {"done", "drop", "keep_open", "snooze", "duplicate_confirm",
                  "duplicate_reject", "show_full_cards"}
WorkflowModes == {"none", "held", "working", "snoozed", "over"}

CardRows ==
    [status : Active \cup {"resolved", "cancelled"}, task_version : Nat \ {0},
     revision : Nat, version : Nat \ {0}, consumer : Consumers \cup {None},
     due : BOOLEAN]

Plain == [kind |-> "plain", id |-> None]
Questions == [kind : {"plain", "evidence", "proposal"}, id : Nat]

\* seen: the versions of the tasks when the message was rendered.
MessageRows ==
    [card : Tasks \X (1..MaxCards), version : Nat, shows : Questions,
     seen : [Tasks -> Nat], exact : BOOLEAN]

CardIds == {id \in Tasks \X (1..MaxCards) : id[2] <= Len(cards[id[1]])}
NoCard  == <<>>

Quotes == {s[2] : s \in Sightings}
EvidenceRows ==
    [task : Tasks, quote : Quotes, card : (Tasks \X (1..MaxCards)) \cup {NoCard},
     state : {"proposed", "accepted", "rejected", "superseded"}]
ProposalRows ==
    [left : Tasks, right : Tasks, left_version : Nat, right_version : Nat,
     card : (Tasks \X (1..MaxCards)) \cup {NoCard},
     state : {"proposed", "confirmed", "rejected", "superseded"}]

TypeOK ==
    /\ task \in [Tasks -> [status : {"open", "done", "dropped"},
                           version : Nat \ {0}, revision : Nat,
                           preserved : BOOLEAN]]
    /\ wf \in [Tasks -> WorkflowModes]
    /\ cards \in [Tasks -> Seq(CardRows)]
    /\ messages \subseteq MessageRows
    /\ evidence \in Seq(EvidenceRows)
    /\ proposals \in Seq(ProposalRows)
    /\ merged \subseteq Tasks \X Tasks
    /\ answers \in 0..MaxAnswers
    /\ inputs \in 0..MaxInputs
    /\ faults \in 0..MaxFaults

Init ==
    /\ task = [t \in Tasks |-> [status |-> "open", version |-> 1,
                                revision |-> 0, preserved |-> FALSE]]
    /\ wf = [t \in Tasks |-> "none"]
    /\ cards = [t \in Tasks |-> <<>>]
    /\ messages = {}
    /\ evidence = <<>>
    /\ proposals = <<>>
    /\ merged = {}
    /\ answers = MaxAnswers
    /\ inputs = MaxInputs
    /\ faults = MaxFaults

(***************************************************************************)
(* Reading the tables.                                                     *)
(***************************************************************************)
Held(t)      == wf[t] \in {"held", "working", "snoozed"}
HeldApart(t) == wf[t] \in {"held", "working"}   \* a snooze is not in flight
Merged(t)    == \E o \in Tasks : <<t, o>> \in merged

\* The newest card is the only one that can be active: see OneActiveCard.
ActiveIn(cs, t) == {n \in DOMAIN cs[t] : cs[t][n].status \in Active}
Binds(qs, c)    == {i \in DOMAIN qs : qs[i].state = "proposed" /\ qs[i].card = c}
Unbound(qs)     == {i \in DOMAIN qs : qs[i].state = "proposed"
                                      /\ qs[i].card = NoCard}
First(S)        == CHOOSE i \in S : \A j \in S : i <= j

\* The task and its source are as the card was made for.
Current(c, t) ==
    /\ task[t].status = "open"
    /\ task[t].version = c.task_version
    /\ task[t].revision = c.revision

Stale(ps, c, id) ==
    LET t == id[1]
    IN  \/ ~Current(c, t)
        \/ IF Binds(ps, id) # {} THEN HeldApart(t) ELSE Held(t)
        \/ Merged(t)
        \/ task[t].preserved

Question(id) ==
    IF Binds(proposals, id) # {}
    THEN [kind |-> "proposal", id |-> First(Binds(proposals, id))]
    ELSE IF Binds(evidence, id) # {}
    THEN [kind |-> "evidence", id |-> First(Binds(evidence, id))]
    ELSE Plain

HeldBy(cs, k) ==
    {id \in CardIds : /\ cs[id[1]][id[2]].status \in {"delivering", "delivered"}
                      /\ cs[id[1]][id[2]].consumer = k}

Pair(p)       == {p.left, p.right}
Reviewable(p) ==
    \/ task[p.left].status = "open"
    \/ task[p.right].status = "open"
AsRecorded(p) ==
    /\ task[p.left].version = p.left_version
    /\ task[p.right].version = p.right_version
\* The side whose card asks, and whose task a merge closes when one is closed.
Asks(p) == IF task[p.left].status = "open" THEN p.left ELSE p.right

(***************************************************************************)
(* Changes to a card and to its questions.                                 *)
(***************************************************************************)
Pending(c) ==
    [c EXCEPT !.status = "pending", !.version = @ + 1, !.consumer = None,
              !.due = FALSE]
Ended(c, status) ==
    [c EXCEPT !.status = status, !.version = @ + 1, !.consumer = None,
              !.due = FALSE]
NewCard(t) ==
    [status |-> "pending", task_version |-> task[t].version,
     revision |-> task[t].revision, version |-> 1, consumer |-> None,
     due |-> FALSE]

Release(qs, ids) ==
    [i \in DOMAIN qs |-> IF qs[i].state = "proposed" /\ qs[i].card \in ids
                         THEN [qs[i] EXCEPT !.card = NoCard] ELSE qs[i]]
BindTo(qs, f) ==
    [i \in DOMAIN qs |-> IF i \in DOMAIN f THEN [qs[i] EXCEPT !.card = f[i]]
                         ELSE qs[i]]
Settle(qs, S, state) ==
    [i \in DOMAIN qs |-> IF i \in S THEN [qs[i] EXCEPT !.state = state]
                         ELSE qs[i]]
Edit(cs, ids, F(_)) ==
    [t \in Tasks |-> [n \in DOMAIN cs[t] |->
        IF <<t, n>> \in ids THEN F(cs[t][n]) ELSE cs[t][n]]]

(***************************************************************************)
(* A pass works on the three tables in turn, so its parts map a state of   *)
(* them to the next.                                                       *)
(***************************************************************************)
Now == [cards |-> cards, evidence |-> evidence, proposals |-> proposals]

CancelStale(s) ==
    LET gone == {id \in CardIds :
                   LET c == s.cards[id[1]][id[2]]
                   IN  c.status \in Active /\ Stale(s.proposals, c, id)}
    IN  [cards     |-> Edit(s.cards, gone, LAMBDA c : Ended(c, "cancelled")),
         evidence  |-> Release(s.evidence, gone),
         proposals |-> Release(s.proposals, gone)]

\* A question joins a pending card or gets a card of its own; one task, one
\* question in a pass.
Place(s, t) ==
    IF ActiveIn(s.cards, t) = {} THEN <<t, Len(s.cards[t]) + 1>>
    ELSE <<t, First(ActiveIn(s.cards, t))>>
Raise(s, ts) ==
    [t \in Tasks |-> IF t \in ts /\ ActiveIn(s.cards, t) = {}
                     THEN Append(s.cards[t], NewCard(t)) ELSE s.cards[t]]
\* (As they would be, did a posted card take a question, or no second card.)
OpenPosted(s, t) == TRUE
OpenOnce(s, t) == Len(s.cards[t]) = 0

Open(s, t) == \A n \in ActiveIn(s.cards, t) : s.cards[t][n].status = "pending"

Completions(s, t) ==
    {i \in Unbound(s.evidence) :
        /\ s.evidence[i].task = t
        /\ task[t].status = "open"
        /\ ~Held(t)
        /\ ~task[t].preserved}

AskCompletionQuestions(s) ==
    LET ts == {t \in Tasks : Completions(s, t) # {} /\ Open(s, t)}
        asked == {First(Completions(s, t)) : t \in ts}
    IN  [s EXCEPT !.cards = Raise(s, ts),
                  !.evidence = BindTo(s.evidence, [i \in asked |->
                                        Place(s, s.evidence[i].task)])]

\* (As it would be, were work in flight not looked at.)
ComparisonsInFlight(s, t) ==
    {i \in Unbound(s.proposals) :
        LET p == s.proposals[i]
        IN  /\ Reviewable(p) /\ Asks(p) = t
            /\ ~task[t].preserved
            /\ AsRecorded(p)}

Comparisons(s, t) ==
    {i \in Unbound(s.proposals) :
        LET p == s.proposals[i]
        IN  /\ Reviewable(p) /\ Asks(p) = t
            /\ \A u \in Pair(p) : ~HeldApart(u)
            /\ ~task[t].preserved
            /\ AsRecorded(p)}

\* A pending card that already asks a comparison keeps it.
AskDuplicateProposals(s) ==
    LET ts == {t \in Tasks :
                 /\ Comparisons(s, t) # {} /\ Open(s, t)
                 /\ \A n \in ActiveIn(s.cards, t) :
                        Binds(s.proposals, <<t, n>>) = {}}
        asked == {First(Comparisons(s, t)) : t \in ts}
    IN  [s EXCEPT !.cards = Raise(s, ts),
                  !.proposals = BindTo(s.proposals, [i \in asked |->
                                        Place(s, Asks(s.proposals[i]))])]

ResolveUnaskableProposals(s) ==
    LET lost == {i \in Unbound(s.proposals) :
                   LET p == s.proposals[i]
                   IN  \/ ~AsRecorded(p)
                       \/ ~Reviewable(p)
                       \/ \E u \in Pair(p) : Merged(u)
                       \/ task[Asks(p)].preserved}
    IN  [s EXCEPT !.proposals = Settle(s.proposals, lost, "superseded")]

Become(s) ==
    /\ \A t \in Tasks : Len(s.cards[t]) <= MaxCards
    /\ cards' = s.cards
    /\ evidence' = s.evidence
    /\ proposals' = s.proposals

(***************************************************************************)
(* Detectors.                                                              *)
(***************************************************************************)
\* A quotation is asked about once in the life of a task.
ProposeCompletion(t, q) ==
    /\ task[t].status = "open"
    /\ ~\E i \in DOMAIN evidence :
           evidence[i].task = t /\ evidence[i].quote = q
    /\ Cardinality({i \in DOMAIN evidence : /\ evidence[i].task = t
                                            /\ evidence[i].state = "proposed"})
       < MaxOpen
    /\ evidence' = Append(evidence, [task |-> t, quote |-> q, card |-> NoCard,
                                     state |-> "proposed"])
    /\ UNCHANGED <<task, wf, cards, messages, proposals, merged, answers,
                   inputs, faults>>

\* A pair is asked about once, unless its question expired.
ProposeDuplicate(l, r) ==
    LET pair == [left |-> l, right |-> r, left_version |-> task[l].version,
                 right_version |-> task[r].version, card |-> NoCard,
                 state |-> "proposed"]
        OpenOf(t) == {i \in DOMAIN proposals :
                        proposals[i].state = "proposed" /\ t \in Pair(proposals[i])}
    IN  /\ Len(proposals) < MaxProposals
        /\ Reviewable(pair)
        /\ ~\E i \in DOMAIN proposals :
               /\ proposals[i].left = l /\ proposals[i].right = r
               /\ proposals[i].state # "superseded"
        /\ \A t \in {l, r} : Cardinality(OpenOf(t)) < MaxOpen
        /\ proposals' = Append(proposals, pair)
        /\ UNCHANGED <<task, wf, cards, messages, evidence, merged, answers,
                       inputs, faults>>

(***************************************************************************)
(* The scheduler's passes and the operator's repairs.                      *)
(***************************************************************************)
Schedule ==
    /\ Become(AskDuplicateProposals(AskCompletionQuestions(CancelStale(Now))))
    /\ UNCHANGED <<task, wf, messages, merged, answers, inputs, faults>>

ScheduleDuplicateProposals ==
    /\ Become(AskDuplicateProposals(ResolveUnaskableProposals(
                  CancelStale(Now))))
    /\ UNCHANGED <<task, wf, messages, merged, answers, inputs, faults>>

RequeueUnanswered ==
    LET s == CancelStale(Now)
        old == {id \in CardIds :
                  LET c == s.cards[id[1]][id[2]]
                  IN  c.status = "delivered" /\ c.due /\ Current(c, id[1])}
    IN  /\ Become([s EXCEPT !.cards = Edit(s.cards, old, Pending)])
        /\ UNCHANGED <<task, wf, messages, merged, answers, inputs, faults>>

RetryDelivery(id) ==
    LET c == cards[id[1]][id[2]]
    IN  /\ inputs > 0 /\ "repair" \in InputKinds
        /\ c.status = "delivered"
        /\ Current(c, id[1])
        /\ cards' = Edit(cards, {id}, Pending)
        /\ inputs' = inputs - 1
        /\ UNCHANGED <<task, wf, messages, evidence, proposals, merged,
                       answers, faults>>

\* The operator expires the unanswered proposals of a detector, S of them.
SupersedeDuplicateProposals(S) ==
    LET bound == {proposals[i].card : i \in S} \ {NoCard}
        gone  == {id \in bound : cards[id[1]][id[2]].status \in Active}
    IN  /\ inputs > 0 /\ "repair" \in InputKinds
        /\ S # {}
        /\ cards' = Edit(cards, gone, LAMBDA c : Ended(c, "cancelled"))
        /\ evidence' = Release(evidence, gone)
        /\ proposals' = Settle(Release(proposals, bound), S, "superseded")
        /\ inputs' = inputs - 1
        /\ UNCHANGED <<task, wf, messages, merged, answers, faults>>

(***************************************************************************)
(* Consumers.                                                              *)
(***************************************************************************)
\* The message a lease of the card produces, with what it shows.
Rendered(id, exact) ==
    [card |-> id, version |-> cards[id[1]][id[2]].version + 1,
     shows |-> Question(id), seen |-> [t \in Tasks |-> task[t].version],
     exact |-> exact]

Leased(c, k) ==
    [c EXCEPT !.status = "delivering", !.version = @ + 1, !.consumer = k,
              !.due = FALSE]

\* A claim first returns every lapsed lease; the ceiling then counts.
Expired ==
    {id \in CardIds : LET c == cards[id[1]][id[2]]
                      IN  c.status = "delivering" /\ c.due}
Waiting(c) == c.status = "pending" \/ (c.status = "snoozed" /\ c.due)
Claimable(cs, t, n) ==
    /\ Waiting(cs[t][n])
    /\ Current(cs[t][n], t)
    /\ ~Merged(t)

ClaimNext(k, id) ==
    LET back == Edit(cards, Expired, Pending)
    IN  /\ Cardinality(HeldBy(back, k)) < Ceiling[k]
        /\ Claimable(back, id[1], id[2])
        /\ cards' = Edit(back, {id}, LAMBDA c : Leased(c, k))
        /\ messages' = messages \cup
               {[Rendered(id, FALSE) EXCEPT
                   !.version = back[id[1]][id[2]].version + 1]}
        /\ UNCHANGED <<task, wf, evidence, proposals, merged, answers, inputs,
                       faults>>

\* The claim that gets nothing still returned the lapsed leases.
ClaimNothing(k) ==
    LET back == Edit(cards, Expired, Pending)
    IN  /\ \/ Cardinality(HeldBy(back, k)) >= Ceiling[k]
           \/ ~\E id \in CardIds : Claimable(back, id[1], id[2])
        /\ cards' = back
        /\ UNCHANGED <<task, wf, messages, evidence, proposals, merged,
                       answers, inputs, faults>>

\* First transaction of resolve: the reader answers a card of the queue view
\* that was never delivered.  The delivery and the answer follow, or do not.
ClaimExact(k, id) ==
    LET c == cards[id[1]][id[2]]
    IN  /\ inputs > 0 /\ "resolve" \in InputKinds
        /\ Cardinality(HeldBy(cards, k)) < Ceiling[k]
        /\ c.status \in {"pending", "snoozed"}
        /\ Current(c, id[1])
        /\ cards' = Edit(cards, {id}, LAMBDA x : Leased(x, k))
        /\ messages' = messages \cup {Rendered(id, TRUE)}
        /\ inputs' = inputs - 1
        /\ UNCHANGED <<task, wf, evidence, proposals, merged, answers,
                       faults>>

IsLease(m) ==
    LET c == cards[m.card[1]][m.card[2]]
    IN  c.version = m.version /\ c.status = "delivering"

\* Only the source's revision is compared: a task that moved on is delivered.
CompleteDelivery(m) ==
    /\ IsLease(m)
    /\ cards[m.card[1]][m.card[2]].revision = task[m.card[1]].revision
    /\ cards' = Edit(cards, {m.card}, LAMBDA c : [c EXCEPT
                  !.status = "delivered", !.due = FALSE])
    /\ UNCHANGED <<task, wf, messages, evidence, proposals, merged, answers,
                   inputs, faults>>

FailDelivery(m) ==
    /\ IsLease(m)
    /\ faults > 0
    /\ cards' = Edit(cards, {m.card}, Pending)
    /\ faults' = faults - 1
    /\ UNCHANGED <<task, wf, messages, evidence, proposals, merged, answers,
                   inputs>>

\* A lease runs out, a message stays unanswered for an hour, a snooze ends.
TimePasses(id) ==
    LET c == cards[id[1]][id[2]]
    IN  /\ ~c.due
        /\ \/ c.status = "snoozed" /\ faults' = faults
           \/ /\ c.status \in {"delivering", "delivered"}
              /\ faults > 0 /\ faults' = faults - 1
        /\ cards' = Edit(cards, {id}, LAMBDA x : [x EXCEPT !.due = TRUE])
        /\ UNCHANGED <<task, wf, messages, evidence, proposals, merged,
                       answers, inputs>>

(***************************************************************************)
(* The reader.                                                             *)
(***************************************************************************)
Buttons(q) ==
    CASE q.kind = "plain"    -> {"done", "keep_open", "drop", "snooze"}
      [] q.kind = "evidence" -> {"done", "keep_open"}
      [] q.kind = "proposal" -> {"duplicate_confirm", "duplicate_reject",
                                 "show_full_cards"}

\* What act accepts from a message: the card as delivered, the task unmoved.
Answerable(m) ==
    LET c == cards[m.card[1]][m.card[2]]
    IN  /\ c.version = m.version
        /\ c.status = "delivered"
        /\ Current(c, m.card[1])

Closed(t, status) == [task EXCEPT ![t].status = status, ![t].version = @ + 1]

Answer(m, action) ==
    /\ answers > 0
    /\ action \in (IF m.exact THEN CardActions ELSE Buttons(m.shows))
    /\ Answerable(m)
    /\ answers' = answers - 1

Outcome == [done |-> "accepted", keep_open |-> "rejected", drop |-> "superseded"]

\* done, drop and keep_open settle the one piece of evidence they find.
ActOnTask(m, action) ==
    LET t == m.card[1]
        asked == Binds(evidence, m.card)
    IN  /\ action \in {"done", "drop", "keep_open"}
        /\ Answer(m, action)
        /\ task' = CASE action = "done" -> Closed(t, "done")
                     [] action = "drop" -> Closed(t, "dropped")
                     [] OTHER           -> task
        /\ cards' = Edit(cards, {m.card}, LAMBDA c : Ended(c, "resolved"))
        /\ evidence' = IF asked = {} THEN evidence
                       ELSE Settle(evidence, {First(asked)}, Outcome[action])
        /\ UNCHANGED <<wf, messages, proposals, merged, inputs, faults>>

Snooze(m) ==
    /\ Answer(m, "snooze")
    /\ cards' = Edit(cards, {m.card}, LAMBDA c : Ended(c, "snoozed"))
    /\ UNCHANGED <<task, wf, messages, evidence, proposals, merged, inputs,
                   faults>>

\* The comparison a card asks about, when it may still be answered.
Comparison(m) ==
    {i \in Binds(proposals, m.card) :
        /\ Reviewable(proposals[i])
        /\ AsRecorded(proposals[i])
        /\ \A t \in Pair(proposals[i]) : wf[t] # "working"}

\* Which task a merge closes, and into which.
Subject(p) == IF task[p.left].status = "open" /\ task[p.right].status = "open"
              THEN p.right ELSE Asks(p)
Object(p)  == IF Subject(p) = p.left THEN p.right ELSE p.left

Reaches(s, t) ==
    \E path \in UNION {[1..n -> Tasks] : n \in 1..Cardinality(Tasks)} :
        /\ path[1] = s /\ path[Len(path)] = t
        /\ \A i \in 1..(Len(path) - 1) : <<path[i], path[i + 1]>> \in merged

DuplicateConfirm(m, i) ==
    LET p == proposals[i]
        s == Subject(p)
        o == Object(p)
        others == {id \in CardIds : /\ id[1] = s /\ id # m.card
                                    /\ cards[id[1]][id[2]].status \in Active}
    IN  /\ Answer(m, "duplicate_confirm")
        /\ i \in Comparison(m)
        /\ <<s, o>> \notin merged
        /\ ~Reaches(o, s)
        /\ merged' = merged \cup {<<s, o>>}
        /\ task' = Closed(s, "dropped")
        /\ cards' = Edit(cards, others \cup {m.card},
                         LAMBDA c : Ended(c, "cancelled"))
        /\ evidence' = Release(evidence, others)
        /\ proposals' = Settle(Release(proposals, others), {i}, "confirmed")
        /\ UNCHANGED <<wf, messages, inputs, faults>>

DuplicateReject(m, i) ==
    /\ Answer(m, "duplicate_reject")
    /\ i \in Comparison(m)
    /\ cards' = Edit(cards, {m.card}, LAMBDA c : Ended(c, "cancelled"))
    /\ proposals' = Settle(proposals, {i}, "rejected")
    /\ UNCHANGED <<task, wf, messages, evidence, merged, inputs, faults>>

\* The comparison is replaced by a delivered card for each of its tasks.
ShowFullCards(m) ==
    LET full(t) == [NewCard(t) EXCEPT !.status = "delivered",
                      !.consumer = cards[m.card[1]][m.card[2]].consumer]
        ended == Edit(cards, {m.card}, LAMBDA c : Ended(c, "cancelled"))
    IN  /\ Answer(m, "show_full_cards")
        /\ \E i \in Binds(proposals, m.card) :
               LET pair == Pair(proposals[i])
               IN  /\ \A t \in pair : ActiveIn(ended, t) = {}  \* unique index
                   /\ \A t \in pair : Len(cards[t]) < MaxCards
                   /\ cards' = [t \in Tasks |->
                                  IF t \in pair THEN Append(ended[t], full(t))
                                  ELSE ended[t]]
        /\ UNCHANGED <<task, wf, messages, evidence, proposals, merged,
                       inputs, faults>>

\* (As it would be, did the pair stay confirmed.)
ReverseDuplicateQuietly(i) ==
    LET p == proposals[i]
    IN  /\ inputs > 0 /\ "reverse" \in InputKinds
        /\ p.state = "confirmed"
        /\ <<p.right, p.left>> \in merged
        /\ merged' = merged \ {<<p.right, p.left>>}
        /\ task' = Closed(p.right, "open")
        /\ inputs' = inputs - 1
        /\ UNCHANGED <<wf, cards, messages, evidence, proposals, answers,
                       faults>>

\* Takes a merge back: its task reopens and its pair is proposed again.
ReverseDuplicate(i) ==
    LET p == proposals[i]
    IN  /\ inputs > 0 /\ "reverse" \in InputKinds
        /\ p.state = "confirmed"
        /\ <<p.right, p.left>> \in merged
        /\ merged' = merged \ {<<p.right, p.left>>}
        /\ task' = IF task[p.right].status = "dropped"
                   THEN [task EXCEPT ![p.right].status = "open",
                                     ![p.right].version = @ + 1]
                   ELSE task
        /\ proposals' = [proposals EXCEPT ![i].state = "proposed",
                                          ![i].card = NoCard]
        /\ inputs' = inputs - 1
        /\ UNCHANGED <<wf, cards, messages, evidence, answers, faults>>

(***************************************************************************)
(* What moves under the cards.                                             *)
(***************************************************************************)
\* Another surface closes or reopens the task.
Transition(t, action) ==
    /\ inputs > 0 /\ "ledger" \in InputKinds
    /\ IF action = "reopen" THEN task[t].status # "open"
                            ELSE task[t].status = "open"
    /\ task' = Closed(t, [done |-> "done", drop |-> "dropped",
                          reopen |-> "open"][action])
    /\ inputs' = inputs - 1
    /\ UNCHANGED <<wf, cards, messages, evidence, proposals, merged, answers,
                   faults>>

\* The feed revises the source; provenance alone does not advance the task.
SourceMoves(t, kind) ==
    /\ inputs > 0 /\ kind \in InputKinds \cap {"revise", "enrich", "preserve"}
    /\ task[t].status = "open"
    /\ task' = CASE kind = "revise" -> [task EXCEPT ![t].revision = @ + 1,
                                                    ![t].version = @ + 1]
                 [] kind = "enrich" -> [task EXCEPT ![t].revision = @ + 1]
                 [] OTHER           -> [task EXCEPT ![t].preserved = TRUE]
    /\ inputs' = inputs - 1
    /\ UNCHANGED <<wf, cards, messages, evidence, proposals, merged, answers,
                   faults>>

\* The execution ledger starts, parks, snoozes or ends the task's workflow.
WorkflowMoves(t, mode) ==
    /\ inputs > 0 /\ "workflow" \in InputKinds
    /\ wf[t] # mode /\ mode # "none"
    /\ wf' = [wf EXCEPT ![t] = mode]
    /\ inputs' = inputs - 1
    /\ UNCHANGED <<task, cards, messages, evidence, proposals, merged,
                   answers, faults>>

\* The operator drops open tasks one transaction each, then sweeps once.
BulkDropTask(t) ==
    /\ inputs > 0 /\ "bulk" \in InputKinds
    /\ task[t].status = "open"
    /\ task' = Closed(t, "dropped")
    /\ wf' = [wf EXCEPT ![t] = IF @ = "none" THEN "none" ELSE "over"]
    /\ inputs' = inputs - 1
    /\ UNCHANGED <<cards, messages, evidence, proposals, merged, answers,
                   faults>>

BulkDropSweep ==
    /\ "bulk" \in InputKinds
    /\ Become(CancelStale(Now))
    /\ UNCHANGED <<task, wf, messages, merged, answers, inputs, faults>>

Detector == \/ \E s \in Sightings : ProposeCompletion(s[1], s[2])
            \/ \E s \in Suspects : ProposeDuplicate(s[1], s[2])

Operator == \/ \E id \in CardIds : RetryDelivery(id)
            \/ \E S \in SUBSET {i \in DOMAIN proposals :
                                  proposals[i].state = "proposed"} :
                   SupersedeDuplicateProposals(S)
            \/ \E i \in DOMAIN proposals : ReverseDuplicate(i)
            \/ \E t \in Tasks : BulkDropTask(t)
            \/ BulkDropSweep

Consumer == \/ \E k \in Consumers, id \in CardIds : ClaimNext(k, id)
            \/ \E k \in Consumers : ClaimNothing(k)
            \/ \E k \in Consumers, id \in CardIds : ClaimExact(k, id)
            \/ \E m \in messages : CompleteDelivery(m) \/ FailDelivery(m)

Reader == \E m \in messages :
              \/ \E a \in {"done", "drop", "keep_open"} : ActOnTask(m, a)
              \/ Snooze(m)
              \/ ShowFullCards(m)
              \/ \E i \in DOMAIN proposals :
                     DuplicateConfirm(m, i) \/ DuplicateReject(m, i)

World == \/ \E t \in Tasks, a \in {"done", "drop", "reopen"} : Transition(t, a)
         \/ \E t \in Tasks, kind \in InputKinds : SourceMoves(t, kind)
         \/ \E t \in Tasks, mode \in WorkflowModes : WorkflowMoves(t, mode)
         \/ \E id \in CardIds : TimePasses(id)

Next == \/ Detector \/ Operator \/ Consumer \/ Reader \/ World
        \/ Schedule \/ ScheduleDuplicateProposals \/ RequeueUnanswered

Spec == Init /\ [][Next]_vars

(***************************************************************************)
(* The timers run; a consumer claims until there is nothing to claim and   *)
(* acknowledges what it posted.  The reader owes nothing.                  *)
(***************************************************************************)
FairSpec ==
    /\ Spec
    /\ WF_vars(Schedule) /\ WF_vars(ScheduleDuplicateProposals)
    /\ WF_vars(RequeueUnanswered)
    /\ \A t \in Tasks :
           /\ SF_vars(\E k \in Consumers, n \in DOMAIN cards[t] :
                          ClaimNext(k, <<t, n>>))
           /\ SF_vars(\E m \in messages : m.card[1] = t /\ CompleteDelivery(m))
           /\ WF_vars(\E n \in DOMAIN cards[t] :
                          cards[t][n].status = "snoozed" /\ TimePasses(<<t, n>>))

(***************************************************************************)
(* Properties.                                                             *)
(***************************************************************************)
\* A task never has two active cards, whichever of the passes, repairs and
\* answers made them: the index task_review_cards_one_active refuses no pass.
\* (schedule, _ask_completion_questions, _ask_duplicate_proposals)
OneActiveCard == \A t \in Tasks : Cardinality(ActiveIn(cards, t)) <= 1

\* A question the reader settles is the one the message in the reader's hand
\* shows, about tasks at the versions it was rendered from, however many
\* times the card was bound, requeued or posted again since.
\* (act, _act_duplicate, bind, claim_next)
Knows(m, q, ts) == m.shows = q /\ \A t \in ts : m.seen[t] = task[t].version
AnswersWhatWasShown ==
    [][/\ \A i \in DOMAIN evidence :
            (/\ evidence[i].state = "proposed"
             /\ evidence'[i].state \in {"accepted", "rejected"})
            => \E m \in messages :
                 /\ m.card = evidence[i].card
                 /\ m.version = cards[m.card[1]][m.card[2]].version
                 /\ \/ m.exact
                    \/ Knows(m, [kind |-> "evidence", id |-> i],
                             {evidence[i].task})
       /\ \A i \in DOMAIN proposals :
            (/\ proposals[i].state = "proposed"
             /\ proposals'[i].state \in {"confirmed", "rejected"})
            => \E m \in messages :
                 /\ m.card = proposals[i].card
                 /\ m.version = cards[m.card[1]][m.card[2]].version
                 /\ Knows(m, [kind |-> "proposal", id |-> i],
                          Pair(proposals[i]))]_vars

\* A pair counts as confirmed exactly while one of its tasks is recorded as a
\* duplicate of the other, through merges, reversals and reopened tasks.
\* (_act_duplicate, reverse_duplicate, reopen_confirmed)
ConfirmedIsMerged ==
    \A l, r \in Tasks : l < r =>
        ((\E i \in DOMAIN proposals : /\ Pair(proposals[i]) = {l, r}
                                      /\ proposals[i].state = "confirmed")
         <=> (<<l, r>> \in merged \/ <<r, l>> \in merged))

\* A pass never raises a card that the next pass would retract, which would
\* send the reader every one of them.  (A task recorded as a duplicate and
\* reopened elsewhere is the exception: see README.)
\* (_cancel_stale against _ask_completion_questions, _ask_duplicate_proposals)
PassesAgree ==
    [][\A t \in Tasks :
          (/\ ~Merged(t) /\ Len(cards'[t]) > Len(cards[t])
           /\ UNCHANGED <<task, wf, merged>>)
          => LET n == Len(cards'[t])
             IN  cards'[t][n].status = "pending" =>
                     ~Stale(proposals', cards'[t][n], <<t, n>>)]_vars

\* A question that can be asked is put in front of the reader, unless what it
\* is about changes first.
\* (schedule, claim_next, complete_delivery, requeue_unanswered)
Shown(q) == \E m \in messages :
                /\ m.shows = q
                /\ cards[m.card[1]][m.card[2]].version = m.version
                /\ cards[m.card[1]][m.card[2]].status = "delivered"
Room(t)  == \A n \in ActiveIn(cards, t) :
                cards[t][n].status \in {"pending", "delivering"}
EvidenceWaits(i) ==
    /\ i \in DOMAIN evidence /\ evidence[i].state = "proposed"
    /\ LET t == evidence[i].task
       IN  /\ task[t].status = "open" /\ ~task[t].preserved
           /\ ~Held(t) /\ ~Merged(t) /\ Room(t)
           /\ \A id \in CardIds : id[1] = t =>
                  /\ Binds(proposals, id) = {}
                  /\ Binds(evidence, id) \subseteq {i}
    /\ evidence[i].card # NoCard =>
           cards[evidence[i].card[1]][evidence[i].card[2]].status \in Active
    /\ ~\E j \in Unbound(evidence) :
            j < i /\ evidence[j].task = evidence[i].task
QuestionsAreAsked ==
    \A i \in 1..Cardinality(Sightings) :
        EvidenceWaits(i) ~> (~EvidenceWaits(i)
                             \/ Shown([kind |-> "evidence", id |-> i]))

\* No unanswered question stays on a card that is over: "A cancelled card
\* releases its question rather than taking it down" (ADR 0038).
\* (release, release_for_card)
Buried(qs) == \E i \in DOMAIN qs :
    /\ qs[i].state = "proposed" /\ qs[i].card # NoCard
    /\ cards[qs[i].card[1]][qs[i].card[2]].status \notin Active
NoQuestionIsBuried == ~Buried(evidence) /\ ~Buried(proposals)
=============================================================================
