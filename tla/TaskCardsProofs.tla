---------------------------- MODULE TaskCardsProofs ----------------------------
(***************************************************************************)
(* What holds of every card, message and question of TaskCards, for any    *)
(* number of tasks, cards, detections, answers and faults.                 *)
(*                                                                         *)
(* The methods work on three tables, so the argument is about steps from   *)
(* one state of the tables to another.  Advances says what no step does: a *)
(* card that a message holds keeps its questions until its version moves.  *)
(* Lapses says what a step without the reader does to questions: it may    *)
(* supersede them and nothing else.  Both compose, so a pass is followed   *)
(* part by part.                                                           *)
(***************************************************************************)
EXTENDS TaskCards, FiniteSetTheorems, NaturalsInduction, TLAPS

-----------------------------------------------------------------------------
(* The inductive invariant                                                 *)

Tables == [cards     : [Tasks -> Seq(CardRows)],
           evidence  : Seq(EvidenceRows),
           proposals : Seq(ProposalRows)]

\* The tables after a step.
Later == [cards |-> cards', evidence |-> evidence', proposals |-> proposals']

\* A question that waits names a card that exists, or none.
BoundWell(qs, cs) ==
    \A i \in DOMAIN qs : qs[i].state = "proposed" /\ qs[i].card # NoCard =>
        \E t \in Tasks : \E n \in DOMAIN cs[t] : qs[i].card = <<t, n>>

\* Evidence is asked about on a card of its task.
AtHome(es) ==
    \A i \in DOMAIN es : es[i].state = "proposed" /\ es[i].card # NoCard =>
        es[i].card[1] = es[i].task

\* A card asks about one comparison.
OneComparison(ps) ==
    \A i, j \in DOMAIN ps :
        /\ ps[i].state = "proposed" /\ ps[j].state = "proposed"
        /\ ps[i].card # NoCard /\ ps[i].card = ps[j].card
        => i = j

\* A task has one card in play.
OneInPlay(cs) ==
    \A t \in Tasks : \A n, k \in ActiveIn(cs, t) : n = k

Sound(s) ==
    /\ BoundWell(s.evidence, s.cards) /\ BoundWell(s.proposals, s.cards)
    /\ AtHome(s.evidence)
    /\ OneComparison(s.proposals)
    /\ OneInPlay(s.cards)

\* A proposal names its tasks in order, at versions they have had.
AsSeen(p) ==
    /\ p.left < p.right
    /\ p.left_version <= task[p.left].version
    /\ p.right_version <= task[p.right].version
ProposalsAsSeen == \A i \in DOMAIN proposals : AsSeen(proposals[i])

\* A pair of tasks has one proposal that did not expire, ...
OnePerPair ==
    \A i, j \in DOMAIN proposals :
        /\ proposals[i].state # "superseded" /\ proposals[j].state # "superseded"
        /\ proposals[i].left = proposals[j].left
        /\ proposals[i].right = proposals[j].right
        => i = j

\* ... and is merged in one direction.
OneWay == \A l, r \in Tasks : ~(<<l, r>> \in merged /\ <<r, l>> \in merged)

InHand == {"delivering", "delivered"}

\* The card a message is of, and whether it is still as it was posted.
CardOf(m)  == cards[m.card[1]][m.card[2]]
Newest(m)  == m.version = CardOf(m).version

\* A message is of a card that exists, at no later a version, and saw the
\* tasks at no later versions than they are at; while it is its card's
\* newest, the card is in hand, asks what the message shows, and is for the
\* task as the message saw it.
Follows(m) ==
    /\ m.card[1] \in Tasks /\ m.card[2] \in DOMAIN cards[m.card[1]]
    /\ m.card = <<m.card[1], m.card[2]>>
    /\ m.version <= CardOf(m).version
    /\ \A u \in Tasks : m.seen[u] <= task[u].version
    /\ Newest(m) =>
         /\ CardOf(m).status \in InHand
         /\ m.shows = Question(m.card)
         /\ m.seen[m.card[1]] = CardOf(m).task_version
         /\ \A i \in Binds(proposals, m.card) :
              /\ proposals[i].left_version <= m.seen[proposals[i].left]
              /\ proposals[i].right_version <= m.seen[proposals[i].right]
MessagesFollow == \A m \in messages : Follows(m)

PairsInv == ProposalsAsSeen /\ OnePerPair /\ OneWay /\ ConfirmedIsMerged

TaskCardsInv == TypeOK /\ Sound(Now) /\ PairsInv /\ MessagesFollow

-----------------------------------------------------------------------------
(* Steps of the tables                                                     *)

\* A card keeps what it is for; it comes into play once; while its version
\* stays, it stays in hand or out of hand.
CardOn(c, d) ==
    /\ d.task_version = c.task_version /\ d.revision = c.revision
    /\ d.status \in Active => c.status \in Active
    /\ \/ d.version > c.version
       \/ d.version = c.version /\ (d.status \in InHand <=> c.status \in InHand)

\* Nothing has happened to the card that a message of it would not show.
Steady(s, u, t, n) ==
    /\ u.cards[t][n].version = s.cards[t][n].version
    /\ s.cards[t][n].status \in InHand

Advances(s, u) ==
    /\ \A t \in Tasks :
         /\ DOMAIN s.cards[t] \subseteq DOMAIN u.cards[t]
         /\ \A n \in DOMAIN s.cards[t] :
              /\ CardOn(s.cards[t][n], u.cards[t][n])
              /\ Steady(s, u, t, n) =>
                   /\ Binds(u.evidence, <<t, n>>) = Binds(s.evidence, <<t, n>>)
                   /\ Binds(u.proposals, <<t, n>>) = Binds(s.proposals, <<t, n>>)

\* Without the reader a question keeps its state or is superseded.
Lapses(qs, qs2) ==
    /\ DOMAIN qs2 = DOMAIN qs
    /\ \A i \in DOMAIN qs :
         \/ qs2[i].state = qs[i].state
         \/ qs[i].state = "proposed" /\ qs2[i].state = "superseded"

SamePairs(ps, ps2) ==
    \A i \in DOMAIN ps :
        /\ ps2[i].left = ps[i].left /\ ps2[i].right = ps[i].right
        /\ ps2[i].left_version = ps[i].left_version
        /\ ps2[i].right_version = ps[i].right_version

\* What a part of a pass does.
Passes(s, u) ==
    /\ u \in Tables
    /\ Sound(u)
    /\ Advances(s, u)
    /\ Lapses(s.evidence, u.evidence)
    /\ Lapses(s.proposals, u.proposals)
    /\ SamePairs(s.proposals, u.proposals)

LEMMA AdvancesTwice ==
    ASSUME NEW s \in Tables, NEW u \in Tables, NEW v \in Tables,
           Advances(s, u), Advances(u, v)
    PROVE  Advances(s, v)
<1> SUFFICES ASSUME NEW t \in Tasks, NEW n \in DOMAIN s.cards[t]
             PROVE  /\ n \in DOMAIN v.cards[t]
                    /\ CardOn(s.cards[t][n], v.cards[t][n])
                    /\ Steady(s, v, t, n) =>
                         /\ Binds(v.evidence, <<t, n>>) = Binds(s.evidence, <<t, n>>)
                         /\ Binds(v.proposals, <<t, n>>) = Binds(s.proposals, <<t, n>>)
  BY DEF Advances
<1>1. n \in DOMAIN u.cards[t] /\ n \in DOMAIN v.cards[t]
  BY DEF Advances
<1>2. /\ CardOn(s.cards[t][n], u.cards[t][n])
      /\ CardOn(u.cards[t][n], v.cards[t][n])
  BY <1>1 DEF Advances
<1>3. /\ s.cards[t][n] \in CardRows /\ u.cards[t][n] \in CardRows
      /\ v.cards[t][n] \in CardRows
  <2>1. /\ s.cards[t] \in Seq(CardRows) /\ u.cards[t] \in Seq(CardRows)
        /\ v.cards[t] \in Seq(CardRows)
    BY DEF Tables
  <2> QED BY ONLY <1>1, <2>1, n \in DOMAIN s.cards[t]
<1>4. /\ s.cards[t][n].version \in Nat /\ u.cards[t][n].version \in Nat
      /\ v.cards[t][n].version \in Nat
  BY ONLY <1>3 DEF CardRows
<1>5. CardOn(s.cards[t][n], v.cards[t][n])
  BY ONLY <1>2, <1>4 DEF CardOn
<1>6. ASSUME Steady(s, v, t, n)
      PROVE  Steady(s, u, t, n) /\ Steady(u, v, t, n)
  BY ONLY <1>2, <1>4, <1>6 DEF Steady, CardOn
<1>7. Steady(s, v, t, n) =>
        /\ Binds(v.evidence, <<t, n>>) = Binds(s.evidence, <<t, n>>)
        /\ Binds(v.proposals, <<t, n>>) = Binds(s.proposals, <<t, n>>)
  BY <1>1, <1>6 DEF Advances
<1> QED BY <1>1, <1>5, <1>7

LEMMA LapsesTwice ==
    ASSUME NEW a, NEW b, NEW c, Lapses(a, b), Lapses(b, c)
    PROVE  Lapses(a, c)
  BY DEF Lapses

LEMMA PassesTwice ==
    ASSUME NEW s \in Tables, NEW u, NEW v, Passes(s, u), Passes(u, v)
    PROVE  Passes(s, v)
<1>1. u \in Tables /\ v \in Tables
  BY DEF Passes
<1>2. Advances(s, v)
  BY <1>1, AdvancesTwice DEF Passes
<1>3. /\ Lapses(s.evidence, v.evidence) /\ Lapses(s.proposals, v.proposals)
  BY LapsesTwice DEF Passes
<1>4. SamePairs(s.proposals, v.proposals)
  BY DEF Passes, SamePairs, Lapses
<1> QED BY <1>2, <1>3, <1>4 DEF Passes

-----------------------------------------------------------------------------
(* Sets, sequences and rows                                                *)

\* A set of numbers that is not empty has a first element.
LEMMA FirstIsIn ==
    ASSUME NEW S, S \subseteq Nat, S # {}
    PROVE  First(S) \in S /\ \A j \in S : First(S) <= j
<1> DEFINE less == {p \in Nat \X Nat : p[1] < p[2]}
<1>1. IsWellFoundedOn(less, Nat)
  BY NatLessThanWellFounded DEF OpToRel
<1> HIDE DEF less
<1>2. PICK x \in S : \A y \in S : ~(<<y, x>> \in less)
  BY ONLY <1>1, S \subseteq Nat, S # {}, WFMin, Zenon
<1>3. \A y \in S : x <= y
  <2> SUFFICES ASSUME NEW y \in S PROVE x <= y
    OBVIOUS
  <2>1. x \in Nat /\ y \in Nat
    OBVIOUS
  <2>2. ~(y < x)
    BY ONLY <1>2, <2>1 DEF less
  <2> QED BY <2>1, <2>2
<1> QED BY <1>3 DEF First

LEMMA PlaceIsCard == \A t, n : <<t, n>> # NoCard
  BY DEF NoCard

\* A sequence changed place by place.
LEMMA Reshaped ==
    ASSUME NEW S, NEW q \in Seq(S), NEW T, NEW f,
           DOMAIN f = DOMAIN q, f = [i \in DOMAIN q |-> f[i]],
           \A i \in DOMAIN q : f[i] \in T
    PROVE  f \in Seq(T) /\ Len(f) = Len(q)
<1>1. Len(q) \in Nat /\ DOMAIN q = 1..Len(q)
  OBVIOUS
<1>2. f \in [1..Len(q) -> T]
  BY <1>1
<1>3. f \in Seq(T)
  BY <1>1, <1>2
<1> QED BY <1>1, <1>3

LEMMA CardsTyped ==
    ASSUME NEW cs \in [Tasks -> Seq(CardRows)], NEW t \in Tasks
    PROVE  /\ cs[t] \in Seq(CardRows) /\ Len(cs[t]) \in Nat
           /\ DOMAIN cs[t] = 1..Len(cs[t])
           /\ \A n \in DOMAIN cs[t] :
                /\ cs[t][n] \in CardRows /\ cs[t][n].version \in Nat \ {0}
                /\ n \in Nat
<1>1. cs[t] \in Seq(CardRows)
  OBVIOUS
<1>2. Len(cs[t]) \in Nat /\ DOMAIN cs[t] = 1..Len(cs[t])
  BY <1>1
<1>3. \A n \in DOMAIN cs[t] : cs[t][n] \in CardRows /\ n \in Nat
  BY <1>1, <1>2
<1>4. \A c \in CardRows : c.version \in Nat \ {0}
  BY DEF CardRows
<1> QED BY <1>1, <1>2, <1>3, <1>4

-----------------------------------------------------------------------------
(* Questions are bound, released and settled                               *)

Places == (Tasks \X (1..MaxCards)) \cup {NoCard}
EvidenceStates == {"proposed", "accepted", "rejected", "superseded"}
ProposalStates == {"proposed", "confirmed", "rejected", "superseded"}

LEMMA QuestionsTyped ==
    /\ \A es \in Seq(EvidenceRows) : \A i \in DOMAIN es : es[i] \in EvidenceRows /\ i \in Nat
    /\ \A ps \in Seq(ProposalRows) : \A i \in DOMAIN ps : ps[i] \in ProposalRows /\ i \in Nat
  OBVIOUS

\* The state and the card of each question after a release, a binding and a
\* settlement; what it is about stays.
Released(qs, rs, ids) ==
    /\ DOMAIN rs = DOMAIN qs
    /\ \A i \in DOMAIN qs :
         /\ rs[i].state = qs[i].state
         /\ qs[i].state = "proposed" /\ qs[i].card \in ids => rs[i].card = NoCard
         /\ ~(qs[i].state = "proposed" /\ qs[i].card \in ids) => rs[i].card = qs[i].card
Rebound(qs, rs, f) ==
    /\ DOMAIN rs = DOMAIN qs
    /\ \A i \in DOMAIN qs :
         /\ rs[i].state = qs[i].state
         /\ i \in DOMAIN f => rs[i].card = f[i]
         /\ i \notin DOMAIN f => rs[i].card = qs[i].card
SettledTo(qs, rs, S, st) ==
    /\ DOMAIN rs = DOMAIN qs
    /\ \A i \in DOMAIN qs :
         /\ rs[i].card = qs[i].card
         /\ i \in S => rs[i].state = st
         /\ i \notin S => rs[i].state = qs[i].state
SameTasks(es, es2) == \A i \in DOMAIN es : es2[i].task = es[i].task

LEMMA EvidenceReleased ==
    ASSUME NEW es \in Seq(EvidenceRows), NEW ids
    PROVE  LET rs == Release(es, ids)
           IN  /\ rs \in Seq(EvidenceRows)
               /\ Released(es, rs, ids) /\ SameTasks(es, rs)
<1> DEFINE rs == Release(es, ids)
<1>1. /\ DOMAIN rs = DOMAIN es /\ rs = [i \in DOMAIN es |-> rs[i]]
      /\ \A i \in DOMAIN es :
           rs[i] = IF es[i].state = "proposed" /\ es[i].card \in ids
                   THEN [es[i] EXCEPT !.card = NoCard] ELSE es[i]
  BY DEF Release
<1> HIDE DEF rs
<1>2. NoCard \in Places /\ "proposed" \in EvidenceStates
  BY DEF Places, EvidenceStates
<1>3. ASSUME NEW i \in DOMAIN es
      PROVE  /\ rs[i] \in EvidenceRows
             /\ rs[i].state = es[i].state /\ rs[i].task = es[i].task
             /\ es[i].state = "proposed" /\ es[i].card \in ids => rs[i].card = NoCard
             /\ ~(es[i].state = "proposed" /\ es[i].card \in ids) => rs[i].card = es[i].card
  <2>1. es[i] \in EvidenceRows
    BY QuestionsTyped
  <2> QED BY ONLY <1>1, <1>2, <2>1, i \in DOMAIN es
      DEF EvidenceRows, Places, EvidenceStates
<1>4. rs \in Seq(EvidenceRows)
  BY ONLY <1>1, <1>3, es \in Seq(EvidenceRows), Reshaped
<1> QED BY <1>1, <1>3, <1>4 DEF rs, Released, SameTasks

LEMMA EvidenceRebound ==
    ASSUME NEW es \in Seq(EvidenceRows), NEW f, \A i \in DOMAIN f : f[i] \in Places
    PROVE  LET rs == BindTo(es, f)
           IN  /\ rs \in Seq(EvidenceRows)
               /\ Rebound(es, rs, f) /\ SameTasks(es, rs)
<1> DEFINE rs == BindTo(es, f)
<1>1. /\ DOMAIN rs = DOMAIN es /\ rs = [i \in DOMAIN es |-> rs[i]]
      /\ \A i \in DOMAIN es :
           rs[i] = IF i \in DOMAIN f THEN [es[i] EXCEPT !.card = f[i]] ELSE es[i]
  BY DEF BindTo
<1> HIDE DEF rs
<1>2. "proposed" \in EvidenceStates
  BY DEF EvidenceStates
<1>3. ASSUME NEW i \in DOMAIN es
      PROVE  /\ rs[i] \in EvidenceRows
             /\ rs[i].state = es[i].state /\ rs[i].task = es[i].task
             /\ i \in DOMAIN f => rs[i].card = f[i]
             /\ i \notin DOMAIN f => rs[i].card = es[i].card
  <2>1. es[i] \in EvidenceRows
    BY QuestionsTyped
  <2>2. i \in DOMAIN f => f[i] \in Places
    OBVIOUS
  <2> QED BY ONLY <1>1, <1>2, <2>1, <2>2, i \in DOMAIN es
      DEF EvidenceRows, Places, EvidenceStates
<1>4. rs \in Seq(EvidenceRows)
  BY ONLY <1>1, <1>3, es \in Seq(EvidenceRows), Reshaped
<1> QED BY <1>1, <1>3, <1>4 DEF rs, Rebound, SameTasks

LEMMA EvidenceSettled ==
    ASSUME NEW es \in Seq(EvidenceRows), NEW S, NEW st \in EvidenceStates
    PROVE  LET rs == Settle(es, S, st)
           IN  /\ rs \in Seq(EvidenceRows)
               /\ SettledTo(es, rs, S, st) /\ SameTasks(es, rs)
<1> DEFINE rs == Settle(es, S, st)
<1>1. /\ DOMAIN rs = DOMAIN es /\ rs = [i \in DOMAIN es |-> rs[i]]
      /\ \A i \in DOMAIN es :
           rs[i] = IF i \in S THEN [es[i] EXCEPT !.state = st] ELSE es[i]
  BY DEF Settle
<1> HIDE DEF rs
<1>2. NoCard \in Places
  BY DEF Places
<1>3. ASSUME NEW i \in DOMAIN es
      PROVE  /\ rs[i] \in EvidenceRows
             /\ rs[i].card = es[i].card /\ rs[i].task = es[i].task
             /\ i \in S => rs[i].state = st
             /\ i \notin S => rs[i].state = es[i].state
  <2>1. es[i] \in EvidenceRows
    BY QuestionsTyped
  <2> QED BY ONLY <1>1, <1>2, <2>1, i \in DOMAIN es, st \in EvidenceStates
      DEF EvidenceRows, Places, EvidenceStates
<1>4. rs \in Seq(EvidenceRows)
  BY ONLY <1>1, <1>3, es \in Seq(EvidenceRows), Reshaped
<1> QED BY <1>1, <1>3, <1>4 DEF rs, SettledTo, SameTasks

LEMMA ProposalsReleased ==
    ASSUME NEW ps \in Seq(ProposalRows), NEW ids
    PROVE  LET rs == Release(ps, ids)
           IN  /\ rs \in Seq(ProposalRows)
               /\ Released(ps, rs, ids) /\ SamePairs(ps, rs)
<1> DEFINE rs == Release(ps, ids)
<1>1. /\ DOMAIN rs = DOMAIN ps /\ rs = [i \in DOMAIN ps |-> rs[i]]
      /\ \A i \in DOMAIN ps :
           rs[i] = IF ps[i].state = "proposed" /\ ps[i].card \in ids
                   THEN [ps[i] EXCEPT !.card = NoCard] ELSE ps[i]
  BY DEF Release
<1> HIDE DEF rs
<1>2. NoCard \in Places /\ "proposed" \in ProposalStates
  BY DEF Places, ProposalStates
<1>3. ASSUME NEW i \in DOMAIN ps
      PROVE  /\ rs[i] \in ProposalRows
             /\ rs[i].left = ps[i].left /\ rs[i].right = ps[i].right
             /\ rs[i].left_version = ps[i].left_version
             /\ rs[i].right_version = ps[i].right_version
             /\ rs[i].state = ps[i].state
             /\ ps[i].state = "proposed" /\ ps[i].card \in ids => rs[i].card = NoCard
             /\ ~(ps[i].state = "proposed" /\ ps[i].card \in ids) => rs[i].card = ps[i].card
  <2>1. ps[i] \in ProposalRows
    BY QuestionsTyped
  <2> QED BY ONLY <1>1, <1>2, <2>1, i \in DOMAIN ps
      DEF ProposalRows, Places, ProposalStates
<1>4. rs \in Seq(ProposalRows)
  BY ONLY <1>1, <1>3, ps \in Seq(ProposalRows), Reshaped
<1> QED BY <1>1, <1>3, <1>4 DEF rs, Released, SamePairs

LEMMA ProposalsRebound ==
    ASSUME NEW ps \in Seq(ProposalRows), NEW f, \A i \in DOMAIN f : f[i] \in Places
    PROVE  LET rs == BindTo(ps, f)
           IN  /\ rs \in Seq(ProposalRows)
               /\ Rebound(ps, rs, f) /\ SamePairs(ps, rs)
<1> DEFINE rs == BindTo(ps, f)
<1>1. /\ DOMAIN rs = DOMAIN ps /\ rs = [i \in DOMAIN ps |-> rs[i]]
      /\ \A i \in DOMAIN ps :
           rs[i] = IF i \in DOMAIN f THEN [ps[i] EXCEPT !.card = f[i]] ELSE ps[i]
  BY DEF BindTo
<1> HIDE DEF rs
<1>2. "proposed" \in ProposalStates
  BY DEF ProposalStates
<1>3. ASSUME NEW i \in DOMAIN ps
      PROVE  /\ rs[i] \in ProposalRows
             /\ rs[i].left = ps[i].left /\ rs[i].right = ps[i].right
             /\ rs[i].left_version = ps[i].left_version
             /\ rs[i].right_version = ps[i].right_version
             /\ rs[i].state = ps[i].state
             /\ i \in DOMAIN f => rs[i].card = f[i]
             /\ i \notin DOMAIN f => rs[i].card = ps[i].card
  <2>1. ps[i] \in ProposalRows
    BY QuestionsTyped
  <2>2. i \in DOMAIN f => f[i] \in Places
    OBVIOUS
  <2> QED BY ONLY <1>1, <1>2, <2>1, <2>2, i \in DOMAIN ps
      DEF ProposalRows, Places, ProposalStates
<1>4. rs \in Seq(ProposalRows)
  BY ONLY <1>1, <1>3, ps \in Seq(ProposalRows), Reshaped
<1> QED BY <1>1, <1>3, <1>4 DEF rs, Rebound, SamePairs

LEMMA ProposalsSettled ==
    ASSUME NEW ps \in Seq(ProposalRows), NEW S, NEW st \in ProposalStates
    PROVE  LET rs == Settle(ps, S, st)
           IN  /\ rs \in Seq(ProposalRows)
               /\ SettledTo(ps, rs, S, st) /\ SamePairs(ps, rs)
<1> DEFINE rs == Settle(ps, S, st)
<1>1. /\ DOMAIN rs = DOMAIN ps /\ rs = [i \in DOMAIN ps |-> rs[i]]
      /\ \A i \in DOMAIN ps :
           rs[i] = IF i \in S THEN [ps[i] EXCEPT !.state = st] ELSE ps[i]
  BY DEF Settle
<1> HIDE DEF rs
<1>2. NoCard \in Places
  BY DEF Places
<1>3. ASSUME NEW i \in DOMAIN ps
      PROVE  /\ rs[i] \in ProposalRows
             /\ rs[i].left = ps[i].left /\ rs[i].right = ps[i].right
             /\ rs[i].left_version = ps[i].left_version
             /\ rs[i].right_version = ps[i].right_version
             /\ rs[i].card = ps[i].card
             /\ i \in S => rs[i].state = st
             /\ i \notin S => rs[i].state = ps[i].state
  <2>1. ps[i] \in ProposalRows
    BY QuestionsTyped
  <2> QED BY ONLY <1>1, <1>2, <2>1, i \in DOMAIN ps, st \in ProposalStates
      DEF ProposalRows, Places, ProposalStates
<1>4. rs \in Seq(ProposalRows)
  BY ONLY <1>1, <1>3, ps \in Seq(ProposalRows), Reshaped
<1> QED BY <1>1, <1>3, <1>4 DEF rs, SettledTo, SamePairs

-----------------------------------------------------------------------------
(* Cards change                                                            *)

\* A change of cards that makes none.
CardsEdited(cs, ds) ==
    /\ ds \in [Tasks -> Seq(CardRows)]
    /\ \A t \in Tasks :
         /\ DOMAIN ds[t] = DOMAIN cs[t]
         /\ \A n \in DOMAIN cs[t] : CardOn(cs[t][n], ds[t][n])

\* ds is cs card by card.
IsEdit(cs, ds) == ds = [t \in Tasks |-> [n \in DOMAIN cs[t] |-> ds[t][n]]]

LEMMA EditTyped ==
    ASSUME NEW cs \in [Tasks -> Seq(CardRows)], NEW ds, IsEdit(cs, ds),
           \A t \in Tasks : \A n \in DOMAIN cs[t] : ds[t][n] \in CardRows
    PROVE  /\ ds \in [Tasks -> Seq(CardRows)]
           /\ \A t \in Tasks : DOMAIN ds[t] = DOMAIN cs[t]
<1>1. ASSUME NEW t \in Tasks
      PROVE  ds[t] \in Seq(CardRows) /\ DOMAIN ds[t] = DOMAIN cs[t]
  <2>1. cs[t] \in Seq(CardRows)
    OBVIOUS
  <2>2. DOMAIN ds[t] = DOMAIN cs[t] /\ ds[t] = [n \in DOMAIN cs[t] |-> ds[t][n]]
    BY DEF IsEdit
  <2>3. \A n \in DOMAIN cs[t] : ds[t][n] \in CardRows
    OBVIOUS
  <2> QED BY ONLY <2>1, <2>2, <2>3, Reshaped
<1>2. DOMAIN ds = Tasks /\ ds = [t \in Tasks |-> ds[t]]
  BY DEF IsEdit
<1> QED BY <1>1, <1>2

\* A card kept as it is.
LEMMA SameCard == \A c \in CardRows : CardOn(c, c)
  BY DEF CardRows, CardOn

\* Cards end, ...
EndAll(cs, ids, st) == Edit(cs, ids, LAMBDA c : Ended(c, st))

LEMMA EndAllRow ==
    ASSUME NEW c \in CardRows, NEW st \in {"resolved", "cancelled", "snoozed"},
           st = "snoozed" => c.status \in Active
    PROVE  LET d == Ended(c, st)
           IN  /\ d \in CardRows /\ CardOn(c, d)
               /\ d.version > c.version /\ d.status = st
<1> DEFINE d == Ended(c, st)
<1>1. c.version \in Nat \ {0} /\ c.version + 1 \in Nat \ {0} /\ c.version + 1 > c.version
  BY DEF CardRows
<1>2. d = [c EXCEPT !.status = st, !.version = c.version + 1,
                    !.consumer = None, !.due = FALSE]
  BY DEF Ended
<1> HIDE DEF d
<1>3. d \in CardRows
  BY <1>1, <1>2 DEF CardRows, Active
<1>4. /\ d.status = st /\ d.version = c.version + 1
      /\ d.task_version = c.task_version /\ d.revision = c.revision
  BY <1>2 DEF CardRows
<1> QED BY <1>1, <1>3, <1>4 DEF d, CardOn, Active, InHand

LEMMA EndAllCards ==
    ASSUME NEW cs \in [Tasks -> Seq(CardRows)], NEW ids, NEW st \in {"resolved", "cancelled", "snoozed"},
           \A t \in Tasks : \A n \in DOMAIN cs[t] :
             <<t, n>> \in ids /\ st = "snoozed" => cs[t][n].status \in Active
    PROVE  LET ds == EndAll(cs, ids, st)
           IN  /\ CardsEdited(cs, ds)
               /\ \A t \in Tasks : \A n \in DOMAIN cs[t] :
                    /\ <<t, n>> \in ids => ds[t][n] = Ended(cs[t][n], st)
                    /\ <<t, n>> \notin ids => ds[t][n] = cs[t][n]
<1> DEFINE ds == EndAll(cs, ids, st)
<1>1. IsEdit(cs, ds)
  BY DEF IsEdit, EndAll, Edit
<1>2. \A t \in Tasks : \A n \in DOMAIN cs[t] :
        /\ <<t, n>> \in ids => ds[t][n] = Ended(cs[t][n], st)
        /\ <<t, n>> \notin ids => ds[t][n] = cs[t][n]
  BY DEF EndAll, Edit
<1> HIDE DEF ds
<1>3. ASSUME NEW t \in Tasks, NEW n \in DOMAIN cs[t]
      PROVE  ds[t][n] \in CardRows /\ CardOn(cs[t][n], ds[t][n])
  <2>1. cs[t][n] \in CardRows
    BY CardsTyped
  <2>2. CASE <<t, n>> \in ids
    <3>1. ds[t][n] = Ended(cs[t][n], st)
      BY <1>2, <2>2
    <3>2. st = "snoozed" => cs[t][n].status \in Active
      BY <2>2
    <3> QED BY <2>1, <3>1, <3>2, EndAllRow
  <2>3. CASE <<t, n>> \notin ids
    BY <1>2, <2>1, <2>3, SameCard
  <2> QED BY <2>2, <2>3
<1>4. /\ ds \in [Tasks -> Seq(CardRows)]
      /\ \A t \in Tasks : DOMAIN ds[t] = DOMAIN cs[t]
  BY <1>1, <1>3, EditTyped
<1> QED BY <1>2, <1>3, <1>4 DEF ds, CardsEdited

\* ... are pending again, ...
PendAll(cs, ids) == Edit(cs, ids, Pending)

LEMMA PendAllRow ==
    ASSUME NEW c \in CardRows,
           c.status \in Active
    PROVE  LET d == Pending(c)
           IN  /\ d \in CardRows /\ CardOn(c, d)
<1> DEFINE d == Pending(c)
<1>1. c.version \in Nat \ {0} /\ c.version + 1 \in Nat \ {0} /\ c.version + 1 > c.version
  BY DEF CardRows
<1>2. d = [c EXCEPT !.status = "pending", !.version = c.version + 1,
                    !.consumer = None, !.due = FALSE]
  BY DEF Pending
<1> HIDE DEF d
<1>3. d \in CardRows
  BY <1>1, <1>2 DEF CardRows, Active
<1>4. /\ d.status = "pending" /\ d.version = c.version + 1
      /\ d.task_version = c.task_version /\ d.revision = c.revision
  BY <1>2 DEF CardRows
<1> QED BY <1>1, <1>3, <1>4 DEF d, CardOn, Active, InHand

LEMMA PendAllCards ==
    ASSUME NEW cs \in [Tasks -> Seq(CardRows)], NEW ids,
           \A t \in Tasks : \A n \in DOMAIN cs[t] : <<t, n>> \in ids =>
             cs[t][n].status \in Active
    PROVE  LET ds == PendAll(cs, ids)
           IN  /\ CardsEdited(cs, ds)
               /\ \A t \in Tasks : \A n \in DOMAIN cs[t] :
                    /\ <<t, n>> \in ids => ds[t][n] = Pending(cs[t][n])
                    /\ <<t, n>> \notin ids => ds[t][n] = cs[t][n]
<1> DEFINE ds == PendAll(cs, ids)
<1>1. IsEdit(cs, ds)
  BY DEF IsEdit, PendAll, Edit
<1>2. \A t \in Tasks : \A n \in DOMAIN cs[t] :
        /\ <<t, n>> \in ids => ds[t][n] = Pending(cs[t][n])
        /\ <<t, n>> \notin ids => ds[t][n] = cs[t][n]
  BY DEF PendAll, Edit
<1> HIDE DEF ds
<1>3. ASSUME NEW t \in Tasks, NEW n \in DOMAIN cs[t]
      PROVE  ds[t][n] \in CardRows /\ CardOn(cs[t][n], ds[t][n])
  <2>1. cs[t][n] \in CardRows
    BY CardsTyped
  <2>2. CASE <<t, n>> \in ids
    <3>1. ds[t][n] = Pending(cs[t][n])
      BY <1>2, <2>2
    <3>2. cs[t][n].status \in Active
      BY <2>2
    <3> QED BY <2>1, <3>1, <3>2, PendAllRow
  <2>3. CASE <<t, n>> \notin ids
    BY <1>2, <2>1, <2>3, SameCard
  <2> QED BY <2>2, <2>3
<1>4. /\ ds \in [Tasks -> Seq(CardRows)]
      /\ \A t \in Tasks : DOMAIN ds[t] = DOMAIN cs[t]
  BY <1>1, <1>3, EditTyped
<1> QED BY <1>2, <1>3, <1>4 DEF ds, CardsEdited

\* ... are leased, ...
LeaseAll(cs, ids, k) == Edit(cs, ids, LAMBDA c : Leased(c, k))

LEMMA LeaseAllRow ==
    ASSUME NEW c \in CardRows, NEW k \in Consumers,
           c.status \in Active
    PROVE  LET d == Leased(c, k)
           IN  /\ d \in CardRows /\ CardOn(c, d)
               /\ d.version = c.version + 1 /\ d.status = "delivering"
               /\ d.task_version = c.task_version
<1> DEFINE d == Leased(c, k)
<1>1. c.version \in Nat \ {0} /\ c.version + 1 \in Nat \ {0} /\ c.version + 1 > c.version
  BY DEF CardRows
<1>2. d = [c EXCEPT !.status = "delivering", !.version = c.version + 1,
                    !.consumer = k, !.due = FALSE]
  BY DEF Leased
<1> HIDE DEF d
<1>3. d \in CardRows
  BY <1>1, <1>2 DEF CardRows, Active
<1>4. /\ d.status = "delivering" /\ d.version = c.version + 1
      /\ d.task_version = c.task_version /\ d.revision = c.revision
  BY <1>2 DEF CardRows
<1> QED BY <1>1, <1>3, <1>4 DEF d, CardOn, Active, InHand

LEMMA LeaseAllCards ==
    ASSUME NEW cs \in [Tasks -> Seq(CardRows)], NEW ids, NEW k \in Consumers,
           \A t \in Tasks : \A n \in DOMAIN cs[t] : <<t, n>> \in ids =>
             cs[t][n].status \in Active
    PROVE  LET ds == LeaseAll(cs, ids, k)
           IN  /\ CardsEdited(cs, ds)
               /\ \A t \in Tasks : \A n \in DOMAIN cs[t] :
                    /\ <<t, n>> \in ids => ds[t][n] = Leased(cs[t][n], k)
                    /\ <<t, n>> \notin ids => ds[t][n] = cs[t][n]
<1> DEFINE ds == LeaseAll(cs, ids, k)
<1>1. IsEdit(cs, ds)
  BY DEF IsEdit, LeaseAll, Edit
<1>2. \A t \in Tasks : \A n \in DOMAIN cs[t] :
        /\ <<t, n>> \in ids => ds[t][n] = Leased(cs[t][n], k)
        /\ <<t, n>> \notin ids => ds[t][n] = cs[t][n]
  BY DEF LeaseAll, Edit
<1> HIDE DEF ds
<1>3. ASSUME NEW t \in Tasks, NEW n \in DOMAIN cs[t]
      PROVE  ds[t][n] \in CardRows /\ CardOn(cs[t][n], ds[t][n])
  <2>1. cs[t][n] \in CardRows
    BY CardsTyped
  <2>2. CASE <<t, n>> \in ids
    <3>1. ds[t][n] = Leased(cs[t][n], k)
      BY <1>2, <2>2
    <3>2. cs[t][n].status \in Active
      BY <2>2
    <3> QED BY <2>1, <3>1, <3>2, LeaseAllRow
  <2>3. CASE <<t, n>> \notin ids
    BY <1>2, <2>1, <2>3, SameCard
  <2> QED BY <2>2, <2>3
<1>4. /\ ds \in [Tasks -> Seq(CardRows)]
      /\ \A t \in Tasks : DOMAIN ds[t] = DOMAIN cs[t]
  BY <1>1, <1>3, EditTyped
<1> QED BY <1>2, <1>3, <1>4 DEF ds, CardsEdited

\* ... delivered, ...
Acknowledged(c) == [c EXCEPT !.status = "delivered", !.due = FALSE]
DeliverAll(cs, ids) == Edit(cs, ids, Acknowledged)

LEMMA DeliverAllRow ==
    ASSUME NEW c \in CardRows,
           c.status = "delivering"
    PROVE  LET d == Acknowledged(c)
           IN  /\ d \in CardRows /\ CardOn(c, d)
  BY DEF Acknowledged, CardRows, CardOn, Active, InHand

LEMMA DeliverAllCards ==
    ASSUME NEW cs \in [Tasks -> Seq(CardRows)], NEW ids,
           \A t \in Tasks : \A n \in DOMAIN cs[t] : <<t, n>> \in ids =>
             cs[t][n].status = "delivering"
    PROVE  LET ds == DeliverAll(cs, ids)
           IN  /\ CardsEdited(cs, ds)
               /\ \A t \in Tasks : \A n \in DOMAIN cs[t] :
                    /\ <<t, n>> \in ids => ds[t][n] = Acknowledged(cs[t][n])
                    /\ <<t, n>> \notin ids => ds[t][n] = cs[t][n]
<1> DEFINE ds == DeliverAll(cs, ids)
<1>1. IsEdit(cs, ds)
  BY DEF IsEdit, DeliverAll, Edit
<1>2. \A t \in Tasks : \A n \in DOMAIN cs[t] :
        /\ <<t, n>> \in ids => ds[t][n] = Acknowledged(cs[t][n])
        /\ <<t, n>> \notin ids => ds[t][n] = cs[t][n]
  BY DEF DeliverAll, Edit, Acknowledged
<1> HIDE DEF ds
<1>3. ASSUME NEW t \in Tasks, NEW n \in DOMAIN cs[t]
      PROVE  ds[t][n] \in CardRows /\ CardOn(cs[t][n], ds[t][n])
  <2>1. cs[t][n] \in CardRows
    BY CardsTyped
  <2>2. CASE <<t, n>> \in ids
    <3>1. ds[t][n] = Acknowledged(cs[t][n])
      BY <1>2, <2>2
    <3>2. cs[t][n].status = "delivering"
      BY <2>2
    <3> QED BY <2>1, <3>1, <3>2, DeliverAllRow
  <2>3. CASE <<t, n>> \notin ids
    BY <1>2, <2>1, <2>3, SameCard
  <2> QED BY <2>2, <2>3
<1>4. /\ ds \in [Tasks -> Seq(CardRows)]
      /\ \A t \in Tasks : DOMAIN ds[t] = DOMAIN cs[t]
  BY <1>1, <1>3, EditTyped
<1> QED BY <1>2, <1>3, <1>4 DEF ds, CardsEdited

\* ... or due.
Overdue(c) == [c EXCEPT !.due = TRUE]
DueAll(cs, ids) == Edit(cs, ids, Overdue)

LEMMA DueAllRow ==
    ASSUME NEW c \in CardRows
    PROVE  LET d == Overdue(c)
           IN  /\ d \in CardRows /\ CardOn(c, d)
  BY DEF Overdue, CardRows, CardOn, Active, InHand

LEMMA DueAllCards ==
    ASSUME NEW cs \in [Tasks -> Seq(CardRows)], NEW ids
    PROVE  LET ds == DueAll(cs, ids)
           IN  /\ CardsEdited(cs, ds)
               /\ \A t \in Tasks : \A n \in DOMAIN cs[t] :
                    /\ <<t, n>> \in ids => ds[t][n] = Overdue(cs[t][n])
                    /\ <<t, n>> \notin ids => ds[t][n] = cs[t][n]
<1> DEFINE ds == DueAll(cs, ids)
<1>1. IsEdit(cs, ds)
  BY DEF IsEdit, DueAll, Edit
<1>2. \A t \in Tasks : \A n \in DOMAIN cs[t] :
        /\ <<t, n>> \in ids => ds[t][n] = Overdue(cs[t][n])
        /\ <<t, n>> \notin ids => ds[t][n] = cs[t][n]
  BY DEF DueAll, Edit, Overdue
<1> HIDE DEF ds
<1>3. ASSUME NEW t \in Tasks, NEW n \in DOMAIN cs[t]
      PROVE  ds[t][n] \in CardRows /\ CardOn(cs[t][n], ds[t][n])
  <2>1. cs[t][n] \in CardRows
    BY CardsTyped
  <2>2. CASE <<t, n>> \in ids
    <3>1. ds[t][n] = Overdue(cs[t][n])
      BY <1>2, <2>2
    <3> QED BY <2>1, <3>1, DueAllRow
  <2>3. CASE <<t, n>> \notin ids
    BY <1>2, <2>1, <2>3, SameCard
  <2> QED BY <2>2, <2>3
<1>4. /\ ds \in [Tasks -> Seq(CardRows)]
      /\ \A t \in Tasks : DOMAIN ds[t] = DOMAIN cs[t]
  BY <1>1, <1>3, EditTyped
<1> QED BY <1>2, <1>3, <1>4 DEF ds, CardsEdited

-----------------------------------------------------------------------------
(* The tables after a change of cards, after a release and after a binding *)

LEMMA EditedKeepsPlay ==
    ASSUME NEW cs, NEW ds, CardsEdited(cs, ds), OneInPlay(cs)
    PROVE  OneInPlay(ds)
  BY DEF CardsEdited, CardOn, OneInPlay, ActiveIn

LEMMA EditedPasses ==
    ASSUME NEW s \in Tables, Sound(s), NEW u \in Tables,
           CardsEdited(s.cards, u.cards),
           u.evidence = s.evidence, u.proposals = s.proposals
    PROVE  Passes(s, u)
<1>1. Sound(u)
  <2>1. OneInPlay(u.cards)
    BY EditedKeepsPlay DEF Sound
  <2>2. BoundWell(u.evidence, u.cards) /\ BoundWell(u.proposals, u.cards)
    BY DEF Sound, BoundWell, CardsEdited
  <2> QED BY <2>1, <2>2 DEF Sound
<1>2. Advances(s, u)
  BY DEF Advances, CardsEdited
<1>3. /\ Lapses(s.evidence, u.evidence) /\ Lapses(s.proposals, u.proposals)
      /\ SamePairs(s.proposals, u.proposals)
  BY DEF Lapses, SamePairs
<1> QED BY <1>1, <1>2, <1>3 DEF Passes

\* A release keeps questions where they belong, ...
LEMMA ReleasedWell ==
    ASSUME NEW qs, NEW rs, NEW ids, Released(qs, rs, ids), NEW cs, NEW ds,
           CardsEdited(cs, ds), BoundWell(qs, cs)
    PROVE  BoundWell(rs, ds)
  BY DEF Released, BoundWell, CardsEdited

\* ... and those of cards it does not name stay with them.
LEMMA ReleasedBinds ==
    ASSUME NEW qs, NEW rs, NEW ids, Released(qs, rs, ids), NEW c, c # NoCard,
           c \notin ids
    PROVE  Binds(rs, c) = Binds(qs, c)
  BY DEF Released, Binds

\* What the cancellation of cards does: their questions are free again.
LEMMA CancelledPasses ==
    ASSUME NEW s \in Tables, Sound(s), NEW gone, NEW u \in Tables,
           u.cards = EndAll(s.cards, gone, "cancelled"),
           u.evidence = Release(s.evidence, gone),
           u.proposals = Release(s.proposals, gone)
    PROVE  Passes(s, u)
<1>0. /\ s.cards \in [Tasks -> Seq(CardRows)] /\ s.evidence \in Seq(EvidenceRows)
      /\ s.proposals \in Seq(ProposalRows)
  BY DEF Tables
<1>1. /\ CardsEdited(s.cards, u.cards)
      /\ \A t \in Tasks : \A n \in DOMAIN s.cards[t] :
           <<t, n>> \in gone => u.cards[t][n].version > s.cards[t][n].version
  <2>1. /\ CardsEdited(s.cards, u.cards)
        /\ \A t \in Tasks : \A n \in DOMAIN s.cards[t] :
             <<t, n>> \in gone => u.cards[t][n] = Ended(s.cards[t][n], "cancelled")
    BY <1>0, EndAllCards
  <2>2. \A t \in Tasks : \A n \in DOMAIN s.cards[t] :
          Ended(s.cards[t][n], "cancelled").version > s.cards[t][n].version
    BY <1>0, CardsTyped, EndAllRow
  <2> QED BY <2>1, <2>2
<1>2. Released(s.evidence, u.evidence, gone) /\ SameTasks(s.evidence, u.evidence)
  BY <1>0, EvidenceReleased
<1>3. Released(s.proposals, u.proposals, gone) /\ SamePairs(s.proposals, u.proposals)
  BY <1>0, ProposalsReleased
<1>4. Sound(u)
  <2>1. OneInPlay(u.cards)
    BY <1>1, EditedKeepsPlay DEF Sound
  <2>2. BoundWell(u.evidence, u.cards) /\ BoundWell(u.proposals, u.cards)
    BY <1>1, <1>2, <1>3, ReleasedWell DEF Sound
  <2>3. AtHome(u.evidence)
    BY <1>2 DEF Sound, AtHome, Released, SameTasks
  <2>4. OneComparison(u.proposals)
    BY <1>3 DEF Sound, OneComparison, Released
  <2> QED BY <2>1, <2>2, <2>3, <2>4 DEF Sound
<1>5. Advances(s, u)
  <2> SUFFICES ASSUME NEW t \in Tasks, NEW n \in DOMAIN s.cards[t], Steady(s, u, t, n)
               PROVE  /\ Binds(u.evidence, <<t, n>>) = Binds(s.evidence, <<t, n>>)
                      /\ Binds(u.proposals, <<t, n>>) = Binds(s.proposals, <<t, n>>)
    BY <1>1 DEF Advances, CardsEdited
  <2>1. s.cards[t][n].version \in Nat
    BY <1>0, CardsTyped
  <2>2. <<t, n>> \notin gone
    BY <1>1, <2>1 DEF Steady
  <2> QED BY <1>2, <1>3, <2>2, PlaceIsCard, ReleasedBinds
<1>6. Lapses(s.evidence, u.evidence) /\ Lapses(s.proposals, u.proposals)
  BY <1>2, <1>3 DEF Released, Lapses
<1> QED BY <1>3, <1>4, <1>5, <1>6 DEF Passes

LEMMA NowIsTables == TypeOK => Now \in Tables
  BY DEF TypeOK, Now, Tables

LEMMA CancelStalePasses ==
    ASSUME TypeOK, Sound(Now)
    PROVE  CancelStale(Now) \in Tables /\ Passes(Now, CancelStale(Now))
<1> DEFINE s == Now
           u == CancelStale(Now)
           gone == {id \in CardIds :
                      LET c == s.cards[id[1]][id[2]]
                      IN  c.status \in Active /\ Stale(s.proposals, c, id)}
<1>1. s \in Tables /\ Sound(s)
  BY NowIsTables
<1>2. /\ u = [cards |-> u.cards, evidence |-> u.evidence, proposals |-> u.proposals]
      /\ u.cards = EndAll(s.cards, gone, "cancelled")
      /\ u.evidence = Release(s.evidence, gone)
      /\ u.proposals = Release(s.proposals, gone)
  BY DEF CancelStale, EndAll
<1> HIDE DEF u, gone, s
<1>3. u \in Tables
  <2>1. /\ s.cards \in [Tasks -> Seq(CardRows)] /\ s.evidence \in Seq(EvidenceRows)
        /\ s.proposals \in Seq(ProposalRows)
    BY <1>1 DEF Tables
  <2>2. u.cards \in [Tasks -> Seq(CardRows)]
    <3>1. "cancelled" \in {"resolved", "cancelled", "snoozed"}
      OBVIOUS
    <3>2. CardsEdited(s.cards, u.cards)
      BY <1>2, <2>1, <3>1, EndAllCards
    <3> QED BY <3>2 DEF CardsEdited
  <2>3. u.evidence \in Seq(EvidenceRows) /\ u.proposals \in Seq(ProposalRows)
    BY <1>2, <2>1, EvidenceReleased, ProposalsReleased
  <2> QED BY <1>2, <2>2, <2>3 DEF Tables
<1>4. Passes(s, u)
  BY <1>1, <1>2, <1>3, CancelledPasses
<1> QED BY <1>3, <1>4 DEF s, u

-----------------------------------------------------------------------------
(* A pass asks its questions                                               *)

LEMMA NewCardTyped ==
    ASSUME TypeOK, NEW t \in Tasks
    PROVE  /\ NewCard(t) \in CardRows /\ NewCard(t).status = "pending"
           /\ Current(NewCard(t), t) <=> task[t].status = "open"
<1>1. task[t].version \in Nat \ {0} /\ task[t].revision \in Nat
  BY DEF TypeOK
<1>2. 1 \in Nat \ {0}
  OBVIOUS
<1> QED BY <1>1, <1>2 DEF NewCard, CardRows, Active, Current

\* The card of t that a question joins is pending or new.
Joins(s, ds, t, n) ==
    /\ n \in DOMAIN ds[t]
    /\ n \in DOMAIN s.cards[t] => n \in ActiveIn(s.cards, t)

\* The cards of t after its question was placed, if it had one.
Raised(s, ts, ds, t) ==
    /\ DOMAIN s.cards[t] \subseteq DOMAIN ds[t]
    /\ \A n \in DOMAIN s.cards[t] : ds[t][n] = s.cards[t][n]
    /\ \A n \in DOMAIN ds[t] \ DOMAIN s.cards[t] :
         /\ n = Len(s.cards[t]) + 1 /\ n = Len(ds[t])
         /\ t \in ts /\ ActiveIn(s.cards, t) = {}
         /\ ds[t][n] = NewCard(t)
    /\ t \in ts => \E n : Place(s, t) = <<t, n>> /\ Joins(s, ds, t, n)

LEMMA RaisedCards ==
    ASSUME TypeOK, NEW s \in Tables, NEW ts
    PROVE  /\ Raise(s, ts) \in [Tasks -> Seq(CardRows)]
           /\ \A t \in Tasks : Raised(s, ts, Raise(s, ts), t)
<1> DEFINE ds == Raise(s, ts)
<1>1. /\ DOMAIN ds = Tasks
      /\ \A t \in Tasks : ds[t] = IF t \in ts /\ ActiveIn(s.cards, t) = {}
                                  THEN Append(s.cards[t], NewCard(t)) ELSE s.cards[t]
      /\ ds = [t \in Tasks |-> ds[t]]
  BY DEF Raise
<1> HIDE DEF ds
<1>2. ASSUME NEW t \in Tasks
      PROVE  ds[t] \in Seq(CardRows) /\ Raised(s, ts, ds, t)
  <2>0. s.cards \in [Tasks -> Seq(CardRows)]
    BY DEF Tables
  <2>1. /\ s.cards[t] \in Seq(CardRows) /\ Len(s.cards[t]) \in Nat
        /\ DOMAIN s.cards[t] = 1..Len(s.cards[t])
        /\ NewCard(t) \in CardRows
    BY <2>0, CardsTyped, NewCardTyped
  <2>2. CASE t \in ts /\ ActiveIn(s.cards, t) = {}
    <3>1. ds[t] = Append(s.cards[t], NewCard(t))
      BY <1>1, <2>2
    <3>2. /\ ds[t] \in Seq(CardRows) /\ Len(ds[t]) = Len(s.cards[t]) + 1
          /\ DOMAIN ds[t] = 1..(Len(s.cards[t]) + 1)
          /\ \A n \in 1..Len(s.cards[t]) : ds[t][n] = s.cards[t][n]
          /\ ds[t][Len(s.cards[t]) + 1] = NewCard(t)
      BY ONLY <2>1, <3>1
    <3>3. Place(s, t) = <<t, Len(s.cards[t]) + 1>>
      BY <2>2 DEF Place
    <3>4. Joins(s, ds, t, Len(s.cards[t]) + 1)
      BY ONLY <2>1, <3>2 DEF Joins
    <3> HIDE DEF Joins, Place
    <3> QED BY <2>1, <2>2, <3>2, <3>3, <3>4 DEF Raised
  <2>3. CASE ~(t \in ts /\ ActiveIn(s.cards, t) = {})
    <3>1. ds[t] = s.cards[t]
      BY <1>1, <2>3
    <3>2. ASSUME t \in ts
          PROVE  \E n : Place(s, t) = <<t, n>> /\ Joins(s, ds, t, n)
      <4>1. ActiveIn(s.cards, t) # {} /\ ActiveIn(s.cards, t) \subseteq Nat
        BY <2>1, <2>3, <3>2 DEF ActiveIn
      <4>2. First(ActiveIn(s.cards, t)) \in ActiveIn(s.cards, t)
        BY <4>1, FirstIsIn
      <4>3. Place(s, t) = <<t, First(ActiveIn(s.cards, t))>>
        BY <4>1 DEF Place
      <4>4. Joins(s, ds, t, First(ActiveIn(s.cards, t)))
        BY <3>1, <4>2 DEF Joins, ActiveIn
      <4> QED BY <4>3, <4>4
    <3> QED BY <2>1, <3>1, <3>2 DEF Raised
  <2> QED BY <2>2, <2>3
<1> QED BY <1>1, <1>2 DEF ds

LEMMA RaisedPlay ==
    ASSUME TypeOK, NEW s \in Tables, NEW ts, OneInPlay(s.cards)
    PROVE  OneInPlay(Raise(s, ts))
<1>0. PICK ds : ds = Raise(s, ts)
  OBVIOUS
<1>1. \A t \in Tasks : Raised(s, ts, ds, t)
  BY <1>0, RaisedCards
<1>2. ASSUME NEW t \in Tasks, NEW n \in ActiveIn(ds, t), NEW k \in ActiveIn(ds, t)
      PROVE  n = k
  <2>1. n \in DOMAIN ds[t] /\ k \in DOMAIN ds[t]
    BY DEF ActiveIn
  <2>2. /\ n \in DOMAIN s.cards[t] => n \in ActiveIn(s.cards, t)
        /\ k \in DOMAIN s.cards[t] => k \in ActiveIn(s.cards, t)
    BY <1>1 DEF ActiveIn, Raised
  <2> QED BY <1>1, <2>1, <2>2 DEF OneInPlay, Raised
<1> QED BY <1>0, <1>2 DEF OneInPlay

LEMMA RaisedOn ==
    ASSUME TypeOK, NEW s \in Tables, NEW ts, NEW t \in Tasks, NEW n \in DOMAIN s.cards[t]
    PROVE  LET ds == Raise(s, ts)
           IN  n \in DOMAIN ds[t] /\ CardOn(s.cards[t][n], ds[t][n])
<1>1. s.cards[t][n] \in CardRows
  BY CardsTyped DEF Tables
<1> QED BY <1>1, RaisedCards, SameCard DEF Raised

\* Free questions that join pending or new cards.
AskedAt(s, ds, f) ==
    \A i \in DOMAIN f : \E t \in Tasks : \E n :
        /\ f[i] = <<t, n>>
        /\ n \in DOMAIN ds[t]
        /\ n \in DOMAIN s.cards[t] => s.cards[t][n].status = "pending"

LEMMA AskedBinds ==
    ASSUME NEW s, NEW ds, NEW f, AskedAt(s, ds, f), NEW qs, NEW rs,
           Rebound(qs, rs, f), \A i \in DOMAIN f : qs[i].card = NoCard,
           NEW t \in Tasks, NEW n \in DOMAIN s.cards[t],
           s.cards[t][n].status \in InHand
    PROVE  Binds(rs, <<t, n>>) = Binds(qs, <<t, n>>)
<1>1. ASSUME NEW i \in DOMAIN qs, i \in DOMAIN f
      PROVE  rs[i].card # <<t, n>> /\ qs[i].card # <<t, n>>
  <2>1. PICK x \in Tasks : \E m :
          /\ f[i] = <<x, m>>
          /\ m \in DOMAIN s.cards[x] => s.cards[x][m].status = "pending"
    BY <1>1 DEF AskedAt
  <2>2. PICK m :
          /\ f[i] = <<x, m>>
          /\ m \in DOMAIN s.cards[x] => s.cards[x][m].status = "pending"
    BY <2>1
  <2>3. <<x, m>> # <<t, n>>
    BY <2>2 DEF InHand
  <2> QED BY <1>1, <2>2, <2>3, PlaceIsCard DEF Rebound
<1>2. ASSUME NEW i \in DOMAIN qs, i \notin DOMAIN f
      PROVE  rs[i].card = qs[i].card
  BY <1>2 DEF Rebound
<1> QED BY <1>1, <1>2 DEF Binds, Rebound

LEMMA AskedWell ==
    ASSUME NEW s, NEW ds, NEW f, AskedAt(s, ds, f), NEW qs, NEW rs,
           Rebound(qs, rs, f), BoundWell(qs, s.cards),
           \A t \in Tasks : DOMAIN s.cards[t] \subseteq DOMAIN ds[t]
    PROVE  BoundWell(rs, ds)
<1> SUFFICES ASSUME NEW i \in DOMAIN rs, rs[i].state = "proposed", rs[i].card # NoCard
             PROVE  \E t \in Tasks : \E n \in DOMAIN ds[t] : rs[i].card = <<t, n>>
  BY DEF BoundWell
<1>1. CASE i \in DOMAIN f
  BY <1>1 DEF AskedAt, Rebound
<1>2. CASE i \notin DOMAIN f
  <2>1. i \in DOMAIN qs /\ qs[i].state = "proposed" /\ qs[i].card = rs[i].card
    BY <1>2 DEF Rebound
  <2> QED BY <2>1 DEF BoundWell
<1> QED BY <1>1, <1>2

\* The instance has room for the cards a pass makes.
HasRoom(ds) == \A t \in Tasks : Len(ds[t]) <= MaxCards

LEMMA AskedPlaces ==
    ASSUME NEW s, NEW ds \in [Tasks -> Seq(CardRows)], HasRoom(ds), NEW f, AskedAt(s, ds, f),
           MaxCards \in Nat
    PROVE  \A i \in DOMAIN f : f[i] \in Places
<1> SUFFICES ASSUME NEW i \in DOMAIN f PROVE f[i] \in Places
  OBVIOUS
<1>1. PICK t \in Tasks : \E n \in DOMAIN ds[t] : f[i] = <<t, n>>
  BY DEF AskedAt
<1>2. PICK n \in DOMAIN ds[t] : f[i] = <<t, n>>
  BY <1>1
<1>3. /\ DOMAIN ds[t] = 1..Len(ds[t]) /\ Len(ds[t]) \in Nat
      /\ Len(ds[t]) <= MaxCards
  BY CardsTyped DEF HasRoom
<1>4. n \in 1..MaxCards
  BY ONLY <1>2, <1>3, MaxCards \in Nat
<1> QED BY <1>2, <1>4 DEF Places

LEMMA AskCompletionPasses ==
    ASSUME TypeOK, NEW s \in Tables, Sound(s),
           HasRoom(AskCompletionQuestions(s).cards)
    PROVE  /\ AskCompletionQuestions(s) \in Tables
           /\ Passes(s, AskCompletionQuestions(s))
<1> DEFINE u == AskCompletionQuestions(s)
           ts == {t \in Tasks : Completions(s, t) # {} /\ Open(s, t)}
           asked == {First(Completions(s, t)) : t \in ts}
           f == [i \in asked |-> Place(s, s.evidence[i].task)]
<1>0. /\ s.cards \in [Tasks -> Seq(CardRows)] /\ s.evidence \in Seq(EvidenceRows)
      /\ s.proposals \in Seq(ProposalRows) /\ MaxCards \in Nat
      /\ s = [cards |-> s.cards, evidence |-> s.evidence, proposals |-> s.proposals]
  BY TaskCardsAssumption DEF Tables
<1>1. /\ u.cards = Raise(s, ts) /\ u.evidence = BindTo(s.evidence, f)
      /\ u.proposals = s.proposals
      /\ u = [cards |-> u.cards, evidence |-> u.evidence, proposals |-> u.proposals]
  <2>1. u = [s EXCEPT !.cards = Raise(s, ts), !.evidence = BindTo(s.evidence, f)]
    BY DEF AskCompletionQuestions
  <2> HIDE DEF u, ts, asked, f
  <2> QED BY ONLY <2>1, s \in Tables DEF Tables
<1>2. ASSUME NEW i \in asked
      PROVE  \E t \in ts : /\ i \in Completions(s, t)
                           /\ f[i] = Place(s, t)
                           /\ s.evidence[i].card = NoCard
                           /\ s.evidence[i].task = t
  <2>1. PICK t \in ts : i = First(Completions(s, t))
    OBVIOUS
  <2>2. Completions(s, t) # {} /\ Completions(s, t) \subseteq Nat
    BY <1>0, <2>1, QuestionsTyped DEF Completions, Unbound
  <2>3. i \in Completions(s, t)
    BY <2>1, <2>2, FirstIsIn
  <2> QED BY <2>3 DEF Completions, Unbound
<1>3. ts \subseteq Tasks /\ \A t \in ts : Open(s, t)
  OBVIOUS
<1>4. DOMAIN f = asked
  OBVIOUS
<1> HIDE DEF u, ts, asked, f
<1>5. /\ u.cards \in [Tasks -> Seq(CardRows)]
      /\ \A t \in Tasks : Raised(s, ts, u.cards, t)
  BY <1>1, RaisedCards
<1>6. \A t \in Tasks : DOMAIN s.cards[t] \subseteq DOMAIN u.cards[t]
  BY <1>5 DEF Raised
<1>7. AskedAt(s, u.cards, f)
  <2> SUFFICES ASSUME NEW i \in asked
               PROVE  \E t \in Tasks : \E n :
                        /\ f[i] = <<t, n>> /\ n \in DOMAIN u.cards[t]
                        /\ n \in DOMAIN s.cards[t] => s.cards[t][n].status = "pending"
    BY <1>4 DEF AskedAt
  <2>1. PICK t \in ts : f[i] = Place(s, t)
    BY <1>2
  <2>2. t \in Tasks /\ Open(s, t)
    BY <1>3
  <2>3. PICK n : Place(s, t) = <<t, n>> /\ Joins(s, u.cards, t, n)
    BY <1>5, <2>2 DEF Raised
  <2> QED BY <2>1, <2>2, <2>3 DEF Joins, Open
<1>8. \A i \in DOMAIN f : f[i] \in Places
  BY <1>0, <1>1, <1>5, <1>7, AskedPlaces DEF u
<1>9. /\ u.evidence \in Seq(EvidenceRows)
      /\ Rebound(s.evidence, u.evidence, f) /\ SameTasks(s.evidence, u.evidence)
  BY <1>0, <1>1, <1>8, EvidenceRebound
<1>10. u \in Tables
  BY <1>0, <1>1, <1>5, <1>9 DEF Tables
<1>11. Sound(u)
  <2>1. OneInPlay(u.cards)
    BY <1>1, RaisedPlay DEF Sound
  <2>2. BoundWell(u.evidence, u.cards)
    BY <1>6, <1>7, <1>9, AskedWell DEF Sound
  <2>3. BoundWell(u.proposals, u.cards)
    BY <1>1, <1>6 DEF Sound, BoundWell
  <2>4. AtHome(u.evidence)
    <3> SUFFICES ASSUME NEW i \in DOMAIN u.evidence, u.evidence[i].state = "proposed",
                        u.evidence[i].card # NoCard
                 PROVE  u.evidence[i].card[1] = u.evidence[i].task
      BY DEF AtHome
    <3>1. CASE i \in asked
      <4>1. PICK t \in ts : f[i] = Place(s, t) /\ s.evidence[i].task = t
        BY <1>2, <3>1
      <4>2. PICK n : Place(s, t) = <<t, n>>
        BY <1>3, <1>5 DEF Raised
      <4> QED BY <1>4, <1>9, <3>1, <4>1, <4>2 DEF Rebound, SameTasks
    <3>2. CASE i \notin asked
      BY <1>4, <1>9, <3>2 DEF Rebound, SameTasks, Sound, AtHome
    <3> QED BY <3>1, <3>2
  <2>5. OneComparison(u.proposals)
    BY <1>1 DEF Sound
  <2> QED BY <2>1, <2>2, <2>3, <2>4, <2>5 DEF Sound
<1>12. Advances(s, u)
  <2> SUFFICES ASSUME NEW t \in Tasks, NEW n \in DOMAIN s.cards[t]
               PROVE  /\ CardOn(s.cards[t][n], u.cards[t][n])
                      /\ Steady(s, u, t, n) =>
                           Binds(u.evidence, <<t, n>>) = Binds(s.evidence, <<t, n>>)
    BY <1>1, <1>6 DEF Advances
  <2>1. CardOn(s.cards[t][n], u.cards[t][n])
    BY <1>1, RaisedOn
  <2>2. \A i \in DOMAIN f : s.evidence[i].card = NoCard
    BY <1>2, <1>4
  <2>3. s.cards[t][n].status \in InHand =>
          Binds(u.evidence, <<t, n>>) = Binds(s.evidence, <<t, n>>)
    BY <1>7, <1>9, <2>2, AskedBinds
  <2> QED BY <2>1, <2>3 DEF Steady
<1>13. /\ Lapses(s.evidence, u.evidence) /\ Lapses(s.proposals, u.proposals)
       /\ SamePairs(s.proposals, u.proposals)
  BY <1>1, <1>9 DEF Rebound, Lapses, SamePairs
<1>14. Passes(s, u)
  BY <1>10, <1>11, <1>12, <1>13 DEF Passes
<1> QED BY <1>10, <1>14 DEF u

LEMMA AskDuplicatePasses ==
    ASSUME TypeOK, NEW s \in Tables, Sound(s),
           HasRoom(AskDuplicateProposals(s).cards)
    PROVE  /\ AskDuplicateProposals(s) \in Tables
           /\ Passes(s, AskDuplicateProposals(s))
<1> DEFINE u == AskDuplicateProposals(s)
           ts == {t \in Tasks :
                    /\ Comparisons(s, t) # {} /\ Open(s, t)
                    /\ \A n \in ActiveIn(s.cards, t) :
                         Binds(s.proposals, <<t, n>>) = {}}
           asked == {First(Comparisons(s, t)) : t \in ts}
           f == [i \in asked |-> Place(s, Asks(s.proposals[i]))]
<1>0. /\ s.cards \in [Tasks -> Seq(CardRows)] /\ s.evidence \in Seq(EvidenceRows)
      /\ s.proposals \in Seq(ProposalRows) /\ MaxCards \in Nat
      /\ s = [cards |-> s.cards, evidence |-> s.evidence, proposals |-> s.proposals]
  BY TaskCardsAssumption DEF Tables
<1>1. /\ u.cards = Raise(s, ts) /\ u.proposals = BindTo(s.proposals, f)
      /\ u.evidence = s.evidence
      /\ u = [cards |-> u.cards, evidence |-> u.evidence, proposals |-> u.proposals]
  <2>1. u = [s EXCEPT !.cards = Raise(s, ts), !.proposals = BindTo(s.proposals, f)]
    BY DEF AskDuplicateProposals
  <2> HIDE DEF u, ts, asked, f
  <2> QED BY ONLY <2>1, s \in Tables DEF Tables
<1>2. ASSUME NEW i \in asked
      PROVE  \E t \in ts : /\ i = First(Comparisons(s, t))
                           /\ i \in DOMAIN s.proposals
                           /\ f[i] = Place(s, t)
                           /\ s.proposals[i].card = NoCard
  <2>1. PICK t \in ts : i = First(Comparisons(s, t))
    OBVIOUS
  <2>2. Comparisons(s, t) # {} /\ Comparisons(s, t) \subseteq Nat
    BY <1>0, <2>1, QuestionsTyped DEF Comparisons, Unbound
  <2>3. i \in Comparisons(s, t)
    BY <2>1, <2>2, FirstIsIn
  <2>4. /\ i \in DOMAIN s.proposals /\ s.proposals[i].card = NoCard
        /\ Asks(s.proposals[i]) = t
    BY <2>3 DEF Comparisons, Unbound
  <2> QED BY <2>1, <2>4
<1>3. /\ ts \subseteq Tasks
      /\ \A t \in ts : /\ Open(s, t)
                       /\ \A n \in ActiveIn(s.cards, t) :
                            Binds(s.proposals, <<t, n>>) = {}
  OBVIOUS
<1>4. DOMAIN f = asked
  OBVIOUS
<1> HIDE DEF u, ts, asked, f
<1>5. /\ u.cards \in [Tasks -> Seq(CardRows)]
      /\ \A t \in Tasks : Raised(s, ts, u.cards, t)
  BY <1>1, RaisedCards
<1>6. \A t \in Tasks : DOMAIN s.cards[t] \subseteq DOMAIN u.cards[t]
  BY <1>5 DEF Raised
<1>7. AskedAt(s, u.cards, f)
  <2> SUFFICES ASSUME NEW i \in asked
               PROVE  \E t \in Tasks : \E n :
                        /\ f[i] = <<t, n>> /\ n \in DOMAIN u.cards[t]
                        /\ n \in DOMAIN s.cards[t] => s.cards[t][n].status = "pending"
    BY <1>4 DEF AskedAt
  <2>1. PICK t \in ts : f[i] = Place(s, t)
    BY <1>2
  <2>2. t \in Tasks /\ Open(s, t)
    BY <1>3
  <2>3. PICK n : Place(s, t) = <<t, n>> /\ Joins(s, u.cards, t, n)
    BY <1>5, <2>2 DEF Raised
  <2> QED BY <2>1, <2>2, <2>3 DEF Joins, Open
<1>8. \A i \in DOMAIN f : f[i] \in Places
  BY <1>0, <1>1, <1>5, <1>7, AskedPlaces DEF u
<1>9. /\ u.proposals \in Seq(ProposalRows)
      /\ Rebound(s.proposals, u.proposals, f) /\ SamePairs(s.proposals, u.proposals)
  BY <1>0, <1>1, <1>8, ProposalsRebound
<1>10. u \in Tables
  BY <1>0, <1>1, <1>5, <1>9 DEF Tables
\* The card a comparison joins asks about no other.
<1>11. ASSUME NEW i \in asked, NEW j \in DOMAIN u.proposals,
              u.proposals[j].state = "proposed", u.proposals[i].card = u.proposals[j].card
       PROVE  i = j
  <2>1. PICK t \in ts : /\ i = First(Comparisons(s, t)) /\ f[i] = Place(s, t)
                        /\ i \in DOMAIN s.proposals
    BY <1>2
  <2>2. PICK n : Place(s, t) = <<t, n>> /\ Joins(s, u.cards, t, n)
    BY <1>3, <1>5 DEF Raised
  <2>3. u.proposals[j].card = <<t, n>>
    BY <1>4, <1>9, <1>11, <2>1, <2>2 DEF Rebound
  <2>4. CASE j \in asked
    <3>1. PICK v \in ts : j = First(Comparisons(s, v)) /\ f[j] = Place(s, v)
      BY <1>2, <2>4
    <3>2. PICK m : Place(s, v) = <<v, m>>
      BY <1>3, <1>5 DEF Raised
    <3>3. u.proposals[j].card = <<v, m>>
      BY <1>4, <1>9, <2>4, <3>1, <3>2 DEF Rebound
    <3>4. v = t
      BY <2>3, <3>3
    <3> QED BY <2>1, <3>1, <3>4
  <2>5. CASE j \notin asked
    <3>1. /\ j \in DOMAIN s.proposals /\ s.proposals[j].state = "proposed"
          /\ s.proposals[j].card = <<t, n>>
      BY <1>4, <1>9, <1>11, <2>3, <2>5 DEF Rebound
    <3>2. s.proposals[j].card # NoCard
      BY <3>1, PlaceIsCard
    <3>3. n \in DOMAIN s.cards[t]
      <4>1. PICK v \in Tasks : \E m \in DOMAIN s.cards[v] : s.proposals[j].card = <<v, m>>
        BY <3>1, <3>2 DEF Sound, BoundWell
      <4>2. PICK m \in DOMAIN s.cards[v] : s.proposals[j].card = <<v, m>>
        BY <4>1
      <4> QED BY <3>1, <4>2
    <3>4. n \in ActiveIn(s.cards, t)
      BY <2>2, <3>3 DEF Joins
    <3>5. Binds(s.proposals, <<t, n>>) = {}
      BY <1>3, <3>4
    <3> QED BY <3>1, <3>5 DEF Binds
  <2> QED BY <2>4, <2>5
<1>12. Sound(u)
  <2>1. OneInPlay(u.cards)
    BY <1>1, RaisedPlay DEF Sound
  <2>2. BoundWell(u.proposals, u.cards)
    BY <1>6, <1>7, <1>9, AskedWell DEF Sound
  <2>3. BoundWell(u.evidence, u.cards)
    BY <1>1, <1>6 DEF Sound, BoundWell
  <2>4. AtHome(u.evidence)
    BY <1>1 DEF Sound
  <2>5. OneComparison(u.proposals)
    <3> SUFFICES ASSUME NEW i \in DOMAIN u.proposals, NEW j \in DOMAIN u.proposals,
                        u.proposals[i].state = "proposed",
                        u.proposals[j].state = "proposed",
                        u.proposals[i].card # NoCard,
                        u.proposals[i].card = u.proposals[j].card
                 PROVE  i = j
      BY DEF OneComparison
    <3>1. CASE i \in asked \/ j \in asked
      BY <1>11, <3>1
    <3>2. CASE i \notin asked /\ j \notin asked
      <4>1. /\ s.proposals[i].card = u.proposals[i].card
            /\ s.proposals[j].card = u.proposals[j].card
            /\ s.proposals[i].state = "proposed" /\ s.proposals[j].state = "proposed"
            /\ i \in DOMAIN s.proposals /\ j \in DOMAIN s.proposals
        BY <1>4, <1>9, <3>2 DEF Rebound
      <4> QED BY <4>1 DEF Sound, OneComparison
    <3> QED BY <3>1, <3>2
  <2> QED BY <2>1, <2>2, <2>3, <2>4, <2>5 DEF Sound
<1>13. Advances(s, u)
  <2> SUFFICES ASSUME NEW t \in Tasks, NEW n \in DOMAIN s.cards[t]
               PROVE  /\ CardOn(s.cards[t][n], u.cards[t][n])
                      /\ Steady(s, u, t, n) =>
                           Binds(u.proposals, <<t, n>>) = Binds(s.proposals, <<t, n>>)
    BY <1>1, <1>6 DEF Advances
  <2>1. CardOn(s.cards[t][n], u.cards[t][n])
    BY <1>1, RaisedOn
  <2>2. \A i \in DOMAIN f : s.proposals[i].card = NoCard
    BY <1>2, <1>4
  <2>3. s.cards[t][n].status \in InHand =>
          Binds(u.proposals, <<t, n>>) = Binds(s.proposals, <<t, n>>)
    BY <1>7, <1>9, <2>2, AskedBinds
  <2> QED BY <2>1, <2>3 DEF Steady
<1>14. /\ Lapses(s.evidence, u.evidence) /\ Lapses(s.proposals, u.proposals)
  BY <1>1, <1>9 DEF Rebound, Lapses
<1>15. Passes(s, u)
  BY <1>9, <1>10, <1>12, <1>13, <1>14 DEF Passes
<1> QED BY <1>10, <1>15 DEF u

\* Superseding free proposals, whichever they are.
LEMMA ResolvePasses ==
    ASSUME NEW s \in Tables, Sound(s)
    PROVE  /\ ResolveUnaskableProposals(s) \in Tables
           /\ Passes(s, ResolveUnaskableProposals(s))
<1> DEFINE u == ResolveUnaskableProposals(s)
           lost == {i \in Unbound(s.proposals) :
                      LET p == s.proposals[i]
                      IN  \/ ~AsRecorded(p)
                          \/ ~Reviewable(p)
                          \/ \E v \in Pair(p) : Merged(v)
                          \/ task[Asks(p)].preserved}
<1>0. /\ s.cards \in [Tasks -> Seq(CardRows)] /\ s.evidence \in Seq(EvidenceRows)
      /\ s.proposals \in Seq(ProposalRows)
      /\ s = [cards |-> s.cards, evidence |-> s.evidence, proposals |-> s.proposals]
  BY DEF Tables
<1>1. /\ u.cards = s.cards /\ u.proposals = Settle(s.proposals, lost, "superseded")
      /\ u.evidence = s.evidence
      /\ u = [cards |-> u.cards, evidence |-> u.evidence, proposals |-> u.proposals]
  BY <1>0 DEF ResolveUnaskableProposals
<1>2. lost \subseteq Unbound(s.proposals)
  OBVIOUS
<1> HIDE DEF u, lost
<1>3. /\ u.proposals \in Seq(ProposalRows)
      /\ SettledTo(s.proposals, u.proposals, lost, "superseded")
      /\ SamePairs(s.proposals, u.proposals)
  BY <1>0, <1>1, ProposalsSettled DEF ProposalStates
<1>4. u \in Tables
  BY <1>0, <1>1, <1>3 DEF Tables
<1>5. Sound(u)
  <2>1. BoundWell(u.proposals, u.cards)
    BY <1>1, <1>3 DEF Sound, BoundWell, SettledTo
  <2>2. OneComparison(u.proposals)
    BY <1>3 DEF Sound, OneComparison, SettledTo
  <2> QED BY <1>1, <2>1, <2>2 DEF Sound
<1>6. Advances(s, u)
  <2> SUFFICES ASSUME NEW t \in Tasks, NEW n \in DOMAIN s.cards[t]
               PROVE  /\ CardOn(s.cards[t][n], u.cards[t][n])
                      /\ Binds(u.proposals, <<t, n>>) = Binds(s.proposals, <<t, n>>)
    BY <1>1 DEF Advances
  <2>1. CardOn(s.cards[t][n], u.cards[t][n])
    BY <1>0, <1>1, CardsTyped, SameCard
  <2>2. \A i \in lost : s.proposals[i].card # <<t, n>>
    BY <1>2, PlaceIsCard DEF Unbound
  <2>3. Binds(u.proposals, <<t, n>>) = Binds(s.proposals, <<t, n>>)
    BY <1>3, <2>2 DEF Binds, SettledTo
  <2> QED BY <2>1, <2>3
<1>7. Lapses(s.proposals, u.proposals) /\ Lapses(s.evidence, u.evidence)
  BY <1>1, <1>2, <1>3 DEF Lapses, SettledTo, Unbound
<1>8. Passes(s, u)
  BY <1>3, <1>4, <1>5, <1>6, <1>7 DEF Passes
<1> QED BY <1>4, <1>8 DEF u

-----------------------------------------------------------------------------
(* Steps that no reader takes                                              *)

\* A step that answers no question and merges nothing.
Quiet == Passes(Now, Later) /\ merged' = merged

\* A pass that becomes u is u.
LEMMA BecomeIsLater ==
    ASSUME NEW u \in Tables, Become(u)
    PROVE  Later = u /\ HasRoom(u.cards)
  BY DEF Become, Later, Tables, HasRoom

LEMMA RoomBefore ==
    ASSUME TypeOK, NEW s,
           s = [cards |-> s.cards, evidence |-> s.evidence, proposals |-> s.proposals],
           s.cards \in [Tasks -> Seq(CardRows)],
           HasRoom(AskDuplicateProposals(s).cards)
    PROVE  HasRoom(s.cards)
<1>1. PICK ts : AskDuplicateProposals(s).cards = Raise(s, ts)
  <2> DEFINE ts == {t \in Tasks :
                      /\ Comparisons(s, t) # {} /\ Open(s, t)
                      /\ \A n \in ActiveIn(s.cards, t) :
                           Binds(s.proposals, <<t, n>>) = {}}
             asked == {First(Comparisons(s, t)) : t \in ts}
             ps == BindTo(s.proposals, [i \in asked |-> Place(s, Asks(s.proposals[i]))])
  <2>1. AskDuplicateProposals(s) = [s EXCEPT !.cards = Raise(s, ts), !.proposals = ps]
    BY DEF AskDuplicateProposals
  <2> HIDE DEF ts, ps
  <2>2. AskDuplicateProposals(s).cards = Raise(s, ts)
    BY <2>1
  <2> QED BY <2>2
<1>2. ASSUME NEW t \in Tasks
      PROVE  Len(s.cards[t]) <= MaxCards
  <2>1. /\ s.cards[t] \in Seq(CardRows) /\ Len(s.cards[t]) \in Nat
        /\ NewCard(t) \in CardRows /\ MaxCards \in Nat
    BY NewCardTyped, TaskCardsAssumption
  <2>2. Raise(s, ts)[t] = Append(s.cards[t], NewCard(t)) \/ Raise(s, ts)[t] = s.cards[t]
    BY DEF Raise
  <2>3. Len(Append(s.cards[t], NewCard(t))) = Len(s.cards[t]) + 1
    BY ONLY <2>1
  <2>4. Len(Raise(s, ts)[t]) <= MaxCards
    BY <1>1 DEF HasRoom
  <2> QED BY ONLY <2>1, <2>2, <2>3, <2>4
<1> QED BY <1>2 DEF HasRoom

LEMMA AskedHasCards ==
    ASSUME TypeOK, NEW s \in Tables
    PROVE  LET u == AskCompletionQuestions(s)
           IN  /\ u = [cards |-> u.cards, evidence |-> u.evidence, proposals |-> u.proposals]
               /\ u.cards \in [Tasks -> Seq(CardRows)]
<1> DEFINE ts == {t \in Tasks : Completions(s, t) # {} /\ Open(s, t)}
           asked == {First(Completions(s, t)) : t \in ts}
           es == BindTo(s.evidence, [i \in asked |-> Place(s, s.evidence[i].task)])
<1>1. AskCompletionQuestions(s) = [s EXCEPT !.cards = Raise(s, ts), !.evidence = es]
  BY DEF AskCompletionQuestions
<1> HIDE DEF ts, es
<1>2. /\ AskCompletionQuestions(s).cards = Raise(s, ts)
      /\ AskCompletionQuestions(s) =
           [cards |-> Raise(s, ts), evidence |-> es, proposals |-> s.proposals]
  BY <1>1 DEF Tables
<1>3. Raise(s, ts) \in [Tasks -> Seq(CardRows)]
  BY RaisedCards
<1> QED BY <1>2, <1>3

LEMMA ScheduleIsQuiet ==
    ASSUME TypeOK, Sound(Now), Schedule
    PROVE  Quiet
<1> DEFINE s == CancelStale(Now)
           u == AskCompletionQuestions(s)
           v == AskDuplicateProposals(u)
<1>1. Now \in Tables /\ s \in Tables /\ Passes(Now, s)
  BY NowIsTables, CancelStalePasses
<1>2. Become(v) /\ merged' = merged
  BY DEF Schedule
<1>3. HasRoom(v.cards)
  BY <1>2 DEF Become, HasRoom
<1>4. HasRoom(u.cards)
  BY <1>1, <1>3, AskedHasCards, RoomBefore
<1>5. u \in Tables /\ Passes(s, u)
  BY <1>1, <1>4, AskCompletionPasses DEF Passes
<1>6. v \in Tables /\ Passes(u, v)
  BY <1>3, <1>5, AskDuplicatePasses DEF Passes
<1> HIDE DEF s, u, v
<1>7. Passes(Now, v)
  BY <1>1, <1>5, <1>6, PassesTwice
<1> QED BY <1>2, <1>6, <1>7, BecomeIsLater DEF Quiet

LEMMA ScheduleDuplicatesIsQuiet ==
    ASSUME TypeOK, Sound(Now), ScheduleDuplicateProposals
    PROVE  Quiet
<1> DEFINE s == CancelStale(Now)
           u == ResolveUnaskableProposals(s)
           v == AskDuplicateProposals(u)
<1>1. Now \in Tables /\ s \in Tables /\ Passes(Now, s)
  BY NowIsTables, CancelStalePasses
<1>2. Become(v) /\ merged' = merged
  BY DEF ScheduleDuplicateProposals
<1>3. HasRoom(v.cards)
  BY <1>2 DEF Become, HasRoom
<1>4. u \in Tables /\ Passes(s, u)
  BY <1>1, ResolvePasses DEF Passes
<1>5. v \in Tables /\ Passes(u, v)
  BY <1>3, <1>4, AskDuplicatePasses DEF Passes
<1> HIDE DEF s, u, v
<1>6. Passes(Now, v)
  BY <1>1, <1>4, <1>5, PassesTwice
<1> QED BY <1>2, <1>5, <1>6, BecomeIsLater DEF Quiet

LEMMA SweepIsQuiet ==
    ASSUME TypeOK, Sound(Now), BulkDropSweep
    PROVE  Quiet
<1>1. CancelStale(Now) \in Tables /\ Passes(Now, CancelStale(Now))
  BY CancelStalePasses
<1>2. Become(CancelStale(Now)) /\ merged' = merged
  BY DEF BulkDropSweep
<1> QED BY <1>1, <1>2, BecomeIsLater DEF Quiet

\* A change of cards alone, from tables s.
LEMMA EditedTables ==
    ASSUME NEW s \in Tables, Sound(s), NEW ds, CardsEdited(s.cards, ds)
    PROVE  LET u == [cards |-> ds, evidence |-> s.evidence, proposals |-> s.proposals]
           IN  u \in Tables /\ Passes(s, u)
<1> DEFINE u == [cards |-> ds, evidence |-> s.evidence, proposals |-> s.proposals]
<1>1. /\ u.cards = ds /\ u.evidence = s.evidence /\ u.proposals = s.proposals
      /\ u \in Tables
  BY DEF Tables, CardsEdited
<1> HIDE DEF u
<1>2. Passes(s, u)
  BY <1>1, EditedPasses
<1> QED BY <1>1, <1>2 DEF u

LEMMA RequeueIsQuiet ==
    ASSUME TypeOK, Sound(Now), RequeueUnanswered
    PROVE  Quiet
<1> DEFINE s == CancelStale(Now)
           old == {id \in CardIds :
                     LET c == s.cards[id[1]][id[2]]
                     IN  c.status = "delivered" /\ c.due /\ Current(c, id[1])}
           u == [cards |-> PendAll(s.cards, old), evidence |-> s.evidence,
                 proposals |-> s.proposals]
<1>1. Now \in Tables /\ s \in Tables /\ Passes(Now, s)
  BY NowIsTables, CancelStalePasses
<1>2. /\ Become([s EXCEPT !.cards = PendAll(s.cards, old)]) /\ merged' = merged
      /\ \A t, n : <<t, n>> \in old => s.cards[t][n].status = "delivered"
  BY DEF RequeueUnanswered, PendAll
<1> HIDE DEF s, old
<1>3. s.cards \in [Tasks -> Seq(CardRows)]
  BY <1>1 DEF Tables
<1>4. CardsEdited(s.cards, PendAll(s.cards, old))
  BY <1>2, <1>3, PendAllCards DEF Active
<1>5. u \in Tables /\ Passes(s, u)
  BY <1>1, <1>4, EditedTables DEF Passes
<1>6. u = [s EXCEPT !.cards = PendAll(s.cards, old)]
  BY <1>1 DEF Tables
<1> HIDE DEF u
<1>7. Passes(Now, u)
  BY <1>1, <1>5, PassesTwice
<1> QED BY <1>2, <1>5, <1>6, <1>7, BecomeIsLater DEF Quiet

\* A step that changes cards alone, and makes none.
LEMMA EditIsQuiet ==
    ASSUME TypeOK, Sound(Now), CardsEdited(cards, cards'),
           UNCHANGED <<evidence, proposals, merged>>
    PROVE  Quiet
<1>1. Now \in Tables /\ Now.cards = cards /\ Now.evidence = evidence
      /\ Now.proposals = proposals
  BY NowIsTables DEF Now
<1>2. Later = [cards |-> cards', evidence |-> Now.evidence, proposals |-> Now.proposals]
  BY DEF Later, Now
<1> QED BY <1>1, <1>2, EditedTables DEF Quiet

LEMMA CardsAreTyped == TypeOK => cards \in [Tasks -> Seq(CardRows)]
  BY DEF TypeOK

LEMMA RetryIsQuiet ==
    ASSUME TypeOK, Sound(Now), NEW id \in CardIds, RetryDelivery(id)
    PROVE  Quiet
<1>1. /\ cards' = PendAll(cards, {id})
      /\ \A t, n : <<t, n>> \in {id} => cards[t][n].status = "delivered"
      /\ UNCHANGED <<evidence, proposals, merged>>
  BY DEF RetryDelivery, PendAll
<1>2. CardsEdited(cards, cards')
  BY <1>1, CardsAreTyped, PendAllCards DEF Active
<1> QED BY <1>1, <1>2, EditIsQuiet

LEMMA TimeIsQuiet ==
    ASSUME TypeOK, Sound(Now), NEW id \in CardIds, TimePasses(id)
    PROVE  Quiet
<1>1. cards' = DueAll(cards, {id}) /\ UNCHANGED <<evidence, proposals, merged>>
  BY DEF TimePasses, DueAll, Overdue, Edit
<1>2. CardsEdited(cards, cards')
  BY <1>1, CardsAreTyped, DueAllCards
<1> QED BY <1>1, <1>2, EditIsQuiet

LEMMA CompleteIsQuiet ==
    ASSUME TypeOK, Sound(Now), NEW m \in messages, CompleteDelivery(m)
    PROVE  Quiet
<1>1. /\ cards' = DeliverAll(cards, {m.card})
      /\ UNCHANGED <<evidence, proposals, merged>>
  BY DEF CompleteDelivery, DeliverAll, Acknowledged, Edit
<1>2. \A t, n : <<t, n>> \in {m.card} => cards[t][n].status = "delivering"
  BY DEF CompleteDelivery, IsLease
<1>3. CardsEdited(cards, cards')
  BY <1>1, <1>2, CardsAreTyped, DeliverAllCards
<1> QED BY <1>1, <1>3, EditIsQuiet

LEMMA FailIsQuiet ==
    ASSUME TypeOK, Sound(Now), NEW m \in messages, FailDelivery(m)
    PROVE  Quiet
<1>1. cards' = PendAll(cards, {m.card}) /\ UNCHANGED <<evidence, proposals, merged>>
  BY DEF FailDelivery, PendAll
<1>2. \A t, n : <<t, n>> \in {m.card} => cards[t][n].status \in Active
  BY DEF FailDelivery, IsLease, Active
<1>3. CardsEdited(cards, cards')
  BY <1>1, <1>2, CardsAreTyped, PendAllCards
<1> QED BY <1>1, <1>3, EditIsQuiet

LEMMA SnoozeIsQuiet ==
    ASSUME TypeOK, Sound(Now), NEW m \in messages, Snooze(m)
    PROVE  Quiet
<1>1. /\ cards' = EndAll(cards, {m.card}, "snoozed")
      /\ UNCHANGED <<evidence, proposals, merged>>
  BY DEF Snooze, EndAll
<1>2. \A t, n : <<t, n>> \in {m.card} => cards[t][n].status \in Active
  BY DEF Snooze, Answer, Answerable, Active
<1>3. CardsEdited(cards, cards')
  BY <1>1, <1>2, CardsAreTyped, EndAllCards
<1> QED BY <1>1, <1>3, EditIsQuiet

\* Lapsed leases come back.
LEMMA ExpiredBack ==
    ASSUME TypeOK
    PROVE  /\ PendAll(cards, Expired) \in [Tasks -> Seq(CardRows)]
           /\ CardsEdited(cards, PendAll(cards, Expired))
<1>1. \A t, n : <<t, n>> \in Expired => cards[t][n].status \in Active
  BY DEF Expired, Active
<1>2. CardsEdited(cards, PendAll(cards, Expired))
  BY <1>1, CardsAreTyped, PendAllCards
<1> QED BY <1>2 DEF CardsEdited

LEMMA EditedTwice ==
    ASSUME NEW a \in [Tasks -> Seq(CardRows)], NEW b, NEW c,
           CardsEdited(a, b), CardsEdited(b, c)
    PROVE  CardsEdited(a, c)
<1>1. b \in [Tasks -> Seq(CardRows)] /\ c \in [Tasks -> Seq(CardRows)]
  BY DEF CardsEdited
<1>2. ASSUME NEW t \in Tasks, NEW n \in DOMAIN a[t]
      PROVE  CardOn(a[t][n], c[t][n])
  <2>1. n \in DOMAIN b[t] /\ n \in DOMAIN c[t]
    BY DEF CardsEdited
  <2>2. CardOn(a[t][n], b[t][n]) /\ CardOn(b[t][n], c[t][n])
    BY <2>1 DEF CardsEdited
  <2>3. /\ a[t][n].version \in Nat /\ b[t][n].version \in Nat /\ c[t][n].version \in Nat
    BY <1>1, <2>1, CardsTyped
  <2> QED BY ONLY <2>2, <2>3 DEF CardOn
<1> QED BY <1>1, <1>2 DEF CardsEdited

LEMMA ClaimNothingIsQuiet ==
    ASSUME TypeOK, Sound(Now), NEW k \in Consumers, ClaimNothing(k)
    PROVE  Quiet
<1>1. cards' = PendAll(cards, Expired) /\ UNCHANGED <<evidence, proposals, merged>>
  BY DEF ClaimNothing, PendAll
<1> QED BY <1>1, ExpiredBack, EditIsQuiet

LEMMA NamesOfCards ==
    ASSUME TypeOK, NEW id \in CardIds
    PROVE  /\ id[1] \in Tasks /\ id[2] \in DOMAIN cards[id[1]]
           /\ id = <<id[1], id[2]>> /\ id \in Tasks \X (1..MaxCards)
<1>1. id \in Tasks \X (1..MaxCards) /\ id[2] <= Len(cards[id[1]])
  BY DEF CardIds
<1>2. id[1] \in Tasks /\ id[2] \in 1..MaxCards /\ id = <<id[1], id[2]>>
  BY <1>1
<1>3. DOMAIN cards[id[1]] = 1..Len(cards[id[1]]) /\ Len(cards[id[1]]) \in Nat
  BY <1>2, CardsAreTyped, CardsTyped
<1>4. MaxCards \in Nat
  BY TaskCardsAssumption
<1>5. id[2] \in 1..Len(cards[id[1]])
  BY ONLY <1>1, <1>2, <1>3, <1>4
<1> QED BY <1>1, <1>2, <1>3, <1>5

\* A lease of card id, from cards back.
LEMMA LeasedCard ==
    ASSUME TypeOK, NEW back, CardsEdited(cards, back), NEW k \in Consumers,
           NEW t \in Tasks, NEW n \in DOMAIN cards[t],
           back[t][n].status \in Active
    PROVE  LET ds == LeaseAll(back, {<<t, n>>}, k)
           IN  /\ CardsEdited(cards, ds)
               /\ n \in DOMAIN ds[t]
               /\ ds[t][n].version = back[t][n].version + 1
               /\ ds[t][n].version > cards[t][n].version
               /\ ds[t][n].status = "delivering"
               /\ ds[t][n].task_version = cards[t][n].task_version
<1>0. PICK ds : ds = LeaseAll(back, {<<t, n>>}, k)
  OBVIOUS
<1>1. back \in [Tasks -> Seq(CardRows)] /\ n \in DOMAIN back[t]
  BY DEF CardsEdited
<1>2. /\ CardsEdited(back, ds)
      /\ ds[t][n] = Leased(back[t][n], k)
  <2>1. \A x \in Tasks : \A y \in DOMAIN back[x] : <<x, y>> \in {<<t, n>>} =>
          back[x][y].status \in Active
    OBVIOUS
  <2> QED BY <1>0, <1>1, <2>1, LeaseAllCards
<1>3. CardsEdited(cards, ds)
  BY <1>2, CardsAreTyped, EditedTwice
<1>4. back[t][n] \in CardRows /\ back[t][n].version \in Nat
  BY <1>1, CardsTyped
<1>5. /\ ds[t][n].version = back[t][n].version + 1
      /\ ds[t][n].status = "delivering"
      /\ ds[t][n].task_version = back[t][n].task_version
  BY <1>2, <1>4, LeaseAllRow
<1>6. /\ back[t][n].task_version = cards[t][n].task_version
      /\ back[t][n].version >= cards[t][n].version
      /\ cards[t][n].version \in Nat
  <2>1. CardOn(cards[t][n], back[t][n]) /\ cards[t][n].version \in Nat
    BY CardsAreTyped, CardsTyped DEF CardsEdited
  <2> QED BY ONLY <1>4, <2>1 DEF CardOn
<1>7. n \in DOMAIN ds[t]
  BY <1>3 DEF CardsEdited
<1> QED BY <1>0, <1>3, <1>4, <1>5, <1>6, <1>7

LEMMA ClaimNextCards ==
    ASSUME TypeOK, NEW k \in Consumers, NEW id \in CardIds, ClaimNext(k, id)
    PROVE  /\ CardsEdited(cards, cards')
           /\ id[2] \in DOMAIN cards'[id[1]]
           /\ cards'[id[1]][id[2]].status = "delivering"
           /\ cards'[id[1]][id[2]].version > cards[id[1]][id[2]].version
           /\ cards'[id[1]][id[2]].task_version = task[id[1]].version
           /\ \E m : /\ messages' = messages \cup {m}
                     /\ m = [Rendered(id, FALSE) EXCEPT
                               !.version = cards'[id[1]][id[2]].version]
<1> DEFINE t == id[1]
           n == id[2]
           back == PendAll(cards, Expired)
<1>1. t \in Tasks /\ n \in DOMAIN cards[t] /\ id = <<t, n>>
  BY NamesOfCards
<1>2. /\ cards' = LeaseAll(back, {id}, k)
      /\ Claimable(back, t, n)
      /\ messages' = messages \cup
           {[Rendered(id, FALSE) EXCEPT !.version = back[t][n].version + 1]}
  BY DEF ClaimNext, LeaseAll, PendAll
<1>3. CardsEdited(cards, back)
  BY ExpiredBack
<1> HIDE DEF back
<1>4. /\ back[t][n].status \in Active
      /\ back[t][n].task_version = task[t].version
  BY <1>2 DEF Claimable, Waiting, Active, Current
<1> HIDE DEF t, n
<1>5. /\ CardsEdited(cards, cards')
      /\ n \in DOMAIN cards'[t]
      /\ cards'[t][n].version = back[t][n].version + 1
      /\ cards'[t][n].version > cards[t][n].version
      /\ cards'[t][n].status = "delivering"
      /\ cards'[t][n].task_version = cards[t][n].task_version
  BY <1>1, <1>2, <1>3, <1>4, LeasedCard
<1>6. back[t][n].task_version = cards[t][n].task_version
  BY <1>1, <1>3 DEF CardsEdited, CardOn
<1> QED BY <1>2, <1>4, <1>5, <1>6 DEF t, n

LEMMA ClaimExactCards ==
    ASSUME TypeOK, NEW k \in Consumers, NEW id \in CardIds, ClaimExact(k, id)
    PROVE  /\ CardsEdited(cards, cards')
           /\ id[2] \in DOMAIN cards'[id[1]]
           /\ cards'[id[1]][id[2]].status = "delivering"
           /\ cards'[id[1]][id[2]].version = cards[id[1]][id[2]].version + 1
           /\ cards'[id[1]][id[2]].task_version = task[id[1]].version
           /\ messages' = messages \cup {Rendered(id, TRUE)}
<1> DEFINE t == id[1]
           n == id[2]
<1>1. t \in Tasks /\ n \in DOMAIN cards[t] /\ id = <<t, n>>
  BY NamesOfCards
<1>2. /\ cards' = LeaseAll(cards, {id}, k)
      /\ cards[t][n].status \in Active
      /\ cards[t][n].task_version = task[t].version
      /\ messages' = messages \cup {Rendered(id, TRUE)}
  BY DEF ClaimExact, LeaseAll, Active, Current
<1>3. CardsEdited(cards, cards)
  BY CardsAreTyped, CardsTyped, SameCard DEF CardsEdited
<1> HIDE DEF t, n
<1>4. /\ CardsEdited(cards, cards')
      /\ n \in DOMAIN cards'[t]
      /\ cards'[t][n].version = cards[t][n].version + 1
      /\ cards'[t][n].status = "delivering"
      /\ cards'[t][n].task_version = cards[t][n].task_version
  BY <1>1, <1>2, <1>3, LeasedCard
<1> QED BY <1>2, <1>4 DEF t, n

LEMMA ClaimNextIsQuiet ==
    ASSUME TypeOK, Sound(Now), NEW k \in Consumers, NEW id \in CardIds, ClaimNext(k, id)
    PROVE  Quiet
<1>1. UNCHANGED <<evidence, proposals, merged>>
  BY DEF ClaimNext
<1> QED BY <1>1, ClaimNextCards, EditIsQuiet

LEMMA ClaimExactIsQuiet ==
    ASSUME TypeOK, Sound(Now), NEW k \in Consumers, NEW id \in CardIds, ClaimExact(k, id)
    PROVE  Quiet
<1>1. UNCHANGED <<evidence, proposals, merged>>
  BY DEF ClaimExact
<1> QED BY <1>1, ClaimExactCards, EditIsQuiet

\* A step that leaves the tables.
LEMMA StillIsQuiet ==
    ASSUME TypeOK, Sound(Now), UNCHANGED <<cards, evidence, proposals, merged>>
    PROVE  Quiet
<1>1. CardsEdited(cards, cards')
  BY CardsAreTyped, CardsTyped, SameCard DEF CardsEdited
<1> QED BY <1>1, EditIsQuiet

LEMMA SupersedeIsQuiet ==
    ASSUME TypeOK, Sound(Now),
           NEW S \in SUBSET {i \in DOMAIN proposals : proposals[i].state = "proposed"},
           SupersedeDuplicateProposals(S)
    PROVE  Quiet
<1> DEFINE bound == {proposals[i].card : i \in S} \ {NoCard}
           gone == {id \in bound : cards[id[1]][id[2]].status \in Active}
           rs == Release(proposals, bound)
<1>1. /\ cards' = EndAll(cards, gone, "cancelled")
      /\ evidence' = Release(evidence, gone)
      /\ proposals' = Settle(rs, S, "superseded")
      /\ merged' = merged
  BY DEF SupersedeDuplicateProposals, EndAll
<1>2. /\ \A i \in S : proposals[i].card # NoCard => proposals[i].card \in bound
      /\ gone \subseteq bound
      /\ \A t, n : <<t, n>> \in bound /\ <<t, n>> \notin gone =>
           cards[t][n].status \notin Active
      /\ \A i \in S : i \in DOMAIN proposals /\ proposals[i].state = "proposed"
  OBVIOUS
<1> HIDE DEF bound, gone, rs
<1>3. /\ cards \in [Tasks -> Seq(CardRows)] /\ evidence \in Seq(EvidenceRows)
      /\ proposals \in Seq(ProposalRows)
  BY DEF TypeOK
<1>4. Released(evidence, evidence', gone) /\ SameTasks(evidence, evidence')
      /\ evidence' \in Seq(EvidenceRows)
  BY <1>1, <1>3, EvidenceReleased
<1>5. rs \in Seq(ProposalRows) /\ Released(proposals, rs, bound) /\ SamePairs(proposals, rs)
  BY <1>3, ProposalsReleased DEF rs
<1>6. /\ proposals' \in Seq(ProposalRows)
      /\ SettledTo(rs, proposals', S, "superseded") /\ SamePairs(rs, proposals')
  BY <1>1, <1>5, ProposalsSettled DEF ProposalStates
<1>7. /\ CardsEdited(cards, cards')
      /\ \A t \in Tasks : \A n \in DOMAIN cards[t] :
           <<t, n>> \in gone => cards'[t][n].version > cards[t][n].version
  <2>1. /\ CardsEdited(cards, cards')
        /\ \A t \in Tasks : \A n \in DOMAIN cards[t] :
             <<t, n>> \in gone => cards'[t][n] = Ended(cards[t][n], "cancelled")
    BY <1>1, <1>3, EndAllCards
  <2>2. \A t \in Tasks : \A n \in DOMAIN cards[t] :
          Ended(cards[t][n], "cancelled").version > cards[t][n].version
    BY <1>3, CardsTyped, EndAllRow
  <2> QED BY <2>1, <2>2
\* What the proposals become.
<1>8. /\ DOMAIN proposals' = DOMAIN proposals
      /\ \A i \in DOMAIN proposals :
           /\ i \in S => proposals'[i].state = "superseded"
           /\ i \notin S => proposals'[i].state = proposals[i].state
           /\ proposals[i].state = "proposed" /\ proposals[i].card \in bound =>
                proposals'[i].card = NoCard
           /\ ~(proposals[i].state = "proposed" /\ proposals[i].card \in bound) =>
                proposals'[i].card = proposals[i].card
  BY <1>5, <1>6 DEF Released, SettledTo
<1>9. SamePairs(proposals, proposals')
  BY <1>5, <1>6 DEF SamePairs, Released
<1>10. /\ BoundWell(evidence, cards) /\ BoundWell(proposals, cards) /\ AtHome(evidence)
       /\ OneComparison(proposals) /\ OneInPlay(cards)
  BY DEF Sound, Now
<1>11. /\ BoundWell(evidence', cards') /\ BoundWell(proposals', cards')
       /\ AtHome(evidence') /\ OneComparison(proposals') /\ OneInPlay(cards')
  <2>1. OneInPlay(cards')
    BY <1>7, <1>10, EditedKeepsPlay
  <2>2. BoundWell(evidence', cards')
    BY <1>4, <1>7, <1>10, ReleasedWell
  <2>3. BoundWell(proposals', cards')
    BY <1>7, <1>8, <1>10 DEF BoundWell, CardsEdited
  <2>4. AtHome(evidence')
    BY <1>4, <1>10 DEF AtHome, Released, SameTasks
  <2>5. OneComparison(proposals')
    BY <1>8, <1>10 DEF OneComparison
  <2> QED BY <2>1, <2>2, <2>3, <2>4, <2>5
<1>12. ASSUME NEW t \in Tasks, NEW n \in DOMAIN cards[t],
              cards'[t][n].version = cards[t][n].version, cards[t][n].status \in InHand
       PROVE  /\ Binds(evidence', <<t, n>>) = Binds(evidence, <<t, n>>)
              /\ Binds(proposals', <<t, n>>) = Binds(proposals, <<t, n>>)
  <2>1. cards[t][n].version \in Nat
    BY <1>3, CardsTyped
  <2>2. <<t, n>> \notin gone
    BY <1>7, <1>12, <2>1
  <2>3. <<t, n>> \notin bound
    BY <1>2, <1>12, <2>2 DEF InHand, Active
  <2>4. Binds(evidence', <<t, n>>) = Binds(evidence, <<t, n>>)
    BY <1>4, <2>2, PlaceIsCard, ReleasedBinds
  <2>5. \A i \in S : proposals[i].card # <<t, n>>
    BY <1>2, <2>3, PlaceIsCard
  <2>6. Binds(proposals', <<t, n>>) = Binds(proposals, <<t, n>>)
    BY <1>8, <2>3, <2>5, PlaceIsCard DEF Binds
  <2> QED BY <2>4, <2>6
<1>13. /\ Later \in Tables /\ Now \in Tables
       /\ Now.cards = cards /\ Now.evidence = evidence /\ Now.proposals = proposals
       /\ Later.cards = cards' /\ Later.evidence = evidence'
       /\ Later.proposals = proposals'
  BY <1>4, <1>6, <1>7, NowIsTables DEF Later, Now, Tables, CardsEdited
<1>14. Sound(Later)
  BY <1>11, <1>13 DEF Sound
<1>15. Advances(Now, Later)
  BY <1>7, <1>12, <1>13 DEF Advances, Steady, CardsEdited
<1>16. Lapses(evidence, evidence') /\ Lapses(proposals, proposals')
  BY <1>2, <1>4, <1>8 DEF Lapses, Released
<1> QED BY <1>1, <1>9, <1>13, <1>14, <1>15, <1>16 DEF Quiet, Passes

\* The message in a reader's hand names a card.
LEMMA MessagesName ==
    ASSUME TaskCardsInv, NEW m \in messages
    PROVE  /\ m \in MessageRows /\ Follows(m)
           /\ m.card[1] \in Tasks /\ m.card[2] \in DOMAIN cards[m.card[1]]
           /\ m.card = <<m.card[1], m.card[2]>>
           /\ CardOf(m) \in CardRows
<1>1. m \in MessageRows
  BY DEF TaskCardsInv, TypeOK
<1>2. Follows(m)
  BY DEF TaskCardsInv, MessagesFollow
<1>3. /\ m.card[1] \in Tasks /\ m.card[2] \in DOMAIN cards[m.card[1]]
      /\ m.card = <<m.card[1], m.card[2]>>
  BY <1>2 DEF Follows
<1>4. CardOf(m) \in CardRows
  BY <1>3, CardsAreTyped, CardsTyped DEF CardOf, TaskCardsInv
<1> QED BY <1>1, <1>2, <1>3, <1>4

\* The cards of t after its own was raised in place of a comparison, if it was.
InFull(ended, ds, t) ==
    /\ \A n \in DOMAIN ended[t] : n \in DOMAIN ds[t] /\ ds[t][n] = ended[t][n]
    /\ \A n \in DOMAIN ds[t] \ DOMAIN ended[t] :
         /\ n = Len(ended[t]) + 1 /\ n = Len(ds[t])
         /\ ActiveIn(ended, t) = {}
         /\ ds[t][n].status = "delivered"

LEMMA ShowFullTables ==
    ASSUME TaskCardsInv, NEW m \in messages, ShowFullCards(m)
    PROVE  \E ended :
             /\ CardsEdited(cards, ended)
             /\ cards' \in [Tasks -> Seq(CardRows)]
             /\ \A t \in Tasks : InFull(ended, cards', t)
<1> DEFINE ended == EndAll(cards, {m.card}, "cancelled")
           full(t) == [NewCard(t) EXCEPT !.status = "delivered",
                        !.consumer = cards[m.card[1]][m.card[2]].consumer]
<1>0. TypeOK
  BY DEF TaskCardsInv
<1>1. CardsEdited(cards, ended)
  <2>1. \A t \in Tasks : \A n \in DOMAIN cards[t] :
          <<t, n>> \in {m.card} /\ "cancelled" = "snoozed" => cards[t][n].status \in Active
    OBVIOUS
  <2> QED BY <1>0, <2>1, CardsAreTyped, EndAllCards
<1>2. PICK pair : /\ \A t \in pair : ActiveIn(ended, t) = {}
                  /\ cards' = [t \in Tasks |-> IF t \in pair THEN Append(ended[t], full(t))
                                               ELSE ended[t]]
  BY DEF ShowFullCards, EndAll
<1>3. ASSUME NEW t \in Tasks
      PROVE  full(t) \in CardRows /\ full(t).status = "delivered"
  <2>1. NewCard(t) \in CardRows
    BY <1>0, NewCardTyped
  <2>2. cards[m.card[1]][m.card[2]].consumer \in Consumers \cup {None}
    BY MessagesName DEF CardOf, CardRows
  <2> QED BY ONLY <2>1, <2>2 DEF CardRows, Active
<1> HIDE DEF ended, full
<1>4. ASSUME NEW t \in Tasks
      PROVE  cards'[t] \in Seq(CardRows) /\ InFull(ended, cards', t)
  <2>1. /\ ended[t] \in Seq(CardRows) /\ Len(ended[t]) \in Nat
        /\ DOMAIN ended[t] = 1..Len(ended[t])
    BY <1>1, CardsTyped DEF CardsEdited
  <2>2. CASE t \in pair
    <3>1. cards'[t] = Append(ended[t], full(t))
      BY <1>2, <2>2
    <3>2. /\ cards'[t] \in Seq(CardRows) /\ Len(cards'[t]) = Len(ended[t]) + 1
          /\ DOMAIN cards'[t] = 1..(Len(ended[t]) + 1)
          /\ \A n \in 1..Len(ended[t]) : cards'[t][n] = ended[t][n]
          /\ cards'[t][Len(ended[t]) + 1] = full(t)
      BY ONLY <1>3, <2>1, <3>1
    <3> QED BY <1>2, <1>3, <2>1, <2>2, <3>2 DEF InFull
  <2>3. CASE t \notin pair
    <3>1. cards'[t] = ended[t]
      BY <1>2, <2>3
    <3> QED BY <2>1, <3>1 DEF InFull
  <2> QED BY <2>2, <2>3
<1>5. cards' \in [Tasks -> Seq(CardRows)]
  BY <1>2, <1>4
<1> QED BY <1>1, <1>4, <1>5

LEMMA ShowFullIsQuiet ==
    ASSUME TaskCardsInv, NEW m \in messages, ShowFullCards(m)
    PROVE  Quiet
<1>0. TypeOK /\ Sound(Now)
  BY DEF TaskCardsInv
<1>1. UNCHANGED <<evidence, proposals, merged>>
  BY DEF ShowFullCards
<1>2. PICK ended :
        /\ CardsEdited(cards, ended)
        /\ cards' \in [Tasks -> Seq(CardRows)]
        /\ \A t \in Tasks : InFull(ended, cards', t)
  BY ShowFullTables
<1>3. /\ Now \in Tables /\ Later \in Tables
      /\ Now.cards = cards /\ Now.evidence = evidence /\ Now.proposals = proposals
      /\ Later.cards = cards' /\ Later.evidence = evidence
      /\ Later.proposals = proposals
  BY <1>0, <1>1, <1>2, NowIsTables DEF Later, Now, Tables
<1>4. OneInPlay(ended)
  BY <1>0, <1>2, <1>3, EditedKeepsPlay DEF Sound
<1>5. OneInPlay(cards')
  <2> SUFFICES ASSUME NEW t \in Tasks, NEW n \in ActiveIn(cards', t),
                      NEW k \in ActiveIn(cards', t)
               PROVE  n = k
    BY DEF OneInPlay
  <2>1. n \in DOMAIN cards'[t] /\ k \in DOMAIN cards'[t]
    BY DEF ActiveIn
  <2>2. /\ n \in DOMAIN ended[t] => n \in ActiveIn(ended, t)
        /\ k \in DOMAIN ended[t] => k \in ActiveIn(ended, t)
    BY <1>2 DEF ActiveIn, InFull
  <2> QED BY <1>2, <1>4, <2>1, <2>2 DEF OneInPlay, InFull
<1>6. \A t \in Tasks : \A n \in DOMAIN cards[t] :
        n \in DOMAIN cards'[t] /\ CardOn(cards[t][n], cards'[t][n])
  BY <1>2 DEF CardsEdited, InFull
<1>7. Sound(Later)
  <2>1. BoundWell(evidence, cards') /\ BoundWell(proposals, cards')
    BY <1>0, <1>3, <1>6 DEF Sound, BoundWell
  <2> QED BY <1>0, <1>3, <1>5, <2>1 DEF Sound
<1>8. Advances(Now, Later)
  BY <1>3, <1>6 DEF Advances
<1>9. Lapses(evidence, evidence) /\ Lapses(proposals, proposals)
      /\ SamePairs(proposals, proposals)
  BY DEF Lapses, SamePairs
<1> QED BY <1>1, <1>3, <1>7, <1>8, <1>9 DEF Quiet, Passes

-----------------------------------------------------------------------------
(* Steps of a detector, the reader and a reversal                          *)

\* What every step does.
Moves ==
    /\ Later \in Tables /\ Sound(Later) /\ Advances(Now, Later)
    /\ DOMAIN proposals \subseteq DOMAIN proposals'
    /\ SamePairs(proposals, proposals')

LEMMA QuietMoves == TypeOK /\ Quiet => Moves
  BY DEF Quiet, Moves, Passes, Lapses, Now, Later

\* No question is bound, and those of cards outside gone stay bound.
Frees(qs, rs, gone) ==
    /\ DOMAIN qs \subseteq DOMAIN rs
    /\ \A i \in DOMAIN rs : rs[i].state = "proposed" /\ rs[i].card # NoCard =>
         /\ i \in DOMAIN qs /\ qs[i].state = "proposed"
         /\ rs[i].card = qs[i].card
    /\ \A i \in DOMAIN qs :
         qs[i].state = "proposed" /\ qs[i].card # NoCard /\ qs[i].card \notin gone =>
           rs[i].state = "proposed" /\ rs[i].card = qs[i].card

LEMMA FreesMoves ==
    ASSUME TypeOK, Sound(Now), NEW gone, CardsEdited(cards, cards'),
           \A t \in Tasks : \A n \in DOMAIN cards[t] :
             <<t, n>> \in gone => cards'[t][n].version # cards[t][n].version,
           evidence' \in Seq(EvidenceRows), proposals' \in Seq(ProposalRows),
           Frees(evidence, evidence', gone), SameTasks(evidence, evidence'),
           Frees(proposals, proposals', gone), SamePairs(proposals, proposals')
    PROVE  Moves
<1>1. /\ BoundWell(evidence, cards) /\ BoundWell(proposals, cards) /\ AtHome(evidence)
      /\ OneComparison(proposals) /\ OneInPlay(cards)
  BY DEF Sound, Now
<1>2. OneInPlay(cards')
  BY <1>1, EditedKeepsPlay
<1>3. BoundWell(evidence', cards')
  BY <1>1 DEF BoundWell, CardsEdited, Frees
<1>4. BoundWell(proposals', cards')
  BY <1>1 DEF BoundWell, CardsEdited, Frees
<1>5. AtHome(evidence')
  BY <1>1 DEF AtHome, Frees, SameTasks
<1>6. OneComparison(proposals')
  BY <1>1 DEF OneComparison, Frees
<1>7. ASSUME NEW t \in Tasks, NEW n \in DOMAIN cards[t],
             cards'[t][n].version = cards[t][n].version
      PROVE  /\ Binds(evidence', <<t, n>>) = Binds(evidence, <<t, n>>)
             /\ Binds(proposals', <<t, n>>) = Binds(proposals, <<t, n>>)
  <2>1. <<t, n>> \notin gone /\ <<t, n>> # NoCard
    BY <1>7, PlaceIsCard
  <2>2. Binds(evidence', <<t, n>>) = Binds(evidence, <<t, n>>)
    BY <2>1 DEF Binds, Frees
  <2>3. Binds(proposals', <<t, n>>) = Binds(proposals, <<t, n>>)
    BY <2>1 DEF Binds, Frees
  <2> QED BY <2>2, <2>3
<1>8. /\ Later \in Tables
      /\ Now.cards = cards /\ Now.evidence = evidence /\ Now.proposals = proposals
      /\ Later.cards = cards' /\ Later.evidence = evidence'
      /\ Later.proposals = proposals'
  BY DEF Later, Now, Tables, CardsEdited
<1>9. Sound(Later)
  BY <1>2, <1>3, <1>4, <1>5, <1>6, <1>8 DEF Sound
<1>10. Advances(Now, Later)
  BY <1>7, <1>8 DEF Advances, Steady, CardsEdited
<1> QED BY <1>8, <1>9, <1>10 DEF Moves, Frees

LEMMA FreesNone ==
    /\ \A qs, gone : Frees(qs, qs, gone)
    /\ \A es : SameTasks(es, es)
    /\ \A ps : SamePairs(ps, ps)
  BY DEF Frees, SameTasks, SamePairs

LEMMA FreesSettled ==
    ASSUME NEW qs, NEW rs, NEW S, NEW st, st # "proposed", SettledTo(qs, rs, S, st),
           NEW gone, \A i \in S : i \in DOMAIN qs => qs[i].card \in gone
    PROVE  Frees(qs, rs, gone)
  BY DEF Frees, SettledTo

LEMMA FreesReleased ==
    ASSUME NEW qs, NEW rs, NEW ids, Released(qs, rs, ids), NEW gone, ids \subseteq gone
    PROVE  Frees(qs, rs, gone)
  BY DEF Frees, Released

LEMMA FreesTwice ==
    ASSUME NEW qs, NEW rs, NEW us, NEW gone, Frees(qs, rs, gone), Frees(rs, us, gone)
    PROVE  Frees(qs, us, gone)
  BY DEF Frees

\* Cards that end pass on.
LEMMA EndedCards ==
    ASSUME TypeOK, NEW ids, NEW st \in {"resolved", "cancelled"}, cards' = EndAll(cards, ids, st)
    PROVE  /\ CardsEdited(cards, cards')
           /\ \A t \in Tasks : \A n \in DOMAIN cards[t] :
                <<t, n>> \in ids => cards'[t][n].version # cards[t][n].version
<1>1. /\ CardsEdited(cards, cards')
      /\ \A t \in Tasks : \A n \in DOMAIN cards[t] :
           <<t, n>> \in ids => cards'[t][n] = Ended(cards[t][n], st)
  BY CardsAreTyped, EndAllCards
<1>2. ASSUME NEW t \in Tasks, NEW n \in DOMAIN cards[t], <<t, n>> \in ids
      PROVE  cards'[t][n].version # cards[t][n].version
  <2>1. cards[t][n] \in CardRows /\ cards[t][n].version \in Nat
    BY CardsAreTyped, CardsTyped
  <2>2. PICK d : d = Ended(cards[t][n], st)
    OBVIOUS
  <2>3. d \in CardRows /\ d.version > cards[t][n].version
    BY <2>1, <2>2, EndAllRow
  <2>4. d.version \in Nat
    BY <2>3 DEF CardRows
  <2> QED BY <1>1, <1>2, <2>1, <2>2, <2>3, <2>4
<1> QED BY <1>1, <1>2

LEMMA SameCards ==
    ASSUME TypeOK, cards' = cards
    PROVE  /\ CardsEdited(cards, cards')
           /\ \A gone : gone = {} => \A t \in Tasks : \A n \in DOMAIN cards[t] :
                <<t, n>> \in gone => cards'[t][n].version # cards[t][n].version
  BY CardsAreTyped, CardsTyped, SameCard DEF CardsEdited

LEMMA ProposeCompletionMoves ==
    ASSUME TypeOK, Sound(Now), NEW s \in Sightings, ProposeCompletion(s[1], s[2])
    PROVE  Moves
<1> DEFINE e == [task |-> s[1], quote |-> s[2], card |-> NoCard, state |-> "proposed"]
<1>1. /\ evidence' = Append(evidence, e)
      /\ UNCHANGED <<cards, proposals>>
  BY DEF ProposeCompletion
<1>2. e \in EvidenceRows /\ e.card = NoCard
  BY TaskCardsAssumption DEF EvidenceRows, Quotes
<1> HIDE DEF e
<1>3. /\ evidence' \in Seq(EvidenceRows) /\ evidence \in Seq(EvidenceRows)
      /\ DOMAIN evidence' = DOMAIN evidence \cup {Len(evidence) + 1}
      /\ \A i \in DOMAIN evidence : evidence'[i] = evidence[i]
      /\ evidence'[Len(evidence) + 1] = e
  <2>1. evidence \in Seq(EvidenceRows)
    BY DEF TypeOK
  <2> QED BY ONLY <1>1, <1>2, <2>1
<1>4. Frees(evidence, evidence', {}) /\ SameTasks(evidence, evidence')
  BY <1>2, <1>3 DEF Frees, SameTasks
<1>5. /\ Frees(proposals, proposals', {}) /\ SamePairs(proposals, proposals')
      /\ proposals' \in Seq(ProposalRows)
  BY <1>1, FreesNone DEF TypeOK
<1>6. CardsEdited(cards, cards')
  BY <1>1, SameCards
<1> QED BY <1>3, <1>4, <1>5, <1>6, FreesMoves

LEMMA ProposeDuplicateMoves ==
    ASSUME TypeOK, Sound(Now), NEW s \in Suspects, ProposeDuplicate(s[1], s[2])
    PROVE  /\ Moves
           /\ DOMAIN proposals' = DOMAIN proposals \cup {Len(proposals) + 1}
           /\ \A i \in DOMAIN proposals : proposals'[i] = proposals[i]
           /\ proposals'[Len(proposals) + 1] =
                [left |-> s[1], right |-> s[2], left_version |-> task[s[1]].version,
                 right_version |-> task[s[2]].version, card |-> NoCard,
                 state |-> "proposed"]
<1> DEFINE p == [left |-> s[1], right |-> s[2], left_version |-> task[s[1]].version,
                 right_version |-> task[s[2]].version, card |-> NoCard,
                 state |-> "proposed"]
<1>1. /\ proposals' = Append(proposals, p)
      /\ UNCHANGED <<cards, evidence>>
  BY DEF ProposeDuplicate
<1>2. p \in ProposalRows /\ p.card = NoCard
  <2>1. s[1] \in Tasks /\ s[2] \in Tasks
    BY TaskCardsAssumption
  <2>2. task[s[1]].version \in Nat /\ task[s[2]].version \in Nat
    BY <2>1 DEF TypeOK
  <2> QED BY <2>1, <2>2 DEF ProposalRows
<1> HIDE DEF p
<1>3. /\ proposals' \in Seq(ProposalRows)
      /\ DOMAIN proposals' = DOMAIN proposals \cup {Len(proposals) + 1}
      /\ \A i \in DOMAIN proposals : proposals'[i] = proposals[i]
      /\ proposals'[Len(proposals) + 1] = p
  <2>1. proposals \in Seq(ProposalRows)
    BY DEF TypeOK
  <2> QED BY ONLY <1>1, <1>2, <2>1
<1>4. Frees(proposals, proposals', {}) /\ SamePairs(proposals, proposals')
  BY <1>2, <1>3 DEF Frees, SamePairs
<1>5. /\ Frees(evidence, evidence', {}) /\ SameTasks(evidence, evidence')
      /\ evidence' \in Seq(EvidenceRows)
  BY <1>1, FreesNone DEF TypeOK
<1>6. CardsEdited(cards, cards')
  BY <1>1, SameCards
<1> QED BY <1>3, <1>4, <1>5, <1>6, FreesMoves DEF p

\* The question an answer settles is of the answered card.
LEMMA BoundOnes ==
    ASSUME NEW qs, DOMAIN qs \subseteq Nat, NEW c, Binds(qs, c) # {}
    PROVE  /\ First(Binds(qs, c)) \in DOMAIN qs
           /\ First(Binds(qs, c)) \in Binds(qs, c)
           /\ qs[First(Binds(qs, c))].card = c
           /\ qs[First(Binds(qs, c))].state = "proposed"
<1>1. Binds(qs, c) \subseteq Nat
  BY DEF Binds
<1>2. First(Binds(qs, c)) \in Binds(qs, c)
  BY <1>1, FirstIsIn
<1> QED BY <1>2 DEF Binds

LEMMA ActTables ==
    ASSUME TypeOK, Sound(Now), NEW m \in messages,
           NEW a \in {"done", "drop", "keep_open"}, ActOnTask(m, a)
    PROVE  /\ Moves
           /\ DOMAIN evidence' = DOMAIN evidence
           /\ \A i \in DOMAIN evidence :
                evidence'[i].state # evidence[i].state =>
                  /\ Binds(evidence, m.card) # {}
                  /\ i = First(Binds(evidence, m.card))
<1> DEFINE asked == Binds(evidence, m.card)
           st == Outcome[a]
<1>1. /\ cards' = EndAll(cards, {m.card}, "resolved")
      /\ evidence' = IF asked = {} THEN evidence
                     ELSE Settle(evidence, {First(asked)}, st)
      /\ proposals' = proposals
  BY DEF ActOnTask, EndAll
<1>2. st \in EvidenceStates /\ st # "proposed"
  BY DEF Outcome, EvidenceStates
<1> HIDE DEF st
<1>3. evidence \in Seq(EvidenceRows) /\ proposals \in Seq(ProposalRows)
  BY DEF TypeOK
<1>4. /\ evidence' \in Seq(EvidenceRows)
      /\ Frees(evidence, evidence', {m.card}) /\ SameTasks(evidence, evidence')
      /\ DOMAIN evidence' = DOMAIN evidence
      /\ \A i \in DOMAIN evidence :
           evidence'[i].state # evidence[i].state => asked # {} /\ i = First(asked)
  <2>1. CASE asked = {}
    BY <1>1, <1>3, <2>1, FreesNone
  <2>2. CASE asked # {}
    <3>1. evidence' = Settle(evidence, {First(asked)}, st)
      BY <1>1, <2>2
    <3>2. /\ evidence' \in Seq(EvidenceRows)
          /\ SettledTo(evidence, evidence', {First(asked)}, st)
          /\ SameTasks(evidence, evidence')
      BY <1>2, <1>3, <3>1, EvidenceSettled
    <3>3. DOMAIN evidence \subseteq Nat
      BY <1>3, QuestionsTyped
    <3>4. First(asked) \in DOMAIN evidence /\ evidence[First(asked)].card = m.card
      BY <2>2, <3>3, BoundOnes
    <3> HIDE DEF asked
    <3>5. Frees(evidence, evidence', {m.card})
      BY <1>2, <3>2, <3>4, FreesSettled
    <3> QED BY <2>2, <3>2, <3>5 DEF SettledTo
  <2> QED BY <2>1, <2>2
<1>5. /\ proposals' \in Seq(ProposalRows) /\ Frees(proposals, proposals', {m.card})
      /\ SamePairs(proposals, proposals')
  BY <1>1, <1>3, FreesNone
<1>6. /\ CardsEdited(cards, cards')
      /\ \A t \in Tasks : \A n \in DOMAIN cards[t] :
           <<t, n>> \in {m.card} => cards'[t][n].version # cards[t][n].version
  BY <1>1, EndedCards
<1>7. Moves
  BY <1>4, <1>5, <1>6, FreesMoves
<1> QED BY <1>4, <1>7

LEMMA RejectTables ==
    ASSUME TypeOK, Sound(Now), NEW m \in messages, NEW i \in DOMAIN proposals,
           DuplicateReject(m, i)
    PROVE  /\ Moves
           /\ evidence' = evidence
           /\ i \in Binds(proposals, m.card)
           /\ SettledTo(proposals, proposals', {i}, "rejected")
<1>1. /\ cards' = EndAll(cards, {m.card}, "cancelled")
      /\ proposals' = Settle(proposals, {i}, "rejected")
      /\ evidence' = evidence /\ i \in Binds(proposals, m.card)
  BY DEF DuplicateReject, Comparison, EndAll
<1>2. evidence \in Seq(EvidenceRows) /\ proposals \in Seq(ProposalRows)
  BY DEF TypeOK
<1>3. /\ proposals' \in Seq(ProposalRows)
      /\ SettledTo(proposals, proposals', {i}, "rejected")
      /\ SamePairs(proposals, proposals')
  BY <1>1, <1>2, ProposalsSettled DEF ProposalStates
<1>4. Frees(proposals, proposals', {m.card})
  <2>1. \A j \in {i} : j \in DOMAIN proposals => proposals[j].card \in {m.card}
    BY <1>1 DEF Binds
  <2> QED BY <1>3, <2>1, FreesSettled
<1>5. Frees(evidence, evidence', {m.card}) /\ SameTasks(evidence, evidence')
      /\ evidence' \in Seq(EvidenceRows)
  BY <1>1, <1>2, FreesNone
<1>6. /\ CardsEdited(cards, cards')
      /\ \A t \in Tasks : \A n \in DOMAIN cards[t] :
           <<t, n>> \in {m.card} => cards'[t][n].version # cards[t][n].version
  BY <1>1, EndedCards
<1>7. Moves
  BY <1>3, <1>4, <1>5, <1>6, FreesMoves
<1> QED BY <1>1, <1>3, <1>7

LEMMA ConfirmTables ==
    ASSUME TypeOK, Sound(Now), NEW m \in messages, NEW i \in DOMAIN proposals,
           DuplicateConfirm(m, i)
    PROVE  /\ Moves
           /\ Lapses(evidence, evidence')
           /\ i \in Binds(proposals, m.card)
           /\ DOMAIN proposals' = DOMAIN proposals
           /\ proposals'[i].state = "confirmed"
           /\ \A j \in DOMAIN proposals : j # i => proposals'[j].state = proposals[j].state
<1> DEFINE s == Subject(proposals[i])
           others == {id \in CardIds : /\ id[1] = s /\ id # m.card
                                       /\ cards[id[1]][id[2]].status \in Active}
           gone == others \cup {m.card}
           rs == Release(proposals, others)
<1>1. /\ cards' = EndAll(cards, gone, "cancelled")
      /\ evidence' = Release(evidence, others)
      /\ proposals' = Settle(rs, {i}, "confirmed")
      /\ i \in Binds(proposals, m.card)
  BY DEF DuplicateConfirm, Comparison, EndAll
<1>2. others \subseteq gone /\ m.card \in gone /\ m.card \notin others
  OBVIOUS
<1>3. evidence \in Seq(EvidenceRows) /\ proposals \in Seq(ProposalRows)
  BY DEF TypeOK
<1> HIDE DEF others, gone, s
<1>4. rs \in Seq(ProposalRows) /\ Released(proposals, rs, others) /\ SamePairs(proposals, rs)
  BY <1>3, ProposalsReleased
<1> HIDE DEF rs
<1>5. /\ proposals' \in Seq(ProposalRows)
      /\ SettledTo(rs, proposals', {i}, "confirmed") /\ SamePairs(rs, proposals')
  BY <1>1, <1>4, ProposalsSettled DEF ProposalStates
<1>6. rs[i].card = m.card
  BY <1>1, <1>2, <1>4 DEF Binds, Released
<1>7. Frees(proposals, proposals', gone)
  <2>1. Frees(proposals, rs, gone)
    BY <1>2, <1>4, FreesReleased
  <2>2. \A j \in {i} : j \in DOMAIN rs => rs[j].card \in gone
    BY <1>2, <1>6
  <2>3. Frees(rs, proposals', gone)
    BY <1>5, <2>2, FreesSettled
  <2> QED BY <2>1, <2>3, FreesTwice
<1>8. SamePairs(proposals, proposals')
  BY <1>4, <1>5 DEF SamePairs, Released
<1>9. /\ evidence' \in Seq(EvidenceRows) /\ Released(evidence, evidence', others)
      /\ SameTasks(evidence, evidence')
  BY <1>1, <1>3, EvidenceReleased
<1>10. Frees(evidence, evidence', gone) /\ Lapses(evidence, evidence')
  BY <1>2, <1>9, FreesReleased DEF Released, Lapses
<1>11. /\ CardsEdited(cards, cards')
       /\ \A t \in Tasks : \A n \in DOMAIN cards[t] :
            <<t, n>> \in gone => cards'[t][n].version # cards[t][n].version
  BY <1>1, EndedCards
<1>12. Moves
  BY <1>5, <1>7, <1>8, <1>9, <1>10, <1>11, FreesMoves
<1>13. /\ DOMAIN proposals' = DOMAIN proposals
       /\ proposals'[i].state = "confirmed"
       /\ \A j \in DOMAIN proposals : j # i => proposals'[j].state = proposals[j].state
  BY <1>4, <1>5 DEF Released, SettledTo
<1> QED BY <1>1, <1>10, <1>12, <1>13

LEMMA ReverseTables ==
    ASSUME TypeOK, Sound(Now), NEW i \in DOMAIN proposals, ReverseDuplicate(i)
    PROVE  /\ Moves
           /\ evidence' = evidence
           /\ DOMAIN proposals' = DOMAIN proposals
           /\ proposals'[i].state = "proposed"
           /\ \A j \in DOMAIN proposals : j # i => proposals'[j] = proposals[j]
<1> DEFINE p == [proposals[i] EXCEPT !.state = "proposed", !.card = NoCard]
<1>1. /\ proposals' = [proposals EXCEPT ![i].state = "proposed", ![i].card = NoCard]
      /\ proposals[i].state = "confirmed"
      /\ UNCHANGED <<cards, evidence>>
  BY DEF ReverseDuplicate
<1>2. evidence \in Seq(EvidenceRows) /\ proposals \in Seq(ProposalRows)
      /\ proposals[i] \in ProposalRows
  BY QuestionsTyped DEF TypeOK
<1>3. /\ p \in ProposalRows /\ p.state = "proposed" /\ p.card = NoCard
      /\ p.left = proposals[i].left /\ p.right = proposals[i].right
      /\ p.left_version = proposals[i].left_version
      /\ p.right_version = proposals[i].right_version
  BY <1>2 DEF ProposalRows
<1>4. proposals' = [proposals EXCEPT ![i] = p]
  BY <1>1, <1>2
<1> HIDE DEF p
<1>5. /\ DOMAIN proposals' = DOMAIN proposals
      /\ proposals'[i] = p
      /\ \A j \in DOMAIN proposals : j # i => proposals'[j] = proposals[j]
  BY <1>4
<1>6. proposals' \in Seq(ProposalRows)
  BY ONLY <1>2, <1>3, <1>4
<1>7. Frees(proposals, proposals', {}) /\ SamePairs(proposals, proposals')
  BY <1>1, <1>3, <1>5 DEF Frees, SamePairs
<1>8. Frees(evidence, evidence', {}) /\ SameTasks(evidence, evidence')
      /\ evidence' \in Seq(EvidenceRows)
  BY <1>1, <1>2, FreesNone
<1>9. CardsEdited(cards, cards')
  BY <1>1, SameCards
<1>10. Moves
  BY <1>6, <1>7, <1>8, <1>9, FreesMoves
<1> QED BY <1>1, <1>3, <1>5, <1>10

-----------------------------------------------------------------------------
(* Every step                                                              *)

LEMMA NextIsQuietOrSpoken ==
    ASSUME TaskCardsInv, [Next]_vars
    PROVE  \/ Quiet
           \/ \E s \in Sightings : ProposeCompletion(s[1], s[2])
           \/ \E s \in Suspects : ProposeDuplicate(s[1], s[2])
           \/ \E m \in messages : \E a \in {"done", "drop", "keep_open"} : ActOnTask(m, a)
           \/ \E m \in messages : \E i \in DOMAIN proposals : DuplicateConfirm(m, i)
           \/ \E m \in messages : \E i \in DOMAIN proposals : DuplicateReject(m, i)
           \/ \E i \in DOMAIN proposals : ReverseDuplicate(i)
<1>0. TypeOK /\ Sound(Now)
  BY DEF TaskCardsInv
<1>1. CASE UNCHANGED vars
  BY <1>0, <1>1, StillIsQuiet DEF vars
<1>2. CASE Detector
  BY <1>2 DEF Detector
<1>3. CASE Operator
  <2>1. ASSUME NEW id \in CardIds, RetryDelivery(id) PROVE Quiet
    BY <1>0, <2>1, RetryIsQuiet
  <2>2. ASSUME NEW S \in SUBSET {i \in DOMAIN proposals : proposals[i].state = "proposed"},
               SupersedeDuplicateProposals(S)
        PROVE  Quiet
    BY <1>0, <2>2, SupersedeIsQuiet
  <2>3. ASSUME NEW t \in Tasks, BulkDropTask(t) PROVE Quiet
    BY <1>0, <2>3, StillIsQuiet DEF BulkDropTask
  <2>4. ASSUME BulkDropSweep PROVE Quiet
    BY <1>0, <2>4, SweepIsQuiet
  <2> QED BY <1>3, <2>1, <2>2, <2>3, <2>4 DEF Operator
<1>4. CASE Consumer
  <2>1. ASSUME NEW k \in Consumers, NEW id \in CardIds, ClaimNext(k, id) PROVE Quiet
    BY <1>0, <2>1, ClaimNextIsQuiet
  <2>2. ASSUME NEW k \in Consumers, ClaimNothing(k) PROVE Quiet
    BY <1>0, <2>2, ClaimNothingIsQuiet
  <2>3. ASSUME NEW k \in Consumers, NEW id \in CardIds, ClaimExact(k, id) PROVE Quiet
    BY <1>0, <2>3, ClaimExactIsQuiet
  <2>4. ASSUME NEW m \in messages, CompleteDelivery(m) PROVE Quiet
    BY <1>0, <2>4, CompleteIsQuiet
  <2>5. ASSUME NEW m \in messages, FailDelivery(m) PROVE Quiet
    BY <1>0, <2>5, FailIsQuiet
  <2> QED BY <1>4, <2>1, <2>2, <2>3, <2>4, <2>5 DEF Consumer
<1>5. CASE Reader
  <2>1. ASSUME NEW m \in messages, Snooze(m) PROVE Quiet
    BY <1>0, <2>1, SnoozeIsQuiet
  <2>2. ASSUME NEW m \in messages, ShowFullCards(m) PROVE Quiet
    BY <2>2, ShowFullIsQuiet
  <2> QED BY <1>5, <2>1, <2>2 DEF Reader
<1>6. CASE World
  <2>1. ASSUME NEW t \in Tasks, NEW a \in {"done", "drop", "reopen"}, Transition(t, a)
        PROVE  Quiet
    BY <1>0, <2>1, StillIsQuiet DEF Transition
  <2>2. ASSUME NEW t \in Tasks, NEW kind \in InputKinds, SourceMoves(t, kind) PROVE Quiet
    BY <1>0, <2>2, StillIsQuiet DEF SourceMoves
  <2>3. ASSUME NEW t \in Tasks, NEW mode \in WorkflowModes, WorkflowMoves(t, mode)
        PROVE  Quiet
    BY <1>0, <2>3, StillIsQuiet DEF WorkflowMoves
  <2>4. ASSUME NEW id \in CardIds, TimePasses(id) PROVE Quiet
    BY <1>0, <2>4, TimeIsQuiet
  <2> QED BY <1>6, <2>1, <2>2, <2>3, <2>4 DEF World
<1>7. CASE Schedule
  BY <1>0, <1>7, ScheduleIsQuiet
<1>8. CASE ScheduleDuplicateProposals
  BY <1>0, <1>8, ScheduleDuplicatesIsQuiet
<1>9. CASE RequeueUnanswered
  BY <1>0, <1>9, RequeueIsQuiet
<1> QED BY <1>1, <1>2, <1>3, <1>4, <1>5, <1>6, <1>7, <1>8, <1>9 DEF Next

LEMMA NextMoves ==
    ASSUME TaskCardsInv, [Next]_vars
    PROVE  Moves
<1>0. TypeOK /\ Sound(Now)
  BY DEF TaskCardsInv
<1>1. ASSUME NEW s \in Sightings, ProposeCompletion(s[1], s[2]) PROVE Moves
  BY <1>0, <1>1, ProposeCompletionMoves
<1>2. ASSUME NEW s \in Suspects, ProposeDuplicate(s[1], s[2]) PROVE Moves
  BY <1>0, <1>2, ProposeDuplicateMoves
<1>3. ASSUME NEW m \in messages, NEW a \in {"done", "drop", "keep_open"}, ActOnTask(m, a)
      PROVE  Moves
  BY <1>0, <1>3, ActTables
<1>4. ASSUME NEW m \in messages, NEW i \in DOMAIN proposals, DuplicateConfirm(m, i)
      PROVE  Moves
  BY <1>0, <1>4, ConfirmTables
<1>5. ASSUME NEW m \in messages, NEW i \in DOMAIN proposals, DuplicateReject(m, i)
      PROVE  Moves
  BY <1>0, <1>5, RejectTables
<1>6. ASSUME NEW i \in DOMAIN proposals, ReverseDuplicate(i)
      PROVE  Moves
  BY <1>0, <1>6, ReverseTables
<1>7. Quiet => Moves
  BY <1>0, QuietMoves
<1> QED BY <1>1, <1>2, <1>3, <1>4, <1>5, <1>6, <1>7, NextIsQuietOrSpoken

\* The tasks rows.
TaskRows == [status : {"open", "done", "dropped"}, version : Nat \ {0},
             revision : Nat, preserved : BOOLEAN]

LEMMA Successors ==
    ASSUME NEW r \in TaskRows
    PROVE  /\ r.version + 1 \in Nat \ {0} /\ r.version <= r.version + 1
           /\ r.version <= r.version /\ r.revision + 1 \in Nat
<1>1. r.version \in Nat \ {0} /\ r.revision \in Nat
  BY DEF TaskRows
<1> QED BY ONLY <1>1

\* A task's version only grows.
Grows == /\ task' \in [Tasks -> TaskRows]
         /\ \A t \in Tasks : task[t].version <= task'[t].version

LEMMA ClosedGrows ==
    ASSUME TypeOK, NEW t \in Tasks, NEW st \in {"open", "done", "dropped"},
           task' = Closed(t, st)
    PROVE  Grows
<1>1. task \in [Tasks -> TaskRows]
  BY DEF TypeOK, TaskRows
<1>2. task' = [task EXCEPT ![t] = [task[t] EXCEPT !.status = st,
                                                 !.version = task[t].version + 1]]
  BY <1>1 DEF Closed
<1>3. PICK r : r = [task[t] EXCEPT !.status = st, !.version = task[t].version + 1]
  OBVIOUS
<1>4. r \in TaskRows /\ task[t].version <= r.version
  <2>1. task[t] \in TaskRows
    BY <1>1
  <2>2. task[t].version + 1 \in Nat \ {0} /\ task[t].version <= task[t].version + 1
    BY <2>1, Successors
  <2> QED BY ONLY <1>3, <2>1, <2>2, st \in {"open", "done", "dropped"} DEF TaskRows
<1>5. \A u \in Tasks : task[u].version \in Nat
  BY <1>1 DEF TaskRows
<1> QED BY ONLY <1>1, <1>2, <1>3, <1>4, <1>5 DEF Grows

LEMMA StillGrows ==
    ASSUME TypeOK, task' = task
    PROVE  Grows
<1>1. task \in [Tasks -> TaskRows]
  BY DEF TypeOK, TaskRows
<1>2. \A u \in Tasks : task[u].version \in Nat
  BY <1>1 DEF TaskRows
<1> QED BY <1>1, <1>2 DEF Grows

LEMMA SourceGrows ==
    ASSUME TypeOK, NEW t \in Tasks, NEW kind, SourceMoves(t, kind)
    PROVE  Grows
<1>1. task \in [Tasks -> TaskRows] /\ task[t] \in TaskRows
  BY DEF TypeOK, TaskRows
<1>4. /\ task[t].version + 1 \in Nat \ {0} /\ task[t].version <= task[t].version + 1
      /\ task[t].version <= task[t].version /\ task[t].revision + 1 \in Nat
  BY <1>1, Successors
<1>2. PICK r \in TaskRows : /\ task' = [task EXCEPT ![t] = r]
                            /\ task[t].version <= r.version
  <2>1. CASE kind = "revise"
    <3>1. task' = [task EXCEPT ![t] = [task[t] EXCEPT
                     !.revision = task[t].revision + 1, !.version = task[t].version + 1]]
      BY <1>1, <2>1 DEF SourceMoves
    <3>2. PICK r : r = [task[t] EXCEPT
                     !.revision = task[t].revision + 1, !.version = task[t].version + 1]
      OBVIOUS
    <3>3. r \in TaskRows /\ task[t].version <= r.version
      BY ONLY <1>1, <1>4, <3>2 DEF TaskRows
    <3> QED BY <3>1, <3>2, <3>3
  <2>2. CASE kind = "enrich"
    <3>1. task' = [task EXCEPT ![t] = [task[t] EXCEPT !.revision = task[t].revision + 1]]
      BY <1>1, <2>2 DEF SourceMoves
    <3>2. PICK r : r = [task[t] EXCEPT !.revision = task[t].revision + 1]
      OBVIOUS
    <3>3. r \in TaskRows /\ task[t].version <= r.version
      BY ONLY <1>1, <1>4, <3>2 DEF TaskRows
    <3> QED BY <3>1, <3>2, <3>3
  <2>3. CASE kind \notin {"revise", "enrich"}
    <3>1. task' = [task EXCEPT ![t] = [task[t] EXCEPT !.preserved = TRUE]]
      BY <1>1, <2>3 DEF SourceMoves
    <3>2. PICK r : r = [task[t] EXCEPT !.preserved = TRUE]
      OBVIOUS
    <3>3. r \in TaskRows /\ task[t].version <= r.version
      BY ONLY <1>1, <1>4, <3>2 DEF TaskRows
    <3> QED BY <3>1, <3>2, <3>3
  <2> QED BY <2>1, <2>2, <2>3
<1>3. \A u \in Tasks : task[u].version \in Nat
  BY <1>1 DEF TaskRows
<1> QED BY ONLY <1>1, <1>2, <1>3 DEF Grows

\* The rows and counters besides the tables.
RestTyped ==
    /\ Grows
    /\ wf' \in [Tasks -> WorkflowModes]
    /\ messages' \subseteq MessageRows
    /\ merged' \subseteq Tasks \X Tasks
    /\ answers' \in 0..MaxAnswers
    /\ inputs' \in 0..MaxInputs
    /\ faults' \in 0..MaxFaults

LEMMA Spent ==
    ASSUME TypeOK
    PROVE  /\ answers > 0 => answers - 1 \in 0..MaxAnswers
           /\ inputs > 0 => inputs - 1 \in 0..MaxInputs
           /\ faults > 0 => faults - 1 \in 0..MaxFaults
<1>1. MaxAnswers \in Nat /\ MaxInputs \in Nat /\ MaxFaults \in Nat
  BY TaskCardsAssumption
<1>2. answers \in 0..MaxAnswers /\ inputs \in 0..MaxInputs /\ faults \in 0..MaxFaults
  BY DEF TypeOK
<1> QED BY ONLY <1>1, <1>2

LEMMA QuestionTyped ==
    ASSUME TypeOK, NEW id
    PROVE  Question(id) \in Questions
<1>1. evidence \in Seq(EvidenceRows) /\ proposals \in Seq(ProposalRows)
  BY DEF TypeOK
<1>2. DOMAIN evidence \subseteq Nat /\ DOMAIN proposals \subseteq Nat
  BY <1>1, QuestionsTyped
<1>3. Binds(proposals, id) # {} => First(Binds(proposals, id)) \in Nat
  BY <1>2, BoundOnes
<1>4. Binds(evidence, id) # {} => First(Binds(evidence, id)) \in Nat
  BY <1>2, BoundOnes
<1>5. Plain \in Questions
  BY DEF Plain, Questions, None
<1>6. \A n \in Nat : /\ [kind |-> "proposal", id |-> n] \in Questions
                     /\ [kind |-> "evidence", id |-> n] \in Questions
  BY DEF Questions
<1> QED BY <1>3, <1>4, <1>5, <1>6 DEF Question

\* The tasks as a message sees them.
Seen == [t \in Tasks |-> task[t].version]

\* A message of the card at version v.
RenderedAs(id, exact, v) == [Rendered(id, exact) EXCEPT !.version = v]

LEMMA RenderedTyped ==
    ASSUME TypeOK, NEW id \in CardIds, NEW exact \in BOOLEAN, NEW v \in Nat, NEW m,
           m = RenderedAs(id, exact, v)
    PROVE  /\ m \in MessageRows
           /\ m.card = id /\ m.version = v /\ m.shows = Question(id)
           /\ m.seen = Seen /\ m.exact = exact
<1>1. Question(id) \in Questions
  BY QuestionTyped
<1>2. Seen \in [Tasks -> Nat]
  BY DEF Seen, TypeOK
<1>3. id \in Tasks \X (1..MaxCards)
  BY NamesOfCards
<1>4. PICK q, w : q = Question(id) /\ w = Seen
  OBVIOUS
<1>5. m = [card |-> id, version |-> v, shows |-> q, seen |-> w, exact |-> exact]
  BY <1>4 DEF RenderedAs, Rendered, Seen
<1>6. m \in MessageRows
  BY ONLY <1>1, <1>2, <1>3, <1>4, <1>5, exact \in BOOLEAN, v \in Nat DEF MessageRows
<1> QED BY <1>4, <1>5, <1>6

LEMMA ClaimedTyped ==
    ASSUME TypeOK, NEW k \in Consumers, NEW id \in CardIds,
           ClaimNext(k, id) \/ ClaimExact(k, id)
    PROVE  \E m : /\ messages' = messages \cup {m}
                  /\ m \in MessageRows
                  /\ m.card = id /\ m.shows = Question(id) /\ m.seen = Seen
                  /\ m.version = cards'[id[1]][id[2]].version
                  /\ CardsEdited(cards, cards')
                  /\ cards'[id[1]][id[2]].status = "delivering"
                  /\ cards'[id[1]][id[2]].version > cards[id[1]][id[2]].version
                  /\ cards'[id[1]][id[2]].task_version = task[id[1]].version
<1>1. id[1] \in Tasks /\ id[2] \in DOMAIN cards[id[1]]
  BY NamesOfCards
<1>2. cards[id[1]][id[2]].version \in Nat
  BY <1>1, CardsAreTyped, CardsTyped
<1>3. CASE ClaimNext(k, id)
  <2>1. PICK m : /\ messages' = messages \cup {m}
                 /\ m = RenderedAs(id, FALSE, cards'[id[1]][id[2]].version)
    BY <1>3, ClaimNextCards DEF RenderedAs
  <2>6. PICK b \in BOOLEAN : b = FALSE
    OBVIOUS
  <2>5. PICK v : v = cards'[id[1]][id[2]].version
    OBVIOUS
  <2>2. CardsEdited(cards, cards') /\ id[2] \in DOMAIN cards'[id[1]]
    BY <1>3, ClaimNextCards
  <2>3. cards'[id[1]][id[2]].version \in Nat
    BY <1>1, <2>2, CardsTyped DEF CardsEdited
  <2>4. /\ m \in MessageRows /\ m.card = id /\ m.shows = Question(id) /\ m.seen = Seen
        /\ m.version = cards'[id[1]][id[2]].version
    <3>1. v \in Nat /\ m = RenderedAs(id, b, v)
      BY <2>1, <2>3, <2>5, <2>6
    <3> QED BY <2>5, <2>6, <3>1, RenderedTyped
  <2> QED BY <1>3, <2>1, <2>2, <2>4, ClaimNextCards
<1>4. CASE ClaimExact(k, id)
  <2>1. /\ messages' = messages \cup {Rendered(id, TRUE)}
        /\ CardsEdited(cards, cards') /\ id[2] \in DOMAIN cards'[id[1]]
        /\ cards'[id[1]][id[2]].version = cards[id[1]][id[2]].version + 1
    BY <1>4, ClaimExactCards
  <2>2. PICK m : m = Rendered(id, TRUE)
    OBVIOUS
  <2>3. PICK v : v = cards'[id[1]][id[2]].version
    OBVIOUS
  <2>4. v \in Nat /\ v > cards[id[1]][id[2]].version
    BY <1>2, <2>1, <2>3
  <2>5. m = RenderedAs(id, TRUE, v)
    BY <2>1, <2>2, <2>3 DEF RenderedAs, Rendered
  <2>6. /\ m \in MessageRows /\ m.card = id /\ m.shows = Question(id) /\ m.seen = Seen
        /\ m.version = v
    <3>1. PICK b \in BOOLEAN : b = TRUE
      OBVIOUS
    <3>2. m = RenderedAs(id, b, v)
      BY <2>5, <3>1
    <3> QED BY <2>4, <3>2, RenderedTyped
  <2> QED BY <1>4, <2>1, <2>2, <2>3, <2>4, <2>6, ClaimExactCards
<1> QED BY <1>3, <1>4

LEMMA ClosedRest ==
    ASSUME TypeOK, NEW t \in Tasks, NEW st \in {"open", "done", "dropped"},
           task' = task \/ task' = Closed(t, st)
    PROVE  Grows
  BY ClosedGrows, StillGrows

LEMMA SpokenRest ==
    ASSUME TaskCardsInv, NEW m \in messages, NEW t \in Tasks,
           NEW st \in {"open", "done", "dropped"},
           task' = task \/ task' = Closed(t, st),
           merged' \subseteq Tasks \X Tasks,
           answers > 0, answers' = answers - 1,
           UNCHANGED <<wf, messages, inputs, faults>>
    PROVE  RestTyped
<1>1. TypeOK
  BY DEF TaskCardsInv
<1>2. Grows
  BY <1>1, ClosedRest
<1>3. answers' \in 0..MaxAnswers
  BY <1>1, Spent
<1> QED BY <1>1, <1>2, <1>3 DEF RestTyped, TypeOK

LEMMA ReaderRest ==
    ASSUME TaskCardsInv, Reader
    PROVE  RestTyped
<1>0. TypeOK /\ merged \subseteq Tasks \X Tasks
  BY DEF TaskCardsInv, TypeOK
<1>1. ASSUME NEW m \in messages, NEW a \in {"done", "drop", "keep_open"}, ActOnTask(m, a)
      PROVE  RestTyped
  <2>1. m.card[1] \in Tasks
    BY MessagesName
  <2>2. \E st \in {"open", "done", "dropped"} :
          task' = task \/ task' = Closed(m.card[1], st)
    BY <1>1 DEF ActOnTask
  <2>3. /\ answers > 0 /\ answers' = answers - 1
        /\ UNCHANGED <<wf, messages, inputs, faults, merged>>
    BY <1>1 DEF ActOnTask, Answer
  <2> QED BY <1>0, <2>1, <2>2, <2>3, SpokenRest
<1>2. ASSUME NEW m \in messages, Snooze(m) \/ ShowFullCards(m)
      PROVE  RestTyped
  <2>1. m.card[1] \in Tasks
    BY MessagesName
  <2>2. /\ answers > 0 /\ answers' = answers - 1
        /\ UNCHANGED <<task, wf, messages, inputs, faults, merged>>
    BY <1>2 DEF Snooze, ShowFullCards, Answer
  <2>3. "open" \in {"open", "done", "dropped"}
    OBVIOUS
  <2> QED BY <1>0, <2>1, <2>2, <2>3, SpokenRest
<1>3. ASSUME NEW m \in messages, NEW i \in DOMAIN proposals, DuplicateReject(m, i)
      PROVE  RestTyped
  <2>1. m.card[1] \in Tasks
    BY MessagesName
  <2>2. /\ answers > 0 /\ answers' = answers - 1
        /\ UNCHANGED <<task, wf, messages, inputs, faults, merged>>
    BY <1>3 DEF DuplicateReject, Answer
  <2>3. "open" \in {"open", "done", "dropped"}
    OBVIOUS
  <2> QED BY <1>0, <2>1, <2>2, <2>3, SpokenRest
<1>4. ASSUME NEW m \in messages, NEW i \in DOMAIN proposals, DuplicateConfirm(m, i)
      PROVE  RestTyped
  <2>1. proposals[i].left \in Tasks /\ proposals[i].right \in Tasks
    BY <1>0, QuestionsTyped DEF TypeOK, ProposalRows
  <2>2. Subject(proposals[i]) \in Tasks /\ Object(proposals[i]) \in Tasks
    BY <2>1 DEF Subject, Object, Asks
  <2>3. /\ answers > 0 /\ answers' = answers - 1
        /\ UNCHANGED <<wf, messages, inputs, faults>>
        /\ merged' = merged \cup {<<Subject(proposals[i]), Object(proposals[i])>>}
        /\ task' = Closed(Subject(proposals[i]), "dropped")
    BY <1>4 DEF DuplicateConfirm, Answer
  <2>4. merged' \subseteq Tasks \X Tasks
    BY <1>0, <2>2, <2>3
  <2>5. "dropped" \in {"open", "done", "dropped"}
    OBVIOUS
  <2> QED BY <2>2, <2>3, <2>4, <2>5, SpokenRest
<1> QED BY <1>1, <1>2, <1>3, <1>4 DEF Reader

\* A step outside that closes or reopens a task, or leaves it.
LEMMA WorldRest ==
    ASSUME TypeOK, Grows, wf' \in [Tasks -> WorkflowModes],
           merged' \subseteq merged, inputs > 0, inputs' = inputs - 1,
           UNCHANGED <<messages, answers, faults>>
    PROVE  RestTyped
<1>1. inputs' \in 0..MaxInputs
  BY Spent
<1> QED BY <1>1 DEF RestTyped, TypeOK

LEMMA StillRest ==
    ASSUME TypeOK, UNCHANGED <<task, wf, messages, merged, answers, inputs>>,
           faults' \in 0..MaxFaults
    PROVE  RestTyped
<1>1. Grows
  BY StillGrows
<1> QED BY <1>1 DEF RestTyped, TypeOK

LEMMA NextRest ==
    ASSUME TaskCardsInv, [Next]_vars
    PROVE  RestTyped
<1>0. TypeOK /\ wf \in [Tasks -> WorkflowModes] /\ merged \subseteq merged
      /\ faults \in 0..MaxFaults
  BY DEF TaskCardsInv, TypeOK
<1>1. CASE UNCHANGED vars
  BY <1>0, <1>1, StillRest DEF vars
<1>2. CASE Detector
  <2>1. UNCHANGED <<task, wf, messages, merged, answers, inputs, faults>>
    BY <1>2 DEF Detector, ProposeCompletion, ProposeDuplicate
  <2> QED BY <1>0, <2>1, StillRest
<1>3. CASE Operator
  <2>1. ASSUME NEW id \in CardIds, RetryDelivery(id) PROVE RestTyped
    <3>1. /\ inputs > 0 /\ inputs' = inputs - 1
          /\ UNCHANGED <<task, wf, messages, merged, answers, faults>>
      BY <2>1 DEF RetryDelivery
    <3> QED BY <1>0, <3>1, StillGrows, WorldRest
  <2>2. ASSUME NEW S, SupersedeDuplicateProposals(S) PROVE RestTyped
    <3>1. /\ inputs > 0 /\ inputs' = inputs - 1
          /\ UNCHANGED <<task, wf, messages, merged, answers, faults>>
      BY <2>2 DEF SupersedeDuplicateProposals
    <3> QED BY <1>0, <3>1, StillGrows, WorldRest
  <2>3. ASSUME NEW t \in Tasks, BulkDropTask(t) PROVE RestTyped
    <3>1. /\ inputs > 0 /\ inputs' = inputs - 1 /\ task' = Closed(t, "dropped")
          /\ UNCHANGED <<messages, merged, answers, faults>>
      BY <2>3 DEF BulkDropTask
    <3>2. wf' = [wf EXCEPT ![t] = IF wf[t] = "none" THEN "none" ELSE "over"]
      BY <2>3 DEF BulkDropTask
    <3>3. wf' \in [Tasks -> WorkflowModes]
      BY <1>0, <3>2 DEF WorkflowModes
    <3>4. "dropped" \in {"open", "done", "dropped"}
      OBVIOUS
    <3>5. Grows
      BY <1>0, <3>1, <3>4, ClosedGrows
    <3> QED BY <1>0, <3>1, <3>3, <3>5, WorldRest
  <2>4. ASSUME BulkDropSweep PROVE RestTyped
    <3>1. UNCHANGED <<task, wf, messages, merged, answers, inputs, faults>>
      BY <2>4 DEF BulkDropSweep
    <3> QED BY <1>0, <3>1, StillRest
  <2>5. ASSUME NEW i \in DOMAIN proposals, ReverseDuplicate(i) PROVE RestTyped
    <3>1. proposals[i].right \in Tasks
      BY <1>0, QuestionsTyped DEF TypeOK, ProposalRows
    <3>2. /\ inputs > 0 /\ inputs' = inputs - 1 /\ merged' \subseteq merged
          /\ task' = task \/ task' = Closed(proposals[i].right, "open")
          /\ UNCHANGED <<wf, messages, answers, faults>>
      BY <2>5 DEF ReverseDuplicate, Closed
    <3>3. "open" \in {"open", "done", "dropped"}
      OBVIOUS
    <3>4. Grows
      BY <1>0, <3>1, <3>2, <3>3, ClosedRest
    <3> QED BY <1>0, <3>2, <3>4, WorldRest
  <2> QED BY <1>3, <2>1, <2>2, <2>3, <2>4, <2>5 DEF Operator
<1>4. CASE Consumer
  <2>1. ASSUME NEW k \in Consumers, NEW id \in CardIds, ClaimNext(k, id) \/ ClaimExact(k, id)
        PROVE  RestTyped
    <3>1. messages' \subseteq MessageRows
      BY <1>0, <2>1, ClaimedTyped DEF TypeOK
    <3>2. /\ UNCHANGED <<task, wf, merged, answers, faults>>
          /\ inputs' = inputs \/ (inputs > 0 /\ inputs' = inputs - 1)
      BY <2>1 DEF ClaimNext, ClaimExact
    <3>3. Grows /\ inputs' \in 0..MaxInputs
      BY <1>0, <3>2, StillGrows, Spent DEF TypeOK
    <3> QED BY <1>0, <3>1, <3>2, <3>3 DEF RestTyped, TypeOK
  <2>2. ASSUME NEW k \in Consumers, ClaimNothing(k) PROVE RestTyped
    <3>1. UNCHANGED <<task, wf, messages, merged, answers, inputs, faults>>
      BY <2>2 DEF ClaimNothing
    <3> QED BY <1>0, <3>1, StillRest
  <2>3. ASSUME NEW m \in messages, CompleteDelivery(m) PROVE RestTyped
    <3>1. UNCHANGED <<task, wf, messages, merged, answers, inputs, faults>>
      BY <2>3 DEF CompleteDelivery
    <3> QED BY <1>0, <3>1, StillRest
  <2>4. ASSUME NEW m \in messages, FailDelivery(m) PROVE RestTyped
    <3>1. /\ UNCHANGED <<task, wf, messages, merged, answers, inputs>>
          /\ faults > 0 /\ faults' = faults - 1
      BY <2>4 DEF FailDelivery
    <3> QED BY <1>0, <3>1, Spent, StillRest
  <2> QED BY <1>4, <2>1, <2>2, <2>3, <2>4 DEF Consumer
<1>5. CASE Reader
  BY <1>5, ReaderRest
<1>6. CASE World
  <2>1. ASSUME NEW t \in Tasks, NEW a \in {"done", "drop", "reopen"}, Transition(t, a)
        PROVE  RestTyped
    <3>1. /\ inputs > 0 /\ inputs' = inputs - 1
          /\ \E st \in {"open", "done", "dropped"} : task' = Closed(t, st)
          /\ UNCHANGED <<wf, messages, merged, answers, faults>>
      BY <2>1 DEF Transition
    <3>2. Grows
      BY <1>0, <3>1, ClosedGrows
    <3> QED BY <1>0, <3>1, <3>2, WorldRest
  <2>2. ASSUME NEW t \in Tasks, NEW kind \in InputKinds, SourceMoves(t, kind)
        PROVE  RestTyped
    <3>1. /\ inputs > 0 /\ inputs' = inputs - 1
          /\ UNCHANGED <<wf, messages, merged, answers, faults>>
      BY <2>2 DEF SourceMoves
    <3>2. Grows
      BY <1>0, <2>2, SourceGrows
    <3> QED BY <1>0, <3>1, <3>2, WorldRest
  <2>3. ASSUME NEW t \in Tasks, NEW mode \in WorkflowModes, WorkflowMoves(t, mode)
        PROVE  RestTyped
    <3>1. /\ inputs > 0 /\ inputs' = inputs - 1 /\ wf' = [wf EXCEPT ![t] = mode]
          /\ UNCHANGED <<task, messages, merged, answers, faults>>
      BY <2>3 DEF WorkflowMoves
    <3>2. wf' \in [Tasks -> WorkflowModes] /\ Grows
      BY <1>0, <3>1, StillGrows
    <3> QED BY <1>0, <3>1, <3>2, WorldRest
  <2>4. ASSUME NEW id \in CardIds, TimePasses(id) PROVE RestTyped
    <3>1. /\ UNCHANGED <<task, wf, messages, merged, answers, inputs>>
          /\ faults' = faults \/ (faults > 0 /\ faults' = faults - 1)
      BY <2>4 DEF TimePasses
    <3> QED BY <1>0, <3>1, Spent, StillRest
  <2> QED BY <1>6, <2>1, <2>2, <2>3, <2>4 DEF World
<1>7. CASE Schedule \/ ScheduleDuplicateProposals \/ RequeueUnanswered
  <2>1. UNCHANGED <<task, wf, messages, merged, answers, inputs, faults>>
    BY <1>7 DEF Schedule, ScheduleDuplicateProposals, RequeueUnanswered
  <2> QED BY <1>0, <2>1, StillRest
<1> QED BY <1>1, <1>2, <1>3, <1>4, <1>5, <1>6, <1>7 DEF Next

LEMMA NextTyped ==
    ASSUME TaskCardsInv, [Next]_vars
    PROVE  TypeOK' /\ Sound(Now)'
<1>1. Moves /\ RestTyped
  BY NextMoves, NextRest
<1>2. /\ cards' \in [Tasks -> Seq(CardRows)] /\ evidence' \in Seq(EvidenceRows)
      /\ proposals' \in Seq(ProposalRows)
  BY <1>1 DEF Moves, Later, Tables
<1>3. TypeOK'
  BY <1>1, <1>2 DEF RestTyped, Grows, TaskRows, TypeOK
<1>4. Sound(Now)'
  BY <1>1 DEF Moves, Later, Now, Sound
<1> QED BY <1>3, <1>4

-----------------------------------------------------------------------------
(* Pairs of tasks                                                          *)

LEMMA ProposalsTyped ==
    /\ Tasks \subseteq Nat
    /\ TypeOK => \A i \in DOMAIN proposals :
         /\ proposals[i] \in ProposalRows
         /\ proposals[i].left \in Tasks /\ proposals[i].right \in Tasks
         /\ proposals[i].left_version \in Nat /\ proposals[i].right_version \in Nat
<1>1. \A p \in ProposalRows : /\ p.left \in Tasks /\ p.right \in Tasks
                              /\ p.left_version \in Nat /\ p.right_version \in Nat
  BY DEF ProposalRows
<1> QED BY <1>1, TaskCardsAssumption, QuestionsTyped DEF TypeOK

\* A proposal in order is of the pair l, r in one way.
LEMMA PairOf ==
    ASSUME NEW l \in Nat, NEW r \in Nat, l < r, NEW p,
           p.left \in Nat, p.right \in Nat, p.left < p.right
    PROVE  Pair(p) = {l, r} <=> p.left = l /\ p.right = r
<1>1. PICK x \in Nat, y \in Nat : x = p.left /\ y = p.right
  OBVIOUS
<1>2. x < y
  BY <1>1
<1>3. {x, y} = {l, r} => x = l /\ y = r
  <2> SUFFICES ASSUME {x, y} = {l, r} PROVE x = l /\ y = r
    OBVIOUS
  <2>1. (x = l \/ x = r) /\ (y = l \/ y = r)
    OBVIOUS
  <2> QED BY ONLY <1>2, <2>1, l \in Nat, r \in Nat, l < r, x \in Nat, y \in Nat
<1> QED BY <1>1, <1>3 DEF Pair

\* The tasks l and r are counted as one.
Confirmed(ps, l, r) ==
    \E i \in DOMAIN ps : ps[i].left = l /\ ps[i].right = r /\ ps[i].state = "confirmed"

\* Proposals in order, of tasks.
InOrder(ps) ==
    \A i \in DOMAIN ps : /\ ps[i].left \in Nat /\ ps[i].right \in Nat
                         /\ ps[i].left < ps[i].right

MergedIff(ps, ms) ==
    \A l, r \in Tasks : l < r => (Confirmed(ps, l, r) <=> (<<l, r>> \in ms \/ <<r, l>> \in ms))

LEMMA ConfirmedIn ==
    ASSUME NEW ps, InOrder(ps), NEW l \in Nat, NEW r \in Nat, l < r
    PROVE  (\E i \in DOMAIN ps : Pair(ps[i]) = {l, r} /\ ps[i].state = "confirmed")
             <=> Confirmed(ps, l, r)
  BY PairOf DEF Confirmed, InOrder

LEMMA ConfirmedNow ==
    ASSUME TypeOK, ProposalsAsSeen
    PROVE  InOrder(proposals) /\ (ConfirmedIsMerged <=> MergedIff(proposals, merged))
<1>1. InOrder(proposals)
  BY ProposalsTyped DEF InOrder, ProposalsAsSeen, AsSeen
<1>2. \A l, r \in Tasks : l < r =>
        ((\E i \in DOMAIN proposals : /\ Pair(proposals[i]) = {l, r}
                                      /\ proposals[i].state = "confirmed")
          <=> Confirmed(proposals, l, r))
  BY <1>1, ConfirmedIn, ProposalsTyped
<1> QED BY <1>1, <1>2 DEF ConfirmedIsMerged, MergedIff

LEMMA ConfirmedLater ==
    ASSUME TaskCardsInv, [Next]_vars, ProposalsAsSeen', MergedIff(proposals', merged')
    PROVE  ConfirmedIsMerged'
<1>1. InOrder(proposals')
  <2>1. proposals' \in Seq(ProposalRows)
    BY NextTyped DEF TypeOK
  <2>2. \A i \in DOMAIN proposals' :
          proposals'[i].left \in Tasks /\ proposals'[i].right \in Tasks
    <3>1. \A p \in ProposalRows : p.left \in Tasks /\ p.right \in Tasks
      BY DEF ProposalRows
    <3> QED BY <2>1, <3>1, QuestionsTyped
  <2> QED BY <2>2, ProposalsTyped DEF InOrder, ProposalsAsSeen, AsSeen
<1>2. \A l, r \in Tasks : l < r =>
        ((\E i \in DOMAIN proposals' : /\ Pair(proposals'[i]) = {l, r}
                                       /\ proposals'[i].state = "confirmed")
          <=> Confirmed(proposals', l, r))
  BY <1>1, ConfirmedIn, ProposalsTyped
<1> QED BY <1>2 DEF ConfirmedIsMerged, MergedIff, Pair

LEMMA SeenStays ==
    ASSUME TaskCardsInv, [Next]_vars, NEW i \in DOMAIN proposals
    PROVE  AsSeen(proposals[i])'
<1>0. TypeOK /\ AsSeen(proposals[i])
  BY DEF TaskCardsInv, PairsInv, ProposalsAsSeen
<1>1. /\ proposals'[i].left = proposals[i].left
      /\ proposals'[i].right = proposals[i].right
      /\ proposals'[i].left_version = proposals[i].left_version
      /\ proposals'[i].right_version = proposals[i].right_version
  BY NextMoves DEF Moves, SamePairs
<1>2. PICK l \in Tasks, r \in Tasks, lv \in Nat, rv \in Nat :
        /\ l = proposals[i].left /\ r = proposals[i].right
        /\ lv = proposals[i].left_version /\ rv = proposals[i].right_version
  BY <1>0, ProposalsTyped
<1>3. \A t \in Tasks : /\ task[t].version <= task'[t].version
                       /\ task[t].version \in Nat /\ task'[t].version \in Nat
  BY <1>0, NextRest, NextTyped DEF RestTyped, Grows, TypeOK
<1>4. l < r /\ lv <= task[l].version /\ rv <= task[r].version
  BY <1>0, <1>2 DEF AsSeen
<1>5. lv <= task'[l].version /\ rv <= task'[r].version
  BY ONLY <1>2, <1>3, <1>4
<1> QED BY <1>1, <1>2, <1>4, <1>5 DEF AsSeen

\* A step that confirms and takes back nothing.
LEMMA PairsStay ==
    ASSUME TaskCardsInv, [Next]_vars, merged' = merged,
           DOMAIN proposals' = DOMAIN proposals,
           \A i \in DOMAIN proposals :
             /\ proposals'[i].state = "confirmed" <=> proposals[i].state = "confirmed"
             /\ proposals'[i].state # "superseded" => proposals[i].state # "superseded"
    PROVE  PairsInv'
<1>0. TypeOK /\ PairsInv
  BY DEF TaskCardsInv
<1>1. SamePairs(proposals, proposals')
  BY NextMoves DEF Moves
<1>2. ProposalsAsSeen'
  BY SeenStays DEF ProposalsAsSeen
<1>3. OnePerPair'
  BY <1>0, <1>1 DEF PairsInv, OnePerPair, SamePairs
<1>4. OneWay'
  BY <1>0 DEF PairsInv, OneWay
<1>5. MergedIff(proposals', merged')
  <2>1. MergedIff(proposals, merged)
    BY <1>0, ConfirmedNow DEF PairsInv
  <2>2. \A l, r : Confirmed(proposals', l, r) <=> Confirmed(proposals, l, r)
    BY <1>1 DEF Confirmed, SamePairs
  <2> QED BY <2>1, <2>2 DEF MergedIff
<1> QED BY <1>2, <1>3, <1>4, <1>5, ConfirmedLater DEF PairsInv

LEMMA QuietPairs ==
    ASSUME TaskCardsInv, [Next]_vars, Quiet
    PROVE  PairsInv'
<1>1. merged' = merged /\ Lapses(proposals, proposals')
  BY DEF Quiet, Passes, Now, Later
<1> QED BY <1>1, PairsStay DEF Lapses

LEMMA ProposePairs ==
    ASSUME TaskCardsInv, [Next]_vars, NEW s \in Suspects, ProposeDuplicate(s[1], s[2])
    PROVE  PairsInv'
<1>9. PICK k : k = Len(proposals) + 1
  OBVIOUS
<1>0. TypeOK /\ PairsInv /\ Sound(Now)
  BY DEF TaskCardsInv
<1>1. /\ DOMAIN proposals' = DOMAIN proposals \cup {k}
      /\ \A i \in DOMAIN proposals : proposals'[i] = proposals[i]
      /\ proposals'[k] =
           [left |-> s[1], right |-> s[2], left_version |-> task[s[1]].version,
            right_version |-> task[s[2]].version, card |-> NoCard,
            state |-> "proposed"]
  BY <1>0, <1>9, ProposeDuplicateMoves
<1>2. /\ merged' = merged /\ task' = task
      /\ ~\E i \in DOMAIN proposals :
             /\ proposals[i].left = s[1] /\ proposals[i].right = s[2]
             /\ proposals[i].state # "superseded"
  BY DEF ProposeDuplicate
<1>3. s[1] \in Tasks /\ s[2] \in Tasks /\ s[1] < s[2]
  BY TaskCardsAssumption
<1>4. ProposalsAsSeen'
  <2>1. \A i \in DOMAIN proposals : AsSeen(proposals[i])'
    BY SeenStays
  <2>2. AsSeen(proposals[k])'
    <3>1. task[s[1]].version \in Nat /\ task[s[2]].version \in Nat
      BY <1>0, <1>3 DEF TypeOK
    <3> QED BY <1>1, <1>2, <1>3, <3>1 DEF AsSeen
  <2> QED BY <1>1, <2>1, <2>2 DEF ProposalsAsSeen
<1>5. OnePerPair'
  BY <1>0, <1>1, <1>2 DEF PairsInv, OnePerPair
<1>6. OneWay'
  BY <1>0, <1>2 DEF PairsInv, OneWay
<1>7. MergedIff(proposals', merged')
  <2>1. MergedIff(proposals, merged)
    BY <1>0, ConfirmedNow DEF PairsInv
  <2>2. \A l, r : Confirmed(proposals', l, r) <=> Confirmed(proposals, l, r)
    BY <1>1 DEF Confirmed
  <2> QED BY <1>2, <2>1, <2>2 DEF MergedIff
<1> QED BY <1>4, <1>5, <1>6, <1>7, ConfirmedLater DEF PairsInv

\* A merge is of the two tasks of its proposal.
LEMMA MergeOfPair ==
    ASSUME NEW p, p.left # p.right
    PROVE  \/ Subject(p) = p.left /\ Object(p) = p.right
           \/ Subject(p) = p.right /\ Object(p) = p.left
  BY DEF Subject, Object, Asks

LEMMA ConfirmPairs ==
    ASSUME TaskCardsInv, [Next]_vars, NEW m \in messages, NEW i \in DOMAIN proposals,
           DuplicateConfirm(m, i)
    PROVE  PairsInv'
<1>0. TypeOK /\ PairsInv /\ Sound(Now)
  BY DEF TaskCardsInv
<1>1. /\ proposals[i].state = "proposed"
      /\ DOMAIN proposals' = DOMAIN proposals
      /\ proposals'[i].state = "confirmed"
      /\ \A j \in DOMAIN proposals : j # i => proposals'[j].state = proposals[j].state
  BY <1>0, ConfirmTables DEF Binds
<1>2. SamePairs(proposals, proposals')
  BY NextMoves DEF Moves
<1>3. PICK l \in Tasks, r \in Tasks : /\ l = proposals[i].left /\ r = proposals[i].right
                                      /\ l < r
  BY <1>0, ProposalsTyped DEF PairsInv, ProposalsAsSeen, AsSeen
<1>4. l # r /\ l \in Nat /\ r \in Nat
  BY <1>3, ProposalsTyped
<1>5. \/ merged' = merged \cup {<<l, r>>}
      \/ merged' = merged \cup {<<r, l>>}
  <2>1. merged' = merged \cup {<<Subject(proposals[i]), Object(proposals[i])>>}
    BY DEF DuplicateConfirm
  <2> QED BY <1>3, <1>4, <2>1, MergeOfPair
<1>6. MergedIff(proposals, merged)
  BY <1>0, ConfirmedNow DEF PairsInv
\* No proposal of the pair is confirmed, so the tasks were not merged.
<1>7. <<l, r>> \notin merged /\ <<r, l>> \notin merged
  <2>1. ~Confirmed(proposals, l, r)
    BY <1>0, <1>1, <1>3 DEF PairsInv, OnePerPair, Confirmed
  <2> QED BY <1>3, <1>6, <2>1 DEF MergedIff
<1>8. ProposalsAsSeen'
  BY <1>1, SeenStays DEF ProposalsAsSeen
<1>9. OnePerPair'
  <2>1. \A j \in DOMAIN proposals : proposals'[j].state # "superseded" =>
          proposals[j].state # "superseded"
    BY <1>1
  <2> QED BY <1>0, <1>1, <1>2, <2>1 DEF PairsInv, OnePerPair, SamePairs
<1>10. OneWay'
  <2>1. PICK v, w : /\ v # w /\ <<v, w>> \notin merged /\ <<w, v>> \notin merged
                    /\ merged' = merged \cup {<<v, w>>}
    BY <1>4, <1>5, <1>7
  <2>2. ASSUME NEW x \in Tasks, NEW y \in Tasks, <<x, y>> \in merged', <<y, x>> \in merged'
        PROVE  FALSE
    <3>1. ~(<<x, y>> \in merged /\ <<y, x>> \in merged)
      BY <1>0 DEF PairsInv, OneWay
    <3>2. <<x, y>> = <<v, w>> \/ <<y, x>> = <<v, w>>
      BY <2>1, <2>2, <3>1
    <3>3. CASE x = v /\ y = w
      <4>1. <<w, v>> # <<v, w>> /\ <<w, v>> \in merged'
        BY <2>1, <2>2, <3>3
      <4> QED BY <2>1, <4>1
    <3>4. CASE y = v /\ x = w
      <4>1. <<w, v>> # <<v, w>> /\ <<w, v>> \in merged'
        BY <2>1, <2>2, <3>4
      <4> QED BY <2>1, <4>1
    <3> QED BY <3>2, <3>3, <3>4
  <2> QED BY <2>2 DEF OneWay
<1>11. MergedIff(proposals', merged')
  <2> SUFFICES ASSUME NEW x \in Tasks, NEW y \in Tasks, x < y
               PROVE  Confirmed(proposals', x, y) <=> (<<x, y>> \in merged' \/ <<y, x>> \in merged')
    BY DEF MergedIff
  <2>1. CASE x = l /\ y = r
    <3>1. Confirmed(proposals', l, r)
      BY <1>1, <1>2, <1>3 DEF Confirmed, SamePairs
    <3> QED BY <1>5, <2>1, <3>1
  <2>2. CASE ~(x = l /\ y = r)
    <3>1. Confirmed(proposals', x, y) <=> Confirmed(proposals, x, y)
      BY <1>1, <1>2, <1>3, <2>2 DEF Confirmed, SamePairs
    <3>2. <<x, y>> # <<l, r>> /\ <<y, x>> # <<r, l>>
      BY <2>2
    <3>3. <<x, y>> # <<r, l>> /\ <<y, x>> # <<l, r>>
      <4>1. x \in Nat /\ y \in Nat
        BY ProposalsTyped
      <4>2. ~(x = r /\ y = l)
        BY ONLY <1>3, <1>4, <4>1, x < y
      <4> QED BY <4>2
    <3>4. /\ <<x, y>> \in merged' <=> <<x, y>> \in merged
          /\ <<y, x>> \in merged' <=> <<y, x>> \in merged
      BY <1>5, <3>2, <3>3
    <3> QED BY <1>6, <3>1, <3>4 DEF MergedIff
  <2> QED BY <2>1, <2>2
<1> QED BY <1>8, <1>9, <1>10, <1>11, ConfirmedLater DEF PairsInv

LEMMA ReversePairs ==
    ASSUME TaskCardsInv, [Next]_vars, NEW i \in DOMAIN proposals, ReverseDuplicate(i)
    PROVE  PairsInv'
<1>0. TypeOK /\ PairsInv /\ Sound(Now)
  BY DEF TaskCardsInv
<1>1. /\ DOMAIN proposals' = DOMAIN proposals
      /\ proposals'[i].state = "proposed"
      /\ \A j \in DOMAIN proposals : j # i => proposals'[j] = proposals[j]
  BY <1>0, ReverseTables
<1>2. SamePairs(proposals, proposals')
  BY NextMoves DEF Moves
<1>3. PICK l \in Tasks, r \in Tasks : /\ l = proposals[i].left /\ r = proposals[i].right
                                      /\ l < r
  BY <1>0, ProposalsTyped DEF PairsInv, ProposalsAsSeen, AsSeen
<1>4. l # r /\ l \in Nat /\ r \in Nat
  BY <1>3, ProposalsTyped
<1>5. /\ proposals[i].state = "confirmed" /\ <<r, l>> \in merged
      /\ merged' = merged \ {<<r, l>>}
  BY <1>3 DEF ReverseDuplicate
<1>6. MergedIff(proposals, merged)
  BY <1>0, ConfirmedNow DEF PairsInv
<1>7. <<l, r>> \notin merged
  BY <1>0, <1>5 DEF PairsInv, OneWay
<1>8. ProposalsAsSeen'
  BY <1>1, SeenStays DEF ProposalsAsSeen
<1>9. OnePerPair'
  <2>1. \A j \in DOMAIN proposals : proposals'[j].state # "superseded" =>
          proposals[j].state # "superseded"
    BY <1>1, <1>5
  <2> QED BY <1>0, <1>1, <1>2, <2>1 DEF PairsInv, OnePerPair, SamePairs
<1>10. OneWay'
  BY <1>0, <1>5 DEF PairsInv, OneWay
<1>11. MergedIff(proposals', merged')
  <2> SUFFICES ASSUME NEW x \in Tasks, NEW y \in Tasks, x < y
               PROVE  Confirmed(proposals', x, y) <=> (<<x, y>> \in merged' \/ <<y, x>> \in merged')
    BY DEF MergedIff
  <2>1. CASE x = l /\ y = r
    \* The pair had no other proposal.
    <3>1. ~Confirmed(proposals', l, r)
      <4> SUFFICES ASSUME NEW j \in DOMAIN proposals, proposals'[j].left = l,
                          proposals'[j].right = r, proposals'[j].state = "confirmed"
                   PROVE  FALSE
        BY <1>1 DEF Confirmed
      <4>1. j # i
        BY <1>1
      <4>2. /\ proposals[j].left = l /\ proposals[j].right = r
            /\ proposals[j].state = "confirmed"
        BY <1>1, <4>1
      <4> QED BY <1>0, <1>3, <1>5, <4>1, <4>2 DEF PairsInv, OnePerPair
    <3> QED BY <1>5, <1>7, <2>1, <3>1
  <2>2. CASE ~(x = l /\ y = r)
    <3>1. Confirmed(proposals', x, y) <=> Confirmed(proposals, x, y)
      BY <1>1, <1>2, <1>3, <2>2 DEF Confirmed, SamePairs
    <3>2. <<x, y>> # <<r, l>> /\ <<y, x>> # <<r, l>>
      <4>1. x \in Nat /\ y \in Nat
        BY ProposalsTyped
      <4>2. ~(x = r /\ y = l)
        BY ONLY <1>3, <1>4, <4>1, x < y
      <4> QED BY <2>2, <4>2
    <3>3. /\ <<x, y>> \in merged' <=> <<x, y>> \in merged
          /\ <<y, x>> \in merged' <=> <<y, x>> \in merged
      BY <1>5, <3>2
    <3> QED BY <1>6, <3>1, <3>3 DEF MergedIff
  <2> QED BY <2>1, <2>2
<1> QED BY <1>8, <1>9, <1>10, <1>11, ConfirmedLater DEF PairsInv

LEMMA NextPairs ==
    ASSUME TaskCardsInv, [Next]_vars
    PROVE  PairsInv'
<1>0. TypeOK /\ Sound(Now)
  BY DEF TaskCardsInv
<1>1. ASSUME NEW s \in Sightings, ProposeCompletion(s[1], s[2]) PROVE PairsInv'
  BY <1>1, PairsStay DEF ProposeCompletion
<1>2. ASSUME NEW s \in Suspects, ProposeDuplicate(s[1], s[2]) PROVE PairsInv'
  BY <1>2, ProposePairs
<1>3. ASSUME NEW m \in messages, NEW a \in {"done", "drop", "keep_open"}, ActOnTask(m, a)
      PROVE  PairsInv'
  BY <1>3, PairsStay DEF ActOnTask
<1>4. ASSUME NEW m \in messages, NEW i \in DOMAIN proposals, DuplicateConfirm(m, i)
      PROVE  PairsInv'
  BY <1>4, ConfirmPairs
<1>5. ASSUME NEW m \in messages, NEW i \in DOMAIN proposals, DuplicateReject(m, i)
      PROVE  PairsInv'
  <2>1. /\ SettledTo(proposals, proposals', {i}, "rejected")
        /\ proposals[i].state = "proposed"
    BY <1>0, <1>5, RejectTables DEF Binds
  <2>2. merged' = merged
    BY <1>5 DEF DuplicateReject
  <2> QED BY <2>1, <2>2, PairsStay DEF SettledTo
<1>6. ASSUME NEW i \in DOMAIN proposals, ReverseDuplicate(i) PROVE PairsInv'
  BY <1>6, ReversePairs
<1> QED BY <1>1, <1>2, <1>3, <1>4, <1>5, <1>6, QuietPairs, NextIsQuietOrSpoken

-----------------------------------------------------------------------------
(* Messages                                                                *)

\* Only a claim posts.
LEMMA PostedByClaims ==
    ASSUME [Next]_vars
    PROVE  \/ messages' = messages
           \/ \E k \in Consumers, id \in CardIds : ClaimNext(k, id) \/ ClaimExact(k, id)
<1>1. CASE UNCHANGED vars
  BY <1>1 DEF vars
<1>2. CASE Detector
  BY <1>2 DEF Detector, ProposeCompletion, ProposeDuplicate
<1>3. CASE Operator
  BY <1>3 DEF Operator, RetryDelivery, SupersedeDuplicateProposals, ReverseDuplicate,
              BulkDropTask, BulkDropSweep
<1>4. CASE Consumer
  BY <1>4 DEF Consumer, ClaimNothing, CompleteDelivery, FailDelivery
<1>5. CASE Reader
  BY <1>5 DEF Reader, ActOnTask, Snooze, ShowFullCards, DuplicateConfirm, DuplicateReject
<1>6. CASE World
  BY <1>6 DEF World, Transition, SourceMoves, WorkflowMoves, TimePasses
<1>7. CASE Schedule \/ ScheduleDuplicateProposals \/ RequeueUnanswered
  BY <1>7 DEF Schedule, ScheduleDuplicateProposals, RequeueUnanswered
<1> QED BY <1>1, <1>2, <1>3, <1>4, <1>5, <1>6, <1>7 DEF Next

LEMMA OldMessagesFollow ==
    ASSUME TaskCardsInv, [Next]_vars, NEW m \in messages
    PROVE  Follows(m)'
<1>0. PICK t \in Tasks : \E n : /\ n \in DOMAIN cards[t]
                                /\ t = m.card[1] /\ n = m.card[2] /\ m.card = <<t, n>>
  BY MessagesName
<1>1. PICK n : /\ n \in DOMAIN cards[t]
               /\ t = m.card[1] /\ n = m.card[2] /\ m.card = <<t, n>>
  BY <1>0
<1>2. /\ m \in MessageRows /\ Follows(m) /\ TypeOK
      /\ CardOf(m) = cards[t][n]
  BY <1>1, MessagesName DEF CardOf, TaskCardsInv
<1>3. /\ n \in DOMAIN cards'[t] /\ CardOn(cards[t][n], cards'[t][n])
      /\ cards'[t][n].version = cards[t][n].version /\ cards[t][n].status \in InHand =>
           /\ Binds(evidence', <<t, n>>) = Binds(evidence, <<t, n>>)
           /\ Binds(proposals', <<t, n>>) = Binds(proposals, <<t, n>>)
  <2>1. Advances(Now, Later)
    BY NextMoves DEF Moves
  <2>2. /\ Now.cards = cards /\ Now.evidence = evidence /\ Now.proposals = proposals
        /\ Later.cards = cards' /\ Later.evidence = evidence'
        /\ Later.proposals = proposals'
    BY DEF Now, Later
  <2> QED BY <1>1, <2>1, <2>2 DEF Advances, Steady
<1>4. cards[t][n].version \in Nat /\ cards'[t][n].version \in Nat /\ m.version \in Nat
  <2>1. cards' \in [Tasks -> Seq(CardRows)]
    BY NextTyped DEF TypeOK
  <2>2. m.version \in Nat
    BY <1>2 DEF MessageRows
  <2>3. cards \in [Tasks -> Seq(CardRows)] /\ n \in DOMAIN cards[t]
    BY <1>1, <1>2, CardsAreTyped
  <2>4. cards[t][n].version \in Nat
    BY <2>3, CardsTyped
  <2>5. cards'[t][n].version \in Nat
    BY <1>3, <2>1, CardsTyped
  <2> QED BY <2>2, <2>4, <2>5
<1>5. /\ cards[t][n].version <= cards'[t][n].version
      /\ m.version <= cards[t][n].version
  <2>1. m.version <= cards[t][n].version
    BY <1>2 DEF Follows
  <2> QED BY ONLY <1>3, <1>4, <2>1 DEF CardOn
<1>6. \A u \in Tasks : m.seen[u] <= task'[u].version
  <2>1. m.seen \in [Tasks -> Nat]
    BY <1>2 DEF MessageRows
  <2>2. \A u \in Tasks : task[u].version \in Nat /\ task'[u].version \in Nat
    BY <1>2, NextTyped DEF TypeOK
  <2>3. \A u \in Tasks : task[u].version <= task'[u].version
    BY NextRest DEF RestTyped, Grows
  <2>4. \A u \in Tasks : m.seen[u] <= task[u].version
    BY <1>2 DEF Follows
  <2> QED BY ONLY <2>1, <2>2, <2>3, <2>4
\* The message is still its card's newest: it was, and nothing happened.
<1>7. ASSUME m.version = cards'[t][n].version
      PROVE  /\ cards'[t][n].status \in InHand
             /\ m.shows = Question(m.card)'
             /\ m.seen[t] = cards'[t][n].task_version
             /\ \A i \in Binds(proposals', m.card) :
                  /\ proposals'[i].left_version <= m.seen[proposals'[i].left]
                  /\ proposals'[i].right_version <= m.seen[proposals'[i].right]
  <2>1. /\ m.version = cards[t][n].version
        /\ cards'[t][n].version = cards[t][n].version
    BY ONLY <1>4, <1>5, <1>7
  <2>2. /\ cards[t][n].status \in InHand
        /\ m.shows = Question(m.card)
        /\ m.seen[t] = cards[t][n].task_version
        /\ \A i \in Binds(proposals, m.card) :
             /\ proposals[i].left_version <= m.seen[proposals[i].left]
             /\ proposals[i].right_version <= m.seen[proposals[i].right]
    BY <1>1, <1>2, <2>1 DEF Follows, Newest
  <2>3. /\ Binds(evidence', m.card) = Binds(evidence, m.card)
        /\ Binds(proposals', m.card) = Binds(proposals, m.card)
    BY <1>1, <1>3, <2>1, <2>2
  <2>4. /\ cards'[t][n].status \in InHand
        /\ cards'[t][n].task_version = cards[t][n].task_version
    BY ONLY <1>3, <1>4, <2>1, <2>2 DEF CardOn
  <2>5. m.shows = Question(m.card)'
    BY <2>2, <2>3 DEF Question
  <2>6. \A i \in Binds(proposals, m.card) :
          /\ proposals'[i].left_version = proposals[i].left_version
          /\ proposals'[i].right_version = proposals[i].right_version
          /\ proposals'[i].left = proposals[i].left
          /\ proposals'[i].right = proposals[i].right
    BY NextMoves DEF Moves, SamePairs, Binds
  <2> QED BY <2>2, <2>3, <2>4, <2>5, <2>6
<1>8. CardOf(m)' = cards'[t][n] /\ (Newest(m)' <=> m.version = cards'[t][n].version)
  BY <1>1 DEF CardOf, Newest
<1>9. m.version <= cards'[t][n].version
  BY ONLY <1>4, <1>5
<1> QED BY ONLY <1>1, <1>3, <1>6, <1>7, <1>8, <1>9 DEF Follows

LEMMA NewMessagesFollow ==
    ASSUME TaskCardsInv, [Next]_vars, NEW m \in messages', m \notin messages
    PROVE  Follows(m)'
<1>0. TypeOK /\ PairsInv
  BY DEF TaskCardsInv
<1>1. PICK k \in Consumers, id \in CardIds : ClaimNext(k, id) \/ ClaimExact(k, id)
  BY PostedByClaims
<1>2. /\ m.card = id /\ m.shows = Question(id) /\ m.seen = Seen
      /\ m.version = cards'[id[1]][id[2]].version
      /\ CardsEdited(cards, cards')
      /\ cards'[id[1]][id[2]].status = "delivering"
      /\ cards'[id[1]][id[2]].version > cards[id[1]][id[2]].version
      /\ cards'[id[1]][id[2]].task_version = task[id[1]].version
  BY <1>0, <1>1, ClaimedTyped
<1>3. UNCHANGED <<task, evidence, proposals>>
  BY <1>1 DEF ClaimNext, ClaimExact
<1>a. PICK t \in Tasks : \E n : /\ n \in DOMAIN cards[t]
                                /\ t = id[1] /\ n = id[2] /\ id = <<t, n>>
  BY <1>0, NamesOfCards
<1>4. PICK n : /\ n \in DOMAIN cards[t]
               /\ t = id[1] /\ n = id[2] /\ id = <<t, n>>
  BY <1>a
<1>5. n \in DOMAIN cards'[t] /\ cards'[t][n].version \in Nat
  <2>1. n \in DOMAIN cards'[t] /\ cards' \in [Tasks -> Seq(CardRows)]
    BY <1>2, <1>4 DEF CardsEdited
  <2> QED BY <2>1, CardsTyped
<1>6. \A u \in Tasks : /\ m.seen[u] = task[u].version /\ m.seen[u] = task'[u].version
                       /\ m.seen[u] \in Nat
  <2>1. \A u \in Tasks : task[u].version \in Nat
    BY <1>0 DEF TypeOK
  <2> QED BY <1>2, <1>3, <2>1 DEF Seen
<1>7. m.shows = Question(id)'
  BY <1>2, <1>3 DEF Question
<1>8. \A i \in DOMAIN proposals :
        /\ proposals[i].left_version <= m.seen[proposals[i].left]
        /\ proposals[i].right_version <= m.seen[proposals[i].right]
  BY <1>0, <1>6, ProposalsTyped DEF PairsInv, ProposalsAsSeen, AsSeen
<1>9. \A i \in Binds(proposals', m.card) :
        /\ proposals'[i].left_version <= m.seen[proposals'[i].left]
        /\ proposals'[i].right_version <= m.seen[proposals'[i].right]
  BY <1>3, <1>8 DEF Binds
<1>10. cards'[t][n].status \in InHand
  BY <1>2, <1>4 DEF InHand
<1> QED BY <1>2, <1>4, <1>5, <1>6, <1>7, <1>9, <1>10 DEF Follows, CardOf, Newest

LEMMA NextInv ==
    ASSUME TaskCardsInv, [Next]_vars
    PROVE  TaskCardsInv'
<1>1. TypeOK' /\ Sound(Now)' /\ PairsInv'
  BY NextTyped, NextPairs
<1>2. \A m \in messages' : Follows(m)'
  BY OldMessagesFollow, NewMessagesFollow
<1>3. MessagesFollow'
  BY <1>2 DEF MessagesFollow
<1> QED BY <1>1, <1>3 DEF TaskCardsInv

LEMMA InitInv == Init => TaskCardsInv
<1> SUFFICES ASSUME Init PROVE TaskCardsInv
  OBVIOUS
<1>1. TypeOK
  <2>1. /\ task \in [Tasks -> [status : {"open", "done", "dropped"}, version : Nat \ {0},
                               revision : Nat, preserved : BOOLEAN]]
        /\ wf \in [Tasks -> WorkflowModes]
    BY DEF Init, WorkflowModes
  <2>2. <<>> \in Seq(CardRows) /\ <<>> \in Seq(EvidenceRows) /\ <<>> \in Seq(ProposalRows)
    OBVIOUS
  <2>3. cards \in [Tasks -> Seq(CardRows)]
    BY <2>2 DEF Init
  <2>4. answers \in 0..MaxAnswers /\ inputs \in 0..MaxInputs /\ faults \in 0..MaxFaults
    BY TaskCardsAssumption DEF Init
  <2> QED BY <2>1, <2>2, <2>3, <2>4 DEF Init, TypeOK
<1>2. Sound(Now)
  <2>1. /\ DOMAIN evidence = {} /\ DOMAIN proposals = {}
        /\ \A t \in Tasks : DOMAIN cards[t] = {}
    BY DEF Init
  <2> QED BY <2>1 DEF Sound, Now, BoundWell, AtHome, OneComparison, OneInPlay, ActiveIn
<1>3. PairsInv
  BY DEF Init, PairsInv, ProposalsAsSeen, OnePerPair, OneWay, ConfirmedIsMerged
<1>4. MessagesFollow
  BY DEF Init, MessagesFollow
<1> QED BY <1>1, <1>2, <1>3, <1>4 DEF TaskCardsInv

-----------------------------------------------------------------------------
(* What an answer settles                                                  *)

LEMMA AnswerIsNewest ==
    ASSUME TaskCardsInv, NEW m \in messages, NEW a, Answer(m, a)
    PROVE  /\ m.version = cards[m.card[1]][m.card[2]].version
           /\ m.shows = Question(m.card)
           /\ m.seen[m.card[1]] = task[m.card[1]].version
           /\ \A i \in Binds(proposals, m.card) :
                /\ proposals[i].left_version <= m.seen[proposals[i].left]
                /\ proposals[i].right_version <= m.seen[proposals[i].right]
<1>1. /\ m.version = CardOf(m).version
      /\ CardOf(m).task_version = task[m.card[1]].version
  BY DEF Answer, Answerable, Current, CardOf
<1>2. Follows(m)
  BY MessagesName
<1> QED BY <1>1, <1>2 DEF Follows, Newest, CardOf

LEMMA ActAnswersWhatWasShown ==
    ASSUME TaskCardsInv, NEW m \in messages, NEW a \in {"done", "drop", "keep_open"},
           ActOnTask(m, a), NEW i \in DOMAIN evidence,
           evidence'[i].state # evidence[i].state
    PROVE  /\ m.card = evidence[i].card
           /\ m.version = cards[m.card[1]][m.card[2]].version
           /\ m.exact \/ Knows(m, [kind |-> "evidence", id |-> i], {evidence[i].task})
<1>0. TypeOK /\ Sound(Now) /\ evidence \in Seq(EvidenceRows)
  BY DEF TaskCardsInv, TypeOK
<1>1. Binds(evidence, m.card) # {} /\ i = First(Binds(evidence, m.card))
  BY <1>0, ActTables
<1>2. evidence[i].card = m.card /\ evidence[i].state = "proposed"
  <2>1. DOMAIN evidence \subseteq Nat
    BY <1>0, QuestionsTyped
  <2> QED BY <1>1, <2>1, BoundOnes
<1>3. Answer(m, a)
  BY DEF ActOnTask
<1>4. evidence[i].task = m.card[1]
  <2>1. AtHome(evidence)
    BY <1>0 DEF Sound, Now
  <2>2. m.card # NoCard
    BY MessagesName, PlaceIsCard
  <2> QED BY <1>2, <2>1, <2>2 DEF AtHome
<1>5. ASSUME ~m.exact
      PROVE  m.shows = [kind |-> "evidence", id |-> i]
  <2>1. a \in Buttons(m.shows) /\ m.shows = Question(m.card)
    BY <1>3, <1>5, AnswerIsNewest DEF Answer
  <2>2. Binds(proposals, m.card) = {}
    <3> SUFFICES ASSUME Binds(proposals, m.card) # {} PROVE FALSE
      OBVIOUS
    <3>1. m.shows = [kind |-> "proposal", id |-> First(Binds(proposals, m.card))]
      BY <2>1 DEF Question
    <3>2. m.shows.kind = "proposal"
      BY <3>1
    <3>3. Buttons(m.shows) = {"duplicate_confirm", "duplicate_reject", "show_full_cards"}
      BY <3>2 DEF Buttons
    <3> QED BY <2>1, <3>3
  <2> QED BY <1>1, <2>1, <2>2 DEF Question
<1>6. m.seen[m.card[1]] = task[m.card[1]].version
      /\ m.version = cards[m.card[1]][m.card[2]].version
  BY <1>3, AnswerIsNewest
<1> QED BY <1>2, <1>4, <1>5, <1>6 DEF Knows

LEMMA ComparisonShown ==
    ASSUME TaskCardsInv, NEW m \in messages, NEW a, Answer(m, a),
           NEW i \in Comparison(m)
    PROVE  /\ m.card = proposals[i].card
           /\ m.version = cards[m.card[1]][m.card[2]].version
           /\ Knows(m, [kind |-> "proposal", id |-> i], Pair(proposals[i]))
<1>0. TypeOK /\ Sound(Now) /\ proposals \in Seq(ProposalRows) /\ Follows(m)
  BY MessagesName DEF TaskCardsInv, TypeOK
<1>1. /\ i \in Binds(proposals, m.card) /\ AsRecorded(proposals[i])
      /\ i \in DOMAIN proposals /\ proposals[i].card = m.card
      /\ proposals[i].state = "proposed"
  BY DEF Comparison, Binds
<1>2. /\ m.version = cards[m.card[1]][m.card[2]].version
      /\ m.shows = Question(m.card)
      /\ proposals[i].left_version <= m.seen[proposals[i].left]
      /\ proposals[i].right_version <= m.seen[proposals[i].right]
  BY <1>1, AnswerIsNewest
<1>3. m.shows = [kind |-> "proposal", id |-> i]
  <2>1. DOMAIN proposals \subseteq Nat
    BY <1>0, QuestionsTyped
  <2>2. PICK j : j = First(Binds(proposals, m.card))
    OBVIOUS
  <2>3. /\ j \in DOMAIN proposals /\ proposals[j].card = m.card
        /\ proposals[j].state = "proposed"
    BY <1>1, <2>1, <2>2, BoundOnes
  <2>4. OneComparison(proposals) /\ m.card # NoCard
    BY <1>0, MessagesName, PlaceIsCard DEF Sound, Now
  <2>5. j = i
    BY <1>1, <2>3, <2>4 DEF OneComparison
  <2> QED BY <1>1, <1>2, <2>2, <2>5 DEF Question
<1>4. PICK l \in Tasks, r \in Tasks : l = proposals[i].left /\ r = proposals[i].right
  BY <1>0, <1>1, ProposalsTyped
<1>5. m.seen[l] = task[l].version /\ m.seen[r] = task[r].version
  <2>1. /\ m.seen[l] <= task[l].version /\ m.seen[r] <= task[r].version
    BY <1>0 DEF Follows
  <2>2. /\ task[l].version <= m.seen[l] /\ task[r].version <= m.seen[r]
    BY <1>1, <1>2, <1>4 DEF AsRecorded
  <2>3. /\ task[l].version \in Nat /\ task[r].version \in Nat
        /\ m.seen[l] \in Nat /\ m.seen[r] \in Nat
    <3>1. m.seen \in [Tasks -> Nat]
      BY MessagesName DEF MessageRows
    <3> QED BY <1>0, <3>1 DEF TypeOK
  <2> QED BY ONLY <2>1, <2>2, <2>3
<1>6. \A t \in Pair(proposals[i]) : m.seen[t] = task[t].version
  BY <1>4, <1>5 DEF Pair
<1> QED BY <1>1, <1>2, <1>3, <1>6 DEF Knows

LEMMA EvidenceAnswered ==
    ASSUME TaskCardsInv, [Next]_vars, NEW i \in DOMAIN evidence,
           evidence[i].state = "proposed", evidence'[i].state \in {"accepted", "rejected"}
    PROVE  \E m \in messages : \E a \in {"done", "drop", "keep_open"} : ActOnTask(m, a)
<1>0. TypeOK /\ Sound(Now)
  BY DEF TaskCardsInv
<1>1. ~Lapses(evidence, evidence')
  BY DEF Lapses
<1>2. Quiet => Lapses(evidence, evidence')
  BY DEF Quiet, Passes, Now, Later
<1>3. ASSUME NEW s \in Sightings, ProposeCompletion(s[1], s[2]) PROVE FALSE
  <2>1. PICK e : evidence' = Append(evidence, e)
    BY <1>3 DEF ProposeCompletion
  <2>2. evidence'[i] = evidence[i]
    BY <1>0, <2>1 DEF TypeOK
  <2> QED BY <2>2
<1>4. ASSUME NEW s \in Suspects, ProposeDuplicate(s[1], s[2]) PROVE FALSE
  BY <1>4 DEF ProposeDuplicate
<1>5. ASSUME NEW m \in messages, NEW j \in DOMAIN proposals, DuplicateConfirm(m, j)
      PROVE  FALSE
  BY <1>0, <1>1, <1>5, ConfirmTables
<1>6. ASSUME NEW m \in messages, NEW j \in DOMAIN proposals, DuplicateReject(m, j)
      PROVE  FALSE
  BY <1>0, <1>6, RejectTables
<1>7. ASSUME NEW j \in DOMAIN proposals, ReverseDuplicate(j) PROVE FALSE
  BY <1>0, <1>7, ReverseTables
<1> QED BY <1>1, <1>2, <1>3, <1>4, <1>5, <1>6, <1>7, NextIsQuietOrSpoken

LEMMA ProposalAnswered ==
    ASSUME TaskCardsInv, [Next]_vars, NEW i \in DOMAIN proposals,
           proposals[i].state = "proposed", proposals'[i].state \in {"confirmed", "rejected"}
    PROVE  \E m \in messages : DuplicateConfirm(m, i) \/ DuplicateReject(m, i)
<1>0. TypeOK /\ Sound(Now)
  BY DEF TaskCardsInv
<1>1. ~Lapses(proposals, proposals')
  BY DEF Lapses
<1>2. Quiet => Lapses(proposals, proposals')
  BY DEF Quiet, Passes, Now, Later
<1>3. ASSUME NEW s \in Sightings, ProposeCompletion(s[1], s[2]) PROVE FALSE
  BY <1>3 DEF ProposeCompletion
<1>4. ASSUME NEW s \in Suspects, ProposeDuplicate(s[1], s[2]) PROVE FALSE
  BY <1>0, <1>4, ProposeDuplicateMoves
<1>5. ASSUME NEW m \in messages, NEW j \in DOMAIN proposals, DuplicateConfirm(m, j)
      PROVE  i = j
  BY <1>0, <1>5, ConfirmTables
<1>6. ASSUME NEW m \in messages, NEW j \in DOMAIN proposals, DuplicateReject(m, j)
      PROVE  i = j
  BY <1>0, <1>6, RejectTables DEF SettledTo
<1>7. ASSUME NEW j \in DOMAIN proposals, ReverseDuplicate(j) PROVE FALSE
  <2>1. proposals'[j].state = "proposed" /\ (i # j => proposals'[i] = proposals[i])
    BY <1>0, <1>7, ReverseTables
  <2> QED BY <2>1
<1>8. ASSUME NEW m \in messages, NEW a \in {"done", "drop", "keep_open"}, ActOnTask(m, a)
      PROVE  FALSE
  BY <1>8 DEF ActOnTask
<1> QED BY <1>1, <1>2, <1>3, <1>4, <1>5, <1>6, <1>7, <1>8, NextIsQuietOrSpoken

-----------------------------------------------------------------------------
(* What a pass raises                                                      *)

\* A card that was just made is not stale for what it was made for.
LEMMA FreshIsCurrent ==
    ASSUME TypeOK, NEW t \in Tasks, task[t].status = "open", ~Merged(t),
           ~task[t].preserved, NEW ps, NEW n,
           ~Held(t) \/ (~HeldApart(t) /\ Binds(ps, <<t, n>>) # {})
    PROVE  ~Stale(ps, NewCard(t), <<t, n>>)
<1>1. Current(NewCard(t), t)
  BY NewCardTyped
<1>2. <<t, n>>[1] = t
  OBVIOUS
<1>3. HeldApart(t) => Held(t)
  BY DEF Held, HeldApart
<1>4. PICK c : c = NewCard(t)
  OBVIOUS
<1> QED BY <1>1, <1>2, <1>3, <1>4 DEF Stale

\* The new card of t after a pass over the evidence is for a question that
\* can be asked, ...
LEMMA CompletionRaises ==
    ASSUME TypeOK, NEW s \in Tables, NEW t \in Tasks
    PROVE  LET ds == AskCompletionQuestions(s).cards
           IN  \A n \in DOMAIN ds[t] \ DOMAIN s.cards[t] :
                 /\ ds[t][n] = NewCard(t)
                 /\ task[t].status = "open" /\ ~Held(t) /\ ~task[t].preserved
<1> DEFINE ts == {x \in Tasks : Completions(s, x) # {} /\ Open(s, x)}
           asked == {First(Completions(s, x)) : x \in ts}
           es == BindTo(s.evidence, [i \in asked |-> Place(s, s.evidence[i].task)])
<1>1. AskCompletionQuestions(s) = [s EXCEPT !.cards = Raise(s, ts), !.evidence = es]
  BY DEF AskCompletionQuestions
<1>2. \A x \in ts : x \in Tasks /\ Completions(s, x) # {}
  OBVIOUS
<1> HIDE DEF ts, es
<1>3. AskCompletionQuestions(s).cards = Raise(s, ts)
  BY <1>1 DEF Tables
<1>4. Raised(s, ts, Raise(s, ts), t)
  BY RaisedCards
<1>5. t \in ts => task[t].status = "open" /\ ~Held(t) /\ ~task[t].preserved
  BY <1>2 DEF Completions
<1> QED BY <1>3, <1>4, <1>5 DEF Raised

\* ... and after a pass over the proposals it asks one of them.
LEMMA ComparisonRaises ==
    ASSUME TypeOK, NEW s \in Tables, NEW t \in Tasks
    PROVE  LET u == AskDuplicateProposals(s)
           IN  /\ DOMAIN s.cards[t] \subseteq DOMAIN u.cards[t]
               /\ \A n \in DOMAIN s.cards[t] : u.cards[t][n] = s.cards[t][n]
               /\ \A n \in DOMAIN u.cards[t] \ DOMAIN s.cards[t] :
                    /\ u.cards[t][n] = NewCard(t)
                    /\ task[t].status = "open" /\ ~HeldApart(t) /\ ~task[t].preserved
                    /\ Binds(u.proposals, <<t, n>>) # {}
<1> DEFINE ts == {x \in Tasks :
                    /\ Comparisons(s, x) # {} /\ Open(s, x)
                    /\ \A n \in ActiveIn(s.cards, x) :
                         Binds(s.proposals, <<x, n>>) = {}}
           asked == {First(Comparisons(s, x)) : x \in ts}
           f == [i \in asked |-> Place(s, Asks(s.proposals[i]))]
           ps == BindTo(s.proposals, f)
<1>0. s.proposals \in Seq(ProposalRows) /\ s.cards \in [Tasks -> Seq(CardRows)]
  BY DEF Tables
<1>1. AskDuplicateProposals(s) = [s EXCEPT !.cards = Raise(s, ts), !.proposals = ps]
  BY DEF AskDuplicateProposals
<1>2. /\ \A x \in ts : x \in Tasks /\ Comparisons(s, x) # {}
      /\ \A x \in ts : First(Comparisons(s, x)) \in asked
      /\ DOMAIN f = asked
      /\ \A i \in asked : f[i] = Place(s, Asks(s.proposals[i]))
  OBVIOUS
<1> HIDE DEF ts, asked, f, ps
<1>3. /\ AskDuplicateProposals(s).cards = Raise(s, ts)
      /\ AskDuplicateProposals(s).proposals = ps
  BY <1>1 DEF Tables
<1>4. Raised(s, ts, Raise(s, ts), t)
  BY RaisedCards
<1>5. ASSUME t \in ts, ActiveIn(s.cards, t) = {}
      PROVE  /\ task[t].status = "open" /\ ~HeldApart(t) /\ ~task[t].preserved
             /\ Binds(ps, <<t, Len(s.cards[t]) + 1>>) # {}
  <2>1. PICK i : i = First(Comparisons(s, t))
    OBVIOUS
  <2>2. i \in Comparisons(s, t)
    <3>1. Comparisons(s, t) # {} /\ Comparisons(s, t) \subseteq Nat
      BY <1>0, <1>2, <1>5, QuestionsTyped DEF Comparisons, Unbound
    <3> QED BY <2>1, <3>1, FirstIsIn
  <2>3. /\ i \in DOMAIN s.proposals /\ s.proposals[i].state = "proposed"
        /\ Reviewable(s.proposals[i]) /\ Asks(s.proposals[i]) = t
        /\ \A u \in Pair(s.proposals[i]) : ~HeldApart(u)
        /\ ~task[t].preserved
    BY <2>2 DEF Comparisons, Unbound
  <2>4. task[t].status = "open" /\ t \in Pair(s.proposals[i])
    BY <2>3 DEF Asks, Reviewable, Pair
  <2>5. f[i] = <<t, Len(s.cards[t]) + 1>> /\ i \in DOMAIN f
    BY <1>2, <1>5, <2>1, <2>3 DEF Place
  <2>6. DOMAIN ps = DOMAIN s.proposals /\ ps[i] = [s.proposals[i] EXCEPT !.card = f[i]]
    BY <2>3, <2>5 DEF ps, BindTo
  <2>7. s.proposals[i] \in ProposalRows
    BY <1>0, <2>3, QuestionsTyped
  <2>8. ps[i].card = f[i] /\ ps[i].state = "proposed"
    BY ONLY <2>3, <2>6, <2>7 DEF ProposalRows
  <2>9. i \in Binds(ps, <<t, Len(s.cards[t]) + 1>>)
    BY <2>3, <2>5, <2>6, <2>8 DEF Binds
  <2> QED BY <2>3, <2>4, <2>9
<1> QED BY <1>3, <1>4, <1>5 DEF Raised

\* Only a pass, or the reader who asks for full cards, makes cards.
LEMMA WhoMakesCards ==
    ASSUME TaskCardsInv, [Next]_vars
    PROVE  \/ \A t \in Tasks : DOMAIN cards'[t] = DOMAIN cards[t]
           \/ Schedule \/ ScheduleDuplicateProposals
           \/ \E m \in messages : ShowFullCards(m)
<1>1. CASE UNCHANGED vars
  BY <1>1 DEF vars
<1>2. CASE Detector
  BY <1>2 DEF Detector, ProposeCompletion, ProposeDuplicate
<1>3. CASE Operator
  <2>1. ASSUME NEW id \in CardIds, RetryDelivery(id)
        PROVE  \A t \in Tasks : DOMAIN cards'[t] = DOMAIN cards[t]
    BY <2>1 DEF RetryDelivery, Edit
  <2>2. ASSUME NEW S, SupersedeDuplicateProposals(S)
        PROVE  \A t \in Tasks : DOMAIN cards'[t] = DOMAIN cards[t]
    BY <2>2 DEF SupersedeDuplicateProposals, Edit
  <2>3. ASSUME BulkDropSweep
        PROVE  \A t \in Tasks : DOMAIN cards'[t] = DOMAIN cards[t]
    BY <2>3 DEF BulkDropSweep, Become, CancelStale, Now, Edit
  <2> QED BY <1>3, <2>1, <2>2, <2>3 DEF Operator, ReverseDuplicate, BulkDropTask
<1>4. CASE Consumer
  <2>1. ASSUME NEW k \in Consumers, NEW id \in CardIds, ClaimNext(k, id)
        PROVE  \A t \in Tasks : DOMAIN cards'[t] = DOMAIN cards[t]
    BY <2>1 DEF ClaimNext, Edit
  <2>2. ASSUME NEW k \in Consumers, ClaimNothing(k)
        PROVE  \A t \in Tasks : DOMAIN cards'[t] = DOMAIN cards[t]
    BY <2>2 DEF ClaimNothing, Edit
  <2>3. ASSUME NEW k \in Consumers, NEW id \in CardIds, ClaimExact(k, id)
        PROVE  \A t \in Tasks : DOMAIN cards'[t] = DOMAIN cards[t]
    BY <2>3 DEF ClaimExact, Edit
  <2>4. ASSUME NEW m \in messages, CompleteDelivery(m) \/ FailDelivery(m)
        PROVE  \A t \in Tasks : DOMAIN cards'[t] = DOMAIN cards[t]
    BY <2>4 DEF CompleteDelivery, FailDelivery, Edit
  <2> QED BY <1>4, <2>1, <2>2, <2>3, <2>4 DEF Consumer
<1>5. CASE Reader
  <2>1. ASSUME NEW m \in messages, NEW a, ActOnTask(m, a)
        PROVE  \A t \in Tasks : DOMAIN cards'[t] = DOMAIN cards[t]
    BY <2>1 DEF ActOnTask, Edit
  <2>2. ASSUME NEW m \in messages, Snooze(m)
        PROVE  \A t \in Tasks : DOMAIN cards'[t] = DOMAIN cards[t]
    BY <2>2 DEF Snooze, Edit
  <2>3. ASSUME NEW m \in messages, NEW i \in DOMAIN proposals, DuplicateConfirm(m, i)
        PROVE  \A t \in Tasks : DOMAIN cards'[t] = DOMAIN cards[t]
    BY <2>3 DEF DuplicateConfirm, Edit
  <2>4. ASSUME NEW m \in messages, NEW i \in DOMAIN proposals, DuplicateReject(m, i)
        PROVE  \A t \in Tasks : DOMAIN cards'[t] = DOMAIN cards[t]
    BY <2>4 DEF DuplicateReject, Edit
  <2> QED BY <1>5, <2>1, <2>2, <2>3, <2>4 DEF Reader
<1>6. CASE World
  <2>1. ASSUME NEW id \in CardIds, TimePasses(id)
        PROVE  \A t \in Tasks : DOMAIN cards'[t] = DOMAIN cards[t]
    BY <2>1 DEF TimePasses, Edit
  <2> QED BY <1>6, <2>1 DEF World, Transition, SourceMoves, WorkflowMoves
<1>7. CASE RequeueUnanswered
  <2> DEFINE s == CancelStale(Now)
             old == {id \in CardIds :
                       LET c == s.cards[id[1]][id[2]]
                       IN  c.status = "delivered" /\ c.due /\ Current(c, id[1])}
  <2>1. Become([s EXCEPT !.cards = PendAll(s.cards, old)])
    BY <1>7 DEF RequeueUnanswered, PendAll
  <2>2. s \in Tables
    BY CancelStalePasses DEF TaskCardsInv
  <2>3. \A t \in Tasks : DOMAIN s.cards[t] = DOMAIN cards[t]
    BY DEF CancelStale, Now, Edit
  <2> HIDE DEF s, old
  <2>4. cards' = PendAll(s.cards, old)
    BY <2>1, <2>2 DEF Become, Tables
  <2> QED BY <2>3, <2>4 DEF PendAll, Edit
<1> QED BY <1>1, <1>2, <1>3, <1>4, <1>5, <1>6, <1>7 DEF Next

LEMMA ScheduleRaises ==
    ASSUME TaskCardsInv, Schedule \/ ScheduleDuplicateProposals,
           NEW t \in Tasks, ~Merged(t), NEW n \in DOMAIN cards'[t] \ DOMAIN cards[t]
    PROVE  ~Stale(proposals', cards'[t][n], <<t, n>>)
<1> DEFINE s == CancelStale(Now)
<1>0. TypeOK /\ Sound(Now)
  BY DEF TaskCardsInv
<1>1. s \in Tables /\ Sound(s)
  BY <1>0, CancelStalePasses DEF Passes
<1>2. DOMAIN s.cards[t] = DOMAIN cards[t]
  BY DEF CancelStale, Now, Edit
<1> HIDE DEF s
<1>3. PICK u : /\ u = AskCompletionQuestions(s) \/ u = ResolveUnaskableProposals(s)
               /\ Become(AskDuplicateProposals(u))
  BY DEF Schedule, ScheduleDuplicateProposals, s
<1>4. PICK v : v = AskDuplicateProposals(u)
  OBVIOUS
<1>5. cards' = v.cards /\ proposals' = v.proposals /\ HasRoom(v.cards)
  BY <1>3, <1>4 DEF Become, HasRoom
<1>6. u \in Tables
  <2>1. CASE u = AskCompletionQuestions(s)
    <3>1. HasRoom(u.cards)
      BY <1>0, <1>1, <1>4, <1>5, <2>1, AskedHasCards, RoomBefore
    <3> QED BY <1>0, <1>1, <2>1, <3>1, AskCompletionPasses
  <2>2. CASE u = ResolveUnaskableProposals(s)
    BY <1>1, <2>2, ResolvePasses
  <2> QED BY <1>3, <2>1, <2>2
\* Raised for a task that was finished, ...
<1>7. CASE n \in DOMAIN u.cards[t]
  <2>1. u = AskCompletionQuestions(s)
    <3> SUFFICES ASSUME u = ResolveUnaskableProposals(s) PROVE FALSE
      BY <1>3
    <3>1. u.cards = s.cards
      BY <1>1 DEF ResolveUnaskableProposals, Tables
    <3> QED BY <1>2, <1>7, <3>1
  <2>2. u.cards[t][n] = NewCard(t) /\ task[t].status = "open" /\ ~Held(t)
        /\ ~task[t].preserved
    BY <1>0, <1>1, <1>2, <1>7, <2>1, CompletionRaises
  <2>3. cards'[t][n] = NewCard(t)
    BY <1>0, <1>4, <1>5, <1>6, <1>7, <2>2, ComparisonRaises
  <2> QED BY <1>0, <2>2, <2>3, FreshIsCurrent
\* ... or for a comparison.
<1>8. CASE n \notin DOMAIN u.cards[t]
  <2>1. /\ cards'[t][n] = NewCard(t)
        /\ task[t].status = "open" /\ ~HeldApart(t) /\ ~task[t].preserved
        /\ Binds(proposals', <<t, n>>) # {}
    BY <1>0, <1>4, <1>5, <1>6, <1>8, ComparisonRaises
  <2> QED BY <1>0, <2>1, FreshIsCurrent
<1> QED BY <1>7, <1>8

LEMMA LastIsNew ==
    ASSUME NEW cs \in [Tasks -> Seq(CardRows)], NEW ds \in [Tasks -> Seq(CardRows)],
           NEW t \in Tasks, Len(ds[t]) > Len(cs[t])
    PROVE  Len(ds[t]) \in DOMAIN ds[t] \ DOMAIN cs[t]
<1>1. /\ DOMAIN ds[t] = 1..Len(ds[t]) /\ Len(ds[t]) \in Nat
      /\ DOMAIN cs[t] = 1..Len(cs[t]) /\ Len(cs[t]) \in Nat
  BY CardsTyped
<1>2. Len(ds[t]) > Len(cs[t])
  OBVIOUS
<1> QED BY ONLY <1>1, <1>2

LEMMA NextPassesAgree ==
    ASSUME TaskCardsInv, [Next]_vars, NEW t \in Tasks, ~Merged(t),
           Len(cards'[t]) > Len(cards[t]),
           cards'[t][Len(cards'[t])].status = "pending"
    PROVE  ~Stale(proposals', cards'[t][Len(cards'[t])], <<t, Len(cards'[t])>>)
<1>0. cards \in [Tasks -> Seq(CardRows)] /\ cards' \in [Tasks -> Seq(CardRows)]
  BY NextTyped DEF TaskCardsInv, TypeOK
<1>1. PICK n : n = Len(cards'[t])
  OBVIOUS
<1>2. n \in DOMAIN cards'[t] \ DOMAIN cards[t]
  BY <1>0, <1>1, LastIsNew
<1>3. CASE Schedule \/ ScheduleDuplicateProposals
  BY <1>1, <1>2, <1>3, ScheduleRaises
<1>4. ASSUME NEW m \in messages, ShowFullCards(m) PROVE FALSE
  <2>1. PICK ended : CardsEdited(cards, ended) /\ InFull(ended, cards', t)
    BY <1>4, ShowFullTables
  <2>2. n \notin DOMAIN ended[t]
    BY <1>2, <2>1 DEF CardsEdited
  <2>3. cards'[t][n].status = "delivered"
    BY <1>2, <2>1, <2>2 DEF InFull
  <2> QED BY <1>1, <2>3
<1> QED BY <1>2, <1>3, <1>4, WhoMakesCards

-----------------------------------------------------------------------------
(* The theorems                                                            *)

\* At every moment the tables are well bound, a pair of tasks is merged as its
\* proposal says, and a message says what its card is, as long as the card has
\* not moved.
THEOREM TaskCardsInvariant == Spec => []TaskCardsInv
<1>1. Init => TaskCardsInv
  BY InitInv
<1>2. TaskCardsInv /\ [Next]_vars => TaskCardsInv'
  BY NextInv
<1> QED BY <1>1, <1>2, PTL DEF Spec

\* Rows keep the shapes and ranges of their tables.
\* (the CHECKs of task_review_cards and of the tables of its questions)
THEOREM TaskCardsTyped == Spec => []TypeOK
<1>1. TaskCardsInv => TypeOK
  BY DEF TaskCardsInv
<1> QED BY <1>1, TaskCardsInvariant, PTL

\* A pair counts as confirmed exactly while its tasks are merged, through any
\* number of merges, reversals and reopened tasks.
\* (_act_duplicate, reverse_duplicate, reopen_confirmed)
THEOREM ConfirmedPairsAreMerged == Spec => []ConfirmedIsMerged
<1>1. TaskCardsInv => ConfirmedIsMerged
  BY DEF TaskCardsInv, PairsInv
<1> QED BY <1>1, TaskCardsInvariant, PTL

\* Whatever passes, repairs and answers have made, a task has at most one card
\* in play: no pass meets the refusal of task_review_cards_one_active.
\* (schedule, _ask_completion_questions, _ask_duplicate_proposals)
THEOREM OneCardInPlay == Spec => []OneActiveCard
<1>1. TaskCardsInv => OneActiveCard
  <2> SUFFICES ASSUME TaskCardsInv, NEW t \in Tasks
               PROVE  Cardinality(ActiveIn(cards, t)) <= 1
    BY DEF OneActiveCard
  <2>1. \A n, k \in ActiveIn(cards, t) : n = k
    BY DEF TaskCardsInv, Sound, Now, OneInPlay
  <2>2. CASE ActiveIn(cards, t) = {}
    BY <2>2, FS_EmptySet
  <2>3. CASE ActiveIn(cards, t) # {}
    <3>1. PICK n : ActiveIn(cards, t) = {n}
      BY <2>1, <2>3
    <3> QED BY <3>1, FS_Singleton
  <2> QED BY <2>2, <2>3
<1> QED BY <1>1, TaskCardsInvariant, PTL

\* An answer settles the question its message shows, about tasks at the
\* versions the message shows them at, however late it comes.
\* (act, _act_duplicate, bind, claim_next)
THEOREM AnswersAreOfWhatWasShown == Spec => AnswersWhatWasShown
<1> DEFINE Shows ==
      /\ \A i \in DOMAIN evidence :
            (/\ evidence[i].state = "proposed"
             /\ evidence'[i].state \in {"accepted", "rejected"})
            => \E m \in messages :
                 /\ m.card = evidence[i].card
                 /\ m.version = cards[m.card[1]][m.card[2]].version
                 /\ \/ m.exact
                    \/ Knows(m, [kind |-> "evidence", id |-> i],
                             {evidence[i].task})
      /\ \A i \in DOMAIN proposals :
            (/\ proposals[i].state = "proposed"
             /\ proposals'[i].state \in {"confirmed", "rejected"})
            => \E m \in messages :
                 /\ m.card = proposals[i].card
                 /\ m.version = cards[m.card[1]][m.card[2]].version
                 /\ Knows(m, [kind |-> "proposal", id |-> i],
                          Pair(proposals[i]))
<1>1. TaskCardsInv /\ [Next]_vars => [Shows]_vars
  <2> SUFFICES ASSUME TaskCardsInv, [Next]_vars PROVE Shows
    OBVIOUS
  <2>1. ASSUME NEW i \in DOMAIN evidence, evidence[i].state = "proposed",
               evidence'[i].state \in {"accepted", "rejected"}
        PROVE  \E m \in messages :
                 /\ m.card = evidence[i].card
                 /\ m.version = cards[m.card[1]][m.card[2]].version
                 /\ \/ m.exact
                    \/ Knows(m, [kind |-> "evidence", id |-> i],
                             {evidence[i].task})
    <3>1. PICK m \in messages, a \in {"done", "drop", "keep_open"} : ActOnTask(m, a)
      BY <2>1, EvidenceAnswered
    <3>2. evidence'[i].state # evidence[i].state
      BY <2>1
    <3> QED BY <3>1, <3>2, ActAnswersWhatWasShown
  <2>2. ASSUME NEW i \in DOMAIN proposals, proposals[i].state = "proposed",
               proposals'[i].state \in {"confirmed", "rejected"}
        PROVE  \E m \in messages :
                 /\ m.card = proposals[i].card
                 /\ m.version = cards[m.card[1]][m.card[2]].version
                 /\ Knows(m, [kind |-> "proposal", id |-> i], Pair(proposals[i]))
    <3>1. PICK m \in messages : DuplicateConfirm(m, i) \/ DuplicateReject(m, i)
      BY <2>2, ProposalAnswered
    <3>2. i \in Comparison(m) /\ \E a : Answer(m, a)
      BY <3>1 DEF DuplicateConfirm, DuplicateReject
    <3> QED BY <3>2, ComparisonShown
  <2> QED BY <2>1, <2>2
<1> QED BY <1>1, TaskCardsInvariant, PTL DEF Spec, AnswersWhatWasShown

\* A pass raises no card that the next pass would retract.
\* (_cancel_stale against _ask_completion_questions, _ask_duplicate_proposals)
THEOREM PassesDoNotFight == Spec => PassesAgree
<1> DEFINE Agrees ==
      \A t \in Tasks :
          (/\ ~Merged(t) /\ Len(cards'[t]) > Len(cards[t])
           /\ UNCHANGED <<task, wf, merged>>)
          => LET n == Len(cards'[t])
             IN  cards'[t][n].status = "pending" =>
                     ~Stale(proposals', cards'[t][n], <<t, n>>)
<1>1. TaskCardsInv /\ [Next]_vars => [Agrees]_vars
  BY NextPassesAgree
<1> QED BY <1>1, TaskCardsInvariant, PTL DEF Spec, PassesAgree
=============================================================================
