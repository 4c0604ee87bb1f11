------------------------- MODULE CandidateIntakeProofs -------------------------
(***************************************************************************)
(* Proofs about CandidateIntake, for any documents, importers and bounds:  *)
(* its types, that the inbox is one history of the producer, that a task   *)
(* follows its source, that the cutover loses no candidate, and that a     *)
(* pass overrules neither the reader nor an agent.                         *)
(*                                                                         *)
(* A page and a pass are recursive functions.  SetInduction, from the      *)
(* well-foundedness of <, and StepByStep give their values one item after  *)
(* another; what a single item does is ApplyTyped and AcceptAdvances.      *)
(***************************************************************************)
EXTENDS CandidateIntake, SequenceTheorems, FiniteSetTheorems,
        WellFoundedInduction, TLAPS

-----------------------------------------------------------------------------
(* Pages.  A feed is contiguous: a page begins where the one before it     *)
(* ends, and takes the feed further.                                       *)

Contiguous(pages) ==
    /\ pages \in Seq(FeedPages)
    /\ \A p \in 1..Len(pages) :
         /\ Len(pages[p].docs) > 0
         /\ p = 1 => pages[p].from = 0
         /\ p # 1 => pages[p].from = To(pages[p - 1])
         /\ \A q \in 1..Len(pages) : p < q => To(pages[p]) <= pages[q].from

LEMMA PageTypes ==
  ASSUME NEW page \in FeedPages
  PROVE  /\ page.from \in Nat /\ page.docs \in Seq(Documents)
         /\ Len(page.docs) \in Nat /\ To(page) \in Nat
<1>1. page.from \in Nat /\ page.docs \in Seq(Documents)
  BY DEF FeedPages
<1>2. Len(page.docs) \in Nat
  BY <1>1, LenProperties
<1> QED
  BY <1>1, <1>2 DEF To

LEMMA PagesTyped ==
  ASSUME NEW pages \in Seq(FeedPages)
  PROVE  /\ Len(pages) \in Nat
         /\ \A p \in 1..Len(pages) :
              /\ pages[p] \in FeedPages
              /\ pages[p].from \in Nat /\ pages[p].docs \in Seq(Documents)
              /\ Len(pages[p].docs) \in Nat /\ To(pages[p]) \in Nat
<1>1. Len(pages) \in Nat
  BY LenProperties
<1>2. \A p \in 1..Len(pages) : pages[p] \in FeedPages
  BY ElementOfSeq
<1> QED
  BY <1>1, <1>2, PageTypes

\* Where a feed ends.
LEMMA EndOf ==
  ASSUME NEW pages \in Seq(FeedPages)
  PROVE  /\ End(pages) \in Nat
         /\ Len(pages) = 0 => End(pages) = 0
         /\ Len(pages) # 0 => End(pages) = To(pages[Len(pages)])
<1>1. Len(pages) \in Nat /\ (pages = <<>> <=> Len(pages) = 0)
  BY LenProperties, EmptySeq
<1>2. ASSUME Len(pages) # 0 PROVE To(pages[Len(pages)]) \in Nat
  <2>1. Len(pages) \in 1..Len(pages)
    BY <1>1, <1>2
  <2> QED
    BY <2>1, PagesTyped
<1> QED
  BY <1>1, <1>2 DEF End, Last

LEMMA EndReached ==
  ASSUME NEW pages, Contiguous(pages), NEW p \in 1..Len(pages)
  PROVE  To(pages[p]) <= End(pages)
<1>1. pages \in Seq(FeedPages) /\ Len(pages) \in Nat
  BY PagesTyped DEF Contiguous
<1>2. To(pages[p]) \in Nat
  BY <1>1, PagesTyped
<1>3. End(pages) = To(pages[Len(pages)]) /\ Len(pages) \in 1..Len(pages)
  BY <1>1, EndOf
<1>4. CASE p = Len(pages)
  BY <1>2, <1>3, <1>4
<1>5. CASE p # Len(pages)
  <2> DEFINE n == Len(pages)
  <2>1. p < n /\ n \in 1..n
    BY <1>1, <1>3, <1>5
  <2>2. To(pages[p]) <= pages[n].from
    BY <2>1 DEF Contiguous
  <2>3. pages[n].from \in Nat /\ Len(pages[n].docs) \in Nat
    BY <1>1, <2>1, PagesTyped
  <2>4. pages[n].from <= To(pages[n])
    BY <2>3 DEF To
  <2>5. To(pages[n]) \in Nat
    BY <2>3 DEF To
  <2> HIDE DEF n
  <2> QED
    BY <1>2, <1>3, <2>2, <2>3, <2>4, <2>5 DEF n
<1> QED
  BY <1>4, <1>5

\* One more page, from where the feed ends.
LEMMA OneMorePage ==
  ASSUME NEW pages, Contiguous(pages), NEW page \in FeedPages,
         page.from = End(pages), Len(page.docs) > 0
  PROVE  /\ Contiguous(Append(pages, page))
         /\ End(Append(pages, page)) = To(page)
<1> DEFINE more == Append(pages, page)
           n    == Len(pages)
<1>1. pages \in Seq(FeedPages) /\ n \in Nat
  BY PagesTyped DEF Contiguous
<1>2. /\ more \in Seq(FeedPages) /\ Len(more) = n + 1
      /\ \A p \in 1..n : more[p] = pages[p]
      /\ more[n + 1] = page
  BY <1>1, AppendProperties
<1> HIDE DEF more
<1>3. ASSUME NEW p \in 1..(n + 1)
      PROVE  /\ Len(more[p].docs) > 0
             /\ p = 1 => more[p].from = 0
             /\ p # 1 => more[p].from = To(more[p - 1])
             /\ \A q \in 1..(n + 1) : p < q => To(more[p]) <= more[q].from
  <2>1. CASE p = n + 1
    <3>1. more[p] = page
      BY <1>2, <2>1
    <3>2. \A q \in 1..(n + 1) : p < q => To(more[p]) <= more[q].from
      <4>1. \A q \in 1..(n + 1) : ~(p < q)
        BY <1>1, <2>1
      <4> QED
        BY <4>1
    <3>3. CASE n = 0
      <4>0. p = 1
        BY ONLY <2>1, <3>3
      <4>1. End(pages) = 0 /\ p = 1
        BY <1>1, <3>3, <4>0, EndOf
      <4>2. more[p].from = 0
        BY <3>1, <4>1
      <4> QED
        BY <3>1, <3>2, <4>1, <4>2
    <3>4. CASE n # 0
      <4>1. End(pages) = To(pages[n])
        BY <1>1, <3>4, EndOf
      <4>2. p # 1 /\ p - 1 = n /\ n \in 1..n
        BY <1>1, <2>1, <3>4
      <4>3. more[p - 1] = pages[n]
        BY <1>2, <4>2
      <4>4. more[p].from = To(more[p - 1])
        BY <3>1, <4>1, <4>3
      <4> QED
        BY <3>1, <3>2, <4>2, <4>4
    <3> QED
      BY <3>3, <3>4
  <2>2. CASE p # n + 1
    <3>1. p \in 1..n /\ more[p] = pages[p]
      BY <1>1, <1>2, <2>2
    <3>2. p # 1 => p - 1 \in 1..n /\ more[p - 1] = pages[p - 1]
      BY <1>1, <1>2, <3>1
    <3>3. /\ Len(pages[p].docs) > 0
          /\ p = 1 => pages[p].from = 0
          /\ p # 1 => pages[p].from = To(pages[p - 1])
          /\ \A q \in 1..n : p < q => To(pages[p]) <= pages[q].from
      BY <3>1 DEF Contiguous
    <3>4. To(pages[p]) <= End(pages)
      BY <3>1, EndReached
    <3>5. ASSUME NEW q \in 1..(n + 1), p < q PROVE To(more[p]) <= more[q].from
      <4>1. CASE q = n + 1
        BY <1>2, <3>1, <3>4, <4>1
      <4>2. CASE q # n + 1
        <5>1. q \in 1..n
          BY <1>1, <4>2
        <5> QED
          BY <1>2, <3>1, <3>3, <3>5, <5>1
      <4> QED
        BY <4>1, <4>2
    <3> QED
      BY <3>1, <3>2, <3>3, <3>5
  <2> QED
    BY <2>1, <2>2
<1>4. Contiguous(more)
  BY <1>2, <1>3 DEF Contiguous
<1>5. End(more) = To(page)
  <2>1. Len(more) # 0
    BY <1>1, <1>2
  <2> QED
    BY <1>2, <2>1, EndOf
<1> QED
  BY <1>4, <1>5 DEF more

\* One page less.
LEMMA OnePageLess ==
  ASSUME NEW pages, Contiguous(pages), pages # <<>>
  PROVE  /\ Contiguous(Front(pages)) /\ Len(Front(pages)) = Len(pages) - 1
         /\ \A p \in 1..(Len(pages) - 1) : Front(pages)[p] = pages[p]
<1> DEFINE n == Len(pages)
<1>1. pages \in Seq(FeedPages) /\ n \in Nat /\ n # 0
  BY LenProperties, EmptySeq DEF Contiguous
<1>2. n - 1 \in Nat /\ n - 1 \in Int /\ 1 \in Int /\ (n - 1) - 1 + 1 = n - 1
      /\ (~(1 <= n - 1) => n - 1 = 0)
  <2> HIDE DEF n
  <2> QED
    BY ONLY <1>1
<1>3. \A i \in 1..(n - 1) : i \in 1..n /\ 1 + i - 1 = i
  BY ONLY <1>1
<1>4. \A i \in 1..(n - 1) : pages[i] \in FeedPages
  BY <1>1, <1>3, PagesTyped
<1> DEFINE less == SubSeq(pages, 1, n - 1)
<1>5. /\ less \in Seq(FeedPages)
      /\ Len(less) = IF 1 <= n - 1 THEN (n - 1) - 1 + 1 ELSE 0
      /\ \A i \in 1..((n - 1) - 1 + 1) : less[i] = pages[1 + i - 1]
  BY <1>2, <1>4, SubSeqProperties
<1> HIDE DEF less, n
<1>6. Len(less) = n - 1 /\ \A i \in 1..(n - 1) : less[i] = pages[i]
  <2>1. Len(less) = n - 1
    BY <1>2, <1>5
  <2>2. \A i \in 1..(n - 1) : less[i] = pages[1 + i - 1]
    BY <1>2, <1>5
  <2> QED
    BY <1>3, <2>1, <2>2
<1>7. ASSUME NEW p \in 1..(n - 1)
      PROVE  /\ Len(less[p].docs) > 0
             /\ p = 1 => less[p].from = 0
             /\ p # 1 => less[p].from = To(less[p - 1])
             /\ \A q \in 1..(n - 1) : p < q => To(less[p]) <= less[q].from
  <2>1. p \in 1..n /\ less[p] = pages[p]
    BY <1>3, <1>6
  <2>2. /\ Len(pages[p].docs) > 0
        /\ p = 1 => pages[p].from = 0
        /\ p # 1 => pages[p].from = To(pages[p - 1])
        /\ \A q \in 1..n : p < q => To(pages[p]) <= pages[q].from
    BY <2>1 DEF Contiguous, n
  <2>3. p # 1 => less[p - 1] = pages[p - 1]
    <3>1. p # 1 => p - 1 \in 1..(n - 1)
      BY <1>1
    <3> QED
      BY <1>6, <3>1
  <2>4. \A q \in 1..(n - 1) : q \in 1..n /\ less[q] = pages[q]
    BY <1>3, <1>6
  <2> QED
    BY <2>1, <2>2, <2>3, <2>4
<1>8. Contiguous(less)
  BY <1>5, <1>6, <1>7 DEF Contiguous
<1>9. Front(pages) = less
  BY DEF Front, less, n
<1> QED
  BY <1>6, <1>8, <1>9 DEF n

-----------------------------------------------------------------------------
(* The inbox holds one history.  An importer is never further in the       *)
(* outbox than the pages before it agree with the receipts, so a page that *)
(* is new to the inbox comes after just the pages the outbox has before it.*)

FeedTyped ==
    /\ Contiguous(outbox) /\ Contiguous(receipts)
    /\ items \in Seq(Documents)
    /\ importing \in [Importers -> Nat]
    /\ faults \in 0..MaxFaults

\* The producer sends a revision once.
SentOnce ==
    \A p, q \in 1..Len(outbox) :
      \A m \in 1..Len(outbox[p].docs), n \in 1..Len(outbox[q].docs) :
        outbox[p].docs[m] = outbox[q].docs[n] => p = q /\ m = n

\* An item stands at its place on its page.
Placed(k, r, m) ==
    /\ m \in 1..Len(receipts[r].docs)
    /\ k = receipts[r].from + m
    /\ items[k] = receipts[r].docs[m]

ItemsReceived ==
    /\ Cursor = End(receipts)
    /\ \A k \in 1..Cursor : \E r \in 1..Len(receipts) : \E m : Placed(k, r, m)

ImportsFollow ==
    \A i \in Importers : importing[i] # 0 =>
      /\ importing[i] <= Len(outbox)
      /\ \A q \in 1..(importing[i] - 1) :
           q \in 1..Len(receipts) /\ receipts[q] = outbox[q]

FeedInv == FeedTyped /\ SentOnce /\ ItemsReceived /\ ImportsFollow /\ OneHistory

LEMMA FeedTypes ==
  ASSUME FeedTyped
  PROVE  /\ outbox \in Seq(FeedPages) /\ Len(outbox) \in Nat
         /\ receipts \in Seq(FeedPages) /\ Len(receipts) \in Nat
         /\ Cursor \in Nat
BY LenProperties DEF FeedTyped, Contiguous, Cursor

LEMMA InitFeed == Init => FeedInv
<1> SUFFICES ASSUME Init PROVE FeedInv
  OBVIOUS
<1>1. /\ outbox = <<>> /\ receipts = <<>> /\ items = <<>>
      /\ importing = [i \in Importers |-> 0] /\ faults \in 0..MaxFaults
  BY IntakeAssumption DEF Init
<1>2. Len(outbox) = 0 /\ Len(receipts) = 0 /\ Cursor = 0
  BY <1>1, EmptySeq DEF Cursor
<1>3. FeedTyped
  BY <1>1, <1>2, EmptySeq DEF FeedTyped, Contiguous
<1>4. SentOnce /\ ImportsFollow
  BY <1>1, <1>2 DEF SentOnce, ImportsFollow
<1>5. ItemsReceived
  BY <1>1, <1>2 DEF ItemsReceived, End
<1>6. OneHistory
  <2>1. IsPrefix(receipts, outbox)
    BY <1>1, <1>2 DEF IsPrefix
  <2> QED
    BY <1>2, <2>1 DEF OneHistory
<1> QED
  BY <1>3, <1>4, <1>5, <1>6 DEF FeedInv

\* One sequence begins with another.
LEMMA SameStart ==
  ASSUME NEW S, NEW s \in Seq(S), NEW t \in Seq(S), Len(s) <= Len(t)
  PROVE  /\ SubSeq(s, 1, Len(s)) = SubSeq(t, 1, Len(s))
              => \A k \in 1..Len(s) : s[k] = t[k]
         /\ (\A k \in 1..Len(s) : s[k] = t[k])
              => SubSeq(s, 1, Len(s)) = SubSeq(t, 1, Len(s))
<1> DEFINE n == Len(s)
           a == SubSeq(s, 1, n)
           b == SubSeq(t, 1, n)
<1>1. n \in Nat /\ Len(t) \in Nat /\ n <= Len(t)
  BY LenProperties
<1>2. n \in Int /\ 1 \in Int /\ (1 <= n => n - 1 + 1 = n) /\ (~(1 <= n) => n = 0)
      /\ n - 1 + 1 = n
  BY ONLY <1>1
<1>3. \A k \in 1..n : 1 + k - 1 = k /\ k \in 1..Len(t)
  BY ONLY <1>1
<1>4. \A k \in 1..n : s[k] \in S /\ t[k] \in S
  BY <1>3, ElementOfSeq
<1> HIDE DEF n
<1>5. /\ a \in Seq(S) /\ Len(a) = IF 1 <= n THEN n - 1 + 1 ELSE 0
      /\ \A k \in 1..(n - 1 + 1) : a[k] = s[1 + k - 1]
  BY <1>2, <1>4, SubSeqProperties
<1>6. /\ b \in Seq(S) /\ Len(b) = IF 1 <= n THEN n - 1 + 1 ELSE 0
      /\ \A k \in 1..(n - 1 + 1) : b[k] = t[1 + k - 1]
  BY <1>2, <1>4, SubSeqProperties
<1> HIDE DEF a, b
<1>7. /\ Len(a) = n /\ Len(b) = n
      /\ \A k \in 1..n : a[k] = s[k] /\ b[k] = t[k]
  BY <1>2, <1>3, <1>5, <1>6
<1>8. ASSUME \A k \in 1..n : s[k] = t[k] PROVE a = b
  BY <1>5, <1>6, <1>7, <1>8, SeqEqual
<1>9. ASSUME a = b PROVE \A k \in 1..n : s[k] = t[k]
  BY <1>7, <1>9
<1> QED
  BY <1>8, <1>9 DEF a, b, n

LEMMA PrefixAt ==
  ASSUME NEW S, NEW s \in Seq(S), NEW t \in Seq(S), IsPrefix(s, t)
  PROVE  Len(s) <= Len(t) /\ \A k \in 1..Len(s) : s[k] = t[k]
<1>1. Len(s) <= Len(t) /\ SubSeq(s, 1, Len(s)) = SubSeq(t, 1, Len(s))
  BY DEF IsPrefix
<1> QED
  BY <1>1, SameStart

LEMMA PrefixFrom ==
  ASSUME NEW S, NEW s \in Seq(S), NEW t \in Seq(S), Len(s) <= Len(t),
         \A k \in 1..Len(s) : s[k] = t[k]
  PROVE  IsPrefix(s, t)
<1>1. SubSeq(s, 1, Len(s)) = SubSeq(t, 1, Len(s))
  BY SameStart
<1> QED
  BY <1>1 DEF IsPrefix

\* The inbox is where an importer's page begins only if it holds the pages
\* before it and no other.
LEMMA InboxAtPage ==
  ASSUME FeedInv, NEW i \in Importers, importing[i] > 0, NextPage(importing[i])
  PROVE  Len(receipts) = importing[i] - 1
<1> DEFINE p == importing[i]
           n == Len(receipts)
<1>1. p \in Nat /\ p # 0 /\ n \in Nat /\ p <= Len(outbox) /\ p \in 1..Len(outbox)
  <2>1. p \in Nat
    BY DEF FeedInv, FeedTyped
  <2>2. p # 0
    BY <2>1
  <2>3. p <= Len(outbox)
    BY <2>2 DEF FeedInv, ImportsFollow
  <2> QED
    BY <2>1, <2>2, <2>3, FeedTypes DEF FeedInv
<1>2. \A q \in 1..(p - 1) : q \in 1..n /\ receipts[q] = outbox[q]
  BY <1>1 DEF FeedInv, ImportsFollow
<1>3. outbox[p].from = End(receipts)
  BY DEF NextPage, FeedInv, ItemsReceived
<1>4. Contiguous(outbox) /\ Contiguous(receipts)
  BY DEF FeedInv, FeedTyped
<1>5. n >= p - 1
  <2>1. CASE p = 1
    BY <1>1, <2>1
  <2>2. CASE p # 1
    <3>1. p - 1 \in 1..(p - 1)
      BY <1>1, <2>2
    <3>2. p - 1 \in 1..n
      BY <1>2, <3>1
    <3> QED
      BY <1>1, <3>2
  <2> QED
    BY <2>1, <2>2
<1>6. ASSUME n >= p PROVE FALSE
  <2>1. p \in 1..n
    BY <1>1, <1>6
  <2>2. receipts[p].from = outbox[p].from
    <3>1. CASE p = 1
      BY <1>1, <1>4, <2>1, <3>1 DEF Contiguous
    <3>2. CASE p # 1
      <4>1. p - 1 \in 1..(p - 1)
        BY <1>1, <3>2
      <4>2. receipts[p - 1] = outbox[p - 1]
        BY <1>2, <4>1
      <4>3. receipts[p].from = To(receipts[p - 1])
        BY <1>4, <2>1, <3>2 DEF Contiguous
      <4>4. outbox[p].from = To(outbox[p - 1])
        BY <1>1, <1>4, <3>2 DEF Contiguous
      <4> QED
        BY <4>2, <4>3, <4>4
    <3> QED
      BY <3>1, <3>2
  <2>3. To(receipts[p]) <= End(receipts)
    BY <1>4, <2>1, EndReached
  <2>4. /\ receipts[p].from \in Nat /\ Len(receipts[p].docs) \in Nat
        /\ Len(receipts[p].docs) > 0
    BY <1>4, <2>1, PagesTyped DEF Contiguous
  <2>5. To(receipts[p]) = receipts[p].from + Len(receipts[p].docs)
    BY DEF To
  <2>6. End(receipts) \in Nat
    BY <1>4, EndOf DEF Contiguous
  <2> QED
    BY ONLY <1>3, <2>2, <2>3, <2>4, <2>5, <2>6
<1> QED
  BY <1>1, <1>5, <1>6

LEMMA PageDocsTyped ==
  ASSUME NEW docs \in PageDocs
  PROVE  docs \in Seq(Documents) /\ Len(docs) \in Nat /\ Len(docs) > 0
<1>1. docs # <<>> /\ docs \in SeqOf(Documents, MaxPage)
  BY DEF PageDocs, BoundedSeq
<1>2. PICK m \in 0..MaxPage : docs \in [1..m -> Documents]
  BY <1>1 DEF SeqOf
<1>3. docs \in Seq(Documents)
  BY <1>2, IntakeAssumption, SeqDef
<1> QED
  BY <1>1, <1>3, LenProperties, EmptySeq

\* A new page carries nothing that was sent.
LEMMA StillSentOnce ==
  ASSUME FeedTyped, SentOnce, NEW page \in FeedPages, IsInjective(page.docs),
         \A n \in 1..Len(page.docs) : page.docs[n] \notin Exported,
         outbox' = Append(outbox, page)
  PROVE  SentOnce'
<1> DEFINE last == Len(outbox)
<1>1. outbox \in Seq(FeedPages) /\ last \in Nat
  BY FeedTypes
<1>2. /\ Len(outbox') = last + 1 /\ outbox'[last + 1] = page
      /\ \A p \in 1..last : outbox'[p] = outbox[p]
  BY <1>1, AppendProperties
<1>3. \A p \in 1..(last + 1) : p # last + 1 => p \in 1..last
  BY <1>1
<1>4. ASSUME NEW p \in 1..last, NEW m \in 1..Len(outbox[p].docs)
      PROVE  outbox[p].docs[m] \in Exported
  <2>1. outbox[p].docs \in Seq(Documents)
    BY <1>1, <1>4, PagesTyped
  <2>2. m \in DOMAIN outbox[p].docs
    BY <2>1, LenProperties
  <2> QED
    BY <2>2 DEF Exported, Range
<1>5. page.docs \in Seq(Documents) /\ DOMAIN page.docs = 1..Len(page.docs)
  BY PageTypes, LenProperties
<1>6. \A m, n \in 1..Len(page.docs) : page.docs[m] = page.docs[n] => m = n
  BY <1>5 DEF IsInjective
<1> HIDE DEF last
<1>7. ASSUME NEW p \in 1..(last + 1), NEW q \in 1..(last + 1),
             NEW m \in 1..Len(outbox'[p].docs), NEW n \in 1..Len(outbox'[q].docs),
             outbox'[p].docs[m] = outbox'[q].docs[n]
      PROVE  p = q /\ m = n
  <2>1. CASE p = last + 1 /\ q = last + 1
    <3>1. m \in 1..Len(page.docs) /\ n \in 1..Len(page.docs)
      BY <1>2, <1>7, <2>1
    <3>2. page.docs[m] = page.docs[n]
      BY <1>2, <1>7, <2>1
    <3> QED
      BY <1>6, <2>1, <3>1, <3>2
  <2>2. CASE p = last + 1 /\ q # last + 1
    <3>1. outbox'[p] = page /\ q \in 1..last /\ outbox'[q] = outbox[q]
      BY <1>2, <1>3, <2>2
    <3>2. page.docs[m] = outbox[q].docs[n] /\ m \in 1..Len(page.docs)
          /\ n \in 1..Len(outbox[q].docs)
      BY <1>7, <3>1
    <3> QED
      BY <1>4, <3>1, <3>2
  <2>3. CASE p # last + 1 /\ q = last + 1
    <3>1. outbox'[q] = page /\ p \in 1..last /\ outbox'[p] = outbox[p]
      BY <1>2, <1>3, <2>3
    <3>2. outbox[p].docs[m] = page.docs[n] /\ n \in 1..Len(page.docs)
          /\ m \in 1..Len(outbox[p].docs)
      BY <1>7, <3>1
    <3> QED
      BY <1>4, <3>1, <3>2
  <2>4. CASE p # last + 1 /\ q # last + 1
    <3>1. /\ p \in 1..last /\ outbox'[p] = outbox[p]
          /\ q \in 1..last /\ outbox'[q] = outbox[q]
      BY <1>2, <1>3, <2>4
    <3> QED
      BY <1>7, <3>1 DEF SentOnce, last
  <2> QED
    BY <2>1, <2>2, <2>3, <2>4
<1> QED
  BY <1>2, <1>7 DEF SentOnce

\* While no importer runs, a feed may change as it likes.
LEMMA NobodyFollows ==
  ASSUME \A i \in Importers : importing[i] = 0, importing' = importing
  PROVE  ImportsFollow'
BY DEF ImportsFollow

LEMMA InboxStays ==
  ASSUME FeedInv, receipts' = receipts, items' = items
  PROVE  ItemsReceived'
<1>1. Cursor' = Cursor /\ (Cursor = End(receipts) => Cursor' = End(receipts'))
  BY DEF Cursor
<1>2. \A k, r, m : Placed(k, r, m) => Placed(k, r, m)'
  BY DEF Placed
<1>3. /\ Cursor = End(receipts)
      /\ \A k \in 1..Cursor : \E r \in 1..Len(receipts) : \E m : Placed(k, r, m)
  BY DEF FeedInv, ItemsReceived
<1>4. ASSUME NEW k \in 1..Cursor'
      PROVE  \E r \in 1..Len(receipts') : \E m : Placed(k, r, m)'
  <2>1. PICK r \in 1..Len(receipts) : \E m : Placed(k, r, m)
    BY <1>1, <1>3, <1>4
  <2>2. PICK m : Placed(k, r, m)
    BY <2>1
  <2>3. Placed(k, r, m)' /\ r \in 1..Len(receipts')
    BY <1>2, <2>2
  <2> QED
    BY <2>3
<1> QED
  BY <1>1, <1>3, <1>4 DEF ItemsReceived

LEMMA ExportFeed ==
  ASSUME FeedInv, NEW docs \in PageDocs, Export(docs)
  PROVE  FeedInv'
<1> DEFINE page == [from |-> End(outbox), docs |-> docs]
<1>1. /\ FeedTyped /\ Contiguous(outbox) /\ outbox \in Seq(FeedPages)
      /\ receipts \in Seq(FeedPages) /\ Len(outbox) \in Nat
      /\ Len(receipts) \in Nat
  BY FeedTypes DEF FeedInv, FeedTyped
<1>2. docs \in Seq(Documents) /\ Len(docs) > 0 /\ End(outbox) \in Nat
  BY <1>1, PageDocsTyped, EndOf
<1>3. page \in FeedPages /\ page.from = End(outbox) /\ page.docs = docs
  BY <1>2 DEF FeedPages
<1>4. /\ outbox' = Append(outbox, page)
      /\ \A i \in Importers : importing[i] = 0
      /\ importing' = importing /\ receipts' = receipts /\ items' = items
      /\ faults' = faults
  BY DEF Export, Inbox
<1>5. /\ IsInjective(page.docs)
      /\ \A n \in 1..Len(page.docs) : page.docs[n] \notin Exported
  BY <1>3 DEF Export
<1> HIDE DEF page
<1>6. Contiguous(Append(outbox, page))
  BY <1>1, <1>2, <1>3, OneMorePage
<1>7. FeedTyped'
  BY <1>1, <1>4, <1>6 DEF FeedTyped
<1>8. SentOnce'
  BY <1>1, <1>3, <1>4, <1>5, StillSentOnce DEF FeedInv
<1>9. ItemsReceived'
  BY <1>4, InboxStays
<1>10. ImportsFollow'
  BY <1>4, NobodyFollows
<1>11. OneHistory'
  <2>1. ASSUME IsPrefix(receipts, outbox) PROVE IsPrefix(receipts, outbox')
    <3>1. /\ Len(receipts) <= Len(outbox)
          /\ \A k \in 1..Len(receipts) : receipts[k] = outbox[k]
      BY <1>1, <2>1, PrefixAt
    <3>2. /\ outbox' \in Seq(FeedPages) /\ Len(outbox') = Len(outbox) + 1
          /\ \A k \in 1..Len(outbox) : outbox'[k] = outbox[k]
      BY <1>1, <1>3, <1>4, AppendProperties
    <3>3. \A k \in 1..Len(receipts) : k \in 1..Len(outbox)
      BY <1>1, <3>1
    <3>4. Len(receipts) <= Len(outbox')
      BY <1>1, <3>1, <3>2
    <3>5. \A k \in 1..Len(receipts) : receipts[k] = outbox'[k]
      BY <3>1, <3>2, <3>3
    <3> QED
      BY <1>1, <3>2, <3>4, <3>5, PrefixFrom
  <2> QED
    BY <1>4, <2>1 DEF FeedInv, OneHistory, Cursor
<1> QED
  BY <1>7, <1>8, <1>9, <1>10, <1>11 DEF FeedInv

LEMMA RewriteFeed ==
  ASSUME FeedInv, Rewrite
  PROVE  FeedInv'
<1>1. /\ FeedTyped /\ Contiguous(outbox) /\ outbox \in Seq(FeedPages)
      /\ Len(outbox) \in Nat /\ faults \in 0..MaxFaults
  BY FeedTypes DEF FeedInv, FeedTyped
<1>2. /\ outbox' = Front(outbox) /\ outbox # <<>>
      /\ \A i \in Importers : importing[i] = 0
      /\ importing' = importing /\ receipts' = receipts /\ items' = items
      /\ faults > 0 /\ faults' = faults - 1
  BY DEF Rewrite, Inbox
<1>3. /\ Contiguous(outbox') /\ Len(outbox') = Len(outbox) - 1
      /\ \A p \in 1..(Len(outbox) - 1) : outbox'[p] = outbox[p]
  BY <1>1, <1>2, OnePageLess
<1>4. faults' \in 0..MaxFaults /\ faults' # MaxFaults
  BY <1>1, <1>2, IntakeAssumption
<1>5. FeedTyped'
  BY <1>1, <1>2, <1>3, <1>4 DEF FeedTyped
<1>6. SentOnce'
  <2>1. \A p \in 1..Len(outbox') : p \in 1..Len(outbox) /\ outbox'[p] = outbox[p]
    BY <1>1, <1>3
  <2> QED
    BY <2>1 DEF FeedInv, SentOnce
<1>7. ItemsReceived'
  BY <1>2, InboxStays
<1>8. ImportsFollow'
  BY <1>2, NobodyFollows
<1>9. OneHistory'
  BY <1>2, <1>4 DEF FeedInv, OneHistory, Cursor
<1> QED
  BY <1>5, <1>6, <1>7, <1>8, <1>9 DEF FeedInv


\* The pages before an importer's stay received as more is.
LEMMA StillFollowed ==
  ASSUME FeedTyped, ImportsFollow, outbox' = outbox, NEW page \in FeedPages,
         receipts' = receipts \/ receipts' = Append(receipts, page),
         NEW i \in Importers, NEW p \in Nat,
         importing' = [importing EXCEPT ![i] = p],
         p # 0 => /\ p <= Len(outbox)
                  /\ \A q \in 1..(p - 1) :
                       q \in 1..Len(receipts') /\ receipts'[q] = outbox[q]
  PROVE  ImportsFollow'
<1>1. receipts \in Seq(FeedPages) /\ Len(receipts) \in Nat
  BY FeedTypes
<1>2. \A q \in 1..Len(receipts) : q \in 1..Len(receipts')
                                    /\ receipts'[q] = receipts[q]
  <2>1. CASE receipts' = receipts
    BY <2>1
  <2>2. CASE receipts' = Append(receipts, page)
    <3>1. /\ Len(receipts') = Len(receipts) + 1
          /\ \A q \in 1..Len(receipts) : receipts'[q] = receipts[q]
      BY <1>1, <2>2, AppendProperties
    <3>2. \A q \in 1..Len(receipts) : q \in 1..Len(receipts')
      BY <1>1, <3>1
    <3> QED
      BY <3>1, <3>2
  <2> QED
    BY <2>1, <2>2
<1>3. ASSUME NEW j \in Importers, importing'[j] # 0
      PROVE  /\ importing'[j] <= Len(outbox')
             /\ \A q \in 1..(importing'[j] - 1) :
                  q \in 1..Len(receipts') /\ receipts'[q] = outbox'[q]
  <2>1. CASE j = i
    <3>1. importing'[j] = p
      BY <2>1 DEF FeedTyped
    <3> QED
      BY <1>3, <3>1
  <2>2. CASE j # i
    <3>1. importing'[j] = importing[j]
      BY <2>2 DEF FeedTyped
    <3>2. /\ importing[j] <= Len(outbox)
          /\ \A q \in 1..(importing[j] - 1) :
               q \in 1..Len(receipts) /\ receipts[q] = outbox[q]
      BY <1>3, <3>1 DEF ImportsFollow
    <3> QED
      BY <1>2, <3>1, <3>2
  <2> QED
    BY <2>1, <2>2
<1> QED
  BY <1>3 DEF ImportsFollow

\* What an import of a new page makes of the receipts and the items.
LEMMA PageReceived ==
  ASSUME FeedInv, outbox' = outbox, NEW p \in 1..Len(outbox),
         Len(receipts) = p - 1,
         \A q \in 1..(p - 1) : receipts[q] = outbox[q],
         outbox[p].from = Cursor,
         receipts' = Append(receipts, outbox[p]),
         items' = items \o outbox[p].docs
  PROVE  /\ Contiguous(receipts') /\ items' \in Seq(Documents)
         /\ Len(receipts') = p /\ \A q \in 1..p : receipts'[q] = outbox[q]
         /\ ItemsReceived'
         /\ \A m, n \in 1..Cursor' : m # n => items'[m] # items'[n]
<1> DEFINE docs == outbox[p].docs
           size == Len(docs)
           here == Cursor
<1>1. /\ outbox \in Seq(FeedPages) /\ receipts \in Seq(FeedPages)
      /\ Contiguous(outbox) /\ Contiguous(receipts)
      /\ Len(outbox) \in Nat /\ Len(receipts) \in Nat /\ here \in Nat
      /\ items \in Seq(Documents)
  BY FeedTypes DEF FeedInv, FeedTyped
<1>2. p \in Nat /\ p # 0
  BY <1>1
<1>3. /\ outbox[p] \in FeedPages /\ docs \in Seq(Documents) /\ size \in Nat
      /\ size > 0 /\ outbox[p].from = End(receipts)
  BY <1>1, PagesTyped DEF Contiguous, FeedInv, ItemsReceived
<1>4. Contiguous(receipts') /\ End(receipts') = To(outbox[p])
  BY <1>1, <1>3, OneMorePage
<1>5. /\ Len(receipts') = p /\ receipts'[p] = outbox[p]
      /\ \A q \in 1..(p - 1) : receipts'[q] = receipts[q]
  <2>1. /\ Len(receipts') = Len(receipts) + 1
        /\ receipts'[Len(receipts) + 1] = outbox[p]
        /\ \A q \in 1..Len(receipts) : receipts'[q] = receipts[q]
    BY <1>1, <1>3, AppendProperties
  <2>2. Len(receipts) + 1 = p
    BY <1>2
  <2> QED
    BY <2>1, <2>2
<1>6. ASSUME NEW q \in 1..p PROVE receipts'[q] = outbox[q]
  <2>1. q # p => q \in 1..(p - 1)
    BY <1>2
  <2> QED
    BY <1>5, <2>1
<1>7. /\ items' \in Seq(Documents) /\ Len(items') = here + size
      /\ \A k \in 1..(here + size) :
           items'[k] = IF k <= here THEN items[k] ELSE docs[k - here]
  <2>1. items \in Seq(Documents) /\ docs \in Seq(Documents)
    BY <1>1, <1>3
  <2> HIDE DEF docs
  <2>2. /\ items \o docs \in Seq(Documents)
        /\ Len(items \o docs) = Len(items) + Len(docs)
        /\ \A k \in 1..(Len(items) + Len(docs)) :
             (items \o docs)[k] =
               IF k <= Len(items) THEN items[k] ELSE docs[k - Len(items)]
    BY ONLY <2>1, ConcatProperties
  <2>3. items' = items \o docs
    BY DEF docs
  <2> QED
    BY ONLY <2>2, <2>3 DEF Cursor
<1>8. Cursor' = here + size
  BY <1>7 DEF Cursor
<1>9. Cursor' = End(receipts')
  BY <1>4, <1>8 DEF To
<1>10. ASSUME NEW k \in 1..(here + size)
       PROVE  \E r \in 1..p : \E m \in 1..Len(outbox[r].docs) :
                /\ k = outbox[r].from + m
                /\ items'[k] = outbox[r].docs[m]
  <2>1. CASE k <= here
    <3>1. k \in 1..Cursor
      BY <1>1, <2>1
    <3>2. PICK r \in 1..Len(receipts) : \E m : Placed(k, r, m)
      BY <3>1 DEF FeedInv, ItemsReceived
    <3>3. PICK m : Placed(k, r, m)
      BY <3>2
    <3>4. r \in 1..(p - 1) /\ r \in 1..p /\ receipts[r] = outbox[r]
      BY <1>2, <3>2
    <3>5. items'[k] = items[k]
      BY <1>7, <1>10, <2>1
    <3>6. m \in 1..Len(outbox[r].docs) /\ k = outbox[r].from + m
          /\ items[k] = outbox[r].docs[m]
      BY <3>3, <3>4 DEF Placed
    <3> QED
      BY <3>4, <3>5, <3>6
  <2>2. CASE ~(k <= here)
    <3>1. k - here \in 1..size /\ k = here + (k - here) /\ p \in 1..p
      BY <1>1, <1>2, <1>3, <1>10, <2>2
    <3>2. items'[k] = docs[k - here]
      BY <1>7, <1>10, <2>2
    <3>3. k = outbox[p].from + (k - here)
      BY <3>1
    <3> QED
      BY <3>1, <3>2, <3>3
  <2> QED
    BY <2>1, <2>2
<1> HIDE DEF docs, size, here
<1>11. ASSUME NEW k \in 1..Cursor'
       PROVE  \E r \in 1..Len(receipts') : \E m : Placed(k, r, m)'
  <2>1. PICK r \in 1..p : \E m \in 1..Len(outbox[r].docs) :
                            /\ k = outbox[r].from + m
                            /\ items'[k] = outbox[r].docs[m]
    BY <1>8, <1>10, <1>11
  <2>2. PICK m \in 1..Len(outbox[r].docs) : /\ k = outbox[r].from + m
                                            /\ items'[k] = outbox[r].docs[m]
    BY <2>1
  <2>3. receipts'[r] = outbox[r] /\ r \in 1..Len(receipts')
    BY <1>5, <1>6
  <2>4. Placed(k, r, m)'
    BY <2>2, <2>3 DEF Placed
  <2> QED
    BY <2>3, <2>4
<1>12. ASSUME NEW k \in 1..Cursor', NEW l \in 1..Cursor', items'[k] = items'[l]
       PROVE  k = l
  <2>1. PICK r \in 1..p : \E m \in 1..Len(outbox[r].docs) :
                            /\ k = outbox[r].from + m
                            /\ items'[k] = outbox[r].docs[m]
    BY <1>8, <1>10, <1>12
  <2>2. PICK m \in 1..Len(outbox[r].docs) : /\ k = outbox[r].from + m
                                            /\ items'[k] = outbox[r].docs[m]
    BY <2>1
  <2>3. PICK s \in 1..p : \E m2 \in 1..Len(outbox[s].docs) :
                            /\ l = outbox[s].from + m2
                            /\ items'[l] = outbox[s].docs[m2]
    BY <1>8, <1>10, <1>12
  <2>4. PICK n \in 1..Len(outbox[s].docs) : /\ l = outbox[s].from + n
                                            /\ items'[l] = outbox[s].docs[n]
    BY <2>3
  <2>5. r \in 1..Len(outbox) /\ s \in 1..Len(outbox)
    BY <1>1, <1>2
  <2>6. outbox[r].docs[m] = outbox[s].docs[n]
    BY <1>12, <2>2, <2>4
  <2>7. r = s /\ m = n
    BY <2>2, <2>4, <2>5, <2>6 DEF FeedInv, SentOnce
  <2> QED
    BY <2>2, <2>4, <2>7
<1>13. ItemsReceived'
  BY ONLY <1>9, <1>11 DEF ItemsReceived
<1>14. \A k, l \in 1..Cursor' : k # l => items'[k] # items'[l]
  BY ONLY <1>12
<1> QED
  BY ONLY <1>4, <1>5, <1>6, <1>7, <1>13, <1>14


LEMMA StartFeed ==
  ASSUME FeedInv, NEW i \in Importers, StartImport(i)
  PROVE  FeedInv'
<1>1. /\ outbox \in Seq(FeedPages) /\ Len(outbox) \in Nat /\ FeedTyped
      /\ importing \in [Importers -> Nat]
  BY FeedTypes DEF FeedInv, FeedTyped
<1>2. /\ outbox' = outbox /\ receipts' = receipts /\ items' = items
      /\ faults' = faults /\ importing' = [importing EXCEPT ![i] = 1]
      /\ outbox # <<>>
  BY DEF StartImport, Inbox, Producer
<1>3. FeedTyped'
  BY <1>1, <1>2 DEF FeedTyped
<1>4. SentOnce'
  BY <1>2 DEF FeedInv, SentOnce
<1>5. ItemsReceived'
  BY <1>2, InboxStays
<1>6. Len(outbox) # 0
  BY <1>1, <1>2, EmptySeq
<1>7. 1 <= Len(outbox) /\ 1..(1 - 1) = {} /\ 1 \in Nat
  BY <1>1, <1>6
<1>8. \A k \in 1..(1 - 1) : k \in 1..Len(receipts') /\ receipts'[k] = outbox[k]
  BY <1>7
<1>9. outbox[1] \in FeedPages
  BY <1>1, <1>7, PagesTyped
<1>10. ImportsFollow'
  BY <1>1, <1>2, <1>7, <1>8, <1>9, StillFollowed DEF FeedInv
<1>11. OneHistory'
  BY <1>2 DEF FeedInv, OneHistory, Cursor
<1> QED
  BY <1>3, <1>4, <1>5, <1>10, <1>11 DEF FeedInv

LEMMA CrashFeed ==
  ASSUME FeedInv, NEW i \in Importers, CrashImport(i)
  PROVE  FeedInv'
<1>1. /\ FeedTyped /\ faults \in 0..MaxFaults
  BY DEF FeedInv, FeedTyped
<1>2. /\ outbox' = outbox /\ receipts' = receipts /\ items' = items
      /\ faults > 0 /\ faults' = faults - 1
      /\ importing' = [importing EXCEPT ![i] = 0]
  BY DEF CrashImport, Inbox, Producer
<1>3. faults' \in 0..MaxFaults /\ faults' # MaxFaults
  BY <1>1, <1>2, IntakeAssumption
<1>4. FeedTyped'
  BY <1>1, <1>2, <1>3 DEF FeedTyped
<1>5. SentOnce'
  BY <1>2 DEF FeedInv, SentOnce
<1>6. ItemsReceived'
  BY <1>2, InboxStays
<1>7. ImportsFollow'
  <2>1. ASSUME NEW j \in Importers, importing'[j] # 0
        PROVE  importing'[j] = importing[j]
    BY <1>1, <1>2, <2>1 DEF FeedTyped
  <2> QED
    BY <1>2, <2>1 DEF FeedInv, ImportsFollow
<1>8. OneHistory'
  BY <1>2, <1>3 DEF FeedInv, OneHistory, Cursor
<1> QED
  BY <1>4, <1>5, <1>6, <1>7, <1>8 DEF FeedInv

\* A page is taken when it comes next, was taken before, or is refused.
LEMMA ImportCases ==
  ASSUME FeedInv, NEW i \in Importers, ImportPage(i)
  PROVE  LET p == importing[i] IN
         /\ p \in 1..Len(outbox) /\ p > 0
         /\ outbox' = outbox /\ faults' = faults
         /\ \/ NextPage(p) /\ receipts' = Append(receipts, outbox[p])
                 /\ items' = items \o outbox[p].docs
            \/ receipts' = receipts /\ items' = items
         /\ \/ importing' = [importing EXCEPT ![i] = 0]
            \/ /\ importing' = [importing EXCEPT ![i] = p + 1]
               /\ p < Len(outbox)
               /\ \/ NextPage(p) /\ receipts' = Append(receipts, outbox[p])
                  \/ Replayed(p)
<1> DEFINE p == importing[i]
<1>1. p \in Nat /\ p > 0
  BY DEF FeedInv, FeedTyped, ImportPage
<1>2. p <= Len(outbox)
  BY <1>1 DEF FeedInv, ImportsFollow
<1>3. p \in 1..Len(outbox)
  BY <1>1, <1>2, FeedTypes DEF FeedInv
<1>4. PICK accepted \in BOOLEAN :
        /\ accepted => NextPage(p) /\ receipts' = Append(receipts, outbox[p])
                         /\ items' = items \o outbox[p].docs
        /\ ~accepted => receipts' = receipts /\ items' = items
        /\ importing' = [importing EXCEPT
                           ![i] = IF (accepted \/ Replayed(p)) /\ p < Len(outbox)
                                  THEN p + 1 ELSE 0]
  <2> DEFINE ok == NextPage(p) /\ ~ApplyPage(outbox[p].docs).refused
  <2>1. /\ ok => NextPage(p) /\ receipts' = Append(receipts, outbox[p])
                   /\ items' = items \o outbox[p].docs
        /\ ~ok => receipts' = receipts /\ items' = items
        /\ importing' = [importing EXCEPT
                           ![i] = IF (ok \/ Replayed(p)) /\ p < Len(outbox)
                                  THEN p + 1 ELSE 0]
    BY DEF ImportPage, Inbox
  <2> HIDE DEF ok
  <2>2. CASE ok
    BY <2>1, <2>2
  <2>3. CASE ~ok
    BY <2>1, <2>3
  <2> QED
    BY <2>2, <2>3
<1>5. outbox' = outbox /\ faults' = faults
  BY DEF ImportPage, Producer
<1> HIDE DEF p
<1>6. \/ importing' = [importing EXCEPT ![i] = 0]
      \/ /\ importing' = [importing EXCEPT ![i] = p + 1]
         /\ p < Len(outbox) /\ (accepted \/ Replayed(p))
  BY <1>4
<1> QED
  BY <1>1, <1>3, <1>4, <1>5, <1>6 DEF p

LEMMA ImportFeed ==
  ASSUME FeedInv, NEW i \in Importers, ImportPage(i)
  PROVE  FeedInv'
<1> DEFINE p == importing[i]
<1>1. /\ p \in 1..Len(outbox) /\ p > 0
      /\ outbox' = outbox /\ faults' = faults
      /\ \/ NextPage(p) /\ receipts' = Append(receipts, outbox[p])
              /\ items' = items \o outbox[p].docs
         \/ receipts' = receipts /\ items' = items
      /\ \/ importing' = [importing EXCEPT ![i] = 0]
         \/ /\ importing' = [importing EXCEPT ![i] = p + 1]
            /\ p < Len(outbox)
            /\ \/ NextPage(p) /\ receipts' = Append(receipts, outbox[p])
               \/ Replayed(p)
  BY ImportCases
<1>2. /\ FeedTyped /\ Contiguous(outbox) /\ Contiguous(receipts)
      /\ outbox \in Seq(FeedPages) /\ Len(outbox) \in Nat
      /\ receipts \in Seq(FeedPages) /\ Len(receipts) \in Nat
      /\ importing \in [Importers -> Nat]
  BY FeedTypes DEF FeedInv, FeedTyped
<1>3. p \in Nat /\ p + 1 \in Nat /\ p # 0 /\ (p + 1) - 1 = p
  BY <1>1, <1>2
<1>4. /\ p <= Len(outbox)
      /\ \A q \in 1..(p - 1) : q \in 1..Len(receipts) /\ receipts[q] = outbox[q]
  BY <1>3 DEF FeedInv, ImportsFollow
<1>5. NextPage(p) => Len(receipts) = p - 1
  BY <1>1, InboxAtPage
<1>6. outbox[p] \in FeedPages
  BY <1>1, <1>2, PagesTyped
<1>7. ASSUME NextPage(p), receipts' = Append(receipts, outbox[p])
      PROVE  \A q \in 1..p : q \in 1..Len(receipts') /\ receipts'[q] = outbox[q]
  <2>1. /\ Len(receipts') = Len(receipts) + 1
        /\ receipts'[Len(receipts) + 1] = outbox[p]
        /\ \A q \in 1..Len(receipts) : receipts'[q] = receipts[q]
    BY <1>2, <1>6, <1>7, AppendProperties
  <2>2. Len(receipts) + 1 = p
    BY <1>3, <1>5, <1>7
  <2>3. \A q \in 1..p : q # p => q \in 1..(p - 1)
    BY <1>3
  <2> QED
    BY <1>3, <1>4, <2>1, <2>2, <2>3
<1>8. ASSUME Replayed(p)
      PROVE  p \in 1..Len(receipts) /\ receipts[p] = outbox[p]
  <2>1. PICK r \in 1..Len(receipts) : receipts[r] = outbox[p]
    BY <1>8 DEF Replayed
  <2>2. r = p
    <3>1. \A a \in 1..Len(receipts), b \in 1..Len(receipts) :
            a < b => receipts[a].from < receipts[b].from
      <4>1. ASSUME NEW a \in 1..Len(receipts), NEW b \in 1..Len(receipts), a < b
            PROVE  receipts[a].from < receipts[b].from
        <5>1. /\ To(receipts[a]) <= receipts[b].from /\ Len(receipts[a].docs) > 0
          BY <1>2, <4>1 DEF Contiguous
        <5>2. /\ receipts[a].from \in Nat /\ receipts[b].from \in Nat
              /\ Len(receipts[a].docs) \in Nat
          BY <1>2, PagesTyped
        <5> QED
          BY ONLY <5>1, <5>2 DEF To
      <4> QED
        BY <4>1
    <3>2. \A a \in 1..Len(outbox), b \in 1..Len(outbox) :
            a < b => outbox[a].from < outbox[b].from
      <4>1. ASSUME NEW a \in 1..Len(outbox), NEW b \in 1..Len(outbox), a < b
            PROVE  outbox[a].from < outbox[b].from
        <5>1. /\ To(outbox[a]) <= outbox[b].from /\ Len(outbox[a].docs) > 0
          BY <1>2, <4>1 DEF Contiguous
        <5>2. /\ outbox[a].from \in Nat /\ outbox[b].from \in Nat
              /\ Len(outbox[a].docs) \in Nat
          BY <1>2, PagesTyped
        <5> QED
          BY ONLY <5>1, <5>2 DEF To
      <4> QED
        BY <4>1
    <3>3. CASE r < p
      <4>1. r \in 1..(p - 1) /\ r \in 1..Len(outbox)
        BY <1>1, <1>2, <1>3, <2>1, <3>3
      <4>2. receipts[r] = outbox[r]
        BY <1>4, <4>1
      <4>3. outbox[r].from < outbox[p].from
        BY <1>1, <3>2, <3>3, <4>1
      <4>4. outbox[r].from \in Nat
        BY <1>2, <4>1, PagesTyped
      <4> QED
        BY <2>1, <4>2, <4>3, <4>4
    <3>4. CASE p < r
      <4>1. p \in 1..Len(receipts) /\ p - 1 \in Nat
        BY <1>2, <1>3, <2>1, <3>4
      <4>2. receipts[p].from = outbox[p].from
        <5>1. CASE p = 1
          BY <1>1, <1>2, <4>1, <5>1 DEF Contiguous
        <5>2. CASE p # 1
          <6>1. p - 1 \in 1..(p - 1)
            BY <1>3, <5>2
          <6>2. receipts[p - 1] = outbox[p - 1]
            BY <1>4, <6>1
          <6>3. receipts[p].from = To(receipts[p - 1])
            BY <1>2, <4>1, <5>2 DEF Contiguous
          <6>4. outbox[p].from = To(outbox[p - 1])
            BY <1>1, <1>2, <5>2 DEF Contiguous
          <6> QED
            BY <6>2, <6>3, <6>4
        <5> QED
          BY <5>1, <5>2
      <4>3. receipts[p].from < receipts[r].from
        BY <2>1, <3>1, <3>4, <4>1
      <4>4. receipts[p].from \in Nat
        BY <1>2, <4>1, PagesTyped
      <4> QED
        BY <2>1, <4>2, <4>3, <4>4
    <3> QED
      BY <1>2, <1>3, <2>1, <3>3, <3>4
  <2> QED
    BY <2>1, <2>2
<1>9. ImportsFollow'
  <2>1. receipts' = receipts \/ receipts' = Append(receipts, outbox[p])
    BY <1>1
  <2>2. CASE importing' = [importing EXCEPT ![i] = 0]
    BY <1>1, <1>2, <1>6, <2>1, <2>2, StillFollowed DEF FeedInv
  <2>3. CASE /\ importing' = [importing EXCEPT ![i] = p + 1]
             /\ p < Len(outbox)
             /\ \/ NextPage(p) /\ receipts' = Append(receipts, outbox[p])
                \/ Replayed(p)
    <3>1. CASE NextPage(p) /\ receipts' = Append(receipts, outbox[p])
      <4>1. \A q \in 1..p : q \in 1..Len(receipts') /\ receipts'[q] = outbox[q]
        BY <1>7, <3>1
      <4>2. p + 1 <= Len(outbox)
        BY <1>2, <1>3, <2>3
      <4>3. \A q \in 1..((p + 1) - 1) :
              q \in 1..Len(receipts') /\ receipts'[q] = outbox[q]
        BY <1>3, <4>1
      <4> HIDE DEF p
      <4> QED
        BY <1>1, <1>2, <1>3, <1>6, <2>1, <2>3, <4>2, <4>3, StillFollowed
           DEF FeedInv
    <3>2. CASE Replayed(p)
      <4>1. p \in 1..Len(receipts) /\ receipts[p] = outbox[p]
        BY <1>8, <3>2
      <4>2. \A q \in 1..Len(receipts) : q \in 1..Len(receipts')
                                          /\ receipts'[q] = receipts[q]
        <5>1. CASE receipts' = receipts
          BY <5>1
        <5>2. CASE receipts' = Append(receipts, outbox[p])
          <6>1. /\ Len(receipts') = Len(receipts) + 1
                /\ \A q \in 1..Len(receipts) : receipts'[q] = receipts[q]
            BY <1>2, <1>6, <5>2, AppendProperties
          <6>2. \A q \in 1..Len(receipts) : q \in 1..Len(receipts')
            BY <1>2, <6>1
          <6> QED
            BY <6>1, <6>2
        <5> QED
          BY <2>1, <5>1, <5>2
      <4>3. \A q \in 1..p : q # p => q \in 1..(p - 1)
        BY <1>3
      <4>4. \A q \in 1..((p + 1) - 1) :
              q \in 1..Len(receipts') /\ receipts'[q] = outbox[q]
        BY <1>3, <1>4, <4>1, <4>2, <4>3
      <4>5. p + 1 <= Len(outbox)
        BY <1>2, <1>3, <2>3
      <4> HIDE DEF p
      <4> QED
        BY <1>1, <1>2, <1>3, <1>6, <2>1, <2>3, <4>4, <4>5, StillFollowed
           DEF FeedInv
    <3> QED
      BY <2>3, <3>1, <3>2
  <2> QED
    BY <1>1, <2>2, <2>3
<1>10. importing' \in [Importers -> Nat]
  <2>1. CASE importing' = [importing EXCEPT ![i] = 0]
    BY <1>2, <2>1
  <2>2. CASE importing' = [importing EXCEPT ![i] = p + 1]
    BY <1>2, <1>3, <2>2
  <2> QED
    BY <1>1, <2>1, <2>2
<1>11. SentOnce'
  BY <1>1 DEF FeedInv, SentOnce
<1>12. CASE NextPage(p) /\ receipts' = Append(receipts, outbox[p])
              /\ items' = items \o outbox[p].docs
  <2>1. \A q \in 1..(p - 1) : receipts[q] = outbox[q]
    BY <1>4
  <2>2. outbox[p].from = Cursor /\ Len(receipts) = p - 1
    BY <1>5, <1>12 DEF NextPage
  <2>3. /\ Contiguous(receipts') /\ items' \in Seq(Documents)
        /\ Len(receipts') = p /\ \A q \in 1..p : receipts'[q] = outbox[q]
        /\ ItemsReceived'
        /\ \A m, n \in 1..Cursor' : m # n => items'[m] # items'[n]
    BY <1>1, <1>12, <2>1, <2>2, PageReceived
  <2>4. FeedTyped'
    BY <1>1, <1>2, <1>10, <2>3 DEF FeedTyped
  <2>5. receipts' \in Seq(FeedPages) /\ outbox' \in Seq(FeedPages)
    BY <1>1, <1>2, <2>3 DEF Contiguous
  <2>6. Len(receipts') <= Len(outbox') /\ \A q \in 1..Len(receipts') : receipts'[q] = outbox'[q]
    BY <1>1, <1>4, <2>3
  <2>7. IsPrefix(receipts', outbox')
    BY <2>5, <2>6, PrefixFrom
  <2>8. OneHistory'
    BY <2>3, <2>7 DEF OneHistory
  <2> QED
    BY <1>9, <1>11, <2>3, <2>4, <2>8 DEF FeedInv
<1>13. CASE receipts' = receipts /\ items' = items
  <2>1. ItemsReceived'
    BY <1>13, InboxStays
  <2>2. FeedTyped'
    BY <1>1, <1>2, <1>10, <1>13 DEF FeedTyped
  <2>3. OneHistory'
    BY <1>1, <1>13 DEF FeedInv, OneHistory, Cursor
  <2> QED
    BY <1>9, <1>11, <2>1, <2>2, <2>3 DEF FeedInv
<1> QED
  BY <1>1, <1>12, <1>13


FeedStays == /\ outbox' = outbox /\ importing' = importing
             /\ receipts' = receipts /\ items' = items /\ faults' = faults

LEMMA NextFeed == FeedInv /\ [Next]_vars => FeedInv'
<1> SUFFICES ASSUME FeedInv, [Next]_vars PROVE FeedInv'
  OBVIOUS
<1>1. ASSUME NEW docs \in PageDocs, Export(docs) PROVE FeedInv'
  BY <1>1, ExportFeed
<1>2. ASSUME Rewrite PROVE FeedInv'
  BY <1>2, RewriteFeed
<1>3. ASSUME Import PROVE FeedInv'
  <2>1. PICK i \in Importers : StartImport(i) \/ ImportPage(i)
    BY <1>3 DEF Import
  <2> QED
    BY <2>1, StartFeed, ImportFeed
<1>4. ASSUME NEW i \in Importers, CrashImport(i) PROVE FeedInv'
  BY <1>4, CrashFeed
<1>5. ASSUME FeedStays PROVE FeedInv'
  <2>1. FeedTyped' /\ SentOnce' /\ ImportsFollow' /\ OneHistory'
    BY <1>5 DEF FeedStays, FeedInv, FeedTyped, SentOnce, ImportsFollow,
                OneHistory, Cursor
  <2>2. ItemsReceived'
    BY <1>5, InboxStays DEF FeedStays
  <2> QED
    BY <2>1, <2>2 DEF FeedInv
<1>6. ASSUME NEW doc \in Documents, NEW disposition \in Dispositions \ {"none"},
             ImportObservation(doc, disposition)
      PROVE  FeedStays
  BY <1>6 DEF ImportObservation, FeedStays, Producer, Inbox
<1>7. BootstrapReads => FeedStays
  BY DEF BootstrapReads, FeedStays, Producer, Inbox
<1>8. ASSUME NEW equivalent, BootstrapWrites(equivalent) PROVE FeedStays
  BY <1>8 DEF BootstrapWrites, FeedStays, Producer, Inbox
<1>9. RefuseDivergent => FeedStays
  BY DEF RefuseDivergent, FeedStays, Producer, Inbox
<1>10. Activate => FeedStays
  BY DEF Activate, FeedStays, Producer, Inbox
<1>11. NativePass => FeedStays
  BY DEF NativePass, FeedStays, Producer, Inbox
<1>12. ASSUME NEW t, NEW how, \/ ReaderCloses(t, how) \/ ReaderReopens(t)
                              \/ WorkBegins(t, how) \/ WorkCompletes(t)
       PROVE  FeedStays
  BY <1>12 DEF ReaderCloses, ReaderReopens, WorkBegins, WorkCompletes,
               FeedStays, Producer, Inbox
<1>13. UNCHANGED vars => FeedStays
  BY DEF vars, FeedStays
<1> QED
  BY <1>1, <1>2, <1>3, <1>4, <1>5, <1>6, <1>7, <1>8, <1>9, <1>10, <1>11, <1>12,
     <1>13 DEF Next

LEMMA AlwaysFeed == Spec => []FeedInv
BY InitFeed, NextFeed, PTL DEF Spec

\* The inbox holds one history of the producer: whatever two importers, their
\* crashes and a producer that loses its last page do, import_feed takes no
\* page twice, none out of its turn, and skips none.
THEOREM InboxIsOneHistory == Spec => []OneHistory
<1>1. FeedInv => OneHistory
  BY DEF FeedInv
<1> QED
  BY <1>1, AlwaysFeed, PTL

-----------------------------------------------------------------------------
(* What is computed item by item.  A page and a pass are functions of the  *)
(* number of items taken, each value from the one before.                  *)

\* Whatever holds 0, and with a number its successor, holds all of them.
LEMMA SetInduction ==
  ASSUME NEW S, 0 \in S, \A n \in S \cap Nat : n + 1 \in S
  PROVE  Nat \subseteq S
<1> DEFINE missing == Nat \ S
           less == {p \in Nat \X Nat : p[1] < p[2]}
<1>1. SUFFICES ASSUME missing # {} PROVE FALSE
  OBVIOUS
<1>2. IsWellFoundedOn(less, Nat)
  BY NatLessThanWellFounded DEF OpToRel
<1>3. missing \subseteq Nat
  OBVIOUS
<1> HIDE DEF missing, less
<1>4. PICK n \in missing : \A m \in missing : ~(<<m, n>> \in less)
  BY ONLY <1>1, <1>2, <1>3, WFMin, Zenon
<1>5. \A m \in missing : ~(m < n)
  BY ONLY <1>3, <1>4 DEF less
<1>6. n # 0 /\ n \in Nat
  BY <1>3 DEF missing
<1>7. n - 1 \in Nat /\ n - 1 < n /\ (n - 1) + 1 = n
  BY ONLY <1>6
<1>8. n - 1 \notin missing
  BY <1>5, <1>7
<1>9. n - 1 \in S
  BY <1>7, <1>8 DEF missing
<1>10. n \in S
  BY <1>7, <1>9
<1> QED
  BY <1>10 DEF missing

\* A function that is given at 0, and at each number by its value before.
Computes(f, N, V, start, step) ==
    /\ f \in [0..N -> V] /\ f[0] = start
    /\ \A n \in 1..N : f[n] = step[n][f[n - 1]]

LEMMA StepByStep ==
  ASSUME NEW N \in Nat, NEW V, NEW start \in V, NEW step \in [1..N -> [V -> V]]
  PROVE  \E f : Computes(f, N, V, start, step)
<1> DEFINE Begins(f, m) == /\ f[0] = start
                           /\ \A n \in 1..m : f[n] = step[n][f[n - 1]]
           S == {m \in Nat : m <= N => \E f \in [0..m -> V] : Begins(f, m)}
<1>1. 0 \in S
  <2> DEFINE f == [n \in 0..0 |-> start]
  <2>1. f \in [0..0 -> V] /\ f[0] = start /\ 1..0 = {}
    OBVIOUS
  <2>2. Begins(f, 0)
    BY <2>1
  <2> QED
    BY <2>1, <2>2
<1>2. ASSUME NEW m \in S \cap Nat PROVE m + 1 \in S
  <2>1. SUFFICES ASSUME m + 1 <= N
                 PROVE  \E f \in [0..(m + 1) -> V] : Begins(f, m + 1)
    BY <1>2
  <2>2. m \in Nat /\ m <= N /\ m \in 0..m /\ 0 \in 0..m /\ m + 1 \in 1..N
        /\ 0 # m + 1 /\ 0 \in 0..(m + 1)
    BY <1>2, <2>1
  <2>3. PICK g \in [0..m -> V] : Begins(g, m)
    BY <1>2, <2>2
  <2> DEFINE h == [n \in 0..(m + 1) |-> IF n = m + 1 THEN step[m + 1][g[m]] ELSE g[n]]
  <2>4. \A n \in 0..(m + 1) : n # m + 1 => n \in 0..m
    BY <2>2
  <2>5. step[m + 1][g[m]] \in V
    BY <2>2, <2>3
  <2>6. h \in [0..(m + 1) -> V]
    BY <2>3, <2>4, <2>5
  <2>7. h[0] = start
    BY <2>2, <2>3
  <2>8. ASSUME NEW n \in 1..(m + 1) PROVE h[n] = step[n][h[n - 1]]
    <3>1. n \in 0..(m + 1) /\ n - 1 \in 0..(m + 1) /\ n - 1 # m + 1
      BY <2>2
    <3>2. h[n - 1] = g[n - 1]
      BY <3>1
    <3>3. CASE n = m + 1
      <4>1. n - 1 = m
        BY <2>2, <3>3
      <4>2. h[n] = step[m + 1][g[m]]
        BY <3>1, <3>3
      <4> HIDE DEF h
      <4> QED
        BY <3>2, <3>3, <4>1, <4>2
    <3>4. CASE n # m + 1
      <4>1. n \in 1..m /\ h[n] = g[n]
        BY <2>2, <3>1, <3>4
      <4>2. g[n] = step[n][g[n - 1]]
        BY <2>3, <4>1
      <4> HIDE DEF h
      <4> QED
        BY <3>2, <4>1, <4>2
    <3> QED
      BY <3>3, <3>4
  <2> HIDE DEF h
  <2> QED
    BY <2>6, <2>7, <2>8
<1>3. N \in S
  <2> HIDE DEF S
  <2> QED
    BY <1>1, <1>2, SetInduction
<1> QED
  BY <1>3 DEF Computes

\* What holds at the start, and after each of the first N steps if it did
\* before it, holds all the way.
LEMMA AllTheWay ==
  ASSUME NEW N \in Nat, NEW S, 0 \in S, \A n \in 1..N : n - 1 \in S => n \in S
  PROVE  0..N \subseteq S
<1> DEFINE T == {m \in Nat : m <= N => m \in S}
<1>1. 0 \in T
  OBVIOUS
<1>2. ASSUME NEW m \in T \cap Nat PROVE m + 1 \in T
  <2>1. CASE m + 1 <= N
    <3>1. m \in S /\ m + 1 \in 1..N /\ (m + 1) - 1 = m /\ m + 1 \in Nat
      BY <1>2, <2>1
    <3> QED
      BY <3>1
  <2>2. CASE ~(m + 1 <= N)
    BY <1>2, <2>2
  <2> QED
    BY <2>1, <2>2
<1>3. Nat \subseteq T
  <2> HIDE DEF T
  <2> QED
    BY <1>1, <1>2, SetInduction
<1> QED
  BY <1>3

-----------------------------------------------------------------------------
(* A page applied                                                          *)

Tables == [history : SUBSET Documents,
           current : [Candidates -> Documents \cup {None}], refused : BOOLEAN]

LEMMA ApplyTyped ==
  ASSUME NEW table \in Tables, NEW doc \in Documents
  PROVE  /\ ApplyCandidate(table, doc) \in Tables
         /\ ~ApplyCandidate(table, doc).refused /\ doc \notin table.history =>
              /\ ~table.refused
              /\ ApplyCandidate(table, doc).history = table.history \cup {doc}
              /\ ApplyCandidate(table, doc).current
                   = [table.current EXCEPT ![doc.cand] = doc]
<1> DEFINE took == [table EXCEPT !.history = @ \cup {doc}, !.current[doc.cand] = doc]
           stop == [table EXCEPT !.refused = TRUE]
           Revisions == Documents \cup {None}
<1>1. Tables = [history : SUBSET Documents, current : [Candidates -> Revisions],
                refused : BOOLEAN]
  BY DEF Tables
<1>2. doc \in Revisions /\ doc.cand \in Candidates
  BY DEF Candidates
<1>3. table \in [history : SUBSET Documents, current : [Candidates -> Revisions],
                 refused : BOOLEAN]
  BY <1>1
<1> HIDE DEF Revisions
<1>4. /\ stop \in [history : SUBSET Documents, current : [Candidates -> Revisions],
                   refused : BOOLEAN]
      /\ stop.refused
  BY ONLY <1>3
<1>5. /\ took \in [history : SUBSET Documents, current : [Candidates -> Revisions],
                   refused : BOOLEAN]
      /\ took.history = table.history \cup {doc}
      /\ took.current = [table.current EXCEPT ![doc.cand] = doc]
  BY ONLY <1>2, <1>3, doc \in Documents
<1> HIDE DEF took, stop
<1>6. \/ ApplyCandidate(table, doc) = stop
      \/ ~table.refused /\ doc \in table.history /\ ApplyCandidate(table, doc) = table
      \/ ~table.refused /\ ApplyCandidate(table, doc) = took
  BY DEF ApplyCandidate, took, stop
<1> QED
  BY <1>1, <1>3, <1>4, <1>5, <1>6

\* The page one document after another.
LEMMA PageSteps ==
  ASSUME NEW docs \in Seq(Documents), history \subseteq Documents,
         current \in [Candidates -> Documents \cup {None}]
  PROVE  \E f \in [0..Len(docs) -> Tables] :
           /\ f[0] = [history |-> history, current |-> current, refused |-> FALSE]
           /\ \A n \in 1..Len(docs) : f[n] = ApplyCandidate(f[n - 1], docs[n])
           /\ ApplyPage(docs) = f[Len(docs)]
<1> DEFINE N == Len(docs)
           start == [history |-> history, current |-> current, refused |-> FALSE]
           Rule(f) == [n \in 0..N |-> IF n = 0 THEN start
                                      ELSE ApplyCandidate(f[n - 1], docs[n])]
           step == [n \in 1..N |-> [t \in Tables |-> ApplyCandidate(t, docs[n])]]
           g == CHOOSE f : f = Rule(f)
<1>1. N \in Nat /\ start \in Tables /\ \A n \in 1..N : docs[n] \in Documents
  BY LenProperties, ElementOfSeq DEF Tables
<1>2. step \in [1..N -> [Tables -> Tables]]
  BY <1>1, ApplyTyped
<1>3. ApplyPage(docs) = g[N]
  BY DEF ApplyPage
<1> HIDE DEF N, start
<1>4. PICK f : f \in [0..N -> Tables] /\ f[0] = start
               /\ \A n \in 1..N : f[n] = step[n][f[n - 1]]
  <2> HIDE DEF step
  <2>1. \E f : Computes(f, N, Tables, start, step)
    BY ONLY <1>1, <1>2, StepByStep
  <2> QED
    BY <2>1 DEF Computes
<1>5. \A n \in 0..N : n # 0 => n \in 1..N /\ n - 1 \in 0..N
  BY <1>1
<1>6. \A n \in 1..N : f[n] = ApplyCandidate(f[n - 1], docs[n])
  <2>1. ASSUME NEW n \in 1..N PROVE f[n] = ApplyCandidate(f[n - 1], docs[n])
    <3>1. n - 1 \in 0..N
      BY <1>1
    <3> QED
      BY <1>4, <3>1
  <2> QED
    BY <2>1
<1>7. f = Rule(f)
  BY <1>4, <1>5, <1>6
<1>8. g = Rule(g)
  <2> HIDE DEF Rule
  <2> QED
    BY <1>7
<1>9. g[0] = start /\ \A n \in 1..N : g[n] = ApplyCandidate(g[n - 1], docs[n])
  <2>1. 0 \in 0..N /\ \A n \in 1..N : n \in 0..N /\ n # 0
    BY <1>1
  <2> HIDE DEF g
  <2> QED
    BY <1>8, <2>1
<1> HIDE DEF g
<1>10. 0..N \subseteq {n \in 0..N : g[n] = f[n]}
  <2> DEFINE S == {n \in 0..N : g[n] = f[n]}
  <2>1. 0 \in S
    BY <1>1, <1>4, <1>9
  <2>2. ASSUME NEW n \in 1..N, n - 1 \in S PROVE n \in S
    <3>1. g[n - 1] = f[n - 1] /\ n \in 0..N
      BY <1>1, <2>2
    <3> QED
      BY <1>6, <1>9, <3>1
  <2> HIDE DEF S
  <2> QED
    BY <1>1, <2>1, <2>2, AllTheWay DEF S
<1>11. g[N] = f[N]
  BY <1>1, <1>10
<1> QED
  BY <1>3, <1>4, <1>6, <1>11 DEF N, start

-----------------------------------------------------------------------------
(* The inbox is what its items say: its history is the revisions it was    *)
(* given, and current is for each candidate the last of them.              *)

Seen(list, top) == {list[k] : k \in 1..top}

NewestOf(now, list, top) ==
    \A c \in Candidates :
      \/ now[c] = None /\ \A k \in 1..top : list[k].cand # c
      \/ \E k \in 1..top : /\ list[k] = now[c] /\ list[k].cand = c
                           /\ \A m \in 1..top : m > k => list[m].cand # c

InboxInv ==
    /\ current \in [Candidates -> Documents \cup {None}]
    /\ history = Seen(items, Cursor)
    /\ NewestOf(current, items, Cursor)

\* next is what now becomes with one more item of the list.
OneMore(list, top, now, doc, next) ==
    /\ top \in Nat /\ now \in [Candidates -> Documents \cup {None}]
    /\ NewestOf(now, list, top)
    /\ doc \in Documents /\ list[top + 1] = doc
    /\ \A c \in Candidates : next[c] = IF c = doc.cand THEN doc ELSE now[c]

LEMMA OneMoreItem ==
  ASSUME NEW list, NEW top, NEW now, NEW doc, NEW next,
         OneMore(list, top, now, doc, next)
  PROVE  /\ NewestOf(next, list, top + 1)
         /\ Seen(list, top + 1) = Seen(list, top) \cup {doc}
<1> /\ top \in Nat /\ now \in [Candidates -> Documents \cup {None}]
    /\ NewestOf(now, list, top)
    /\ doc \in Documents /\ list[top + 1] = doc
    /\ \A c \in Candidates : next[c] = IF c = doc.cand THEN doc ELSE now[c]
  BY DEF OneMore
<1>1. \A k \in 1..(top + 1) : k # top + 1 => k \in 1..top
  OBVIOUS
<1>2. top + 1 \in 1..(top + 1) /\ \A k \in 1..top : k \in 1..(top + 1) /\ k < top + 1
  OBVIOUS
<1>3. Seen(list, top + 1) = Seen(list, top) \cup {doc}
  BY <1>1, <1>2 DEF Seen
<1>4. ASSUME NEW c \in Candidates
      PROVE  \/ next[c] = None /\ \A k \in 1..(top + 1) : list[k].cand # c
             \/ \E k \in 1..(top + 1) :
                  /\ list[k] = next[c] /\ list[k].cand = c
                  /\ \A m \in 1..(top + 1) : m > k => list[m].cand # c
  <2>1. CASE c = doc.cand
    <3>1. next[c] = doc
      BY <2>1
    <3>2. \A m \in 1..(top + 1) : ~(m > top + 1)
      OBVIOUS
    <3> QED
      BY <1>2, <2>1, <3>1, <3>2
  <2>2. CASE c # doc.cand
    <3>1. next[c] = now[c] /\ list[top + 1].cand # c
      BY <2>2
    <3>2. CASE now[c] = None /\ \A k \in 1..top : list[k].cand # c
      BY <1>1, <3>1, <3>2
    <3>3. CASE \E k \in 1..top : /\ list[k] = now[c] /\ list[k].cand = c
                                 /\ \A m \in 1..top : m > k => list[m].cand # c
      <4>1. PICK k \in 1..top : /\ list[k] = now[c] /\ list[k].cand = c
                                /\ \A m \in 1..top : m > k => list[m].cand # c
        BY <3>3
      <4>2. \A m \in 1..(top + 1) : m > k => list[m].cand # c
        BY <1>1, <3>1, <4>1
      <4>3. k \in 1..(top + 1) /\ list[k] = next[c]
        BY <1>2, <3>1, <4>1
      <4> QED
        BY <4>1, <4>2, <4>3
    <3> QED
      BY <3>2, <3>3 DEF NewestOf
  <2> QED
    BY <2>1, <2>2
<1>5. NewestOf(next, list, top + 1)
  BY <1>4 DEF NewestOf
<1> QED
  BY <1>3, <1>5

LEMMA PageNewest ==
  ASSUME FeedInv, FeedInv', InboxInv, NEW docs \in Seq(Documents),
         items' = items \o docs, ~ApplyPage(docs).refused
  PROVE  /\ ApplyPage(docs) \in Tables
         /\ ApplyPage(docs).history = Seen(items', Cursor')
         /\ NewestOf(ApplyPage(docs).current, items', Cursor')
<1> DEFINE N == Len(docs)
           here == Cursor
<1>1. /\ items \in Seq(Documents) /\ items' \in Seq(Documents)
      /\ here \in Nat /\ N \in Nat
      /\ current \in [Candidates -> Documents \cup {None}]
  BY FeedTypes, LenProperties DEF FeedInv, FeedTyped, InboxInv
<1>2. \A n \in 1..N : docs[n] \in Documents
  BY ElementOfSeq
<1>3. /\ Len(items') = here + N
      /\ \A k \in 1..(here + N) :
           items'[k] = IF k <= here THEN items[k] ELSE docs[k - here]
  <2> HIDE DEF N, here
  <2>1. /\ Len(items \o docs) = Len(items) + Len(docs)
        /\ \A k \in 1..(Len(items) + Len(docs)) :
             (items \o docs)[k] =
               IF k <= Len(items) THEN items[k] ELSE docs[k - Len(items)]
    BY ONLY <1>1, docs \in Seq(Documents), ConcatProperties
  <2> QED
    BY ONLY <2>1, items' = items \o docs DEF Cursor, N, here
<1>4. Cursor' = here + N
  BY <1>3 DEF Cursor
<1>5. \A k \in 1..here : items'[k] = items[k]
  <2>1. \A k \in 1..here : k \in 1..(here + N) /\ k <= here
    BY <1>1
  <2> QED
    BY <1>3, <2>1
<1>6. \A n \in 1..N : items'[here + n] = docs[n]
  <2>1. \A n \in 1..N : /\ here + n \in 1..(here + N) /\ ~(here + n <= here)
                        /\ (here + n) - here = n
    BY <1>1
  <2> QED
    BY <1>3, <2>1
<1>7. history = Seen(items', here) /\ NewestOf(current, items', here)
  <2>1. Seen(items', here) = Seen(items, here)
    BY <1>5 DEF Seen
  <2>2. NewestOf(current, items, here) => NewestOf(current, items', here)
    <3>1. ASSUME NEW c, current[c] = None /\ \A k \in 1..here : items[k].cand # c
          PROVE  current[c] = None /\ \A k \in 1..here : items'[k].cand # c
      BY <1>5, <3>1
    <3>2. ASSUME NEW c, \E k \in 1..here :
                          /\ items[k] = current[c] /\ items[k].cand = c
                          /\ \A m \in 1..here : m > k => items[m].cand # c
          PROVE  \E k \in 1..here :
                   /\ items'[k] = current[c] /\ items'[k].cand = c
                   /\ \A m \in 1..here : m > k => items'[m].cand # c
      BY <1>5, <3>2
    <3> HIDE DEF here
    <3> QED
      BY ONLY <3>1, <3>2 DEF NewestOf
  <2> QED
    BY <2>1, <2>2 DEF InboxInv
<1>8. history \subseteq Documents
  <2>1. \A k \in 1..here : items[k] \in Documents
    BY <1>1, ElementOfSeq DEF Cursor
  <2> QED
    BY <2>1 DEF InboxInv, Seen
<1>9. PICK f : /\ f \in [0..N -> Tables]
               /\ f[0] = [history |-> history, current |-> current, refused |-> FALSE]
               /\ \A n \in 1..N : f[n] = ApplyCandidate(f[n - 1], docs[n])
               /\ ApplyPage(docs) = f[N]
  BY <1>1, <1>8, PageSteps
<1> HIDE DEF N, here
<1>10. \A m, n \in 1..Cursor' : m # n => items'[m] # items'[n]
  BY DEF FeedInv, OneHistory
<1> DEFINE Right(n) == ~f[n].refused =>
                         /\ f[n].history = Seen(items', here + n)
                         /\ NewestOf(f[n].current, items', here + n)
           S == {n \in 0..N : Right(n)}
<1>11. 0 \in S
  <2>1. here + 0 = here /\ 0 \in 0..N
    BY <1>1
  <2>2. f[0].history = history /\ f[0].current = current
    BY <1>9
  <2> QED
    BY <1>7, <2>1, <2>2
<1>12. ASSUME NEW n \in 1..N, n - 1 \in S PROVE n \in S
  <2> DEFINE a == f[n - 1]
             doc == docs[n]
  <2>1. n \in 0..N /\ n - 1 \in 0..N
    BY <1>1
  <2>2. a \in Tables /\ doc \in Documents /\ f[n] = ApplyCandidate(a, doc)
    BY <1>2, <1>9, <2>1
  <2>3. Right(n - 1)
    BY <1>12
  <2>4. SUFFICES ASSUME ~f[n].refused
                 PROVE  /\ f[n].history = Seen(items', here + n)
                        /\ NewestOf(f[n].current, items', here + n)
    BY <2>1
  <2>5. here + (n - 1) \in Nat /\ (here + (n - 1)) + 1 = here + n
    BY <1>1
  <2>6. items'[here + n] = doc
    BY <1>6
  <2>7. ASSUME a.history = Seen(items', here + (n - 1)) PROVE doc \notin a.history
    <3>1. \A k \in 1..(here + (n - 1)) : /\ k \in 1..Cursor' /\ here + n \in 1..Cursor'
                                         /\ k # here + n
      BY <1>1, <1>4
    <3>2. \A k \in 1..(here + (n - 1)) : items'[k] # doc
      BY <1>10, <2>6, <3>1
    <3> QED
      BY <2>7, <3>2 DEF Seen
  <2>8. \/ ~a.refused
        \/ a.refused /\ f[n].refused
    BY <2>2 DEF ApplyCandidate, Tables
  <2>9. ~a.refused
    BY <2>4, <2>8
  <2>10. /\ a.history = Seen(items', here + (n - 1))
         /\ NewestOf(a.current, items', here + (n - 1))
    BY <2>3, <2>9
  <2> HIDE DEF a, doc
  <2>11. /\ f[n].history = a.history \cup {doc}
         /\ f[n].current = [a.current EXCEPT ![doc.cand] = doc]
    <3>1. doc \notin a.history
      BY <2>7, <2>10
    <3> QED
      BY ONLY <2>2, <2>4, <3>1, ApplyTyped
  <2>12. a.current \in [Candidates -> Documents \cup {None}]
    BY <2>2 DEF Tables
  <2>13. items'[(here + (n - 1)) + 1] = doc
    BY <2>5, <2>6
  <2>14. PICK top \in Nat : top = here + (n - 1)
    BY <2>5
  <2>15. /\ items'[top + 1] = doc /\ top + 1 = here + n
         /\ NewestOf(a.current, items', top) /\ a.history = Seen(items', top)
    BY <2>5, <2>10, <2>13, <2>14
  <2>16. \A c \in Candidates :
           f[n].current[c] = IF c = doc.cand THEN doc ELSE a.current[c]
    BY <2>11, <2>12
  <2>17. PICK now, next : now = a.current /\ next = f[n].current
    OBVIOUS
  <2>18. /\ now \in [Candidates -> Documents \cup {None}] /\ doc \in Documents
         /\ NewestOf(now, items', top) /\ items'[top + 1] = doc
         /\ \A c \in Candidates : next[c] = IF c = doc.cand THEN doc ELSE now[c]
    BY <2>2, <2>12, <2>15, <2>16, <2>17
  <2>19. /\ NewestOf(next, items', top + 1)
         /\ Seen(items', top + 1) = Seen(items', top) \cup {doc}
    <3>1. PICK list : list = items'
      OBVIOUS
    <3>2. /\ top \in Nat /\ now \in [Candidates -> Documents \cup {None}]
          /\ NewestOf(now, list, top) /\ doc \in Documents /\ list[top + 1] = doc
          /\ \A c \in Candidates : next[c] = IF c = doc.cand THEN doc ELSE now[c]
      BY ONLY <2>14, <2>18, <3>1, Zenon
    <3>3. OneMore(list, top, now, doc, next)
      BY ONLY <3>2, Zenon DEF OneMore
    <3>4. /\ NewestOf(next, list, top + 1)
          /\ Seen(list, top + 1) = Seen(list, top) \cup {doc}
      BY ONLY <3>3, OneMoreItem
    <3> QED
      BY ONLY <3>1, <3>4, Zenon
  <2>20. /\ NewestOf(next, items', here + n)
         /\ Seen(items', here + n) = Seen(items', top) \cup {doc}
    BY ONLY <2>15, <2>19, Zenon
  <2> QED
    BY ONLY <2>11, <2>15, <2>17, <2>20
<1>13. N \in S
  <2> HIDE DEF S
  <2>0. N \in Nat /\ 0 \in S /\ \A n \in 1..N : n - 1 \in S => n \in S
    BY <1>1, <1>11, <1>12
  <2>1. 0..N \subseteq S
    BY ONLY <2>0, AllTheWay
  <2> QED
    BY <1>1, <2>1
<1>14. f[N] \in Tables
  BY <1>1, <1>9
<1> QED
  BY <1>4, <1>9, <1>13, <1>14

InboxStaysToo == /\ items' = items /\ history' = history /\ current' = current

LEMMA InboxUnmoved ==
  ASSUME InboxInv, InboxStaysToo
  PROVE  InboxInv'
<1>1. Cursor' = Cursor
  BY DEF InboxStaysToo, Cursor
<1> QED
  BY <1>1 DEF InboxInv, InboxStaysToo

LEMMA ImportInbox ==
  ASSUME FeedInv, FeedInv', InboxInv, NEW i \in Importers, ImportPage(i)
  PROVE  InboxInv'
<1> DEFINE p    == importing[i]
           docs == outbox[p].docs
<1>1. docs \in Seq(Documents)
  <2>1. p \in 1..Len(outbox) /\ outbox \in Seq(FeedPages)
    BY ImportCases, FeedTypes DEF FeedInv
  <2> QED
    BY <2>1, PagesTyped
<1> HIDE DEF docs
<1>2. \/ /\ items' = items \o docs /\ ~ApplyPage(docs).refused
         /\ history' = ApplyPage(docs).history
         /\ current' = ApplyPage(docs).current
      \/ InboxStaysToo
  BY DEF ImportPage, Inbox, InboxStaysToo, docs
<1>3. CASE /\ items' = items \o docs /\ ~ApplyPage(docs).refused
           /\ history' = ApplyPage(docs).history
           /\ current' = ApplyPage(docs).current
  <2>1. /\ ApplyPage(docs) \in Tables
        /\ ApplyPage(docs).history = Seen(items', Cursor')
        /\ NewestOf(ApplyPage(docs).current, items', Cursor')
    BY <1>1, <1>3, PageNewest
  <2>2. ApplyPage(docs).current \in [Candidates -> Documents \cup {None}]
    BY <2>1 DEF Tables
  <2> QED
    BY <1>3, <2>1, <2>2 DEF InboxInv
<1> QED
  BY <1>2, <1>3, InboxUnmoved

\* Every step but an import leaves the inbox alone.
LEMMA NextInbox == FeedInv /\ FeedInv' /\ InboxInv /\ [Next]_vars => InboxInv'
<1> SUFFICES ASSUME FeedInv, FeedInv', InboxInv, [Next]_vars PROVE InboxInv'
  OBVIOUS
<1>1. ASSUME NEW i \in Importers, ImportPage(i) PROVE InboxInv'
  BY <1>1, ImportInbox
<1>2. ASSUME NEW i \in Importers, StartImport(i) \/ CrashImport(i)
      PROVE  InboxStaysToo
  BY <1>2 DEF StartImport, CrashImport, InboxStaysToo, Inbox
<1>3. ASSUME NEW docs, Export(docs) PROVE InboxStaysToo
  BY <1>3 DEF Export, InboxStaysToo, Inbox
<1>4. Rewrite => InboxStaysToo
  BY DEF Rewrite, InboxStaysToo, Inbox
<1>5. ASSUME NEW doc, NEW disposition, ImportObservation(doc, disposition)
      PROVE  InboxStaysToo
  BY <1>5 DEF ImportObservation, InboxStaysToo, Inbox
<1>6. BootstrapReads => InboxStaysToo
  BY DEF BootstrapReads, InboxStaysToo, Inbox
<1>7. ASSUME NEW equivalent, BootstrapWrites(equivalent) PROVE InboxStaysToo
  BY <1>7 DEF BootstrapWrites, InboxStaysToo, Inbox
<1>8. RefuseDivergent \/ Activate => InboxStaysToo
  BY DEF RefuseDivergent, Activate, InboxStaysToo, Inbox
<1>9. NativePass => InboxStaysToo
  BY DEF NativePass, InboxStaysToo, Inbox
<1>10. ASSUME NEW t, NEW how, \/ ReaderCloses(t, how) \/ ReaderReopens(t)
                              \/ WorkBegins(t, how) \/ WorkCompletes(t)
       PROVE  InboxStaysToo
  BY <1>10 DEF ReaderCloses, ReaderReopens, WorkBegins, WorkCompletes,
               InboxStaysToo, Inbox
<1>11. UNCHANGED vars => InboxStaysToo
  BY DEF vars, InboxStaysToo
<1> QED
  BY <1>1, <1>2, <1>3, <1>4, <1>5, <1>6, <1>7, <1>8, <1>9, <1>10, <1>11,
     InboxUnmoved DEF Next, Import

LEMMA InitInbox == Init => InboxInv
<1> SUFFICES ASSUME Init PROVE InboxInv
  OBVIOUS
<1>1. /\ items = <<>> /\ history = {} /\ current = [c \in Candidates |-> None]
  BY DEF Init
<1>2. Cursor = 0 /\ 1..0 = {}
  BY <1>1, EmptySeq DEF Cursor
<1> QED
  BY <1>1, <1>2 DEF InboxInv, Seen, NewestOf

\* What is current for a candidate is a revision of it.
LEMMA CurrentRevision ==
  ASSUME InboxInv, FeedInv, NEW c \in Candidates, current[c] # None
  PROVE  current[c] \in Documents /\ current[c].cand = c
BY DEF InboxInv, NewestOf

-----------------------------------------------------------------------------
(* The ledger.  A binding names a task that is there, a task that is there *)
(* has a binding, and two accepted candidates have tasks of their own.     *)

Held(l, c) == l.bound[c].relation # "none"

BoundWell(l) ==
    \A c \in Candidates :
      /\ ~Held(l, c) => l.bound[c].doc = None
      /\ Held(l, c) => /\ l.bound[c].doc \in Documents /\ l.bound[c].doc.cand = c
                       /\ l.bound[c].task \in TaskIds
                       /\ l.tasks[l.bound[c].task].status # "none"

TasksHeld(l) ==
    \A t \in TaskIds : l.tasks[t].status # "none" =>
      \E c \in Candidates : Held(l, c) /\ l.bound[c].task = t

OwnTasks(l) ==
    \A c, d \in Candidates :
      /\ l.bound[c].relation = "accepted" /\ l.bound[d].relation = "accepted"
      /\ l.bound[c].task = l.bound[d].task
      => c = d

Follows(l) ==
    \A c \in Candidates :
      LET b == l.bound[c]
          task == l.tasks[b.task]
      IN /\ b.relation = "accepted"
         /\ b.resolution = "current" /\ b.doc.state = "active"
         => \/ task.content = b.doc.content
            \/ task.content = LegacyContent /\ observed[b.doc] # "none"

LedgerSound(l) == l \in Ledgers /\ BoundWell(l) /\ TasksHeld(l) /\ OwnTasks(l)
                    /\ Follows(l)

\* A finite set has a finite image, and no larger one.
LEMMA Image ==
  ASSUME NEW S, IsFiniteSet(S), NEW T, NEW f \in Surjection(S, T)
  PROVE  IsFiniteSet(T) /\ Cardinality(T) <= Cardinality(S)
<1> DEFINE n == Cardinality(S)
<1>1. n \in Nat /\ ExistsBijection(1..n, S)
  BY FS_CardinalityType
<1> HIDE DEF n
<1>2. PICK g \in [1..n -> S] : \A x \in S : \E k \in 1..n : g[k] = x
  BY <1>1 DEF ExistsBijection, Bijection, Surjection
<1>3. f \in [S -> T] /\ \A y \in T : \E x \in S : f[x] = y
  BY DEF Surjection
<1> DEFINE h == [k \in 1..n |-> f[g[k]]]
<1>4. h \in [1..n -> T]
  BY <1>2, <1>3
<1>5. ASSUME NEW y \in T PROVE \E k \in 1..n : h[k] = y
  <2>1. PICK x \in S : f[x] = y
    BY <1>3
  <2>2. PICK k \in 1..n : g[k] = x
    BY <1>2
  <2> QED
    BY <2>1, <2>2
<1>6. ExistsSurjection(1..n, T)
  BY <1>4, <1>5 DEF ExistsSurjection, Surjection
<1> QED
  BY <1>1, <1>6, FS_NatSurjection, FS_SurjCardinalityBound DEF n

LEMMA CandidatesFinite ==
  /\ IsFiniteSet(Candidates) /\ Cardinality(Candidates) \in Nat
  /\ IsFiniteSet(TaskIds) /\ Cardinality(TaskIds) = Cardinality(Candidates)
<1>1. [doc \in Documents |-> doc.cand] \in Surjection(Documents, Candidates)
  BY DEF Surjection, Candidates
<1>2. IsFiniteSet(Candidates) /\ Cardinality(Candidates) \in Nat
  BY <1>1, IntakeAssumption, Image, FS_CardinalityType
<1> DEFINE n == Cardinality(Candidates)
<1>3. IsFiniteSet(1..n) /\ Cardinality(1..n) = n
  <2>1. n \in Nat /\ 1 \in Int /\ n \in Int
    BY <1>2
  <2> HIDE DEF n
  <2>2. IsFiniteSet(1..n) /\ Cardinality(1..n) = IF 1 > n THEN 0 ELSE n - 1 + 1
    BY <2>1, FS_Interval
  <2> QED
    BY <2>1, <2>2
<1> QED
  BY <1>2, <1>3 DEF TaskIds

\* There are as many tasks as candidates, so a candidate without one finds one.
LEMMA FreeTaskIsFree ==
  ASSUME NEW l, LedgerSound(l), NEW c \in Candidates, ~Held(l, c)
  PROVE  FreeTask(l.tasks) \in TaskIds /\ l.tasks[FreeTask(l.tasks)].status = "none"
<1> DEFINE others == Candidates \ {c}
           used   == {l.bound[d].task : d \in others}
<1>1. SUFFICES ASSUME \A t \in TaskIds : l.tasks[t].status # "none" PROVE FALSE
  BY DEF FreeTask
<1>2. TaskIds \subseteq used
  <2>1. ASSUME NEW t \in TaskIds PROVE t \in used
    <3>1. PICK d \in Candidates : Held(l, d) /\ l.bound[d].task = t
      BY <1>1, <2>1 DEF LedgerSound, TasksHeld
    <3>2. d # c
      BY <3>1
    <3> QED
      BY <3>1, <3>2
  <2> QED
    BY <2>1
<1>3. IsFiniteSet(others) /\ Cardinality(others) = Cardinality(Candidates) - 1
  BY CandidatesFinite, FS_RemoveElement
<1>4. IsFiniteSet(used) /\ Cardinality(used) <= Cardinality(others)
  <2>1. [d \in others |-> l.bound[d].task] \in Surjection(others, used)
    BY DEF Surjection
  <2> HIDE DEF others, used
  <2> QED
    BY <1>3, <2>1, Image
<1>5. Cardinality(TaskIds) <= Cardinality(used)
  <2> HIDE DEF used
  <2> QED
    BY <1>2, <1>4, FS_Subset
<1>6. Cardinality(used) \in Nat
  <2> HIDE DEF used
  <2> QED
    BY <1>4, FS_CardinalityType
<1> QED
  BY ONLY <1>3, <1>4, <1>5, <1>6, CandidatesFinite

-----------------------------------------------------------------------------
(* What each write makes of a row and of a binding                         *)

Statuses    == {"none", "open", "done", "dropped"}
Texts       == {doc.content : doc \in Documents} \cup {LegacyContent, "none"}
Registries  == {doc.registry : doc \in Documents} \cup {"none"}
Relations   == {"none", "accepted", "folded"}
States      == {"active", "withdrawn"}
Resolutions == {"current", "preserved_open", "closed_by_source", "reader_conflict"}

LEMMA RowTypes ==
  TaskRows = [status : Statuses, version : Nat, content : Texts,
              registry : Registries, work : Works, reopens : Nat,
              answered : Nat, told : Nat]
BY DEF TaskRows, Statuses, Texts, Registries

LEMMA BindingTypes ==
  Bindings = [doc : Documents \cup {None}, task : TaskIds \cup {0},
              relation : Relations, state : States, resolution : Resolutions,
              version : Nat]
BY DEF Bindings, Relations, States, Resolutions

LEMMA DocumentFields ==
  ASSUME NEW doc \in Documents
  PROVE  /\ doc.content \in Texts /\ doc.registry \in Registries
         /\ doc.state \in States /\ doc.cand \in Candidates
BY IntakeAssumption DEF Texts, Registries, States, Candidates

\* What each of the writes does to the row of a task.
LEMMA RowFields ==
  ASSUME NEW task \in TaskRows
  PROVE  DOMAIN task = {"status", "version", "content", "registry", "work",
                        "reopens", "answered", "told"}
BY RowTypes

LEMMA RowStatus ==
  ASSUME NEW task \in TaskRows,
         NEW s \in Statuses, NEW v \in Nat
  PROVE  LET next == [task EXCEPT !.status = s, !.version = v]
         IN  /\ next \in TaskRows
             /\ next.status = s
<1> DEFINE next == [task EXCEPT !.status = s, !.version = v]
<1>1. next \in TaskRows
  BY RowTypes
<1>2. next.status = s
  BY RowFields
<1> QED
  BY <1>1, <1>2

LEMMA RowVersion ==
  ASSUME NEW task \in TaskRows,
         NEW v \in Nat
  PROVE  LET next == [task EXCEPT !.version = v]
         IN  /\ next \in TaskRows
             /\ next.status = task.status /\ next.work = task.work
<1> DEFINE next == [task EXCEPT !.version = v]
<1>1. next \in TaskRows
  BY RowTypes
<1>2. next.status = task.status /\ next.work = task.work
  BY RowFields
<1> QED
  BY <1>1, <1>2

Reactivated(task, s, v, x, r) ==
    [task EXCEPT !.status = s, !.version = v, !.content = x,
                 !.registry = r]

LEMMA RowReactivated ==
  ASSUME NEW task \in TaskRows,
         NEW s \in Statuses, NEW v \in Nat, NEW x \in Texts, NEW r \in Registries
  PROVE  LET next == Reactivated(task, s, v, x, r)
         IN  /\ next \in TaskRows
             /\ next.status = s
             /\ next.content = x
<1> DEFINE next == Reactivated(task, s, v, x, r)
<1>1. next \in TaskRows
  BY RowTypes DEF Reactivated
<1>2. next.status = s
  BY RowFields DEF Reactivated
<1>3. next.content = x
  BY RowFields DEF Reactivated
<1> QED
  BY <1>1, <1>2, <1>3

LEMMA RowReopened ==
  ASSUME NEW task \in TaskRows,
         NEW s \in Statuses
  PROVE  LET next == [task EXCEPT !.status = s, !.reopens = @ + 1]
         IN  /\ next \in TaskRows
             /\ next.status = s
<1> DEFINE next == [task EXCEPT !.status = s, !.reopens = @ + 1]
<1>1. next \in TaskRows
  <2>1. task.reopens + 1 \in Nat
    BY RowTypes
  <2>2. PICK n \in Nat : task.reopens + 1 = n
    BY <2>1
  <2>3. [task EXCEPT !.status = s, !.reopens = n] \in TaskRows
    BY RowTypes
  <2> QED
    BY <2>2, <2>3
<1>2. next.status = s
  BY RowFields
<1> QED
  BY <1>1, <1>2

Reworded(task, x, r) ==
    [task EXCEPT !.content = x, !.registry = r]

LEMMA RowReworded ==
  ASSUME NEW task \in TaskRows,
         NEW x \in Texts, NEW r \in Registries
  PROVE  LET next == Reworded(task, x, r)
         IN  /\ next \in TaskRows
             /\ next.status = task.status /\ next.work = task.work
             /\ next.content = x
<1> DEFINE next == Reworded(task, x, r)
<1>1. next \in TaskRows
  BY RowTypes DEF Reworded
<1>2. next.status = task.status /\ next.work = task.work
  BY RowFields DEF Reworded
<1>3. next.content = x
  BY RowFields DEF Reworded
<1> QED
  BY <1>1, <1>2, <1>3

Resolved(task, r) ==
    [task EXCEPT !.registry = r]

LEMMA RowResolved ==
  ASSUME NEW task \in TaskRows,
         NEW r \in Registries
  PROVE  LET next == Resolved(task, r)
         IN  /\ next \in TaskRows
             /\ next.status = task.status /\ next.work = task.work
             /\ next.content = task.content
<1> DEFINE next == Resolved(task, r)
<1>1. next \in TaskRows
  BY RowTypes DEF Resolved
<1>2. next.status = task.status /\ next.work = task.work
  BY RowFields DEF Resolved
<1>3. next.content = task.content
  BY RowFields DEF Resolved
<1> QED
  BY <1>1, <1>2, <1>3

Revised(task, x, v, r) ==
    [task EXCEPT !.content = x, !.version = v, !.registry = r]

LEMMA RowRevised ==
  ASSUME NEW task \in TaskRows,
         NEW x \in Texts, NEW v \in Nat, NEW r \in Registries
  PROVE  LET next == Revised(task, x, v, r)
         IN  /\ next \in TaskRows
             /\ next.status = task.status /\ next.work = task.work
             /\ next.content = x
<1> DEFINE next == Revised(task, x, v, r)
<1>1. next \in TaskRows
  BY RowTypes DEF Revised
<1>2. next.status = task.status /\ next.work = task.work
  BY RowFields DEF Revised
<1>3. next.content = x
  BY RowFields DEF Revised
<1> QED
  BY <1>1, <1>2, <1>3

LEMMA ToldWrites ==
  ASSUME NEW task \in TaskRows, NEW v \in Nat
  PROVE  /\ Told(task, v) \in TaskRows
         /\ Told(task, v).status = task.status
         /\ Told(task, v).work = task.work
         /\ Told(task, v).content = task.content
<1>1. task.told \in Nat
  BY RowTypes
<1>2. PICK u \in Nat : Told(task, v) = [task EXCEPT !.told = u]
  BY <1>1 DEF Told
<1>3. /\ [task EXCEPT !.told = u] \in TaskRows
      /\ [task EXCEPT !.told = u].status = task.status
      /\ [task EXCEPT !.told = u].work = task.work
      /\ [task EXCEPT !.told = u].content = task.content
  BY RowTypes
<1> QED
  BY <1>2, <1>3

\* A task closed by its reader or by its source says what it said.
LEMMA ClosedWrites ==
  ASSUME NEW task \in TaskRows, NEW s \in {"done", "dropped"}
  PROVE  /\ Closed(task, s) \in TaskRows
         /\ Closed(task, s).status = s
         /\ Closed(task, s).content = task.content
<1>1. task.version + 1 \in Nat /\ s \in Statuses
  BY RowTypes DEF Statuses
<1>2. PICK v \in Nat : v = task.version + 1
  BY <1>1
<1> DEFINE new == [task EXCEPT !.status = s, !.version = v]
<1>3. Closed(task, s) = Told(new, v)
  BY <1>2 DEF Closed
<1>4. new \in TaskRows /\ new.status = s
  BY <1>1, RowStatus
<1>5. new.content = task.content
  BY RowFields
<1> HIDE DEF new
<1> QED
  BY <1>3, <1>4, <1>5, ToldWrites

\* Only its workflow ends.
LEMMA EndedWrites ==
  ASSUME NEW task \in TaskRows
  PROVE  /\ Ended(task) \in TaskRows
         /\ Ended(task).status = task.status
         /\ Ended(task).content = task.content
<1> DEFINE new == [task EXCEPT !.work = "none", !.answered = task.reopens]
<1>1. task.reopens \in Nat /\ "none" \in Works
  BY RowTypes DEF Works
<1>2. new \in TaskRows
  BY <1>1, RowTypes
<1>3. new.status = task.status /\ new.content = task.content
  BY RowFields
<1>4. Ended(task) = task \/ Ended(task) = new
  BY DEF Ended
<1> HIDE DEF new
<1> QED
  BY <1>2, <1>3, <1>4

LEMMA BondRebound ==
  ASSUME NEW b \in Bindings, NEW doc \in Documents, NEW r \in Resolutions,
         NEW v \in Nat
  PROVE  LET next == Rebound(b, doc, r, v)
         IN  /\ next \in Bindings /\ next.task = b.task
             /\ next.relation = b.relation /\ next.doc = doc
             /\ next.resolution = r
<1> DEFINE next == Rebound(b, doc, r, v)
<1>1. doc.state \in States
  BY DocumentFields
<1>2. next \in Bindings
  BY <1>1, BindingTypes DEF Rebound
<1>3. next.task = b.task /\ next.relation = b.relation /\ next.doc = doc
      /\ next.resolution = r
  BY BindingTypes DEF Rebound
<1> QED
  BY <1>2, <1>3

LEMMA BondFor ==
  ASSUME NEW b \in Bindings, NEW doc \in Documents
  PROVE  LET next == [b EXCEPT !.doc = doc]
         IN  /\ next \in Bindings /\ next.task = b.task
             /\ next.relation = b.relation /\ next.doc = doc
<1> DEFINE next == [b EXCEPT !.doc = doc]
<1>1. next \in Bindings
  BY BindingTypes
<1>2. next.task = b.task /\ next.relation = b.relation /\ next.doc = doc
  BY BindingTypes
<1> QED
  BY <1>1, <1>2

\* An agent works on the task.
AtWork(task) == task.status = "open" /\ task.work = "running"

\* What a pass may make of the task of a candidate it has a binding for: it
\* says what its source says or is not called current, a dropped task stays
\* dropped, and a task an agent works on stays open, the agent at work.
Fits(l, doc, task, b) ==
    LET was == l.bound[doc.cand]
        old == l.tasks[was.task]
    IN /\ task \in TaskRows /\ b \in Bindings
       /\ b.task = was.task /\ b.relation = was.relation /\ b.doc = doc
       /\ task.status # "none"
       /\ b.resolution = "current" /\ doc.state = "active" => task.content = doc.content
       /\ old.status = "dropped" => task.status = "dropped"
       /\ AtWork(old) => AtWork(task)

Moves(l, doc, after) ==
    \E task, b : Fits(l, doc, task, b) /\ after = Written(l, doc.cand, task, b)

\* The parts of a sound ledger that a write is made from.
LEMMA BoundParts ==
  ASSUME NEW l, LedgerSound(l), NEW doc \in Documents, Held(l, doc.cand)
  PROVE  /\ l.bound[doc.cand] \in Bindings
         /\ l.bound[doc.cand].task \in TaskIds
         /\ l.tasks[l.bound[doc.cand].task] \in TaskRows
         /\ l.tasks[l.bound[doc.cand].task].status \in Statuses \ {"none"}
         /\ l.tasks[l.bound[doc.cand].task].version \in Nat
<1>1. doc.cand \in Candidates
  BY DocumentFields
<1>2. /\ l.tasks \in [TaskIds -> TaskRows] /\ l.bound \in [Candidates -> Bindings]
  BY DEF LedgerSound, Ledgers
<1>3. /\ l.bound[doc.cand].task \in TaskIds
      /\ l.tasks[l.bound[doc.cand].task].status # "none"
  BY <1>1 DEF LedgerSound, BoundWell
<1>4. l.tasks[l.bound[doc.cand].task] \in TaskRows
  BY <1>2, <1>3
<1>5. /\ l.tasks[l.bound[doc.cand].task].status \in Statuses
      /\ l.tasks[l.bound[doc.cand].task].version \in Nat
  BY <1>4, RowTypes
<1> QED
  BY <1>1, <1>2, <1>3, <1>5

-----------------------------------------------------------------------------
(* _apply_candidate_withdrawal, _apply_candidate_reactivation, a revision  *)

LEMMA WithdrawMoves ==
  ASSUME NEW l, LedgerSound(l), NEW doc \in Documents, Held(l, doc.cand),
         doc.state = "withdrawn"
  PROVE  Moves(l, doc, Withdraw(l, doc))
<1> DEFINE b      == l.bound[doc.cand]
           task   == l.tasks[b.task]
           next   == task.version + 1
           conflict == \/ task.status # "open"
                       \/ task.version # b.version
                       \/ task.content # b.doc.content
                       \/ ~Idle(task)
<1>1. /\ b \in Bindings /\ task \in TaskRows /\ task.status \in Statuses \ {"none"}
      /\ task.version \in Nat /\ next \in Nat
  BY BoundParts
<1>2. doc.state \in States /\ doc \in Documents \cup {None}
      /\ "closed_by_source" \in Resolutions /\ "preserved_open" \in Resolutions
      /\ "reader_conflict" \in Resolutions
  BY DocumentFields DEF Resolutions
<1> DEFINE closed == Ended(Closed(task, ClosedBy(doc)))
           kept   == [task EXCEPT !.version = next]
<1>3. /\ closed \in TaskRows /\ closed.status \in {"done", "dropped"}
      /\ kept \in TaskRows /\ kept.status = task.status /\ kept.work = task.work
  <2>1. ClosedBy(doc) \in {"done", "dropped"}
    BY DEF ClosedBy
  <2> HIDE DEF task, next
  <2>2. PICK s \in {"done", "dropped"} : s = ClosedBy(doc)
    BY <2>1
  <2>3. Closed(task, s) \in TaskRows /\ Closed(task, s).status = s
    BY <1>1, ClosedWrites
  <2>4. PICK row \in TaskRows : row = Closed(task, s)
    BY <2>3
  <2>5. closed = Ended(row) /\ Ended(row) \in TaskRows /\ Ended(row).status = s
    BY <2>2, <2>3, <2>4, EndedWrites
  <2>6. kept \in TaskRows /\ kept.status = task.status /\ kept.work = task.work
    BY <1>1, RowVersion
  <2> HIDE DEF closed, kept
  <2> QED
    BY <2>5, <2>6
<1>4. Withdraw(l, doc) =
        IF Closes(task, doc)
        THEN Written(l, doc.cand, closed,
                     Rebound(b, doc, "closed_by_source", next))
        ELSE IF ~conflict
        THEN Written(l, doc.cand, Told(kept, next),
                     Rebound(b, doc, "preserved_open", next))
        ELSE Written(l, doc.cand, Told(task, task.version),
                     Rebound(b, doc, "reader_conflict", task.version))
  BY DEF Withdraw
<1>5. Closes(task, doc) => task.status = "open" /\ task.work # "running"
  BY DEF Closes
<1>6. task = l.tasks[l.bound[doc.cand].task]
      /\ b = l.bound[doc.cand]
  OBVIOUS
<1> HIDE DEF b, task, next, conflict, closed, kept
<1>7. CASE Closes(task, doc)
  <2> DEFINE bond == Rebound(b, doc, "closed_by_source", next)
  <2>1. /\ bond \in Bindings /\ bond.task = b.task
        /\ bond.relation = b.relation /\ bond.doc = doc
    BY <1>1, <1>2, BondRebound
  <2> HIDE DEF bond
  <2>2. Fits(l, doc, closed, bond)
    BY <1>3, <1>5, <1>6, <1>7, <2>1 DEF Fits, AtWork
  <2> QED
    BY <1>4, <1>7, <2>2 DEF Moves, bond
<1>8. CASE ~Closes(task, doc) /\ ~conflict
  <2> DEFINE new == Told(kept, next)
             bond == Rebound(b, doc, "preserved_open", next)
  <2>1. new \in TaskRows /\ new.status = task.status /\ new.work = task.work
    BY <1>1, <1>3, ToldWrites
  <2>2. /\ bond \in Bindings /\ bond.task = b.task
        /\ bond.relation = b.relation /\ bond.doc = doc
    BY <1>1, <1>2, BondRebound
  <2> HIDE DEF new, bond
  <2>3. Fits(l, doc, new, bond)
    BY <1>1, <1>6, <2>1, <2>2 DEF Fits, AtWork
  <2> QED
    BY <1>4, <1>8, <2>3 DEF Moves, new, bond
<1>9. CASE ~Closes(task, doc) /\ conflict
  <2> DEFINE new == Told(task, task.version)
             bond == Rebound(b, doc, "reader_conflict", task.version)
  <2>1. new \in TaskRows /\ new.status = task.status /\ new.work = task.work
    BY <1>1, ToldWrites
  <2>2. /\ bond \in Bindings /\ bond.task = b.task
        /\ bond.relation = b.relation /\ bond.doc = doc
    BY <1>1, <1>2, BondRebound
  <2> HIDE DEF new, bond
  <2>3. Fits(l, doc, new, bond)
    BY <1>1, <1>6, <2>1, <2>2 DEF Fits, AtWork
  <2> QED
    BY <1>4, <1>9, <2>3 DEF Moves, new, bond
<1> QED
  BY <1>7, <1>8, <1>9

LEMMA ReactivateMoves ==
  ASSUME NEW l, LedgerSound(l), NEW doc \in Documents, Held(l, doc.cand)
  PROVE  Moves(l, doc, Reactivate(l, doc))
<1> DEFINE b      == l.bound[doc.cand]
           task   == l.tasks[b.task]
           next   == task.version + 1
           opened == [task EXCEPT !.status = "open", !.version = next,
                                  !.content = doc.content,
                                  !.registry = doc.registry]
<1>1. /\ b \in Bindings /\ task \in TaskRows /\ task.status \in Statuses \ {"none"}
      /\ task.version \in Nat /\ next \in Nat
  BY BoundParts
<1>2. /\ doc.content \in Texts /\ doc.registry \in Registries /\ "open" \in Statuses
      /\ "current" \in Resolutions /\ "reader_conflict" \in Resolutions
  BY DocumentFields DEF Statuses, Resolutions
<1>3. opened \in TaskRows /\ opened.status = "open" /\ opened.content = doc.content
  <2> HIDE DEF task, next
  <2>1. opened = Reactivated(task, "open", next, doc.content, doc.registry)
    BY DEF Reactivated
  <2> HIDE DEF opened
  <2> QED
    BY <1>1, <1>2, <2>1, RowReactivated
<1>4. Reactivate(l, doc) =
        IF Returns(task, b)
        THEN Written(l, doc.cand, Told(opened, next),
                     Rebound(b, doc, "current", next))
        ELSE Written(l, doc.cand, Told(task, task.version),
                     Rebound(b, doc, "reader_conflict", task.version))
  BY DEF Reactivate
<1>5. Returns(task, b) => task.status # "dropped" /\ task.work # "running"
  BY DEF Returns, Idle
<1>6. task = l.tasks[l.bound[doc.cand].task] /\ b = l.bound[doc.cand]
  OBVIOUS
<1> HIDE DEF b, task, next, opened
<1>7. CASE ~Returns(task, b)
  <2> DEFINE new == Told(task, task.version)
             bond == Rebound(b, doc, "reader_conflict", task.version)
  <2>1. new \in TaskRows /\ new.status = task.status /\ new.work = task.work
    BY <1>1, ToldWrites
  <2>2. /\ bond \in Bindings /\ bond.task = b.task
        /\ bond.relation = b.relation /\ bond.doc = doc
        /\ bond.resolution = "reader_conflict"
    BY <1>1, <1>2, BondRebound
  <2> HIDE DEF new, bond
  <2>3. Fits(l, doc, new, bond)
    BY <1>1, <1>6, <2>1, <2>2 DEF Fits, AtWork
  <2> QED
    BY <1>4, <1>7, <2>3 DEF Moves, new, bond
<1>8. CASE Returns(task, b)
  <2> DEFINE new == Told(opened, next)
             bond == Rebound(b, doc, "current", next)
  <2>1. new \in TaskRows /\ new.status = "open" /\ new.content = doc.content
    BY <1>1, <1>3, ToldWrites
  <2>2. /\ bond \in Bindings /\ bond.task = b.task
        /\ bond.relation = b.relation /\ bond.doc = doc
    BY <1>1, <1>2, BondRebound
  <2> HIDE DEF new, bond
  <2>3. Fits(l, doc, new, bond)
    BY <1>1, <1>5, <1>6, <1>8, <2>1, <2>2 DEF Fits, AtWork
  <2> QED
    BY <1>4, <1>8, <2>3 DEF Moves, new, bond
<1> QED
  BY <1>7, <1>8

\* Only a finished task surfaces again, and it says what it said.
LEMMA ResurfacedWrites ==
  ASSUME NEW task \in TaskRows, NEW b, NEW doc
  PROVE  LET next == Resurfaced(task, b, doc)
         IN  /\ next \in TaskRows
             /\ next.status = task.status
                  \/ (task.status = "done" /\ next.status = "open")
             /\ task.status = "open" => next = task
             /\ next.content = task.content
<1> DEFINE up   == [task EXCEPT !.status = "open", !.reopens = @ + 1]
           next == Resurfaced(task, b, doc)
<1>1. task.version + 1 \in Nat /\ "open" \in Statuses
  BY RowTypes DEF Statuses
<1>2. up \in TaskRows /\ up.status = "open"
  BY <1>1, RowReopened
<1>3. up.content = task.content
  BY RowFields
<1> HIDE DEF up
<1>4. LET told == Told(up, task.version + 1)
      IN  told \in TaskRows /\ told.status = "open" /\ told.content = task.content
  BY <1>1, <1>2, <1>3, ToldWrites
<1>5. \/ next = task
      \/ task.status = "done" /\ next = Told(up, task.version + 1)
  BY DEF Resurfaced, up
<1> HIDE DEF next
<1>6. CASE next = task
  BY <1>6 DEF next
<1>7. CASE task.status = "done" /\ next = Told(up, task.version + 1)
  BY <1>4, <1>7 DEF next
<1> QED
  BY <1>5, <1>6, <1>7

LEMMA ReviseMoves ==
  ASSUME NEW l, LedgerSound(l), NEW doc \in Documents, Held(l, doc.cand)
  PROVE  Moves(l, doc, Revise(l, doc))
<1> DEFINE b    == l.bound[doc.cand]
           old  == l.tasks[b.task]
           task == Resurfaced(old, b, doc)
           next == task.version + 1
           worded   == [task EXCEPT !.content = doc.content, !.registry = doc.registry]
           resolved == [task EXCEPT !.registry = doc.registry]
           revised  == [task EXCEPT !.content = doc.content, !.version = next,
                                    !.registry = doc.registry]
           comment  == doc.kind = "review_request" /\ ~HeadChanged(b, doc)
<1>1. b \in Bindings /\ old \in TaskRows /\ old.status \in Statuses \ {"none"}
  BY BoundParts
<1>2. /\ doc.content \in Texts /\ doc.registry \in Registries
      /\ "current" \in Resolutions /\ "reader_conflict" \in Resolutions
  BY DocumentFields DEF Resolutions
<1>3. /\ task \in TaskRows
      /\ task.status = old.status \/ (old.status = "done" /\ task.status = "open")
      /\ old.status = "open" => task = old
  <2> HIDE DEF b, old
  <2> QED
    BY <1>1, ResurfacedWrites
<1>4. task.version \in Nat /\ next \in Nat
  <2> HIDE DEF task
  <2>1. task.version \in Nat
    BY <1>3, RowTypes
  <2> QED
    BY <2>1
<1>5. /\ worded \in TaskRows /\ worded.status = task.status
      /\ worded.work = task.work
      /\ worded.content = doc.content
  <2> HIDE DEF task
  <2>1. worded = Reworded(task, doc.content, doc.registry)
    BY DEF Reworded
  <2> HIDE DEF worded
  <2> QED
    BY <1>2, <1>3, <2>1, RowReworded
<1>6. /\ resolved \in TaskRows /\ resolved.status = task.status
      /\ resolved.work = task.work
      /\ resolved.content = task.content
  <2> HIDE DEF task
  <2>1. resolved = Resolved(task, doc.registry)
    BY DEF Resolved
  <2> HIDE DEF resolved
  <2> QED
    BY <1>2, <1>3, <2>1, RowResolved
<1>7. /\ revised \in TaskRows /\ revised.status = task.status
      /\ revised.work = task.work
      /\ revised.content = doc.content
  <2> HIDE DEF task, next
  <2>1. revised = Revised(task, doc.content, next, doc.registry)
    BY DEF Revised
  <2> HIDE DEF revised
  <2> QED
    BY <1>2, <1>3, <1>4, <2>1, RowRevised
<1>8. Revise(l, doc) =
        IF task.status # "open"
        THEN Written(l, doc.cand, Told(task, task.version),
                     Rebound(b, doc, "reader_conflict", task.version))
        ELSE IF comment
        THEN Written(l, doc.cand, Told(worded, task.version), [b EXCEPT !.doc = doc])
        ELSE IF SameTask(task, b, doc)
        THEN Written(l, doc.cand, Told(resolved, task.version), [b EXCEPT !.doc = doc])
        ELSE Written(l, doc.cand, Told(revised, next), Rebound(b, doc, "current", next))
  BY DEF Revise, AfterClose
<1>9. SameTask(task, b, doc) => task.content = doc.content
  BY DEF SameTask
<1>10. old = l.tasks[l.bound[doc.cand].task] /\ b = l.bound[doc.cand]
  OBVIOUS
<1> HIDE DEF b, old, task, next, worded, resolved, revised, comment
<1>11. CASE task.status # "open"
  <2> DEFINE new == Told(task, task.version)
             bond == Rebound(b, doc, "reader_conflict", task.version)
  <2>1. new \in TaskRows /\ new.status = task.status /\ new.work = task.work
    BY <1>3, <1>4, ToldWrites
  <2>2. /\ bond \in Bindings /\ bond.task = b.task
        /\ bond.relation = b.relation /\ bond.doc = doc
        /\ bond.resolution = "reader_conflict"
    BY <1>1, <1>2, <1>4, BondRebound
  <2> HIDE DEF new, bond
  <2>3. Fits(l, doc, new, bond)
    BY <1>1, <1>3, <1>10, <1>11, <2>1, <2>2 DEF Fits, AtWork
  <2> QED
    BY <1>8, <1>11, <2>3 DEF Moves, new, bond
<1>12. CASE task.status = "open" /\ comment
  <2> DEFINE new == Told(worded, task.version)
             bond == [b EXCEPT !.doc = doc]
  <2>1. new \in TaskRows /\ new.status = task.status /\ new.work = task.work
        /\ new.content = doc.content
    BY <1>4, <1>5, ToldWrites
  <2>2. /\ bond \in Bindings /\ bond.task = b.task
        /\ bond.relation = b.relation /\ bond.doc = doc
    BY <1>1, BondFor
  <2> HIDE DEF new, bond
  <2>3. Fits(l, doc, new, bond)
    BY <1>1, <1>3, <1>10, <1>12, <2>1, <2>2 DEF Fits, AtWork
  <2> QED
    BY <1>8, <1>12, <2>3 DEF Moves, new, bond
<1>13. CASE task.status = "open" /\ ~comment /\ SameTask(task, b, doc)
  <2> DEFINE new == Told(resolved, task.version)
             bond == [b EXCEPT !.doc = doc]
  <2>1. new \in TaskRows /\ new.status = task.status /\ new.work = task.work
        /\ new.content = doc.content
    BY <1>4, <1>6, <1>9, <1>13, ToldWrites
  <2>2. /\ bond \in Bindings /\ bond.task = b.task
        /\ bond.relation = b.relation /\ bond.doc = doc
    BY <1>1, BondFor
  <2> HIDE DEF new, bond
  <2>3. Fits(l, doc, new, bond)
    BY <1>1, <1>3, <1>10, <1>13, <2>1, <2>2 DEF Fits, AtWork
  <2> QED
    BY <1>8, <1>13, <2>3 DEF Moves, new, bond
<1>14. CASE task.status = "open" /\ ~comment /\ ~SameTask(task, b, doc)
  <2> DEFINE new == Told(revised, next)
             bond == Rebound(b, doc, "current", next)
  <2>1. new \in TaskRows /\ new.status = task.status /\ new.work = task.work
        /\ new.content = doc.content
    BY <1>4, <1>7, ToldWrites
  <2>2. /\ bond \in Bindings /\ bond.task = b.task
        /\ bond.relation = b.relation /\ bond.doc = doc
    BY <1>1, <1>2, <1>4, BondRebound
  <2> HIDE DEF new, bond
  <2>3. Fits(l, doc, new, bond)
    BY <1>1, <1>3, <1>10, <1>14, <2>1, <2>2 DEF Fits, AtWork
  <2> QED
    BY <1>8, <1>14, <2>3 DEF Moves, new, bond
<1> QED
  BY <1>11, <1>12, <1>13, <1>14

-----------------------------------------------------------------------------
(* One item taken                                                          *)

\* What taking one item does: the ledger stays sound, nobody loses a binding,
\* without a contradiction the candidate has one unless it was withdrawn, and
\* neither a dropped task nor one an agent works on is overruled.
Advances(l, doc, after) ==
    /\ LedgerSound(after)
    /\ \A c \in Candidates : Held(l, c) => Held(after, c)
    /\ ~after.conflict => /\ ~l.conflict
                          /\ Held(after, doc.cand) \/ doc.state = "withdrawn"
    /\ \A t \in TaskIds :
         /\ l.tasks[t].status = "dropped" => after.tasks[t].status = "dropped"
         /\ AtWork(l.tasks[t]) => AtWork(after.tasks[t])

LEMMA WrittenParts ==
  ASSUME NEW l \in Ledgers, NEW c \in Candidates, NEW task \in TaskRows,
         NEW b \in Bindings, b.task \in TaskIds
  PROVE  LET after == Written(l, c, task, b)
         IN  /\ after \in Ledgers /\ after.conflict = l.conflict
             /\ \A t \in TaskIds :
                  after.tasks[t] = IF t = b.task THEN task ELSE l.tasks[t]
             /\ \A d \in Candidates :
                  after.bound[d] = IF d = c THEN b ELSE l.bound[d]
<1> DEFINE after == Written(l, c, task, b)
<1>1. /\ l.tasks \in [TaskIds -> TaskRows] /\ l.bound \in [Candidates -> Bindings]
      /\ l.conflict \in BOOLEAN
      /\ DOMAIN l = {"tasks", "bound", "conflict"}
  BY DEF Ledgers
<1>2. /\ after.tasks = [l.tasks EXCEPT ![b.task] = task]
      /\ after.bound = [l.bound EXCEPT ![c] = b] /\ after.conflict = l.conflict
  BY ONLY <1>1 DEF Written
<1>3. after \in Ledgers
  BY <1>1 DEF Ledgers, Written
<1> QED
  BY <1>1, <1>2, <1>3

LEMMA ContradictionSound ==
  ASSUME NEW l, LedgerSound(l), NEW doc \in Documents
  PROVE  Advances(l, doc, [l EXCEPT !.conflict = TRUE])
<1> DEFINE after == [l EXCEPT !.conflict = TRUE]
<1>1. l \in Ledgers
  BY DEF LedgerSound
<1>2. /\ after \in Ledgers /\ after.conflict
      /\ after.tasks = l.tasks /\ after.bound = l.bound
  BY <1>1 DEF Ledgers
<1> HIDE DEF after
<1>3. LedgerSound(after)
  BY <1>2 DEF LedgerSound, BoundWell, TasksHeld, OwnTasks, Follows, Held
<1> QED
  BY <1>2, <1>3 DEF Advances, Held, after

LEMMA NoTaskTyped == NoTask \in TaskRows
<1>1. /\ "none" \in Statuses /\ "none" \in Texts /\ "none" \in Registries
      /\ "none" \in Works
  BY DEF Statuses, Texts, Registries, Works
<1> QED
  BY <1>1, RowTypes DEF NoTask

LEMMA NewTaskTyped ==
  ASSUME NEW x \in Texts, NEW r \in Registries
  PROVE  LET new == NewTask(x, r)
         IN  new \in TaskRows /\ new.status = "open" /\ new.content = x
<1> DEFINE new == NewTask(x, r)
<1>1. "open" \in Statuses
  BY DEF Statuses
<1>2. new \in TaskRows
  BY <1>1, NoTaskTyped, RowTypes DEF NewTask
<1>3. new.status = "open" /\ new.content = x
  BY NoTaskTyped, RowFields DEF NewTask
<1> QED
  BY <1>2, <1>3

LEMMA UnboundTyped == Unbound \in Bindings
<1>1. /\ "none" \in Relations /\ "active" \in States /\ "current" \in Resolutions
      /\ None \in Documents \cup {None} /\ 0 \in TaskIds \cup {0}
  BY DEF Relations, States, Resolutions
<1> QED
  BY <1>1, BindingTypes DEF Unbound

LEMMA BoundTyped ==
  ASSUME NEW doc \in Documents, NEW t \in TaskIds, NEW relation \in Relations,
         NEW v \in Nat
  PROVE  LET new == Bound(doc, t, relation, v)
         IN  /\ new \in Bindings /\ new.doc = doc /\ new.task = t
             /\ new.relation = relation
<1> DEFINE new == Bound(doc, t, relation, v)
           S   == Documents \cup {None}
           I   == TaskIds \cup {0}
<1>1. doc \in S /\ doc.state \in States /\ t \in I
  BY DocumentFields
<1>2. /\ Unbound \in [doc : S, task : I, relation : Relations, state : States,
                      resolution : Resolutions, version : Nat]
      /\ Bindings = [doc : S, task : I, relation : Relations, state : States,
                     resolution : Resolutions, version : Nat]
  BY UnboundTyped, BindingTypes
<1> HIDE DEF S, I
<1>3. new \in Bindings
  BY <1>1, <1>2 DEF Bound
<1>4. DOMAIN Unbound = {"doc", "task", "relation", "state", "resolution", "version"}
  BY ONLY <1>2
<1>5. new.doc = doc /\ new.task = t /\ new.relation = relation
  BY ONLY <1>4 DEF Bound
<1> QED
  BY <1>3, <1>5

LEMMA MintSound ==
  ASSUME NEW l, LedgerSound(l), NEW doc \in Documents, ~Held(l, doc.cand)
  PROVE  Advances(l, doc,
                  Written(l, doc.cand, NewTask(doc.content, doc.registry),
                          Bound(doc, FreeTask(l.tasks), "accepted", 1)))
<1> DEFINE c     == doc.cand
           t     == FreeTask(l.tasks)
           task  == NewTask(doc.content, doc.registry)
           b     == Bound(doc, t, "accepted", 1)
           after == Written(l, c, task, b)
<1>1. c \in Candidates /\ doc.content \in Texts /\ doc.registry \in Registries
      /\ doc.state \in States
  BY DocumentFields
<1>2. t \in TaskIds /\ l.tasks[t].status = "none"
  BY <1>1, FreeTaskIsFree
<1>3. task \in TaskRows /\ task.status = "open" /\ task.content = doc.content
  BY <1>1, NewTaskTyped
<1>4. b \in Bindings /\ b.task = t /\ b.relation = "accepted" /\ b.doc = doc
  <2>1. "accepted" \in Relations
    BY DEF Relations
  <2> HIDE DEF t
  <2> QED
    BY <1>2, <2>1, BoundTyped
<1>5. l \in Ledgers
  BY DEF LedgerSound
<1> HIDE DEF task, b, t, c
<1>6. /\ after \in Ledgers /\ after.conflict = l.conflict
      /\ \A u \in TaskIds : after.tasks[u] = IF u = t THEN task ELSE l.tasks[u]
      /\ \A d \in Candidates : after.bound[d] = IF d = c THEN b ELSE l.bound[d]
  BY <1>1, <1>2, <1>3, <1>4, <1>5, WrittenParts
<1> HIDE DEF after
<1>7. doc.cand = c
  BY DEF c
<1>8. \A d \in Candidates : Held(l, d) => d # c /\ l.bound[d].task # t
  BY <1>2, <1>7 DEF LedgerSound, BoundWell
<1>9. \A d \in Candidates : /\ Held(after, d) <=> Held(l, d) \/ d = c
                            /\ d # c => after.bound[d] = l.bound[d]
                            /\ d = c => after.bound[d] = b
  BY <1>4, <1>6 DEF Held
<1>10. BoundWell(after)
  <2>1. ASSUME NEW d \in Candidates
        PROVE  /\ ~Held(after, d) => after.bound[d].doc = None
               /\ Held(after, d) =>
                    /\ after.bound[d].doc \in Documents /\ after.bound[d].doc.cand = d
                    /\ after.bound[d].task \in TaskIds
                    /\ after.tasks[after.bound[d].task].status # "none"
    <3>1. CASE d = c
      <4>1. after.bound[d] = b /\ Held(after, d)
        BY <1>9, <3>1
      <4>2. after.tasks[t].status = "open"
        BY <1>2, <1>3, <1>6
      <4> QED
        BY <1>2, <1>4, <1>7, <3>1, <4>1, <4>2
    <3>2. CASE d # c
      <4>1. after.bound[d] = l.bound[d] /\ (Held(after, d) <=> Held(l, d))
        BY <1>9, <3>2
      <4>2. Held(l, d) => /\ l.bound[d].task \in TaskIds /\ l.bound[d].task # t
                          /\ after.tasks[l.bound[d].task] = l.tasks[l.bound[d].task]
        BY <1>6, <1>8 DEF LedgerSound, BoundWell
      <4> QED
        BY <4>1, <4>2 DEF LedgerSound, BoundWell
    <3> QED
      BY <3>1, <3>2
  <2> QED
    BY <2>1 DEF BoundWell
<1>11. TasksHeld(after)
  <2>1. ASSUME NEW u \in TaskIds, after.tasks[u].status # "none"
        PROVE  \E d \in Candidates : Held(after, d) /\ after.bound[d].task = u
    <3>1. CASE u = t
      BY <1>1, <1>4, <1>9, <3>1
    <3>2. CASE u # t
      <4>1. l.tasks[u].status # "none"
        BY <1>6, <2>1, <3>2
      <4>2. PICK d \in Candidates : Held(l, d) /\ l.bound[d].task = u
        BY <4>1 DEF LedgerSound, TasksHeld
      <4>3. d # c
        BY <1>8, <4>2
      <4> QED
        BY <1>9, <4>2, <4>3
    <3> QED
      BY <3>1, <3>2
  <2> QED
    BY <2>1 DEF TasksHeld
<1>12. OwnTasks(after)
  <2>1. ASSUME NEW d \in Candidates, NEW e \in Candidates,
               after.bound[d].relation = "accepted",
               after.bound[e].relation = "accepted",
               after.bound[d].task = after.bound[e].task
        PROVE  d = e
    <3>1. \A f \in Candidates : f # c /\ after.bound[f].relation = "accepted" =>
                                  /\ l.bound[f].relation = "accepted"
                                  /\ after.bound[f].task = l.bound[f].task
                                  /\ l.bound[f].task # t
      BY <1>8, <1>9 DEF Held
    <3>2. after.bound[c].task = t
      BY <1>1, <1>4, <1>9
    <3>3. CASE d # c /\ e # c
      BY <2>1, <3>1, <3>3 DEF LedgerSound, OwnTasks
    <3>4. CASE d = c \/ e = c
      BY <2>1, <3>1, <3>2, <3>4
    <3> QED
      BY <3>3, <3>4
  <2> QED
    BY <2>1 DEF OwnTasks
<1>13. Follows(after)
  <2>1. ASSUME NEW d \in Candidates, after.bound[d].relation = "accepted",
               after.bound[d].resolution = "current",
               after.bound[d].doc.state = "active"
        PROVE  \/ after.tasks[after.bound[d].task].content = after.bound[d].doc.content
               \/ /\ after.tasks[after.bound[d].task].content = LegacyContent
                  /\ observed[after.bound[d].doc] # "none"
    <3>1. CASE d = c
      <4>1. after.bound[d] = b /\ after.tasks[t] = task
        BY <1>2, <1>6, <1>9, <3>1
      <4> QED
        BY <1>3, <1>4, <4>1
    <3>2. CASE d # c
      <4>1. after.bound[d] = l.bound[d]
        BY <1>9, <3>2
      <4>2. Held(l, d)
        BY <2>1, <4>1 DEF Held
      <4>3. after.tasks[l.bound[d].task] = l.tasks[l.bound[d].task]
        BY <1>6, <1>8, <4>2 DEF LedgerSound, BoundWell
      <4> QED
        BY <2>1, <4>1, <4>3 DEF LedgerSound, Follows
    <3> QED
      BY <3>1, <3>2
  <2> QED
    BY <2>1 DEF Follows
<1>14. LedgerSound(after)
  BY <1>6, <1>10, <1>11, <1>12, <1>13 DEF LedgerSound
<1>15. Advances(l, doc, after)
  <2>1. \A d \in Candidates : Held(l, d) => Held(after, d)
    BY <1>9
  <2>2. Held(after, doc.cand)
    BY <1>1, <1>7, <1>9
  <2>3. \A u \in TaskIds : l.tasks[u].status # "none" => after.tasks[u] = l.tasks[u]
    BY <1>2, <1>6
  <2> QED
    BY <1>6, <1>14, <2>1, <2>2, <2>3 DEF Advances, AtWork
<1> QED
  BY <1>15 DEF after, b, task, t, c

LEMMA MoveSound ==
  ASSUME NEW l, LedgerSound(l), NEW doc \in Documents,
         l.bound[doc.cand].relation = "accepted", NEW after, Moves(l, doc, after)
  PROVE  Advances(l, doc, after)
<1>1. PICK task, b : Fits(l, doc, task, b) /\ after = Written(l, doc.cand, task, b)
  BY DEF Moves
<1> DEFINE c == doc.cand
           t == l.bound[c].task
<1>2. c \in Candidates /\ Held(l, c) /\ doc.cand = c
  BY DocumentFields DEF Held
<1>3. t \in TaskIds /\ l.tasks[t].status # "none" /\ l \in Ledgers
  BY <1>2, BoundParts DEF LedgerSound
<1>4. /\ task \in TaskRows /\ b \in Bindings /\ b.task = t
      /\ b.relation = "accepted" /\ b.doc = doc /\ task.status # "none"
      /\ b.resolution = "current" /\ doc.state = "active" => task.content = doc.content
      /\ l.tasks[t].status = "dropped" => task.status = "dropped"
      /\ AtWork(l.tasks[t]) => AtWork(task)
  BY <1>1 DEF Fits
<1>5. l.bound[c].relation = "accepted" /\ l.bound[c].task = t
  OBVIOUS
<1> HIDE DEF c, t
<1>6. /\ after \in Ledgers /\ after.conflict = l.conflict
      /\ \A u \in TaskIds : after.tasks[u] = IF u = t THEN task ELSE l.tasks[u]
      /\ \A d \in Candidates : after.bound[d] = IF d = c THEN b ELSE l.bound[d]
  BY <1>1, <1>2, <1>3, <1>4, WrittenParts
<1>7. \A d \in Candidates : /\ Held(after, d) <=> Held(l, d)
                            /\ after.bound[d].task = l.bound[d].task
                            /\ after.bound[d].relation = l.bound[d].relation
                            /\ d # c => after.bound[d] = l.bound[d]
                            /\ d = c => after.bound[d] = b
  BY <1>2, <1>4, <1>5, <1>6 DEF Held
<1>8. \A u \in TaskIds : after.tasks[u].status # "none" <=> l.tasks[u].status # "none"
  BY <1>3, <1>4, <1>6
<1>9. BoundWell(after)
  <2>1. ASSUME NEW d \in Candidates
        PROVE  /\ ~Held(after, d) => after.bound[d].doc = None
               /\ Held(after, d) =>
                    /\ after.bound[d].doc \in Documents /\ after.bound[d].doc.cand = d
                    /\ after.bound[d].task \in TaskIds
                    /\ after.tasks[after.bound[d].task].status # "none"
    <3>1. CASE d = c
      BY <1>2, <1>3, <1>4, <1>7, <1>8, <3>1
    <3>2. CASE d # c
      <4>1. after.bound[d] = l.bound[d] /\ (Held(after, d) <=> Held(l, d))
        BY <1>7, <3>2
      <4> QED
        BY <1>8, <4>1 DEF LedgerSound, BoundWell
    <3> QED
      BY <3>1, <3>2
  <2> QED
    BY <2>1 DEF BoundWell
<1>10. TasksHeld(after)
  BY <1>7, <1>8 DEF LedgerSound, TasksHeld
<1>11. OwnTasks(after)
  BY <1>7 DEF LedgerSound, OwnTasks
<1>12. Follows(after)
  <2>1. ASSUME NEW d \in Candidates, after.bound[d].relation = "accepted",
               after.bound[d].resolution = "current",
               after.bound[d].doc.state = "active"
        PROVE  \/ after.tasks[after.bound[d].task].content = after.bound[d].doc.content
               \/ /\ after.tasks[after.bound[d].task].content = LegacyContent
                  /\ observed[after.bound[d].doc] # "none"
    <3>1. CASE d = c
      <4>1. after.bound[d] = b /\ after.tasks[t] = task
        BY <1>3, <1>6, <1>7, <3>1
      <4> QED
        BY <1>4, <2>1, <4>1
    <3>2. CASE d # c
      <4>1. after.bound[d] = l.bound[d] /\ l.bound[d].relation = "accepted"
        BY <1>7, <2>1, <3>2
      <4>2. l.bound[d].task # t
        BY <1>2, <1>5, <3>2, <4>1 DEF LedgerSound, OwnTasks
      <4>3. l.bound[d].task \in TaskIds
        BY <4>1 DEF LedgerSound, BoundWell, Held
      <4>4. after.tasks[l.bound[d].task] = l.tasks[l.bound[d].task]
        BY <1>6, <4>2, <4>3
      <4> QED
        BY <2>1, <4>1, <4>4 DEF LedgerSound, Follows
    <3> QED
      BY <3>1, <3>2
  <2> QED
    BY <2>1 DEF Follows
<1>13. LedgerSound(after)
  BY <1>6, <1>9, <1>10, <1>11, <1>12 DEF LedgerSound
<1>14. \A u \in TaskIds :
         /\ l.tasks[u].status = "dropped" => after.tasks[u].status = "dropped"
         /\ AtWork(l.tasks[u]) => AtWork(after.tasks[u])
  BY <1>4, <1>6
<1>15. \A d \in Candidates : Held(l, d) => Held(after, d)
  BY <1>7
<1>16. Held(after, doc.cand) /\ after.conflict = l.conflict
  BY <1>2, <1>6, <1>7
<1> QED
  BY <1>13, <1>14, <1>15, <1>16 DEF Advances

\* A binding is of one of three relations.
LEMMA HeldRelation ==
  ASSUME NEW l, LedgerSound(l), NEW c \in Candidates, Held(l, c)
  PROVE  l.bound[c].relation \in {"accepted", "folded"}
<1>1. l.bound[c] \in Bindings
  BY DEF LedgerSound, Ledgers
<1>2. l.bound[c].relation \in Relations
  BY <1>1, BindingTypes
<1> QED
  BY <1>2 DEF Relations, Held

LEMMA AcceptAdvances ==
  ASSUME NEW l, LedgerSound(l), NEW doc \in Documents
  PROVE  Advances(l, doc, AcceptCandidate(l, doc))
<1> DEFINE b == l.bound[doc.cand]
           after == AcceptCandidate(l, doc)
<1>1. doc.cand \in Candidates
  BY DocumentFields
<1>2. CASE l.conflict \/ Contradicts(l, doc)
  <2>1. after = [l EXCEPT !.conflict = TRUE]
    BY <1>2 DEF AcceptCandidate
  <2> QED
    BY <2>1, ContradictionSound
<1>3. CASE ~l.conflict /\ ~Contradicts(l, doc)
  <2>1. CASE b.relation = "none" /\ doc.state # "withdrawn"
    <3>1. after = Written(l, doc.cand, NewTask(doc.content, doc.registry),
                          Bound(doc, FreeTask(l.tasks), "accepted", 1))
      BY <1>3, <2>1 DEF AcceptCandidate
    <3>2. ~Held(l, doc.cand)
      BY <2>1 DEF Held
    <3> QED
      BY <3>1, <3>2, MintSound
  <2>2. CASE b.relation = "none" /\ doc.state = "withdrawn"
    <3>1. after = l
      BY <1>3, <2>2 DEF AcceptCandidate
    <3> QED
      BY <1>3, <2>2, <3>1 DEF Advances
  <2>3. CASE b.relation # "none" /\ b.doc = doc
    <3>1. after = l
      BY <1>3, <2>3 DEF AcceptCandidate
    <3> QED
      BY <1>3, <2>3, <3>1 DEF Advances, Held
  <2>4. CASE b.relation # "none" /\ b.doc # doc
    <3>1. Held(l, doc.cand) /\ b.relation = "accepted"
      BY <1>1, <1>3, <2>4, HeldRelation DEF Held, Contradicts
    <3>2. Moves(l, doc, after)
      <4>1. CASE doc.state = "withdrawn"
        <5>1. after = Withdraw(l, doc)
          BY <1>3, <2>4, <4>1 DEF AcceptCandidate
        <5> QED
          BY <3>1, <4>1, <5>1, WithdrawMoves
      <4>2. CASE doc.state # "withdrawn" /\ b.state = "withdrawn"
        <5>1. after = Reactivate(l, doc)
          BY <1>3, <2>4, <4>2 DEF AcceptCandidate
        <5> QED
          BY <3>1, <5>1, ReactivateMoves
      <4>3. CASE doc.state # "withdrawn" /\ b.state # "withdrawn"
        <5>1. after = Revise(l, doc)
          BY <1>3, <2>4, <4>3 DEF AcceptCandidate
        <5> QED
          BY <3>1, <5>1, ReviseMoves
      <4> QED
        BY <4>1, <4>2, <4>3
    <3>3. l.bound[doc.cand].relation = "accepted"
      BY <3>1
    <3> HIDE DEF after, b
    <3>4. Advances(l, doc, after)
      BY ONLY LedgerSound(l), doc \in Documents, <3>2, <3>3, MoveSound
    <3> QED
      BY <3>4 DEF after
  <2> QED
    BY <2>1, <2>2, <2>3, <2>4
<1> QED
  BY <1>2, <1>3

-----------------------------------------------------------------------------
(* A whole pass                                                            *)

SoundLedgers == {l \in Ledgers : LedgerSound(l)}

Taken(n) == items[intake.cursor + n]

LEMMA PassSteps ==
  ASSUME LedgerSound(ledger), Batch \in Nat,
         \A n \in 1..Batch : Taken(n) \in Documents
  PROVE  \E f \in [0..Batch -> SoundLedgers] :
           /\ f[0] = ledger
           /\ \A n \in 1..Batch : f[n] = AcceptCandidate(f[n - 1], Taken(n))
           /\ Passed = f[Batch]
<1> DEFINE N == Batch
           Rule(f) == [n \in 0..N |-> IF n = 0 THEN ledger
                                      ELSE AcceptCandidate(f[n - 1], Taken(n))]
           step == [n \in 1..N |-> [l \in SoundLedgers |-> AcceptCandidate(l, Taken(n))]]
           g == CHOOSE f : f = Rule(f)
<1>1. N \in Nat /\ ledger \in SoundLedgers
  BY DEF SoundLedgers, LedgerSound
<1>2. step \in [1..N -> [SoundLedgers -> SoundLedgers]]
  <2>1. ASSUME NEW n \in 1..N, NEW l \in SoundLedgers
        PROVE  AcceptCandidate(l, Taken(n)) \in SoundLedgers
    <3>1. LedgerSound(l) /\ Taken(n) \in Documents
      BY DEF SoundLedgers
    <3>2. Advances(l, Taken(n), AcceptCandidate(l, Taken(n)))
      <4> HIDE DEF N
      <4> QED
        BY <3>1, AcceptAdvances
    <3> QED
      BY <3>2 DEF Advances, SoundLedgers, LedgerSound
  <2> QED
    BY <2>1
<1>3. Passed = g[N]
  BY DEF Passed, Taken
<1> HIDE DEF N
<1>4. PICK f : f \in [0..N -> SoundLedgers] /\ f[0] = ledger
               /\ \A n \in 1..N : f[n] = step[n][f[n - 1]]
  <2> HIDE DEF step
  <2>1. \E f : Computes(f, N, SoundLedgers, ledger, step)
    BY ONLY <1>1, <1>2, StepByStep
  <2> QED
    BY <2>1 DEF Computes
<1>5. \A n \in 0..N : n # 0 => n \in 1..N /\ n - 1 \in 0..N
  BY <1>1
<1>6. \A n \in 1..N : f[n] = AcceptCandidate(f[n - 1], Taken(n))
  <2>1. ASSUME NEW n \in 1..N PROVE f[n] = AcceptCandidate(f[n - 1], Taken(n))
    <3>1. n - 1 \in 0..N
      BY <1>1
    <3> QED
      BY <1>4, <3>1
  <2> QED
    BY <2>1
<1>7. f = Rule(f)
  BY <1>4, <1>5, <1>6
<1>8. g = Rule(g)
  <2> HIDE DEF Rule
  <2> QED
    BY <1>7
<1>9. g[0] = ledger /\ \A n \in 1..N : g[n] = AcceptCandidate(g[n - 1], Taken(n))
  <2>1. 0 \in 0..N /\ \A n \in 1..N : n \in 0..N /\ n # 0
    BY <1>1
  <2> HIDE DEF g
  <2> QED
    BY <1>8, <2>1
<1> HIDE DEF g
<1>10. 0..N \subseteq {n \in 0..N : g[n] = f[n]}
  <2> DEFINE S == {n \in 0..N : g[n] = f[n]}
  <2>1. 0 \in S
    BY <1>1, <1>4, <1>9
  <2>2. ASSUME NEW n \in 1..N, n - 1 \in S PROVE n \in S
    <3>1. g[n - 1] = f[n - 1] /\ n \in 0..N
      BY <1>1, <2>2
    <3> QED
      BY <1>6, <1>9, <3>1
  <2> HIDE DEF S
  <2> QED
    BY <1>1, <2>1, <2>2, AllTheWay DEF S
<1>11. g[N] = f[N]
  BY <1>1, <1>10
<1> QED
  BY <1>3, <1>4, <1>6, <1>11 DEF N

\* What a whole pass does.
PassAdvances(after) ==
    /\ LedgerSound(after)
    /\ \A c \in Candidates : Held(ledger, c) => Held(after, c)
    /\ ~after.conflict => /\ ~ledger.conflict
                          /\ \A n \in 1..Batch :
                               Held(after, Taken(n).cand) \/ Taken(n).state = "withdrawn"
    /\ \A t \in TaskIds :
         /\ ledger.tasks[t].status = "dropped" => after.tasks[t].status = "dropped"
         /\ AtWork(ledger.tasks[t]) => AtWork(after.tasks[t])

LEMMA PassKeeps ==
  ASSUME LedgerSound(ledger), Batch \in Nat,
         \A n \in 1..Batch : Taken(n) \in Documents
  PROVE  PassAdvances(Passed)
<1>1. PICK f \in [0..Batch -> SoundLedgers] :
           /\ f[0] = ledger
           /\ \A n \in 1..Batch : f[n] = AcceptCandidate(f[n - 1], Taken(n))
           /\ Passed = f[Batch]
  BY PassSteps
<1> DEFINE Keeps(l) == \A c \in Candidates : Held(ledger, c) => Held(l, c)
           Takes(l, n) == ~l.conflict =>
             /\ ~ledger.conflict
             /\ \A m \in 1..n : Held(l, Taken(m).cand) \/ Taken(m).state = "withdrawn"
           Stands(l) == \A t \in TaskIds :
             /\ ledger.tasks[t].status = "dropped" => l.tasks[t].status = "dropped"
             /\ AtWork(ledger.tasks[t]) => AtWork(l.tasks[t])
           S == {n \in 0..Batch : Keeps(f[n]) /\ Takes(f[n], n) /\ Stands(f[n])}
<1>2. 0 \in S
  <2>1. 0 \in 0..Batch /\ 1..0 = {}
    OBVIOUS
  <2>2. Keeps(f[0]) /\ Stands(f[0])
    BY <1>1
  <2>3. Takes(f[0], 0)
    BY <1>1, <2>1
  <2> HIDE DEF Keeps, Takes, Stands
  <2> QED
    BY <2>1, <2>2, <2>3
<1>3. ASSUME NEW n \in 1..Batch, n - 1 \in S PROVE n \in S
  <2>1. n \in Int /\ n \in 0..Batch /\ n - 1 \in 0..Batch /\ n - 1 \in Int
    OBVIOUS
  <2>2. \A m \in 1..n : m = n \/ m \in 1..(n - 1)
    BY <2>1
  <2> DEFINE l == f[n - 1]
             k == f[n]
             doc == Taken(n)
  <2>3. LedgerSound(l) /\ doc \in Documents
    BY <1>1, <2>1 DEF SoundLedgers
  <2>4. k = AcceptCandidate(l, doc)
    BY <1>1
  <2>5. Keeps(l) /\ Takes(l, n - 1) /\ Stands(l)
    BY <1>3
  <2> HIDE DEF l, k, doc
  <2>6. Advances(l, doc, k)
    BY <2>3, <2>4, AcceptAdvances
  <2>7. Keeps(k)
    BY <2>5, <2>6 DEF Advances
  <2>8. Stands(k)
    BY <2>5, <2>6 DEF Advances
  <2>9. Takes(k, n)
    <3>1. SUFFICES ASSUME ~k.conflict
                   PROVE  /\ ~ledger.conflict
                          /\ \A m \in 1..n : Held(k, Taken(m).cand)
                                             \/ Taken(m).state = "withdrawn"
      OBVIOUS
    <3>2. ~l.conflict /\ (Held(k, doc.cand) \/ doc.state = "withdrawn")
      BY <2>6, <3>1 DEF Advances
    <3>3. ~ledger.conflict
      BY <2>5, <3>2
    <3>4. ASSUME NEW m \in 1..n
          PROVE  Held(k, Taken(m).cand) \/ Taken(m).state = "withdrawn"
      <4>1. CASE m = n
        BY <3>2, <4>1 DEF doc
      <4>2. CASE m \in 1..(n - 1)
        <5>1. n - 1 \in 0..Batch /\ m \in 1..Batch
          BY <2>1, <4>2
        <5>2. Taken(m).cand \in Candidates
          BY <5>1, DocumentFields
        <5>3. Held(l, Taken(m).cand) \/ Taken(m).state = "withdrawn"
          BY <2>5, <3>2, <4>2
        <5> QED
          BY <2>6, <5>2, <5>3 DEF Advances
      <4> QED
        BY <2>2, <4>1, <4>2
    <3> QED
      BY <3>3, <3>4
  <2> HIDE DEF Keeps, Takes, Stands
  <2> QED
    BY <2>1, <2>7, <2>8, <2>9 DEF k
<1>4. Batch \in S
  <2> HIDE DEF S
  <2>1. 0..Batch \subseteq S
    BY <1>2, <1>3, AllTheWay
  <2>2. Batch \in 0..Batch
    OBVIOUS
  <2> QED
    BY <2>1, <2>2
<1>5. Keeps(Passed) /\ Takes(Passed, Batch) /\ Stands(Passed)
  <2> HIDE DEF Keeps, Takes, Stands
  <2> QED
    BY <1>1, <1>4
<1>6. LedgerSound(Passed)
  <2>1. Batch \in 0..Batch
    OBVIOUS
  <2> QED
    BY <1>1, <2>1 DEF SoundLedgers
<1> QED
  BY <1>5, <1>6 DEF PassAdvances

-----------------------------------------------------------------------------
(* The bootstrap                                                           *)

HeldOf(l) == {c \in Candidates : Held(l, c)}

\* Candidates that are taken over with the producer's task t, at most one of
\* them as its owner, leave the ledger sound.
LEMMA TakenOverSound ==
  ASSUME LedgerSound(ledger), NEW after \in Ledgers, NEW t \in TaskIds,
         NEW new \in SUBSET (Candidates \ HeldOf(ledger)),
         \A c \in Candidates :
           /\ c \notin new => after.bound[c] = ledger.bound[c]
           /\ c \in new => /\ after.bound[c].doc \in Documents
                           /\ after.bound[c].doc.cand = c /\ after.bound[c].task = t
                           /\ after.bound[c].relation \in {"accepted", "folded"}
                           /\ observed[after.bound[c].doc] # "none",
         \A c, d \in new : after.bound[c].relation = "accepted"
                             /\ after.bound[d].relation = "accepted" => c = d,
         \A c \in new, d \in HeldOf(ledger) :
           after.bound[c].relation = "accepted" => ledger.bound[d].relation # "accepted",
         after.tasks[t].status # "none",
         new # {} => after.tasks[t].content = LegacyContent,
         \A u \in TaskIds : u # t => after.tasks[u] = ledger.tasks[u],
         \A d \in HeldOf(ledger) :
           after.tasks[ledger.bound[d].task] = ledger.tasks[ledger.bound[d].task],
         \/ new # {}
         \/ \E d \in HeldOf(ledger) : ledger.bound[d].task = t
  PROVE  LedgerSound(after)
<1>1. \A c \in Candidates : /\ c \in new => Held(after, c) /\ c \notin HeldOf(ledger)
                            /\ c \notin new => (Held(after, c) <=> Held(ledger, c))
                            /\ c \in HeldOf(ledger) <=> Held(ledger, c)
  BY DEF Held, HeldOf
<1>2. BoundWell(after)
  <2>1. ASSUME NEW c \in Candidates
        PROVE  /\ ~Held(after, c) => after.bound[c].doc = None
               /\ Held(after, c) =>
                    /\ after.bound[c].doc \in Documents /\ after.bound[c].doc.cand = c
                    /\ after.bound[c].task \in TaskIds
                    /\ after.tasks[after.bound[c].task].status # "none"
    <3>1. CASE c \in new
      BY <1>1, <3>1
    <3>2. CASE c \notin new
      <4>1. after.bound[c] = ledger.bound[c] /\ (Held(after, c) <=> Held(ledger, c))
        BY <1>1, <3>2
      <4>2. Held(ledger, c) =>
              after.tasks[ledger.bound[c].task] = ledger.tasks[ledger.bound[c].task]
        BY <1>1
      <4> QED
        BY <4>1, <4>2 DEF LedgerSound, BoundWell
    <3> QED
      BY <3>1, <3>2
  <2> QED
    BY <2>1 DEF BoundWell
<1>3. TasksHeld(after)
  <2>1. ASSUME NEW u \in TaskIds, after.tasks[u].status # "none"
        PROVE  \E c \in Candidates : Held(after, c) /\ after.bound[c].task = u
    <3>1. CASE u = t
      <4>1. CASE new # {}
        <5>1. PICK c \in new : TRUE
          BY <4>1
        <5>2. c \in Candidates
          BY <5>1
        <5> QED
          BY <1>1, <3>1, <5>1, <5>2
      <4>2. CASE \E d \in HeldOf(ledger) : ledger.bound[d].task = t
        <5>1. PICK d \in HeldOf(ledger) : ledger.bound[d].task = t
          BY <4>2
        <5>2. d \in Candidates /\ d \notin new /\ Held(after, d)
          BY <1>1, <5>1 DEF HeldOf
        <5> QED
          BY <3>1, <5>1, <5>2
      <4> QED
        BY <4>1, <4>2
    <3>2. CASE u # t
      <4>1. PICK c \in Candidates : Held(ledger, c) /\ ledger.bound[c].task = u
        BY <2>1, <3>2 DEF LedgerSound, TasksHeld
      <4>2. c \notin new
        BY <1>1, <4>1
      <4> QED
        BY <1>1, <4>1, <4>2
    <3> QED
      BY <3>1, <3>2
  <2> QED
    BY <2>1 DEF TasksHeld
<1>4. OwnTasks(after)
  <2>1. ASSUME NEW c \in Candidates, NEW d \in Candidates,
               after.bound[c].relation = "accepted",
               after.bound[d].relation = "accepted",
               after.bound[c].task = after.bound[d].task
        PROVE  c = d
    <3>1. CASE c \in new /\ d \in new
      BY <2>1, <3>1
    <3>2. CASE c \in new /\ d \notin new
      <4>1. d \in HeldOf(ledger) /\ ledger.bound[d].relation = "accepted"
        BY <2>1, <3>2 DEF HeldOf, Held
      <4> QED
        BY <2>1, <3>2, <4>1
    <3>3. CASE c \notin new /\ d \in new
      <4>1. c \in HeldOf(ledger) /\ ledger.bound[c].relation = "accepted"
        BY <2>1, <3>3 DEF HeldOf, Held
      <4> QED
        BY <2>1, <3>3, <4>1
    <3>4. CASE c \notin new /\ d \notin new
      BY <2>1, <3>4 DEF LedgerSound, OwnTasks
    <3> QED
      BY <3>1, <3>2, <3>3, <3>4
  <2> QED
    BY <2>1 DEF OwnTasks
<1>5. Follows(after)
  <2>1. ASSUME NEW c \in Candidates, after.bound[c].relation = "accepted",
               after.bound[c].resolution = "current",
               after.bound[c].doc.state = "active"
        PROVE  \/ after.tasks[after.bound[c].task].content = after.bound[c].doc.content
               \/ /\ after.tasks[after.bound[c].task].content = LegacyContent
                  /\ observed[after.bound[c].doc] # "none"
    <3>1. CASE c \in new
      BY <3>1
    <3>2. CASE c \notin new
      <4>1. after.bound[c] = ledger.bound[c] /\ c \in HeldOf(ledger)
        BY <2>1, <3>2 DEF HeldOf, Held
      <4>2. after.tasks[ledger.bound[c].task] = ledger.tasks[ledger.bound[c].task]
        BY <4>1
      <4> QED
        BY <2>1, <4>1, <4>2 DEF LedgerSound, Follows
    <3> QED
      BY <3>1, <3>2
  <2> QED
    BY <2>1 DEF Follows
<1> QED
  BY <1>2, <1>3, <1>4, <1>5 DEF LedgerSound

\* Of a finite set with at most one element, all elements are the same.
LEMMA AtMostOne ==
  ASSUME NEW S, IsFiniteSet(S), ~(Cardinality(S) > 1), NEW x \in S, NEW y \in S
  PROVE  x = y
<1>1. Cardinality(S) \in Nat
  BY FS_CardinalityType
<1>2. Cardinality(S) = 0 \/ Cardinality(S) = 1
  BY <1>1
<1>3. Cardinality(S) # 0
  BY FS_EmptySet
<1>4. \E z : S = {z}
  BY <1>2, <1>3, FS_Singleton
<1> QED
  BY <1>4

LEMMA BootstrapSound ==
  ASSUME FeedInv, InboxInv, LedgerSound(ledger), NEW equivalent \in SUBSET Candidates,
         BootstrapWrites(equivalent)
  PROVE  /\ \E l : l = ledger' /\ LedgerSound(l)
         /\ \A c \in Candidates : Held(ledger, c) => ledger'.bound[c] = ledger.bound[c]
<1> DEFINE group  == Mapped(equivalent)
           minted == {c \in group : observed[current[c]] = "minted"}
           held   == {c \in Candidates : ledger.bound[c].relation # "none"}
           t      == IF held = {} THEN FreeTask(ledger.tasks)
                     ELSE ledger.bound[CHOOSE c \in held : TRUE].task
           Relation(c) == IF c \in minted THEN "accepted" ELSE "folded"
           version == IF held = {} THEN 1 ELSE ledger.tasks[t].version
           row  == NewTask(LegacyContent, current[CHOOSE m \in minted : TRUE].registry)
           tasks == IF held # {} THEN ledger.tasks ELSE [ledger.tasks EXCEPT ![t] = row]
           Entry(c) == IF c \in group \ held
                       THEN Bound(current[c], t, Relation(c), version)
                       ELSE ledger.bound[c]
           bound == [c \in Candidates |-> Entry(c)]
<1>1. \/ UNCHANGED ledger
      \/ /\ ledger' = [ledger EXCEPT !.tasks = tasks, !.bound = bound]
         /\ ~(Cardinality(minted) > 1) /\ group # {}
         /\ held = {} => minted # {}
         /\ held # {} => ledger.tasks[t].content = LegacyContent
         /\ \A c \in held, m \in minted :
              ledger.bound[c].relation = "accepted" => c = m
  BY DEF BootstrapWrites
<1>2. CASE UNCHANGED ledger
  BY <1>2
<1>3. CASE /\ ledger' = [ledger EXCEPT !.tasks = tasks, !.bound = bound]
           /\ ~(Cardinality(minted) > 1) /\ group # {}
           /\ held = {} => minted # {}
           /\ held # {} => ledger.tasks[t].content = LegacyContent
           /\ \A c \in held, m \in minted :
                ledger.bound[c].relation = "accepted" => c = m
  <2>1. /\ group \subseteq Candidates /\ minted \subseteq group /\ held \subseteq Candidates
        /\ \A c \in group : /\ current[c] \in Documents /\ current[c].cand = c
                            /\ observed[current[c]] # "none"
    BY CurrentRevision DEF Mapped
  <2>2. held = HeldOf(ledger) /\ \A c \in Candidates : c \in held <=> Held(ledger, c)
    BY DEF HeldOf, Held
  <2>3. \A c, d \in minted : c = d
    <3>1. IsFiniteSet(minted)
      BY <2>1, CandidatesFinite, FS_Subset
    <3> HIDE DEF minted
    <3> QED
      BY <1>3, <3>1, AtMostOne
  <2>4. ledger \in Ledgers /\ ledger.tasks \in [TaskIds -> TaskRows]
        /\ ledger.bound \in [Candidates -> Bindings]
    BY DEF LedgerSound, Ledgers
  <2>5. /\ t \in TaskIds
        /\ held # {} => /\ ledger.tasks[t].status # "none"
                        /\ \E d \in held : ledger.bound[d].task = t
    <3>1. CASE held = {}
      <4>1. PICK c \in Candidates : ~Held(ledger, c)
        BY <1>3, <2>1, <2>2, <3>1
      <4> QED
        BY <3>1, <4>1, FreeTaskIsFree
    <3>2. CASE held # {}
      <4> DEFINE d == CHOOSE c \in held : TRUE
      <4>1. d \in held /\ t = ledger.bound[d].task
        BY <3>2
      <4> HIDE DEF d
      <4>2. d \in Candidates /\ Held(ledger, d)
        BY <2>1, <2>2, <4>1
      <4> QED
        BY <4>1, <4>2 DEF LedgerSound, BoundWell
    <3> QED
      BY <3>1, <3>2
  <2>6. held = {} => row \in TaskRows /\ row.status = "open" /\ row.content = LegacyContent
    <3> DEFINE m == CHOOSE c \in minted : TRUE
    <3>1. SUFFICES ASSUME held = {}
                   PROVE  /\ row \in TaskRows /\ row.status = "open"
                          /\ row.content = LegacyContent
      OBVIOUS
    <3>2. m \in minted
      BY <1>3, <3>1
    <3>3. current[m] \in Documents
      BY <2>1, <3>2
    <3>4. current[m].registry \in Registries /\ LegacyContent \in Texts
      BY <3>3, DocumentFields DEF Texts
    <3> HIDE DEF m
    <3> QED
      BY <3>4, NewTaskTyped DEF m
  <2>7. version \in Nat
    <3> DEFINE old == ledger.tasks[t]
    <3>1. old \in TaskRows
      BY <2>4, <2>5
    <3> HIDE DEF old
    <3>2. old.version \in Nat
      BY ONLY <3>1, RowTypes
    <3> QED
      BY <3>2 DEF old
  <2>8. \A c \in Candidates :
          /\ Entry(c) \in Bindings
          /\ c \notin group \ held => Entry(c) = ledger.bound[c]
          /\ c \in group \ held =>
               /\ Entry(c).doc = current[c] /\ Entry(c).task = t
               /\ Entry(c).relation = Relation(c)
    <3>1. SUFFICES ASSUME NEW c \in Candidates
                   PROVE  /\ Entry(c) \in Bindings
                          /\ c \notin group \ held => Entry(c) = ledger.bound[c]
                          /\ c \in group \ held =>
                               /\ Entry(c).doc = current[c] /\ Entry(c).task = t
                               /\ Entry(c).relation = Relation(c)
      OBVIOUS
    <3>2. CASE c \in group \ held
      <4> DEFINE r == Relation(c)
                 doc == current[c]
      <4>1. Entry(c) = Bound(doc, t, r, version)
        BY <3>2
      <4>2. r \in Relations /\ doc \in Documents
        BY <2>1, <3>2 DEF Relations
      <4> HIDE DEF r, doc, t, version, Entry
      <4>3. /\ Bound(doc, t, r, version) \in Bindings
            /\ Bound(doc, t, r, version).doc = doc
            /\ Bound(doc, t, r, version).task = t
            /\ Bound(doc, t, r, version).relation = r
        BY <2>5, <2>7, <4>2, BoundTyped
      <4> QED
        BY <3>2, <4>1, <4>3 DEF r, doc
    <3>3. CASE c \notin group \ held
      <4>1. Entry(c) = ledger.bound[c]
        BY <3>3
      <4> HIDE DEF Entry
      <4> QED
        BY <2>4, <3>3, <4>1
    <3> QED
      BY <3>2, <3>3
  <2>9. tasks \in [TaskIds -> TaskRows]
    <3> HIDE DEF t, row, held
    <3> QED
      BY <2>4, <2>5, <2>6
  <2>10. bound \in [Candidates -> Bindings]
    <3> HIDE DEF Entry
    <3> QED
      BY <2>8
  <2>11. /\ tasks[t].status # "none" /\ tasks[t].content = LegacyContent
         /\ \A u \in TaskIds : u # t => tasks[u] = ledger.tasks[u]
         /\ held # {} => tasks = ledger.tasks
    <3> HIDE DEF t, row, held
    <3> QED
      BY <1>3, <2>4, <2>5, <2>6
  <2> DEFINE new == group \ held
  <2>12. \A c \in new : /\ Relation(c) \in {"accepted", "folded"}
                        /\ Relation(c) = "accepted" => c \in minted
    OBVIOUS
  <2>13. PICK after : after = ledger'
    OBVIOUS
  <2> \A c \in Candidates : bound[c] = Entry(c)
    <3> HIDE DEF Entry
    <3> QED
      OBVIOUS
  <2> HIDE DEF bound, Entry, tasks, t, version, row, minted
  <2>14. after \in Ledgers /\ after.tasks = tasks /\ after.bound = bound
    BY <1>3, <2>4, <2>9, <2>10, <2>13 DEF Ledgers
  <2>15. \A c \in new : /\ after.bound[c].doc = current[c] /\ after.bound[c].task = t
                        /\ after.bound[c].relation = Relation(c)
    BY <2>1, <2>8, <2>14
  <2>16. \A c \in Candidates : c \notin new => after.bound[c] = ledger.bound[c]
    BY <2>8, <2>14
  <2> HIDE DEF group, held, Relation
  <2>17. new \in SUBSET (Candidates \ HeldOf(ledger))
    BY <2>1, <2>2
  <2>18. \A c, d \in new : after.bound[c].relation = "accepted"
                             /\ after.bound[d].relation = "accepted" => c = d
    BY <2>3, <2>12, <2>15
  <2>19. \A c \in new, d \in HeldOf(ledger) :
           after.bound[c].relation = "accepted" => ledger.bound[d].relation # "accepted"
    BY <1>3, <2>2, <2>12, <2>15
  <2>20. \A d \in HeldOf(ledger) :
           after.tasks[ledger.bound[d].task] = ledger.tasks[ledger.bound[d].task]
    BY <2>2, <2>11, <2>14
  <2>21. new # {} \/ \E d \in HeldOf(ledger) : ledger.bound[d].task = t
    BY <1>3, <2>2, <2>5
  <2>22. \A c \in Candidates :
           /\ c \notin new => after.bound[c] = ledger.bound[c]
           /\ c \in new => /\ after.bound[c].doc \in Documents
                           /\ after.bound[c].doc.cand = c /\ after.bound[c].task = t
                           /\ after.bound[c].relation \in {"accepted", "folded"}
                           /\ observed[after.bound[c].doc] # "none"
    BY <2>1, <2>12, <2>15, <2>16
  <2>23. /\ after.tasks[t].status # "none" /\ after.tasks[t].content = LegacyContent
         /\ \A u \in TaskIds : u # t => after.tasks[u] = ledger.tasks[u]
    BY <2>11, <2>14
  <2> HIDE DEF new
  <2>24. LedgerSound(after)
    BY ONLY LedgerSound(ledger), <2>5, <2>14, <2>17, <2>18, <2>19, <2>20, <2>21,
            <2>22, <2>23, TakenOverSound
  <2>25. \A c \in Candidates : Held(ledger, c) => after.bound[c] = ledger.bound[c]
    BY <2>2, <2>16 DEF new
  <2> QED
    BY <2>13, <2>24, <2>25
<1> QED
  BY <1>1, <1>2, <1>3

-----------------------------------------------------------------------------
(* What a step makes of a sound ledger                                     *)

Sound == LedgerSound(ledger)

\* What the ledger is after a step is sound then too: an observation is final.
LEMMA SoundNext ==
  ASSUME NEW l, LedgerSound(l), l = ledger',
         \A doc \in Documents : observed[doc] # "none" => observed'[doc] # "none"
  PROVE  Sound'
<1>1. BoundWell(ledger)' /\ TasksHeld(ledger)' /\ OwnTasks(ledger)'
  BY DEF LedgerSound, BoundWell, TasksHeld, OwnTasks, Held
<1>2. Follows(ledger)'
  <2>1. ASSUME NEW c \in Candidates, l.bound[c].relation = "accepted",
               l.bound[c].resolution = "current", l.bound[c].doc.state = "active"
        PROVE  \/ l.tasks[l.bound[c].task].content = l.bound[c].doc.content
               \/ /\ l.tasks[l.bound[c].task].content = LegacyContent
                  /\ observed'[l.bound[c].doc] # "none"
    <3>1. l.bound[c].doc \in Documents
      BY <2>1 DEF LedgerSound, BoundWell, Held
    <3>2. \/ l.tasks[l.bound[c].task].content = l.bound[c].doc.content
          \/ /\ l.tasks[l.bound[c].task].content = LegacyContent
             /\ observed[l.bound[c].doc] # "none"
      BY <2>1 DEF LedgerSound, Follows
    <3> QED
      BY <3>1, <3>2
  <2> QED
    BY <2>1 DEF Follows
<1>3. ledger' \in Ledgers
  BY DEF LedgerSound
<1> QED
  BY <1>1, <1>2, <1>3 DEF Sound, LedgerSound

LEMMA SoundStays ==
  ASSUME Sound, UNCHANGED ledger,
         \A doc \in Documents : observed[doc] # "none" => observed'[doc] # "none"
  PROVE  Sound'
<1>1. PICK l : l = ledger
  OBVIOUS
<1> QED
  BY <1>1, SoundNext DEF Sound

\* A row that is there stays there, with the words it has.
LEMMA RowMoves ==
  ASSUME Sound, UNCHANGED observed, NEW t \in TaskIds, NEW row \in TaskRows,
         row.content = ledger.tasks[t].content,
         row.status = "none" <=> ledger.tasks[t].status = "none",
         ledger' = [ledger EXCEPT !.tasks[t] = row]
  PROVE  Sound' /\ ledger'.bound = ledger.bound
<1>1. PICK l : l = ledger'
  OBVIOUS
<1>2. ledger \in Ledgers /\ ledger.tasks \in [TaskIds -> TaskRows]
  BY DEF Sound, LedgerSound, Ledgers
<1>3. l \in Ledgers
  BY <1>1, <1>2 DEF Ledgers
<1>4. l.bound = ledger.bound
  BY <1>1, <1>2 DEF Ledgers
<1>5. l.tasks = [ledger.tasks EXCEPT ![t] = row]
  BY <1>1, <1>2 DEF Ledgers
<1>6. \A u \in TaskIds :
        /\ l.tasks[u].content = ledger.tasks[u].content
        /\ l.tasks[u].status = "none" <=> ledger.tasks[u].status = "none"
  BY <1>2, <1>5
<1>7. BoundWell(ledger) /\ TasksHeld(ledger) /\ OwnTasks(ledger) /\ Follows(ledger)
  BY DEF Sound, LedgerSound
<1>8. BoundWell(l)
  BY <1>4, <1>6, <1>7 DEF BoundWell, Held
<1>9. TasksHeld(l) /\ OwnTasks(l)
  BY <1>4, <1>6, <1>7 DEF TasksHeld, OwnTasks, Held
<1>10. Follows(l)
  <2>1. \A c \in Candidates : l.bound[c].relation = "accepted" =>
                                l.bound[c].task \in TaskIds
    BY <1>4, <1>7 DEF BoundWell, Held
  <2> QED
    BY <1>4, <1>6, <1>7, <2>1 DEF Follows
<1>11. LedgerSound(l)
  BY <1>3, <1>8, <1>9, <1>10 DEF LedgerSound
<1>12. Sound'
  BY <1>1, <1>11, SoundNext
<1> QED
  BY <1>1, <1>4, <1>12

\* What the reader and the agents do to a row.
LEMMA ReaderRows ==
  ASSUME Sound, NEW t \in TaskIds,
         \/ ReaderCloses(t, "done") \/ ReaderCloses(t, "dropped") \/ ReaderReopens(t)
         \/ \E how \in Works : WorkBegins(t, how)
         \/ WorkCompletes(t)
  PROVE  Sound' /\ ledger'.bound = ledger.bound
<1> DEFINE old == ledger.tasks[t]
<1>1. old \in TaskRows /\ old.version + 1 \in Nat /\ old.reopens \in Nat
  <2>1. old \in TaskRows
    BY DEF Sound, LedgerSound, Ledgers
  <2> HIDE DEF old
  <2> QED
    BY <2>1, RowTypes
<1>2. {"open", "done", "dropped"} \subseteq Statuses /\ "none" \in Statuses
  BY DEF Statuses
<1>3. UNCHANGED observed
  BY DEF ReaderCloses, ReaderReopens, WorkBegins, WorkCompletes, Shadow
<1>4. \A row \in TaskRows :
        /\ row.content = old.content
        /\ row.status = "none" <=> old.status = "none"
        /\ ledger' = [ledger EXCEPT !.tasks[t] = row]
        => Sound' /\ ledger'.bound = ledger.bound
  BY <1>3, RowMoves
<1>5. ASSUME NEW s \in {"done", "dropped"}, ReaderCloses(t, s)
      PROVE  Sound' /\ ledger'.bound = ledger.bound
  <2>1. /\ old.status = "open"
        /\ \E row \in {Closed(old, s), Ended(Closed(old, s))} :
             ledger' = [ledger EXCEPT !.tasks[t] = row]
    BY ONLY <1>5 DEF ReaderCloses
  <2> HIDE DEF old
  <2>2. PICK closed \in TaskRows : closed = Closed(old, s)
    BY <1>1, ClosedWrites
  <2>3. closed.status = s /\ closed.content = old.content
    BY <1>1, <2>2, ClosedWrites
  <2>4. /\ Ended(closed) \in TaskRows /\ Ended(closed).status = s
        /\ Ended(closed).content = old.content
    BY <2>3, EndedWrites
  <2>5. PICK row \in TaskRows : /\ ledger' = [ledger EXCEPT !.tasks[t] = row]
                                /\ row.status = s /\ row.content = old.content
    BY <2>1, <2>2, <2>3, <2>4
  <2> QED
    BY <1>4, <2>1, <2>5
<1>6. ASSUME ReaderReopens(t) PROVE Sound' /\ ledger'.bound = ledger.bound
  <2> DEFINE v   == old.version + 1
             n   == IF old.status = "done" THEN old.reopens + 1 ELSE old.reopens
             new == [old EXCEPT !.status = "open", !.version = v, !.reopens = n]
             row == Reopened(old)
  <2>1. ledger' = [ledger EXCEPT !.tasks[t] = row] /\ old.status \in {"done", "dropped"}
    BY ONLY <1>6 DEF ReaderReopens
  <2>2. row = Told(new, v)
    BY DEF Reopened
  <2>3. n \in Nat /\ v \in Nat
    BY <1>1
  <2>4. new \in TaskRows /\ new.status = "open" /\ new.content = old.content
    <3> HIDE DEF v, old, n
    <3>1. new \in TaskRows
      BY <1>1, <1>2, <2>3, RowTypes
    <3>2. new.status = "open" /\ new.content = old.content
      BY <1>1, RowFields
    <3> QED
      BY <3>1, <3>2
  <2> HIDE DEF row, new, v, old
  <2>5. row \in TaskRows /\ row.status = "open" /\ row.content = old.content
    BY <2>2, <2>3, <2>4, ToldWrites
  <2> QED
    BY <1>4, <2>1, <2>5
<1>7. ASSUME NEW how \in Works, WorkBegins(t, how)
      PROVE  Sound' /\ ledger'.bound = ledger.bound
  <2> DEFINE row == [old EXCEPT !.work = how, !.answered = 0]
  <2>1. ledger' = [ledger EXCEPT !.tasks[t] = row]
    <3>1. ledger' = [ledger EXCEPT !.tasks[t] = [@ EXCEPT !.work = how, !.answered = 0]]
      BY <1>7 DEF WorkBegins
    <3>2. ledger \in Ledgers
      BY DEF Sound, LedgerSound
    <3> QED
      BY <3>1, <3>2 DEF Ledgers
  <2> HIDE DEF old
  <2>2. row \in TaskRows /\ row.status = old.status /\ row.content = old.content
    <3>1. row \in TaskRows
      BY <1>1, RowTypes
    <3>2. row.status = old.status /\ row.content = old.content
      BY <1>1, RowFields
    <3> QED
      BY <3>1, <3>2
  <2> HIDE DEF row
  <2> QED
    BY <1>4, <2>1, <2>2
<1>8. ASSUME WorkCompletes(t) PROVE Sound' /\ ledger'.bound = ledger.bound
  <2>1. ledger' = [ledger EXCEPT !.tasks[t] = Ended(old)]
    BY <1>8 DEF WorkCompletes
  <2> HIDE DEF old
  <2>2. /\ Ended(old) \in TaskRows /\ Ended(old).status = old.status
        /\ Ended(old).content = old.content
    BY <1>1, EndedWrites
  <2> QED
    BY <1>4, <2>1, <2>2
<1> QED
  BY <1>5, <1>6, <1>7, <1>8

-----------------------------------------------------------------------------
(* What was settled stays settled                                          *)

RestTyped ==
    /\ observed \in [Documents -> Dispositions]
    /\ refused \subseteq Documents
    /\ intake \in [active : BOOLEAN, from : Nat, cursor : Nat]
    /\ intake.from <= intake.cursor /\ intake.cursor <= Cursor
    /\ reader \in 0..MaxReader

\* Before the cutover no pass has taken anything.
Cut == ~intake.active => intake.cursor = 0

IntakeInv == FeedInv /\ InboxInv /\ RestTyped /\ Cut /\ Sound /\ NoneLost

ItemsGrow == /\ Cursor \in Nat /\ Cursor' \in Nat /\ Cursor <= Cursor'
             /\ \A n \in 1..Cursor : items'[n] = items[n]

LEMMA NextItems ==
  ASSUME FeedInv, FeedInv', [Next]_vars
  PROVE  ItemsGrow
<1>1. Cursor \in Nat /\ Cursor' \in Nat
  <2>1. items \in Seq(Documents) /\ items' \in Seq(Documents)
    BY DEF FeedInv, FeedTyped
  <2> QED
    BY <2>1, LenProperties DEF Cursor
<1>2. ASSUME NEW docs \in Seq(Documents), items' = items \o docs PROVE ItemsGrow
  <2>1. items \in Seq(Documents)
    BY DEF FeedInv, FeedTyped
  <2>2. /\ Len(items') = Len(items) + Len(docs) /\ Len(docs) \in Nat
        /\ \A n \in 1..Len(items) : items'[n] = items[n]
    BY ONLY <1>2, <2>1, ConcatProperties, LenProperties
  <2>3. Len(items) \in Nat /\ Len(items') \in Nat
    BY <1>1 DEF Cursor
  <2>4. Len(items) <= Len(items')
    BY ONLY <2>2, <2>3
  <2> QED
    BY ONLY <2>2, <2>3, <2>4 DEF ItemsGrow, Cursor
<1>3. ASSUME NEW i \in Importers, ImportPage(i) PROVE ItemsGrow
  <2>1. importing[i] \in 1..Len(outbox) /\ outbox \in Seq(FeedPages)
    BY <1>3, ImportCases, FeedTypes DEF FeedInv
  <2>2. outbox[importing[i]].docs \in Seq(Documents)
    BY <2>1, PagesTyped
  <2>3. items' = items \o outbox[importing[i]].docs \/ items' = items
    BY <1>3, ImportCases
  <2> QED
    BY <1>1, <1>2, <2>2, <2>3 DEF ItemsGrow, Cursor
<1>4. InboxStaysToo => ItemsGrow
  BY <1>1 DEF InboxStaysToo, ItemsGrow, Cursor
<1>5. ASSUME NEW i \in Importers, StartImport(i) \/ CrashImport(i)
      PROVE  InboxStaysToo
  BY <1>5 DEF StartImport, CrashImport, InboxStaysToo, Inbox
<1>6. ASSUME NEW docs, Export(docs) PROVE InboxStaysToo
  BY <1>6 DEF Export, InboxStaysToo, Inbox
<1>7. ASSUME NEW doc, NEW disposition, ImportObservation(doc, disposition)
      PROVE  InboxStaysToo
  BY <1>7 DEF ImportObservation, InboxStaysToo, Inbox
<1>8. ASSUME NEW equivalent, BootstrapWrites(equivalent) PROVE InboxStaysToo
  BY <1>8 DEF BootstrapWrites, InboxStaysToo, Inbox
<1>9. ASSUME Rewrite \/ BootstrapReads \/ RefuseDivergent \/ Activate \/ NativePass
      PROVE  InboxStaysToo
  BY <1>9 DEF Rewrite, BootstrapReads, RefuseDivergent, Activate, NativePass,
              InboxStaysToo, Inbox
<1>10. ASSUME NEW t, NEW how, \/ ReaderCloses(t, how) \/ ReaderReopens(t)
                              \/ WorkBegins(t, how) \/ WorkCompletes(t)
       PROVE  InboxStaysToo
  BY <1>10 DEF ReaderCloses, ReaderReopens, WorkBegins, WorkCompletes,
               InboxStaysToo, Inbox
<1>11. UNCHANGED vars => InboxStaysToo
  BY DEF vars, InboxStaysToo
<1> QED
  BY <1>3, <1>4, <1>5, <1>6, <1>7, <1>8, <1>9, <1>10, <1>11 DEF Next, Import

\* What was settled stays settled, while the passes take nothing more.
LEMMA SettledStays ==
  ASSUME RestTyped, NoneLost, ItemsGrow, intake'.cursor = intake.cursor,
         \A c \in Candidates : Held(ledger, c) => Held(ledger, c)',
         \A n \in 1..intake.cursor : items[n] \in Documents,
         \A doc \in Documents : observed[doc] = "refused" => observed'[doc] = "refused",
         refused \subseteq refused'
  PROVE  NoneLost'
<1>1. \A n \in 1..intake.cursor : n \in 1..Cursor /\ items'[n] = items[n]
  BY DEF RestTyped, ItemsGrow
<1>2. ASSUME NEW n \in 1..intake.cursor
      PROVE  \/ ledger'.bound[items[n].cand].relation # "none"
             \/ items[n].state = "withdrawn" \/ observed'[items[n]] = "refused"
             \/ items[n] \in refused'
             \/ \E m \in (n + 1)..Cursor' : items'[m].cand = items[n].cand
  <2>1. \/ Held(ledger, items[n].cand)
        \/ items[n].state = "withdrawn" \/ observed[items[n]] = "refused"
        \/ items[n] \in refused
        \/ \E m \in (n + 1)..Cursor : items[m].cand = items[n].cand
    BY DEF NoneLost, Held
  <2>2. items[n] \in Documents /\ items[n].cand \in Candidates
    BY DocumentFields
  <2>3. CASE Held(ledger, items[n].cand)
    BY <2>2, <2>3 DEF Held
  <2>4. CASE \E m \in (n + 1)..Cursor : items[m].cand = items[n].cand
    <3>1. PICK m \in (n + 1)..Cursor : items[m].cand = items[n].cand
      BY <2>4
    <3>2. m \in (n + 1)..Cursor' /\ m \in 1..Cursor
      BY <1>1 DEF ItemsGrow
    <3>3. items'[m] = items[m]
      BY <3>2 DEF ItemsGrow
    <3> QED
      BY <3>1, <3>2, <3>3
  <2> QED
    BY <2>1, <2>2, <2>3, <2>4
<1> QED
  BY <1>1, <1>2 DEF NoneLost

\* At the cutover the last revision of every candidate is reconciled, and an
\* older one was followed by it.
LEMMA CutoverLosesNone ==
  ASSUME FeedInv, InboxInv, Sound, Activate
  PROVE  NoneLost'
<1>1. Cursor \in Nat /\ \A n \in 1..Cursor : items[n] \in Documents
  <2>1. items \in Seq(Documents)
    BY DEF FeedInv, FeedTyped
  <2> QED
    BY <2>1, LenProperties, ElementOfSeq DEF Cursor
<1>2. /\ Cursor' = Cursor /\ items' = items /\ intake'.cursor = Cursor
      /\ ledger' = ledger /\ observed' = observed /\ refused' = refused
      /\ \A c \in Candidates : current[c] # None => Reconciled(c)
  BY DEF Activate, Inbox, Shadow, Cursor
<1>3. ASSUME NEW n \in 1..Cursor
      PROVE  \/ ledger.bound[items[n].cand].relation # "none"
             \/ items[n].state = "withdrawn" \/ observed[items[n]] = "refused"
             \/ items[n] \in refused
             \/ \E m \in (n + 1)..Cursor : items[m].cand = items[n].cand
  <2> DEFINE doc == items[n]
             c   == doc.cand
  <2>1. doc \in Documents /\ c \in Candidates
    BY <1>1, DocumentFields
  <2>2. PICK k \in 1..Cursor : /\ items[k] = current[c] /\ items[k].cand = c
                               /\ \A m \in 1..Cursor : m > k => items[m].cand # c
    BY <2>1 DEF InboxInv, NewestOf
  <2>3. n \in Nat /\ k \in Nat /\ ~(n > k)
    BY <1>1, <2>2
  <2>4. CASE n < k
    <3>1. k \in (n + 1)..Cursor
      BY <1>1, <2>3, <2>4
    <3> QED
      BY <2>2, <3>1
  <2>5. CASE n = k
    <3>1. current[c] = doc
      BY <2>2, <2>5
    <3>2. doc # None
      BY <2>1, IntakeAssumption
    <3>3. Reconciled(c)
      BY <1>2, <2>1, <3>1, <3>2
    <3>4. ledger.bound[c].doc = doc => Held(ledger, c)
      BY <2>1, <3>2 DEF Sound, LedgerSound, BoundWell
    <3> QED
      BY <3>1, <3>3, <3>4 DEF Reconciled, Held
  <2> QED
    BY <2>3, <2>4, <2>5
<1> QED
  BY <1>2, <1>3 DEF NoneLost

\* A native pass settles what it takes.
LEMMA NativePassKeeps ==
  ASSUME IntakeInv, NativePass
  PROVE  /\ PassAdvances(Passed) /\ ledger' = Passed /\ ~Passed.conflict
         /\ Batch \in Nat /\ intake.cursor \in Nat
         /\ intake' = [intake EXCEPT !.cursor = intake.cursor + Batch]
         /\ intake'.cursor = intake.cursor + Batch
         /\ intake.cursor + Batch <= Cursor
<1>1. intake.cursor \in Nat /\ intake.cursor <= Cursor /\ Cursor \in Nat
      /\ intake \in [active : BOOLEAN, from : Nat, cursor : Nat]
  BY FeedTypes DEF IntakeInv, RestTyped, FeedInv
<1>2. Batch \in Nat /\ intake.cursor + Batch <= Cursor
  BY <1>1, IntakeAssumption DEF Batch
<1>3. \A n \in 1..Batch : Taken(n) \in Documents
  <2>1. items \in Seq(Documents) /\ Cursor = Len(items)
    BY DEF IntakeInv, FeedInv, FeedTyped, Cursor
  <2>2. \A n \in 1..Batch : intake.cursor + n \in 1..Cursor
    BY <1>1, <1>2
  <2> QED
    BY <2>1, <2>2, ElementOfSeq DEF Taken
<1>4. PassAdvances(Passed)
  BY <1>2, <1>3, PassKeeps DEF IntakeInv, Sound
<1>5. /\ ledger' = Passed /\ ~Passed.conflict
      /\ intake' = [intake EXCEPT !.cursor = intake.cursor + Batch]
  BY DEF NativePass
<1>6. intake'.cursor = intake.cursor + Batch
  BY <1>1, <1>5
<1> QED
  BY <1>1, <1>2, <1>4, <1>5, <1>6

LEMMA PassLosesNone ==
  ASSUME IntakeInv, NativePass
  PROVE  NoneLost'
<1>1. /\ PassAdvances(Passed) /\ ledger' = Passed /\ ~Passed.conflict
      /\ Batch \in Nat /\ intake.cursor \in Nat
      /\ intake'.cursor = intake.cursor + Batch
      /\ intake.cursor + Batch <= Cursor
  BY NativePassKeeps
<1>2. /\ Cursor' = Cursor /\ items' = items
      /\ observed' = observed /\ refused' = refused
  BY DEF NativePass, Inbox, Shadow, Cursor
<1>3. PICK after : after = Passed
  OBVIOUS
<1>4. /\ \A c \in Candidates : Held(ledger, c) => Held(after, c)
      /\ \A n \in 1..Batch :
           Held(after, Taken(n).cand) \/ Taken(n).state = "withdrawn"
  BY <1>1, <1>3 DEF PassAdvances
<1>5. ASSUME NEW n \in 1..(intake.cursor + Batch)
      PROVE  \/ after.bound[items[n].cand].relation # "none"
             \/ items[n].state = "withdrawn" \/ observed[items[n]] = "refused"
             \/ items[n] \in refused
             \/ \E m \in (n + 1)..Cursor : items[m].cand = items[n].cand
  <2>1. CASE n \in 1..intake.cursor
    <3>1. \/ Held(ledger, items[n].cand)
          \/ items[n].state = "withdrawn" \/ observed[items[n]] = "refused"
          \/ items[n] \in refused
          \/ \E m \in (n + 1)..Cursor : items[m].cand = items[n].cand
      BY <2>1 DEF IntakeInv, NoneLost, Held
    <3>2. items[n].cand \in Candidates
      <4>1. n \in 1..Len(items) /\ items \in Seq(Documents)
        BY <1>1, <2>1 DEF IntakeInv, RestTyped, FeedInv, FeedTyped, Cursor
      <4>2. items[n] \in Documents
        BY <4>1, ElementOfSeq
      <4> QED
        BY <4>2, DocumentFields
    <3>3. Held(ledger, items[n].cand) => after.bound[items[n].cand].relation # "none"
      BY <1>4, <3>2 DEF Held
    <3> QED
      BY <3>1, <3>3
  <2>2. CASE n \notin 1..intake.cursor
    <3>1. n - intake.cursor \in 1..Batch
          /\ intake.cursor + (n - intake.cursor) = n
      BY <1>1, <2>2
    <3>2. items[n] = Taken(n - intake.cursor)
      BY <3>1 DEF Taken
    <3> QED
      BY <1>4, <3>1, <3>2 DEF Held
  <2> QED
    BY <2>1, <2>2
<1> QED
  BY <1>1, <1>2, <1>3, <1>5 DEF NoneLost

-----------------------------------------------------------------------------
(* The invariant and its theorems                                          *)

LEMMA RestStays ==
  ASSUME RestTyped, Cut, ItemsGrow, UNCHANGED <<observed, refused, intake>>,
         reader' \in 0..MaxReader
  PROVE  RestTyped' /\ Cut'
<1>1. intake'.from \in Nat /\ intake'.cursor \in Nat /\ intake'.cursor <= Cursor'
      /\ intake'.from <= intake'.cursor
  BY DEF RestTyped, ItemsGrow
<1> QED
  BY <1>1 DEF RestTyped, Cut

\* A step that only moves the outbox and the inbox.
Calm == UNCHANGED <<observed, refused, intake, ledger, reader>>

LEMMA ItemsTaken ==
  ASSUME IntakeInv
  PROVE  \A n \in 1..intake.cursor : items[n] \in Documents
<1>1. items \in Seq(Documents) /\ Cursor = Len(items) /\ Len(items) \in Nat
  BY LenProperties DEF IntakeInv, FeedInv, FeedTyped, Cursor
<1>2. intake.cursor \in Nat /\ intake.cursor <= Len(items)
  BY <1>1 DEF IntakeInv, RestTyped
<1> QED
  BY <1>1, <1>2, ElementOfSeq

LEMMA CalmKeeps ==
  ASSUME IntakeInv, ItemsGrow, Calm
  PROVE  RestTyped' /\ Cut' /\ Sound' /\ NoneLost'
<1>1. RestTyped' /\ Cut'
  <2>1. reader' \in 0..MaxReader
    BY DEF IntakeInv, RestTyped, Calm
  <2> QED
    BY <2>1, RestStays DEF IntakeInv, Calm
<1>2. Sound'
  BY SoundStays DEF IntakeInv, Calm
<1>3. NoneLost'
  BY SettledStays, ItemsTaken DEF IntakeInv, Calm, Held
<1> QED
  BY <1>1, <1>2, <1>3

LEMMA ObservationKeeps ==
  ASSUME IntakeInv, ItemsGrow, NEW doc \in Documents,
         NEW disposition \in Dispositions \ {"none"},
         ImportObservation(doc, disposition)
  PROVE  RestTyped' /\ Cut' /\ Sound' /\ NoneLost'
<1>1. /\ observed \in [Documents -> Dispositions] /\ observed[doc] = "none"
      /\ observed' = [observed EXCEPT ![doc] = disposition]
      /\ UNCHANGED <<refused, intake, ledger, reader>>
  BY DEF ImportObservation, IntakeInv, RestTyped
<1>2. /\ observed' \in [Documents -> Dispositions]
      /\ \A d \in Documents : observed[d] # "none" => observed'[d] = observed[d]
  BY <1>1
<1>3. RestTyped' /\ Cut'
  <2>1. intake'.cursor <= Cursor'
    BY <1>1 DEF IntakeInv, RestTyped, ItemsGrow
  <2> QED
    BY <1>1, <1>2, <2>1 DEF IntakeInv, RestTyped, Cut
<1>4. Sound'
  BY <1>1, <1>2, SoundStays DEF IntakeInv
<1>5. NoneLost'
  BY <1>1, <1>2, SettledStays, ItemsTaken DEF IntakeInv, Held
<1> QED
  BY <1>3, <1>4, <1>5

LEMMA BootstrapKeeps ==
  ASSUME IntakeInv, ItemsGrow, NEW equivalent \in SUBSET Candidates,
         BootstrapWrites(equivalent)
  PROVE  RestTyped' /\ Cut' /\ Sound' /\ NoneLost'
<1>1. UNCHANGED <<observed, refused, intake, reader>>
  BY DEF BootstrapWrites
<1>2. /\ \E l : l = ledger' /\ LedgerSound(l)
      /\ \A c \in Candidates : Held(ledger, c) => ledger'.bound[c] = ledger.bound[c]
  BY BootstrapSound DEF IntakeInv, Sound
<1>3. RestTyped' /\ Cut'
  BY <1>1, RestStays DEF IntakeInv, RestTyped
<1>4. Sound'
  BY <1>1, <1>2, SoundNext
<1>5. NoneLost'
  <2>1. \A c \in Candidates : Held(ledger, c) => Held(ledger, c)'
    BY <1>2 DEF Held
  <2> QED
    BY <1>1, <2>1, SettledStays, ItemsTaken DEF IntakeInv
<1> QED
  BY <1>3, <1>4, <1>5

LEMMA RefuseKeeps ==
  ASSUME IntakeInv, ItemsGrow, RefuseDivergent
  PROVE  RestTyped' /\ Cut' /\ Sound' /\ NoneLost'
<1>1. /\ UNCHANGED <<observed, intake, ledger, reader>>
      /\ refused \subseteq refused' /\ refused' \subseteq Documents
  BY DEF RefuseDivergent, IntakeInv, RestTyped
<1>2. RestTyped' /\ Cut'
  <2>1. intake'.cursor <= Cursor'
    BY <1>1 DEF IntakeInv, RestTyped, ItemsGrow
  <2> QED
    BY <1>1, <2>1 DEF IntakeInv, RestTyped, Cut
<1>3. Sound'
  BY <1>1, SoundStays DEF IntakeInv
<1>4. NoneLost'
  BY <1>1, SettledStays, ItemsTaken DEF IntakeInv, Held
<1> QED
  BY <1>2, <1>3, <1>4

LEMMA ActivateKeeps ==
  ASSUME IntakeInv, ItemsGrow, Activate
  PROVE  RestTyped' /\ Cut' /\ Sound' /\ NoneLost'
<1>1. /\ UNCHANGED <<items, observed, refused, ledger, reader>>
      /\ intake' = [active |-> TRUE, from |-> Cursor, cursor |-> Cursor]
  BY DEF Activate, Inbox, Shadow
<1>2. Cursor' = Cursor /\ Cursor \in Nat
  BY <1>1 DEF Cursor, ItemsGrow
<1>3. RestTyped' /\ Cut'
  <2>1. /\ intake' \in [active : BOOLEAN, from : Nat, cursor : Nat]
        /\ intake'.from = Cursor /\ intake'.cursor = Cursor /\ intake'.active
    BY <1>1, <1>2
  <2> QED
    BY <1>1, <1>2, <2>1 DEF IntakeInv, RestTyped, Cut
<1>4. Sound'
  BY <1>1, SoundStays DEF IntakeInv
<1>5. NoneLost'
  BY CutoverLosesNone DEF IntakeInv
<1> QED
  BY <1>3, <1>4, <1>5

LEMMA PassStaysSound ==
  ASSUME IntakeInv, ItemsGrow, NativePass
  PROVE  RestTyped' /\ Cut' /\ Sound' /\ NoneLost'
<1>1. /\ PassAdvances(Passed) /\ ledger' = Passed
      /\ Batch \in Nat /\ intake.cursor \in Nat
      /\ intake' = [intake EXCEPT !.cursor = intake.cursor + Batch]
      /\ intake.cursor + Batch <= Cursor
  BY NativePassKeeps
<1>2. UNCHANGED <<items, observed, refused, reader>> /\ intake.active
  BY DEF NativePass, Inbox, Shadow
<1>3. Sound'
  <2>1. PICK l : l = Passed
    OBVIOUS
  <2>2. LedgerSound(l)
    BY <1>1, <2>1 DEF PassAdvances
  <2> QED
    BY <1>1, <1>2, <2>1, <2>2, SoundNext
<1>4. /\ intake' \in [active : BOOLEAN, from : Nat, cursor : Nat]
      /\ intake'.from = intake.from /\ intake'.cursor = intake.cursor + Batch
      /\ intake'.active
  <2>1. intake.cursor + Batch \in Nat
    BY <1>1
  <2>2. intake \in [active : BOOLEAN, from : Nat, cursor : Nat]
    BY DEF IntakeInv, RestTyped
  <2> QED
    BY <1>1, <1>2, <2>1, <2>2
<1>5. intake.from <= intake.cursor /\ intake.from \in Nat /\ Cursor' = Cursor
  BY <1>2 DEF IntakeInv, RestTyped, Cursor
<1>6. RestTyped' /\ Cut'
  <2>1. intake'.from <= intake'.cursor /\ intake'.cursor <= Cursor'
    BY <1>1, <1>4, <1>5
  <2> QED
    BY <1>2, <1>4, <2>1 DEF IntakeInv, RestTyped, Cut
<1>7. NoneLost'
  BY PassLosesNone
<1> QED
  BY <1>3, <1>6, <1>7

LEMMA ReaderKeeps ==
  ASSUME IntakeInv, ItemsGrow, NEW t \in TaskIds,
         \/ ReaderCloses(t, "done") \/ ReaderCloses(t, "dropped") \/ ReaderReopens(t)
         \/ \E how \in Works : WorkBegins(t, how)
         \/ WorkCompletes(t)
  PROVE  RestTyped' /\ Cut' /\ Sound' /\ NoneLost'
<1>1. UNCHANGED <<observed, refused, intake>>
  BY DEF ReaderCloses, ReaderReopens, WorkBegins, WorkCompletes, Shadow
<1>2. Sound' /\ ledger'.bound = ledger.bound
  BY ReaderRows DEF IntakeInv
<1>3. reader \in 0..MaxReader /\ MaxReader \in Nat
  BY IntakeAssumption DEF IntakeInv, RestTyped
<1>4. reader' \in 0..MaxReader
  <2>1. reader' = reader \/ (reader > 0 /\ reader' = reader - 1)
    BY DEF ReaderCloses, ReaderReopens, WorkBegins, WorkCompletes
  <2> QED
    BY <1>3, <2>1
<1>5. RestTyped' /\ Cut'
  BY <1>1, <1>4, RestStays DEF IntakeInv
<1>6. NoneLost'
  BY <1>1, <1>2, SettledStays, ItemsTaken DEF IntakeInv, Held
<1> QED
  BY <1>2, <1>5, <1>6

LEMMA NextIntake == IntakeInv /\ [Next]_vars => IntakeInv'
<1> SUFFICES ASSUME IntakeInv, [Next]_vars PROVE IntakeInv'
  OBVIOUS
<1> DEFINE Goal == RestTyped' /\ Cut' /\ Sound' /\ NoneLost'
<1>1. FeedInv' /\ InboxInv'
  BY NextFeed, NextInbox DEF IntakeInv
<1>2. ItemsGrow
  BY <1>1, NextItems DEF IntakeInv
<1>3. Calm => Goal
  BY <1>2, CalmKeeps
<1>4. ASSUME NEW docs, Export(docs) PROVE Calm
  BY <1>4 DEF Export, Calm, Shadow
<1>5. ASSUME NEW i, StartImport(i) \/ ImportPage(i) \/ CrashImport(i) PROVE Calm
  BY <1>5 DEF StartImport, ImportPage, CrashImport, Calm, Shadow
<1>6. ASSUME Rewrite \/ BootstrapReads \/ UNCHANGED vars PROVE Calm
  BY <1>6 DEF Rewrite, BootstrapReads, vars, Calm, Shadow
<1>7. ASSUME NEW doc \in Documents, NEW disposition \in Dispositions \ {"none"},
             ImportObservation(doc, disposition)
      PROVE  Goal
  BY <1>2, <1>7, ObservationKeeps
<1>8. ASSUME NEW equivalent \in SUBSET Candidates, BootstrapWrites(equivalent)
      PROVE  Goal
  BY <1>2, <1>8, BootstrapKeeps
<1>9. ASSUME RefuseDivergent \/ Activate \/ NativePass PROVE Goal
  BY <1>2, <1>9, RefuseKeeps, ActivateKeeps, PassStaysSound
<1>10. ASSUME NEW t \in TaskIds,
         \/ ReaderCloses(t, "done") \/ ReaderCloses(t, "dropped") \/ ReaderReopens(t)
         \/ \E how \in Works : WorkBegins(t, how)
         \/ WorkCompletes(t)
       PROVE  Goal
  BY <1>2, <1>10, ReaderKeeps
<1>11. Goal
  <2>1. {"waiting", "active", "running"} \subseteq Works
    BY DEF Works
  <2> HIDE DEF Goal
  <2> QED
    BY <1>3, <1>4, <1>5, <1>6, <1>7, <1>8, <1>9, <1>10, <2>1 DEF Next, Import
<1> QED
  BY <1>1, <1>11 DEF IntakeInv

LEMMA InitIntake == Init => IntakeInv
<1> SUFFICES ASSUME Init PROVE IntakeInv
  OBVIOUS
<1>1. FeedInv /\ InboxInv
  BY InitFeed, InitInbox
<1>2. Cursor = 0
  BY DEF Init, Cursor
<1>3. RestTyped /\ Cut
  <2>1. intake = [active |-> FALSE, from |-> 0, cursor |-> 0]
    BY DEF Init
  <2>2. /\ intake \in [active : BOOLEAN, from : Nat, cursor : Nat]
        /\ intake.from = 0 /\ intake.cursor = 0
    BY <2>1
  <2>3. observed \in [Documents -> Dispositions] /\ refused \subseteq Documents
        /\ reader \in 0..MaxReader
    BY IntakeAssumption DEF Init, Dispositions
  <2> QED
    BY <1>2, <2>2, <2>3 DEF RestTyped, Cut
<1>4. Sound
  <2>1. PICK l : l = ledger
    OBVIOUS
  <2>2. l = [tasks |-> [t \in TaskIds |-> NoTask],
             bound |-> [c \in Candidates |-> Unbound], conflict |-> FALSE]
    BY <2>1 DEF Init
  <2>3. /\ l \in Ledgers
        /\ \A t \in TaskIds : l.tasks[t] = NoTask
        /\ \A c \in Candidates : l.bound[c] = Unbound
    BY <2>2, NoTaskTyped, UnboundTyped DEF Ledgers
  <2>4. NoTask.status = "none" /\ Unbound.relation = "none" /\ Unbound.doc = None
    BY DEF NoTask, Unbound
  <2>5. BoundWell(l) /\ TasksHeld(l) /\ OwnTasks(l) /\ Follows(l)
    BY <2>3, <2>4 DEF BoundWell, TasksHeld, OwnTasks, Follows, Held
  <2> QED
    BY <2>1, <2>3, <2>5 DEF Sound, LedgerSound
<1>5. NoneLost
  <2>1. intake.cursor = 0
    BY DEF Init
  <2> QED
    BY <2>1 DEF NoneLost
<1> QED
  BY <1>1, <1>3, <1>4, <1>5 DEF IntakeInv

\* The inductive invariant: the feed is contiguous and its pages are received
\* in order, the inbox is what its items say, the ledger is sound, and what
\* the cutover and the passes took is settled.
THEOREM IntakeInvariant == Spec => []IntakeInv
BY InitIntake, NextIntake, PTL DEF Spec

\* The types of everything the intake keeps.
THEOREM IntakeIsTyped == Spec => []TypeOK
<1>1. IntakeInv => TypeOK
  <2> SUFFICES ASSUME IntakeInv PROVE TypeOK
    OBVIOUS
  <2>1. /\ outbox \in Seq(FeedPages) /\ receipts \in Seq(FeedPages)
        /\ items \in Seq(Documents) /\ importing \in [Importers -> Nat]
        /\ faults \in 0..MaxFaults
    BY FeedTypes DEF IntakeInv, FeedInv, FeedTyped
  <2>2. history \subseteq Documents
    <3>1. \A k \in 1..Cursor : items[k] \in Documents
      BY <2>1, LenProperties, ElementOfSeq DEF Cursor
    <3> QED
      BY <3>1 DEF IntakeInv, InboxInv, Seen
  <2>3. current \in [Candidates -> Documents \cup {None}] /\ ledger \in Ledgers
    BY DEF IntakeInv, InboxInv, Sound, LedgerSound
  <2> QED
    BY <2>1, <2>2, <2>3 DEF IntakeInv, RestTyped, TypeOK
<1> QED
  BY <1>1, IntakeInvariant, PTL

\* A task accept_native_candidates or the bootstrap calls current, and that
\* is open, says what its source says, whatever the reader, the agents and
\* the producer did to it in between.
THEOREM CurrentFollowsSource == Spec => []CurrentTaskFollowsSource
<1>1. IntakeInv => CurrentTaskFollowsSource
  BY DEF IntakeInv, Sound, LedgerSound, Follows, CurrentTaskFollowsSource
<1> QED
  BY <1>1, IntakeInvariant, PTL

\* activate_native_intake and the passes after it lose no candidate.
THEOREM CutoverLosesNobody == Spec => []NoneLost
<1>1. IntakeInv => NoneLost
  BY DEF IntakeInv
<1> QED
  BY <1>1, IntakeInvariant, PTL

\* A native pass leaves a dropped task dropped, whether its reader dropped it
\* or its source did, and a task that an agent works on open and its agent at
\* work, whatever became of the source.
THEOREM PassesLeaveTheReader == Spec => ReaderStands
<1> DEFINE Stands ==
      intake'.cursor # intake.cursor =>
        \A t \in TaskIds :
          LET old == ledger.tasks[t]
              new == ledger'.tasks[t]
          IN /\ old.status = "dropped" => new.status = "dropped"
             /\ old.status = "open" /\ old.work = "running" =>
                  new.status = "open" /\ new.work = "running"
<1>1. IntakeInv /\ [Next]_vars => [Stands]_vars
  <2> SUFFICES ASSUME IntakeInv, [Next]_vars, intake'.cursor # intake.cursor
               PROVE  \A t \in TaskIds :
                        /\ ledger.tasks[t].status = "dropped" =>
                             ledger'.tasks[t].status = "dropped"
                        /\ AtWork(ledger.tasks[t]) => AtWork(ledger'.tasks[t])
    BY DEF AtWork, vars
  <2>1. NativePass \/ Activate
    <3>1. ASSUME NEW docs, Export(docs) PROVE UNCHANGED intake
      BY <3>1 DEF Export
    <3>2. ASSUME NEW i, StartImport(i) \/ ImportPage(i) \/ CrashImport(i)
          PROVE  UNCHANGED intake
      BY <3>2 DEF StartImport, ImportPage, CrashImport
    <3>3. ASSUME NEW doc, NEW disposition, ImportObservation(doc, disposition)
          PROVE  UNCHANGED intake
      BY <3>3 DEF ImportObservation
    <3>4. ASSUME NEW equivalent, BootstrapWrites(equivalent) PROVE UNCHANGED intake
      BY <3>4 DEF BootstrapWrites
    <3>5. ASSUME Rewrite \/ BootstrapReads \/ RefuseDivergent \/ UNCHANGED vars
          PROVE  UNCHANGED intake
      BY <3>5 DEF Rewrite, BootstrapReads, RefuseDivergent, vars
    <3>6. ASSUME NEW t, NEW how, \/ ReaderCloses(t, how) \/ ReaderReopens(t)
                                 \/ WorkBegins(t, how) \/ WorkCompletes(t)
          PROVE  UNCHANGED intake
      BY <3>6 DEF ReaderCloses, ReaderReopens, WorkBegins, WorkCompletes
    <3> QED
      BY <3>1, <3>2, <3>3, <3>4, <3>5, <3>6 DEF Next, Import
  <2>2. CASE Activate
    BY <2>2 DEF Activate
  <2>3. CASE NativePass
    BY <2>3, NativePassKeeps DEF PassAdvances
  <2> QED
    BY <2>1, <2>2, <2>3
<1>2. Spec => [][Stands]_vars
  BY <1>1, IntakeInvariant, PTL DEF Spec
<1> QED
  BY <1>2 DEF ReaderStands
=============================================================================
