---------------------------- MODULE CandidateIntake ----------------------------
(***************************************************************************)
(* How a candidate becomes a task.  The producer appends pages of          *)
(* candidate documents to its outbox; candidate_feed_import.import_outbox  *)
(* applies them to the inbox (candidate_inbox.py), page by page; during    *)
(* the migration the producer also reports what it decided itself (shadow  *)
(* observations), and bootstrap_from_shadow turns those decisions into     *)
(* tasks; after activate_native_intake, accept_native_candidates does      *)
(* (task_ledger.py).  One producer and one stream.                         *)
(*                                                                         *)
(* A document is one revision of one candidate.  Of its payload, content   *)
(* is what the task says (text, owner, due date, structure), registry the  *)
(* speaker view its owner was resolved in, head the code a review request  *)
(* is about, and reason how a withdrawn issue or pull request ended.       *)
(***************************************************************************)
EXTENDS Integers, FiniteSets, Sequences, SequencesExt

CONSTANTS
    Documents,      \* the revisions there may ever be
    LegacyContent,  \* what the producer's own task says
    Importers,      \* processes that run import_outbox
    Limit,          \* items per native pass
    MaxResurfaces,  \* MAX_UNPRODUCTIVE_RESURFACES
    MaxPages,       \* bound: pages ever exported
    MaxPage,        \* bound: documents on a page
    MaxDecisions,   \* bound: observations of the producer's own decisions
    MaxReader,      \* bound: what the reader and the agents do
    MaxFaults       \* bound: crashes and rewritten outboxes

Kinds == {"meeting", "issue", "review_request"}
Forge == {"issue", "review_request"}

\* LIFECYCLE_REASONS; none when the producer gives no reason, or another one.
Reasons == {"none", "issue_completed", "issue_not_planned", "pr_merged",
            "pr_closed"}

None == [cand |-> "none"]

ASSUME IntakeAssumption ==
    /\ IsFiniteSet(Documents) /\ None \notin Documents
    /\ \A doc \in Documents : /\ doc.kind \in Kinds
                              /\ doc.gen \in Nat
                              /\ doc.state \in {"active", "withdrawn"}
                              /\ doc.reason \in Reasons
    /\ Limit \in Nat \ {0}
    /\ {MaxResurfaces, MaxPages, MaxPage, MaxDecisions, MaxReader, MaxFaults} \subseteq Nat

Candidates == {doc.cand : doc \in Documents}
TaskIds    == 1..Cardinality(Candidates)

VARIABLES
    outbox,         \* the producer's pages: the cursor each begins at, its documents
    importing,      \* the page an importer is at, 0 when it is not running
    receipts,       \* candidate_feed_receipts: the pages applied, in order
    items,          \* candidate_feed_items, in order
    history,        \* candidate_revision_history
    current,        \* candidate_inbox and candidate_lifecycle
    observed,       \* task_shadow_observations
    snapshot,       \* the rows bootstrap_from_shadow read, or none
    refused,        \* native_intake_historical_refusals
    intake,         \* native_candidate_intakes
    ledger,         \* tasks, task_candidate_bindings and _lifecycle
    reader, faults  \* what is left of the bounds

vars == <<outbox, importing, receipts, items, history, current, observed,
          snapshot, refused, intake, ledger, reader, faults>>

Producer == <<outbox>>
Inbox    == <<receipts, items, history, current>>
Shadow   == <<observed, snapshot, refused>>

Cursor == Len(items)

FeedPages == [from : Nat, docs : Seq(Documents)]

\* The cursor a page ends at, and the cursor a feed has come to.
To(page)   == page.from + Len(page.docs)
End(pages) == IF pages = <<>> THEN 0 ELSE To(Last(pages))

NoTask == [status |-> "none", version |-> 0, content |-> "none",
           registry |-> "none", work |-> "none", reopens |-> 0,
           answered |-> 0, told |-> 0]
Unbound == [doc |-> None, task |-> 0, relation |-> "none", state |-> "active",
            resolution |-> "current", version |-> 0]

\* What there is of a workflow: none or an ended one, one awaiting its start,
\* one an agent runs, one in any other state.
Works == {"none", "waiting", "active", "running"}

TaskRows == [status : {"none", "open", "done", "dropped"}, version : Nat,
             content : {doc.content : doc \in Documents}
                         \cup {LegacyContent, "none"},
             registry : {doc.registry : doc \in Documents} \cup {"none"},
             work : Works,       \* its workflow
             reopens : Nat,      \* status_changed events, done to open
             answered : Nat,     \* those before the workflow's completed_at
             told : Nat]         \* highest version a task event names

Bindings == [doc : Documents \cup {None}, task : TaskIds \cup {0},
             relation : {"none", "accepted", "folded"},
             state : {"active", "withdrawn"},
             resolution : {"current", "preserved_open", "closed_by_source",
                           "reader_conflict"},
             version : Nat]      \* task_candidate_lifecycle.task_version

Ledgers == [tasks : [TaskIds -> TaskRows], bound : [Candidates -> Bindings],
            conflict : BOOLEAN]

Dispositions == {"none", "minted", "folded", "refused", "unmapped"}

TypeOK ==
    /\ outbox \in Seq(FeedPages)
    /\ importing \in [Importers -> Nat]
    /\ receipts \in Seq(FeedPages)
    /\ items \in Seq(Documents)
    /\ history \subseteq Documents
    /\ current \in [Candidates -> Documents \cup {None}]
    /\ observed \in [Documents -> Dispositions]
    /\ refused \subseteq Documents
    /\ intake \in [active : BOOLEAN, from : Nat, cursor : Nat]
    /\ intake.from <= intake.cursor /\ intake.cursor <= Cursor
    /\ ledger \in Ledgers
    /\ reader \in 0..MaxReader /\ faults \in 0..MaxFaults

Init ==
    /\ outbox = <<>>
    /\ importing = [i \in Importers |-> 0]
    /\ receipts = <<>>
    /\ items = <<>>
    /\ history = {}
    /\ current = [c \in Candidates |-> None]
    /\ observed = [doc \in Documents |-> "none"]
    /\ snapshot = {}
    /\ refused = {}
    /\ intake = [active |-> FALSE, from |-> 0, cursor |-> 0]
    /\ ledger = [tasks |-> [t \in TaskIds |-> NoTask],
                 bound |-> [c \in Candidates |-> Unbound], conflict |-> FALSE]
    /\ reader = MaxReader
    /\ faults = MaxFaults

-----------------------------------------------------------------------------
(* The producer and its outbox                                             *)

Exported == UNION {Range(outbox[p].docs) : p \in 1..Len(outbox)}

\* Appends a page.  A sound producer sends each revision once, each candidate
\* in the order of its generations and one revision of a generation, while no
\* importer holds the outbox.
Export(docs) ==
    /\ \A i \in Importers : importing[i] = 0
    /\ Len(outbox) < MaxPages
    /\ IsInjective(docs)
    /\ LET sent == Exported
       IN \A n \in 1..Len(docs) :
            LET gens == {doc.gen : doc \in {d \in sent \cup {docs[m] : m \in 1..(n - 1)} :
                                              d.cand = docs[n].cand}}
            IN /\ docs[n] \notin sent
               /\ docs[n].gen \notin gens \ {0}
               /\ \A doc \in Documents :
                    doc.cand = docs[n].cand /\ doc.gen < docs[n].gen => doc.gen \in gens
    /\ outbox' = Append(outbox, [from |-> End(outbox), docs |-> docs])
    /\ UNCHANGED <<importing, Inbox, Shadow, intake, ledger, reader, faults>>

\* It loses its last page, and goes on from an older state.
Rewrite ==
    /\ faults > 0 /\ faults' = faults - 1
    /\ \A i \in Importers : importing[i] = 0
    /\ outbox # <<>>
    /\ outbox' = Front(outbox)
    /\ UNCHANGED <<importing, Inbox, Shadow, intake, ledger, reader>>

-----------------------------------------------------------------------------
(* Import, one page a transaction                                          *)

\* _apply_candidate refuses a document that is out of the order of its
\* generations; generation 0 is unordered.
GenerationHolds(table, doc) ==
    LET now == table.current[doc.cand]
    IN now = None \/ \/ doc.gen = now.gen /\ (doc.gen = 0 \/ doc = now)
                     \/ now.gen = 0 /\ doc.gen > 0
                     \/ doc.gen = now.gen + 1

\* A revision seen before changes nothing, not even which one is current.
ApplyCandidate(table, doc) ==
    IF table.refused \/ ~GenerationHolds(table, doc)
    THEN [table EXCEPT !.refused = TRUE]
    ELSE IF doc \in table.history THEN table
    ELSE [table EXCEPT !.history = @ \cup {doc}, !.current[doc.cand] = doc]

\* The documents of a page, one after another.
ApplyPage(docs) ==
    LET table[n \in 0..Len(docs)] ==
          IF n = 0 THEN [history |-> history, current |-> current, refused |-> FALSE]
          ELSE ApplyCandidate(table[n - 1], docs[n])
    IN table[Len(docs)]

\* Mutant: a page that was imported before is imported again.
NextPageAgain(p) == outbox[p].from <= Cursor

\* import_feed: the page begins where the inbox stands.
NextPage(p) == outbox[p].from = Cursor

\* Mutant: a page the inbox has is refused.
ReplayedNever(p) == FALSE

Replayed(p) == /\ outbox[p].from < Cursor
               /\ \E r \in 1..Len(receipts) : receipts[r] = outbox[p]

\* import_outbox reads the whole outbox under the producer's lock, and keeps
\* the lock; it stops when the inbox is ahead of the outbox.
StartImport(i) ==
    /\ importing[i] = 0
    /\ outbox # <<>>
    /\ Cursor <= End(outbox)
    /\ importing' = [importing EXCEPT ![i] = 1]
    /\ UNCHANGED <<Producer, Inbox, Shadow, intake, ledger, reader, faults>>

\* A refused page ends the import, and so does the last one.
ImportPage(i) ==
    LET p == importing[i]
        table == ApplyPage(outbox[p].docs)
        accepted == NextPage(p) /\ ~table.refused
    IN /\ p > 0
       /\ IF accepted
          THEN /\ receipts' = Append(receipts, outbox[p])
               /\ items' = items \o outbox[p].docs
               /\ history' = table.history
               /\ current' = table.current
          ELSE UNCHANGED Inbox
       /\ importing' = [importing EXCEPT
                          ![i] = IF (accepted \/ Replayed(p)) /\ p < Len(outbox)
                                 THEN p + 1 ELSE 0]
       /\ UNCHANGED <<Producer, Shadow, intake, ledger, reader, faults>>

CrashImport(i) ==
    /\ faults > 0 /\ faults' = faults - 1
    /\ importing[i] > 0
    /\ importing' = [importing EXCEPT ![i] = 0]
    /\ UNCHANGED <<Producer, Inbox, Shadow, intake, ledger, reader>>

-----------------------------------------------------------------------------
(* The producer's own decisions                                            *)

\* The observation feed (task_shadow_feed_import) follows the same protocol;
\* an observation counts once its revision is in the history, and is final.
\* It may come late: nothing stops the import at the cutover.
ImportObservation(doc, disposition) ==
    /\ doc \in history
    /\ observed[doc] = "none"
    /\ Cardinality({d \in Documents : observed[d] # "none"}) < MaxDecisions
    /\ observed' = [observed EXCEPT ![doc] = disposition]
    /\ UNCHANGED <<Producer, importing, Inbox, snapshot, refused, intake, ledger,
                   reader, faults>>

Divergent(doc) == observed[doc] \in {"minted", "folded"}
                    /\ doc.content # LegacyContent

\* What bootstrap_from_shadow reads: the current revisions and what was
\* observed of them.  The owner resolver runs between the two transactions.
BootstrapRows == {<<current[c], observed[current[c]]>> :
                    c \in {e \in Candidates : current[e] # None}}

BootstrapReads ==
    /\ ~intake.active
    /\ snapshot = {} /\ BootstrapRows # {}
    /\ snapshot' = BootstrapRows
    /\ UNCHANGED <<Producer, importing, Inbox, observed, refused, intake, ledger,
                   reader, faults>>

Mapped(equivalent) ==
    {c \in Candidates : /\ current[c] # None
                        /\ observed[current[c]] \in {"minted", "folded"}
                        /\ ~Divergent(current[c]) \/ c \in equivalent}

NewTask(content, registry) ==
    [NoTask EXCEPT !.status = "open", !.version = 1, !.content = content,
                   !.registry = registry, !.told = 1]

FreeTask(tasks) == CHOOSE t \in TaskIds : tasks[t].status = "none"

Bound(doc, t, relation, version) ==
    [Unbound EXCEPT !.doc = doc, !.task = t, !.relation = relation,
                    !.state = doc.state, !.version = version]

\* The producer has one task, so its mapped candidates are one group: exactly
\* one of them minted it.  Anything that contradicts what is bound already
\* ends the pass without a write.
BootstrapWrites(equivalent) ==
    LET group  == Mapped(equivalent)
        minted == {c \in group : observed[current[c]] = "minted"}
        held   == {c \in Candidates : ledger.bound[c].relation # "none"}
        t      == IF held = {} THEN FreeTask(ledger.tasks)
                  ELSE ledger.bound[CHOOSE c \in held : TRUE].task
        Relation(c) == IF c \in minted THEN "accepted" ELSE "folded"
        conflict == \/ snapshot # BootstrapRows
                    \/ Cardinality(minted) > 1
                    \/ \E c \in group \cap held :
                         \/ ledger.bound[c].doc # current[c]
                         \/ ledger.bound[c].relation # Relation(c)
                    \/ held # {} /\ ledger.tasks[t].content # LegacyContent
                         /\ group # {}
                    \/ \E c \in held, m \in minted :
                         ledger.bound[c].relation = "accepted" /\ c # m
    IN /\ ~intake.active
       /\ snapshot # {}
       /\ snapshot' = {}
       /\ IF conflict \/ group = {} \/ (held = {} /\ minted = {})
          THEN UNCHANGED ledger
          ELSE ledger' =
            [ledger EXCEPT
               !.tasks = IF held # {} THEN @
                         ELSE [@ EXCEPT ![t] = NewTask(LegacyContent,
                                 current[CHOOSE m \in minted : TRUE].registry)],
               !.bound = [c \in Candidates |->
                            IF c \in group \ held
                            THEN Bound(current[c], t, Relation(c),
                                       IF held = {} THEN 1
                                       ELSE ledger.tasks[t].version)
                            ELSE @[c]]]
       /\ UNCHANGED <<Producer, importing, Inbox, observed, refused, intake,
                      reader, faults>>

-----------------------------------------------------------------------------
(* The cutover                                                             *)

\* refuse_divergent_history: the operator keeps the producer's task for the
\* divergent revisions, before activation.
RefuseDivergent ==
    /\ ~intake.active
    /\ LET found == {doc \in Documents :
                       /\ current[doc.cand] = doc /\ doc.state = "active"
                       /\ Divergent(doc)
                       /\ ledger.bound[doc.cand].doc # doc}
       IN /\ found \ refused # {}
          /\ refused' = refused \cup found
    /\ UNCHANGED <<Producer, importing, Inbox, observed, snapshot, intake,
                   ledger, reader, faults>>

\* Mutant: a prefix is reconciled once it was observed.
ReconciledLoosely(c) ==
    \/ current[c].state = "withdrawn"
    \/ observed[current[c]] # "none"

Reconciled(c) ==
    \/ current[c].state = "withdrawn"
    \/ ledger.bound[c].doc = current[c]
    \/ observed[current[c]] = "refused"
    \/ current[c] \in refused

\* activate_native_intake, at the cursor the feed has reached.
Activate ==
    /\ ~intake.active
    /\ \A c \in Candidates : current[c] # None => Reconciled(c)
    /\ intake' = [active |-> TRUE, from |-> Cursor, cursor |-> Cursor]
    /\ UNCHANGED <<Producer, importing, Inbox, Shadow, ledger, reader, faults>>

-----------------------------------------------------------------------------
(* accept_native_candidates, item by item of one transaction               *)

HeadChanged(b, doc) == b.doc.kind = "review_request" /\ b.doc.head # doc.head

\* Whether the revision gives the task a new version: a comment on a review
\* request does not, nor does evidence for the same task.
AdvancesVersion(task, b, doc) ==
    ~(\/ doc.kind = "review_request" /\ ~HeadChanged(b, doc)
      \/ /\ task.content = doc.content /\ task.registry = doc.registry
         /\ ~HeadChanged(b, doc))

\* No workflow, one awaiting its start, or one that has ended.
Idle(task) == task.work \in {"none", "waiting"}

Told(task, version) == [task EXCEPT !.told = IF version > @ THEN version ELSE @]

Rebound(b, doc, resolution, version) ==
    [b EXCEPT !.doc = doc, !.state = doc.state, !.resolution = resolution,
              !.version = version]

Written(l, c, task, b) ==
    [l EXCEPT !.tasks[b.task] = task, !.bound[c] = b]

\* _apply_task_transition, to done or dropped.
Closed(task, status) ==
    Told([task EXCEPT !.status = status, !.version = @ + 1], task.version + 1)

\* A workflow that has not ended ends with its task, completed or cancelled;
\* its completed_at answers the resurfacings before.
Ended(task) ==
    IF task.work = "none" THEN task
    ELSE [task EXCEPT !.work = "none", !.answered = task.reopens]

\* How a source closes its task: an issue that will not be done and a pull
\* request that was not merged drop it, anything else means it is done.
ClosedBy(doc) ==
    IF doc.reason \in {"issue_not_planned", "pr_closed"} THEN "dropped" ELSE "done"

\* _close_for_forge_source closes an open task, unless an agent runs.  Its
\* transition cannot be refused: it expects the version and the status that
\* were read in the same transaction, and so does the workflow's.
Closes(task, doc) ==
    doc.kind \in Forge /\ task.status = "open" /\ task.work # "running"

\* _apply_candidate_withdrawal: a closed issue or pull request closes its task
\* and the task's workflow; another source leaves it open, marked, unless the
\* reader or an agent has been there.
Withdraw(l, doc) ==
    LET b == l.bound[doc.cand]
        task == l.tasks[b.task]
        conflict == \/ task.status # "open"
                    \/ task.version # b.version
                    \/ task.content # b.doc.content
                    \/ ~Idle(task)
        next == task.version + 1
    IN IF Closes(task, doc)
       THEN Written(l, doc.cand, Ended(Closed(task, ClosedBy(doc))),
                    Rebound(b, doc, "closed_by_source", next))
       ELSE IF ~conflict
       THEN Written(l, doc.cand, Told([task EXCEPT !.version = next], next),
                    Rebound(b, doc, "preserved_open", next))
       ELSE Written(l, doc.cand, Told(task, task.version),
                    Rebound(b, doc, "reader_conflict", task.version))

\* Mutant: whatever its source closed, its source opens again.
ReturnsAny(task, b) ==
    /\ b.resolution # "reader_conflict"
    /\ task.version = b.version
    /\ Idle(task)

\* A task may return with its source while it is open or done, and nobody has
\* been there since; a dropped one may not, whoever dropped it.
Returns(task, b) ==
    /\ b.resolution # "reader_conflict"
    /\ task.status \in {"open", "done"}
    /\ task.version = b.version
    /\ Idle(task)

\* _apply_candidate_reactivation.
Reactivate(l, doc) ==
    LET b == l.bound[doc.cand]
        task == l.tasks[b.task]
        next == task.version + 1
    IN IF Returns(task, b)
       THEN Written(l, doc.cand,
                    Told([task EXCEPT !.status = "open", !.version = next,
                                      !.content = doc.content,
                                      !.registry = doc.registry], next),
                    Rebound(b, doc, "current", next))
       ELSE Written(l, doc.cand, Told(task, task.version),
                    Rebound(b, doc, "reader_conflict", task.version))

\* ADR 0039: a finished task surfaces again when its source moves, so often.
Resurfaced(task, b, doc) ==
    IF /\ task.status = "done"
       /\ AdvancesVersion(task, b, doc)
       /\ task.reopens - task.answered < MaxResurfaces
    THEN Told([task EXCEPT !.status = "open", !.reopens = @ + 1],
              task.version + 1)
    ELSE task

\* Mutant: a revision of other code is the only real one.
SameTaskByHead(task, b, doc) == ~HeadChanged(b, doc)

SameTask(task, b, doc) == task.content = doc.content /\ ~HeadChanged(b, doc)

\* _acknowledge_revision_after_close.
AfterClose(b, doc, task) == Rebound(b, doc, "reader_conflict", task.version)

\* A later revision of a candidate whose task stands.
Revise(l, doc) ==
    LET b    == l.bound[doc.cand]
        task == Resurfaced(l.tasks[b.task], b, doc)
        next == task.version + 1
    IN IF task.status # "open"
       THEN Written(l, doc.cand, Told(task, task.version), AfterClose(b, doc, task))
       ELSE IF doc.kind = "review_request" /\ ~HeadChanged(b, doc)
       THEN Written(l, doc.cand,
                    Told([task EXCEPT !.content = doc.content,
                                      !.registry = doc.registry], task.version),
                    [b EXCEPT !.doc = doc])
       ELSE IF SameTask(task, b, doc)
       THEN Written(l, doc.cand,
                    Told([task EXCEPT !.registry = doc.registry], task.version),
                    [b EXCEPT !.doc = doc])
       ELSE Written(l, doc.cand,
                    Told([task EXCEPT !.content = doc.content, !.version = next,
                                      !.registry = doc.registry], next),
                    Rebound(b, doc, "current", next))

\* A decision of the producer after the cutover, or a folded candidate that
\* moves, ends the pass.
Contradicts(l, doc) ==
    LET b == l.bound[doc.cand]
    IN \/ observed[doc] # "none" /\ ~(b.doc = doc /\ b.relation = "accepted")
       \/ b.relation = "folded" /\ b.doc # doc

AcceptCandidate(l, doc) ==
    LET b == l.bound[doc.cand]
    IN IF l.conflict \/ Contradicts(l, doc) THEN [l EXCEPT !.conflict = TRUE]
       ELSE IF b.relation = "none"
       THEN IF doc.state = "withdrawn" THEN l
            ELSE LET t == FreeTask(l.tasks)
                 IN Written(l, doc.cand, NewTask(doc.content, doc.registry),
                            Bound(doc, t, "accepted", 1))
       ELSE IF b.doc = doc THEN l
       ELSE IF doc.state = "withdrawn" THEN Withdraw(l, doc)
       ELSE IF b.state = "withdrawn" THEN Reactivate(l, doc)
       ELSE Revise(l, doc)

\* How many items a pass takes, and what it makes of the ledger.
Batch == IF Cursor - intake.cursor < Limit THEN Cursor - intake.cursor ELSE Limit

Passed ==
    LET after[n \in 0..Batch] ==
          IF n = 0 THEN ledger
          ELSE AcceptCandidate(after[n - 1], items[intake.cursor + n])
    IN after[Batch]

\* One pass; a contradiction anywhere in it rolls all of it back.
NativePass ==
    LET after == Passed
    IN /\ intake.active
       /\ Batch > 0
       /\ ~after.conflict
       /\ ledger' = after
       /\ intake' = [intake EXCEPT !.cursor = @ + Batch]
       /\ UNCHANGED <<Producer, importing, Inbox, Shadow, reader, faults>>

-----------------------------------------------------------------------------
(* The reader closes and reopens tasks, agents work on them                *)

Reopened(task) ==
    Told([task EXCEPT !.status = "open", !.version = @ + 1,
                      !.reopens = IF task.status = "done" THEN @ + 1 ELSE @],
         task.version + 1)

\* From a review card the workflow is closed too, from a task card it is not.
ReaderCloses(t, status) ==
    LET closed == Closed(ledger.tasks[t], status)
    IN /\ reader > 0 /\ reader' = reader - 1
       /\ ledger.tasks[t].status = "open"
       /\ \E task \in {closed, Ended(closed)} :
            ledger' = [ledger EXCEPT !.tasks[t] = task]
       /\ UNCHANGED <<Producer, importing, Inbox, Shadow, intake, faults>>

ReaderReopens(t) ==
    /\ reader > 0 /\ reader' = reader - 1
    /\ ledger.tasks[t].status \in {"done", "dropped"}
    /\ ledger' = [ledger EXCEPT !.tasks[t] = Reopened(ledger.tasks[t])]
    /\ UNCHANGED <<Producer, importing, Inbox, Shadow, intake, faults>>

\* A workflow is scheduled, or goes on from its start; completed_at is cleared.
WorkBegins(t, how) ==
    /\ reader > 0 /\ reader' = reader - 1
    /\ ledger.tasks[t].status = "open" /\ Idle(ledger.tasks[t])
    /\ ledger' = [ledger EXCEPT !.tasks[t] = [@ EXCEPT !.work = how, !.answered = 0]]
    /\ UNCHANGED <<Producer, importing, Inbox, Shadow, intake, faults>>

\* Only a completed workflow, until it is restarted, answers resurfacings.
WorkCompletes(t) ==
    /\ ~Idle(ledger.tasks[t])
    /\ ledger' = [ledger EXCEPT !.tasks[t] = Ended(ledger.tasks[t])]
    /\ UNCHANGED <<Producer, importing, Inbox, Shadow, intake, reader, faults>>

-----------------------------------------------------------------------------
PageDocs == BoundedSeq(Documents, MaxPage) \ {<<>>}

Import == \E i \in Importers : StartImport(i) \/ ImportPage(i)

Next ==
    \/ \E docs \in PageDocs : Export(docs)
    \/ Rewrite
    \/ Import
    \/ \E i \in Importers : CrashImport(i)
    \/ \E doc \in Documents, disposition \in Dispositions \ {"none"} :
         ImportObservation(doc, disposition)
    \/ BootstrapReads
    \/ \E equivalent \in SUBSET Candidates : BootstrapWrites(equivalent)
    \/ RefuseDivergent \/ Activate
    \/ NativePass
    \/ \E t \in TaskIds :
         \/ ReaderCloses(t, "done") \/ ReaderCloses(t, "dropped")
         \/ ReaderReopens(t)
         \/ WorkBegins(t, "waiting")
         \/ WorkBegins(t, "active") \/ WorkBegins(t, "running")
         \/ WorkCompletes(t)

Spec == Init /\ [][Next]_vars

(* Importer and native pass are timer jobs; the producer's lock is free     *)
(* between its exports.                                                    *)
FairSpec == Spec /\ WF_vars(Import) /\ WF_vars(NativePass)

-----------------------------------------------------------------------------
(* Properties                                                              *)

\* The inbox holds the pages of one outbox: whatever two importers, their
\* crashes and a producer that loses a page do, nothing is skipped, repeated
\* or reordered; it is the outbox, or was before the producer lost a page.
OneHistory ==
    /\ \A m, n \in 1..Cursor : m # n => items[m] # items[n]
    /\ faults = MaxFaults => IsPrefix(receipts, outbox)

\* Once the cutover is made, the task of a candidate is bound to the newest
\* revision the native passes have taken of it.
BoundToNewest ==
    \A c \in Candidates :
      LET taken == {n \in (intake.from + 1)..intake.cursor : items[n].cand = c}
      IN ledger.bound[c].relation = "accepted" /\ taken # {} =>
           \A n \in taken : (\A m \in taken : m <= n)
                              => ledger.bound[c].doc = items[n]

\* A task that is open and called current says what its source says, but for
\* one the bootstrap took over with words its owner calls the same.
CurrentTaskFollowsSource ==
    \A c \in Candidates :
      LET b == ledger.bound[c]
          task == ledger.tasks[b.task]
      IN /\ b.relation = "accepted" /\ intake.active
         /\ b.resolution = "current" /\ b.doc.state = "active"
         /\ task.status = "open"
         => \/ task.content = b.doc.content
            \/ task.content = LegacyContent /\ observed[b.doc] # "none"

\* No candidate is lost in the cutover: what the producer decided, an
\* operator refused or its source withdrew has no task, all else has one.
NoneLost ==
    \A n \in 1..intake.cursor :
      LET doc == items[n]
      IN \/ ledger.bound[doc.cand].relation # "none"
         \/ doc.state = "withdrawn" \/ observed[doc] = "refused"
         \/ doc \in refused
         \/ \E m \in (n + 1)..Cursor : items[m].cand = doc.cand

\* No pass overrules the reader, an agent or a source that will not have it
\* done: a task that was dropped, by whomever, stays dropped when its source
\* comes back or moves, and a task an agent works on stays open, its agent at
\* work, when its source ends.
ReaderStands ==
    [][intake'.cursor # intake.cursor =>
         \A t \in TaskIds :
           LET old == ledger.tasks[t]
               new == ledger'.tasks[t]
           IN /\ old.status = "dropped" => new.status = "dropped"
              /\ old.status = "open" /\ old.work = "running" =>
                   new.status = "open" /\ new.work = "running"]_vars

\* After the cutover all that was exported is taken, unless the inbox refuses
\* a page, a pass contradicts the ledger, or the producer loses a page.
Stopped == \/ ~intake.active
           \/ ~IsPrefix(receipts, outbox)
           \/ \E p \in 1..Len(outbox) :
                \/ NextPage(p) /\ ApplyPage(outbox[p].docs).refused
           \/ Batch > 0 /\ Passed.conflict

Behind == intake.active /\ intake.cursor < End(outbox)

FeedIsTaken == []<>(~Behind \/ Stopped)
=============================================================================
