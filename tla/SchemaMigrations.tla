--------------------------- MODULE SchemaMigrations ---------------------------
(***************************************************************************)
(* The upgrade of the one database, src/foxhound/candidate_inbox.py        *)
(* (_migrate and the _SCHEMA_Vn statements) and database_lifecycle.py: 72  *)
(* steps, each in a transaction of its own that also writes user_version.  *)
(*                                                                         *)
(* A migrator reads user_version once, outside any transaction, and then   *)
(* goes by its own copy; nothing keeps two of them apart but the write     *)
(* lock of each step.  A table stands for the columns it was created with: *)
(* what is followed of it is the columns added and the CHECK words         *)
(* admitted since, and its triggers and indexes, "guards" here.            *)
(***************************************************************************)
EXTENDS Integers, FiniteSets, Sequences, SequencesExt

CONSTANTS
    Migrators,      \* processes running `foxhound-database migrate`
    Starts,         \* bound: the versions a database is met at
    ConcurrentFrom, \* a database below this version has one migrator at a time
    Rehearsed,      \* versions that user_version is set back to by hand
    Rehearsals      \* bound: times it is

SCHEMA_VERSION == 72

ASSUME MigrationsAssumption ==
    /\ Starts \subseteq 0..(SCHEMA_VERSION + 1)
    /\ ConcurrentFrom \in Nat
    /\ Rehearsed \subseteq 0..(SCHEMA_VERSION - 1)
    /\ Rehearsals \in Nat

VARIABLES
    db,         \* the tables present: columns added, words, guards
    rows,       \* the tables, columns and words that stored rows use
    version,    \* PRAGMA user_version
    migrator,   \* each migrator's phase and its own copy of the version
    rehearsals  \* times left

vars == <<db, rows, version, migrator, rehearsals>>

-----------------------------------------------------------------------------
(* Statements.  A file is [db, rows] with ok: FALSE once a statement has    *)
(* failed, which rolls the step's transaction back.                         *)
Bare(guards) == [columns |-> {}, words |-> {}, guards |-> guards]

HasColumn(d, t, c) == t \in DOMAIN d /\ c \in d[t].columns
HasWord(d, t, w)   == t \in DOMAIN d /\ w \in d[t].words

(* CREATE TABLE with its triggers and indexes: tables is a function from    *)
(* the names to the guards.                                                 *)
Create(tables)    == [sql |-> "create", tables |-> tables]
(* CREATE ... IF NOT EXISTS.                                                *)
Ensure(tables)    == [sql |-> "ensure", tables |-> tables]
AddColumns(t, cs) == [sql |-> "add", table |-> t, columns |-> cs]
(* RENAME, CREATE, INSERT ... SELECT the copied columns, DROP, and the      *)
(* guards again.                                                            *)
Rebuild(t, copied, columns, words, guards) ==
    [sql |-> "rebuild", table |-> t, copied |-> copied, columns |-> columns,
     words |-> words, guards |-> guards]
(* The same, with the definition in place edited at words it must have.     *)
Widen(t, at, ws)  == [sql |-> "widen", table |-> t, at |-> at, words |-> ws]
(* DROP TRIGGER or INDEX IF EXISTS, then CREATE.                            *)
Replace(t, olds, news) ==
    [sql |-> "replace", table |-> t, olds |-> olds, news |-> news]
(* UPDATE of rows, which a trigger without the guard would abort.           *)
Settle(t, guard)  == [sql |-> "settle", table |-> t, guard |-> guard]

Unless(present, statements) == IF present THEN <<>> ELSE statements

Used(file, t) == {r[2] : r \in {used \in file.rows : used[1] = t}}

Admitted(file, s) ==
    CASE s.sql = "create"  -> DOMAIN s.tables \cap DOMAIN file.db = {}
      [] s.sql = "ensure"  -> TRUE
      [] s.sql = "add"     -> /\ s.table \in DOMAIN file.db
                              /\ s.columns \cap file.db[s.table].columns = {}
      [] s.sql = "rebuild" -> /\ s.table \in DOMAIN file.db
                              /\ Used(file, s.table) \cap file.db[s.table].words
                                    \subseteq s.words
      [] s.sql = "settle"  -> /\ s.table \in DOMAIN file.db
                              /\ \/ Used(file, s.table) = {}
                                 \/ s.guard \in file.db[s.table].guards
      [] s.sql = "widen"   -> /\ s.table \in DOMAIN file.db
                              /\ s.at \subseteq file.db[s.table].words
      [] OTHER             -> s.table \in DOMAIN file.db

Changed(file, s) ==
    CASE s.sql = "create" ->
           [file EXCEPT !.db = [t \in DOMAIN s.tables |-> Bare(s.tables[t])] @@ @]
      [] s.sql = "ensure" ->
           [file EXCEPT !.db = [t \in DOMAIN s.tables \cup DOMAIN @ |->
               IF t \notin DOMAIN file.db THEN Bare(s.tables[t])
               ELSE IF t \notin DOMAIN s.tables THEN file.db[t]
               ELSE [file.db[t] EXCEPT !.guards = @ \cup s.tables[t]]]]
      [] s.sql = "add" ->
           [file EXCEPT !.db[s.table].columns = @ \cup s.columns]
      [] s.sql = "rebuild" ->
           [file EXCEPT
               !.db[s.table] = [columns |-> s.columns, words |-> s.words,
                                guards |-> s.guards],
               !.rows = @ \ {<<s.table, c>> :
                                c \in file.db[s.table].columns \ s.copied}]
      [] s.sql = "widen" ->
           [file EXCEPT !.db[s.table].words = @ \cup s.words]
      [] s.sql = "replace" ->
           [file EXCEPT !.db[s.table].guards = (@ \ s.olds) \cup s.news]
      [] OTHER -> file

Execute(file, statements) ==
    FoldLeft(LAMBDA f, s : IF f.ok /\ Admitted(f, s) THEN Changed(f, s)
                           ELSE [f EXCEPT !.ok = FALSE],
             file, statements)
-----------------------------------------------------------------------------
AppendOnly == {"no_update", "no_delete"}

(* The inbox, the shadow import and the ledger. *)
Step1 == <<Create([candidate_inbox |-> {}])>>
Step2 == <<Create([candidate_feed_cursors |-> {}, candidate_feed_receipts |-> {}])>>
Step3 == <<Create([candidate_revision_history |-> {}, task_shadow_observations |-> {},
                   task_shadow_feed_cursors |-> {}, task_shadow_feed_receipts |-> {}])>>
Step4 == <<Create([tasks |-> {}, task_candidate_bindings |-> {"one_accepted"},
                   task_bootstrap_correlations |-> {}, task_events |-> AppendOnly])>>
Step5 == <<Create([shadow_import_cycles |-> AppendOnly])>>
Step6 == <<Create([task_owner_equivalences |-> AppendOnly])>>
Step7 == <<Create([task_review_cards |-> {"one_active"},
                   task_review_card_events |-> AppendOnly])>>

(* Execution, its cards and the native intake. *)
Step8 == <<Create([task_execution_workflows |-> {"ready"},
                   task_execution_results |-> AppendOnly,
                   task_execution_events |-> AppendOnly])>>
Step9 == <<Create([execution_review_cards |-> {"one_active"},
                   execution_review_card_events |-> AppendOnly])>>
Step10 == <<Create([candidate_feed_items |-> AppendOnly,
                    native_candidate_intakes |-> {"identity_immutable", "no_delete"},
                    native_candidate_intake_events |-> AppendOnly]),
            Rebuild("task_events", {}, {}, {"candidate_revised"}, AppendOnly)>>

CardWords11      == {"result_review", "external_action", "reassign", "discuss",
                     "drop", "done"}
CardEventWords11 == {"reassign", "discuss", "drop", "done"}
EventWords11     == {"discussion_requested", "reassigned", "task_completed",
                     "task_dropped"}

Step11 == <<Rebuild("execution_review_cards", {}, {}, CardWords11, {"one_active"}),
            Rebuild("execution_review_card_events", {}, {}, CardEventWords11, AppendOnly),
            Create([execution_reader_inputs |-> AppendOnly,
                    task_owner_events |-> AppendOnly]),
            Rebuild("task_execution_events", {}, {}, EventWords11, AppendOnly)>>

Profile          == {"agent_profile_id", "agent_profile_revision"}
EventWords12     == EventWords11 \cup {"agent_selected"}
CardEventWords13 == CardEventWords11 \cup {"refreshed", "agent"}

Step12 == <<AddColumns("task_execution_workflows", Profile),
            AddColumns("task_execution_results", Profile),
            Rebuild("task_execution_events", {}, Profile, EventWords12, AppendOnly)>>
Step13 == <<Rebuild("execution_review_card_events", {}, {}, CardEventWords13, AppendOnly)>>
Step14 == <<Rebuild("task_owner_equivalences", {}, {}, {"people_directory"}, AppendOnly)>>

LifecycleWords15 == {"candidate_revised", "candidate_withdrawn",
                     "candidate_withdrawal_conflict",
                     "candidate_reactivation_conflict", "candidate_reactivated"}

Step15 == <<Ensure([candidate_lifecycle |-> {}, task_candidate_lifecycle |-> {}]),
            Rebuild("task_events", {}, {}, LifecycleWords15, AppendOnly)>>
Step16 == <<Ensure([native_intake_historical_refusals |-> AppendOnly])>>
Step17 == <<AddColumns("task_execution_results", {"task_work_directory", "task_kb_file"})>>

OwnerColumns == {"owner_ref_version", "owner_kind", "owner_speaker_id",
                 "owner_canonical_speaker_id", "owner_speaker_registry_id",
                 "owner_pinned", "owner_provisional"}

Step18 == <<AddColumns("tasks", OwnerColumns)>>
Step19 == <<Ensure([task_execution_owner_holds |-> {"one_active"},
                    task_execution_owner_hold_events |-> AppendOnly])>>
Step20 == <<Rebuild("execution_review_cards", {}, {}, CardWords11, {"one_active"})>>
Step21 == <<Ensure([task_relations |-> {"live", "object", "no_delete", "only_withdraw"}])>>
Step22 == <<AddColumns("task_execution_results", {"work_digest"})>>
Step23 == <<AddColumns("task_review_cards", {"consumer_digest"})>>
Step24 == <<Rebuild("task_events", {}, {},
                    LifecycleWords15 \cup {"candidate_revision_conflict"}, AppendOnly)>>
Step25 == <<Ensure([task_completion_evidence |->
                        {"identity", "open", "no_delete", "settle_only"}])>>
Step26 == <<AddColumns("task_review_cards", {"source_revision"})>>

(* Duplicates, and what executions and cards learned to record. *)
Proposals      == "task_duplicate_proposals"
ProposalGuards == {"pair", "open", "no_delete"}

Step27 == <<Ensure([task_duplicate_proposals |-> ProposalGuards \cup {"settle_only"},
                    task_duplicate_proposal_events |-> AppendOnly])>>
(* The trigger that lets a proposal only be settled: the name and what its  *)
(* body has come to admit.                                                  *)
Step28(d) ==
    <<AddColumns(Proposals, {"card_id"} \ d[Proposals].columns),
      Replace(Proposals, {"admits_superseded"}, {"settle_only", "admits_card"})>>
Step29(d) == Unless(HasColumn(d, "task_execution_results", "repository_references_json"),
    <<AddColumns("task_execution_results", {"repository_references_json"})>>)
Step30(d) ==
    Unless("execution_review_cards" \notin DOMAIN d
               \/ HasColumn(d, "execution_review_cards", "consumer_digest"),
           <<AddColumns("execution_review_cards", {"consumer_digest"})>>)
Step31(d) == Unless(HasColumn(d, "task_execution_results", "repository_impact"),
    <<AddColumns("task_execution_results", {"repository_impact"})>>)

EventWords32 == EventWords12 \cup {"priority_raised", "priority_lowered", "priority_cleared"}
EventWords36 == EventWords32 \cup {"phase_granted"}
EventWords40 == EventWords36 \cup {"result_unchanged"}
EventWords42 == EventWords40 \cup {"reader_instruction_delivered"}

WidenEvents(words) ==
    <<Rebuild("task_execution_events", Profile, Profile, words, AppendOnly)>>

Step32(d) == Unless(HasColumn(d, "task_execution_workflows", "queue_priority"),
    <<AddColumns("task_execution_workflows", {"queue_priority"}),
      Replace("task_execution_workflows", {}, {"priority_ready"})>>
    \o WidenEvents(EventWords32))
Step33(d) == Unless("task_fused_title_jobs" \in DOMAIN d,
    <<Create([task_fused_title_jobs |-> {"pending", "no_delete"}])>>)
Step34(d) == Unless(HasColumn(d, "task_execution_workflows", "last_failure_exit_code"),
    <<AddColumns("task_execution_workflows",
                 {"last_failure_exit_code", "last_failure_run_id"})>>)
Step35(d) == Unless(HasColumn(d, "execution_review_cards", "superseded_delivery_ref"),
    <<AddColumns("execution_review_cards",
                 {"superseded_delivery_ref", "superseded_transport"})>>)
Step36(d) == Unless(HasWord(d, "task_execution_events", "phase_granted"),
    WidenEvents(EventWords36))

(* The work revisions, appended by triggers on the bindings. *)
Bindings == "task_candidate_bindings"

Step37 == <<Ensure([work_items |-> {}, work_revisions |-> {"current"},
                    task_candidate_bindings |-> {"on_accepted", "on_source_update"}])>>
Step38(d) ==
    <<Replace(Bindings, {"on_accepted", "on_source_update", "names_kind", "names_history"}, {})>>
    \o Unless(HasColumn(d, "work_revisions", "kind"),
              <<Rebuild("work_revisions", {}, {"kind"}, {}, {"current"})>>)
    \o <<Replace(Bindings, {}, {"on_accepted", "names_kind"})>>
Step39(d) == Unless(HasColumn(d, "execution_review_cards", "work_revision_id"),
    <<AddColumns("execution_review_cards", {"work_revision_id"})>>)
Step40(d) == Unless(HasWord(d, "task_execution_events", "result_unchanged"),
    WidenEvents(EventWords40))
Step41 == <<Ensure([effect_intents |-> {}, effect_receipts |-> {}])>>
Step42(d) ==
    Unless(HasColumn(d, "task_execution_results", "reader_instruction_sequence"),
           <<AddColumns("task_execution_results", {"reader_instruction_sequence"})>>)
    \o <<Ensure([execution_reader_instruction_deliveries |-> {}])>>
    \o Unless(HasWord(d, "task_execution_events", "reader_instruction_delivered"),
              WidenEvents(EventWords42))
Step43 == <<Ensure([task_duplicate_assessments |-> {"pair"} \cup AppendOnly])>>
Step44(d) == Unless(HasWord(d, Proposals, "superseded"),
    <<Rebuild(Proposals, {"card_id"}, {"card_id"}, {"superseded"},
              ProposalGuards \cup {"settle_only", "admits_card", "admits_superseded"})>>)
Step45(d) ==
    <<AddColumns("tasks", {"object", "action", "confidence"} \ d["tasks"].columns),
      Ensure([task_participants |-> {}, task_duplicate_proposal_routes |-> {},
              speaker_registry_entries |-> {}])>>
Step46 == <<Ensure([execution_result_artifacts |-> {}])>>
Step47 == <<Ensure([execution_failure_digests |-> {}])>>
Step48(d) == Unless(HasWord(d, "task_execution_workflows", "context_exhausted"),
    <<Widen("task_execution_workflows", {}, {"context_exhausted"})>>)

CardColumns48 == {"consumer_digest", "superseded_delivery_ref",
                  "superseded_transport", "work_revision_id"}

Step49(d) ==
    <<AddColumns("task_execution_workflows",
                 {"steer_while_running", "current_run_id"}
                     \ d["task_execution_workflows"].columns)>>
    \o Unless(HasColumn(d, "execution_review_cards", "steer_digest"),
              <<Rebuild("execution_review_cards", CardColumns48,
                        CardColumns48 \cup {"steer_digest"},
                        CardWords11 \cup {"steer"}, {"one_active"})>>)
Step50 == <<Ensure([execution_card_retractions |-> {"pending"}])>>
Step51 == <<Ensure([execution_steer_digest_refreshes |-> {}])>>

(* The history of a card's deliveries, whose vocabulary grew four times. *)
CardEvents == "execution_review_card_events"

CardEventWords52 == CardEventWords13 \cup {"retracted"}
CardEventWords53 == CardEventWords52 \cup {"requeued"}
CardEventWords59 == CardEventWords53 \cup {"claim_released", "client_rejected", "surface_full"}

Step52 == <<Rebuild(CardEvents, {}, {}, CardEventWords52, AppendOnly)>>
Step53 == <<Rebuild(CardEvents, {}, {}, CardEventWords53, AppendOnly)>>
Step54(d) ==
    Unless(HasColumn(d, "execution_review_cards", "summary_only"),
           <<AddColumns("execution_review_cards", {"summary_only"})>>)
    \o <<Replace("execution_review_cards", {},
                 {"one_active", "one_active_summary", "summaries_apart"})>>
Step55 == <<Replace("execution_review_cards", {"one_active_summary"}, {})>>
Step56(d) == Unless(HasColumn(d, "task_review_cards", "claiming_consumer"),
    <<AddColumns("task_review_cards", {"claiming_consumer"})>>)
Step57 == <<Settle(Proposals, "admits_superseded")>>

HistoryColumns == {"source_history_source", "source_history_stream_id",
                   "source_history_item_id", "source_history_position",
                   "source_history_revision"}

Step58(d) ==
    <<AddColumns("work_revisions", HistoryColumns \ d["work_revisions"].columns),
      Replace(Bindings, {"names_kind"}, {"on_accepted", "names_kind", "names_history"})>>
Step59 == <<Rebuild(CardEvents, {}, {}, CardEventWords59, AppendOnly)>>
\* What would go wrong: the history made again without its two triggers.
Step60Unguarded ==
    <<Rebuild(CardEvents, {}, {"consumer_digest"}, CardEventWords59, {})>>
Step60 == <<Rebuild(CardEvents, {}, {"consumer_digest"}, CardEventWords59, AppendOnly)>>
\* What would go wrong: a repeated step writes every reason as NULL.
Step61Always(d) ==
    <<Rebuild("task_duplicate_proposal_events", {}, {"reason"}, {"superseded"}, AppendOnly)>>
Step61(d) == Unless(HasColumn(d, "task_duplicate_proposal_events", "reason"),
    <<Rebuild("task_duplicate_proposal_events", {}, {"reason"}, {"superseded"}, AppendOnly)>>)

(* The duplicate search, scheduling and research. *)
Step62(d) ==
    Unless(HasColumn(d, "tasks", "owner_person_id"),
           <<AddColumns("tasks", {"owner_person_id"})>>)
    \o Unless(HasColumn(d, "task_participants", "person_id"),
              <<AddColumns("task_participants", {"person_id"})>>)
    \o Unless("task_duplicate_checks" \in DOMAIN d,
              <<Create([task_duplicate_checks |-> {"pending"},
                        task_duplicate_embeddings |-> {},
                        task_duplicate_candidates |-> {"pair", "queued"},
                        task_duplicate_candidate_routes |-> {}])>>)
Step63 == <<Ensure([task_duplicate_verification_claims |-> {"age"},
                    task_duplicate_verification_days |-> {},
                    task_duplicate_verifications |-> {"verdict"} \cup AppendOnly])>>
Step64 == <<Rebuild("task_duplicate_proposal_routes", {}, {}, {"owner"}, {}),
            Rebuild("task_duplicate_candidate_routes", {}, {}, {"owner"}, {})>>
\* What would go wrong: a repeated step adds a column that is there.
Step65Always(d) == <<AddColumns("tasks", {"working_group"})>>
Step65(d) == Unless(HasColumn(d, "tasks", "working_group"),
    <<AddColumns("tasks", {"working_group"})>>)
Step66(d) ==
    Unless(HasColumn(d, "task_execution_workflows", "queue_priority_source"),
           <<AddColumns("task_execution_workflows", {"queue_priority_source"})>>)
    \o <<Ensure([task_scheduling_change_sets |-> {},
                 task_scheduling_conditions |-> {"active"},
                 task_scheduling_condition_events |-> AppendOnly,
                 task_scheduling_change_events |-> AppendOnly,
                 task_scheduling_review_cards |-> {},
                 task_scheduling_review_card_events |-> AppendOnly])>>
Step67 == <<Ensure([task_research_jobs |-> {"one_active", "queue"},
                    task_research_claims |-> {},
                    task_research_receipts |-> AppendOnly,
                    task_research_events |-> AppendOnly])>>
Step68 == <<Ensure([ownership_reviews |-> {}])>>
Step69 == <<Rebuild("task_candidate_lifecycle", {}, {}, {"closed_by_source"}, {})>>
Step70 == <<Ensure([task_timing |-> {}])>>
Step71(d) == Unless(HasWord(d, "task_execution_workflows", "budget_handoff"),
    <<Widen("task_execution_workflows", {"context_exhausted"}, {"budget_handoff"})>>)
Step72 == <<Ensure([automatic_change_reviews |-> {"status"}])>>

StepFrom(v, d) ==
    CASE v = 0 -> Step1       [] v = 1 -> Step2       [] v = 2 -> Step3
      [] v = 3 -> Step4        [] v = 4 -> Step5        [] v = 5 -> Step6
      [] v = 6 -> Step7        [] v = 7 -> Step8        [] v = 8 -> Step9
      [] v = 9 -> Step10       [] v = 10 -> Step11      [] v = 11 -> Step12
      [] v = 12 -> Step13      [] v = 13 -> Step14      [] v = 14 -> Step15
      [] v = 15 -> Step16      [] v = 16 -> Step17      [] v = 17 -> Step18
      [] v = 18 -> Step19      [] v = 19 -> Step20      [] v = 20 -> Step21
      [] v = 21 -> Step22      [] v = 22 -> Step23      [] v = 23 -> Step24
      [] v = 24 -> Step25      [] v = 25 -> Step26      [] v = 26 -> Step27
      [] v = 27 -> Step28(d)   [] v = 28 -> Step29(d)   [] v = 29 -> Step30(d)
      [] v = 30 -> Step31(d)   [] v = 31 -> Step32(d)   [] v = 32 -> Step33(d)
      [] v = 33 -> Step34(d)   [] v = 34 -> Step35(d)   [] v = 35 -> Step36(d)
      [] v = 36 -> Step37      [] v = 37 -> Step38(d)   [] v = 38 -> Step39(d)
      [] v = 39 -> Step40(d)   [] v = 40 -> Step41      [] v = 41 -> Step42(d)
      [] v = 42 -> Step43      [] v = 43 -> Step44(d)   [] v = 44 -> Step45(d)
      [] v = 45 -> Step46      [] v = 46 -> Step47      [] v = 47 -> Step48(d)
      [] v = 48 -> Step49(d)   [] v = 49 -> Step50      [] v = 50 -> Step51
      [] v = 51 -> Step52      [] v = 52 -> Step53      [] v = 53 -> Step54(d)
      [] v = 54 -> Step55      [] v = 55 -> Step56(d)   [] v = 56 -> Step57
      [] v = 57 -> Step58(d)   [] v = 58 -> Step59      [] v = 59 -> Step60
      [] v = 60 -> Step61(d)   [] v = 61 -> Step62(d)   [] v = 62 -> Step63
      [] v = 63 -> Step64      [] v = 64 -> Step65(d)   [] v = 65 -> Step66(d)
      [] v = 66 -> Step67      [] v = 67 -> Step68      [] v = 68 -> Step69
      [] v = 69 -> Step70      [] v = 70 -> Step71(d)   [] v = 71 -> Step72

(* The file at each version, when every step has been taken once in order.  *)
Schemas ==
    FoldLeft(LAMBDA files, v :
                 Append(files, Execute([db |-> files[v + 1], rows |-> {}, ok |-> TRUE],
                                       StepFrom(v, files[v + 1])).db),
             << <<>> >>, [i \in 1..SCHEMA_VERSION |-> i - 1])
SchemaAt(v) == Schemas[IF v > SCHEMA_VERSION THEN SCHEMA_VERSION + 1 ELSE v + 1]

(* Everything the tables of a file can hold in their rows. *)
Everything(d) == UNION {{t} \X ({"rows"} \cup d[t].columns \cup d[t].words) : t \in DOMAIN d}
-----------------------------------------------------------------------------
(* What the program expects of a current database, listed apart from the    *)
(* steps: _SCHEMA_COLUMNS and _SCHEMA_OBJECTS.  Tables not named here are    *)
(* not looked at: work_items, work_revisions and ownership_reviews.         *)
NoColumns(tables) == [t \in tables |-> {}]

SourceColumns ==
    NoColumns({"candidate_inbox", "candidate_feed_cursors", "candidate_feed_receipts",
               "candidate_feed_items", "candidate_revision_history",
               "task_shadow_observations", "task_shadow_feed_cursors",
               "task_shadow_feed_receipts", "speaker_registry_entries",
               "task_duplicate_proposal_routes", "task_candidate_bindings",
               "task_bootstrap_correlations", "task_events"})
    @@ [tasks |-> OwnerColumns \cup {"object", "action", "confidence",
                                     "owner_person_id", "working_group"},
        task_participants |-> {"person_id"}]
LedgerColumns ==
    NoColumns({"native_candidate_intakes", "native_candidate_intake_events",
               "native_intake_historical_refusals", "shadow_import_cycles",
               "task_relations", "task_completion_evidence",
               "task_duplicate_assessments", "task_fused_title_jobs",
               "task_owner_equivalences", "task_review_card_events"})
    @@ [task_duplicate_proposals |-> {"card_id"},
        task_duplicate_proposal_events |-> {"reason"},
        task_review_cards |-> {"consumer_digest", "source_revision", "claiming_consumer"}]
ExecutionColumns ==
    NoColumns({"execution_reader_instruction_deliveries", "execution_result_artifacts",
               "execution_failure_digests", "execution_card_retractions",
               "execution_steer_digest_refreshes", "execution_reader_inputs"})
    @@ [task_execution_workflows |->
            Profile \cup {"queue_priority", "last_failure_exit_code",
                          "last_failure_run_id", "steer_while_running",
                          "current_run_id", "queue_priority_source"},
        task_execution_results |->
            Profile \cup {"task_work_directory", "task_kb_file", "work_digest",
                          "repository_references_json", "repository_impact",
                          "reader_instruction_sequence"},
        task_execution_events |-> Profile,
        execution_review_cards |-> CardColumns48 \cup {"steer_digest", "summary_only"},
        execution_review_card_events |-> {"consumer_digest"}]
OwnerTables ==
    NoColumns({"effect_intents", "effect_receipts", "task_owner_events",
               "task_execution_owner_holds", "task_execution_owner_hold_events",
               "candidate_lifecycle", "task_candidate_lifecycle"})
LaterTables ==
    NoColumns({"task_duplicate_checks", "task_duplicate_embeddings",
               "task_duplicate_candidates", "task_duplicate_candidate_routes",
               "task_scheduling_conditions", "task_scheduling_condition_events",
               "task_scheduling_change_sets", "task_scheduling_change_events",
               "task_scheduling_review_cards", "task_scheduling_review_card_events",
               "task_research_jobs", "task_research_claims", "task_research_receipts",
               "task_research_events", "task_duplicate_verification_claims",
               "task_duplicate_verification_days", "task_duplicate_verifications",
               "task_timing", "automatic_change_reviews"})

SCHEMA_COLUMNS ==
    SourceColumns @@ LedgerColumns @@ ExecutionColumns @@ OwnerTables @@ LaterTables

SCHEMA_OBJECTS ==
    [t \in {"task_events", "shadow_import_cycles", "task_duplicate_proposal_events",
            "task_scheduling_condition_events", "task_scheduling_change_events",
            "task_scheduling_review_card_events", "task_owner_equivalences",
            "task_review_card_events", "task_execution_results",
            "task_execution_events", "execution_review_card_events",
            "candidate_feed_items", "native_candidate_intake_events",
            "native_intake_historical_refusals", "execution_reader_inputs",
            "task_owner_events", "task_execution_owner_hold_events"} |-> AppendOnly]
    @@ [task_candidate_bindings |-> {"one_accepted"},
        task_relations |-> {"live", "object", "no_delete", "only_withdraw"},
        task_completion_evidence |-> {"identity", "open", "no_delete", "settle_only"},
        task_duplicate_proposals |-> ProposalGuards \cup {"settle_only"},
        task_duplicate_checks |-> {"pending"},
        task_duplicate_candidates |-> {"pair", "queued"},
        task_duplicate_verifications |-> {"verdict"} \cup AppendOnly,
        task_duplicate_verification_claims |-> {"age"},
        task_scheduling_conditions |-> {"active"},
        task_duplicate_assessments |-> {"pair"} \cup AppendOnly,
        task_fused_title_jobs |-> {"pending", "no_delete"},
        task_review_cards |-> {"one_active"},
        task_execution_workflows |-> {"ready"},
        execution_review_cards |-> {"one_active"},
        native_candidate_intakes |-> {"identity_immutable", "no_delete"},
        task_execution_owner_holds |-> {"one_active"}]

(* The columns a later version may already have put on a table.             *)
Later(t) ==
    CASE t = "task_execution_workflows" ->
           {{}, {"steer_while_running", "current_run_id"},
            {"steer_while_running", "current_run_id", "queue_priority_source"}}
      [] t = "execution_review_cards" -> {{}, {"steer_digest"}}
      [] t = "execution_review_card_events" -> {{}, {"consumer_digest"}}
      [] t = "task_review_cards" -> {{}, {"claiming_consumer"}}
      [] t = "tasks" -> SUBSET {"object", "action", "confidence", "owner_person_id",
                                "working_group"}
      [] OTHER -> {{}}

RequireTables(d, expected, appended) ==
    \A t \in DOMAIN expected :
        /\ t \in DOMAIN d
        /\ ~(appended /\ expected[t] \subseteq d[t].columns) =>
               d[t].columns \in {expected[t] \cup more : more \in Later(t)}

RequireSchema(d) ==
    /\ RequireTables(d, SCHEMA_COLUMNS, FALSE)
    /\ \A t \in DOMAIN SCHEMA_OBJECTS :
           SCHEMA_OBJECTS[t] \subseteq d[t].guards

RequireCurrentSchema(v, d) == v = SCHEMA_VERSION /\ RequireSchema(d)

(* The tables a step looks at before it begins, with their columns as of    *)
(* the version the step was written for.                                    *)
ColumnsAt(v, tables) == [t \in tables |-> SchemaAt(v)[t].columns]

Checked(v) ==
    CASE v \in 1..9     -> ColumnsAt(v, DOMAIN SchemaAt(v))
      [] v \in {10, 11} ->
           ColumnsAt(v, {"tasks", "task_execution_workflows", "task_execution_results",
                         "task_execution_events", "execution_review_cards",
                         "execution_review_card_events"}
                        \cup IF v = 10 THEN {"native_candidate_intakes",
                                             "native_candidate_intake_events"}
                             ELSE {"execution_reader_inputs", "task_owner_events"})
      [] v = 12 ->
           ColumnsAt(v, {"tasks", "task_execution_workflows", "task_execution_results",
                         "task_execution_events", "execution_review_cards",
                         "execution_review_card_events"})
      [] v = 13          -> ColumnsAt(v, {"task_owner_equivalences"})
      [] v \in 14..18    -> ColumnsAt(v, DOMAIN SchemaAt(v))
      [] v \in {19, 34}  -> ColumnsAt(v, {"execution_review_cards"})
      [] v \in {20, 26}  -> ColumnsAt(v, {"tasks"})
      [] v = 24          -> ColumnsAt(v, {"tasks", "task_review_cards"})
      [] v = 25          -> ColumnsAt(v, {"task_review_cards"})
      [] v = 31          -> ColumnsAt(v, {"task_execution_workflows", "task_execution_events"})
      [] v = 33          -> ColumnsAt(v, {"task_execution_workflows"})
      [] v = 35          -> ColumnsAt(14, {"task_execution_events"})
      [] OTHER           -> ColumnsAt(0, {})

MayBegin(v, d) == RequireTables(d, Checked(v), v \in 14..34)
-----------------------------------------------------------------------------
(* A migrator's phases: idle; open, between steps; checked, past the tables *)
(* it looks at first and waiting for the write lock; orphans, the foreign   *)
(* keys it checks after the step to 20 has been committed.                  *)
Phases == {"idle", "open", "checked", "orphans"}

Init ==
    /\ version \in Starts
    /\ db = SchemaAt(version)
    /\ rows = Everything(db)
    /\ migrator = [m \in Migrators |-> [phase |-> "idle", at |-> 0]]
    /\ rehearsals = Rehearsals

Quiet == \A m \in Migrators : migrator[m].phase = "idle"

Leave(m) == migrator' = [migrator EXCEPT ![m] = [phase |-> "idle", at |-> 0]]

(* Connect and read user_version; a newer database is refused. *)
Open(m) ==
    /\ migrator[m].phase = "idle"
    /\ Quiet \/ version >= ConcurrentFrom
    /\ version <= SCHEMA_VERSION
    /\ migrator' = [migrator EXCEPT ![m] = [phase |-> "open", at |-> version]]
    /\ UNCHANGED <<db, rows, version, rehearsals>>

(* The check that some steps open with, which may refuse. *)
Check(m) ==
    /\ migrator[m].phase = "open"
    /\ DOMAIN Checked(migrator[m].at) # {}
    /\ IF MayBegin(migrator[m].at, db)
       THEN migrator' = [migrator EXCEPT ![m].phase = "checked"]
       ELSE Leave(m)
    /\ UNCHANGED <<db, rows, version, rehearsals>>

After(v, d, r) == Execute([db |-> d, rows |-> r, ok |-> TRUE], StepFrom(v, d))

(* BEGIN IMMEDIATE, the statements, user_version and COMMIT; or ROLLBACK. *)
Upgrade(m) ==
    /\ \/ migrator[m].phase = "checked"
       \/ /\ migrator[m].phase = "open"
          /\ migrator[m].at < SCHEMA_VERSION
          /\ DOMAIN Checked(migrator[m].at) = {}
    /\ LET v     == migrator[m].at
           after == After(v, db, rows)
       IN IF after.ok
          THEN /\ db' = after.db
               /\ rows' = after.rows
               /\ version' = v + 1
               /\ migrator' = [migrator EXCEPT ![m] =
                      [phase |-> IF v = 19 THEN "orphans" ELSE "open", at |-> v + 1]]
          ELSE /\ Leave(m)
               /\ UNCHANGED <<db, rows, version>>
    /\ UNCHANGED rehearsals

(* No orphans: on to the next step. *)
Checks20(m) ==
    /\ migrator[m].phase = "orphans"
    /\ migrator' = [migrator EXCEPT ![m].phase = "open"]
    /\ UNCHANGED <<db, rows, version, rehearsals>>

(* Past the last step: the final check and the inspection only report. *)
Finish(m) ==
    /\ migrator[m].phase = "open"
    /\ migrator[m].at = SCHEMA_VERSION
    /\ Leave(m)
    /\ UNCHANGED <<db, rows, version, rehearsals>>

(* A kill, a signal, "database is locked" after five seconds, orphans found.*)
Fail(m) ==
    /\ migrator[m].phase # "idle"
    /\ Leave(m)
    /\ UNCHANGED <<db, rows, version, rehearsals>>

(* A service, which opens a current database only, writes what this version *)
(* has come to write.                                                       *)
Serve ==
    /\ RequireCurrentSchema(version, db)
    /\ rows' = Everything(db)
    /\ UNCHANGED <<db, version, migrator, rehearsals>>

(* A rehearsal of an upgrade: user_version is set back, the rest stays. *)
Rehearse ==
    /\ rehearsals > 0
    /\ Quiet
    /\ version <= SCHEMA_VERSION
    /\ version' \in {v \in Rehearsed : v < version}
    /\ rehearsals' = rehearsals - 1
    /\ UNCHANGED <<db, rows, migrator>>

Migrate(m) ==
    \/ Open(m)
    \/ Check(m)
    \/ Upgrade(m)
    \/ Checks20(m)
    \/ Finish(m)
    \/ Fail(m)

Next ==
    \/ \E m \in Migrators : Migrate(m)
    \/ Serve
    \/ Rehearse

Spec == Init /\ [][Next]_vars
-----------------------------------------------------------------------------
(* _migrate: user_version never promises what the file does not hold: at    *)
(* each version the tables, columns, words and guards the steps up to it    *)
(* have made are there, whoever wrote the number, and at SCHEMA_VERSION the *)
(* lists the services check agree with them.                                *)
VersionIsEarned ==
    /\ \A t \in DOMAIN SchemaAt(version) :
           /\ t \in DOMAIN db
           /\ SchemaAt(version)[t].columns \subseteq db[t].columns
           /\ SchemaAt(version)[t].words \subseteq db[t].words
           /\ SchemaAt(version)[t].guards \subseteq db[t].guards
    /\ version = SCHEMA_VERSION => RequireSchema(db)

(* What a stored row holds is held after every step, the rebuilds included: *)
(* a table renamed, created again and filled with INSERT ... SELECT keeps   *)
(* each column that rows were using.                                        *)
NothingLost == [][rows \subseteq rows']_vars

(* Whatever was killed, rolled back or repeated, an upgrade started once    *)
(* everyone has stopped comes through: no state is left from which a step   *)
(* fails for ever.                                                          *)
Upgraded(v, d, r) ==
    FoldLeft(LAMBDA f, n : IF f.ok /\ MayBegin(n, f.db) THEN After(n, f.db, f.rows)
                           ELSE [f EXCEPT !.ok = FALSE],
             [db |-> d, rows |-> r, ok |-> TRUE],
             [i \in 1..(SCHEMA_VERSION - v) |-> v + i - 1])

UpgradeComesThrough ==
    Quiet /\ version <= SCHEMA_VERSION =>
        LET file == Upgraded(version, db, rows) IN file.ok /\ RequireSchema(file.db)
=============================================================================
