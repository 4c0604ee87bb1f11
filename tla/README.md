# Foxhound: a TLA+ verification project

Foxhound turns messages, mail, meetings and forge items into tasks, lets agents
plan and execute them behind gates that a reader opens, and keeps all of it in
one SQLite database. This directory models the parts of it that keep state and
meet each other, checks them with TLC and proves their main safety properties with
TLAPS.

Paths below are under `src/src/foxhound/` unless they start with `docs/` (which
is `src/docs/`).

## 1. The system

### Components, their state and their operations

| component | source | state | operations |
|---|---|---|---|
| Execution ledger | `task_execution.py` | `task_execution_workflows` (one row per task: status, phase, version, task version, claim, attempts, times), `task_execution_results`, the append-only `task_execution_events` | `schedule_new`, `schedule`, `claim_next`, `renew`, `release`, `fail`, `record_result`, `start_action`, `review_action`, `retry`, `set_priority`, `adopt_*` |
| Research and ownership gate | `task_research_gate.py`, `task_ownership_*` | none of its own | decides in `claim_next` whether a plan waits for a research report or for a reader who must settle its owner |
| Task ledger | `task_ledger.py` | `tasks`, `task_candidate_bindings`, `task_candidate_lifecycle`, `task_events` | accept, revise, withdraw and return candidates; close, drop, reopen; close what the forge closed |
| Execution review cards | `execution_cards.py` | `execution_review_cards`: one active card per task, with delivery leases and a resolution; retractions; owner holds | schedule, claim, deliver, acknowledge, repair, requeue, answer, retract, the queue view |
| Task cards | `task_cards.py`, `task_card_server.py` | the same for tasks that may be finished or be duplicates | the same, and a view over HTTP |
| Completion, duplicates | `task_completion.py`, `task_duplicate_proposals.py`, `task_relations.py` | evidence, proposals, `duplicate_of` relations | propose, bind, settle, merge, reverse |
| Candidate inbox and feeds | `candidate_inbox.py`, `candidate_feed_import.py`, `native_intake.py` | cursors, receipts, revisions and generations of candidates | import of outbox pages, shadow observations, bootstrap, cutover, native passes |
| Task research | `task_research*.py` | `task_research_jobs`, `task_research_claims`, receipts; a content-addressed store and two files per task on disk | `request`, `claim`, `context`, `fail`, `recover_expired`, `publish` (two transactions, files between them), `repair`; `run_once` strings them together |
| Task scheduling | `task_scheduling.py`, `task_deadlines.py`, `task_timing.py`, `task_research_scheduling.py` | conditions, change sets and their cards, deadlines | apply what published research recommends, evaluate, undo, keep |
| Runner and worker | `execution_runner.py`, `execution_worker.py` | a child process, a slot lock, the run-state file, result files, receipts | claim, start, renew, poll, kill, report; draft, record, release, hand over |
| Forge effects | `forge_action.py`, `effect_intents.py`, `persistent_effects.py` | what has been written to the forge, receipts of it | review, comment, pull request, issue, mail |
| Agent dispatch | `agent_dispatch.py` | one state file per ad hoc job, its supervisor and its agent | `start`, `status`, `list`, `cancel`, the supervisor's loop |
| Schema | `candidate_inbox.py` (`_migrate`), `database_lifecycle.py` | tables, columns, words, triggers, `user_version` | 72 migrations, the checks a service makes as it opens |
| Profiles | `agent_profiles.py`, `profile_store.py`, `profile_adoption.py` | installed profile revisions | install, publish, adopt |
| Exports, configuration, content helpers | see `PROJECT.json` | mostly derived | |

### How they interact

Everything meets in the database. Every public method of a service opens one
`BEGIN IMMEDIATE` transaction, so methods are atomic and what interleaves is
whole methods: the scheduler (`schedule_new`, from a timer), any number of
runners (`claim_next`, from timers on several hosts), the agents they start
(`renew`, `record_result`, `fail`, `release`, much later and with the capability
they were handed), the reader (cards, at any later time, naming the version the
card showed), the feed (revisions, withdrawals, returns) and the clock.
A refused call rolls back. Almost every method first repairs: rows whose task
moved on are cancelled (`_cancel_stale`), expired leases are recovered
(`_recover_expired`).

Four parts do more than transactions: a research pass writes files between two of
them, a supervisor and its agent are processes that outlive each other, a dispatched
lane keeps its state in files under a lock, and a migrator goes by a version it
read before its transactions.

### What is hard

* An agent may answer after its lease expired, after a reader steered or dropped
  the task, or after another agent was given the same row.
* One claim pass cancels, recovers, requests research, holds, defers and claims,
  all in one transaction, and its slot check reads what it has just changed.
* Gates can be opened by a reader, by a grant in the configuration, or by a
  configuration that changed while a row waited at the gate.
* A task is revised, withdrawn or closed under a running pass; the scheduler then
  has to find it again from traces that differ by who did it and when.
* Failures are counted, reset and bypassed on many paths; timeouts are not counted.
* A research report and the ownership proposal in it arrive at any moment.
* A card is leased, posted and acknowledged in three calls, each of which may be
  lost or late; messages stay in the chat after their card has moved on, and a card
  may be answered in two views.
* A research pass may die at any point, may lose its claim to another pass and
  repairs by job, while all jobs of a task share one folder.
* Every run of a task shares that folder too, and a command of an agent that read its
  token in time goes on after the claim is over.
* Recommendations are carried into the queue one by one, with the reader, the agents
  and the clock between any two.
* Two migrators may work on one database, each going by its own copy of the version.

`PROJECT.json` lists these under `hazards`, each at its line, with the properties
that would catch it.

### What makes each component correct

* Ledger: no more agents than slots; a claim opens its row only while that row is
  as it was handed out; one answer per claim, none twice; a phase beyond the plan
  was asked for and opened; attempts are bounded; ready work moves.
* Research gate: no plan is claimed while its report is awaited or its owner is in
  dispute, and nothing waits without somebody who knows.
* Task ledger and feeds: a page is applied whole and once; the task of a candidate
  says what its source says; revising costs a re-plan, never the task; what the source
  closed ends; no candidate is lost in the cutover.
* Cards: one active card per task, only the newest message opens it, and it shows the
  row as it is; every waiting row is asked about; ceilings hold.
* Task cards: an answer decides the question that was shown; a confirmed merge is a
  merge; a pass never raises what the next retracts.
* Research: at most one active job per task, an announced report can always be
  finished from the store and is never replaced, and no plan waits for ever.
* Scheduling: nothing waits in a circle or under an agent; automation yields to the
  reader and to work begun; a prerequisite is queued by the date of what waits for it.
* Runs: what a run records is its own and, if it was to be published, is published;
  a run that lost its claim writes once more at most; reports are true.
* Lanes: no two agents share a directory; whoever waits for a job is answered.
* Schema: the version never promises more than the file holds, and no row loses
  what it holds.

## 2. The modules

| module | what it is |
|---|---|
| `WorkflowRules` | one workflow row and what every UPDATE writes to it, as functions from rows to rows |
| `ExecutionWorkflow` | the ledger: tables as variables, one action per method, its properties |
| `ClaimLedger` | the abstract specification: what the ledger promises the agents it starts |
| `TaskResearch` | the research jobs, the passes of the runner step by step, the store, the folder and the gate that waits for them |
| `ExecutionCards` | the review cards, their leases, messages and retractions, over the rows of `WorkflowRules` |
| `CandidateIntake` | how a candidate becomes a task: outbox, inbox, shadow, cutover, native passes |
| `TaskCards` | the cards that ask whether a task is finished or a duplicate, with the stores of those questions |
| `AgentRuns` | supervisors, agents, worker commands and external writes of one task's runs |
| `AgentDispatch` | ad hoc lanes: callers, supervisors, agents and one state file per job |
| `SchemaMigrations` | the 72 migrations, two migrators and the checks of the schema |
| `TaskScheduling` | what published research does to the queue, the conditions, and the order by deadline |
| `MC…` (nine) | the functions and sets that the `.cfg` files name |
| `ExecutionWorkflowProofs` | what each row operator does to a row, the inductive invariant of the ledger, its safety theorems, the refinement of `ClaimLedger`, and the gates: results, phases and owners |
| `TaskResearchProofs`, `ExecutionCardsProofs`, `CandidateIntakeProofs`, `TaskCardsProofs`, `AgentRunsProofs`, `AgentDispatchProofs`, `TaskSchedulingProofs` | the inductive invariant and the theorems of each |

`ExecutionWorkflow` and `ExecutionCards` share `WorkflowRules`: a card's answer is the
very row operator that the ledger's action uses. `AgentRuns` and `ExecutionWorkflow`
are both shown to implement `ClaimLedger`, the first for the runs of one task: what
the runner relies on is what the ledger keeps.

### The ledger (`ExecutionWorkflow`)

| variable | stands for |
|---|---|
| `task[t]` | the `tasks` row (status, version), its candidate lifecycle (`source`, `bound`, `reopened`), its research job (`research`), its ownership proposal (`review`, `owner_pinned`) and its start condition (`blocked`) |
| `wf[t]` | the `task_execution_workflows` row, and what the service reads back from that task's events: the last kind, the version and task version of the last `scheduled`, the parks no reader answered |
| `claims[k]`, `fate[k]` | what claim `k` handed out, and how it ended. The table keeps a digest of the current capability only; the model keeps all of them so that late holders exist |
| `results` | `task_execution_results` |
| `grants` | the grants of the running configuration |
| `inputs`, `faults` | what is left of the bounds |

`authority` in a row is the one column the program does not have: it records which
gates were opened since the plan, for `PhaseIsEarned`. `due_at`, `next_attempt_at`
and `claim_expires_at` are never compared in the same status, so a row has one
countdown, `timer`; `Never` is a NULL retry time on a parked row.

Every action is a whole transaction. `ClaimNext` is `claim_next` with its sweep
(`SweptRows`), its research requests (`SweptTasks`), the slot check, the scan of
at most `ScanLimit` rows in queue order and what it does to each row it passes
(`Verdict`): pass over, hold for the owner, defer because the pinned profile is
gone, or claim. `ScheduleNew` is `schedule_new` with its four parts in order:
cancel what is stale, open gates that a grant now covers, close withdrawn forge
tasks, schedule what is new within `plan_ready_cap` and `awaiting_reader_cap`.
A call that the service refuses is not a step. The holder of any claim ever issued
may call at any time; `Accepts` is what `_running_guard` and `_task_guard` let
through. Holding a *parked* row violates the CHECK that ties `parked_at` to the
status, and the exception rolls the whole claim pass back; `PassesOver` models that
by having no step that passes over such a row.

### Research (`TaskResearch`)

| variable | stands for |
|---|---|
| `tasks[t]` | the version of a task and whether it is open |
| `jobs[j]` | the `task_research_jobs` row of the `j`-th request, with its `task_research_claims` row (`claim`, `lease`), the digests announced by `publish` (`pending`) and its receipt (`receipt`); `waited` is the time since `requested_at` |
| `pass[p]` | how far pass `p` of `run_once` is, the job it claimed, the report it installs and whether its repair has a publication to finish |
| `cas` | the reports whole in the content-addressed store |
| `folder[t]` | the reports that `.task-research.json` and `Research.md` of the task's folder show |

A pass claims at most one job and writes at most one report, so `p` is also its
claim token and its digests. `request`, `claim`, `fail`, `recover_expired` and the
gate's `request_research` are one transaction and one action each. `publish` is
`CheckClaim` (outside a transaction), `StageReport`, `BeginPublication`,
`InstallJson`, `InstallMarkdown`, `Verify` and `Complete`; `repair` is
`BeginRepair`, the two installations and `FinishRepair`. Every refusal inside a
pass leads to `Fail`, as every exception leads to `fail_or_repair`, and a refused
`fail` to the repair. `Crash` kills a pass anywhere; `WriteFails` is an `OSError`.
`publish` compares the lease with the time of its first look in its transaction
too, so a pass whose lease ran out meanwhile still publishes if nobody recovered
the job: `MayPublish` has no lease, and `AnnouncedIsFinal` holds all the same.

### Review cards (`ExecutionCards`)

`cards[c]` is a row of `execution_review_cards` (kind, task, the versions it was made
at, lease, consumer, status, resolution); `deliveries[d]` is one lease handed out and
the message it became, with the card version it answers to and the row version it
shows (`shows`); `retractions`, `hold` and `polled` are the retraction outbox, the
newest owner hold and whether `schedule` has polled the holds before it makes cards.
`Schedule`, `ClaimNext`, `Post`, `CompleteDelivery`, `FailDelivery`, `RetryDelivery`,
`RequeueUnanswered`, the retraction calls, `Press` (every button), `ResolveQueueView`
and `SelectAgent` are the methods; `BeginPass`, `RecordPass`, `FailPass`, `ReviseTask`
and `Replan` are what the ledger does to rows meanwhile. A lost call is a call that
took effect and whose answer nobody got (`LoseDelivery`).

### Intake (`CandidateIntake`)

`outbox` holds the producer's pages, `importing` where each importer is, `receipts`
and `history` what the inbox applied, `observed` and `snapshot` the producer's own
decisions, `intake` the native passes' cursor, `ledger` the tasks, what their workflows
are doing, and the bindings. `Export` and `Rewrite` are the producer's, `Import` one page of
`import_outbox`, `BootstrapReads` and `BootstrapWrites` the two halves of
`bootstrap_from_shadow`, `Activate` the cutover, `NativePass` one transaction of
`accept_native_candidates` over `Limit` items. A page carries the cursor it begins at,
which the inbox compares with its own; a page (`ApplyPage`) and a pass (`Passed`) are
recursive functions that take one item after the other, as the loops of the code do.

A withdrawn issue or pull request says how it ended, and `ClosedBy` closes its task by
that (`_close_for_forge_source`): not planned or closed unmerged drops it, anything else
or no reason is done. A workflow that has not ended ends with the task (`Ended`), unless
an agent runs, which leaves the task open (`Closes`). The function returns "not closed
here" in four places. Two are `Closes`. The other two answer a refused transition
(`task_ledger.py:1951`, 1961) and have no branch in the model, because they cannot be
reached: the task and the workflow were read in the same `BEGIN IMMEDIATE` transaction,
nothing writes to them in between, and the task is open, so the versions and the status
that `_apply_task_transition` and `_apply_review_lifecycle_action` expect are those they
find. When the source comes back (`Reactivate`), a task may return if it is open or done
(`Returns`); a dropped one becomes a `reader_conflict`, whoever dropped it, and only the
reader reopens it. Observations may be imported at any time: nothing in
`import_shadow_feed` asks whether the cutover was made, and one that arrives late for an
item a pass has still to take ends that pass (`Contradicts`).

### Task cards (`TaskCards`)

`cards[t]` are the `task_review_cards` of a task, `messages` what has been posted of
each card and what it asked then, `evidence`, `proposals` and `merged` the stores of
the questions. A pass (`Schedule`, `ScheduleDuplicateProposals`) is one action built
of the functions the code calls in turn (cancel what is stale, ask about completion,
ask about duplicates, resolve what cannot be asked). The reader answers any message
that was posted, however old.

### Runs (`AgentRuns`)

`row`, `fate` and `results` are the ledger as one task sees it; `slot`, `sup` and
`report` the supervisors with their slot locks; `agent`, `state` and `cmd` the agent
processes, the run-state files and the external write each is in the middle of;
`folder`, `own` and `receipts` the files; `forge` what landed; `late` how many writes
landed after the claim was over. A supervisor goes from `Start` over `WriteState`,
`Launch`, its polls (`SeeExit`, `TimesOut`, `RenewalRefused`, …), `Terminate`,
`Settle` and `Reread` to `Close`. An external act is `BeginAct` (reads the run state
and checks the claim), the write itself, and `KeepsReceipt`.

### Lanes (`AgentDispatch`)

A call holds the lock from its first read to its last write and is one action; the
supervisor takes the lock for its heartbeat and its last write only. A caller may be
unable to see the supervisors (`sees`), and then goes by the heartbeat. Freshness of a
heartbeat is a Boolean that `GoesStale` takes away.

### Migrations (`SchemaMigrations`)

Steps are data: `StepFrom(v)` is the sequence of statements of `_SCHEMA_V(v+1)`, made
of `CREATE`, `CREATE IF NOT EXISTS`, `ADD COLUMN`, rebuilds and replaced guards, and
`Execute` says what each does to a file and when it fails. `Schemas` folds them from
the empty file and was compared with what the program makes of a real database at
each of the 72 versions. A migrator reads `user_version` once (`Open`) and takes one step per
transaction (`Upgrade`) by its own copy.

### Scheduling (`TaskScheduling`)

`changes` are the change sets in order, each with its condition and its card; `pass`
how far `apply_published_recommendations` is in each report, with the versions read in
a transaction of its own (`Look`) and used in the next (`ApplyNext`); `timing` what
research cited; `begun` the tasks with a `claimed` event. `Effective` is the deadline
propagation of `task_deadlines.py`: a `Round` takes together the tasks that the code's
queue holds with no open dependant left, and passes their dates on. A date is a number up
to `Never`, which stands for none. `DeadlinesReach` compares the result with the earliest date
`Asked` of a task through chains of the tasks that wait for it.

### Abstractions

Text, rendering, digests of content and log records are left out everywhere. Beyond that:

* `ExecutionWorkflow`: `schedule_new`'s `limit`, the `LIMIT 20` of the close sweep,
  `MAX_REQUESTS_PER_PASS` and `MAX_UNPRODUCTIVE_RESURFACES` are not modelled, a pass
  does all there is. The order inside a tier is free but for the priority; deadlines do
  not order. Steering is always configured; an `exit_code` of 124 is the `timeout`
  reason. A result is its outcome and one of `Answers`. The reader's actions are those
  of the service, so one the card of that moment does not show is still allowed where
  the service allows it. Delays are small numbers; backoff only has to be shorter than a park.
* `TaskResearch`: job numbers give the order of generations and of `requested_at`. A
  task version has one input digest; requests the store refuses, another task work root
  and a store damaged from outside are left out. The two files of a store entry are one
  step: nobody reads the entry before the digest is announced.
* `ExecutionCards`: the time until a card may be requeued, a lease runs out or a
  retraction is tried again is one Boolean, `due`. The chat is the set of messages.
* `CandidateIntake`: one producer, one stream; the content of a document is what it
  says, which registry resolved it, the head of its code and, when it is withdrawn, the
  reason. A workflow is absent or ended, waiting for its start, run by an agent, or in
  any other state (`Works`). The bulk drop's second completion of an ended workflow is
  left out. The additive upgrades of
  the feed contract are left out.
* `TaskCards`: a task is its status, version and revision and what its workflow is
  doing (`WorkflowModes`); how two tasks are compared is left to `Suspects`.
* `AgentRuns`: tasks with an origin only, for others owe nothing; drafting and recording
  are one step; a run's folder and its private directory are one place and what a run
  writes there it writes once; a pull request is its push and its creation; a corrective
  turn consumes a fault; a renewal shows only in the lease not being over; worktrees are
  left out; the kinds a result may cite are folded into those the origin owes.
* `AgentDispatch`: the age of a job that is not active is not followed; a caller sees all
  supervisors or none.
* `SchemaMigrations`: a table stands for the columns it was created with; the words of an
  added column's own CHECK go with the column; the data updates of steps 55, 57 and 61
  are the triggers they need to pass.
* `TaskScheduling`: one source tier, no start or review gates and no parking; the token
  and version of a card are folded into its status and a lapsed lease is pending at once;
  ties in queue order are free; dates are day numbers. `_cancel_prerequisite_cards` is
  omitted, since a prerequisite nobody touched has no cards.

## 3. The runs

Twelve runs, one for each question. All are expected to pass; what the code does
otherwise than its documents say is told in section 5. Every property has a mutant
of the code that breaks it under the same `.cfg`, and the runs together take every
action.

| run | instance | shows |
|---|---|---|
| `Gates` | `ExecutionWorkflow`: one researched task whose report may dispute the owner, plans granted until the configuration changes, 4 claims, 3 inputs of the reader or of the configuration, 1 fault | `PhaseIsEarned`: work beyond a plan was asked for and opened; `ReviewedResultIsCurrent`: the result on a row is for the task as the row has it; `OwnerIsDecidedFirst`: no plan runs while its owner is undecided |
| `Ledger` | two tasks, one from a forge, one slot, a scan of one, a condition, a lost profile, skipped planning, 2 claims, 2 faults, 2 inputs out of steering, priorities, closes, reopens, edits, withdrawals, returns | `FencedByVersion`: no row comes to mean something else under a version that was seen; `LedgerSpec`: the ledger implements `ClaimLedger` |
| `Progress` | two tasks, one slot, an edit or a withdrawal, one fault, fairness | `EveryClaimSettles`, `ReadyWorkMoves`, `RevisionReplans`, `WithdrawnIsClosed` |
| `Releases` | `TaskResearch`: one task, two passes, three jobs, two revisions or requests, a deadline, one crash or failed write anywhere, fairness | `Recoverable`, `AnnouncedIsFinal`; until something has failed, `PublicationSettles` (also when the task is revised under it) and `PlanIsReleased` |
| `Asked` | `ExecutionCards`: one task, a consumer with room for one card of each band, three cards, two deliveries, one pass, one input and one lost call or failed pass, fairness | `ButtonsShowTheRow`, `OneMessageOpens`, `GateIsAsked`: a row that waits is asked about; `ObsoleteMessageGoes`: the message of a cancelled card leaves the chat |
| `Intake` | `CandidateIntake`: one issue that is edited, or closed as completed or as not planned, and then closed, resolved in another speaker view or opened again; two importers, two pages, a crash or a lost page, one decision of the producer before or after the cutover, one of the reader or an agent | `OneHistory`, `CurrentTaskFollowsSource`, `NoneLost`, `FeedIsTaken`; `ReaderStands`: no pass reopens what the reader or the source dropped, or closes what an agent works on |
| `TaskCards` | three copies of one commitment, one of them seen finished, a consumer with room for one card, two answers, one outside move or repair, one lapse | `ConfirmedIsMerged`, `AnswersWhatWasShown`, `PassesAgree` |
| `Questions` | `TaskCards`: two tasks, one possible merge, one finished, one answer, one close, reopening or move of the workflow, one lapse, fairness | `QuestionsAreAsked`: evidence reaches the reader unless the task moves first |
| `Runs` | `AgentRuns`: two runs of one task through one slot, both origins, both phases that publish, one kill, signal, stall, refusal, lost receipt or move of the row | `ResultIsOwn`, `CompletionIsVisible`, `OneLateWrite`, `ReportIsTrue`, `LedgerKept` |
| `Lanes` | `AgentDispatch`: two jobs, two directories, two faults, fairness | `LanesApart`, `LanesEnd` |
| `Upgrades` | `SchemaMigrations`: two migrators from version 60 on, one below it, one rehearsal, 28 of the versions a database may be met at | `VersionIsEarned`, `UpgradeComesThrough`, `NothingLost` |
| `Schedule` | `TaskScheduling`: two tasks and one that research can add, four things research may say, two change sets, one claim, one move of the reader, a clock of two days | `NoWaitingInCircles`, `RunningIsFree`, `DeadlinesReach`, `AutomationYields` |

### Bounds and why they are enough

* Ledger: rows only meet in the slot count, the caps and the queue order, so two tasks
  have every interaction. Two attempts (`MaxAttempts`) reach the park on the second
  failure; two claims are two agents on two tasks or one after the other on one; four
  reach a plan, its review, an execution and a retry.
* Research: jobs of two tasks share only the order in which `claim` takes them. Two
  passes are the publisher and the one that takes over; three jobs are a job, its
  refresh and the next version's.
* Cards: one task has at most one active card, so three cards are a gate, the card that
  replaces it and the one after a pass; two deliveries are an expired one and its
  repetition. `GateIsAsked` and `ReadyWorkMoves`, `RevisionReplans` end with the bound
  (`OutOfBounds`, `OutOfClaims`), because an instance has only so many of them to give.
  What needs more tasks, the ceiling of a consumer, is proved (`CeilingsHold`).
* Intake: revisions of two candidates meet only in the order of the outbox. Of the six
  documents a history has at most three, one of each generation: an edit or either close
  comes second, a close, a new speaker view or the return of the source third, so every
  pair of neighbours is met. Two pages of two documents give every order and every
  replay, and a return that is taken in the same pass as the close or in the next.
* Task cards: three tasks are the least for two proposals that share one.
* Runs: what a run leaves behind can only be met by a later run of the same task, so two
  suffice.
* Migrations: `ConcurrentFrom = 60` is a bound the program does not have; below it a
  second migrator is kept out because the properties do not hold there (section 5).
* Scheduling: two tasks that wait for each other, or one that waits for a created one,
  are the least that make a circle or a chain; a third stands for the one created.

Deadlock is checked in `Gates`, `Ledger`, `Progress`, `Releases` and `Asked`, where the
clock can always tick. In the others the instance may use up its bounds and stop.

### Fairness

* `Progress`: weak fairness of `ScheduleNew`, `ClaimNext` and `Tick`: the first two are
  systemd timers (`execution_schedule.py`, `execution_runner.py`), the third is time.
  Weak fairness of each claim's `Answer(k)`: the runner supervises its agent to a
  terminal result or reports a failure. The ledger itself does not limit renewals; the
  runner's timeout does. Weak fairness of `ResearchEnds(t)`: research jobs have a
  limited number of attempts and a deadline.
* `Releases`: weak fairness of the gate's request (the claim timer), of `Claim`,
  `ClaimNothing` and `RecoverExpired` (the research timer runs `run_once`), of each step
  of a pass that is alive (model calls have deadlines) and of the clock. Its two
  liveness properties are promised only while nothing has failed, because one crash in
  mid-publication breaks them (section 5).
* `Asked`: weak fairness of the timer's two steps, of the consumer's polls, posts and
  acknowledgements, of the retraction calls and of the clock; none of any reader.
* `Intake`: weak fairness of the import and of the native pass, both run from timers.
* `Questions`: weak fairness of the three timers' passes and of the end of a snooze;
  strong fairness of a consumer's claim and acknowledgement of a task's card, since a
  consumer polls for ever and each poll may find the ceiling taken.
* `Lanes`: weak fairness of each supervisor's steps, of the ageing of a heartbeat whose
  supervisor is gone, and of a caller that asks for that job, which is the premise of
  being answered.

No fairness is assumed of a reader, an operator, a source or a failure.

## 4. The theorems

All are proved for every value of the constants, from the named assumptions of the
modules only: sets of tasks, consumers, jobs, runs or slots are finite where they
are counted, limits and bounds are natural numbers (attempts, leases and caps
positive where the code refuses zero), policies are sets of tasks. TLC evaluates
each of these assumptions on its instances.

| theorem | statement | stated by a run |
|---|---|---|
| `ClaimInvariant` | `Spec => []ClaimInv` (ledger) | |
| `TypeCorrect` | `Spec => []TypeOK` | |
| `ClaimsMatchRows` | `Spec => []ClaimMatchesRow` | |
| `AttemptsBounded` | `Spec => []BoundedAttempts` | |
| `ClaimsSettleOnce` | `Spec => SettledOnce` | |
| `VersionsFence` | `Spec => FencedByVersion` | `Ledger` |
| `SlotsAreCapped` | `Spec => []SlotCapHeld` | |
| `LedgerImplemented` | `Spec => LedgerSpec`, the refinement of `ClaimLedger` | `Ledger` |
| `GateInvariant` | `Spec => []GateInv` | |
| `PhasesAreEarned` | `Spec => []PhaseIsEarned` | `Gates` |
| `ReviewedResultsAreCurrent` | `Spec => []ReviewedResultIsCurrent` | `Gates` |
| `OwnersAreDecidedFirst` | `Spec => []OwnerIsDecidedFirst` | `Gates` |
| `ResearchInvariant` | `Spec => []ResearchInv` | |
| `ResearchTyped` | `Spec => []TypeOK` | |
| `ClaimsAreExact` | `Spec => []ClaimsMatchJobs` | |
| `AttemptsAreLeft` | `Spec => []AttemptsLeft` | |
| `OneJobAtATime` | `Spec => []OneActiveJob` | |
| `ReportsAreRecoverable` | `Spec => []Recoverable` | `Releases` |
| `AnnouncedReportsAreFinal` | `Spec => AnnouncedIsFinal` | `Releases` |
| `CardsInvariant` | `Spec => []CardsInv` | |
| `CardsTypes` | `Spec => []TypeOK` | |
| `CountingButtonsShowTheRow` | `Spec => []ButtonsShowTheRow` | `Asked` |
| `AtMostOneMessageOpens` | `Spec => []OneMessageOpens` | `Asked` |
| `CeilingsHold` | `Spec => []CeilingHeld` | |
| `IntakeInvariant` | `Spec => []IntakeInv` | |
| `IntakeIsTyped` | `Spec => []TypeOK` | |
| `InboxIsOneHistory` | `Spec => []OneHistory` | `Intake` |
| `CurrentFollowsSource` | `Spec => []CurrentTaskFollowsSource` | `Intake` |
| `CutoverLosesNobody` | `Spec => []NoneLost` | `Intake` |
| `PassesLeaveTheReader` | `Spec => ReaderStands` | `Intake` |
| `TaskCardsInvariant` | `Spec => []TaskCardsInv` | |
| `TaskCardsTyped` | `Spec => []TypeOK` | |
| `OneCardInPlay` | `Spec => []OneActiveCard` | |
| `ConfirmedPairsAreMerged` | `Spec => []ConfirmedIsMerged` | `TaskCards` |
| `AnswersAreOfWhatWasShown` | `Spec => AnswersWhatWasShown` | `TaskCards` |
| `PassesDoNotFight` | `Spec => PassesAgree` | `TaskCards` |
| `RunsInvariant` | `Spec => []RunsInv` | |
| `ResultsAreOwn` | `Spec => []ResultIsOwn` | `Runs` |
| `CompletionsAreVisible` | `Spec => []CompletionIsVisible` | `Runs` |
| `LateWritesAreFew` | `Spec => []OneLateWrite` | `Runs` |
| `ReportsAreTrue` | `Spec => []ReportIsTrue` | `Runs` |
| `LedgerIsKept` | `Spec => LedgerKept`, the second refinement of `ClaimLedger` | `Runs` |
| `DispatchTypes` | `Spec => []TypeOK` | |
| `TendedLanesApart` | `Spec => []LanesApart` | `Lanes` |
| `TendedLanesCapped` | `Spec => []LanesCapped` | |
| `CancellationStands` | `Spec => CancelStands` | |
| `SchedulingTypes` | `Spec => []TypeOK` | |
| `RunningTasksAreFree` | `Spec => []RunningIsFree` | `Schedule` |
| `NobodyWaitsInCircles` | `Spec => []NoWaitingInCircles` | `Schedule` |
| `AutomationAlwaysYields` | `Spec => AutomationYields` | `Schedule` |
| `DeadlinesReachThroughChains` | `Spec => []DeadlinesReach` | `Schedule` |

**The ledger.** The first part shows that every write to a row either *keeps* it as its holder knows it (`Kept`: renewals, lost profiles, time) or *leaves* it
without a claim, not running, at a later version and with attempts if it had any
(`Left`), except `Claimed`, which runs it under the new claim. Several writes in
one transaction compose (`SteppedTwice`). `NextSteps` then shows that every action
is one of three kinds (`LedgerStep`): claims are let go, one claim is answered, or
claims are let go and one is granted within the cap. Everything else follows from
the three kinds.

*Why the invariant has to be strengthened.* `ClaimMatchesRow` is not inductive.
It does not say that the claim of a running row was handed out for that very task
at that very version, without which two rows could share a claim and an answer
could settle the wrong one; `Shape` does. `BoundedAttempts` speaks of queued and
running rows, but a grant or a reader sends a row from `awaiting_start` to the
queue without resetting its failures, so `Attempts` covers that status too.
`SlotCapHeld` needs that the slot query, which joins only open tasks at their
present version, misses nobody: after the sweep every running row is current
(`SweptRunIsCurrent`), and there are no more live claims than running rows
(`LiveNeedRunning`).

**The gates.** The properties of `Gates` speak of some statuses and of the phase a row
is in; what must be kept track of is the result a row carries while it is anywhere.
Every write to a row that is not over either carries the row's last result along
with its phase (`Carries`), goes back to the plan, takes the phase that result opens,
or takes a new result of the claim that ran it. So `GateInv` states for rows in any
status what the properties state for some: the last result was recorded for this task
at the row's version (`ResultIsForTask`), the phase is the plan or was opened
(`PhaseWasOpened`), no row is ahead of its task (`RowFollowsTask`). For the owner
(`ProposalHolds`): a proposal is recorded only by the hold, which takes the row out of
the queue in the same transaction, and a claim takes a plan only when it neither waits
for that proposal nor is held for it.

**Research.** `Fits` says what a job looks like in itself (claimed
exactly while worked on; announced exactly while or after it is published; the
receipt is the announcement), `Knows` what a pass may rely on although it holds no
lock: its job exists, a report it is about to announce is in the store, and the
report it restores is the one its job announced. Every step either moves jobs on
(`Moves`, by `Later`) or enqueues one (`EnqueueKeeps`). `AnnouncedIsFinal` is not
provable from the state of the jobs alone: `FinishRepair` writes what the pass read
before its files, and only `Knows` together with the finality of `pending` shows that
this is still the announced report and that a job without a receipt is still being
published. `OneActiveJob` is proved from its pairwise form (`OneActive`), which a
request keeps because it never meets a publication in flight.

**Review cards.** Every change of a card raises its version (`Turned`), and a lease
takes the version it raised its card to (`TakesLease`). So of the leases of a card at
most one is at the card's version (`OneNewestLease`), which is what a button must name
to count; and as long as a lease is at that version it shows the row version the card
was made at (`LeasesFollowCards`). `OneMessageOpens` then needs that a task has one
active card (`OneActiveCard`), `ButtonsShowTheRow` that a button also checks the
row's version (`CurrentCard`). That several cards may be made in one transaction makes
the ids the hard part: `Schedule` gives them out in order and to different tasks
(`MadeInOrder`). `CeilingHeld` holds because what a consumer holds grows only in
`ClaimNext`, and there only when it `Fits`. `TypeOK` is part of the argument: a card is
made of the result its row carries, so `RowsFollow` says that there is one.

**Intake.** Pages are cut from the outbox where the last one ended and the inbox takes a
page only at its own cursor, so with `SentOnce` the inbox is a prefix of the producer's
history (`OneHistory`). `InboxInv` says that the tables of the inbox are what its items say;
`LedgerSound` that every binding has a task and every task at most one candidate
(`OwnTasks`: without it a revision of one candidate could reword another's task), and that
a task says what the item it was last bound to says. The last is stated for closed tasks
and before the cutover as well, because a task that is reopened must be found true
(`Follows`). One accepted item keeps all this (`AcceptAdvances`), and a pass of any length
by going along its items (`StepByStep`, `AllTheWay`). What the bootstrap takes over of the
shadow is sound by itself (`TakenOverSound`), however long ago it was read. `NoneLost` is
established at `Activate`, which reconciles every candidate with its newest item, and kept
by the cursor. `ReaderStands` compares the ledger before a pass with the one after it, so
`Fits` says it of each of the four writes an item can cause, whatever the reason a source
gives and whoever dropped the task (`WithdrawMoves`, `ReactivateMoves`, `ReviseMoves`), and
`PassKeeps` carries it through the items of a pass.

**Task cards.** Most methods change three tables at once, so the steps are described as
relations between tables: `Advances` (what may ever happen to cards), `Lapses` (questions
that expire with their card) and both together (`Passes`) compose, and a pass is followed one part after the
other. `Sound` says that what is bound names cards that exist, that evidence is on a
card of its own task, that a card has one comparison, and that one card per task is in
play; `PairsInv` that a proposal names its tasks in order and at versions they have had,
that a pair has one proposal that did not expire, and that merging is one way.
`MessagesFollow` is what an answer needs: while a message is its card's newest, it
shows the question bound to that card and saw every task the question is about at the
version the card was posted for. From it `AnswersWhatWasShown` follows for a button, and from
what each pass asks of the row it raises a card on, `PassesAgree`.

**Runs.** Whatever supervisors and agents do, the ledger takes one of six steps
(`LedgerStep`), none of which touches a claim that is over; what was true of a settled
run stays true (`Onward`). `ResultIsOwn` rests on `TextsAreFenced`: a text written under
a claim counts for no other run that may still record. `OneLateWrite` rests on
`LateIsLast`: a command that starts after the claim is refused, so the write that lands
late is the one that was begun in time. `ReportIsTrue` rests on `AgentIsOver`: a
supervisor settles only once its agent is gone. The refinement follows from the six
steps.

**Lanes.** `LanesApart` is about agents, but a directory is given out by the state of
jobs. The argument is about the jobs whose supervisor has the agent, or is on its way
to it, and was never held up (`Manned`): such a job is active for *every* caller, those
who see the supervisor and those who go by the heartbeat, until the supervisor itself
ends it. So none of their directories is given out again (`MannedApart`) and they all
count against the cap (`MannedCapped`).

**Scheduling.** The claim writes down, in its own transaction, that the conditions of
the row it takes are satisfied, and `apply` adds one only to a row it has just seen not
to be running; `RunningIsFree` then needs that no step revives a condition
(`NothingRevived`), which is said of each operation on change sets. `AutomationYields`
needs that whoever has been at a row left a trace: a row begun or placed by the reader is at a
version later than the one `apply` makes (`Traces`), so an undo that finds version 1
finds nobody's work. For `NoWaitingInCircles` the steps are sorted into those after which
nobody waits for more than before (`NoMoreWaits`) and `apply`, which adds one edge after
looking at the very graph it makes; fewer edges make no circle and no longer chain
(`WaitsGrow`). `DeadlinesReach` rests on that: as nobody waits in a circle, no task is set
aside as cyclic (`NobodyIsCyclic`), and each round has a task behind which everybody is
dealt with (`OneIsFree`), so as many rounds as there are tasks reach them all
(`RoundAdvances`). The rounds keep that the dates of those dealt with stay, and that
every date is the earliest of the task's own and of what those dealt with pass on
(`Settled`). Each such date is asked for by a chain (`RoundTraces`), and, at the end, no
chain of any length asks for an earlier one (`NoneAskedEarlier`).

*Computations over data.* Rounds, passes and chains are recursive functions, and what
holds of all their values is shown first-order: a set of numbers that has a member has a
least one (`SetInduction`, from the well-foundedness of `<`), so the least step at which a
claim fails is a contradiction (`StepByStep`, `Iterated`).

### Only model-checked

* Safety: `VersionIsEarned`, `UpgradeComesThrough`, `NothingLost` (`SchemaMigrations`)
  compare a file with a fold over 72 concrete lists of statements: a computation for TLC,
  with nothing in it that holds for every value of a constant.
* Liveness: `EveryClaimSettles`, `ReadyWorkMoves`, `RevisionReplans`,
  `WithdrawnIsClosed`, `PublicationSettles`, `PlanIsReleased`, `GateIsAsked`,
  `ObsoleteMessageGoes`, `FeedIsTaken`, `QuestionsAreAsked`, `LanesEnd`. The proof system
  has no rules for fairness and `ENABLED`.

### Stated, and checked by no run

* Proved, so a small instance would add nothing: `ClaimMatchesRow`, `BoundedAttempts`,
  `SettledOnce`, `SlotCapHeld`, `ClaimsMatchJobs`, `AttemptsLeft`, `OneActiveJob`,
  `CancelStands`, `LanesCapped`, `CeilingHeld`, `OneActiveCard` (which the schema's unique
  index guards too) and the type invariants of the modules
  with proofs.
* True of the instances, beside the others of their module: `ResultsAreAnswers`
  (`ExecutionWorkflow`), `BoundToNewest` (`CandidateIntake`).
* Stated as the documents have it, and not kept by the code (section 5):
  `HeldPlanStopsNobody`, `ResurfacedIsScheduled`, `GateNeverStalls`
  (`ExecutionWorkflow`), `CurrentRecordStays` (`TaskResearch`), `SnoozeStartsNothing`,
  `MadeCardIsCurrent` (`ExecutionCards`), `NoQuestionIsBuried` (`TaskCards`).

## 5. Observations

What the code does otherwise than its documents or comments say, or than one would
expect. They were met while modelling; 1, 2, 3, 5, 6 and the failing answer of the queue
view were also reproduced by driving the Python services. No run checks them: the
properties of section 3 are stated so that they hold of the code as it is, and say
where they yield to these.

**Ledger and gates**

1. A held parked plan stops the queue (`HeldPlanStopsNobody`).
   `_hold_for_ownership_review` (`task_execution.py:3240`) sets a row to
   `awaiting_start` and leaves `parked_at`; on a parked row the CHECK fails,
   `claim_next` raises and rolls back, on every pass, and no task behind that row is
   ever claimed.
2. A task the source returns is not scheduled (`ResurfacedIsScheduled`).
   `_apply_candidate_reactivation` (`task_ledger.py:2029`) opens a task the forge had
   closed without the event `schedule_new` keys on.
3. A plan waits in silence (`GateNeverStalls`). A plan under an ownership review can be
   snoozed and revised into the queue, where the pending review holds it and no card
   exists to answer it.
4. A plan that was sent back can be approved. It was revised by a reader's note or a
   revision of its source; held for its disputed owner at its Start gate it still
   carries the old result, and snoozed there it comes back as a `plan_review` card of
   the old plan (`execution_cards.py:3656–3690`), whose approval executes it (ADR
   0013:45: "A revision decision returns to `plan`"). The same follows a promotion.
   `PhaseIsEarned` therefore speaks of the result a row carries and not of the cycle.
5. A late repair restores an old report (`CurrentRecordStays`). `fail_or_repair`
   repairs the job a pass once claimed. If another pass completed that job and a newer
   one since, `repair` puts the old files over the newer ones.
6. A stranded publication holds a plan for ever. A pass that dies between the two
   transactions of `publish` leaves its job `publishing`; `recover_expired` and `claim`
   leave it alone. If the task is then revised, every request is deferred and the gate
   never looks at its deadline. `PublicationSettles` and `PlanIsReleased` are therefore
   promised only while nothing has failed.
7. `_defer_failure` does not count a timeout, on purpose, so a plan that only times out
   is retried for ever, although ADR 0013 promises that failures park after a limit.

**Review cards**

* Snooze on a Start card in the queue view starts the work (`SnoozeStartsNothing`,
  `execution_cards.py:937`); the queue view writes a parked row without clearing
  `parked_at`, which the CHECK refuses.
* The queue view offers `comment_and_go`, which always fails: it stores that word
  (`execution_cards.py:956`), which the resolution CHECK of the table refuses.
* A snoozed row whose result is another phase's gets a card that can open nothing
  (`MadeCardIsCurrent`), on every pass.
* The message of a requeued card stays in the chat if the card is cancelled before it is
  delivered again: `_cancel_stale` overwrites `superseded_delivery_ref` with a reference
  that the requeue has cleared (`execution_cards.py:1496`, 3041). `ObsoleteMessageGoes`
  speaks of the message a cancelled card still names.
* `until_meeting` sets the phase back; the newest note of a reader is told first;
  requeued cards are taken oldest first, so a full band starves the rest.

**Intake**

* A withdrawal between bootstrap and activation is never recorded (ADR 0049, 0022); a
  task reopened by a registry revision names a version that is not written; a revision
  acknowledged after a dropped task was closed is not applied when it is reopened; the
  reactivation of a task that is done ignores the bound on resurfacing.
* An issue closed as not planned and then opened again leaves its task dropped and the
  binding a `reader_conflict`, though no reader was there: the comment at
  `task_ledger.py:2014` explains the refusal by a reader who rejected the work. The next
  revision does not take it up either; only the reader reopens it.

**Task cards**

* `show_full_cards` cancels a comparison without releasing its proposal (ADR 0038:80);
  `_act_duplicate` cancels a card without releasing its evidence
  (`NoQuestionIsBuried`); one pending card may carry two evidences; the second offer
  after `reverse_duplicate` never happens.
* A merged task that is reopened with evidence open has its card raised and cancelled on
  every pass; `PassesAgree` excepts it.
* `duplicates.reopen` and `task_completion.propose` have no caller.

**Runner, worker and forge**

* Reports about the ledger's side may be wrong where they are not failures: "recorded"
  for a later run's result, "released" for a claim that expired and was requeued,
  "claim_lost" for a recorded run whose row the next pass already claimed or for a
  handoff that parked, "lease_failed" although the agent recorded. Hence `ReportIsTrue`
  speaks of failures only.
* `_TerminationRequested` is an `Exception`, so a renewal or `_fail_claim` may swallow
  the signal; a second signal during the termination leaves the agent alive; the process
  group is not killed if its leader has exited; a supervisor killed outright leaves an
  agent that renews.
* A write that lands but whose URL cannot be looked up gets no receipt, so a retry
  repeats it; an unreadable list of issues lets `open_issue` repeat a title; a mail
  leaves no receipt. A ninth distinct receipt is appended unchecked and makes the file
  unreadable ever after (`execution_worker.py:2609–2694`).
* `_required_repository_receipt_kinds` promises receipts, while `_repository_result`
  counts references the agent wrote: `CompletionIsVisible` excepts what is cited.
* `cleanup_run_clones` deletes uncommitted work; `record` appends to the archive before
  the ledger may refuse.

**Lanes**

* An `OSError` in a heartbeat leaves the loop with the agent alive and the job
  "failed"; a `SIGTERM` before the handler is installed, or after it is restored, leaves
  the job "cancelling" until it is orphaned.
* ADR 0060's "concurrency checks remain correct when their process namespace cannot see
  the supervisor" holds while no heartbeat is late by 30 s: `Tended` excludes the others.

**Migrations**

* Nothing keeps two migrators apart: one held up at `BEGIN IMMEDIATE` replays from its
  own version and sets `user_version` back. From version 60 on every replay is harmless.
  Below it, replays of steps 52, 53, 59 or 60 narrow the CHECK of the card events or
  drop `consumer_digest`, although a comment calls the definitions "Replayable, as the
  additive migrations around it are" (`candidate_inbox.py:3151–3152`).
* A replay of step 28 restores a trigger that step 44 then does not repair, and step 57
  aborts; steps 17, 18, 22, 23 and 26 add columns unguarded; step 20 checks foreign keys
  after its commit, and a rerun does not repeat it (4701–4709).
* The final checks omit `work_items`, `work_revisions`, `ownership_reviews`, their guards
  and several triggers; the index of `_SCHEMA_V39` is never created.

**Scheduling**

* A conditioned task whose version changes is held for ever: `needs_review` never
  matches again and its undo conflicts. One conflicting undo is final; undoing or raising
  one change keeps every other change of that task from being undone.
* `needs_review` edges count in the check for circles and not in `_deadline_graph`.
* A stored `not_before` ends in "+00:00" and an item's in "Z", so a replayed date never
  matches, although ADR 0062 says a replay "returns the original change and card".
* A created prerequisite is queued at once, although a comment says it has "the same
  start-card/read authority path as any other task" (`task_scheduling.py:972–974`).
* Nothing resumes a projection that a busy database broke off.

## 6. Plan

1. Proofs: `ResultsAreAnswers` over cycles; the schema's `NothingLost` for a single step,
   stated of its statements.
2. `ExecutionCards` as an implementation of an abstract question that is asked once per
   version and answered at most once; `TaskResearch` composed with `ExecutionWorkflow`
   in place of the research flag.
3. `ProfileStore` (`profile_store.py`, `profile_adoption.py`): installation and
   publication of revisions; `effect_intents.py` and `persistent_effects.py`: uncertain
   outcomes of writes.
4. A liveness run with a scan full of held rows (`MAX_CLAIM_SCAN`).

## 7. Not modelled

See the components of `PROJECT.json`. Content (prompts, summaries, scores, titles),
rendering, the card server, configuration parsing, command-line entry points, read-only
reports, exports and the archive are left out: they hold no state the properties are
about. Installation of profiles and the intents of persistent effects are planned.
