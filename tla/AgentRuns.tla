------------------------------ MODULE AgentRuns ------------------------------
(***************************************************************************)
(* One task's passes as they really run: the supervisor of                 *)
(* src/foxhound/execution_runner.py, the agent process it starts, and the  *)
(* worker commands of execution_worker.py the agent answers and publishes  *)
(* through, forge_action.py included.                                      *)
(*                                                                         *)
(* The supervisor claims under a slot lock, writes the run-state file,     *)
(* starts the agent, renews and polls; it ends the agent and only then     *)
(* reports to the ledger.  The agent is a process of its own that outlives *)
(* a supervisor that is killed.  It reaches the ledger with the token of   *)
(* the run-state file, so a command that has read the file goes on after   *)
(* the file is scrubbed.  Result files live in the task's folder, which    *)
(* every run of the task shares, or in the run's own directories.          *)
(*                                                                         *)
(* The ledger is what ExecutionWorkflow refines to ClaimLedger, for one    *)
(* task: LedgerKept states that the runs use it as that ledger allows.     *)
(***************************************************************************)
EXTENDS Integers, FiniteSets

CONSTANTS
    Slots,          \* runner slots: one lock file each
    Runs,           \* bound: claims ever granted, 1..n
    Phases,         \* the phases the task's claims are for
    Origins,        \* what the task may come from: an issue, a review request
    Tries,          \* bound: the external actions an agent tries, by origin
    MaxFaults       \* bound: kills, signals, refusals, breakdowns, moves

ASSUME AgentRunsAssumption ==
    /\ IsFiniteSet(Slots) /\ IsFiniteSet(Runs) /\ Runs \subseteq Nat \ {0}
    /\ Phases \subseteq {"plan", "execute", "external_action"}
    /\ Origins \subseteq {"issue", "review_request"}
    /\ Tries \in [Origins -> SUBSET {"issue", "issue-comment", "pull-request",
                                    "review", "outbound-mail"}]
    /\ MaxFaults \in Nat

None == 0

CorrectiveTurns == 2

VARIABLES
    row,            \* the task's workflow row, its origin included
    fate,           \* how each claim stands
    slot,           \* the run whose supervisor holds each slot lock
    sup,            \* where each supervisor stands, and with what verdict
    report,         \* what each supervisor says as it exits
    agent,          \* each run's agent process and corrective turns
    state,          \* each run's run-state.json
    cmd,            \* the external action each agent is in the middle of
    folder,         \* the result files in the task's shared folder
    own,            \* the runs with result files in a directory of their own
    receipts,       \* each run's receipts of external actions
    forge,          \* the kinds of write each run has landed on the forge
                    \* (a mail is not one, and leaves no receipt)
    late,           \* the writes of each run that landed after its claim was over
    results,        \* the results the ledger holds, by run
    faults          \* faults and outside moves left

ledgerVars == <<row, fate, results>>
superVars  == <<slot, sup, report>>
forgeVars  == <<forge, late>>
fileVars   == <<folder, own, receipts>>
vars == <<row, fate, slot, sup, report, agent, state, cmd, folder, own,
          receipts, forge, late, results, faults>>

Statuses == {"queued", "running", "parked", "awaiting_review", "completed",
             "cancelled"}
Fates    == {"unissued", "live", "recorded", "released", "failed", "expired",
             "cancelled"}
Verdicts == {"recorded", "released", "claim_lost"}
Reasons  == {"startup_failed", "lease_failed", "process_exit", "timeout",
             "interrupted"}

\* _append_repository_receipt: what a receipt may be of.
ReceiptKinds == {"issue", "issue-comment", "pull-request", "review"}

RowStates == [status : Statuses, claim : Runs \cup {None}, phase : Phases,
              expired : BOOLEAN, result : Runs \cup {None}, origin : Origins]
Nobody == [by |-> None, held |-> FALSE, since |-> {}]
Texts  == [by : Runs \cup {None}, held : BOOLEAN, since : SUBSET Runs]
Mine(k) == [by |-> k, held |-> TRUE, since |-> {k}]
\* "published" is the completed outcome of the external_action phase.
Outcomes == {"handed_over", "completed", "published"}
Results  == [by : Runs, held : BOOLEAN, outcome : Outcomes, cites : SUBSET ReceiptKinds]
NoResult == [outcome |-> "none"]
NoAgent == [at |-> "gone", turns |-> 0]
Idle == [step |-> "idle", kind |-> "none"]

Init ==
    /\ row \in [status : {"queued"}, claim : {None}, phase : Phases,
                expired : {FALSE}, result : {None}, origin : Origins]
    /\ fate = [k \in Runs |-> "unissued"]
    /\ slot = [s \in Slots |-> None]
    /\ sup = [k \in Runs |-> [at |-> "none", why |-> "none", saw |-> None]]
    /\ report = [k \in Runs |-> "none"]
    /\ agent = [k \in Runs |-> NoAgent]
    /\ state = [k \in Runs |-> "none"]
    /\ cmd = [k \in Runs |-> Idle]
    /\ folder = Nobody
    /\ own = {}
    /\ receipts = [k \in Runs |-> {}]
    /\ forge = {}
    /\ late = [k \in Runs |-> 0]
    /\ results = [k \in Runs |-> NoResult]
    /\ faults = MaxFaults

Fault == faults > 0 /\ faults' = faults - 1

-----------------------------------------------------------------------------
(* The ledger                                                              *)

\* What would go wrong: a live lease is looked for, whosever it is.
AcceptsAny(k) == row.claim # None /\ ~row.expired

\* _running_guard: every claim operation names the version and the token of a
\* claim that is still the row's and whose lease has not run out.
Accepts(k) == row.claim = k /\ ~row.expired

\* The claim of the row ends and the row goes to status s.
Ends(s, f) ==
    /\ row' = [row EXCEPT !.status = s, !.claim = None, !.expired = FALSE]
    /\ fate' = [fate EXCEPT ![row.claim] = f]

\* fail: queued again with a backoff, or parked.
Fails(k) == /\ \E s \in {"queued", "parked"} : Ends(s, "failed")
            /\ UNCHANGED results

\* record_result: to the reader, or on to the next phase under a grant.
Records(k, r) ==
    /\ \E s \in {"awaiting_review", "queued"} :
         row' = [row EXCEPT !.status = s, !.claim = None, !.result = k]
    /\ fate' = [fate EXCEPT ![k] = "recorded"]
    /\ results' = [results EXCEPT ![k] = r]

\* The lease of the present claim runs out, for want of a supervisor or because
\* it was held up; nothing notices until a pass looks.
Expires ==
    /\ row.status = "running" /\ ~row.expired
    /\ IF sup[row.claim].at \in {"killed", "ended"} THEN UNCHANGED faults ELSE Fault
    /\ row' = [row EXCEPT !.expired = TRUE]
    /\ UNCHANGED <<fate, superVars, agent, state, cmd, fileVars, forgeVars, results>>

\* The reader, the source or the operator moves the row: a revision or a
\* lifecycle action cancels the work, an approval or a note queues it again.
RowMoves ==
    /\ Fault
    /\ \/ /\ row.status # "running"
          /\ \E s \in {"queued", "completed", "cancelled"} \ {row.status},
                p \in Phases :
               row' = [row EXCEPT !.status = s, !.phase = p]
          /\ UNCHANGED fate
       \/ /\ row.status = "running"
          /\ Ends("cancelled", "cancelled")
    /\ UNCHANGED <<superVars, agent, state, cmd, fileVars, forgeVars, results>>

\* A pass that finds its claim expired defers the work before it looks for any.
RecoverExpired ==
    /\ \E s \in Slots : slot[s] = None
    /\ row.expired
    /\ \E s \in {"queued", "parked"} : Ends(s, "expired")
    /\ UNCHANGED <<superVars, agent, state, cmd, fileVars, forgeVars, results, faults>>

-----------------------------------------------------------------------------
(* The supervisor                                                          *)

At(k, w) == sup' = [sup EXCEPT ![k].at = w]
Stops(k, why) == sup' = [sup EXCEPT ![k].at = "stopping", ![k].why = why]
Reports(k, r) == report' = [report EXCEPT ![k] = r]
Freed(k) == [s \in Slots |-> IF slot[s] = k THEN None ELSE slot[s]]

\* What the row says of run k to a supervisor that saw last result saw.
Verdict(k) ==
    IF row.claim = k THEN "none"
    ELSE IF /\ row.result \notin {None, sup[k].saw}
            /\ row.status \in {"awaiting_review", "completed", "queued"}
         THEN "recorded"
         ELSE IF row.status = "queued" THEN "released" ELSE "claim_lost"

Start(s, k) ==
    /\ slot[s] = None
    /\ row.status \in {"queued", "parked"}
    /\ fate[k] = "unissued" /\ \A j \in Runs : fate[j] = "unissued" => j >= k
    /\ slot' = [slot EXCEPT ![s] = k]
    /\ row' = [row EXCEPT !.status = "running", !.claim = k]
    /\ fate' = [fate EXCEPT ![k] = "live"]
    /\ At(k, "starting")
    /\ UNCHANGED <<report, agent, state, cmd, fileVars, forgeVars, results, faults>>

\* The run-state file is written before the agent exists: its time is the fence
\* between what this run wrote and what it found.
WriteState(k) ==
    /\ sup[k].at = "starting"
    /\ state' = [state EXCEPT ![k] = "full"]
    /\ At(k, "anchored")
    /\ UNCHANGED <<ledgerVars, slot, report, agent, cmd, fileVars, forgeVars, faults>>

FailsIfHeld(k) == IF Accepts(k) THEN Fails(k) ELSE UNCHANGED ledgerVars

StartFails(k) ==
    /\ Fault
    /\ sup[k].at \in {"starting", "anchored"}
    /\ FailsIfHeld(k)
    /\ Reports(k, "startup_failed")
    /\ At(k, "closing")
    /\ UNCHANGED <<slot, agent, state, cmd, fileVars, forgeVars>>

Launch(k) ==
    /\ sup[k].at = "anchored"
    /\ IF row.claim = k
       THEN /\ agent' = [agent EXCEPT ![k].at = "alive"]
            /\ sup' = [sup EXCEPT ![k].at = "watching", ![k].saw = row.result]
            /\ UNCHANGED report
       ELSE /\ Reports(k, "claim_lost")
            /\ At(k, "closing")
            /\ UNCHANGED agent
    /\ UNCHANGED <<ledgerVars, slot, state, cmd, fileVars, forgeVars, faults>>

\* One turn of the polling loop: the row has moved on, ...
SeeTerminal(k) ==
    /\ sup[k].at = "watching"
    /\ Verdict(k) # "none"
    /\ Stops(k, Verdict(k))
    /\ UNCHANGED <<ledgerVars, slot, report, agent, state, cmd, fileVars, forgeVars, faults>>

\* ... the renewal is refused, ...
RenewalRefused(k) ==
    /\ sup[k].at = "watching"
    /\ ~Accepts(k)
    /\ Stops(k, "refused")
    /\ UNCHANGED <<ledgerVars, slot, report, agent, state, cmd, fileVars, forgeVars, faults>>

\* ... or the ledger cannot be reached, ...
RenewalBreaks(k) ==
    /\ Fault
    /\ sup[k].at = "watching"
    /\ Stops(k, "lease_failed")
    /\ UNCHANGED <<ledgerVars, slot, report, agent, state, cmd, fileVars, forgeVars>>

\* ... the agent has exited without an answer and is asked again for one, ...
SeeExit(k) ==
    /\ sup[k].at = "watching"
    /\ agent[k].at = "gone"
    /\ row.claim = k
    /\ \/ /\ agent[k].turns < CorrectiveTurns /\ Fault
          /\ agent' = [agent EXCEPT ![k].at = "alive", ![k].turns = @ + 1]
          /\ UNCHANGED sup
       \/ /\ sup' = [sup EXCEPT ![k].at = "settling", ![k].why = "process_exit"]
          /\ UNCHANGED <<agent, faults>>
    /\ UNCHANGED <<ledgerVars, slot, report, state, cmd, fileVars, forgeVars>>

\* ... or its time is up: the row may have moved since this turn looked at it.
TimesOut(k) ==
    /\ sup[k].at = "watching"
    /\ Stops(k, "timeout")
    /\ UNCHANGED <<ledgerVars, slot, report, agent, state, cmd, fileVars, forgeVars, faults>>

\* A signal interrupts the watching and the stopping; while it already stops for
\* one, it leaves the handler with nothing reported and the agent as it is.
Interrupted(k) ==
    /\ Fault
    /\ \/ sup[k].at \in {"watching", "stopping"}
       \/ sup[k].at = "settling" /\ sup[k].why = "refused"
    /\ IF sup[k].why = "interrupted" THEN At(k, "closing") ELSE Stops(k, "interrupted")
    /\ UNCHANGED <<ledgerVars, slot, report, agent, state, cmd, fileVars, forgeVars>>

\* _fail_claim takes a signal for a ledger that cannot be reached, before or
\* after the failure is committed.
SwallowsSignal(k) ==
    /\ Fault
    /\ sup[k].at = "settling" /\ sup[k].why \in Reasons \ {"lease_failed"}
    /\ FailsIfHeld(k) \/ UNCHANGED ledgerVars
    /\ At(k, "rereading")
    /\ UNCHANGED <<slot, report, agent, state, cmd, fileVars, forgeVars>>

\* The process group is ended, in the middle of a command if need be.
Terminate(k) ==
    /\ sup[k].at = "stopping"
    /\ agent' = [agent EXCEPT ![k].at = "gone"]
    /\ cmd' = [cmd EXCEPT ![k] = Idle]
    /\ At(k, "settling")
    /\ UNCHANGED <<ledgerVars, slot, report, state, fileVars, forgeVars, faults>>

\* What would go wrong: the reason is reported whatever the ledger answered.
SettleAtOnce(k) ==
    /\ sup[k].at = "settling"
    /\ IF sup[k].why \in Reasons THEN FailsIfHeld(k) ELSE UNCHANGED ledgerVars
    /\ Reports(k, sup[k].why)
    /\ At(k, "closing")
    /\ UNCHANGED <<slot, agent, state, cmd, fileVars, forgeVars, faults>>

\* What the ledger did not take as a failure is looked at once more.
Settle(k) ==
    /\ sup[k].at = "settling"
    /\ LET why == sup[k].why
       IN CASE why \in Verdicts ->
                 /\ Reports(k, why)
                 /\ At(k, "closing")
                 /\ UNCHANGED ledgerVars
            [] why = "refused" ->
                 /\ Reports(k, IF Verdict(k) = "none" THEN "claim_lost" ELSE Verdict(k))
                 /\ At(k, "closing")
                 /\ UNCHANGED ledgerVars
            [] why = "lease_failed" ->
                 /\ FailsIfHeld(k)
                 /\ Reports(k, why)
                 /\ At(k, "closing")
            [] OTHER ->
                 /\ FailsIfHeld(k)
                 /\ IF Accepts(k)
                    THEN Reports(k, why) /\ At(k, "closing")
                    ELSE UNCHANGED report /\ At(k, "rereading")
    /\ UNCHANGED <<slot, agent, state, cmd, fileVars, forgeVars, faults>>

Reread(k) ==
    /\ sup[k].at = "rereading"
    /\ Reports(k, IF Verdict(k) \in {"recorded", "released"} THEN Verdict(k) ELSE "claim_lost")
    /\ At(k, "closing")
    /\ UNCHANGED <<ledgerVars, slot, agent, state, cmd, fileVars, forgeVars, faults>>

\* _scrub_state_receipt: the token leaves the run-state file.
Scrubbed(k) == [state EXCEPT ![k] = IF @ = "full" THEN "scrubbed" ELSE @]

\* The run state is scrubbed and the slot is free.  No command of the
\* run starts after that, so what its directories hold is never read again, nor
\* is what the supervisor has said on its way out.
Close(k) ==
    /\ sup[k].at = "closing"
    /\ state' = Scrubbed(k)
    /\ slot' = Freed(k)
    /\ sup' = [sup EXCEPT ![k] = [at |-> "ended", why |-> "none", saw |-> None]]
    /\ agent' = [agent EXCEPT ![k] = IF @.at = "alive" THEN @ ELSE NoAgent]
    /\ Reports(k, "none")
    /\ own' = own \ {k}
    /\ receipts' = [receipts EXCEPT ![k] = {}]
    /\ UNCHANGED <<ledgerVars, cmd, folder, forgeVars, faults>>

\* The supervisor dies; its lock goes with it, its agent does not.
Kill(k) ==
    /\ Fault
    /\ sup[k].at \notin {"none", "ended", "killed"}
    /\ slot' = Freed(k)
    /\ At(k, "killed")
    /\ UNCHANGED <<ledgerVars, report, agent, state, cmd, fileVars, forgeVars>>

-----------------------------------------------------------------------------
(* The agent and its worker commands                                       *)

Working(k) == agent[k].at = "alive" /\ cmd[k] = Idle

\* load_run_state: nothing but a whole run state will do; the receipt that is
\* left of one names no claim.
RunState(k) == state[k] = "full"

\* A command reads the run-state file and renews the claim before it acts.
Active(k) == Working(k) /\ RunState(k) /\ Accepts(k)

\* The agent writes its result where the reader looks for it, or privately
\* (bound: once).
Writes(k) ==
    /\ Working(k)
    /\ folder.by # k /\ k \notin own
    /\ \/ /\ folder' = [by |-> k, held |-> row.claim = k,
                        since |-> {j \in Runs : state[j] # "none"}]
          /\ UNCHANGED own
       \/ /\ own' = own \cup {k}
          /\ UNCHANGED folder
    /\ UNCHANGED <<ledgerVars, superVars, agent, state, cmd, receipts, forgeVars, faults>>

\* What would go wrong: any file of the shared folder counts.
FencedNever(k) == FALSE

\* A file of the shared folder counts if it is not older than the run.
Fenced(k) == k \notin folder.since

\* The task's folder is searched before the run's private directory.
Found(k) == IF folder.by # None /\ ~Fenced(k) THEN folder
            ELSE IF k \in own THEN Mine(k) ELSE Nobody

\* _required_repository_receipt_kinds: what has to be seen of a task's work.
Owed == IF row.origin = "issue" THEN {"pull-request", "issue-comment"} ELSE {"review"}

\* _publication_is_the_deliverable: a review leaves nothing but what it posts.
PublicationIsTheDeliverable == "pull-request" \notin Owed

\* _repository_result: a completed plan or execution has to cite what is already
\* published if it changed the repository or owes no more than a publication;
\* an approved action owes a receipt, or a reference, of each kind.
Shows(k, outcome, impact, cites) ==
    CASE outcome = "handed_over" -> cites = {}
      [] outcome = "completed" ->
            /\ row.phase # "external_action"
            /\ impact \/ PublicationIsTheDeliverable => cites # {}
      [] OTHER -> /\ row.phase = "external_action"
                  /\ Owed \subseteq receipts[k] \cup cites

\* draft: the result as the files found make it, under the run's own id.
Drafted(k, outcome, cites) ==
    [by |-> Found(k).by, held |-> Found(k).held, outcome |-> outcome, cites |-> cites]

\* record --outcome drafts and records what it found; the private files and the
\* receipts go, the files of the task's folder stay.
RecordOutcome(k) ==
    /\ Active(k)
    /\ Found(k) # Nobody
    /\ \E outcome \in Outcomes, impact \in BOOLEAN, cites \in SUBSET Owed :
         /\ Shows(k, outcome, impact, cites)
         /\ Records(k, Drafted(k, outcome, cites))
    /\ own' = own \ {k}
    /\ receipts' = [receipts EXCEPT ![k] = {}]
    /\ UNCHANGED <<superVars, agent, state, cmd, folder, forgeVars, faults>>

\* _result_inputs_present: anything of this run's that is still to be recorded.
InputsPresent(k) == Found(k) # Nobody \/ receipts[k] # {}

\* A claim is given back only by a run that has left nothing to record.
Release(k) ==
    /\ Active(k)
    /\ ~InputsPresent(k)
    /\ Ends("queued", "released")
    /\ UNCHANGED <<results, superVars, agent, state, cmd, fileVars, forgeVars, faults>>

\* Out of turns, with a note for the next pass.
Handoff(k) ==
    /\ Active(k)
    /\ Fails(k)
    /\ UNCHANGED <<superVars, agent, state, cmd, fileVars, forgeVars, faults>>

\* What would go wrong: the token was read when the agent began, ...
BeginActUnchecked(k, kind) ==
    /\ Working(k) /\ RunState(k)
    /\ row.phase = "external_action"
    /\ kind \in Tries[row.origin]
    /\ cmd' = [cmd EXCEPT ![k] = [step |-> "checked", kind |-> kind]]
    /\ UNCHANGED <<ledgerVars, superVars, agent, state, fileVars, forgeVars, faults>>

\* ... or the forge's refusal goes unnoticed.
RefusedQuietly(k) ==
    /\ cmd[k].step = "checked"
    /\ Fault
    /\ cmd' = [cmd EXCEPT ![k].step = "landed"]
    /\ UNCHANGED <<ledgerVars, superVars, agent, state, fileVars, forgeVars>>

\* An external action, in the order of the code: the claim is checked, and the
\* phase is the approval, ...
BeginAct(k, kind) ==
    /\ Active(k)
    /\ row.phase = "external_action"
    /\ kind \in Tries[row.origin]
    /\ cmd' = [cmd EXCEPT ![k] = [step |-> "checked", kind |-> kind]]
    /\ UNCHANGED <<ledgerVars, superVars, agent, state, fileVars, forgeVars, faults>>

\* ... a review only of the pull request the task is about, a comment only on
\* its issue, ...
ActReview(k) == row.origin = "review_request" /\ BeginAct(k, "review")
ActComment(k) == row.origin = "issue" /\ BeginAct(k, "issue-comment")

\* ... a proposal or a finding of any task, and a message to anybody; ...
ActPullRequest(k) == BeginAct(k, "pull-request")
ActIssue(k) == BeginAct(k, "issue")
ActMail(k) == BeginAct(k, "outbound-mail")

\* ... the write lands, ...
Lands(k, kind) ==
    /\ cmd[k] = [step |-> "checked", kind |-> kind]
    /\ forge' = forge \cup ({[run |-> k, kind |-> kind]} \cap [run : Runs, kind : ReceiptKinds])
    /\ late' = [late EXCEPT ![k] = IF row.claim = k THEN @ ELSE @ + 1]
    /\ cmd' = [cmd EXCEPT ![k].step = "landed"]
    /\ UNCHANGED <<ledgerVars, superVars, agent, state, fileVars>>

Stands(kind) == \E e \in forge : e.kind = kind

\* (post_review, post_issue_comment, and the mail program, which ask nothing;
\* open_pull_request, of which the forge takes one for a branch; open_issue,
\* which looks for its title first, if the list can be read)
PostsReview(k) == Lands(k, "review") /\ UNCHANGED faults
PostsComment(k) == Lands(k, "issue-comment") /\ UNCHANGED faults
SendsMail(k) == Lands(k, "outbound-mail") /\ UNCHANGED faults
OpensPullRequest(k) == ~Stands("pull-request") /\ Lands(k, "pull-request") /\ UNCHANGED faults
OpensIssue(k) == Lands(k, "issue") /\ IF Stands("issue") THEN Fault ELSE UNCHANGED faults

\* ... unless it is refused, ...
Refused(k) ==
    /\ cmd[k].step = "checked"
    /\ IF cmd[k].kind \in {"pull-request", "issue"} /\ Stands(cmd[k].kind)
       THEN UNCHANGED faults ELSE Fault
    /\ cmd' = [cmd EXCEPT ![k] = Idle]
    /\ UNCHANGED <<ledgerVars, superVars, agent, state, fileVars, forgeVars>>

\* ... and its receipt is kept, if the forge said where it landed.
KeepsReceipt(k) ==
    /\ cmd[k].step = "landed"
    /\ \/ /\ receipts' = [receipts EXCEPT ![k] = @ \cup ({cmd[k].kind} \cap ReceiptKinds)]
          /\ UNCHANGED faults
       \/ Fault /\ UNCHANGED receipts
    /\ cmd' = [cmd EXCEPT ![k] = Idle]
    /\ UNCHANGED <<ledgerVars, superVars, agent, state, folder, own, forgeVars>>

AgentExits(k) ==
    /\ agent[k].at = "alive"
    /\ agent' = [agent EXCEPT ![k].at = "gone"]
    /\ cmd' = [cmd EXCEPT ![k] = Idle]
    /\ UNCHANGED <<ledgerVars, superVars, state, fileVars, forgeVars, faults>>

-----------------------------------------------------------------------------

Supervisor(k) ==
    \/ WriteState(k) \/ Launch(k) \/ SeeTerminal(k) \/ RenewalRefused(k)
    \/ SeeExit(k) \/ TimesOut(k) \/ Terminate(k) \/ Settle(k) \/ Reread(k)
    \/ Close(k)

Broken(k) == StartFails(k) \/ RenewalBreaks(k) \/ Interrupted(k)
             \/ SwallowsSignal(k) \/ Kill(k)

Act(k) == \/ ActReview(k) \/ ActComment(k) \/ ActPullRequest(k) \/ ActIssue(k)
          \/ ActMail(k)

Effect(k) == \/ PostsReview(k) \/ PostsComment(k) \/ OpensPullRequest(k)
             \/ OpensIssue(k) \/ SendsMail(k) \/ Refused(k) \/ KeepsReceipt(k)

Agent(k) == \/ Writes(k) \/ RecordOutcome(k) \/ Release(k) \/ Handoff(k)
            \/ Act(k) \/ Effect(k) \/ AgentExits(k)

Next == \/ Expires \/ RecoverExpired \/ RowMoves
        \/ \E k \in Runs : \/ \E s \in Slots : Start(s, k)
                           \/ Supervisor(k) \/ Broken(k) \/ Agent(k)

Spec == Init /\ [][Next]_vars

-----------------------------------------------------------------------------
(* What must hold                                                          *)

TypeOK ==
    /\ row \in RowStates
    /\ fate \in [Runs -> Fates]
    /\ slot \in [Slots -> Runs \cup {None}]
    /\ sup \in [Runs -> [at : {"none", "starting", "anchored", "watching",
                              "stopping", "settling", "rereading", "closing",
                              "ended", "killed"},
                        why : {"none", "refused"} \cup Verdicts \cup Reasons,
                        saw : Runs \cup {None}]]
    /\ report \in [Runs -> {"none"} \cup Verdicts \cup Reasons]
    /\ agent \in [Runs -> [at : {"alive", "gone"}, turns : 0..CorrectiveTurns]]
    /\ state \in [Runs -> {"none", "full", "scrubbed"}]
    /\ folder \in Texts
    /\ own \subseteq Runs
    /\ receipts \in [Runs -> SUBSET ReceiptKinds]
    /\ results \in [Runs -> Results \cup {NoResult}]

\* What a run records is its own work: a text another run left in the shared
\* folder while it held its claim is never harvested by a later one.
ResultIsOwn ==
    \A k \in Runs : results[k] # NoResult =>
        results[k].by = k \/ ~results[k].held

\* An approved action is recorded as completed only with each kind of write the
\* origin owes landed by this run, or cited by it.
CompletionIsVisible ==
    \A k \in Runs : results[k].outcome = "published" =>
        \A kind \in Owed \ results[k].cites :
            \E e \in forge : e.run = k /\ e.kind = kind

\* A run whose claim is over finishes at most the write it was in the middle of.
OneLateWrite ==
    \A k \in Runs : late[k] <= 1

\* A run reported as failed is one the ledger took as failed, so an answer that
\* came in time is never reported as late; and whatever is reported, the agent
\* is over.
ReportIsTrue ==
    \A k \in Runs :
      /\ report[k] \in {"process_exit", "timeout", "interrupted"} => fate[k] = "failed"
      /\ report[k] # "none" => agent[k].at # "alive"

-----------------------------------------------------------------------------
(* The ledger as ClaimLedger has it                                        *)

Ledger == INSTANCE ClaimLedger
            WITH Tasks <- {"task"}, ClaimIds <- Runs, SlotCap <- Cardinality(Slots),
                 NoClaim <- None,
                 holder <- [t \in {"task"} |-> row.claim],
                 answered <- {k \in Runs : results[k] # NoResult}

LedgerKept == Ledger!Spec
=============================================================================
