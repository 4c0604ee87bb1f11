---------------------------- MODULE TaskResearch ----------------------------
(***************************************************************************)
(* The research jobs of a task, from the request to the two files in the   *)
(* task's folder (src/foxhound/task_research.py), the one-shot runner that *)
(* works them off (task_research_runner.py) and the gate that makes a plan *)
(* wait for them (task_research_gate.py).                                  *)
(*                                                                         *)
(* A method of ResearchStore is one transaction and one action, except     *)
(* publish and repair: they write files between their transactions, so     *)
(* every file and every transaction of theirs is an action, and a pass of  *)
(* the runner may die or be overtaken between any two.  A pass claims at   *)
(* most one job and writes at most one report, so a pass also names its    *)
(* claim token and the digests of its report.                              *)
(***************************************************************************)
EXTENDS Integers, FiniteSets

CONSTANTS
    Tasks,
    Passes,         \* passes of run_once
    None,           \* no pass, no report
    MaxAttempts,    \* max_attempts
    LeaseTime,      \* lease_seconds
    WaitLimit,      \* research_wait_seconds, 0 if none is configured
    MaxJobs,        \* bound: jobs ever requested
    MaxInputs,      \* bound: revisions, closes and manual requests
    MaxFaults       \* bound: crashes, failed syntheses and failed writes

ASSUME AttemptsAssumption == MaxAttempts \in Nat \ {0}
ASSUME TimesAssumption == LeaseTime \in Nat \ {0} /\ WaitLimit \in Nat
ASSUME BudgetAssumption == {MaxJobs, MaxInputs, MaxFaults} \subseteq Nat
ASSUME NoneAssumption == None \notin Passes

JobIds == 1..MaxJobs
Active == {"queued", "running", "publishing"}
Ended  == {"completed", "parked", "canceled"}

VARIABLES
    tasks,      \* version of each task and whether it is open
    jobs,       \* task_research_jobs with its claim and its receipt
    pass,       \* how far each pass of the runner is
    cas,        \* reports whole in the content-addressed store
    folder,     \* the two files in each task's folder
    inputs,     \* inputs left
    faults      \* faults left

vars == <<tasks, jobs, pass, cas, folder, inputs, faults>>

JobRows ==
    [task : Tasks, version : Nat, state : Active \cup Ended, attempts : Nat,
     claim : Passes \cup {None}, lease : -1..LeaseTime,     \* its claims row
     pending : Passes \cup {None}, receipt : Passes \cup {None},
     waited : 0..WaitLimit]                                 \* since requested_at
NoJob == [state |-> "absent"]

\* Where a pass is in run_once, publish or repair.
Stages == {"idle", "claimed", "working", "drafted", "checked", "staged",
           "publishing", "half_published", "installed", "verified",
           "failing", "timed_out", "repairing", "restoring",
           "half_restored", "restored", "done", "dead"}
PassRows ==
    [stage : Stages, job : 0..MaxJobs, report : Passes \cup {None},
     finishes : BOOLEAN]    \* repair found the job in 'publishing'
Files == [json : Passes \cup {None}, markdown : Passes \cup {None}]

TypeOK ==
    /\ tasks \in [Tasks -> [version : Nat, open : BOOLEAN]]
    /\ jobs \in [JobIds -> JobRows \cup {NoJob}]
    /\ pass \in [Passes -> PassRows]
    /\ cas \subseteq Passes
    /\ folder \in [Tasks -> Files]
    /\ inputs \in 0..MaxInputs
    /\ faults \in 0..MaxFaults

Init ==
    /\ tasks = [t \in Tasks |-> [version |-> 1, open |-> TRUE]]
    /\ jobs = [j \in JobIds |-> NoJob]
    /\ pass = [p \in Passes |-> [stage |-> "idle", job |-> 0, report |-> None,
                                 finishes |-> FALSE]]
    /\ cas = {}
    /\ folder = [t \in Tasks |-> [json |-> None, markdown |-> None]]
    /\ inputs = MaxInputs
    /\ faults = MaxFaults

-----------------------------------------------------------------------------
(* Queries.  Job identifiers stand for the order of requests, which is the *)
(* order of generations too.                                               *)

Issued == {j \in JobIds : jobs[j] # NoJob}
JobsOf(t) == {j \in Issued : jobs[j].task = t}
Current(j) == jobs[j].version = tasks[jobs[j].task].version
JobsNow(t) == {j \in JobsOf(t) : Current(j)}
Newest(S) == CHOOSE j \in S : \A i \in S : i <= j
Oldest(S) == CHOOSE j \in S : \A i \in S : j <= i
ActiveJobs(t) == {j \in JobsOf(t) : jobs[j].state \in Active}
Publishing(t) == \E j \in JobsOf(t) : jobs[j].state = "publishing"

\* What evaluate_research_gate answers for the plan of the current version.
\* Mutant: the deadline is looked at only while the job runs.
OverdueRunning(t) ==
    /\ WaitLimit > 0
    /\ \E j \in JobsNow(t) : jobs[j].waited = WaitLimit
                             /\ jobs[j].state = "running"

Overdue(t) ==
    WaitLimit > 0 /\ \E j \in JobsNow(t) : jobs[j].waited = WaitLimit

Received(t) ==
    \E j \in JobsNow(t) : jobs[j].state = "completed" /\ jobs[j].receipt # None

PlanWaits(t) ==
    /\ tasks[t].open
    /\ ~Received(t)
    /\ \/ JobsNow(t) = {}           \* requested or deferred by this very pass
       \/ jobs[Newest(JobsNow(t))].state \in Active /\ ~Overdue(t)

-----------------------------------------------------------------------------
(* Requests *)

Without(j, state) ==
    [jobs[j] EXCEPT !.state = state, !.claim = None, !.lease = 0]

NewJob(t) ==
    [task |-> t, version |-> tasks[t].version, state |-> "queued",
     attempts |-> 0, claim |-> None, lease |-> 0, pending |-> None,
     receipt |-> None, waited |-> 0]

\* enqueue_in_transaction past its early return
Enqueue(t) ==
    jobs' = [j \in JobIds |->
               IF j = Oldest(JobIds \ Issued) THEN NewJob(t)
               ELSE IF j \in ActiveJobs(t) THEN Without(j, "canceled")
               ELSE jobs[j]]

\* The claim gate asks for research of a plan that has none.
GateRequests(t) ==
    /\ tasks[t].open
    /\ JobsNow(t) = {}
    /\ ~Publishing(t)               \* RequestOutcome.DEFERRED
    /\ Issued # JobIds
    /\ Enqueue(t)
    /\ UNCHANGED <<tasks, pass, cas, folder, inputs, faults>>

\* A repeated request gets the job there is.
Converges(t) ==
    /\ JobsNow(t) # {}
    /\ jobs[Newest(JobsNow(t))].state \in Active \cup {"completed"}

\* foxhound-task-research request [--refresh]
Request(t, refresh) ==
    /\ inputs > 0
    /\ refresh \/ ~Converges(t)
    /\ ~Publishing(t)
    /\ Issued # JobIds
    /\ Enqueue(t)
    /\ inputs' = inputs - 1
    /\ UNCHANGED <<tasks, pass, cas, folder, faults>>

\* The task ledger revises, closes or reopens a task.
Revise(t) ==
    /\ inputs > 0
    /\ \E open \in BOOLEAN :
         tasks' = [tasks EXCEPT ![t] = [version |-> @.version + 1, open |-> open]]
    /\ inputs' = inputs - 1
    /\ UNCHANGED <<jobs, pass, cas, folder, faults>>

-----------------------------------------------------------------------------
(* Claims *)

Queued == {j \in Issued : jobs[j].state = "queued"}
Superseded == {j \in Queued : ~Current(j) \/ ~tasks[jobs[j].task].open}

ClaimedBy(p, j) ==
    [jobs[j] EXCEPT !.state = "running", !.attempts = @ + 1, !.claim = p,
                    !.lease = LeaseTime]

\* Stale jobs ahead of the first one worth doing are canceled on the way.
Claim(p) ==
    LET live == Queued \ Superseded
        next == Oldest(live)
    IN /\ pass[p].stage = "idle"
       /\ live # {}
       /\ jobs' = [j \in JobIds |->
                     IF j = next THEN ClaimedBy(p, j)
                     ELSE IF j \in Superseded /\ j < next
                     THEN Without(j, "canceled")
                     ELSE jobs[j]]
       /\ pass' = [pass EXCEPT ![p].stage = "claimed", ![p].job = next]
       /\ UNCHANGED <<tasks, cas, folder, inputs, faults>>

\* A pass that finds only stale jobs cancels them and goes idle again.
ClaimNothing ==
    /\ \E p \in Passes : pass[p].stage = "idle"
    /\ Superseded # {}
    /\ Queued = Superseded
    /\ jobs' = [j \in JobIds |-> IF j \in Superseded THEN Without(j, "canceled")
                                 ELSE jobs[j]]
    /\ UNCHANGED <<tasks, pass, cas, folder, inputs, faults>>

GivenUp(j) == IF jobs[j].attempts >= MaxAttempts THEN "parked" ELSE "queued"

RecoverExpired ==
    LET expired == {j \in Issued : jobs[j].state = "running" /\ jobs[j].lease <= 0}
    IN /\ expired # {}
       /\ jobs' = [j \in JobIds |-> IF j \in expired THEN Without(j, GivenUp(j))
                                    ELSE jobs[j]]
       /\ UNCHANGED <<tasks, pass, cas, folder, inputs, faults>>

-----------------------------------------------------------------------------
(* One pass of the runner: context, synthesis, publish *)

To(p, stage) == pass' = [pass EXCEPT ![p].stage = stage]

\* The job is running under this pass's token and the lease has not run out.
Accepts(p) ==
    LET job == jobs[pass[p].job]
    IN job.state = "running" /\ job.claim = p /\ job.lease >= 0

Context(p) ==
    /\ pass[p].stage = "claimed"
    /\ To(p, IF Accepts(p) THEN "working" ELSE "failing")
    /\ UNCHANGED <<tasks, jobs, cas, folder, inputs, faults>>

Synthesize(p) ==
    /\ pass[p].stage = "working"
    /\ To(p, "drafted")
    /\ UNCHANGED <<tasks, jobs, cas, folder, inputs, faults>>

SynthesisFails(p) ==
    /\ pass[p].stage = "working"
    /\ faults > 0
    /\ \E stage \in {"failing", "timed_out"} : To(p, stage)
    /\ faults' = faults - 1
    /\ UNCHANGED <<tasks, jobs, cas, folder, inputs>>

\* publish reads the job outside a transaction, ...
CheckClaim(p) ==
    /\ pass[p].stage = "drafted"
    /\ To(p, IF Accepts(p) THEN "checked" ELSE "failing")
    /\ UNCHANGED <<tasks, jobs, cas, folder, inputs, faults>>

\* Mutant: the report is stored after it was announced.
StageNothing(p) ==
    /\ pass[p].stage = "checked"
    /\ To(p, "staged")
    /\ UNCHANGED <<tasks, jobs, cas, folder, inputs, faults>>

\* ... stores the report under its digest, ...
StageReport(p) ==
    /\ pass[p].stage = "checked"
    /\ cas' = cas \cup {p}
    /\ To(p, "staged")
    /\ UNCHANGED <<tasks, jobs, folder, inputs, faults>>

\* Mutant: the second look at the job does not ask who holds it.
MayPublishAnyway(p) == Current(pass[p].job)

\* ... looks again in the transaction (with the time of its first look, so
\* an expired lease nobody recovered still publishes), ...
MayPublish(p) ==
    LET j == pass[p].job
    IN jobs[j].state = "running" /\ jobs[j].claim = p /\ Current(j)

BeginPublication(p) ==
    LET j == pass[p].job
    IN /\ pass[p].stage = "staged"
       /\ IF MayPublish(p)
          THEN /\ jobs' = [jobs EXCEPT ![j].state = "publishing",
                                       ![j].pending = p]
               /\ pass' = [pass EXCEPT ![p].stage = "publishing",
                                       ![p].report = p]
          ELSE To(p, "failing") /\ UNCHANGED jobs
       /\ UNCHANGED <<tasks, cas, folder, inputs, faults>>

\* ... replaces the two files of the folder, one after the other, ...
InstallJson(p) ==
    /\ pass[p].stage \in {"publishing", "restoring"}
    /\ folder' = [folder EXCEPT ![jobs[pass[p].job].task].json = pass[p].report]
    /\ To(p, IF pass[p].stage = "publishing" THEN "half_published"
             ELSE "half_restored")
    /\ UNCHANGED <<tasks, jobs, cas, inputs, faults>>

InstallMarkdown(p) ==
    /\ pass[p].stage \in {"half_published", "half_restored"}
    /\ folder' = [folder EXCEPT ![jobs[pass[p].job].task].markdown =
                                  pass[p].report]
    /\ To(p, IF pass[p].stage = "half_published" THEN "installed"
             ELSE "restored")
    /\ UNCHANGED <<tasks, jobs, cas, inputs, faults>>

Holds(t, report) == folder[t] = [json |-> report, markdown |-> report]

\* ... reads them back ...
Verify(p) ==
    /\ pass[p].stage = "installed"
    /\ To(p, IF Holds(jobs[pass[p].job].task, p) THEN "verified" ELSE "failing")
    /\ UNCHANGED <<tasks, jobs, cas, folder, inputs, faults>>

Completed(j, report) ==
    [Without(j, "completed") EXCEPT !.receipt = report]

MayComplete(p) ==
    LET j == pass[p].job
    IN jobs[j].state = "publishing" /\ Current(j) /\ jobs[j].pending = p

\* ... and completes the job with its receipt, unless the job or its task
\* moved on.
Complete(p) ==
    LET j == pass[p].job
    IN /\ pass[p].stage = "verified"
       /\ IF MayComplete(p)
          THEN jobs' = [jobs EXCEPT ![j] = Completed(j, p)] /\ To(p, "done")
          ELSE To(p, "failing") /\ UNCHANGED jobs
       /\ UNCHANGED <<tasks, cas, folder, inputs, faults>>

-----------------------------------------------------------------------------
(* fail_or_repair: every way a pass can go wrong ends here *)

\* A timeout gives its attempt back.
FailedJob(p) ==
    LET j == pass[p].job
    IN IF pass[p].stage = "timed_out"
       THEN [Without(j, "queued") EXCEPT
               !.attempts = IF @ > 0 THEN @ - 1 ELSE 0]
       ELSE Without(j, GivenUp(j))

\* Mutant: a refused failure is the end of the pass.
FailOnly(p) ==
    /\ pass[p].stage \in {"failing", "timed_out"}
    /\ IF Accepts(p)
       THEN jobs' = [jobs EXCEPT ![pass[p].job] = FailedJob(p)]
       ELSE UNCHANGED jobs
    /\ To(p, "done")
    /\ UNCHANGED <<tasks, cas, folder, inputs, faults>>

Fail(p) ==
    /\ pass[p].stage \in {"failing", "timed_out"}
    /\ IF Accepts(p)
       THEN /\ jobs' = [jobs EXCEPT ![pass[p].job] = FailedJob(p)]
            /\ To(p, "done")
       ELSE To(p, "repairing") /\ UNCHANGED jobs
    /\ UNCHANGED <<tasks, cas, folder, inputs, faults>>

\* repair reads the job outside a transaction and takes the report from the
\* store, whoever wrote it, ...
BeginRepair(p) ==
    LET job == jobs[pass[p].job]
    IN /\ pass[p].stage = "repairing"
       /\ IF job.state \in {"publishing", "completed"} /\ job.pending \in cas
          THEN pass' = [pass EXCEPT ![p].stage = "restoring",
                                    ![p].report = job.pending,
                                    ![p].finishes = job.state = "publishing"]
          ELSE To(p, "done")
       /\ UNCHANGED <<tasks, jobs, cas, folder, inputs, faults>>

\* ... and after its two files, completes a job that it found half published.
\* If another pass did so since, the receipt exists and the pass just ends.
FinishRepair(p) ==
    LET j == pass[p].job
    IN /\ pass[p].stage = "restored"
       /\ IF pass[p].finishes /\ jobs[j].receipt = None
          THEN jobs' = [jobs EXCEPT ![j] = Completed(j, pass[p].report)]
          ELSE UNCHANGED jobs
       /\ To(p, "done")
       /\ UNCHANGED <<tasks, cas, folder, inputs, faults>>

\* A file cannot be written: publish fails, and repair gives up.
WriteFails(p) ==
    /\ faults > 0
    /\ \/ /\ pass[p].stage \in {"checked", "publishing", "half_published"}
          /\ To(p, "failing")
       \/ /\ pass[p].stage \in {"restoring", "half_restored"}
          /\ To(p, "done")
    /\ faults' = faults - 1
    /\ UNCHANGED <<tasks, jobs, cas, folder, inputs>>

\* The process is killed, or the host goes down.
Crash(p) ==
    /\ faults > 0
    /\ pass[p].stage \notin {"idle", "done", "dead"}
    /\ To(p, "dead")
    /\ faults' = faults - 1
    /\ UNCHANGED <<tasks, jobs, cas, folder, inputs>>

Aged(j) ==
    [jobs[j] EXCEPT
       !.lease = IF jobs[j].claim # None /\ @ >= 0 THEN @ - 1 ELSE @,
       !.waited = IF Current(j) /\ @ < WaitLimit THEN @ + 1 ELSE @]

Tick ==
    /\ jobs' = [j \in JobIds |-> IF j \in Issued THEN Aged(j) ELSE NoJob]
    /\ UNCHANGED <<tasks, pass, cas, folder, inputs, faults>>

Step(p) ==
    \/ Context(p) \/ Synthesize(p) \/ CheckClaim(p) \/ StageReport(p)
    \/ BeginPublication(p) \/ InstallJson(p) \/ InstallMarkdown(p) \/ Verify(p)
    \/ Complete(p) \/ Fail(p) \/ BeginRepair(p) \/ FinishRepair(p)

Next ==
    \/ \E t \in Tasks : \/ GateRequests(t) \/ Revise(t)
                        \/ \E refresh \in BOOLEAN : Request(t, refresh)
    \/ \E p \in Passes : \/ Claim(p) \/ Step(p) \/ SynthesisFails(p)
                         \/ WriteFails(p) \/ Crash(p)
    \/ ClaimNothing
    \/ RecoverExpired
    \/ Tick

Spec == Init /\ [][Next]_vars

\* The claim pass, the research timer and the clock come round for ever, and
\* a pass that is not killed goes on: its model calls have deadlines.
FairSpec ==
    /\ Spec
    /\ \A t \in Tasks : WF_vars(GateRequests(t))
    /\ \A p \in Passes : WF_vars(Claim(p)) /\ WF_vars(Step(p))
    /\ WF_vars(ClaimNothing) /\ WF_vars(RecoverExpired) /\ WF_vars(Tick)

-----------------------------------------------------------------------------
(* Properties *)

\* The claims table has a row exactly for the jobs being worked on, for the
\* pass that is on it: a row left behind would make the INSERT of the next
\* claim fail, and a missing one would leave the job running for ever.
ClaimsMatchJobs ==
    \A j \in Issued : (jobs[j].claim # None) <=>
                        jobs[j].state \in {"running", "publishing"}

\* A task has at most one active job (the unique index of the table): no
\* path reaches the IntegrityError that would stop the claim gate.
OneActiveJob == \A t \in Tasks : Cardinality(ActiveJobs(t)) <= 1

\* A job in the queue has an attempt left: the CHECK on attempts never makes
\* a claim fail.
AttemptsLeft ==
    \A j \in Issued : /\ jobs[j].attempts <= MaxAttempts
                      /\ jobs[j].state = "queued" => jobs[j].attempts < MaxAttempts

\* Whenever a pass dies, a job whose publication has begun can be finished
\* from the content-addressed store, and a completed one restored.
Recoverable ==
    \A j \in Issued : jobs[j].state \in {"publishing", "completed"} =>
                        jobs[j].pending \in cas

\* A report that was announced is the one that gets the receipt: neither a
\* second pass on the same job nor a repair puts another in its place, and a
\* job that ended stays as it ended.
AnnouncedIsFinal ==
    [][\A j \in Issued :
         /\ jobs[j].pending # None => jobs'[j].pending = jobs[j].pending
         /\ jobs[j].state = "publishing" =>
              jobs'[j].state \in {"publishing", "completed"}
         /\ jobs'[j].receipt \in {None, jobs'[j].pending}
         /\ jobs[j].state \in Ended => jobs'[j].state = jobs[j].state]_vars

\* Without crashes and failed writes, every publication that begins is
\* completed, also when the task is revised under it.
PublicationSettles ==
    \A j \in JobIds :
        (j \in Issued /\ jobs[j].state = "publishing")
        ~> jobs[j].state = "completed" \/ faults < MaxFaults

\* Without them, a missing or broken Researcher delays planning by at most the
\* deadline (task_research_gate.py, module docstring).
PlanIsReleased ==
    \A t \in Tasks : PlanWaits(t) ~> ~PlanWaits(t) \/ faults < MaxFaults

\* The files in the folder are those of the newest completed job of the task
\* (ADR 0061: the current machine record): once in place they stay in place,
\* until a newer job is requested.
InPlace(t) ==
    /\ JobsOf(t) # {}
    /\ jobs[Newest(JobsOf(t))].state = "completed"
    /\ Holds(t, jobs[Newest(JobsOf(t))].receipt)
CurrentRecordStays ==
    [][\A t \in Tasks : InPlace(t) =>
                           InPlace(t)' \/ JobsOf(t)' # JobsOf(t)]_vars
=============================================================================
