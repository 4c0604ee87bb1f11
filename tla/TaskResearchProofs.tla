-------------------------- MODULE TaskResearchProofs --------------------------
(***************************************************************************)
(* Theorems about TaskResearch, for every set of tasks, every number of    *)
(* passes and every value of the limits and bounds.                        *)
(*                                                                         *)
(* Every step either asks for a new job or moves jobs on.  Later says what *)
(* moving on may do to one job, Fits what a job looks like at any moment   *)
(* and Knows what a pass may rely on although it holds no lock; the        *)
(* properties follow from these three.                                     *)
(***************************************************************************)
EXTENDS TaskResearch, FiniteSetTheorems, WellFoundedInduction, TLAPS

-----------------------------------------------------------------------------
(* The inductive invariant                                                 *)

\* A job at any moment: claimed exactly while it is worked on, with an
\* attempt left while it waits, with a stored report from the moment it is
\* published, and with a receipt for that report when it is completed.
Fits(job, store) ==
    /\ job.claim # None <=> job.state \in {"running", "publishing"}
    /\ job.attempts <= MaxAttempts
    /\ job.state = "queued" => job.attempts < MaxAttempts
    /\ job.pending # None <=> job.state \in {"publishing", "completed"}
    /\ job.pending # None => job.pending \in store
    /\ job.receipt # None <=> job.state = "completed"
    /\ job.receipt # None => job.receipt = job.pending

\* What a pass knows between its transactions: the job it claimed exists,
\* the report it is about to announce is in the store, and the one it
\* restores is the one that the job announced.
Knows(p, row, rows, store) ==
    /\ row.stage # "idle" => row.job \in JobIds /\ rows[row.job] # NoJob
    /\ row.stage = "staged" => p \in store
    /\ row.stage \in {"restoring", "half_restored", "restored"} =>
         row.report = rows[row.job].pending /\ row.report # None

OneActive(rows) ==
    \A i, j \in JobIds :
       /\ rows[i] # NoJob /\ rows[j] # NoJob
       /\ rows[i].state \in Active /\ rows[j].state \in Active
       /\ rows[i].task = rows[j].task
       => i = j

ResearchInv ==
    /\ TypeOK
    /\ \A j \in Issued : Fits(jobs[j], cas)
    /\ \A p \in Passes : Knows(p, pass[p], jobs, cas)
    /\ OneActive(jobs)

-----------------------------------------------------------------------------
(* What a step may do                                                      *)

Later(job, job2, store) ==
    /\ job2 \in JobRows
    /\ Fits(job2, store)
    /\ job2.task = job.task
    /\ job2.state \in Active => job.state \in Active
    /\ job.pending # None => job2.pending = job.pending
    /\ job.state = "publishing" => job2.state \in {"publishing", "completed"}
    /\ job.state \in Ended => job2.state = job.state

OldJobsMove == \A j \in Issued : Later(jobs[j], jobs'[j], cas')

Moves ==
    /\ jobs' \in [JobIds -> JobRows \cup {NoJob}]
    /\ OldJobsMove
    /\ \A j \in JobIds \ Issued : jobs'[j] = NoJob

\* One pass goes on, or none.
OnePass ==
    \A p \in Passes : \/ pass'[p] = pass[p]
                      \/ Knows(p, pass'[p], jobs', cas')

Frame ==
    /\ tasks' \in [Tasks -> [version : Nat, open : BOOLEAN]]
    /\ pass' \in [Passes -> PassRows]
    /\ cas' \subseteq Passes
    /\ cas \subseteq cas'
    /\ folder' \in [Tasks -> Files]
    /\ inputs' \in 0..MaxInputs
    /\ faults' \in 0..MaxFaults

\* The body of AnnouncedIsFinal.
AnnouncedStep ==
    \A j \in Issued :
       /\ jobs[j].pending # None => jobs'[j].pending = jobs[j].pending
       /\ jobs[j].state = "publishing" =>
            jobs'[j].state \in {"publishing", "completed"}
       /\ jobs'[j].receipt \in {None, jobs'[j].pending}
       /\ jobs[j].state \in Ended => jobs'[j].state = jobs[j].state

-----------------------------------------------------------------------------
(* Facts about rows                                                        *)

\* A row of the jobs table is not the absence of one.
LEMMA RowIsJob == ASSUME NEW job \in JobRows PROVE job # NoJob
PROOF
<1>1. job.state # NoJob.state
  BY DEF JobRows, NoJob, Active, Ended
<1> QED BY <1>1

\* An issued job is a row of the table.
LEMMA IssuedRow ==
    ASSUME TypeOK, NEW j \in Issued
    PROVE  j \in JobIds /\ jobs[j] \in JobRows /\ jobs[j] # NoJob
BY DEF TypeOK, Issued

\* A job that nobody touches moves on by standing still.
LEMMA LaterSame ==
    ASSUME NEW job \in JobRows, NEW store, NEW store2, store \subseteq store2,
           Fits(job, store)
    PROVE  Later(job, job, store2)
BY DEF Later, Fits

\* A set of identifiers that is not empty has a first element.
LEMMA OldestExists ==
    ASSUME NEW S \in SUBSET JobIds, S # {}
    PROVE  Oldest(S) \in S
PROOF
<1> DEFINE R == {ss \in Nat \X Nat : ss[1] < ss[2]}
<1>1. IsWellFoundedOn(R, Nat)
  BY NatLessThanWellFounded DEF OpToRel
<1>2. S \subseteq Nat
  BY BudgetAssumption DEF JobIds
<1> HIDE DEF R
<1>3. PICK x \in S : \A y \in S : ~ (<<y, x>> \in R)
  BY <1>1, <1>2, WFMin
<1>4. ASSUME NEW y \in S PROVE x <= y
  <2>1. x \in Nat /\ y \in Nat
    BY <1>2
  <2>2. <<y, x>> \notin R
    BY <1>3, <1>4
  <2>3. ~ (y < x)
    <3>1. SUFFICES ASSUME y < x PROVE <<y, x>> \in R
      BY <2>2
    <3>2. <<y, x>> \in Nat \X Nat
      BY <2>1
    <3> QED BY <3>1, <3>2 DEF R
  <2> QED BY <2>1, <2>3
<1> QED BY <1>4 DEF Oldest

-----------------------------------------------------------------------------
(* Steps that move jobs on                                                 *)

\* What a pass knows stays true while jobs move on and the store grows.
LEMMA MovesKeepsKnowledge ==
    ASSUME TypeOK, OldJobsMove, cas \subseteq cas', NEW p \in Passes, NEW row,
           Knows(p, row, jobs, cas)
    PROVE  Knows(p, row, jobs', cas')
PROOF
<1>1. row.stage # "idle" => row.job \in JobIds /\ jobs'[row.job] # NoJob
  BY RowIsJob DEF Knows, OldJobsMove, Issued, Later
<1>2. row.stage \in {"restoring", "half_restored", "restored"} =>
        row.report = jobs'[row.job].pending
  BY DEF Knows, OldJobsMove, Issued, Later
<1> QED BY <1>1, <1>2 DEF Knows

\* Whatever only moves jobs on keeps the invariant and the announced reports.
LEMMA MovesKeeps ==
    ASSUME ResearchInv, Moves, Frame, OnePass
    PROVE  ResearchInv' /\ AnnouncedStep
PROOF
<1> USE DEF ResearchInv
<1>1. TypeOK'
  BY DEF TypeOK, Moves, Frame
<1>2. \A j \in Issued' : j \in Issued /\ Later(jobs[j], jobs'[j], cas')
  BY DEF Moves, OldJobsMove, Issued
<1>3. \A j \in Issued' : Fits(jobs'[j], cas')
  BY <1>2 DEF Later
<1>4. \A p \in Passes : Knows(p, pass'[p], jobs', cas')
  BY MovesKeepsKnowledge DEF OnePass, Frame, Moves
<1>5. OneActive(jobs')
  BY <1>2 DEF OneActive, Later, Issued
<1>6. AnnouncedStep
  BY DEF Moves, OldJobsMove, AnnouncedStep, Later, Fits
<1> QED BY <1>1, <1>3, <1>4, <1>5, <1>6

\* A step that writes one issued job moves jobs on if that job moves on.
LEMMA OneMoves ==
    ASSUME ResearchInv, NEW j \in Issued, NEW job,
           jobs' = [jobs EXCEPT ![j] = job], Later(jobs[j], job, cas'),
           cas \subseteq cas'
    PROVE  Moves
PROOF
<1>1. job \in JobRows
  BY DEF Later
<1>2. jobs' \in [JobIds -> JobRows \cup {NoJob}]
  BY <1>1 DEF ResearchInv, TypeOK
<1>3. ASSUME NEW i \in Issued PROVE Later(jobs[i], jobs'[i], cas')
  <2>1. CASE i = j
    BY <2>1, IssuedRow DEF ResearchInv, TypeOK
  <2>2. CASE i # j
    BY <2>2, IssuedRow, LaterSame DEF ResearchInv, TypeOK
  <2> QED BY <2>1, <2>2
<1>4. \A i \in JobIds \ Issued : jobs'[i] = NoJob
  BY DEF ResearchInv, TypeOK, Issued
<1> QED BY <1>2, <1>3, <1>4 DEF Moves, OldJobsMove

\* A step that writes no job moves them on.
LEMMA NoneMoves ==
    ASSUME ResearchInv, UNCHANGED jobs, cas \subseteq cas'
    PROVE  Moves
PROOF
<1>1. \A i \in Issued : Later(jobs[i], jobs'[i], cas')
  BY IssuedRow, LaterSame DEF ResearchInv
<1> QED BY <1>1 DEF Moves, OldJobsMove, ResearchInv, TypeOK, Issued

\* A step that rewrites a set of issued jobs moves jobs on if each of them
\* moves on.
LEMMA SomeMove ==
    ASSUME ResearchInv, NEW S \in SUBSET Issued, NEW f, UNCHANGED cas,
           jobs' = f, f = [j \in JobIds |-> f[j]],
           \A j \in JobIds \ S : f[j] = jobs[j],
           \A j \in S : Later(jobs[j], f[j], cas)
    PROVE  Moves
PROOF
<1>1. ASSUME NEW j \in JobIds PROVE f[j] \in JobRows \cup {NoJob}
  BY DEF Later, ResearchInv, TypeOK
<1>2. jobs' \in [JobIds -> JobRows \cup {NoJob}]
  BY <1>1
<1>3. ASSUME NEW j \in Issued \ S PROVE Later(jobs[j], jobs'[j], cas')
  BY <1>3, IssuedRow, LaterSame DEF ResearchInv
<1>4. \A j \in Issued : Later(jobs[j], jobs'[j], cas')
  BY <1>3
<1>5. \A j \in JobIds \ Issued : jobs'[j] = NoJob
  BY DEF Issued
<1> QED BY <1>2, <1>4, <1>5 DEF Moves, OldJobsMove

-----------------------------------------------------------------------------
(* What the writes of the store do to a job                                *)

\* The leases that claims are given and left with.
LEMMA LeaseRange == {0, LeaseTime} \subseteq -1..LeaseTime
BY TimesAssumption

\* A job that waits or runs may be put back, parked or canceled.
LEMMA WithoutLater ==
    ASSUME ResearchInv, NEW j \in Issued, NEW state,
           jobs[j].state \in {"queued", "running"},
           state \in {"queued", "parked", "canceled"},
           state = "queued" => jobs[j].attempts < MaxAttempts
    PROVE  Later(jobs[j], Without(j, state), cas)
PROOF
<1>1. jobs[j] \in JobRows /\ Fits(jobs[j], cas)
  BY IssuedRow DEF ResearchInv
<1>2. Without(j, state) \in JobRows
  BY <1>1, LeaseRange DEF Without, JobRows, Active, Ended
<1>3. /\ Without(j, state).state = state
      /\ Without(j, state).claim = None
      /\ Without(j, state).attempts = jobs[j].attempts
      /\ Without(j, state).pending = jobs[j].pending
      /\ Without(j, state).receipt = jobs[j].receipt
      /\ Without(j, state).task = jobs[j].task
  BY <1>1 DEF Without, JobRows
<1>4. Fits(Without(j, state), cas)
  BY <1>1, <1>3 DEF Fits
<1> QED BY <1>1, <1>2, <1>3, <1>4 DEF Later, Active, Ended

\* A job that waits may be claimed: it has an attempt left.
LEMMA ClaimedLater ==
    ASSUME ResearchInv, NEW j \in Issued, NEW p \in Passes,
           jobs[j].state = "queued"
    PROVE  Later(jobs[j], ClaimedBy(p, j), cas)
PROOF
<1>1. jobs[j] \in JobRows /\ Fits(jobs[j], cas)
  BY IssuedRow DEF ResearchInv
<1>2. ClaimedBy(p, j) \in JobRows
  <2>1. jobs[j].attempts + 1 \in Nat
    BY <1>1 DEF JobRows
  <2>2. LeaseTime \in -1..LeaseTime
    BY LeaseRange
  <2> QED BY <1>1, <2>1, <2>2 DEF ClaimedBy, JobRows, Active, Ended
<1>3. /\ ClaimedBy(p, j).state = "running"
      /\ ClaimedBy(p, j).claim = p
      /\ ClaimedBy(p, j).attempts = jobs[j].attempts + 1
      /\ ClaimedBy(p, j).pending = jobs[j].pending
      /\ ClaimedBy(p, j).receipt = jobs[j].receipt
      /\ ClaimedBy(p, j).task = jobs[j].task
  BY <1>1 DEF ClaimedBy, JobRows
<1>4. jobs[j].attempts \in Nat /\ MaxAttempts \in Nat
  BY <1>1, AttemptsAssumption DEF JobRows
<1>5. Fits(ClaimedBy(p, j), cas)
  BY <1>1, <1>3, <1>4, NoneAssumption DEF Fits
<1> QED BY <1>1, <1>2, <1>3, <1>5 DEF Later, Active, Ended

\* A running job that fails has an attempt left or is parked, and the
\* attempt that a timeout gives back leaves it one.
LEMMA FailedLater ==
    ASSUME ResearchInv, NEW p \in Passes, pass[p].job \in Issued,
           jobs[pass[p].job].state = "running"
    PROVE  Later(jobs[pass[p].job], FailedJob(p), cas)
PROOF
<1> DEFINE j == pass[p].job
<1>1. jobs[j] \in JobRows /\ Fits(jobs[j], cas)
  BY IssuedRow DEF ResearchInv
<1>2. jobs[j].attempts \in Nat /\ MaxAttempts \in Nat \ {0}
  BY <1>1, AttemptsAssumption DEF JobRows
<1>3. ASSUME pass[p].stage # "timed_out"
      PROVE  Later(jobs[j], FailedJob(p), cas)
  <2>1. FailedJob(p) = Without(j, GivenUp(j))
    BY <1>3 DEF FailedJob
  <2>2. GivenUp(j) \in {"queued", "parked"}
    BY DEF GivenUp
  <2>3. GivenUp(j) = "queued" => jobs[j].attempts < MaxAttempts
    BY <1>2 DEF GivenUp
  <2> QED BY <2>1, <2>2, <2>3, WithoutLater
<1>4. ASSUME pass[p].stage = "timed_out"
      PROVE  Later(jobs[j], FailedJob(p), cas)
  <2> DEFINE n == IF jobs[j].attempts > 0 THEN jobs[j].attempts - 1 ELSE 0
  <2>1. FailedJob(p) = [Without(j, "queued") EXCEPT !.attempts = n]
    BY <1>1, <1>4 DEF FailedJob, Without, JobRows
  <2>2. n \in Nat /\ n < MaxAttempts
    BY <1>1, <1>2 DEF Fits
  <2> HIDE DEF n
  <2>3. FailedJob(p) \in JobRows
    BY <1>1, <2>1, <2>2, LeaseRange
    DEF Without, JobRows, Active, Ended
  <2>4. /\ FailedJob(p).state = "queued"
        /\ FailedJob(p).claim = None
        /\ FailedJob(p).attempts = n
        /\ FailedJob(p).pending = jobs[j].pending
        /\ FailedJob(p).receipt = jobs[j].receipt
        /\ FailedJob(p).task = jobs[j].task
    BY <1>1, <2>1 DEF Without, JobRows
  <2>5. Fits(FailedJob(p), cas)
    BY <1>1, <1>2, <2>2, <2>4 DEF Fits
  <2> QED BY <1>1, <2>3, <2>4, <2>5 DEF Later, Active, Ended
<1> QED BY <1>3, <1>4

\* A publication ends with a receipt for the announced report.
LEMMA CompletedLater ==
    ASSUME ResearchInv, NEW j \in Issued, jobs[j].state = "publishing"
    PROVE  Later(jobs[j], Completed(j, jobs[j].pending), cas)
PROOF
<1>1. jobs[j] \in JobRows /\ Fits(jobs[j], cas)
  BY IssuedRow DEF ResearchInv
<1> DEFINE job == Completed(j, jobs[j].pending)
<1>2. job \in JobRows
  BY <1>1, LeaseRange DEF Completed, Without, JobRows, Active, Ended
<1>3. /\ job.state = "completed"
      /\ job.claim = None
      /\ job.attempts = jobs[j].attempts
      /\ job.pending = jobs[j].pending
      /\ job.receipt = jobs[j].pending
      /\ job.task = jobs[j].task
  BY <1>1 DEF Completed, Without, JobRows
<1> HIDE DEF job
<1>4. Fits(job, cas)
  BY <1>1, <1>3 DEF Fits
<1> QED BY <1>1, <1>2, <1>3, <1>4 DEF job, Later, Active, Ended

\* A running job becomes a publication of a report in the store.
LEMMA PublishingLater ==
    ASSUME ResearchInv, NEW j \in Issued, NEW p \in Passes, p \in cas,
           jobs[j].state = "running"
    PROVE  Later(jobs[j], [jobs[j] EXCEPT !.state = "publishing",
                                          !.pending = p], cas)
PROOF
<1>1. jobs[j] \in JobRows /\ Fits(jobs[j], cas)
  BY IssuedRow DEF ResearchInv
<1> DEFINE job == [jobs[j] EXCEPT !.state = "publishing", !.pending = p]
<1>2. job \in JobRows
  BY <1>1 DEF JobRows, Active, Ended
<1>3. /\ job.state = "publishing"
      /\ job.claim = jobs[j].claim
      /\ job.attempts = jobs[j].attempts
      /\ job.pending = p
      /\ job.receipt = jobs[j].receipt
      /\ job.task = jobs[j].task
  BY <1>1 DEF JobRows
<1> HIDE DEF job
<1>4. Fits(job, cas)
  BY <1>1, <1>3, NoneAssumption DEF Fits
<1> QED BY <1>1, <1>2, <1>3, <1>4 DEF job, Fits, Later, Active, Ended

\* Time changes nothing but the lease and the wait.
LEMMA AgedLater ==
    ASSUME ResearchInv, NEW j \in Issued
    PROVE  Later(jobs[j], Aged(j), cas)
PROOF
<1>1. jobs[j] \in JobRows /\ Fits(jobs[j], cas)
  BY IssuedRow DEF ResearchInv
<1> DEFINE lease == IF jobs[j].claim # None /\ jobs[j].lease >= 0
                    THEN jobs[j].lease - 1 ELSE jobs[j].lease
           waited == IF Current(j) /\ jobs[j].waited < WaitLimit
                     THEN jobs[j].waited + 1 ELSE jobs[j].waited
<1>2. lease \in -1..LeaseTime /\ waited \in 0..WaitLimit
  BY <1>1, TimesAssumption DEF JobRows
<1>3. Aged(j) = [jobs[j] EXCEPT !.lease = lease, !.waited = waited]
  BY DEF Aged
<1> HIDE DEF lease, waited
<1>4. Aged(j) \in JobRows
  BY <1>1, <1>2, <1>3 DEF JobRows
<1>5. /\ Aged(j).state = jobs[j].state
      /\ Aged(j).claim = jobs[j].claim
      /\ Aged(j).attempts = jobs[j].attempts
      /\ Aged(j).pending = jobs[j].pending
      /\ Aged(j).receipt = jobs[j].receipt
      /\ Aged(j).task = jobs[j].task
  BY <1>1, <1>3 DEF JobRows
<1>6. Fits(Aged(j), cas)
  BY <1>1, <1>5 DEF Fits
<1> QED BY <1>1, <1>4, <1>5, <1>6 DEF Later

-----------------------------------------------------------------------------
(* Requests                                                                *)

\* A new job takes the place of the active one of its task, unless that one
\* is being published.
LEMMA EnqueueKeeps ==
    ASSUME ResearchInv, Frame, NEW t \in Tasks, ~Publishing(t),
           Issued # JobIds, Enqueue(t), UNCHANGED <<pass, cas>>
    PROVE  ResearchInv' /\ AnnouncedStep
PROOF
<1> DEFINE n == Oldest(JobIds \ Issued)
<1>1. n \in JobIds \ Issued
  BY OldestExists DEF Issued
<1> HIDE DEF n
<1>2. jobs' = [j \in JobIds |-> IF j = n THEN NewJob(t)
                                ELSE IF j \in ActiveJobs(t)
                                THEN Without(j, "canceled") ELSE jobs[j]]
  BY DEF Enqueue, n
<1>3. NewJob(t) \in JobRows
  <2>1. tasks[t].version \in Nat /\ 0 \in 0..WaitLimit
    BY TimesAssumption DEF ResearchInv, TypeOK
  <2> QED BY <2>1, LeaseRange DEF NewJob, JobRows, Active, Ended
<1>4. Fits(NewJob(t), cas)
  BY AttemptsAssumption DEF Fits, NewJob
<1>5. ASSUME NEW j \in Issued PROVE Later(jobs[j], jobs'[j], cas')
  <2>1. j \in JobIds /\ j # n
    BY <1>1, IssuedRow DEF ResearchInv
  <2>2. ASSUME j \in ActiveJobs(t) PROVE Later(jobs[j], jobs'[j], cas')
    <3>1. jobs[j].state \in {"queued", "running"}
      BY <2>2 DEF ActiveJobs, Active, Publishing
    <3> QED BY <1>2, <2>1, <2>2, <3>1, WithoutLater
  <2>3. ASSUME j \notin ActiveJobs(t) PROVE Later(jobs[j], jobs'[j], cas')
    BY <1>2, <2>1, <2>3, IssuedRow, LaterSame DEF ResearchInv
  <2> QED BY <2>2, <2>3
<1>6. jobs'[n] = NewJob(t)
  BY <1>1, <1>2
<1>7. \A j \in JobIds : jobs'[j] # NoJob => j \in Issued \/ j = n
  BY <1>2 DEF Issued, ActiveJobs, JobsOf
<1>8. TypeOK'
  <2>1. jobs' \in [JobIds -> JobRows \cup {NoJob}]
    <3>1. ASSUME NEW j \in JobIds PROVE jobs'[j] \in JobRows \cup {NoJob}
      BY <1>3, <1>5, <1>6, <1>7 DEF Later
    <3> QED BY <1>2, <3>1
  <2> QED BY <2>1 DEF Frame, TypeOK
<1>9. \A j \in Issued' : Fits(jobs'[j], cas')
  BY <1>4, <1>5, <1>6, <1>7 DEF Later, Issued
<1>10. \A p \in Passes : Knows(p, pass'[p], jobs', cas')
  BY <1>5, MovesKeepsKnowledge DEF OldJobsMove, ResearchInv
<1>11. ASSUME NEW i \in JobIds \ {n}, jobs'[i] # NoJob,
              jobs'[i].state \in Active
       PROVE  jobs'[i].task # t
  <2>1. i \in Issued /\ Later(jobs[i], jobs'[i], cas')
    BY <1>5, <1>7, <1>11
  <2>2. i \notin ActiveJobs(t)
    <3>1. SUFFICES ASSUME i \in ActiveJobs(t) PROVE FALSE
      OBVIOUS
    <3>2. jobs'[i] = Without(i, "canceled") /\ jobs[i] \in JobRows
      BY <1>2, <2>1, <3>1, IssuedRow DEF ResearchInv
    <3>3. jobs'[i].state = "canceled"
      BY <3>2 DEF Without, JobRows
    <3> QED BY <1>11, <3>3 DEF Active
  <2> QED BY <1>11, <2>1, <2>2 DEF ActiveJobs, JobsOf, Later
<1>12. OneActive(jobs')
  <2>1. jobs'[n].task = t
    BY <1>6 DEF NewJob
  <2>2. ASSUME NEW i \in JobIds \ {n}, NEW j \in JobIds \ {n},
               jobs'[i] # NoJob, jobs'[j] # NoJob,
               jobs'[i].state \in Active, jobs'[j].state \in Active,
               jobs'[i].task = jobs'[j].task
        PROVE  i = j
    <3>1. i \in Issued /\ j \in Issued
      BY <1>7, <2>2
    <3> QED BY <1>5, <2>2, <3>1 DEF OneActive, ResearchInv, Later, Issued
  <2> QED BY <1>11, <2>1, <2>2 DEF OneActive
<1>13. AnnouncedStep
  BY <1>5 DEF AnnouncedStep, Later, Fits
<1> QED BY <1>8, <1>9, <1>10, <1>12, <1>13 DEF ResearchInv

-----------------------------------------------------------------------------
(* The passes of the runner                                                *)

Restoring == {"restoring", "half_restored", "restored"}

\* A pass writes its own row; the others know what they knew.
LEMMA PassWrites ==
    ASSUME TypeOK, NEW p \in Passes, NEW row \in PassRows,
           pass' = [pass EXCEPT ![p] = row], Knows(p, row, jobs', cas')
    PROVE  OnePass /\ pass' \in [Passes -> PassRows]
BY DEF TypeOK, OnePass

\* A pass that only goes on to its next stage keeps its job and its report.
LEMMA PassGoesOn ==
    ASSUME ResearchInv, OldJobsMove, cas \subseteq cas', NEW p \in Passes,
           NEW stage \in Stages, To(p, stage), pass[p].stage # "idle",
           stage = "staged" => p \in cas',
           stage \in Restoring => pass[p].stage \in Restoring
    PROVE  OnePass /\ pass' \in [Passes -> PassRows]
PROOF
<1> DEFINE row == [pass[p] EXCEPT !.stage = stage]
<1>1. pass[p] \in PassRows /\ Knows(p, pass[p], jobs, cas)
  BY DEF ResearchInv, TypeOK
<1>2. /\ row \in PassRows
      /\ row.stage = stage /\ row.job = pass[p].job
      /\ row.report = pass[p].report
  BY <1>1 DEF PassRows
<1>3. Knows(p, pass[p], jobs', cas')
  BY <1>1, MovesKeepsKnowledge DEF ResearchInv
<1>4. pass' = [pass EXCEPT ![p] = row]
  BY DEF To
<1> HIDE DEF row
<1>5. Knows(p, row, jobs', cas')
  BY <1>2, <1>3 DEF Knows, Restoring
<1> QED BY <1>2, <1>4, <1>5, PassWrites DEF ResearchInv

\* A pass that is not idle has a job.
LEMMA PassHasJob ==
    ASSUME ResearchInv, NEW p \in Passes, pass[p].stage # "idle"
    PROVE  /\ pass[p].job \in Issued
           /\ jobs[pass[p].job] \in JobRows
           /\ Fits(jobs[pass[p].job], cas)
           /\ Knows(p, pass[p], jobs, cas)
           /\ pass[p] \in PassRows
BY IssuedRow DEF ResearchInv, TypeOK, Knows, Issued

\* Steps that write neither a job nor a file nor the store.
LEMMA OnlyGoesOn ==
    ASSUME ResearchInv, NEW p \in Passes, NEW stage \in Stages,
           stage \notin Restoring \cup {"staged"},
           To(p, stage), pass[p].stage # "idle",
           UNCHANGED <<tasks, jobs, cas, folder, inputs>>,
           faults' \in 0..MaxFaults
    PROVE  ResearchInv' /\ AnnouncedStep
PROOF
<1>1. Moves
  BY NoneMoves
<1>2. OnePass /\ pass' \in [Passes -> PassRows]
  BY <1>1, PassGoesOn DEF Moves
<1>3. Frame
  BY <1>2 DEF Frame, ResearchInv, TypeOK
<1> QED BY <1>1, <1>2, <1>3, MovesKeeps

LEMMA StageReportKeeps ==
    ASSUME ResearchInv, NEW p \in Passes, StageReport(p)
    PROVE  ResearchInv' /\ AnnouncedStep
PROOF
<1> USE DEF StageReport
<1>1. Moves
  BY NoneMoves
<1>2. OnePass /\ pass' \in [Passes -> PassRows]
  BY <1>1, PassGoesOn DEF Moves, Stages, Restoring
<1>3. Frame
  BY <1>2 DEF Frame, ResearchInv, TypeOK
<1> QED BY <1>1, <1>2, <1>3, MovesKeeps

LEMMA BeginPublicationKeeps ==
    ASSUME ResearchInv, NEW p \in Passes, BeginPublication(p)
    PROVE  ResearchInv' /\ AnnouncedStep
PROOF
<1> DEFINE j == pass[p].job
           job == [jobs[j] EXCEPT !.state = "publishing", !.pending = p]
           row == [pass[p] EXCEPT !.stage = "publishing", !.report = p]
<1>1. /\ pass[p].stage = "staged"
      /\ UNCHANGED <<tasks, cas, folder, inputs, faults>>
  BY DEF BeginPublication
<1>2. j \in Issued /\ p \in cas /\ jobs[j] \in JobRows /\ pass[p] \in PassRows
  BY <1>1, PassHasJob DEF Knows
<1>3. ASSUME MayPublish(p) PROVE ResearchInv' /\ AnnouncedStep
  <2>1. jobs' = [jobs EXCEPT ![j] = job] /\ pass' = [pass EXCEPT ![p] = row]
    BY <1>2, <1>3 DEF BeginPublication
  <2>2. Later(jobs[j], job, cas')
    BY <1>1, <1>2, <1>3, PublishingLater DEF MayPublish
  <2> HIDE DEF job
  <2>3. Moves
    BY <1>1, <1>2, <2>1, <2>2, OneMoves
  <2>4. row \in PassRows /\ row.stage = "publishing" /\ row.job = j
    BY <1>2 DEF PassRows, Stages
  <2> HIDE DEF row
  <2>5. j \in JobIds /\ jobs'[j] # NoJob
    BY <1>2, <2>3, IssuedRow, RowIsJob
    DEF Moves, OldJobsMove, Later, ResearchInv
  <2>6. Knows(p, row, jobs', cas')
    BY <2>4, <2>5 DEF Knows
  <2>7. OnePass /\ pass' \in [Passes -> PassRows]
    BY <2>1, <2>4, <2>6, PassWrites DEF ResearchInv
  <2>8. Frame
    BY <1>1, <2>7 DEF Frame, ResearchInv, TypeOK
  <2> QED BY <2>3, <2>7, <2>8, MovesKeeps
<1>4. ASSUME ~MayPublish(p) PROVE ResearchInv' /\ AnnouncedStep
  <2>1. To(p, "failing") /\ UNCHANGED jobs
    BY <1>4 DEF BeginPublication
  <2>2. faults' \in 0..MaxFaults
    BY <1>1 DEF ResearchInv, TypeOK
  <2> QED BY <1>1, <2>1, <2>2, OnlyGoesOn DEF Stages, Restoring
<1> QED BY <1>3, <1>4

\* The two files: whoever writes them changes nothing but the folder.
LEMMA InstallKeeps ==
    ASSUME ResearchInv, NEW p \in Passes,
           InstallJson(p) \/ InstallMarkdown(p)
    PROVE  ResearchInv' /\ AnnouncedStep
PROOF
<1>1. /\ pass[p].stage \in {"publishing", "restoring", "half_published",
                            "half_restored"}
      /\ UNCHANGED <<tasks, jobs, cas, inputs, faults>>
  BY DEF InstallJson, InstallMarkdown
<1>2. Moves
  BY <1>1, NoneMoves
<1>3. OnePass /\ pass' \in [Passes -> PassRows]
  <2>1. CASE InstallJson(p)
    BY <1>1, <1>2, <2>1, PassGoesOn
    DEF InstallJson, Moves, Stages, Restoring
  <2>2. CASE InstallMarkdown(p)
    BY <1>1, <1>2, <2>2, PassGoesOn
    DEF InstallMarkdown, Moves, Stages, Restoring
  <2> QED BY <2>1, <2>2
<1>4. folder' \in [Tasks -> Files]
  <2>1. pass[p].report \in Passes \cup {None}
    BY <1>1, PassHasJob DEF PassRows
  <2>2. folder \in [Tasks -> Files]
    BY DEF ResearchInv, TypeOK
  <2>3. CASE InstallJson(p)
    BY <2>1, <2>2, <2>3 DEF InstallJson, Files
  <2>4. CASE InstallMarkdown(p)
    BY <2>1, <2>2, <2>4 DEF InstallMarkdown, Files
  <2> QED BY <2>3, <2>4
<1>5. Frame
  BY <1>1, <1>3, <1>4 DEF Frame, ResearchInv, TypeOK
<1> QED BY <1>2, <1>3, <1>5, MovesKeeps

\* Steps that write the job of a pass and end the pass.
LEMMA WritesJobAndEnds ==
    ASSUME ResearchInv, NEW p \in Passes, NEW job,
           pass[p].stage # "idle", To(p, "done"),
           jobs' = [jobs EXCEPT ![pass[p].job] = job],
           Later(jobs[pass[p].job], job, cas),
           UNCHANGED <<tasks, cas, folder, inputs, faults>>
    PROVE  ResearchInv' /\ AnnouncedStep
PROOF
<1>1. pass[p].job \in Issued
  BY PassHasJob
<1>2. Moves
  BY <1>1, OneMoves
<1>3. OnePass /\ pass' \in [Passes -> PassRows]
  BY <1>2, PassGoesOn DEF Moves, Stages, Restoring
<1>4. Frame
  BY <1>3 DEF Frame, ResearchInv, TypeOK
<1> QED BY <1>2, <1>3, <1>4, MovesKeeps

LEMMA CompleteKeeps ==
    ASSUME ResearchInv, NEW p \in Passes, Complete(p)
    PROVE  ResearchInv' /\ AnnouncedStep
PROOF
<1> DEFINE j == pass[p].job
<1>1. /\ pass[p].stage = "verified"
      /\ UNCHANGED <<tasks, cas, folder, inputs, faults>>
      /\ faults' \in 0..MaxFaults
  BY DEF Complete, ResearchInv, TypeOK
<1>2. ASSUME MayComplete(p) PROVE ResearchInv' /\ AnnouncedStep
  <2>1. jobs' = [jobs EXCEPT ![j] = Completed(j, p)] /\ To(p, "done")
    BY <1>2 DEF Complete
  <2>2. j \in Issued
    BY <1>1, PassHasJob
  <2>3. Later(jobs[j], Completed(j, p), cas)
    BY <1>2, <2>2, CompletedLater DEF MayComplete
  <2> QED BY <1>1, <2>1, <2>3, WritesJobAndEnds
<1>3. ASSUME ~MayComplete(p) PROVE ResearchInv' /\ AnnouncedStep
  <2>1. To(p, "failing") /\ UNCHANGED jobs
    BY <1>3 DEF Complete
  <2> QED BY <1>1, <2>1, OnlyGoesOn DEF Stages, Restoring
<1> QED BY <1>2, <1>3

LEMMA FailKeeps ==
    ASSUME ResearchInv, NEW p \in Passes, Fail(p)
    PROVE  ResearchInv' /\ AnnouncedStep
PROOF
<1> DEFINE j == pass[p].job
<1>1. /\ pass[p].stage \in {"failing", "timed_out"}
      /\ UNCHANGED <<tasks, cas, folder, inputs, faults>>
      /\ faults' \in 0..MaxFaults
  BY DEF Fail, ResearchInv, TypeOK
<1>2. ASSUME Accepts(p) PROVE ResearchInv' /\ AnnouncedStep
  <2>1. jobs' = [jobs EXCEPT ![j] = FailedJob(p)] /\ To(p, "done")
    BY <1>2 DEF Fail
  <2>2. j \in Issued
    BY <1>1, PassHasJob
  <2>3. Later(jobs[j], FailedJob(p), cas)
    BY <1>2, <2>2, FailedLater DEF Accepts
  <2> QED BY <1>1, <2>1, <2>3, WritesJobAndEnds
<1>3. ASSUME ~Accepts(p) PROVE ResearchInv' /\ AnnouncedStep
  <2>1. To(p, "repairing") /\ UNCHANGED jobs
    BY <1>3 DEF Fail
  <2> QED BY <1>1, <2>1, OnlyGoesOn DEF Stages, Restoring
<1> QED BY <1>2, <1>3

\* A repair starts from the report that its job announced.
LEMMA BeginRepairKeeps ==
    ASSUME ResearchInv, NEW p \in Passes, BeginRepair(p)
    PROVE  ResearchInv' /\ AnnouncedStep
PROOF
<1> DEFINE j == pass[p].job
           found == jobs[j].state \in {"publishing", "completed"}
                    /\ jobs[j].pending \in cas
           row == [pass[p] EXCEPT !.stage = "restoring",
                                  !.report = jobs[j].pending,
                                  !.finishes = jobs[j].state = "publishing"]
<1>1. /\ pass[p].stage = "repairing"
      /\ UNCHANGED <<tasks, jobs, cas, folder, inputs, faults>>
      /\ faults' \in 0..MaxFaults
  BY DEF BeginRepair, ResearchInv, TypeOK
<1>2. /\ j \in Issued /\ jobs[j] \in JobRows /\ Fits(jobs[j], cas)
      /\ Knows(p, pass[p], jobs, cas) /\ pass[p] \in PassRows
  BY <1>1, PassHasJob
<1>3. ASSUME found PROVE ResearchInv' /\ AnnouncedStep
  <2>1. pass' = [pass EXCEPT ![p] = row]
    BY <1>2, <1>3 DEF BeginRepair
  <2>2. (jobs[j].state = "publishing") \in BOOLEAN
    OBVIOUS
  <2>3. jobs[j].pending \in Passes \cup {None} /\ jobs[j].pending # None
    BY <1>2, <1>3 DEF JobRows, Fits
  <2>4. /\ row \in PassRows
        /\ row.stage = "restoring" /\ row.job = j
        /\ row.report = jobs[j].pending
    BY <1>2, <2>2, <2>3 DEF PassRows, Stages
  <2> HIDE DEF row
  <2>5. Knows(p, row, jobs', cas')
    BY <1>1, <1>2, <2>3, <2>4 DEF Knows
  <2>6. OnePass /\ pass' \in [Passes -> PassRows]
    BY <2>1, <2>4, <2>5, PassWrites DEF ResearchInv
  <2>7. Moves
    BY <1>1, NoneMoves
  <2>8. Frame
    BY <1>1, <2>6 DEF Frame, ResearchInv, TypeOK
  <2> QED BY <2>6, <2>7, <2>8, MovesKeeps
<1>4. ASSUME ~found PROVE ResearchInv' /\ AnnouncedStep
  <2>1. To(p, "done")
    BY <1>4 DEF BeginRepair
  <2> QED BY <1>1, <2>1, OnlyGoesOn DEF Stages, Restoring
<1> QED BY <1>3, <1>4

\* A repair that finds no receipt after its two files still has the
\* publication it began with: a job that announced a report is being
\* published until it has its receipt.
LEMMA FinishRepairKeeps ==
    ASSUME ResearchInv, NEW p \in Passes, FinishRepair(p)
    PROVE  ResearchInv' /\ AnnouncedStep
PROOF
<1> DEFINE j == pass[p].job
           open == pass[p].finishes /\ jobs[j].receipt = None
<1>1. /\ pass[p].stage = "restored" /\ To(p, "done")
      /\ UNCHANGED <<tasks, cas, folder, inputs, faults>>
      /\ faults' \in 0..MaxFaults
  BY DEF FinishRepair, ResearchInv, TypeOK
<1>2. /\ j \in Issued /\ Fits(jobs[j], cas)
      /\ pass[p].report = jobs[j].pending /\ pass[p].report # None
  BY <1>1, PassHasJob DEF Knows
<1>3. ASSUME open PROVE ResearchInv' /\ AnnouncedStep
  <2>1. jobs' = [jobs EXCEPT ![j] = Completed(j, pass[p].report)]
    BY <1>3 DEF FinishRepair
  <2>2. jobs[j].state = "publishing"
    BY <1>2, <1>3 DEF Fits
  <2>3. Later(jobs[j], Completed(j, pass[p].report), cas)
    BY <1>2, <2>2, CompletedLater
  <2> QED BY <1>1, <2>1, <2>3, WritesJobAndEnds
<1>4. ASSUME ~open PROVE ResearchInv' /\ AnnouncedStep
  <2>1. UNCHANGED jobs
    BY <1>4 DEF FinishRepair
  <2> QED BY <1>1, <2>1, OnlyGoesOn DEF Stages, Restoring
<1> QED BY <1>3, <1>4

-----------------------------------------------------------------------------
(* Claims, leases and time                                                 *)

\* Steps that write jobs and leave every pass alone.
LEMMA OnlyJobsMove ==
    ASSUME ResearchInv, Moves,
           UNCHANGED <<tasks, pass, cas, folder, inputs, faults>>
    PROVE  ResearchInv' /\ AnnouncedStep
PROOF
<1>1. OnePass
  BY DEF OnePass
<1>2. Frame
  BY DEF Frame, ResearchInv, TypeOK
<1> QED BY <1>1, <1>2, MovesKeeps

LEMMA ClaimKeeps ==
    ASSUME ResearchInv, NEW p \in Passes, Claim(p)
    PROVE  ResearchInv' /\ AnnouncedStep
PROOF
<1> DEFINE live == Queued \ Superseded
           next == Oldest(live)
           passed == {j \in Superseded : j < next}
           row == [pass[p] EXCEPT !.stage = "claimed", !.job = next]
           f == [j \in JobIds |-> IF j = next THEN ClaimedBy(p, j)
                                  ELSE IF j \in passed
                                  THEN Without(j, "canceled") ELSE jobs[j]]
<1>1. /\ live # {}
      /\ jobs' = f
      /\ pass' = [pass EXCEPT ![p] = row]
      /\ UNCHANGED <<tasks, cas, folder, inputs, faults>>
  BY DEF Claim, ResearchInv, TypeOK
<1>2. next \in Issued /\ next \in JobIds /\ jobs[next].state = "queued"
  BY <1>1, OldestExists DEF Queued, Issued
<1>3. \A j \in passed : j \in Issued /\ jobs[j].state = "queued"
  BY DEF Superseded, Queued
<1> HIDE DEF next, passed
<1>4. Moves
  <2>1. ASSUME NEW j \in passed \cup {next}
        PROVE  Later(jobs[j], f[j], cas)
    <3>1. ASSUME j = next PROVE Later(jobs[j], f[j], cas)
      BY <1>2, <3>1, ClaimedLater
    <3>2. ASSUME j # next PROVE Later(jobs[j], f[j], cas)
      <4>1. f[j] = Without(j, "canceled")
        BY <1>3, <2>1, <3>2 DEF Issued
      <4> QED BY <1>3, <2>1, <3>2, <4>1, WithoutLater
    <3> QED BY <3>1, <3>2
  <2>2. passed \cup {next} \in SUBSET Issued
    BY <1>2, <1>3
  <2>3. \A j \in JobIds \ (passed \cup {next}) : f[j] = jobs[j]
    OBVIOUS
  <2>4. f = [j \in JobIds |-> f[j]]
    OBVIOUS
  <2> HIDE DEF f
  <2> QED BY <1>1, <2>1, <2>2, <2>3, <2>4, SomeMove
<1>5. row \in PassRows /\ row.stage = "claimed" /\ row.job = next
  <2>1. next \in 0..MaxJobs /\ pass[p] \in PassRows
    BY <1>2, BudgetAssumption DEF JobIds, ResearchInv, TypeOK
  <2> QED BY <2>1 DEF PassRows, Stages
<1> HIDE DEF row
<1>6. Knows(p, row, jobs', cas')
  <2>1. jobs'[next] # NoJob
    BY <1>2, <1>4, RowIsJob DEF Moves, OldJobsMove, Later
  <2> QED BY <1>2, <1>5, <2>1 DEF Knows
<1>7. OnePass /\ pass' \in [Passes -> PassRows]
  BY <1>1, <1>5, <1>6, PassWrites DEF ResearchInv
<1>8. Frame
  BY <1>1, <1>7 DEF Frame, ResearchInv, TypeOK
<1> QED BY <1>4, <1>7, <1>8, MovesKeeps

LEMMA ClaimNothingKeeps ==
    ASSUME ResearchInv, ClaimNothing
    PROVE  ResearchInv' /\ AnnouncedStep
PROOF
<1> DEFINE f == [j \in JobIds |-> IF j \in Superseded THEN Without(j, "canceled")
                                  ELSE jobs[j]]
<1>1. jobs' = f /\ UNCHANGED <<tasks, pass, cas, folder, inputs, faults>>
  BY DEF ClaimNothing
<1>2. Superseded \in SUBSET Issued
  BY DEF Superseded, Queued
<1>3. ASSUME NEW j \in Superseded PROVE Later(jobs[j], f[j], cas)
  <2>1. j \in Issued /\ j \in JobIds /\ jobs[j].state = "queued"
    BY DEF Superseded, Queued, Issued
  <2> QED BY <2>1, WithoutLater
<1>4. \A j \in JobIds \ Superseded : f[j] = jobs[j]
  OBVIOUS
<1>5. f = [j \in JobIds |-> f[j]]
  OBVIOUS
<1> HIDE DEF f
<1>6. Moves
  BY <1>1, <1>2, <1>3, <1>4, <1>5, SomeMove
<1> QED BY <1>1, <1>6, OnlyJobsMove

LEMMA RecoverExpiredKeeps ==
    ASSUME ResearchInv, RecoverExpired
    PROVE  ResearchInv' /\ AnnouncedStep
PROOF
<1> DEFINE S == {j \in Issued : jobs[j].state = "running" /\ jobs[j].lease <= 0}
           f == [j \in JobIds |-> IF j \in S THEN Without(j, GivenUp(j))
                                  ELSE jobs[j]]
<1>1. jobs' = f /\ UNCHANGED <<tasks, pass, cas, folder, inputs, faults>>
  BY DEF RecoverExpired
<1>2. ASSUME NEW j \in S PROVE Later(jobs[j], f[j], cas)
  <2>1. j \in JobIds /\ jobs[j].state = "running" /\ jobs[j] \in JobRows
    BY IssuedRow DEF ResearchInv
  <2>2. jobs[j].attempts \in Nat /\ MaxAttempts \in Nat
    BY <2>1, AttemptsAssumption DEF JobRows
  <2>3. /\ GivenUp(j) \in {"queued", "parked"}
        /\ GivenUp(j) = "queued" => jobs[j].attempts < MaxAttempts
    BY <2>2 DEF GivenUp
  <2> QED BY <2>1, <2>3, WithoutLater
<1>3. \A j \in JobIds \ S : f[j] = jobs[j]
  OBVIOUS
<1>4. f = [j \in JobIds |-> f[j]]
  OBVIOUS
<1>5. S \in SUBSET Issued
  OBVIOUS
<1> HIDE DEF f, S
<1>6. Moves
  BY <1>1, <1>2, <1>3, <1>4, <1>5, SomeMove
<1> QED BY <1>1, <1>6, OnlyJobsMove

LEMMA TickKeeps ==
    ASSUME ResearchInv, Tick
    PROVE  ResearchInv' /\ AnnouncedStep
PROOF
<1> DEFINE f == [j \in JobIds |-> IF j \in Issued THEN Aged(j) ELSE NoJob]
<1>1. jobs' = f /\ UNCHANGED <<tasks, pass, cas, folder, inputs, faults>>
  BY DEF Tick
<1>2. ASSUME NEW j \in Issued PROVE Later(jobs[j], f[j], cas)
  BY AgedLater DEF Issued
<1>3. \A j \in JobIds \ Issued : f[j] = jobs[j]
  BY DEF Issued
<1>4. f = [j \in JobIds |-> f[j]]
  OBVIOUS
<1> HIDE DEF f
<1>5. Moves
  BY <1>1, <1>2, <1>3, <1>4, SomeMove
<1> QED BY <1>1, <1>5, OnlyJobsMove

-----------------------------------------------------------------------------
(* Every step                                                              *)

LEMMA RequestsKeep ==
    ASSUME ResearchInv, NEW t \in Tasks,
           GateRequests(t) \/ \E refresh \in BOOLEAN : Request(t, refresh)
    PROVE  ResearchInv' /\ AnnouncedStep
PROOF
<1>1. /\ ~Publishing(t) /\ Issued # JobIds /\ Enqueue(t)
      /\ UNCHANGED <<tasks, pass, cas, folder, faults>>
  BY DEF GateRequests, Request
<1>2. inputs' \in 0..MaxInputs
  <2>1. inputs \in 0..MaxInputs /\ MaxInputs \in Nat
    BY BudgetAssumption DEF ResearchInv, TypeOK
  <2> QED BY <2>1 DEF GateRequests, Request
<1>3. Frame
  BY <1>1, <1>2 DEF Frame, ResearchInv, TypeOK
<1> QED BY <1>1, <1>3, EnqueueKeeps

LEMMA ReviseKeeps ==
    ASSUME ResearchInv, NEW t \in Tasks, Revise(t)
    PROVE  ResearchInv' /\ AnnouncedStep
PROOF
<1>1. inputs' \in 0..MaxInputs
  <2>1. inputs \in 0..MaxInputs /\ MaxInputs \in Nat
    BY BudgetAssumption DEF ResearchInv, TypeOK
  <2> QED BY <2>1 DEF Revise
<1>2. tasks' \in [Tasks -> [version : Nat, open : BOOLEAN]]
  <2>1. tasks \in [Tasks -> [version : Nat, open : BOOLEAN]]
    BY DEF ResearchInv, TypeOK
  <2>2. PICK open \in BOOLEAN :
          tasks' = [tasks EXCEPT ![t] = [version |-> @.version + 1,
                                         open |-> open]]
    BY DEF Revise
  <2>3. tasks[t].version + 1 \in Nat
    BY <2>1
  <2> QED BY <2>1, <2>2, <2>3
<1>3. UNCHANGED <<jobs, pass, cas, folder, faults>>
  BY DEF Revise
<1>4. Moves
  BY <1>3, NoneMoves
<1>5. OnePass
  BY <1>3 DEF OnePass
<1>6. Frame
  BY <1>1, <1>2, <1>3 DEF Frame, ResearchInv, TypeOK
<1> QED BY <1>4, <1>5, <1>6, MovesKeeps

\* The steps of a pass that write nothing, as they are and when they fail.
LEMMA QuietStepsKeep ==
    ASSUME ResearchInv, NEW p \in Passes,
           \/ Context(p) \/ Synthesize(p) \/ CheckClaim(p) \/ Verify(p)
           \/ SynthesisFails(p) \/ WriteFails(p) \/ Crash(p)
    PROVE  ResearchInv' /\ AnnouncedStep
PROOF
<1>1. /\ pass[p].stage # "idle"
      /\ UNCHANGED <<tasks, jobs, cas, folder, inputs>>
  BY DEF Context, Synthesize, CheckClaim, Verify, SynthesisFails, WriteFails,
         Crash
<1>2. faults' \in 0..MaxFaults
  <2>1. faults \in 0..MaxFaults /\ MaxFaults \in Nat
    BY BudgetAssumption DEF ResearchInv, TypeOK
  <2> QED BY <2>1 DEF Context, Synthesize, CheckClaim, Verify, SynthesisFails,
                      WriteFails, Crash
<1>3. \E stage \in {"working", "failing", "drafted", "checked", "verified",
                    "timed_out", "done", "dead"} : To(p, stage)
  BY DEF Context, Synthesize, CheckClaim, Verify, SynthesisFails, WriteFails,
         Crash
<1> QED BY <1>1, <1>2, <1>3, OnlyGoesOn DEF Stages, Restoring

\* Every step keeps the invariant and every announced report.
THEOREM ResearchStep ==
    ASSUME ResearchInv, [Next]_vars
    PROVE  ResearchInv' /\ AnnouncedStep
PROOF
<1>1. ASSUME NEW t \in Tasks,
             \/ GateRequests(t) \/ Revise(t)
             \/ \E refresh \in BOOLEAN : Request(t, refresh)
      PROVE  ResearchInv' /\ AnnouncedStep
  BY <1>1, RequestsKeep, ReviseKeeps
<1>2. ASSUME NEW p \in Passes, Claim(p)
      PROVE  ResearchInv' /\ AnnouncedStep
  BY <1>2, ClaimKeeps
<1>3. ASSUME NEW p \in Passes, Step(p)
      PROVE  ResearchInv' /\ AnnouncedStep
  BY <1>3, QuietStepsKeep, StageReportKeeps, BeginPublicationKeeps,
     InstallKeeps, CompleteKeeps, FailKeeps, BeginRepairKeeps,
     FinishRepairKeeps DEF Step
<1>4. ASSUME NEW p \in Passes,
             SynthesisFails(p) \/ WriteFails(p) \/ Crash(p)
      PROVE  ResearchInv' /\ AnnouncedStep
  BY <1>4, QuietStepsKeep
<1>5. ASSUME ClaimNothing \/ RecoverExpired \/ Tick
      PROVE  ResearchInv' /\ AnnouncedStep
  BY <1>5, ClaimNothingKeeps, RecoverExpiredKeeps, TickKeeps
<1>6. ASSUME UNCHANGED vars PROVE ResearchInv' /\ AnnouncedStep
  <2>1. UNCHANGED <<tasks, jobs, pass, cas, folder, inputs, faults>>
    BY <1>6 DEF vars
  <2>2. Moves
    BY <2>1, NoneMoves
  <2> QED BY <2>1, <2>2, OnlyJobsMove
<1> QED BY <1>1, <1>2, <1>3, <1>4, <1>5, <1>6 DEF Next

\* No job is issued and no pass has begun.
LEMMA ResearchInit == ASSUME Init PROVE ResearchInv
PROOF
<1>1. \A j \in JobIds : jobs[j] = NoJob
  BY DEF Init
<1>2. Issued = {}
  BY <1>1 DEF Issued
<1>3. TypeOK
  BY BudgetAssumption DEF Init, TypeOK, Stages, PassRows, Files
<1>4. \A p \in Passes : Knows(p, pass[p], jobs, cas)
  BY DEF Init, Knows
<1>5. OneActive(jobs)
  BY <1>1 DEF OneActive
<1> QED BY <1>2, <1>3, <1>4, <1>5 DEF ResearchInv

-----------------------------------------------------------------------------
(* The theorems                                                            *)

\* The invariant holds throughout.
THEOREM ResearchInvariant == Spec => []ResearchInv
PROOF
<1>1. Init => ResearchInv
  BY ResearchInit
<1>2. ResearchInv /\ [Next]_vars => ResearchInv'
  BY ResearchStep
<1> QED BY <1>1, <1>2, PTL DEF Spec

\* Every job, pass, file and store has its type: no lease, attempt or wait
\* leaves its range.
THEOREM ResearchTyped == Spec => []TypeOK
PROOF
<1>1. ResearchInv => TypeOK
  BY DEF ResearchInv
<1> QED BY <1>1, ResearchInvariant, PTL

\* The claims table has a row exactly for the jobs being worked on, however
\* claims, failures, refreshes and repairs of any number of passes interleave.
THEOREM ClaimsAreExact == Spec => []ClaimsMatchJobs
PROOF
<1>1. ResearchInv => ClaimsMatchJobs
  BY DEF ResearchInv, Fits, ClaimsMatchJobs
<1> QED BY <1>1, ResearchInvariant, PTL

\* No claim meets the CHECK on attempts, and no timeout that gives its
\* attempt back breaks the limit.
THEOREM AttemptsAreLeft == Spec => []AttemptsLeft
PROOF
<1>1. ResearchInv => AttemptsLeft
  BY DEF ResearchInv, Fits, AttemptsLeft
<1> QED BY <1>1, ResearchInvariant, PTL

\* No path reaches the IntegrityError of the unique index.
THEOREM OneJobAtATime == Spec => []OneActiveJob
PROOF
<1>1. ASSUME ResearchInv PROVE OneActiveJob
  <2>1. SUFFICES ASSUME NEW t \in Tasks PROVE Cardinality(ActiveJobs(t)) <= 1
    BY DEF OneActiveJob
  <2>2. \A i, j \in ActiveJobs(t) : i = j
    BY <1>1 DEF ResearchInv, OneActive, ActiveJobs, JobsOf, Issued
  <2>3. CASE ActiveJobs(t) = {}
    BY <2>3, FS_EmptySet
  <2>4. CASE ActiveJobs(t) # {}
    <3>1. PICK j \in ActiveJobs(t) : TRUE
      BY <2>4
    <3>2. ActiveJobs(t) = {j}
      BY <2>2, <3>1
    <3>3. Cardinality({j}) = 1
      BY FS_Singleton
    <3> QED BY <3>2, <3>3
  <2> QED BY <2>3, <2>4
<1> QED BY <1>1, ResearchInvariant, PTL

\* Wherever any pass dies, the report of a job that announced one is whole in
\* the store.
THEOREM ReportsAreRecoverable == Spec => []Recoverable
PROOF
<1>1. ResearchInv => Recoverable
  BY DEF ResearchInv, Fits, Recoverable
<1> QED BY <1>1, ResearchInvariant, PTL

\* An announced report is the one that gets the receipt, whichever of the
\* passes that saw the job gets there first, and no job leaves its end.
THEOREM AnnouncedReportsAreFinal == Spec => AnnouncedIsFinal
PROOF
<1>1. ASSUME ResearchInv, [Next]_vars
      PROVE  [AnnouncedStep]_vars
  BY <1>1, ResearchStep
<1> QED BY <1>1, ResearchInvariant, PTL DEF Spec, AnnouncedIsFinal, AnnouncedStep
=============================================================================
