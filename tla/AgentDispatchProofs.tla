------------------------- MODULE AgentDispatchProofs -------------------------
(***************************************************************************)
(* Proofs about AgentDispatch, for every set of jobs and directories, every *)
(* cap and every number of faults.  A directory is free for a new lane when *)
(* no active job names it, and a job is active while its heartbeat is fresh *)
(* whoever asks.  So the argument is about the jobs whose supervisor still  *)
(* has, or is still to have, the agent and was never held up: they are      *)
(* active for every caller until the supervisor itself ends them.           *)
(***************************************************************************)
EXTENDS AgentDispatch, FiniteSetTheorems, TLAPS

\* The supervisor of j has the agent or is on its way to it.
Manned(j) == /\ ~sup[j].late
             /\ \/ sup[j].at = "waiting" /\ job[j].known
                \/ sup[j].at \in {"preparing", "visible", "watching"}

MannedJobs == {j \in Jobs : Manned(j)}

MannedIsActive == \A j \in Jobs : Manned(j) => job[j].state \in ACTIVE_STATES /\ job[j].fresh

MannedApart == \A i, j \in Jobs : i # j /\ Manned(i) /\ Manned(j) => job[i].dir # job[j].dir

MannedCapped == Cardinality(MannedJobs) <= MaxConcurrency

\* A cancellation is accepted from a supervisor at work, or ends the others.
CancelledAtWork ==
    \A j \in Jobs : job[j].state = "cancelling" =>
                      sup[j].at \notin {"waiting", "preparing", "visible"}

LaneInv == MannedIsActive /\ MannedApart /\ MannedCapped /\ CancelledAtWork

\* A supervisor that is about to record an outcome has one.
Deciding == {s \in Supervisors : s.at = "ending" => s.end \in TERMINAL_STATES}

Types ==
    /\ job \in [Jobs -> Documents]
    /\ sup \in [Jobs -> Deciding]
    /\ agent \in [Jobs -> {"none", "alive", "gone"}]
    /\ faults \in 0..MaxFaults

-----------------------------------------------------------------------------

LEMMA InitTypes == Init => Types
<1> SUFFICES ASSUME Init PROVE Types
  OBVIOUS
<1>1. job \in [Jobs -> Documents]
  <2>1. [state : {"absent"}, dir : {"none"}, known : {FALSE}, fresh : {FALSE}]
          \subseteq Documents
    BY DEF Documents
  <2> QED
    BY <2>1 DEF Init
<1>2. NoSupervisor \in Deciding
  BY DEF NoSupervisor, Supervisors, Deciding
<1> QED
  BY <1>1, <1>2, DispatchAssumption DEF Init, Types

\* Reconciling writes "orphaned" and nothing else, and never to a fresh job.
LEMMA ReconciledTypes ==
  ASSUME Types, NEW looked, NEW sees \in BOOLEAN
  PROVE  /\ Reconciled(looked, sees) \in [Jobs -> Documents]
         /\ \A j \in Jobs :
              LET new == Reconciled(looked, sees)[j]
              IN /\ new.dir = job[j].dir
                 /\ new.known = job[j].known
                 /\ new.fresh = job[j].fresh
                 /\ \/ new = job[j]
                    \/ ~job[j].fresh /\ new.state = "orphaned"
<1>1. ASSUME NEW j \in Jobs
      PROVE  LET new == Reconciled(looked, sees)[j]
             IN /\ new \in Documents
                /\ new.dir = job[j].dir
                /\ new.known = job[j].known
                /\ new.fresh = job[j].fresh
                /\ \/ new = job[j]
                   \/ ~job[j].fresh /\ new.state = "orphaned"
  <2>1. job[j] \in Documents
    BY DEF Types
  <2>2. CASE /\ j \in looked /\ job[j].state \in ACTIVE_STATES
             /\ ~Active(j, sees)
    <3>1. Reconciled(looked, sees)[j] = [job[j] EXCEPT !.state = "orphaned"]
      BY <2>2 DEF Reconciled
    <3>2. ~job[j].fresh
      BY <2>2 DEF Active
    <3> QED
      BY <2>1, <3>1, <3>2 DEF Documents, TERMINAL_STATES
  <2>3. CASE ~(/\ j \in looked /\ job[j].state \in ACTIVE_STATES
               /\ ~Active(j, sees))
    BY <2>1, <2>3 DEF Reconciled
  <2> QED
    BY <2>2, <2>3
<1> QED
  BY <1>1 DEF Reconciled

\* What every action does to the types.
LEMMA StepTypes == Types /\ [Next]_vars => Types'
<1> SUFFICES ASSUME Types, [Next]_vars PROVE Types'
  OBVIOUS
<1> USE DispatchAssumption
<1>0. /\ job \in [Jobs -> Documents]
      /\ sup \in [Jobs -> Deciding]
      /\ agent \in [Jobs -> {"none", "alive", "gone"}]
      /\ faults \in 0..MaxFaults
  BY DEF Types
<1>f. Fault => faults' \in 0..MaxFaults
  BY <1>0 DEF Fault
<1>r. ASSUME NEW j \in Jobs, NEW s \in ACTIVE_STATES \cup TERMINAL_STATES
      PROVE  [job EXCEPT ![j].state = s] \in [Jobs -> Documents]
  <2>1. [job[j] EXCEPT !.state = s] \in Documents
    BY <1>0 DEF Documents
  <2> QED
    BY <1>0, <2>1
<1>a. ASSUME NEW j \in Jobs,
             NEW w \in {"waiting", "preparing", "visible", "watching"}
      PROVE  At(j, w) => sup' \in [Jobs -> Deciding]
  <2>1. [sup[j] EXCEPT !.at = w] \in Deciding
    BY <1>0 DEF Deciding, Supervisors
  <2> QED
    BY <1>0, <2>1 DEF At
<1>o. ASSUME NEW j \in Jobs, NEW w \in {"gone", "killed"}
      PROVE  Over(j, w) => sup' \in [Jobs -> Deciding]
  <2>1. [NoSupervisor EXCEPT !.at = w] \in Deciding
    BY DEF Deciding, Supervisors, NoSupervisor
  <2> QED
    BY <1>0, <2>1 DEF Over
<1>e. ASSUME NEW j \in Jobs, NEW outcome \in TERMINAL_STATES
      PROVE  Ends(j, outcome) => sup' \in [Jobs -> Deciding]
  <2>1. [sup[j] EXCEPT !.at = "ending", !.end = outcome] \in Supervisors
    BY <1>0 DEF Deciding, Supervisors
  <2>2. [sup[j] EXCEPT !.at = "ending", !.end = outcome].end = outcome
    BY <1>0 DEF Deciding, Supervisors
  <2>3. [sup[j] EXCEPT !.at = "ending", !.end = outcome] \in Deciding
    BY <2>1, <2>2 DEF Deciding
  <2> QED
    BY <1>0, <2>3 DEF Ends
<1>c. ASSUME NEW j \in Jobs, NEW d \in Dirs, NEW sees \in BOOLEAN, NEW known \in BOOLEAN,
             NEW s \in {"starting", "failed"}
      PROVE  Creates(j, d, sees, NewJob(s, d, known)) =>
               /\ job' \in [Jobs -> Documents]
               /\ agent' = agent
  <2>1. NewJob(s, d, known) \in Documents
    BY DEF NewJob, Documents, ACTIVE_STATES, TERMINAL_STATES
  <2>2. Reconciled(Jobs, sees) \in [Jobs -> Documents]
    BY ReconciledTypes
  <2> QED
    BY <2>1, <2>2 DEF Creates
<1>1. CASE UNCHANGED vars
  BY <1>0, <1>1 DEF vars, Types
<1>2. ASSUME NEW looked, NEW sees \in BOOLEAN, Look(looked, sees)
      PROVE  Types'
  BY <1>0, <1>2, ReconciledTypes DEF Look, Types
<1>3. ASSUME NEW j \in Jobs, Calls(j)
      PROVE  Types'
  <2>1. ASSUME NEW d \in Dirs, NEW sees \in BOOLEAN, Start(j, d, sees)
        PROVE  Types'
    BY <1>0, <1>a, <1>c, <2>1 DEF Start, Types
  <2>2. ASSUME NEW d \in Dirs, NEW sees \in BOOLEAN, StartFails(j, d, sees)
        PROVE  Types'
    BY <1>0, <1>f, <1>c, <2>2 DEF StartFails, Types
  <2>3. ASSUME NEW d \in Dirs, NEW sees \in BOOLEAN, StartBreaksOff(j, d, sees)
        PROVE  Types'
    BY <1>0, <1>f, <1>a, <1>o, <1>c, <2>3 DEF StartBreaksOff, Types
  <2>4. CASE Cancel(j)
    <3>1. job' \in [Jobs -> Documents]
      BY <1>r, <2>4 DEF Cancel, Recorded, ACTIVE_STATES
    <3>0. sup[j] \in Deciding
      BY <1>0
    <3>2. [sup[j] EXCEPT !.term = TRUE] \in Deciding
      BY ONLY <3>0 DEF Deciding, Supervisors
    <3>3. [NoSupervisor EXCEPT !.at = "killed"] \in Deciding
      BY DEF Deciding, Supervisors, NoSupervisor
    <3> QED
      BY <1>0, <2>4, <3>1, <3>2, <3>3 DEF Cancel, Types
  <2> QED
    BY <1>3, <2>1, <2>2, <2>3, <2>4 DEF Calls
<1>4. ASSUME NEW j \in Jobs, Supervisor(j)
      PROVE  Types'
  <2>1. CASE Identified(j)
    BY <1>0, <1>a, <2>1 DEF Identified, Types
  <2>2. CASE GivesUp(j)
    BY <1>0, <1>f, <1>o, <2>2 DEF GivesUp, Types
  <2>3. CASE ShowsRunning(j)
    <3>1. [job[j] EXCEPT !.state = "running", !.fresh = TRUE] \in Documents
      BY <1>0 DEF Documents, ACTIVE_STATES
    <3> QED
      BY <1>0, <1>a, <2>3, <3>1 DEF ShowsRunning, Types
  <2>4. CASE Launch(j)
    BY <1>0, <1>a, <2>4 DEF Launch, Types
  <2>5. CASE Requested(j)
    <3>1. [sup[j] EXCEPT !.why = "cancelled"] \in Deciding
      BY <1>0 DEF Deciding, Supervisors
    <3> QED
      BY <1>0, <2>5, <3>1 DEF Requested, Types
  <2>6. CASE RunsOut(j)
    <3>1. \A why \in {"timed_out", "stalled_no_edit"} :
            [sup[j] EXCEPT !.why = why] \in Deciding
      BY <1>0 DEF Deciding, Supervisors
    <3> QED
      BY <1>0, <2>6, <3>1 DEF RunsOut, Types
  <2>7. CASE SeesExit(j)
    <3>1. sup[j].why # "none" => sup[j].why \in TERMINAL_STATES
      BY <1>0 DEF Deciding, Supervisors, TERMINAL_STATES
    <3>2. \E outcome \in TERMINAL_STATES : Ends(j, outcome)
      BY <2>7, <3>1 DEF SeesExit, TERMINAL_STATES
    <3> QED
      BY <1>0, <1>e, <2>7, <3>2 DEF SeesExit, Types
  <2>8. CASE Finish(j)
    <3>1. sup[j].end \in TERMINAL_STATES
      BY <1>0, <2>8 DEF Deciding, Finish
    <3>2. "cancelled" \in TERMINAL_STATES
      BY DEF TERMINAL_STATES
    <3> QED
      BY <1>0, <1>o, <1>r, <2>8, <3>1, <3>2 DEF Finish, Recorded, Types
  <2> QED
    BY <1>4, <2>1, <2>2, <2>3, <2>4, <2>5, <2>6, <2>7, <2>8 DEF Supervisor
<1>5. ASSUME NEW j \in Jobs, Broken(j)
      PROVE  Types'
  <2>1. CASE NoCredential(j)
    BY <1>0, <1>f, <1>o, <1>r, <2>1 DEF NoCredential, Recorded, Types, TERMINAL_STATES
  <2>2. CASE LaunchFails(j)
    BY <1>0, <1>f, <1>e, <2>2 DEF LaunchFails, Types, TERMINAL_STATES
  <2>3. CASE HeartbeatBreaks(j)
    BY <1>0, <1>f, <1>e, <2>3 DEF HeartbeatBreaks, Types, TERMINAL_STATES
  <2>4. CASE Kill(j)
    BY <1>0, <1>f, <1>o, <2>4 DEF Kill, Types
  <2> QED
    BY <1>5, <2>1, <2>2, <2>3, <2>4 DEF Broken
<1>6. ASSUME NEW j \in Jobs, Heartbeat(j)
      PROVE  Types'
  <2>1. [job[j] EXCEPT !.state = "running", !.fresh = TRUE] \in Documents
    BY <1>0 DEF Documents, ACTIVE_STATES
  <2> QED
    BY <1>0, <1>6, <2>1 DEF Heartbeat, Types
<1>7. ASSUME NEW j \in Jobs, AgentExits(j)
      PROVE  Types'
  BY <1>0, <1>7 DEF AgentExits, Types
<1>8. ASSUME NEW j \in Jobs, GoesStale(j)
      PROVE  Types'
  <2>1. [job[j] EXCEPT !.fresh = FALSE] \in Documents
    BY <1>0 DEF Documents
  <2>0. sup[j] \in Deciding
    BY <1>0
  <2>2. [sup[j] EXCEPT !.late = TRUE] \in Deciding
    BY ONLY <2>0 DEF Deciding, Supervisors
  <2> QED
    BY <1>0, <1>f, <1>8, <2>1, <2>2 DEF GoesStale, Types
<1> QED
  BY <1>1, <1>2, <1>3, <1>4, <1>5, <1>6, <1>7, <1>8 DEF Next

-----------------------------------------------------------------------------

LEMMA MannedFinite ==
  ASSUME NEW S \in SUBSET Jobs
  PROVE  IsFiniteSet(S) /\ Cardinality(S) \in Nat
BY DispatchAssumption, FS_Subset, FS_CardinalityType

LEMMA InitLanes == Init => LaneInv
<1> SUFFICES ASSUME Init PROVE LaneInv
  OBVIOUS
<1>1. \A j \in Jobs : ~Manned(j)
  BY DEF Init, NoSupervisor, Manned
<1>2. MannedJobs = {}
  BY <1>1 DEF MannedJobs
<1>3. MannedCapped
  BY <1>2, FS_EmptySet, DispatchAssumption DEF MannedCapped
<1>4. CancelledAtWork
  BY DEF Init, NoSupervisor, CancelledAtWork
<1> QED
  BY <1>1, <1>3, <1>4 DEF LaneInv, MannedIsActive, MannedApart

\* No lane is added: every job manned afterwards was manned before.
LEMMA LanesKept ==
  ASSUME LaneInv, CancelledAtWork',
         \A i \in Jobs : Manned(i)' => /\ Manned(i)
                                       /\ job'[i].dir = job[i].dir
                                       /\ job'[i].state \in ACTIVE_STATES
                                       /\ job'[i].fresh
  PROVE  LaneInv'
<1>1. MannedIsActive' /\ MannedApart'
  BY DEF LaneInv, MannedIsActive, MannedApart
<1>2. MannedJobs' \subseteq MannedJobs /\ MannedJobs \subseteq Jobs
  BY DEF MannedJobs
<1>3. Cardinality(MannedJobs') <= Cardinality(MannedJobs)
  BY <1>2, MannedFinite, FS_Subset
<1>4. MannedCapped'
  BY <1>2, <1>3, MannedFinite, DispatchAssumption DEF LaneInv, MannedCapped
<1> QED
  BY <1>1, <1>4 DEF LaneInv

\* A caller that starts a lane sees every manned job as active.
LEMMA MannedCounts ==
  ASSUME LaneInv, NEW sees \in BOOLEAN
  PROVE  \A i \in Jobs : Manned(i) => Active(i, sees)
BY DEF LaneInv, MannedIsActive, Active

\* Reconciling leaves the manned jobs alone and makes nothing "cancelling".
LEMMA ReconciledLanes ==
  ASSUME Types, LaneInv, NEW looked, NEW sees \in BOOLEAN, NEW i \in Jobs
  PROVE  LET new == Reconciled(looked, sees)[i]
         IN /\ new.dir = job[i].dir
            /\ new.known = job[i].known
            /\ Manned(i) => new = job[i]
            /\ new.state = "cancelling" => job[i].state = "cancelling"
BY ReconciledTypes DEF LaneInv, MannedIsActive

LEMMA LookLanes ==
  ASSUME Types, LaneInv, NEW looked, NEW sees \in BOOLEAN, Look(looked, sees)
  PROVE  LaneInv'
<1>1. job' = Reconciled(looked, sees) /\ sup' = sup
  BY DEF Look
<1>2. ASSUME NEW i \in Jobs
      PROVE  /\ Manned(i)' => /\ Manned(i)
                              /\ job'[i] = job[i]
             /\ job'[i].state = "cancelling" => job[i].state = "cancelling"
  BY <1>1, ReconciledLanes DEF Manned
<1>3. CancelledAtWork'
  BY <1>1, <1>2 DEF LaneInv, CancelledAtWork
<1> QED
  BY <1>2, <1>3, LanesKept DEF LaneInv, MannedIsActive

\* What creating a job says of it and of the others.
RoomFor(j, d, document) ==
    /\ job'[j] = document
    /\ ~Manned(j)
    /\ \A i \in Jobs \ {j} :
         /\ job'[i].known = job[i].known
         /\ Manned(i) => job'[i] = job[i]
         /\ job'[i].state = "cancelling" => job[i].state = "cancelling"
    /\ Cardinality(MannedJobs) < MaxConcurrency
    /\ \A i \in MannedJobs : job[i].dir # d

LEMMA CreatesLanes ==
  ASSUME Types, LaneInv, NEW j \in Jobs, NEW d \in Dirs, NEW sees \in BOOLEAN,
         NEW s \in {"starting", "failed"}, NEW known \in BOOLEAN,
         Creates(j, d, sees, NewJob(s, d, known))
  PROVE  RoomFor(j, d, NewJob(s, d, known))
<1>1. job' = [Reconciled(Jobs, sees) EXCEPT ![j] = NewJob(s, d, known)]
  BY DEF Creates
<1>2. Reconciled(Jobs, sees) \in [Jobs -> Documents]
  BY ReconciledTypes
<1>3. job'[j] = NewJob(s, d, known)
  BY <1>1, <1>2
<1>4. ASSUME NEW i \in Jobs \ {j}
      PROVE  /\ job'[i].known = job[i].known
             /\ Manned(i) => job'[i] = job[i]
             /\ job'[i].state = "cancelling" => job[i].state = "cancelling"
  <2>1. job'[i] = Reconciled(Jobs, sees)[i]
    BY <1>1, <1>2
  <2> QED
    BY <2>1, ReconciledLanes
<1>5. ~Manned(j)
  BY DEF Creates, LaneInv, MannedIsActive, ACTIVE_STATES
<1> DEFINE active == {i \in Jobs : Active(i, sees)}
<1>6. MannedJobs \subseteq active /\ active \subseteq Jobs
  BY MannedCounts DEF MannedJobs
<1>7. Cardinality(active) < MaxConcurrency /\ \A i \in active : job[i].dir # d
  BY DEF Creates, Admits
<1>8. Cardinality(MannedJobs) <= Cardinality(active)
  BY <1>6, MannedFinite, FS_Subset
<1>9. Cardinality(MannedJobs) < MaxConcurrency
  <2> HIDE DEF active
  <2> QED
    BY <1>6, <1>7, <1>8, MannedFinite, DispatchAssumption
<1> QED
  BY <1>3, <1>4, <1>5, <1>6, <1>7, <1>9 DEF RoomFor

\* A lane is added by Start alone, which has made room for it.
LEMMA CallsLanes ==
  ASSUME Types, LaneInv, NEW j \in Jobs, Calls(j)
  PROVE  LaneInv'
<1>1. ASSUME NEW d \in Dirs, NEW sees \in BOOLEAN, Start(j, d, sees)
      PROVE  LaneInv'
  <2>1. Creates(j, d, sees, NewJob("starting", d, TRUE))
    BY <1>1 DEF Start
  <2>2. RoomFor(j, d, NewJob("starting", d, TRUE))
    BY <2>1, CreatesLanes
  <2>3. sup' = [sup EXCEPT ![j].at = "waiting"]
    BY <1>1 DEF Start, At
  <2>4. \A i \in Jobs \ {j} : sup'[i] = sup[i]
    BY <2>3 DEF Types
  <2>5. \A i \in Jobs \ {j} : Manned(i)' => Manned(i) /\ job'[i] = job[i]
    BY <2>2, <2>4 DEF Manned, RoomFor
  <2>6. /\ job'[j].dir = d /\ job'[j].state = "starting" /\ job'[j].fresh
    BY <2>2 DEF NewJob, RoomFor
  <2>7. MannedIsActive'
    BY <2>5, <2>6 DEF LaneInv, MannedIsActive, ACTIVE_STATES
  <2>8. MannedApart'
    <3> SUFFICES ASSUME NEW a \in Jobs, NEW b \in Jobs, a # b, Manned(a)', Manned(b)'
                 PROVE  job'[a].dir # job'[b].dir
      BY DEF MannedApart
    <3>1. CASE a # j /\ b # j
      BY <2>5, <3>1 DEF LaneInv, MannedApart
    <3>2. CASE a = j
      BY <2>2, <2>5, <2>6, <3>2 DEF MannedJobs, RoomFor
    <3>3. CASE b = j
      BY <2>2, <2>5, <2>6, <3>3 DEF MannedJobs, RoomFor
    <3> QED
      BY <3>1, <3>2, <3>3
  <2>9. MannedCapped'
    <3>1. MannedJobs' \subseteq MannedJobs \cup {j} /\ MannedJobs \subseteq Jobs
      BY <2>5 DEF MannedJobs
    <3>2. Cardinality(MannedJobs \cup {j}) <= Cardinality(MannedJobs) + 1
      BY <3>1, MannedFinite, FS_AddElement
    <3>3. IsFiniteSet(MannedJobs \cup {j})
      BY <3>1, MannedFinite, FS_AddElement
    <3>4. Cardinality(MannedJobs') <= Cardinality(MannedJobs \cup {j})
      BY <3>1, <3>3, FS_Subset
    <3>5. /\ Cardinality(MannedJobs') \in Nat /\ Cardinality(MannedJobs) \in Nat
          /\ Cardinality(MannedJobs \cup {j}) \in Nat
      BY <3>1, <3>3, MannedFinite, FS_CardinalityType
    <3> QED
      BY <2>2, <3>2, <3>4, <3>5, DispatchAssumption DEF MannedCapped, RoomFor
  <2>10. CancelledAtWork'
    BY <2>2, <2>4, <2>6 DEF LaneInv, CancelledAtWork, RoomFor
  <2> QED
    BY <2>7, <2>8, <2>9, <2>10 DEF LaneInv
<1>2. ASSUME NEW d \in Dirs, NEW sees \in BOOLEAN, NEW s \in {"starting", "failed"},
             Creates(j, d, sees, NewJob(s, d, FALSE)),
             \/ s = "failed" /\ sup' = sup
             \/ At(j, "waiting")
             \/ Over(j, "gone")
      PROVE  LaneInv'
  <2>1. RoomFor(j, d, NewJob(s, d, FALSE))
    BY <1>2, CreatesLanes
  <2>2. \A i \in Jobs \ {j} : sup'[i] = sup[i]
    BY <1>2 DEF Types, At, Over
  <2>3. \/ sup'[j] = sup[j]
        \/ sup'[j].at \in {"waiting", "gone"}
    BY <1>2 DEF Types, Deciding, Supervisors, At, Over, NoSupervisor
  <2>4. ~job'[j].known /\ job'[j].state = s
    BY <2>1 DEF NewJob, RoomFor
  <2>5. ~Manned(j)'
    BY <2>1, <2>3, <2>4 DEF Manned, RoomFor
  <2>6. \A i \in Jobs : Manned(i)' => Manned(i) /\ job'[i] = job[i]
    BY <2>1, <2>2, <2>5 DEF Manned, RoomFor
  <2>7. CancelledAtWork'
    BY <2>1, <2>2, <2>4 DEF LaneInv, CancelledAtWork, RoomFor
  <2> QED
    BY <2>6, <2>7, LanesKept DEF LaneInv, MannedIsActive
<1>3. CASE Cancel(j)
  <2>1. /\ \A i \in Jobs \ {j} : job'[i] = job[i] /\ sup'[i] = sup[i]
        /\ job'[j] = [job[j] EXCEPT !.state = "cancelling"]
        /\ sup'[j] = IF sup[j].at = "watching"
                     THEN [sup[j] EXCEPT !.term = TRUE]
                     ELSE [NoSupervisor EXCEPT !.at = "killed"]
    BY <1>3 DEF Cancel, Recorded, Types
  <2>2. /\ job'[j].state = "cancelling" /\ job'[j].dir = job[j].dir
        /\ job'[j].fresh = job[j].fresh
    BY <2>1 DEF Types, Documents
  <2>3. \/ /\ sup[j].at = "watching" /\ sup'[j].at = "watching"
           /\ sup'[j].late = sup[j].late
        \/ sup'[j].at = "killed"
    BY <2>1 DEF Types, Deciding, Supervisors, NoSupervisor
  <2>4. Manned(j)' => Manned(j)
    BY <2>3 DEF Manned
  <2>5. \A i \in Jobs \ {j} : Manned(i)' => Manned(i)
    BY <2>1 DEF Manned
  <2>6. CancelledAtWork'
    BY <2>1, <2>3 DEF LaneInv, CancelledAtWork
  <2> QED
    BY <2>1, <2>2, <2>4, <2>5, <2>6, LanesKept DEF LaneInv, MannedIsActive, ACTIVE_STATES
<1>4. ASSUME NEW d \in Dirs, NEW sees \in BOOLEAN, StartFails(j, d, sees)
      PROVE  LaneInv'
  BY <1>2, <1>4 DEF StartFails
<1>5. ASSUME NEW d \in Dirs, NEW sees \in BOOLEAN, StartBreaksOff(j, d, sees)
      PROVE  LaneInv'
  BY <1>2, <1>5 DEF StartBreaksOff
<1> QED
  BY <1>1, <1>3, <1>4, <1>5 DEF Calls

\* The supervisor writes under its own job only.
LEMMA OthersAlone ==
  ASSUME Types, NEW j \in Jobs,
         Supervisor(j) \/ Broken(j) \/ Heartbeat(j) \/ AgentExits(j) \/ GoesStale(j)
  PROVE  \A i \in Jobs \ {j} : job'[i] = job[i] /\ sup'[i] = sup[i]
<1>1. CASE Supervisor(j)
  BY <1>1 DEF Types, Supervisor, Identified, GivesUp, ShowsRunning, Launch, Requested,
              RunsOut, SeesExit, Finish, At, Over, Ends, Recorded
<1>2. CASE Broken(j)
  BY <1>2 DEF Types, Broken, NoCredential, LaunchFails, HeartbeatBreaks, Kill,
              Over, Ends, Recorded
<1>3. CASE Heartbeat(j) \/ AgentExits(j) \/ GoesStale(j)
  BY <1>3 DEF Types, Heartbeat, AgentExits, GoesStale
<1> QED
  BY <1>1, <1>2, <1>3

\* A step of one supervisor keeps the lanes if it keeps its own.
LEMMA OwnLane ==
  ASSUME Types, LaneInv, NEW j \in Jobs,
         \A i \in Jobs \ {j} : job'[i] = job[i] /\ sup'[i] = sup[i],
         Manned(j)' => Manned(j),
         job'[j].dir = job[j].dir,
         Manned(j)' => job'[j].state \in ACTIVE_STATES /\ job'[j].fresh,
         job'[j].state = "cancelling" =>
           sup'[j].at \notin {"waiting", "preparing", "visible"}
  PROVE  LaneInv'
<1>1. \A i \in Jobs \ {j} : Manned(i)' => Manned(i)
  BY DEF Manned
<1>2. CancelledAtWork'
  BY DEF LaneInv, CancelledAtWork
<1>3. \A i \in Jobs : Manned(i) => job[i].state \in ACTIVE_STATES /\ job[i].fresh
  BY DEF LaneInv, MannedIsActive
<1> QED
  BY <1>1, <1>2, <1>3, LanesKept

\* What a supervisor that is gone, or about to record its outcome, leaves.
LEMMA Unmanned ==
  ASSUME Types, NEW j \in Jobs,
         \/ \E w \in {"gone", "killed"} : Over(j, w)
         \/ \E outcome \in TERMINAL_STATES : Ends(j, outcome)
  PROVE  sup'[j].at \in {"gone", "killed", "ending"} /\ ~Manned(j)'
<1>1. sup'[j].at \in {"gone", "killed", "ending"}
  BY DEF Types, Deciding, Supervisors, Over, Ends, NoSupervisor
<1> QED
  BY <1>1 DEF Manned

LEMMA SupervisorLanes ==
  ASSUME Types, LaneInv, NEW j \in Jobs, Supervisor(j)
  PROVE  LaneInv'
<1>0. \A i \in Jobs \ {j} : job'[i] = job[i] /\ sup'[i] = sup[i]
  BY OthersAlone
<1>1. Manned(j) => job[j].state \in ACTIVE_STATES /\ job[j].fresh
  BY DEF LaneInv, MannedIsActive
<1>2. job[j].state = "cancelling" => sup[j].at \notin {"waiting", "preparing", "visible"}
  BY DEF LaneInv, CancelledAtWork
<1>3. CASE Identified(j)
  <2>1. job' = job /\ sup'[j].at = "preparing" /\ sup'[j].late = sup[j].late
    BY <1>3 DEF Identified, At, Types, Deciding, Supervisors
  <2>2. Manned(j)' => Manned(j)
    BY <1>3, <2>1 DEF Identified, Manned
  <2> QED
    BY <1>0, <1>1, <1>2, <1>3, <2>1, <2>2, OwnLane DEF Identified
<1>4. CASE GivesUp(j)
  <2>1. job' = job /\ sup'[j].at \in {"gone", "killed", "ending"} /\ ~Manned(j)'
    BY <1>4, Unmanned DEF GivesUp
  <2> QED
    BY <1>0, <2>1, OwnLane
<1>5. CASE ShowsRunning(j)
  <2>1. /\ sup'[j].at = "visible" /\ sup'[j].late = sup[j].late
        /\ job'[j].state = "running" /\ job'[j].fresh /\ job'[j].dir = job[j].dir
    BY <1>5 DEF ShowsRunning, At, Types, Deciding, Supervisors, Documents
  <2>2. Manned(j)' => Manned(j)
    BY <1>5, <2>1 DEF ShowsRunning, Manned
  <2> QED
    BY <1>0, <2>1, <2>2, OwnLane DEF ACTIVE_STATES
<1>6. CASE Launch(j)
  <2>1. job' = job /\ sup'[j].at = "watching" /\ sup'[j].late = sup[j].late
    BY <1>6 DEF Launch, At, Types, Deciding, Supervisors
  <2>2. Manned(j)' => Manned(j)
    BY <1>6, <2>1 DEF Launch, Manned
  <2> QED
    BY <1>0, <1>1, <2>1, <2>2, OwnLane
<1>7. CASE Requested(j) \/ RunsOut(j)
  <2>1. job' = job /\ sup[j].at = "watching"
        /\ sup'[j].at = "watching" /\ sup'[j].late = sup[j].late
    BY <1>7 DEF Requested, RunsOut, Types, Deciding, Supervisors
  <2>2. Manned(j)' => Manned(j)
    BY <2>1 DEF Manned
  <2> QED
    BY <1>0, <1>1, <2>1, <2>2, OwnLane
<1>8. CASE SeesExit(j)
  <2>1. sup[j].why # "none" => sup[j].why \in TERMINAL_STATES
    BY DEF Types, Deciding, Supervisors, TERMINAL_STATES
  <2>2. \E outcome \in TERMINAL_STATES : Ends(j, outcome)
    BY <1>8, <2>1 DEF SeesExit, TERMINAL_STATES
  <2>3. job' = job /\ sup'[j].at \in {"gone", "killed", "ending"} /\ ~Manned(j)'
    BY <1>8, <2>2, Unmanned DEF SeesExit
  <2> QED
    BY <1>0, <2>3, OwnLane
<1>9. CASE Finish(j)
  <2>1. job'[j].dir = job[j].dir
    BY <1>9 DEF Finish, Recorded, Types, Documents
  <2>2. sup'[j].at \in {"gone", "killed", "ending"} /\ ~Manned(j)'
    BY <1>9, Unmanned DEF Finish
  <2> QED
    BY <1>0, <2>1, <2>2, OwnLane
<1> QED
  BY <1>3, <1>4, <1>5, <1>6, <1>7, <1>8, <1>9 DEF Supervisor

LEMMA BrokenLanes ==
  ASSUME Types, LaneInv, NEW j \in Jobs, Broken(j)
  PROVE  LaneInv'
<1>0. \A i \in Jobs \ {j} : job'[i] = job[i] /\ sup'[i] = sup[i]
  BY OthersAlone
<1>1. job'[j].dir = job[j].dir
  BY DEF Broken, NoCredential, LaunchFails, HeartbeatBreaks, Kill, Recorded, Types, Documents
<1>2. "failed" \in TERMINAL_STATES
  BY DEF TERMINAL_STATES
<1>3. sup'[j].at \in {"gone", "killed", "ending"} /\ ~Manned(j)'
  BY <1>2, Unmanned DEF Broken, NoCredential, LaunchFails, HeartbeatBreaks, Kill
<1> QED
  BY <1>0, <1>1, <1>3, OwnLane

LEMMA OtherLanes ==
  ASSUME Types, LaneInv, NEW j \in Jobs, Heartbeat(j) \/ AgentExits(j) \/ GoesStale(j)
  PROVE  LaneInv'
<1>0. \A i \in Jobs \ {j} : job'[i] = job[i] /\ sup'[i] = sup[i]
  BY OthersAlone
<1>1. Manned(j) => job[j].state \in ACTIVE_STATES /\ job[j].fresh
  BY DEF LaneInv, MannedIsActive
<1>2. job[j].state = "cancelling" => sup[j].at \notin {"waiting", "preparing", "visible"}
  BY DEF LaneInv, CancelledAtWork
<1>3. CASE Heartbeat(j)
  <2>1. /\ sup' = sup
        /\ job'[j].state = "running" /\ job'[j].fresh /\ job'[j].dir = job[j].dir
        /\ job'[j].known = job[j].known
    BY <1>3 DEF Heartbeat, Types, Documents
  <2>2. Manned(j)' => Manned(j)
    BY <2>1 DEF Manned
  <2> QED
    BY <1>0, <2>1, <2>2, OwnLane DEF ACTIVE_STATES
<1>4. CASE AgentExits(j)
  <2>1. sup' = sup /\ job' = job
    BY <1>4 DEF AgentExits
  <2>2. Manned(j)' => Manned(j)
    BY <2>1 DEF Manned
  <2> QED
    BY <1>0, <1>1, <1>2, <2>1, <2>2, OwnLane
<1>5. CASE GoesStale(j)
  <2>1. job'[j].dir = job[j].dir /\ job'[j].state = job[j].state
    BY <1>5 DEF GoesStale, Types, Documents
  <2>2. \/ sup'[j].late /\ sup'[j].at = sup[j].at
        \/ sup' = sup /\ ~Exists(j)
    BY <1>5 DEF GoesStale, Types, Deciding, Supervisors
  <2>3. ~Manned(j)'
    BY <2>2 DEF Manned, Exists
  <2>4. sup'[j].at = sup[j].at
    BY <2>2
  <2> QED
    BY <1>0, <1>2, <2>1, <2>3, <2>4, OwnLane
<1> QED
  BY <1>3, <1>4, <1>5

LEMMA StepLanes == Types /\ LaneInv /\ [Next]_vars => LaneInv'
<1> SUFFICES ASSUME Types, LaneInv, [Next]_vars PROVE LaneInv'
  OBVIOUS
<1>1. CASE UNCHANGED vars
  BY <1>1 DEF vars, LaneInv, MannedIsActive, MannedApart, MannedCapped, MannedJobs, Manned,
              CancelledAtWork
<1>2. CASE Next
  BY <1>2, LookLanes, CallsLanes, SupervisorLanes, BrokenLanes, OtherLanes DEF Next
<1> QED
  BY <1>1, <1>2

LEMMA LanesInvariant == Spec => [](Types /\ LaneInv)
<1>1. Init => Types /\ LaneInv
  BY InitTypes, InitLanes
<1>2. Types /\ LaneInv /\ [Next]_vars => (Types /\ LaneInv)'
  BY StepTypes, StepLanes
<1> QED
  BY <1>1, <1>2, PTL DEF Spec

-----------------------------------------------------------------------------
(* Results                                                                 *)

\* Job documents, supervisors and agents stay what AgentDispatch says they are.
THEOREM DispatchTypes == Spec => []TypeOK
<1>1. Types => TypeOK
  BY DEF Types, Deciding, TypeOK
<1> QED
  BY <1>1, LanesInvariant, PTL

\* _start: two tended agents never share a working directory.
THEOREM TendedLanesApart == Spec => []LanesApart
<1>1. LaneInv => LanesApart
  BY DEF LaneInv, MannedApart, Manned, LanesApart, Tended
<1> QED
  BY <1>1, LanesInvariant, PTL

\* _start: there are never more tended agents than the callers allow.
THEOREM TendedLanesCapped == Spec => []LanesCapped
<1>1. LaneInv => LanesCapped
  <2> SUFFICES ASSUME LaneInv PROVE LanesCapped
    OBVIOUS
  <2> DEFINE tended == {j \in Jobs : Tended(j)}
  <2>1. tended \subseteq MannedJobs /\ MannedJobs \subseteq Jobs
    BY DEF MannedJobs, Manned, Tended
  <2>2. Cardinality(tended) <= Cardinality(MannedJobs)
    BY <2>1, MannedFinite, FS_Subset
  <2>3. Cardinality(MannedJobs) <= MaxConcurrency
    BY DEF LaneInv, MannedCapped
  <2>4. Cardinality(tended) \in Nat /\ Cardinality(MannedJobs) \in Nat
    BY <2>1, MannedFinite
  <2>5. Cardinality(tended) <= MaxConcurrency
    <3> HIDE DEF tended
    <3> QED
      BY <2>2, <2>3, <2>4, DispatchAssumption
  <2> QED
    BY <2>5 DEF LanesCapped
<1> QED
  BY <1>1, LanesInvariant, PTL

\* _cancel, _heartbeat and the supervisor's last write: a cancellation that was
\* accepted is not overwritten.
THEOREM CancellationStands == Spec => CancelStands
<1> DEFINE Stands ==
      \A j \in Jobs : job[j].state = "cancelling" =>
                       job'[j].state \in {"cancelling", "cancelled", "orphaned"}
<1>1. Types /\ LaneInv /\ [Next]_vars => [Stands]_vars
  <2> SUFFICES ASSUME Types, LaneInv, Next PROVE Stands
    BY DEF vars
  <2> SUFFICES ASSUME NEW j \in Jobs, job[j].state = "cancelling"
               PROVE  job'[j].state \in {"cancelling", "cancelled", "orphaned"}
    OBVIOUS
  <2>0. sup[j].at \notin {"waiting", "preparing", "visible"}
    BY DEF LaneInv, CancelledAtWork
  <2>1. ASSUME NEW looked, NEW sees \in BOOLEAN
        PROVE  Reconciled(looked, sees)[j].state \in {"cancelling", "orphaned"}
    BY ReconciledTypes DEF Types, TypeOK, Deciding
  <2>2. ASSUME NEW looked, NEW sees \in BOOLEAN, Look(looked, sees)
        PROVE  job'[j].state \in {"cancelling", "orphaned"}
    BY <2>1, <2>2 DEF Look
  <2>3. ASSUME NEW i \in Jobs, NEW d \in Dirs, NEW sees \in BOOLEAN, NEW document,
               Creates(i, d, sees, document)
        PROVE  job'[j].state \in {"cancelling", "orphaned"}
    <3>1. i # j
      BY <2>3 DEF Creates
    <3>2. job'[j] = Reconciled(Jobs, sees)[j]
      BY <2>3, <3>1 DEF Creates, Reconciled
    <3> QED
      BY <2>1, <3>2
  <2>4. ASSUME NEW i \in Jobs, Cancel(i)
        PROVE  job'[j].state = "cancelling"
    BY <2>4 DEF Cancel, Recorded, Types, Documents
  <2>5. ASSUME NEW i \in Jobs, Calls(i)
        PROVE  job'[j].state \in {"cancelling", "orphaned"}
    BY <2>3, <2>4, <2>5 DEF Calls, Start, StartFails, StartBreaksOff
  <2>6. ASSUME NEW i \in Jobs, i # j,
               Supervisor(i) \/ Broken(i) \/ Heartbeat(i) \/ AgentExits(i) \/ GoesStale(i)
        PROVE  job'[j].state = "cancelling"
    BY <2>6, OthersAlone
  <2>7. CASE Supervisor(j)
    BY <2>0, <2>7 DEF Supervisor, Identified, GivesUp, ShowsRunning, Launch, Requested,
                      RunsOut, SeesExit, Finish, Recorded, Types, Documents
  <2>8. CASE Broken(j)
    BY <2>0, <2>8 DEF Broken, NoCredential, LaunchFails, HeartbeatBreaks, Kill
  <2>9. CASE Heartbeat(j) \/ AgentExits(j) \/ GoesStale(j)
    BY <2>9 DEF Heartbeat, AgentExits, GoesStale, Types, Documents
  <2> QED
    BY <2>2, <2>5, <2>6, <2>7, <2>8, <2>9 DEF Next
<1>2. Spec => [][Stands]_vars
  BY <1>1, LanesInvariant, PTL DEF Spec
<1> QED
  BY <1>2 DEF CancelStands
=============================================================================
