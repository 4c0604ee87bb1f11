---------------------------- MODULE AgentDispatch ----------------------------
(***************************************************************************)
(* Ad hoc agent lanes, src/foxhound/agent_dispatch.py and ADR 0060: jobs   *)
(* with a working directory each, recorded in one state file per job under *)
(* one lock, a supervisor process per job and the agent it starts.         *)
(*                                                                         *)
(* A call holds the lock from its first read to its last write and is one  *)
(* action; the supervisor takes it for its heartbeat and its last write    *)
(* only.  A caller may run in a namespace that cannot see the supervisors: *)
(* it goes by the heartbeat.                                               *)
(***************************************************************************)
EXTENDS Integers, FiniteSets

CONSTANTS
    Jobs,           \* bound: jobs ever created, 1..n
    Dirs,           \* working directories, resolved
    MaxConcurrency, \* what every caller passes as --max-concurrency
    MaxFaults       \* bound: kills, stalls, failed writes and spawns

ASSUME DispatchAssumption ==
    /\ Jobs \subseteq Nat \ {0} /\ IsFiniteSet(Jobs)
    /\ MaxConcurrency \in Nat \ {0}
    /\ MaxFaults \in Nat

VARIABLES
    job,            \* each job's state.json
    sup,            \* each job's supervisor process
    agent,          \* each job's agent process
    faults          \* faults left

vars == <<job, sup, agent, faults>>

ACTIVE_STATES   == {"starting", "running", "cancelling"}
TERMINAL_STATES == {"completed", "failed", "cancelled", "timed_out", "orphaned",
                    "stalled_no_edit"}

(* known: the supervisor's identity is recorded; fresh: heartbeat_at, or    *)
(* created_at before the first, is at most HEARTBEAT_STALE_SECONDS old.     *)
Documents == [state : {"absent"} \cup ACTIVE_STATES \cup TERMINAL_STATES,
              dir : Dirs \cup {"none"}, known : BOOLEAN, fresh : BOOLEAN]

(* term: a SIGTERM has reached the handler; why: what the supervisor has    *)
(* ended the agent for; end: what it is about to record; late: it has once  *)
(* been held up past a heartbeat while it had the agent.                    *)
Supervisors == [at : {"none", "waiting", "preparing", "visible", "watching",
                      "ending", "gone", "killed"},
                term : BOOLEAN,
                why : {"none", "cancelled", "timed_out", "stalled_no_edit"},
                end : {"none"} \cup TERMINAL_STATES,
                late : BOOLEAN]

NoSupervisor == [at |-> "none", term |-> FALSE, why |-> "none", end |-> "none",
                 late |-> FALSE]

Init ==
    /\ job \in [Jobs -> [state : {"absent"}, dir : {"none"},
                         known : {FALSE}, fresh : {FALSE}]]
    /\ sup = [j \in Jobs |-> NoSupervisor]
    /\ agent = [j \in Jobs |-> "none"]
    /\ faults = MaxFaults

Fault == faults > 0 /\ faults' = faults - 1

At(j, w) == sup' = [sup EXCEPT ![j].at = w]
Over(j, w) == sup' = [sup EXCEPT ![j] = [NoSupervisor EXCEPT !.at = w]]
Ends(j, outcome) == sup' = [sup EXCEPT ![j].at = "ending", ![j].end = outcome]
Recorded(j, s) == job' = [job EXCEPT ![j].state = s]

-----------------------------------------------------------------------------
(* Callers: start, status, wait, cancel                                    *)

Exists(j) == sup[j].at \notin {"none", "gone", "killed"}

\* _live, for a caller that sees the supervisors' namespace or does not.
Live(j, sees) == sees /\ job[j].known /\ Exists(j)

\* What would go wrong: a supervisor out of sight does not count.
ActiveInSight(j, sees) == job[j].state \in ACTIVE_STATES /\ Live(j, sees)

\* What would go wrong: a job without a supervisor yet is waited for.
ActiveUnknown(j, sees) ==
    /\ job[j].state \in ACTIVE_STATES
    /\ ~job[j].known \/ Live(j, sees) \/ job[j].fresh

Active(j, sees) ==
    /\ job[j].state \in ACTIVE_STATES
    /\ Live(j, sees) \/ job[j].fresh

\* _reconcile, of the jobs a call looks at.
Reconciled(looked, sees) ==
    [j \in Jobs |->
       IF /\ j \in looked
          /\ job[j].state \in ACTIVE_STATES
          /\ ~Active(j, sees)
       THEN [job[j] EXCEPT !.state = "orphaned"]
       ELSE job[j]]

\* status, each turn of wait, a start that is refused.
Look(looked, sees) ==
    /\ job' = Reconciled(looked, sees)
    /\ job' # job
    /\ UNCHANGED <<sup, agent, faults>>

\* The lock is taken, and the new lane fits beside those that are active.
Admits(d, sees) ==
    LET active == {i \in Jobs : Active(i, sees)}
    IN /\ Cardinality(active) < MaxConcurrency
       /\ \A i \in active : job[i].dir # d

NewJob(s, d, known) == [state |-> s, dir |-> d, known |-> known, fresh |-> TRUE]

Creates(j, d, sees, document) ==
    /\ job[j].state = "absent"
    /\ \A i \in Jobs : job[i].state = "absent" => i >= j
    /\ Admits(d, sees)
    /\ job' = [Reconciled(Jobs, sees) EXCEPT ![j] = document]
    /\ UNCHANGED agent

Start(j, d, sees) ==
    /\ Creates(j, d, sees, NewJob("starting", d, TRUE))
    /\ At(j, "waiting")
    /\ UNCHANGED faults

\* The supervisor cannot be spawned ...
StartFails(j, d, sees) ==
    /\ Fault
    /\ Creates(j, d, sees, NewJob("failed", d, FALSE))
    /\ UNCHANGED sup

\* ... or its identity is not seen in time, or the caller dies on the way: the
\* job stays as it was first written, with a supervisor or without.
StartBreaksOff(j, d, sees) ==
    /\ Fault
    /\ Creates(j, d, sees, NewJob("starting", d, FALSE))
    /\ \/ At(j, "waiting") \/ Over(j, "gone")

\* The signal finds a handler only while the supervisor watches; before and
\* after, it ends the supervisor.
Cancel(j) ==
    /\ Live(j, TRUE) /\ job[j].state \in ACTIVE_STATES \ {"starting"}
    /\ Recorded(j, "cancelling")
    /\ sup' = [sup EXCEPT ![j] = IF @.at = "watching"
                                 THEN [@ EXCEPT !.term = TRUE]
                                 ELSE [NoSupervisor EXCEPT !.at = "killed"]]
    /\ UNCHANGED <<agent, faults>>

-----------------------------------------------------------------------------
(* The supervisor: _run                                                    *)

Identified(j) ==
    /\ sup[j].at = "waiting"
    /\ job[j].state = "starting" /\ job[j].known
    /\ At(j, "preparing")
    /\ UNCHANGED <<job, agent, faults>>

\* It is not the one recorded, not yet, or not any more.
GivesUp(j) ==
    /\ sup[j].at = "waiting"
    /\ IF job[j].state = "starting" /\ job[j].known THEN Fault ELSE UNCHANGED faults
    /\ Over(j, "gone")
    /\ UNCHANGED <<job, agent>>

NoCredential(j) ==
    /\ Fault
    /\ sup[j].at = "preparing"
    /\ Recorded(j, "failed")
    /\ Over(j, "gone")
    /\ UNCHANGED agent

\* Written without the lock, from the document it read.
ShowsRunning(j) ==
    /\ sup[j].at = "preparing"
    /\ job' = [job EXCEPT ![j].state = "running", ![j].fresh = TRUE]
    /\ At(j, "visible")
    /\ UNCHANGED <<agent, faults>>

Launch(j) ==
    /\ sup[j].at = "visible"
    /\ agent' = [agent EXCEPT ![j] = "alive"]
    /\ At(j, "watching")
    /\ UNCHANGED <<job, faults>>

LaunchFails(j) ==
    /\ Fault
    /\ sup[j].at = "visible"
    /\ Ends(j, "failed")
    /\ UNCHANGED <<job, agent>>

\* A job taken for orphaned is running after all; one being cancelled is left.
Heartbeat(j) ==
    /\ sup[j].at = "watching"
    /\ job[j].state \in {"running", "orphaned"}
    /\ job' = [job EXCEPT ![j].state = "running", ![j].fresh = TRUE]
    /\ UNCHANGED <<sup, agent, faults>>

\* The state file cannot be written: the loop is left, the agent is not ended.
HeartbeatBreaks(j) ==
    /\ Fault
    /\ sup[j].at = "watching"
    /\ Ends(j, "failed")
    /\ UNCHANGED <<job, agent>>

Requested(j) ==
    /\ sup[j].at = "watching" /\ sup[j].why = "none"
    /\ sup[j].term
    /\ sup' = [sup EXCEPT ![j].why = "cancelled"]
    /\ UNCHANGED <<job, agent, faults>>

\* Its time is up, or it has made its tool calls and no edit.
RunsOut(j) ==
    /\ sup[j].at = "watching" /\ sup[j].why = "none"
    /\ ~sup[j].term
    /\ \E why \in {"timed_out", "stalled_no_edit"} :
         sup' = [sup EXCEPT ![j].why = why]
    /\ UNCHANGED <<job, agent, faults>>

\* The agent is over, of itself, at the SIGTERM, or ten seconds later.
SeesExit(j) ==
    /\ sup[j].at = "watching"
    /\ agent[j] = "gone" \/ sup[j].why # "none"
    /\ agent' = [agent EXCEPT ![j] = "gone"]
    /\ IF sup[j].why # "none" THEN Ends(j, sup[j].why)
       ELSE \E outcome \in {"completed", "failed"} : Ends(j, outcome)
    /\ UNCHANGED <<job, faults>>

\* The last write; a cancellation that was accepted stands.
Finish(j) ==
    /\ sup[j].at = "ending"
    /\ Recorded(j, IF job[j].state = "cancelling" THEN "cancelled" ELSE sup[j].end)
    /\ Over(j, "gone")
    /\ UNCHANGED <<agent, faults>>

-----------------------------------------------------------------------------
(* What befalls them                                                       *)

AgentExits(j) ==
    /\ agent[j] = "alive"
    /\ agent' = [agent EXCEPT ![j] = "gone"]
    /\ UNCHANGED <<job, sup, faults>>

Kill(j) ==
    /\ Fault
    /\ Exists(j)
    /\ Over(j, "killed")
    /\ UNCHANGED <<job, agent>>

\* No call reads the heartbeat of a job that is not active.
\* Thirty seconds without a heartbeat: nobody is there to write it, or the
\* supervisor is held up by more than its probes may take.
GoesStale(j) ==
    /\ job[j].state \in ACTIVE_STATES /\ job[j].fresh
    /\ IF Exists(j)
       THEN Fault /\ sup' = [sup EXCEPT ![j].late = TRUE]
       ELSE UNCHANGED <<sup, faults>>
    /\ job' = [job EXCEPT ![j].fresh = FALSE]
    /\ UNCHANGED agent

Calls(j) == \/ \E d \in Dirs, sees \in BOOLEAN :
                 Start(j, d, sees) \/ StartFails(j, d, sees) \/ StartBreaksOff(j, d, sees)
            \/ Cancel(j)

Supervisor(j) == \/ Identified(j) \/ GivesUp(j) \/ ShowsRunning(j) \/ Launch(j)
                 \/ Requested(j) \/ RunsOut(j) \/ SeesExit(j) \/ Finish(j)

Broken(j) == NoCredential(j) \/ LaunchFails(j) \/ HeartbeatBreaks(j) \/ Kill(j)

Next == \/ \E sees \in BOOLEAN : \/ Look(Jobs, sees)
                                 \/ \E j \in Jobs : Look({j}, sees)
        \/ \E j \in Jobs : \/ Calls(j) \/ Supervisor(j) \/ Broken(j)
                           \/ Heartbeat(j) \/ AgentExits(j) \/ GoesStale(j)

Spec == Init /\ [][Next]_vars

\* Supervisors run until they die, deadlines pass, a dead supervisor's heartbeat
\* ages, and somebody waits for the job.
Fairness ==
    \A j \in Jobs : /\ WF_vars(Supervisor(j))
                    /\ WF_vars(GoesStale(j) /\ ~Exists(j))
                    /\ WF_vars(Look({j}, FALSE))

FairSpec == Spec /\ Fairness

-----------------------------------------------------------------------------
(* What must hold                                                          *)

TypeOK ==
    /\ job \in [Jobs -> Documents]
    /\ sup \in [Jobs -> Supervisors]
    /\ agent \in [Jobs -> {"none", "alive", "gone"}]
    /\ faults \in 0..MaxFaults

\* Under the eyes of a supervisor that has never missed a heartbeat.
Tended(j) == /\ agent[j] = "alive"
             /\ sup[j].at = "watching" /\ ~sup[j].late

\* Two agents never work in one directory, whatever namespace the callers run
\* in, unless the supervisor of one of them died, broke down or was held up.
LanesApart ==
    \A i, j \in Jobs : i # j /\ Tended(i) /\ Tended(j) => job[i].dir # job[j].dir

\* Nor do more agents run than the callers allow.
LanesCapped == Cardinality({j \in Jobs : Tended(j)}) <= MaxConcurrency

\* A cancellation that was accepted is what the job ends as, even if the agent
\* finishes or runs out of time first; otherwise its supervisor is lost.
CancelStands ==
    [][\A j \in Jobs :
         job[j].state = "cancelling" =>
           job'[j].state \in {"cancelling", "cancelled", "orphaned"}]_vars

\* Whoever waits for a job is answered.
LanesEnd ==
    \A j \in Jobs : job[j].state \in ACTIVE_STATES ~> job[j].state \in TERMINAL_STATES
=============================================================================
