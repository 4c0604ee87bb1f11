--------------------------- MODULE AgentRunsProofs ---------------------------
(***************************************************************************)
(* What holds of every run of a task, for any number of runs, slots and    *)
(* faults.                                                                 *)
(*                                                                         *)
(* The argument is about the ledger first.  Whatever the supervisors and   *)
(* agents do, the ledger takes one of six steps (LedgerStep), none of      *)
(* which touches a claim that is over; so what was true of a settled run   *)
(* stays true (Onward).  Every property then rests on who may still act    *)
(* for a run: the agent with a live claim, or one whose last command had   *)
(* read the run state before the claim went.                               *)
(***************************************************************************)
EXTENDS AgentRuns, FiniteSetTheorems, TLAPS

-----------------------------------------------------------------------------
(* What the properties need of each other to hold after every step         *)

Settled(k) == fate[k] \notin {"unissued", "live"}

\* The variables TypeOK leaves out.
RestTyped ==
    /\ cmd \in [Runs -> [step : {"idle", "checked", "landed"},
                         kind : ReceiptKinds \cup {"none", "outbound-mail"}]]
    /\ forge \subseteq [run : Runs, kind : ReceiptKinds]
    /\ late \in [Runs -> 0..1]
    /\ faults \in Nat

\* A claim is live while, and only while, the row is worked under it.
ClaimIsRows ==
    /\ row.claim # None <=> row.status = "running"
    /\ row.expired => row.claim # None
    /\ \A k \in Runs : fate[k] = "live" <=> row.claim = k

AnswersAreRecorded ==
    \A k \in Runs : results[k] # NoResult <=> fate[k] = "recorded"

\* Nothing of a run exists before its claim does.
RunsFollowClaims ==
    \A k \in Runs :
      /\ sup[k].at = "none" => agent[k].at = "gone" /\ state[k] = "none"
      /\ fate[k] = "unissued" => sup[k].at = "none"
      /\ cmd[k] # Idle => agent[k].at = "alive"

\* Where a supervisor has seen to it that the agent is over.
AgentIsOver ==
    \A k \in Runs :
      /\ sup[k].at \in {"starting", "anchored", "settling", "rereading"}
           => agent[k].at = "gone"
      /\ report[k] # "none" => sup[k].at \in {"closing", "killed"}

\* A write that lands late is the one that was begun in time.
LateIsLast ==
    \A k \in Runs : late[k] = 1 => Settled(k) /\ cmd[k].step # "checked"

ReceiptsLanded ==
    \A k \in Runs :
      /\ \A kind \in receipts[k] : [run |-> k, kind |-> kind] \in forge
      /\ cmd[k].step = "landed" /\ cmd[k].kind \in ReceiptKinds
           => [run |-> k, kind |-> cmd[k].kind] \in forge

\* A text its run wrote under its claim counts for no other run that may record.
TextsAreFenced ==
    folder.held => \A k \in folder.since \ {folder.by} : Settled(k)

RunsInv ==
    /\ TypeOK /\ RestTyped
    /\ ClaimIsRows /\ AnswersAreRecorded /\ RunsFollowClaims /\ AgentIsOver
    /\ LateIsLast /\ ReceiptsLanded /\ TextsAreFenced
    /\ ResultIsOwn /\ CompletionIsVisible /\ ReportIsTrue

-----------------------------------------------------------------------------
(* The ledger's steps                                                      *)

TimeRunsOut ==
    /\ row.claim # None
    /\ row' = [row EXCEPT !.expired = TRUE]
    /\ UNCHANGED <<fate, results>>

IdleRowMoves ==
    /\ row.claim = None
    /\ \E s \in Statuses \ {"running"}, p \in Phases :
         row' = [row EXCEPT !.status = s, !.phase = p]
    /\ UNCHANGED <<fate, results>>

ClaimGoes ==
    /\ row.claim # None
    /\ \E s \in Statuses \ {"running"},
          f \in {"released", "failed", "expired", "cancelled"} : Ends(s, f)
    /\ UNCHANGED results

Granted ==
    /\ row.claim = None /\ Slots # {}
    /\ \E k \in Runs :
         /\ fate[k] = "unissued"
         /\ row' = [row EXCEPT !.status = "running", !.claim = k]
         /\ fate' = [fate EXCEPT ![k] = "live"]
    /\ UNCHANGED results

\* A run that holds its claim records what it found, and owes nothing then.
Answered ==
    \E k \in Runs, outcome \in Outcomes, cites \in SUBSET Owed :
      /\ Accepts(k)
      /\ Found(k) # Nobody
      /\ outcome = "published" => Owed \subseteq receipts[k] \cup cites
      /\ Records(k, Drafted(k, outcome, cites))

LedgerMoves == \/ UNCHANGED ledgerVars
               \/ TimeRunsOut \/ IdleRowMoves \/ ClaimGoes \/ Granted \/ Answered

LEMMA FailsMoves ==
    ASSUME NEW k \in Runs, FailsIfHeld(k)
    PROVE  LedgerMoves
<1>1. CASE Accepts(k)
  <2>1. Fails(k)
    BY <1>1 DEF FailsIfHeld
  <2>2. row.claim # None
    BY <1>1, AgentRunsAssumption DEF Accepts, None
  <2>3. ClaimGoes
    BY <2>1, <2>2 DEF Fails, ClaimGoes, Statuses
  <2> QED BY <2>3 DEF LedgerMoves
<1>2. CASE ~Accepts(k)
  BY <1>2 DEF FailsIfHeld, LedgerMoves
<1> QED BY <1>1, <1>2

\* Whatever the supervisors and the agents do, the ledger takes one of its own
\* steps.
LEMMA LedgerStep ==
    ASSUME TypeOK, ClaimIsRows, Next
    PROVE  LedgerMoves
<1>0. None \notin Runs
  BY AgentRunsAssumption DEF None
<1>1. CASE Expires
  <2>1. TimeRunsOut
    BY <1>1 DEF Expires, TimeRunsOut, ClaimIsRows
  <2> QED BY <2>1 DEF LedgerMoves
<1>2. CASE RecoverExpired
  <2>1. ClaimGoes
    BY <1>2 DEF RecoverExpired, ClaimGoes, ClaimIsRows, Statuses
  <2> QED BY <2>1 DEF LedgerMoves
<1>3. CASE RowMoves
  <2>1. CASE /\ row.status # "running"
             /\ \E s \in {"queued", "completed", "cancelled"} \ {row.status}, p \in Phases :
                  row' = [row EXCEPT !.status = s, !.phase = p]
             /\ UNCHANGED fate
    <3>1. IdleRowMoves
      BY <1>3, <2>1 DEF RowMoves, IdleRowMoves, ClaimIsRows, Statuses
    <3> QED BY <3>1 DEF LedgerMoves
  <2>2. CASE row.status = "running" /\ Ends("cancelled", "cancelled")
    <3>1. ClaimGoes
      BY <1>3, <2>2 DEF RowMoves, ClaimGoes, ClaimIsRows, Statuses
    <3> QED BY <3>1 DEF LedgerMoves
  <2> QED BY <1>3, <2>1, <2>2 DEF RowMoves
<1>4. ASSUME NEW k \in Runs, NEW s \in Slots, Start(s, k)
      PROVE  LedgerMoves
  <2>1. Granted
    BY <1>4 DEF Start, Granted, ClaimIsRows
  <2> QED BY <2>1 DEF LedgerMoves
<1>5. ASSUME NEW k \in Runs, Supervisor(k)
      PROVE  LedgerMoves
  <2>1. CASE Settle(k)
    <3>1. FailsIfHeld(k) \/ UNCHANGED ledgerVars
      BY <2>1 DEF Settle
    <3> QED BY <3>1, FailsMoves DEF LedgerMoves
  <2>2. CASE ~Settle(k)
    <3>1. UNCHANGED ledgerVars
      BY <1>5, <2>2 DEF Supervisor, WriteState, Launch, SeeTerminal, RenewalRefused,
         SeeExit, TimesOut, Terminate, Reread, Close
    <3> QED BY <3>1 DEF LedgerMoves
  <2> QED BY <2>1, <2>2
<1>6. ASSUME NEW k \in Runs, Broken(k)
      PROVE  LedgerMoves
  <2>1. FailsIfHeld(k) \/ UNCHANGED ledgerVars
    BY <1>6 DEF Broken, StartFails, RenewalBreaks, Interrupted, SwallowsSignal, Kill
  <2> QED BY <2>1, FailsMoves DEF LedgerMoves
<1>7. ASSUME NEW k \in Runs, Agent(k)
      PROVE  LedgerMoves
  <2>1. CASE RecordOutcome(k)
    <3>1. PICK outcome \in Outcomes, impact \in BOOLEAN, cites \in SUBSET Owed :
               /\ Shows(k, outcome, impact, cites)
               /\ Records(k, Drafted(k, outcome, cites))
      BY <2>1 DEF RecordOutcome
    <3>2. outcome = "published" => Owed \subseteq receipts[k] \cup cites
      BY <3>1 DEF Shows
    <3>3. Accepts(k) /\ Found(k) # Nobody
      BY <2>1 DEF RecordOutcome, Active
    <3>4. Answered
      BY <3>1, <3>2, <3>3 DEF Answered
    <3> QED BY <3>4 DEF LedgerMoves
  <2>2. CASE Release(k)
    <3>1. ClaimGoes
      BY <1>0, <2>2 DEF Release, Active, Accepts, ClaimGoes, Statuses
    <3> QED BY <3>1 DEF LedgerMoves
  <2>3. CASE Handoff(k)
    <3>1. FailsIfHeld(k)
      BY <2>3 DEF Handoff, Active, FailsIfHeld
    <3> QED BY <3>1, FailsMoves
  <2>4. CASE Writes(k) \/ Act(k) \/ Effect(k) \/ AgentExits(k)
    <3>1. UNCHANGED ledgerVars
      BY <2>4 DEF Writes, Act, Effect, AgentExits, ActReview, ActComment, ActPullRequest,
         ActIssue, ActMail, BeginAct, PostsReview, PostsComment, OpensPullRequest,
         OpensIssue, SendsMail, Lands, Refused, KeepsReceipt
    <3> QED BY <3>1 DEF LedgerMoves
  <2> QED BY <1>7, <2>1, <2>2, <2>3, <2>4 DEF Agent
<1> QED BY <1>1, <1>2, <1>3, <1>4, <1>5, <1>6, <1>7 DEF Next

-----------------------------------------------------------------------------
(* What the ledger's steps keep                                            *)

LedgerTyped ==
    /\ row \in RowStates
    /\ fate \in [Runs -> Fates]
    /\ results \in [Runs -> Results \cup {NoResult}]

\* What was over stays as it was.
Onward ==
    /\ row'.origin = row.origin
    /\ \A k \in Runs :
         /\ fate[k] # "unissued" => fate'[k] # "unissued"
         /\ Settled(k) => fate'[k] = fate[k]
         /\ results[k] # NoResult => results'[k] = results[k]

LEMMA DraftIsResult ==
    ASSUME TypeOK, NEW k \in Runs, Found(k) # Nobody,
           NEW outcome \in Outcomes, NEW cites \in SUBSET Owed
    PROVE  Drafted(k, outcome, cites) \in Results \ {NoResult}
<1>1. Found(k).by \in Runs /\ Found(k).held \in BOOLEAN
  BY DEF TypeOK, Texts, Found, Mine
<1>2. cites \in SUBSET ReceiptKinds
  BY DEF Owed, ReceiptKinds
<1>3. Drafted(k, outcome, cites) \in Results
  BY <1>1, <1>2 DEF Drafted, Results
<1>4. Drafted(k, outcome, cites) # NoResult
  BY DEF Drafted, NoResult, Outcomes
<1> QED BY <1>3, <1>4

\* The part of the invariant that speaks of the ledger alone.
LedgerInv == LedgerTyped /\ ClaimIsRows /\ AnswersAreRecorded

LEMMA LedgerKeeps ==
    ASSUME TypeOK, LedgerInv, LedgerMoves
    PROVE  LedgerInv' /\ Onward
<1> USE DEF LedgerInv, LedgerTyped
<1>0. None \notin Runs
  BY AgentRunsAssumption DEF None
<1>1. CASE UNCHANGED ledgerVars
  BY <1>1 DEF ledgerVars, ClaimIsRows, AnswersAreRecorded, Onward
<1>2. CASE TimeRunsOut
  <2>1. row' \in RowStates
    BY <1>2 DEF TimeRunsOut, RowStates
  <2>2. /\ row'.status = row.status /\ row'.claim = row.claim
        /\ row'.origin = row.origin
    BY <1>2 DEF TimeRunsOut, RowStates
  <2> QED BY <1>2, <2>1, <2>2 DEF TimeRunsOut, ClaimIsRows, AnswersAreRecorded, Onward
<1>3. CASE IdleRowMoves
  <2>1. PICK s \in Statuses \ {"running"}, p \in Phases :
          row' = [row EXCEPT !.status = s, !.phase = p]
    BY <1>3 DEF IdleRowMoves
  <2>2. row' \in RowStates
    BY <2>1 DEF RowStates
  <2>3. /\ row'.status = s /\ row'.claim = row.claim
        /\ row'.origin = row.origin /\ row'.expired = row.expired
    BY <2>1 DEF RowStates
  <2> QED BY <1>3, <2>2, <2>3 DEF IdleRowMoves, ClaimIsRows, AnswersAreRecorded, Onward
<1>4. CASE ClaimGoes
  <2>1. PICK s \in Statuses \ {"running"},
             f \in {"released", "failed", "expired", "cancelled"} : Ends(s, f)
    BY <1>4 DEF ClaimGoes
  <2>2. row' \in RowStates
    BY <2>1 DEF Ends, RowStates
  <2>3. /\ row'.status = s /\ row'.claim = None
        /\ row'.origin = row.origin /\ row'.expired = FALSE
    BY <2>1 DEF RowStates, Ends
  <2>4. row.claim \in Runs /\ fate[row.claim] = "live"
    BY <1>4 DEF ClaimGoes, ClaimIsRows, RowStates
  <2>5. /\ fate' \in [Runs -> Fates]
        /\ \A k \in Runs : fate'[k] = IF k = row.claim THEN f ELSE fate[k]
    BY <2>1, <2>4 DEF Ends, Fates
  <2>6. UNCHANGED results
    BY <1>4 DEF ClaimGoes
  <2>7. ClaimIsRows'
    BY <1>0, <2>3, <2>4, <2>5 DEF ClaimIsRows
  <2>8. AnswersAreRecorded' /\ Onward
    BY <2>3, <2>4, <2>5, <2>6 DEF AnswersAreRecorded, Onward, Settled
  <2> QED BY <2>2, <2>5, <2>6, <2>7, <2>8
<1>5. CASE Granted
  <2>1. PICK k \in Runs :
          /\ fate[k] = "unissued"
          /\ row' = [row EXCEPT !.status = "running", !.claim = k]
          /\ fate' = [fate EXCEPT ![k] = "live"]
    BY <1>5 DEF Granted
  <2>2. row' \in RowStates
    BY <2>1 DEF RowStates, Statuses
  <2>3. /\ row'.status = "running" /\ row'.claim = k
        /\ row'.origin = row.origin /\ row'.expired = row.expired
    BY <2>1 DEF RowStates
  <2>4. /\ fate' \in [Runs -> Fates]
        /\ \A j \in Runs : fate'[j] = IF j = k THEN "live" ELSE fate[j]
    BY <2>1 DEF Fates
  <2>5. UNCHANGED results /\ row.claim = None
    BY <1>5 DEF Granted
  <2>6. ClaimIsRows'
    BY <1>0, <2>1, <2>3, <2>4, <2>5 DEF ClaimIsRows
  <2>7. AnswersAreRecorded' /\ Onward
    BY <2>1, <2>3, <2>4, <2>5 DEF AnswersAreRecorded, Onward, Settled
  <2> QED BY <2>2, <2>4, <2>5, <2>6, <2>7
<1>6. CASE Answered
  <2>1. PICK k \in Runs, outcome \in Outcomes, cites \in SUBSET Owed :
          /\ Accepts(k)
          /\ Found(k) # Nobody
          /\ Records(k, Drafted(k, outcome, cites))
    BY <1>6 DEF Answered
  <2> DEFINE r == Drafted(k, outcome, cites)
  <2>2. r \in Results \ {NoResult}
    BY <2>1, DraftIsResult
  <2> HIDE DEF r
  <2>3. PICK s \in {"awaiting_review", "queued"} :
          row' = [row EXCEPT !.status = s, !.claim = None, !.result = k]
    BY <2>1 DEF Records
  <2>4. row' \in RowStates
    BY <2>3 DEF RowStates, Statuses
  <2>5. /\ row'.status = s /\ row'.claim = None
        /\ row'.origin = row.origin /\ row'.expired = FALSE
    BY <2>1, <2>3 DEF RowStates, Accepts
  <2>6. fate[k] = "live"
    BY <2>1 DEF Accepts, ClaimIsRows
  <2>7. /\ fate' \in [Runs -> Fates]
        /\ \A j \in Runs : fate'[j] = IF j = k THEN "recorded" ELSE fate[j]
    BY <2>1 DEF Records, Fates
  <2>8. results' = [results EXCEPT ![k] = r]
    BY <2>1 DEF Records, r
  <2>9. /\ results' \in [Runs -> Results \cup {NoResult}]
        /\ \A j \in Runs : results'[j] = IF j = k THEN r ELSE results[j]
    BY <2>2, <2>8
  <2>10. ClaimIsRows'
    BY <1>0, <2>1, <2>5, <2>6, <2>7 DEF ClaimIsRows, Accepts
  <2>11. AnswersAreRecorded' /\ Onward
    BY <2>2, <2>5, <2>6, <2>7, <2>9 DEF AnswersAreRecorded, Onward, Settled
  <2> QED BY <2>4, <2>7, <2>9, <2>10, <2>11
<1> QED BY <1>1, <1>2, <1>3, <1>4, <1>5, <1>6 DEF LedgerMoves

-----------------------------------------------------------------------------
(* Types of what the ledger does not hold                                  *)

Places == {"none", "starting", "anchored", "watching", "stopping", "settling",
           "rereading", "closing", "ended", "killed"}
Whys   == {"none", "refused"} \cup Verdicts \cup Reasons
Supers == [at : Places, why : Whys, saw : Runs \cup {None}]
Agents == [at : {"alive", "gone"}, turns : 0..CorrectiveTurns]
Commands == [step : {"idle", "checked", "landed"},
             kind : ReceiptKinds \cup {"none", "outbound-mail"}]

LEMMA SupersTyped ==
    ASSUME TypeOK, Next
    PROVE  sup' \in [Runs -> Supers]
<1> DEFINE Moved(k) == \E w \in Places : At(k, w)
           Stopped(k) == \E y \in Whys : Stops(k, y)
<1>0. /\ sup \in [Runs -> Supers]
      /\ row.result \in Runs \cup {None}
  BY DEF TypeOK, Supers, Places, Whys, RowStates
<1>1. \A k \in Runs : Moved(k) \/ Stopped(k) => sup' \in [Runs -> Supers]
  <2>1. ASSUME NEW k \in Runs, NEW w \in Places, At(k, w)
        PROVE  sup' \in [Runs -> Supers]
    BY <1>0, <2>1 DEF At, Supers
  <2>2. ASSUME NEW k \in Runs, NEW y \in Whys, Stops(k, y)
        PROVE  sup' \in [Runs -> Supers]
    <3>1. "stopping" \in Places
      BY DEF Places
    <3> QED BY <1>0, <2>2, <3>1 DEF Stops, Supers
  <2> QED BY <2>1, <2>2
<1>2. \A k \in Runs : Verdict(k) \in Whys
  BY DEF Verdict, Whys, Verdicts
<1>3. CASE Expires \/ RecoverExpired \/ RowMoves
  BY <1>0, <1>3 DEF Expires, RecoverExpired, RowMoves, superVars
<1>4. ASSUME NEW k \in Runs, NEW s \in Slots, Start(s, k)
      PROVE  sup' \in [Runs -> Supers]
  <2>1. Moved(k)
    BY <1>4 DEF Start, Places
  <2> QED BY <1>1, <2>1
<1>5. ASSUME NEW k \in Runs, Supervisor(k)
      PROVE  sup' \in [Runs -> Supers]
  <2>1. CASE Launch(k)
    <3>1. CASE row.claim = k
      <4>1. sup' = [sup EXCEPT ![k].at = "watching", ![k].saw = row.result]
        BY <2>1, <3>1 DEF Launch
      <4> QED BY <1>0, <4>1 DEF Supers, Places
    <3>2. CASE row.claim # k
      <4>1. Moved(k)
        BY <2>1, <3>2 DEF Launch, Places
      <4> QED BY <1>1, <4>1
    <3> QED BY <3>1, <3>2
  <2>2. CASE SeeExit(k)
    <3>1. sup' = sup \/ sup' = [sup EXCEPT ![k].at = "settling", ![k].why = "process_exit"]
      BY <2>2 DEF SeeExit
    <3> QED BY <1>0, <3>1 DEF Supers, Places, Whys, Reasons
  <2>3. CASE Close(k)
    <3>1. [at |-> "ended", why |-> "none", saw |-> None] \in Supers
      BY DEF Supers, Places, Whys
    <3> QED BY <1>0, <2>3, <3>1 DEF Close
  <2>4. CASE Settle(k)
    <3>1. At(k, "closing") \/ At(k, "rereading")
      BY <2>4 DEF Settle
    <3> QED BY <1>1, <3>1 DEF Places
  <2>5. CASE WriteState(k) \/ Terminate(k) \/ Reread(k)
    <3>1. Moved(k)
      BY <2>5 DEF WriteState, Terminate, Reread, Places
    <3> QED BY <1>1, <3>1
  <2>6. CASE SeeTerminal(k) \/ RenewalRefused(k) \/ TimesOut(k)
    <3>1. Stopped(k)
      BY <1>2, <2>6 DEF SeeTerminal, RenewalRefused, TimesOut, Whys, Reasons
    <3> QED BY <1>1, <3>1
  <2> QED BY <1>5, <2>1, <2>2, <2>3, <2>4, <2>5, <2>6 DEF Supervisor
<1>6. ASSUME NEW k \in Runs, Broken(k)
      PROVE  sup' \in [Runs -> Supers]
  <2>1. Moved(k) \/ Stopped(k)
    BY <1>6 DEF Broken, StartFails, RenewalBreaks, Interrupted, SwallowsSignal, Kill,
       Places, Whys, Reasons
  <2> QED BY <1>1, <2>1
<1>7. ASSUME NEW k \in Runs, Agent(k)
      PROVE  sup' \in [Runs -> Supers]
  BY <1>0, <1>7 DEF Agent, Writes, RecordOutcome, Release, Handoff, Act, Effect, AgentExits,
     ActReview, ActComment, ActPullRequest, ActIssue, ActMail, BeginAct, PostsReview,
     PostsComment, OpensPullRequest, OpensIssue, SendsMail, Lands, Refused, KeepsReceipt,
     superVars
<1> QED BY <1>3, <1>4, <1>5, <1>6, <1>7 DEF Next

\* The slots and what the supervisors say.
LEMMA ReportsTyped ==
    ASSUME TypeOK, Next
    PROVE  /\ slot' \in [Slots -> Runs \cup {None}]
           /\ report' \in [Runs -> {"none"} \cup Verdicts \cup Reasons]
<1> DEFINE Said == {"none"} \cup Verdicts \cup Reasons
           Says(k) == \E r \in Said : Reports(k, r)
<1>0. slot \in [Slots -> Runs \cup {None}] /\ report \in [Runs -> Said]
  BY DEF TypeOK
<1>1. \A k \in Runs : Says(k) => report' \in [Runs -> Said]
  BY <1>0 DEF Reports
<1>2. \A k \in Runs : Freed(k) \in [Slots -> Runs \cup {None}]
  BY <1>0 DEF Freed
<1>3. CASE Expires \/ RecoverExpired \/ RowMoves
  BY <1>0, <1>3 DEF Expires, RecoverExpired, RowMoves, superVars
<1>4. ASSUME NEW k \in Runs, NEW s \in Slots, Start(s, k)
      PROVE  slot' \in [Slots -> Runs \cup {None}] /\ report' \in [Runs -> Said]
  BY <1>0, <1>4 DEF Start
<1>5. ASSUME NEW k \in Runs, Supervisor(k)
      PROVE  slot' \in [Slots -> Runs \cup {None}] /\ report' \in [Runs -> Said]
  <2>1. slot' = slot \/ slot' = Freed(k)
    BY <1>5 DEF Supervisor, WriteState, Launch, SeeTerminal, RenewalRefused, SeeExit,
       TimesOut, Terminate, Settle, Reread, Close
  <2>2. UNCHANGED report \/ Says(k)
    <3>1. CASE Settle(k)
      <4>1. sup[k].why \in Whys
        BY DEF TypeOK, Whys
      <4>2. Verdict(k) \in Said
        BY DEF Verdict, Verdicts
      <4>3. CASE sup[k].why \in Verdicts
        <5>1. Reports(k, sup[k].why)
          BY <3>1, <4>3 DEF Settle, Verdicts
        <5> QED BY <4>3, <5>1
      <4>4. CASE sup[k].why = "refused"
        <5>1. Reports(k, IF Verdict(k) = "none" THEN "claim_lost" ELSE Verdict(k))
          BY <3>1, <4>4 DEF Settle, Verdicts
        <5> QED BY <4>2, <5>1 DEF Verdicts
      <4>5. CASE sup[k].why \notin Verdicts \cup {"refused"}
        <5>1. Reports(k, sup[k].why) \/ UNCHANGED report
          BY <3>1, <4>5 DEF Settle
        <5> QED BY <4>1, <4>5, <5>1 DEF Whys
      <4> QED BY <4>3, <4>4, <4>5
    <3>2. CASE Reread(k)
      BY <3>2 DEF Reread, Verdicts
    <3>3. CASE ~Settle(k) /\ ~Reread(k)
      BY <1>5, <3>3 DEF Supervisor, WriteState, Launch, SeeTerminal, RenewalRefused, SeeExit,
         TimesOut, Terminate, Close, Verdicts
    <3> QED BY <3>1, <3>2, <3>3
  <2> QED BY <1>0, <1>1, <1>2, <2>1, <2>2
<1>6. ASSUME NEW k \in Runs, Broken(k)
      PROVE  slot' \in [Slots -> Runs \cup {None}] /\ report' \in [Runs -> Said]
  <2>1. /\ slot' = slot \/ slot' = Freed(k)
        /\ UNCHANGED report \/ Says(k)
    BY <1>6 DEF Broken, StartFails, RenewalBreaks, Interrupted, SwallowsSignal, Kill, Reasons
  <2> QED BY <1>0, <1>1, <1>2, <2>1
<1>7. ASSUME NEW k \in Runs, Agent(k)
      PROVE  slot' \in [Slots -> Runs \cup {None}] /\ report' \in [Runs -> Said]
  BY <1>0, <1>7 DEF Agent, Writes, RecordOutcome, Release, Handoff, Act, Effect, AgentExits,
     ActReview, ActComment, ActPullRequest, ActIssue, ActMail, BeginAct, PostsReview,
     PostsComment, OpensPullRequest, OpensIssue, SendsMail, Lands, Refused, KeepsReceipt,
     superVars
<1> QED BY <1>3, <1>4, <1>5, <1>6, <1>7 DEF Next

\* The agents, the run states and the commands under way.
LEMMA AgentsTyped ==
    ASSUME TypeOK, RestTyped, Next
    PROVE  /\ agent' \in [Runs -> Agents]
           /\ state' \in [Runs -> {"none", "full", "scrubbed"}]
           /\ cmd' \in [Runs -> Commands]
<1> DEFINE Typed == /\ agent' \in [Runs -> Agents]
                    /\ state' \in [Runs -> {"none", "full", "scrubbed"}]
                    /\ cmd' \in [Runs -> Commands]
<1>0. /\ agent \in [Runs -> Agents]
      /\ state \in [Runs -> {"none", "full", "scrubbed"}]
      /\ cmd \in [Runs -> Commands]
  BY DEF TypeOK, RestTyped, Agents, Commands
<1>a. ASSUME NEW k \in Runs, \/ agent' = [agent EXCEPT ![k].at = "alive"]
                             \/ agent' = [agent EXCEPT ![k].at = "gone"]
      PROVE  agent' \in [Runs -> Agents]
  BY <1>0, <1>a DEF Agents
<1>b. ASSUME NEW k \in Runs, \/ cmd' = [cmd EXCEPT ![k] = Idle]
                             \/ cmd' = [cmd EXCEPT ![k].step = "landed"]
      PROVE  cmd' \in [Runs -> Commands]
  <2>1. Idle \in Commands
    BY DEF Idle, Commands
  <2> QED BY <1>0, <1>b, <2>1 DEF Commands
<1>1. CASE Expires \/ RecoverExpired \/ RowMoves
  BY <1>0, <1>1 DEF Expires, RecoverExpired, RowMoves
<1>2. ASSUME NEW k \in Runs, NEW s \in Slots, Start(s, k)
      PROVE  Typed
  BY <1>0, <1>2 DEF Start
<1>3. ASSUME NEW k \in Runs, Supervisor(k)
      PROVE  Typed
  <2>1. CASE SeeExit(k)
    <3>1. CASE UNCHANGED agent
      BY <1>0, <2>1, <3>1 DEF SeeExit
    <3>2. CASE /\ agent[k].turns < CorrectiveTurns
               /\ agent' = [agent EXCEPT ![k].at = "alive", ![k].turns = @ + 1]
      <4> DEFINE next == agent[k].turns + 1
      <4>1. next \in 0..CorrectiveTurns
        BY <1>0, <3>2 DEF Agents, CorrectiveTurns
      <4>2. agent' = [agent EXCEPT ![k].at = "alive", ![k].turns = next]
        BY <3>2
      <4> HIDE DEF next
      <4>3. agent' \in [Runs -> Agents]
        BY <1>0, <4>1, <4>2 DEF Agents
      <4> QED BY <1>0, <2>1, <4>3 DEF SeeExit
    <3> QED BY <2>1, <3>1, <3>2 DEF SeeExit
  <2>2. CASE Close(k)
    <3>1. NoAgent \in Agents
      BY DEF NoAgent, Agents, CorrectiveTurns
    <3> QED BY <1>0, <2>2, <3>1 DEF Close, Scrubbed
  <2>3. CASE ~SeeExit(k) /\ ~Close(k)
    <3>1. agent' = agent \/ agent' = [agent EXCEPT ![k].at = "alive"]
                         \/ agent' = [agent EXCEPT ![k].at = "gone"]
      BY <1>3, <2>3 DEF Supervisor, WriteState, Launch, SeeTerminal, RenewalRefused,
         TimesOut, Terminate, Settle, Reread
    <3>2. state' = state \/ state' = [state EXCEPT ![k] = "full"]
      BY <1>3, <2>3 DEF Supervisor, WriteState, Launch, SeeTerminal, RenewalRefused,
         TimesOut, Terminate, Settle, Reread
    <3>3. cmd' = cmd \/ cmd' = [cmd EXCEPT ![k] = Idle]
      BY <1>3, <2>3 DEF Supervisor, WriteState, Launch, SeeTerminal, RenewalRefused,
         TimesOut, Terminate, Settle, Reread
    <3> QED BY <1>0, <1>a, <1>b, <3>1, <3>2, <3>3
  <2> QED BY <2>1, <2>2, <2>3
<1>4. ASSUME NEW k \in Runs, Broken(k)
      PROVE  Typed
  BY <1>0, <1>4 DEF Broken, StartFails, RenewalBreaks, Interrupted, SwallowsSignal, Kill
<1>5. ASSUME NEW k \in Runs, Agent(k)
      PROVE  Typed
  <2>1. CASE Act(k)
    <3>1. PICK kind \in ReceiptKinds \cup {"outbound-mail"} : BeginAct(k, kind)
      BY <2>1 DEF Act, ActReview, ActComment, ActPullRequest, ActIssue, ActMail, ReceiptKinds
    <3> QED BY <1>0, <3>1 DEF BeginAct, Commands
  <2>2. CASE Effect(k) \/ AgentExits(k)
    <3>1. /\ UNCHANGED agent \/ agent' = [agent EXCEPT ![k].at = "gone"]
          /\ UNCHANGED state
          /\ cmd' = [cmd EXCEPT ![k] = Idle] \/ cmd' = [cmd EXCEPT ![k].step = "landed"]
      BY <2>2 DEF Effect, AgentExits, PostsReview, PostsComment, OpensPullRequest,
         OpensIssue, SendsMail, Lands, Refused, KeepsReceipt
    <3> QED BY <1>0, <1>a, <1>b, <3>1
  <2>3. CASE Writes(k) \/ RecordOutcome(k) \/ Release(k) \/ Handoff(k)
    BY <1>0, <2>3 DEF Writes, RecordOutcome, Release, Handoff
  <2> QED BY <1>5, <2>1, <2>2, <2>3 DEF Agent
<1> QED BY <1>1, <1>2, <1>3, <1>4, <1>5 DEF Next

\* The files, the forge and the faults left.
LEMMA FilesTyped ==
    ASSUME TypeOK, RestTyped, Next
    PROVE  /\ folder' \in Texts /\ own' \subseteq Runs
           /\ receipts' \in [Runs -> SUBSET ReceiptKinds]
           /\ forge' \subseteq [run : Runs, kind : ReceiptKinds]
           /\ faults' \in Nat
<1> DEFINE Typed == /\ folder' \in Texts /\ own' \subseteq Runs
                    /\ receipts' \in [Runs -> SUBSET ReceiptKinds]
                    /\ forge' \subseteq [run : Runs, kind : ReceiptKinds]
                    /\ faults' \in Nat
<1>0. /\ folder \in Texts /\ own \subseteq Runs
      /\ receipts \in [Runs -> SUBSET ReceiptKinds]
      /\ forge \subseteq [run : Runs, kind : ReceiptKinds]
      /\ faults \in Nat
  BY DEF TypeOK, RestTyped
<1>a. UNCHANGED faults \/ Fault => faults' \in Nat
  BY <1>0 DEF Fault
<1>1. CASE Expires \/ RecoverExpired \/ RowMoves
  BY <1>0, <1>a, <1>1 DEF Expires, RecoverExpired, RowMoves, fileVars, forgeVars
<1>2. ASSUME NEW k \in Runs, NEW s \in Slots, Start(s, k)
      PROVE  Typed
  BY <1>0, <1>2 DEF Start, fileVars, forgeVars
<1>3. ASSUME NEW k \in Runs, Supervisor(k)
      PROVE  Typed
  <2>1. CASE Close(k)
    BY <1>0, <2>1 DEF Close, forgeVars
  <2>2. CASE ~Close(k)
    <3>1. UNCHANGED <<fileVars, forgeVars>> /\ (UNCHANGED faults \/ Fault)
      BY <1>3, <2>2 DEF Supervisor, WriteState, Launch, SeeTerminal, RenewalRefused,
         SeeExit, TimesOut, Terminate, Settle, Reread
    <3> QED BY <1>0, <1>a, <3>1 DEF fileVars, forgeVars
  <2> QED BY <2>1, <2>2
<1>4. ASSUME NEW k \in Runs, Broken(k)
      PROVE  Typed
  <2>1. UNCHANGED <<fileVars, forgeVars>> /\ Fault
    BY <1>4 DEF Broken, StartFails, RenewalBreaks, Interrupted, SwallowsSignal, Kill
  <2> QED BY <1>0, <1>a, <2>1 DEF fileVars, forgeVars
<1>5. ASSUME NEW k \in Runs, Agent(k)
      PROVE  Typed
  <2>1. CASE Writes(k)
    <3>1. [by |-> k, held |-> row.claim = k,
           since |-> {j \in Runs : state[j] # "none"}] \in Texts
      <4>1. (row.claim = k) \in BOOLEAN /\ {j \in Runs : state[j] # "none"} \in SUBSET Runs
        OBVIOUS
      <4> QED BY <4>1 DEF Texts
    <3> QED BY <1>0, <2>1, <3>1 DEF Writes, forgeVars
  <2>2. CASE RecordOutcome(k)
    BY <1>0, <2>2 DEF RecordOutcome, forgeVars
  <2>3. CASE Release(k) \/ Handoff(k) \/ Act(k) \/ AgentExits(k) \/ Refused(k)
    <3>1. UNCHANGED <<fileVars, forgeVars>> /\ (UNCHANGED faults \/ Fault)
      BY <2>3 DEF Release, Handoff, Act, AgentExits, Refused, ActReview, ActComment,
         ActPullRequest, ActIssue, ActMail, BeginAct
    <3> QED BY <1>0, <1>a, <3>1 DEF fileVars, forgeVars
  <2>4. CASE KeepsReceipt(k)
    BY <1>0, <1>a, <2>4 DEF KeepsReceipt, forgeVars
  <2>5. ASSUME NEW kind, Lands(k, kind), UNCHANGED faults \/ Fault
        PROVE  Typed
    BY <1>0, <1>a, <2>5 DEF Lands, fileVars
  <2>6. CASE \/ PostsReview(k) \/ PostsComment(k) \/ OpensPullRequest(k)
             \/ OpensIssue(k) \/ SendsMail(k)
    <3>1. PICK kind \in ReceiptKinds \cup {"outbound-mail"} :
            Lands(k, kind) /\ (UNCHANGED faults \/ Fault)
      BY <2>6 DEF PostsReview, PostsComment, OpensPullRequest, OpensIssue, SendsMail,
         ReceiptKinds
    <3> QED BY <2>5, <3>1
  <2> QED BY <1>5, <2>1, <2>2, <2>3, <2>4, <2>6 DEF Agent, Effect
<1> QED BY <1>1, <1>2, <1>3, <1>4, <1>5 DEF Next

-----------------------------------------------------------------------------
(* The life of a run                                                       *)

\* How a run's parts stand to each other, whatever became of its claim.
RunOrder(k) ==
    /\ sup[k].at = "none" => agent[k].at = "gone" /\ state[k] = "none"
    /\ cmd[k] # Idle => agent[k].at = "alive"
    /\ sup[k].at \in {"starting", "anchored", "settling", "rereading"}
         => agent[k].at = "gone"
    /\ report[k] # "none" => sup[k].at \in {"closing", "killed"}
    /\ report[k] # "none" => agent[k].at = "gone"

AllTyped ==
    /\ fate \in [Runs -> Fates]
    /\ sup \in [Runs -> Supers]
    /\ report \in [Runs -> {"none"} \cup Verdicts \cup Reasons]
    /\ agent \in [Runs -> Agents]
    /\ state \in [Runs -> {"none", "full", "scrubbed"}]
    /\ cmd \in [Runs -> Commands]

\* A step of run k leaves the parts of run j alone.
LeavesAlone(j) ==
    /\ sup'[j] = sup[j] /\ report'[j] = report[j] /\ agent'[j] = agent[j]
    /\ state'[j] = state[j] /\ cmd'[j] = cmd[j]

LEMMA OthersAreLeftAlone ==
    ASSUME AllTyped, NEW k \in Runs, NEW j \in Runs \ {k},
           (\E s \in Slots : Start(s, k)) \/ Supervisor(k) \/ Broken(k) \/ Agent(k)
    PROVE  LeavesAlone(j)
<1>1. CASE \E s \in Slots : Start(s, k)
  BY <1>1 DEF AllTyped, Start, At, LeavesAlone
<1>2. CASE Supervisor(k)
  <2>1. CASE Settle(k)
    <3>1. /\ At(k, "closing") \/ At(k, "rereading")
          /\ UNCHANGED report \/ \E r : Reports(k, r)
      BY <2>1 DEF Settle
    <3> QED BY <2>1, <3>1 DEF AllTyped, Settle, At, Reports, LeavesAlone
  <2>2. CASE WriteState(k) \/ Launch(k) \/ SeeTerminal(k) \/ RenewalRefused(k)
    BY <2>2 DEF AllTyped, WriteState, Launch, SeeTerminal, RenewalRefused, At, Stops,
       Reports, LeavesAlone
  <2>3. CASE SeeExit(k) \/ TimesOut(k) \/ Terminate(k) \/ Reread(k) \/ Close(k)
    BY <2>3 DEF AllTyped, SeeExit, TimesOut, Terminate, Reread, Close, At, Stops,
       Reports, Scrubbed, LeavesAlone
  <2> QED BY <1>2, <2>1, <2>2, <2>3 DEF Supervisor
<1>3. CASE Broken(k)
  BY <1>3 DEF AllTyped, Broken, StartFails, RenewalBreaks, Interrupted, SwallowsSignal,
     Kill, At, Stops, Reports, LeavesAlone
<1>4. CASE Agent(k)
  BY <1>4 DEF AllTyped, Agent, Writes, RecordOutcome, Release, Handoff, Act, Effect,
     AgentExits, ActReview, ActComment, ActPullRequest, ActIssue, ActMail, BeginAct,
     PostsReview, PostsComment, OpensPullRequest, OpensIssue, SendsMail, Lands, Refused,
     KeepsReceipt, superVars, LeavesAlone
<1> QED BY <1>1, <1>2, <1>3, <1>4

\* The steps of a run keep its parts in order, ...
LEMMA OrderIsKept ==
    ASSUME AllTyped, NEW k \in Runs, RunOrder(k),
           fate[k] = "unissued" => sup[k].at = "none",
           (\E s \in Slots : Start(s, k)) \/ Supervisor(k) \/ Broken(k) \/ Agent(k)
    PROVE  RunOrder(k)'
<1>a. ASSUME NEW w, At(k, w)
      PROVE  sup'[k].at = w
  BY <1>a DEF AllTyped, At, Supers
<1>b. ASSUME NEW y, Stops(k, y)
      PROVE  sup'[k].at = "stopping"
  BY <1>b DEF AllTyped, Stops, Supers
<1>c. ASSUME NEW r, Reports(k, r)
      PROVE  report'[k] = r
  BY <1>c DEF AllTyped, Reports
<1>1. CASE \E s \in Slots : Start(s, k)
  <2>1. /\ fate[k] = "unissued" /\ At(k, "starting")
        /\ UNCHANGED <<report, agent, state, cmd>>
    BY <1>1 DEF Start
  <2>2. sup'[k].at = "starting"
    BY <1>a, <2>1
  <2> QED BY <2>1, <2>2 DEF RunOrder
<1>2. CASE Supervisor(k)
  <2>1. CASE Settle(k) \/ Reread(k)
    <3>1. sup[k].at \in {"settling", "rereading"} /\ UNCHANGED <<agent, state, cmd>>
      BY <2>1 DEF Settle, Reread
    <3>2. \/ At(k, "closing")
          \/ At(k, "rereading") /\ UNCHANGED report
      BY <2>1 DEF Settle, Reread
    <3>3. \/ sup'[k].at = "closing"
          \/ sup'[k].at = "rereading" /\ UNCHANGED report
      BY <1>a, <3>2
    <3> QED BY <3>1, <3>3 DEF RunOrder
  <2>2. CASE WriteState(k)
    <3>1. sup'[k].at = "anchored"
      BY <1>a, <2>2 DEF WriteState
    <3> QED BY <2>2, <3>1 DEF WriteState, RunOrder
  <2>3. CASE Launch(k)
    <3>1. CASE row.claim = k
      <4>1. sup'[k].at = "watching"
        BY <2>3, <3>1 DEF Launch, AllTyped, Supers
      <4>2. agent'[k].at = "alive" /\ UNCHANGED <<report, state, cmd>>
        BY <2>3, <3>1 DEF Launch, AllTyped, Agents
      <4>3. report[k] = "none"
        BY <2>3 DEF Launch, RunOrder
      <4> QED BY <4>1, <4>2, <4>3 DEF RunOrder
    <3>2. CASE row.claim # k
      <4>1. sup'[k].at = "closing" /\ UNCHANGED <<agent, state, cmd>>
        BY <1>a, <2>3, <3>2 DEF Launch
      <4> QED BY <2>3, <4>1 DEF Launch, RunOrder
    <3> QED BY <3>1, <3>2
  <2>4. CASE SeeTerminal(k) \/ RenewalRefused(k) \/ TimesOut(k)
    <3>1. sup[k].at = "watching" /\ UNCHANGED <<report, agent, state, cmd>>
      BY <2>4 DEF SeeTerminal, RenewalRefused, TimesOut
    <3>2. sup'[k].at = "stopping"
      BY <1>b, <2>4 DEF SeeTerminal, RenewalRefused, TimesOut
    <3> QED BY <3>1, <3>2 DEF RunOrder
  <2>5. CASE SeeExit(k)
    <3>1. /\ sup[k].at = "watching" /\ agent[k].at = "gone"
          /\ UNCHANGED <<report, state, cmd>>
      BY <2>5 DEF SeeExit
    <3>2. \/ agent'[k].at = "alive" /\ UNCHANGED sup
          \/ sup'[k].at = "settling" /\ UNCHANGED agent
      BY <2>5 DEF SeeExit, AllTyped, Agents, Supers
    <3> QED BY <3>1, <3>2 DEF RunOrder
  <2>6. CASE Terminate(k)
    <3>1. agent'[k].at = "gone" /\ cmd'[k] = Idle /\ UNCHANGED <<report, state>>
      BY <2>6 DEF Terminate, AllTyped, Agents
    <3>2. sup[k].at = "stopping" /\ sup'[k].at = "settling"
      BY <1>a, <2>6 DEF Terminate
    <3> QED BY <3>1, <3>2 DEF RunOrder
  <2>7. CASE Close(k)
    <3>1. sup'[k].at = "ended"
      BY <2>7 DEF Close, AllTyped
    <3>2. /\ agent'[k].at = agent[k].at
          /\ UNCHANGED cmd
      BY <2>7 DEF Close, AllTyped, Agents, NoAgent
    <3>3. report'[k] = "none"
      BY <1>c, <2>7 DEF Close
    <3> QED BY <3>1, <3>2, <3>3 DEF RunOrder
  <2> QED BY <1>2, <2>1, <2>2, <2>3, <2>4, <2>5, <2>6, <2>7 DEF Supervisor
<1>3. CASE Broken(k)
  <2>1. UNCHANGED <<agent, state, cmd>>
    BY <1>3 DEF Broken, StartFails, RenewalBreaks, Interrupted, SwallowsSignal, Kill
  <2>2. CASE StartFails(k)
    <3>1. sup[k].at \in {"starting", "anchored"} /\ sup'[k].at = "closing"
      BY <1>a, <2>2 DEF StartFails
    <3> QED BY <2>1, <3>1 DEF RunOrder
  <2>3. CASE RenewalBreaks(k) \/ Interrupted(k)
    <3>1. /\ sup[k].at \in {"watching", "stopping", "settling"}
          /\ UNCHANGED report
      BY <2>3 DEF RenewalBreaks, Interrupted
    <3>2. sup'[k].at \in {"closing", "stopping"}
      BY <1>a, <1>b, <2>3 DEF RenewalBreaks, Interrupted
    <3> QED BY <2>1, <3>1, <3>2 DEF RunOrder
  <2>4. CASE SwallowsSignal(k)
    <3>1. /\ sup[k].at = "settling" /\ sup'[k].at = "rereading"
          /\ UNCHANGED report
      BY <1>a, <2>4 DEF SwallowsSignal
    <3> QED BY <2>1, <3>1 DEF RunOrder
  <2>5. CASE Kill(k)
    <3>1. sup'[k].at = "killed" /\ UNCHANGED report
      BY <1>a, <2>5 DEF Kill
    <3> QED BY <2>1, <3>1 DEF RunOrder
  <2> QED BY <1>3, <2>2, <2>3, <2>4, <2>5 DEF Broken
<1>4. CASE Agent(k)
  <2>1. UNCHANGED <<sup, report, state>>
    BY <1>4 DEF Agent, Writes, RecordOutcome, Release, Handoff, Act, Effect, AgentExits,
       ActReview, ActComment, ActPullRequest, ActIssue, ActMail, BeginAct, PostsReview,
       PostsComment, OpensPullRequest, OpensIssue, SendsMail, Lands, Refused,
       KeepsReceipt, superVars
  <2>2. CASE AgentExits(k)
    <3>1. agent'[k].at = "gone" /\ cmd'[k] = Idle
      BY <2>2 DEF AgentExits, AllTyped, Agents
    <3> QED BY <2>1, <3>1 DEF RunOrder
  <2>3. CASE Act(k)
    <3>1. UNCHANGED agent /\ agent[k].at = "alive"
      BY <2>3 DEF Act, ActReview, ActComment, ActPullRequest, ActIssue, ActMail, BeginAct,
         Active, Working
    <3> QED BY <2>1, <3>1 DEF RunOrder
  <2>4. CASE Effect(k)
    <3>1. UNCHANGED agent /\ cmd[k] # Idle
      BY <2>4 DEF Effect, PostsReview, PostsComment, OpensPullRequest, OpensIssue,
         SendsMail, Lands, Refused, KeepsReceipt, Idle
    <3> QED BY <2>1, <3>1 DEF RunOrder
  <2>5. CASE Writes(k) \/ RecordOutcome(k) \/ Release(k) \/ Handoff(k)
    <3>1. UNCHANGED <<agent, cmd>>
      BY <2>5 DEF Writes, RecordOutcome, Release, Handoff
    <3> QED BY <2>1, <3>1 DEF RunOrder
  <2> QED BY <1>4, <2>2, <2>3, <2>4, <2>5 DEF Agent
<1> QED BY <1>1, <1>2, <1>3, <1>4

\* ... and so does every step.
LEMMA OrderHolds ==
    ASSUME AllTyped, \A k \in Runs : RunOrder(k),
           \A k \in Runs : fate[k] = "unissued" => sup[k].at = "none",
           Next, Onward
    PROVE  /\ \A j \in Runs : RunOrder(j)'
           /\ \A j \in Runs : fate'[j] = "unissued" => sup'[j].at = "none"
<1> SUFFICES ASSUME NEW j \in Runs
             PROVE  RunOrder(j)' /\ (fate'[j] = "unissued" => sup'[j].at = "none")
  OBVIOUS
<1>0. fate'[j] = "unissued" => fate[j] = "unissued" /\ sup[j].at = "none"
  BY DEF Onward
<1>1. CASE Expires \/ RecoverExpired \/ RowMoves
  BY <1>0, <1>1 DEF Expires, RecoverExpired, RowMoves, superVars, RunOrder
<1>2. ASSUME NEW k \in Runs,
             (\E s \in Slots : Start(s, k)) \/ Supervisor(k) \/ Broken(k) \/ Agent(k)
      PROVE  RunOrder(j)' /\ (fate'[j] = "unissued" => sup'[j].at = "none")
  <2>1. CASE j # k
    <3>1. LeavesAlone(j)
      BY <1>2, <2>1, OthersAreLeftAlone
    <3> QED BY <1>0, <3>1 DEF LeavesAlone, RunOrder
  <2>2. CASE j = k
    <3>1. RunOrder(k)'
      BY <1>2, OrderIsKept
    <3>2. fate'[k] # "unissued" \/ sup'[k] = sup[k]
      <4>1. CASE \E s \in Slots : Start(s, k)
        <5>1. fate' = [fate EXCEPT ![k] = "live"]
          BY <4>1 DEF Start
        <5> QED BY <5>1 DEF AllTyped
      <4>2. CASE Supervisor(k) \/ Broken(k)
        <5>1. sup[k].at # "none"
          BY <4>2 DEF Supervisor, Broken, WriteState, Launch, SeeTerminal, RenewalRefused,
             SeeExit, TimesOut, Terminate, Settle, Reread, Close, StartFails,
             RenewalBreaks, Interrupted, SwallowsSignal, Kill
        <5> QED BY <1>0, <2>2, <5>1
      <4>3. CASE Agent(k)
        BY <4>3 DEF Agent, Writes, RecordOutcome, Release, Handoff, Act, Effect,
           AgentExits, ActReview, ActComment, ActPullRequest, ActIssue, ActMail, BeginAct,
           PostsReview, PostsComment, OpensPullRequest, OpensIssue, SendsMail, Lands,
           Refused, KeepsReceipt, superVars
      <4> QED BY <1>2, <4>1, <4>2, <4>3
    <3> QED BY <1>0, <2>2, <3>1, <3>2
  <2> QED BY <2>1, <2>2
<1> QED BY <1>1, <1>2 DEF Next

-----------------------------------------------------------------------------
(* What a run writes, and what it may show for it                          *)

Failures == {"process_exit", "timeout", "interrupted"}

\* A failure is said only when the ledger has just taken it.
LEMMA FailureIsTaken ==
    ASSUME AllTyped, Next, NEW j \in Runs, row.claim # None => row.claim \in Runs
    PROVE  report'[j] = report[j] \/ report'[j] \notin Failures \/ fate'[j] = "failed"
<1>0. None \notin Runs
  BY AgentRunsAssumption DEF None
<1>1. CASE Expires \/ RecoverExpired \/ RowMoves
  BY <1>1 DEF Expires, RecoverExpired, RowMoves, superVars
<1>2. ASSUME NEW k \in Runs,
             (\E s \in Slots : Start(s, k)) \/ Supervisor(k) \/ Broken(k) \/ Agent(k)
      PROVE  report'[j] = report[j] \/ report'[j] \notin Failures \/ fate'[j] = "failed"
  <2>1. CASE j # k
    BY <1>2, <2>1, OthersAreLeftAlone DEF LeavesAlone
  <2>2. CASE j = k
    <3>0. ASSUME NEW r, Reports(k, r)
          PROVE  report'[k] = r
      BY <3>0 DEF AllTyped, Reports
    <3>1. CASE Settle(k)
      <4>1. CASE sup[k].why \in Verdicts
        <5>1. report'[k] = sup[k].why
          BY <3>0, <3>1, <4>1 DEF Settle, Verdicts
        <5> QED BY <2>2, <4>1, <5>1 DEF Failures, Verdicts
      <4>2. CASE sup[k].why = "refused"
        <5>1. report'[k] = IF Verdict(k) = "none" THEN "claim_lost" ELSE Verdict(k)
          BY <3>0, <3>1, <4>2 DEF Settle, Verdicts
        <5> QED BY <2>2, <5>1 DEF Failures, Verdict
      <4>3. CASE sup[k].why = "lease_failed"
        <5>1. report'[k] = "lease_failed"
          BY <3>0, <3>1, <4>3 DEF Settle, Verdicts
        <5> QED BY <2>2, <5>1 DEF Failures
      <4>4. CASE sup[k].why \notin Verdicts \cup {"refused", "lease_failed"}
        <5>1. CASE Accepts(k)
          <6>1. Fails(k)
            BY <3>1, <4>4, <5>1 DEF Settle, FailsIfHeld
          <6>2. fate' = [fate EXCEPT ![k] = "failed"]
            BY <5>1, <6>1 DEF Fails, Ends, Accepts
          <6> QED BY <2>2, <6>2 DEF AllTyped
        <5>2. CASE ~Accepts(k)
          BY <2>2, <3>1, <4>4, <5>2 DEF Settle
        <5> QED BY <5>1, <5>2
      <4> QED BY <4>1, <4>2, <4>3, <4>4
    <3>2. CASE Reread(k)
      <4>1. report'[k] \in Verdicts
        BY <3>0, <3>2 DEF Reread, Verdicts
      <4> QED BY <2>2, <4>1 DEF Failures, Verdicts
    <3>3. CASE ~Settle(k) /\ ~Reread(k)
      <4>1. \/ UNCHANGED report
            \/ Reports(k, "none") \/ Reports(k, "claim_lost") \/ Reports(k, "startup_failed")
        BY <1>2, <3>3 DEF Start, Supervisor, WriteState, Launch, SeeTerminal,
           RenewalRefused, SeeExit, TimesOut, Terminate, Close, Broken, StartFails,
           RenewalBreaks, Interrupted, SwallowsSignal, Kill, Agent, Writes, RecordOutcome,
           Release, Handoff, Act, Effect, AgentExits, ActReview, ActComment,
           ActPullRequest, ActIssue, ActMail, BeginAct, PostsReview, PostsComment,
           OpensPullRequest, OpensIssue, SendsMail, Lands, Refused, KeepsReceipt,
           superVars
      <4> QED BY <2>2, <3>0, <4>1 DEF Failures
    <3> QED BY <3>1, <3>2, <3>3
  <2> QED BY <2>1, <2>2
<1> QED BY <1>1, <1>2 DEF Next

\* One write of a run: its command stays or is over, is begun under the run's
\* claim, or lands.
WriteStep(j) ==
    \/ cmd'[j] \in {cmd[j], Idle} /\ late'[j] = late[j]
    \/ cmd'[j].step = "checked" /\ late'[j] = late[j] /\ Accepts(j)
    \/ \E kind : Lands(j, kind)

\* A receipt is of the write the command is at the end of.
ReceiptStep(j) ==
    \A kind \in receipts'[j] :
      \/ kind \in receipts[j]
      \/ cmd[j].step = "landed" /\ cmd[j].kind = kind /\ kind \in ReceiptKinds

\* Only a write of an agent changes the shared folder, and only one that lands
\* on the forge changes the forge or what has landed late.
LEMMA QuietSteps ==
    ASSUME Next
    PROVE  /\ folder' = folder \/ \E k \in Runs : Writes(k)
           /\ UNCHANGED forgeVars \/ \E k \in Runs : \E kind : Lands(k, kind)
<1>1. CASE Expires \/ RecoverExpired \/ RowMoves
  BY <1>1 DEF Expires, RecoverExpired, RowMoves, fileVars
<1>2. ASSUME NEW k \in Runs, (\E s \in Slots : Start(s, k)) \/ Broken(k)
      PROVE  folder' = folder /\ UNCHANGED forgeVars
  BY <1>2 DEF Start, Broken, StartFails, RenewalBreaks, Interrupted, SwallowsSignal, Kill,
     fileVars
<1>3. ASSUME NEW k \in Runs, Supervisor(k)
      PROVE  folder' = folder /\ UNCHANGED forgeVars
  <2>1. CASE WriteState(k) \/ Launch(k) \/ SeeTerminal(k) \/ RenewalRefused(k) \/ SeeExit(k)
    BY <2>1 DEF WriteState, Launch, SeeTerminal, RenewalRefused, SeeExit, fileVars
  <2>2. CASE TimesOut(k) \/ Terminate(k) \/ Settle(k) \/ Reread(k) \/ Close(k)
    BY <2>2 DEF TimesOut, Terminate, Settle, Reread, Close, fileVars
  <2> QED BY <1>3, <2>1, <2>2 DEF Supervisor
<1>4. ASSUME NEW k \in Runs, Agent(k)
      PROVE  /\ folder' = folder \/ Writes(k)
             /\ UNCHANGED forgeVars \/ \E kind : Lands(k, kind)
  <2>1. CASE Writes(k)
    BY <2>1 DEF Writes
  <2>2. CASE RecordOutcome(k) \/ Release(k) \/ Handoff(k) \/ AgentExits(k)
    BY <2>2 DEF RecordOutcome, Release, Handoff, AgentExits, fileVars
  <2>3. CASE Act(k)
    <3>1. PICK kind : BeginAct(k, kind)
      BY <2>3 DEF Act, ActReview, ActComment, ActPullRequest, ActIssue, ActMail
    <3> QED BY <3>1 DEF BeginAct, fileVars
  <2>4. CASE Refused(k) \/ KeepsReceipt(k)
    BY <2>4 DEF Refused, KeepsReceipt, fileVars
  <2>5. CASE Effect(k) /\ ~Refused(k) /\ ~KeepsReceipt(k)
    <3>1. PICK kind : Lands(k, kind)
      BY <2>5 DEF Effect, PostsReview, PostsComment, OpensPullRequest, OpensIssue, SendsMail
    <3> QED BY <3>1 DEF Lands, fileVars
  <2> QED BY <1>4, <2>1, <2>2, <2>3, <2>4, <2>5 DEF Agent
<1> QED BY <1>1, <1>2, <1>3, <1>4 DEF Next

LEMMA CommandSteps ==
    ASSUME AllTyped, TypeOK, RestTyped, Next, NEW j \in Runs
    PROVE  WriteStep(j) /\ ReceiptStep(j) /\ forge \subseteq forge'
<1>0. receipts \in [Runs -> SUBSET ReceiptKinds] /\ late \in [Runs -> 0..1]
  BY DEF TypeOK, RestTyped
<1>1. CASE Expires \/ RecoverExpired \/ RowMoves
  BY <1>1 DEF Expires, RecoverExpired, RowMoves, fileVars, forgeVars, WriteStep,
     ReceiptStep
<1>2. ASSUME NEW k \in Runs, (\E s \in Slots : Start(s, k)) \/ Supervisor(k) \/ Broken(k)
      PROVE  WriteStep(j) /\ ReceiptStep(j) /\ forge \subseteq forge'
  <2>1. UNCHANGED forgeVars
    BY <1>2 DEF Start, Supervisor, WriteState, Launch, SeeTerminal, RenewalRefused,
       SeeExit, TimesOut, Terminate, Settle, Reread, Close, Broken, StartFails,
       RenewalBreaks, Interrupted, SwallowsSignal, Kill
  <2>2. UNCHANGED receipts \/ receipts' = [receipts EXCEPT ![k] = {}]
    BY <1>2 DEF Start, Supervisor, WriteState, Launch, SeeTerminal, RenewalRefused,
       SeeExit, TimesOut, Terminate, Settle, Reread, Close, Broken, StartFails,
       RenewalBreaks, Interrupted, SwallowsSignal, Kill, fileVars
  <2>3. UNCHANGED cmd \/ cmd' = [cmd EXCEPT ![k] = Idle]
    BY <1>2 DEF Start, Supervisor, WriteState, Launch, SeeTerminal, RenewalRefused,
       SeeExit, TimesOut, Terminate, Settle, Reread, Close, Broken, StartFails,
       RenewalBreaks, Interrupted, SwallowsSignal, Kill
  <2>4. cmd'[j] \in {cmd[j], Idle}
    BY <2>3 DEF AllTyped
  <2>5. ReceiptStep(j)
    BY <1>0, <2>2 DEF ReceiptStep
  <2> QED BY <2>1, <2>4, <2>5 DEF forgeVars, WriteStep
<1>3. ASSUME NEW k \in Runs, Agent(k)
      PROVE  WriteStep(j) /\ ReceiptStep(j) /\ forge \subseteq forge'
  <2>1. CASE Writes(k) \/ RecordOutcome(k) \/ Release(k) \/ Handoff(k)
    <3>1. UNCHANGED forgeVars /\ UNCHANGED cmd
      BY <2>1 DEF Writes, RecordOutcome, Release, Handoff
    <3>2. UNCHANGED receipts \/ receipts' = [receipts EXCEPT ![k] = {}]
      BY <2>1 DEF Writes, RecordOutcome, Release, Handoff, fileVars
    <3>3. ReceiptStep(j)
      BY <1>0, <3>2 DEF ReceiptStep
    <3> QED BY <3>1, <3>3 DEF forgeVars, WriteStep
  <2>2. CASE Act(k)
    <3>1. PICK kind : BeginAct(k, kind)
      BY <2>2 DEF Act, ActReview, ActComment, ActPullRequest, ActIssue, ActMail
    <3>2. \/ cmd'[j] = cmd[j]
          \/ cmd'[j].step = "checked" /\ Accepts(j)
      BY <3>1 DEF BeginAct, Active, AllTyped
    <3> QED BY <3>1, <3>2 DEF BeginAct, WriteStep, ReceiptStep, fileVars, forgeVars
  <2>3. CASE AgentExits(k) \/ Refused(k)
    <3>1. UNCHANGED <<fileVars, forgeVars>> /\ cmd' = [cmd EXCEPT ![k] = Idle]
      BY <2>3 DEF AgentExits, Refused
    <3>2. cmd'[j] \in {cmd[j], Idle}
      BY <3>1 DEF AllTyped
    <3> QED BY <3>1, <3>2 DEF WriteStep, ReceiptStep, fileVars, forgeVars
  <2>4. CASE KeepsReceipt(k)
    <3>1. cmd'[j] \in {cmd[j], Idle}
      BY <2>4 DEF KeepsReceipt, AllTyped
    <3>2. ReceiptStep(j)
      BY <1>0, <2>4 DEF KeepsReceipt, ReceiptStep
    <3> QED BY <2>4, <3>1, <3>2 DEF KeepsReceipt, WriteStep, forgeVars
  <2>5. ASSUME NEW kind, Lands(k, kind)
        PROVE  WriteStep(j) /\ ReceiptStep(j) /\ forge \subseteq forge'
    <3>1. ReceiptStep(j) /\ forge \subseteq forge'
      BY <2>5 DEF Lands, ReceiptStep, fileVars
    <3>2. CASE j = k
      BY <2>5, <3>1, <3>2 DEF WriteStep
    <3>3. CASE j # k
      <4>1. cmd'[j] = cmd[j] /\ late'[j] = late[j]
        BY <1>0, <2>5, <3>3 DEF Lands, AllTyped
      <4> QED BY <3>1, <4>1 DEF WriteStep
    <3> QED BY <3>2, <3>3
  <2>6. CASE \/ PostsReview(k) \/ PostsComment(k) \/ OpensPullRequest(k)
             \/ OpensIssue(k) \/ SendsMail(k)
    <3>1. PICK kind : Lands(k, kind)
      BY <2>6 DEF PostsReview, PostsComment, OpensPullRequest, OpensIssue, SendsMail
    <3> QED BY <2>5, <3>1
  <2> QED BY <1>3, <2>1, <2>2, <2>3, <2>4, <2>6 DEF Agent, Effect
<1> QED BY <1>1, <1>2, <1>3 DEF Next

-----------------------------------------------------------------------------
(* The invariant, part by part                                             *)

\* The invariant says what the lemmas above take.
LEMMA InvParts ==
    ASSUME RunsInv
    PROVE  /\ AllTyped /\ LedgerInv
           /\ \A k \in Runs : RunOrder(k)
           /\ \A k \in Runs : fate[k] = "unissued" => sup[k].at = "none"
<1>1. AllTyped /\ LedgerInv
  BY DEF RunsInv, TypeOK, RestTyped, AllTyped, LedgerInv, LedgerTyped, Supers, Places, Whys,
     Agents, Commands
<1>2. ASSUME NEW k \in Runs
      PROVE  RunOrder(k)
  <2>1. agent[k].at \in {"alive", "gone"}
    BY DEF RunsInv, TypeOK
  <2> QED BY <2>1 DEF RunsInv, RunsFollowClaims, AgentIsOver, ReportIsTrue, RunOrder
<1> QED BY <1>1, <1>2 DEF RunsInv, RunsFollowClaims

\* What every step that the invariant holds before it does to the ledger.
LEMMA LedgerFacts ==
    ASSUME RunsInv, Next
    PROVE  LedgerMoves /\ LedgerInv' /\ Onward
  BY InvParts, LedgerStep, LedgerKeeps DEF RunsInv

LEMMA NoneIsNoRun == None \notin Runs
  BY AgentRunsAssumption DEF None

\* A run that may still write, or is about to, has been claimed.
LEMMA BusyRunsAreClaimed ==
    ASSUME RunsInv, NEW k \in Runs, cmd[k] # Idle \/ state[k] # "none"
    PROVE  fate[k] # "unissued"
  BY DEF RunsInv, RunsFollowClaims

LEMMA LateKept ==
    ASSUME RunsInv, Next
    PROVE  late' \in [Runs -> 0..1] /\ LateIsLast'
<1>0. /\ late \in [Runs -> 0..1] /\ cmd \in [Runs -> Commands]
      /\ fate \in [Runs -> Fates]
  BY DEF RunsInv, RestTyped, TypeOK, Commands
<1>1. Onward
  BY LedgerFacts
<1>2. ASSUME NEW j \in Runs
      PROVE  /\ late'[j] \in 0..1
             /\ late'[j] = 1 => Settled(j)' /\ cmd'[j].step # "checked"
  <2>1. late[j] = 1 => Settled(j) /\ cmd[j].step # "checked"
    BY DEF RunsInv, LateIsLast
  <2>2. Settled(j) => Settled(j)'
    BY <1>1 DEF Onward, Settled
  <2>3. CASE cmd'[j] \in {cmd[j], Idle} /\ late'[j] = late[j]
    BY <1>0, <2>1, <2>2, <2>3 DEF Idle
  <2>4. CASE cmd'[j].step = "checked" /\ late'[j] = late[j] /\ Accepts(j)
    <3>1. ~Settled(j)
      BY <2>4 DEF RunsInv, ClaimIsRows, Accepts, Settled
    <3> QED BY <1>0, <2>1, <2>4, <3>1
  <2>5. ASSUME NEW kind, Lands(j, kind)
        PROVE  /\ late'[j] \in 0..1
               /\ late'[j] = 1 => Settled(j)' /\ cmd'[j].step # "checked"
    <3>1. cmd[j].step = "checked" /\ cmd[j] # Idle
      BY <2>5 DEF Lands, Idle
    <3>2. late[j] = 0
      BY <1>0, <2>1, <3>1
    <3>3. late'[j] = IF row.claim = j THEN 0 ELSE 1
      BY <1>0, <2>5, <3>2 DEF Lands
    <3>4. row.claim # j => Settled(j)
      BY <3>1, BusyRunsAreClaimed DEF RunsInv, ClaimIsRows, Settled
    <3>5. cmd'[j].step = "landed"
      BY <1>0, <2>5 DEF Lands, Commands
    <3> QED BY <2>2, <3>3, <3>4, <3>5
  <2>6. WriteStep(j)
    BY InvParts, CommandSteps DEF RunsInv
  <2> QED BY <2>3, <2>4, <2>5, <2>6 DEF WriteStep
<1>3. DOMAIN late' = Runs /\ late' = [k \in Runs |-> late'[k]]
  <2>1. late' = late \/ \E k \in Runs : \E w : late' = [late EXCEPT ![k] = w]
    <3>1. CASE \E k \in Runs : \E kind : Lands(k, kind)
      BY <3>1 DEF Lands
    <3>2. CASE \A k \in Runs : \A kind : ~Lands(k, kind)
      BY <3>2, QuietSteps DEF forgeVars
    <3> QED BY <3>1, <3>2
  <2> QED BY <1>0, <2>1
<1> QED BY <1>2, <1>3 DEF LateIsLast

LEMMA ReceiptsKept ==
    ASSUME RunsInv, Next
    PROVE  ReceiptsLanded'
<1> SUFFICES ASSUME NEW j \in Runs
             PROVE  /\ \A kind \in receipts'[j] : [run |-> j, kind |-> kind] \in forge'
                    /\ cmd'[j].step = "landed" /\ cmd'[j].kind \in ReceiptKinds
                         => [run |-> j, kind |-> cmd'[j].kind] \in forge'
  BY DEF ReceiptsLanded
<1>1. WriteStep(j) /\ ReceiptStep(j) /\ forge \subseteq forge'
  BY InvParts, CommandSteps DEF RunsInv
<1>2. /\ \A kind \in receipts[j] : [run |-> j, kind |-> kind] \in forge
      /\ cmd[j].step = "landed" /\ cmd[j].kind \in ReceiptKinds
           => [run |-> j, kind |-> cmd[j].kind] \in forge
  BY DEF RunsInv, ReceiptsLanded
<1>3. \A kind \in receipts'[j] : [run |-> j, kind |-> kind] \in forge'
  BY <1>1, <1>2 DEF ReceiptStep
<1>4. cmd'[j].step = "landed" /\ cmd'[j].kind \in ReceiptKinds
        => [run |-> j, kind |-> cmd'[j].kind] \in forge'
  <2>1. CASE cmd'[j] \in {cmd[j], Idle}
    BY <1>1, <1>2, <2>1 DEF Idle
  <2>2. CASE cmd'[j].step = "checked"
    BY <2>2
  <2>3. ASSUME NEW kind, Lands(j, kind)
        PROVE  cmd'[j].kind \in ReceiptKinds
                 => [run |-> j, kind |-> cmd'[j].kind] \in forge'
    <3>1. cmd[j].kind = kind /\ cmd \in [Runs -> Commands]
      BY <2>3 DEF Lands, RunsInv, RestTyped, Commands
    <3>2. cmd'[j].kind = kind
      BY <2>3, <3>1 DEF Lands, Commands
    <3>3. kind \in ReceiptKinds => [run |-> j, kind |-> kind] \in forge'
      BY <2>3 DEF Lands
    <3> QED BY <3>2, <3>3
  <2> QED BY <1>1, <2>1, <2>2, <2>3 DEF WriteStep
<1> QED BY <1>3, <1>4

\* The folder's text is as it was, or a run that still works wrote it.
LEMMA FolderSteps ==
    ASSUME RunsInv, Next
    PROVE  \/ UNCHANGED folder
           \/ \E k \in Runs :
                /\ UNCHANGED ledgerVars
                /\ folder' = [by |-> k, held |-> row.claim = k,
                              since |-> {j \in Runs : state[j] # "none"}]
<1>1. CASE \E k \in Runs : Writes(k)
  BY <1>1 DEF Writes
<1>2. CASE ~ \E k \in Runs : Writes(k)
  BY <1>2, QuietSteps
<1> QED BY <1>1, <1>2

LEMMA TextsKept ==
    ASSUME RunsInv, Next
    PROVE  TextsAreFenced'
<1>1. \A j \in Runs : Settled(j) => Settled(j)'
  BY LedgerFacts DEF Onward, Settled
<1>2. folder \in Texts
  BY DEF RunsInv, TypeOK
<1>3. CASE UNCHANGED folder
  <2>1. folder.since \subseteq Runs
    BY <1>2 DEF Texts
  <2>2. folder.held => \A j \in folder.since \ {folder.by} : Settled(j)'
    BY <1>1, <2>1 DEF RunsInv, TextsAreFenced
  <2> QED BY <1>3, <2>2 DEF TextsAreFenced
<1>4. ASSUME NEW k \in Runs, UNCHANGED ledgerVars,
             folder' = [by |-> k, held |-> row.claim = k,
                        since |-> {j \in Runs : state[j] # "none"}]
      PROVE  TextsAreFenced'
  <2>1. ASSUME NEW j \in Runs, row.claim = k, state[j] # "none", j # k
        PROVE  Settled(j)'
    <3>1. fate[j] # "unissued"
      BY <2>1, BusyRunsAreClaimed
    <3>2. fate[j] # "live"
      BY <2>1 DEF RunsInv, ClaimIsRows
    <3> QED BY <1>4, <3>1, <3>2 DEF ledgerVars, Settled
  <2> QED BY <1>4, <2>1 DEF TextsAreFenced
<1> QED BY <1>3, <1>4, FolderSteps

\* What a run records is what it found: its own text, or one no run wrote under
\* a claim.
LEMMA FoundIsOwn ==
    ASSUME RunsInv, NEW k \in Runs, Accepts(k)
    PROVE  Found(k).by = k \/ ~Found(k).held
<1>1. ~Settled(k)
  BY DEF RunsInv, ClaimIsRows, Accepts, Settled
<1>2. CASE folder.by # None /\ ~Fenced(k)
  <2>1. folder.held => k = folder.by
    BY <1>1, <1>2 DEF RunsInv, TextsAreFenced, Fenced
  <2> QED BY <1>2, <2>1 DEF Found
<1>3. CASE ~(folder.by # None /\ ~Fenced(k))
  BY <1>3 DEF Found, Mine, Nobody
<1> QED BY <1>2, <1>3

\* A result in the ledger was there before, or is the one recorded now.
LEMMA ResultSteps ==
    ASSUME RunsInv, Next, NEW k \in Runs
    PROVE  \/ results'[k] = results[k]
           \/ \E outcome \in Outcomes, cites \in SUBSET Owed :
                /\ Accepts(k) /\ Found(k) # Nobody
                /\ outcome = "published" => Owed \subseteq receipts[k] \cup cites
                /\ results'[k] = Drafted(k, outcome, cites)
<1>1. CASE Answered
  <2>1. PICK j \in Runs, outcome \in Outcomes, cites \in SUBSET Owed :
          /\ Accepts(j)
          /\ Found(j) # Nobody
          /\ outcome = "published" => Owed \subseteq receipts[j] \cup cites
          /\ Records(j, Drafted(j, outcome, cites))
    BY <1>1 DEF Answered
  <2>2. /\ results \in [Runs -> Results \cup {NoResult}]
        /\ results' = [results EXCEPT ![j] = Drafted(j, outcome, cites)]
    BY <2>1 DEF Records, RunsInv, TypeOK
  <2>3. CASE j = k
    <3>1. results'[k] = Drafted(k, outcome, cites)
      BY <2>2, <2>3
    <3> QED BY <2>1, <2>3, <3>1
  <2>4. CASE j # k
    BY <2>2, <2>4
  <2> QED BY <2>3, <2>4
<1>2. CASE ~Answered
  BY <1>2, LedgerFacts DEF LedgerMoves, ledgerVars, TimeRunsOut, IdleRowMoves, ClaimGoes,
     Granted
<1> QED BY <1>1, <1>2

LEMMA ResultIsOwnKept ==
    ASSUME RunsInv, Next
    PROVE  ResultIsOwn'
<1> SUFFICES ASSUME NEW k \in Runs, results'[k] # NoResult
             PROVE  results'[k].by = k \/ ~results'[k].held
  BY DEF ResultIsOwn
<1>1. CASE results'[k] = results[k]
  BY <1>1 DEF RunsInv, ResultIsOwn
<1>2. ASSUME NEW outcome \in Outcomes, NEW cites \in SUBSET Owed, Accepts(k),
             results'[k] = Drafted(k, outcome, cites)
      PROVE  results'[k].by = k \/ ~results'[k].held
  BY <1>2, FoundIsOwn DEF Drafted
<1> QED BY <1>1, <1>2, ResultSteps

LEMMA CompletionIsVisibleKept ==
    ASSUME RunsInv, Next
    PROVE  CompletionIsVisible'
<1> SUFFICES ASSUME NEW k \in Runs, results'[k].outcome = "published",
                    NEW kind \in Owed' \ results'[k].cites
             PROVE  \E e \in forge' : e.run = k /\ e.kind = kind
  BY DEF CompletionIsVisible
<1>1. Owed' = Owed
  BY LedgerFacts DEF Onward, Owed
<1>2. forge \subseteq forge'
  BY InvParts, CommandSteps DEF RunsInv
<1>3. CASE results'[k] = results[k]
  <2>1. \E e \in forge : e.run = k /\ e.kind = kind
    BY <1>1, <1>3 DEF RunsInv, CompletionIsVisible
  <2> QED BY <1>2, <2>1
<1>4. ASSUME NEW outcome \in Outcomes, NEW cites \in SUBSET Owed,
             outcome = "published" => Owed \subseteq receipts[k] \cup cites,
             results'[k] = Drafted(k, outcome, cites)
      PROVE  \E e \in forge' : e.run = k /\ e.kind = kind
  <2>1. outcome = "published" /\ kind \notin cites
    BY <1>4 DEF Drafted
  <2>2. kind \in receipts[k]
    BY <1>1, <1>4, <2>1
  <2>3. [run |-> k, kind |-> kind] \in forge
    BY <2>2 DEF RunsInv, ReceiptsLanded
  <2> QED BY <1>2, <2>3
<1> QED BY <1>3, <1>4, ResultSteps

LEMMA ReportIsTrueKept ==
    ASSUME RunsInv, Next
    PROVE  ReportIsTrue'
<1> SUFFICES ASSUME NEW k \in Runs
             PROVE  /\ report'[k] \in Failures => fate'[k] = "failed"
                    /\ report'[k] # "none" => agent'[k].at # "alive"
  BY DEF ReportIsTrue, Failures
<1>1. report'[k] # "none" => agent'[k].at # "alive"
  BY InvParts, LedgerFacts, OrderHolds DEF RunOrder
<1>2. row.claim # None => row.claim \in Runs
  BY DEF RunsInv, TypeOK, RowStates
<1>3. CASE report'[k] = report[k]
  <2>1. report[k] \in Failures => fate[k] = "failed"
    BY DEF RunsInv, ReportIsTrue, Failures
  <2>2. Onward
    BY LedgerFacts
  <2>3. fate[k] = "failed" => fate'[k] = "failed"
    BY <2>2 DEF Onward, Settled
  <2> QED BY <1>1, <1>3, <2>1, <2>3
<1>4. CASE report'[k] \notin Failures \/ fate'[k] = "failed"
  BY <1>1, <1>4
<1> QED BY <1>2, <1>3, <1>4, InvParts, FailureIsTaken

-----------------------------------------------------------------------------
(* The theorems                                                            *)

LEMMA InitInv == Init => RunsInv
<1> SUFFICES ASSUME Init PROVE RunsInv
  OBVIOUS
<1>1. row \in RowStates /\ row.claim = None /\ ~row.expired /\ row.status = "queued"
  BY DEF Init, RowStates, Statuses
<1>2. TypeOK /\ RestTyped
  <2>1. folder \in Texts
    BY DEF Init, Nobody, Texts
  <2>2. agent \in [Runs -> [at : {"alive", "gone"}, turns : 0..CorrectiveTurns]]
    BY DEF Init, NoAgent, CorrectiveTurns
  <2> QED BY <1>1, <2>1, <2>2, AgentRunsAssumption DEF Init, TypeOK, RestTyped, Fates, Idle
<1>3. ClaimIsRows /\ AnswersAreRecorded
  BY <1>1, NoneIsNoRun DEF Init, ClaimIsRows, AnswersAreRecorded
<1>4. /\ RunsFollowClaims /\ AgentIsOver /\ LateIsLast /\ ReceiptsLanded
      /\ TextsAreFenced /\ ResultIsOwn /\ ReportIsTrue
  BY DEF Init, RunsFollowClaims, AgentIsOver, LateIsLast, ReceiptsLanded, TextsAreFenced,
     ResultIsOwn, ReportIsTrue, Nobody, NoAgent, Idle
<1>5. CompletionIsVisible
  BY DEF Init, CompletionIsVisible, NoResult
<1> QED BY <1>2, <1>3, <1>4, <1>5 DEF RunsInv

LEMMA NextInv == RunsInv /\ [Next]_vars => RunsInv'
<1> SUFFICES ASSUME RunsInv, [Next]_vars PROVE RunsInv'
  OBVIOUS
<1>1. CASE Next
  <2>1. LedgerInv' /\ Onward
    BY <1>1, LedgerFacts
  <2>2. TypeOK /\ RestTyped
    BY DEF RunsInv
  <2>3. TypeOK'
    BY <1>1, <2>1, <2>2, SupersTyped, ReportsTyped, AgentsTyped, FilesTyped
       DEF TypeOK, LedgerInv, LedgerTyped, Supers, Places, Whys, Agents
  <2>4. RestTyped'
    BY <1>1, <2>2, AgentsTyped, FilesTyped, LateKept DEF RestTyped, Commands
  <2>5. ReportIsTrue' /\ ResultIsOwn' /\ CompletionIsVisible'
    BY <1>1, ReportIsTrueKept, ResultIsOwnKept, CompletionIsVisibleKept
  <2>6. RunsFollowClaims' /\ AgentIsOver'
    <3>1. /\ \A j \in Runs : RunOrder(j)'
          /\ \A j \in Runs : fate'[j] = "unissued" => sup'[j].at = "none"
      BY <1>1, <2>1, InvParts, OrderHolds
    <3> QED BY <3>1 DEF RunsFollowClaims, AgentIsOver, RunOrder
  <2>7. LateIsLast' /\ ReceiptsLanded' /\ TextsAreFenced'
    BY <1>1, LateKept, ReceiptsKept, TextsKept
  <2> QED BY <2>1, <2>3, <2>4, <2>5, <2>6, <2>7 DEF RunsInv, LedgerInv
<1>2. CASE UNCHANGED vars
  BY <1>2 DEF vars, RunsInv, TypeOK, RestTyped, ClaimIsRows, AnswersAreRecorded,
     RunsFollowClaims, AgentIsOver, LateIsLast, ReceiptsLanded, TextsAreFenced,
     ResultIsOwn, CompletionIsVisible, ReportIsTrue, Settled, Owed
<1> QED BY <1>1, <1>2

\* The inductive invariant: claims, rows and answers agree; nothing of a run
\* exists before its claim; a supervisor past its watching has ended its agent;
\* receipts are of landed writes; texts written under a claim are fenced off.
THEOREM RunsInvariant == Spec => []RunsInv
  BY InitInv, NextInv, PTL DEF Spec

\* No run records, as its own, a text that another run left in the task's
\* folder under its claim (_repository_result, draft).
THEOREM ResultsAreOwn == Spec => []ResultIsOwn
<1>1. RunsInv => ResultIsOwn
  BY DEF RunsInv
<1> QED BY <1>1, RunsInvariant, PTL

\* What is recorded as published has landed, or is cited, kind by kind
\* (_required_repository_receipt_kinds, forge_action).
THEOREM CompletionsAreVisible == Spec => []CompletionIsVisible
<1>1. RunsInv => CompletionIsVisible
  BY DEF RunsInv
<1> QED BY <1>1, RunsInvariant, PTL

\* However long an agent outlives its claim, one write of its is late at most:
\* the one its last checked command was in the middle of.
THEOREM LateWritesAreFew == Spec => []OneLateWrite
<1>1. RunsInv => OneLateWrite
  BY DEF RunsInv, RestTyped, OneLateWrite
<1> QED BY <1>1, RunsInvariant, PTL

\* A supervisor that reports a failure is believed by the ledger, and one that
\* reports anything has ended its agent (_terminal_result, _fail_claim).
THEOREM ReportsAreTrue == Spec => []ReportIsTrue
<1>1. RunsInv => ReportIsTrue
  BY DEF RunsInv
<1> QED BY <1>1, RunsInvariant, PTL

-----------------------------------------------------------------------------
(* The ledger the runs use is the one ClaimLedger promises                 *)

LEMMA SameCardinality ==
    ASSUME NEW S
    PROVE  Ledger!Cardinality(S) = Cardinality(S)
BY DEF Ledger!Cardinality, Cardinality

LEMMA SlotsCounted ==
    ASSUME Slots # {}
    PROVE  Ledger!Cardinality({}) < Ledger!Cardinality(Slots)
<1>1. Cardinality(Slots) \in Nat /\ Cardinality(Slots) # 0
  BY AgentRunsAssumption, FS_CardinalityType, FS_EmptySet
<1>2. Cardinality({}) = 0
  BY FS_EmptySet
<1> QED BY <1>1, <1>2, SameCardinality

\* The claims the row holds, as ClaimLedger counts them.
LEMMA HeldByTheTask ==
    ASSUME row.claim # None
    PROVE  "task" \in Ledger!Held
  BY DEF Ledger!Held

LEMMA ClaimGoesRefines ==
    ASSUME RunsInv, ClaimGoes
    PROVE  Ledger!Next
<1> DEFINE S == {"task"}
<1>1. PICK s \in Statuses \ {"running"},
           f \in {"released", "failed", "expired", "cancelled"} : Ends(s, f)
  BY DEF ClaimGoes
<1>2. row \in RowStates /\ fate \in [Runs -> Fates] /\ row.claim \in Runs
  BY DEF RunsInv, TypeOK, RowStates, ClaimGoes
<1> DEFINE end == [t \in S |-> f]
<1>3. S \in SUBSET Ledger!Held
  BY HeldByTheTask DEF ClaimGoes
<1>4. [t \in {"task"} |-> row'.claim] = Ledger!Freed(S)
  <2>1. row'.claim = None
    BY <1>1, <1>2 DEF Ends, RowStates
  <2> QED BY <2>1 DEF Ledger!Freed
<1>5. end \in [S -> Ledger!Ends \ {"recorded"}]
  BY DEF Ledger!Ends
<1>6. fate' = Ledger!Ended(S, end)
  <2>1. ASSUME NEW k \in Runs
        PROVE  Ledger!Ended(S, end)[k] = IF row.claim = k THEN f ELSE fate[k]
    <3> DEFINE c == CHOOSE t \in S : [u \in {"task"} |-> row.claim][t] = k
    <3>1. CASE row.claim = k
      <4>1. \E t \in S : [u \in {"task"} |-> row.claim][t] = k
        BY <3>1
      <4>2. c \in S
        BY <4>1
      <4>3. Ledger!Ended(S, end)[k] = end[c]
        BY <4>1 DEF Ledger!Ended
      <4> HIDE DEF c
      <4> QED BY <3>1, <4>2, <4>3
    <3>2. CASE row.claim # k
      <4>1. ~ \E t \in S : [u \in {"task"} |-> row.claim][t] = k
        BY <3>2
      <4> QED BY <3>2, <4>1 DEF Ledger!Ended
    <3> QED BY <3>1, <3>2
  <2>2. Ledger!Ended(S, end) = [k \in Runs |-> Ledger!Ended(S, end)[k]]
    BY DEF Ledger!Ended
  <2>3. fate' = [k \in Runs |-> IF row.claim = k THEN f ELSE fate[k]]
    BY <1>1, <1>2 DEF Ends
  <2> QED BY <2>1, <2>2, <2>3
<1>7. UNCHANGED results
  BY DEF ClaimGoes
<1>8. Ledger!LetGo(S)
  BY <1>4, <1>5, <1>6, <1>7 DEF Ledger!LetGo
<1> QED BY <1>3, <1>8 DEF Ledger!Next

LEMMA GrantedRefines ==
    ASSUME RunsInv, Granted
    PROVE  Ledger!Next
<1>1. PICK k \in Runs : /\ fate[k] = "unissued"
                        /\ row' = [row EXCEPT !.status = "running", !.claim = k]
                        /\ fate' = [fate EXCEPT ![k] = "live"]
  BY DEF Granted
<1>2. row \in RowStates /\ fate \in [Runs -> Fates]
  BY DEF RunsInv, TypeOK
<1>3. Ledger!Held = {}
  BY DEF Granted, Ledger!Held
<1>4. Ledger!Cardinality(Ledger!Held \ {}) < Ledger!Cardinality(Slots)
  BY <1>3, SlotsCounted DEF Granted
<1>5. [t \in {"task"} |-> row'.claim] = [Ledger!Freed({}) EXCEPT !["task"] = k]
  <2>1. row'.claim = k
    BY <1>1, <1>2 DEF RowStates
  <2> QED BY <2>1 DEF Ledger!Freed
<1>6. \E end \in [{} -> Ledger!Ends \ {"recorded"}] :
        fate' = [Ledger!Ended({}, end) EXCEPT ![k] = "live"]
  <2> DEFINE end == [t \in {} |-> "released"]
  <2>1. end \in [{} -> Ledger!Ends \ {"recorded"}]
    OBVIOUS
  <2>2. Ledger!Ended({}, end) = fate
    BY <1>2 DEF Ledger!Ended
  <2> QED BY <1>1, <2>1, <2>2
<1>7. "task" \notin Ledger!Held \ {} /\ {} \in SUBSET Ledger!Held
  BY <1>3
<1>8. Ledger!Grants({}, "task", k)
  <2>1. UNCHANGED results
    BY DEF Granted
  <2> QED BY <1>1, <1>4, <1>5, <1>6, <1>7, <2>1, SameCardinality DEF Ledger!Grants
<1> QED BY <1>7, <1>8 DEF Ledger!Next

LEMMA AnsweredRefines ==
    ASSUME RunsInv, Answered
    PROVE  Ledger!Next
<1>1. PICK k \in Runs, outcome \in Outcomes, cites \in SUBSET Owed :
        /\ Accepts(k)
        /\ Found(k) # Nobody
        /\ Records(k, Drafted(k, outcome, cites))
  BY DEF Answered
<1> DEFINE r == Drafted(k, outcome, cites)
<1>2. r # NoResult
  BY <1>1, DraftIsResult DEF RunsInv
<1>3. results' = [results EXCEPT ![k] = r] /\ fate' = [fate EXCEPT ![k] = "recorded"]
  BY <1>1 DEF Records
<1> HIDE DEF r
<1>4. row \in RowStates /\ results \in [Runs -> Results \cup {NoResult}]
  BY DEF RunsInv, TypeOK
<1>5. row.claim = k /\ k # None
  BY <1>1, NoneIsNoRun DEF Accepts
<1>6. row'.claim = None
  BY <1>1, <1>4 DEF Records, RowStates
<1>7. "task" \in Ledger!Held
  BY <1>5, HeldByTheTask
<1>8. [t \in {"task"} |-> row'.claim] = Ledger!Freed({"task"})
  BY <1>6 DEF Ledger!Freed
<1>9. {j \in Runs : results'[j] # NoResult} = {j \in Runs : results[j] # NoResult} \cup {row.claim}
  BY <1>2, <1>3, <1>4, <1>5
<1>10. Ledger!Returns("task")
  BY <1>3, <1>5, <1>7, <1>8, <1>9 DEF Ledger!Returns
<1> QED BY <1>10 DEF Ledger!Next

\* However the supervisors, the agents and the reader interleave, the task's
\* claims are issued once, to one run at a time, end once, and are answered by
\* their holder only (the claim operations of task_execution.py).
THEOREM LedgerIsKept == Spec => LedgerKept
<1>1. Init => Ledger!Init
  BY DEF Init, Ledger!Init
<1>2. RunsInv /\ [Next]_vars => [Ledger!Next]_(Ledger!ledgerVars)
  <2> SUFFICES ASSUME RunsInv, [Next]_vars
               PROVE  Ledger!Next \/ UNCHANGED Ledger!ledgerVars
    OBVIOUS
  <2>1. CASE UNCHANGED vars
    BY <2>1 DEF vars, Ledger!ledgerVars
  <2>2. CASE Next
    <3>1. LedgerMoves
      BY <2>2, LedgerFacts
    <3>2. CASE UNCHANGED ledgerVars \/ TimeRunsOut \/ IdleRowMoves
      <4>1. row'.claim = row.claim /\ UNCHANGED <<fate, results>>
        BY <3>2 DEF ledgerVars, TimeRunsOut, IdleRowMoves, RunsInv, TypeOK, RowStates
      <4> QED BY <4>1 DEF Ledger!ledgerVars
    <3> QED BY <3>1, <3>2, ClaimGoesRefines, GrantedRefines, AnsweredRefines
            DEF LedgerMoves
  <2> QED BY <2>1, <2>2
<1> QED BY <1>1, <1>2, RunsInvariant, PTL DEF Spec, LedgerKept, Ledger!Spec
=============================================================================
