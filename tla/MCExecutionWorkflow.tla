------------------------ MODULE MCExecutionWorkflow ------------------------
(***************************************************************************)
(* Instances of ExecutionWorkflow for TLC.  A .cfg names the tasks of each *)
(* kind directly; only functions and sets of sets are defined here.        *)
(***************************************************************************)
EXTENDS ExecutionWorkflow

CONSTANTS t1, t2

EveryPhase == {Phases}
PlansOrAll == {Phases, {"plan"}}

OneTier  == [t \in Tasks |-> 0]
TwoTiers == [t \in Tasks |-> IF t = t1 THEN 0 ELSE 1]
=============================================================================
