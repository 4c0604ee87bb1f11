-------------------------- MODULE MCExecutionCards --------------------------
(* Instances of ExecutionCards for TLC. *)
EXTENDS ExecutionCards

CONSTANTS t1, t2, drip, view

OneEach == [c \in Consumers |-> [decision |-> 1, steer |-> 1]]
=============================================================================
