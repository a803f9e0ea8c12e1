---------------------------- MODULE MCDispatcher ----------------------------
(* Instances of Dispatcher for TLC: two workers and the two kinds of one task
   queue; the tasks are workflow tasks. *)
EXTENDS Dispatcher, TLC

CONSTANTS wf, act

WorkflowTasks == [t \in Tasks |-> wf]
=============================================================================
