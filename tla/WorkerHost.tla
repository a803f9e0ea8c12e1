----------------------------- MODULE WorkerHost -----------------------------
(***************************************************************************)
(* The lifecycle of an SDK worker (pkg/sdk/worker: worker, pollers,        *)
(* dispatch; pkg/sdk/client/worker_transport): Start subscribes for        *)
(* workflow and for activity tasks, the server pushes tasks, each delivery *)
(* becomes a goroutine that waits for its limit, runs the registered       *)
(* function and responds; Stop closes stopCh, unsubscribes and waits.      *)
(* Start, Stop, deliveries and tasks run in goroutines of their own.       *)
(***************************************************************************)
EXTENDS Integers, FiniteSets

CONSTANTS
  Tasks,        \* the tasks the server may push
  Kind,         \* Kind[t] is "wf" or "act"
  ExecSize      \* MaxConcurrentWorkflowTaskExecutionSize; 0 is no cap

ASSUME WorkerAssumption ==
  Kind \in [Tasks -> {"wf", "act"}] /\ ExecSize \in Nat

VARIABLES
  starter,      \* Start: "new", "wf", "act" (about to subscribe), "ok", "failed"
  stopper,      \* Stop: "new", "unsub", "wait", "done"
  stopCh,       \* stopCh is closed
  subID,        \* w.workflowSubID and w.activitySubID are set
  subs,         \* the subscriptions the server holds
  task,         \* per task, where it is
  beating,      \* activity tasks whose autoHeartbeat goroutine runs
  wg            \* tasks counted by w.wg

workerVars == <<starter, stopper, stopCh, subID, subs, task, beating, wg>>

Kinds == {"wf", "act"}
InTask(t, s) == task[t] = s
Goes(t, s) == task' = [task EXCEPT ![t] = s]

WorkerInit ==
  /\ starter = "new" /\ stopper = "new" /\ stopCh = FALSE
  /\ subID = {} /\ subs = {} /\ wg = {} /\ beating = {}
  /\ task = [t \in Tasks |-> "none"]

-----------------------------------------------------------------------------
(* Start, once: without a transport or a task queue it fails ... *)
StartFails ==
  /\ starter = "new" /\ starter' = "failed"
  /\ UNCHANGED <<stopper, stopCh, subID, subs, task, beating, wg>>

(* ... else startSubscriptions installs the delivery handlers and subscribes. *)
Start ==
  /\ starter = "new" /\ starter' = "wf"
  /\ UNCHANGED <<stopper, stopCh, subID, subs, task, beating, wg>>

(* Subscribe reaches the server; its answer is stored under subMu.  When the
   worker stops meanwhile, the canceled context may fail the call although the
   server has the subscription. *)
Subscribe(k) ==
  /\ starter = k
  /\ \/ /\ subs' = subs \cup {k}
        /\ \/ /\ subID' = subID \cup {k}
              /\ starter' = IF k = "wf" THEN "act" ELSE "ok"
           \/ /\ stopCh /\ starter' = "failed" /\ UNCHANGED subID
     \/ /\ starter' = "failed" /\ UNCHANGED <<subID, subs>>
  /\ UNCHANGED <<stopper, stopCh, task, beating, wg>>

(* Stop, once: close stopCh; take the subscription ids, ... *)
Stop ==
  /\ stopper = "new"
  /\ stopper' = "unsub" /\ stopCh' = TRUE
  /\ UNCHANGED <<starter, subID, subs, task, beating, wg>>

(* ... unsubscribe the ones that are set, ... *)
Unsubscribe ==
  /\ stopper = "unsub"
  /\ subs' = subs \ subID /\ subID' = {}
  /\ stopper' = "wait"
  /\ UNCHANGED <<starter, stopCh, task, beating, wg>>

(* ... and wait for the tasks that w.wg counts. *)
WaitDone ==
  /\ stopper = "wait" /\ wg = {}
  /\ stopper' = "done"
  /\ UNCHANGED <<starter, stopCh, subID, subs, task, beating, wg>>

-----------------------------------------------------------------------------
(* The server pushes a task to a subscription; the transport's goroutine
   decodes it and calls the worker. *)
Push(t) ==
  /\ InTask(t, "none") /\ Kind[t] \in subs
  /\ Goes(t, "pushed")
  /\ UNCHANGED <<starter, stopper, stopCh, subID, subs, beating, wg>>

(* dispatchPushed*Task: a stopped worker drops the task; ... *)
Check(t) ==
  /\ InTask(t, "pushed")
  /\ Goes(t, IF stopCh THEN "dropped" ELSE "checked")
  /\ UNCHANGED <<starter, stopper, stopCh, subID, subs, beating, wg>>

(* ... else w.wg counts it and its goroutine starts. *)
Spawn(t) ==
  /\ InTask(t, "checked")
  /\ Goes(t, "waiting") /\ wg' = wg \cup {t}
  /\ UNCHANGED <<starter, stopper, stopCh, subID, subs, beating>>

Slots == {t \in Tasks : Kind[t] = "wf" /\ InTask(t, "running")}

(* A workflow task waits for a slot of workflowExecSem ... *)
AcquireKeepsSlot(t) ==  \* mutant
  /\ InTask(t, "waiting") /\ Kind[t] = "wf"
  /\ ExecSize > 0 =>
       Cardinality({u \in Tasks : Kind[u] = "wf" /\ task[u] \in {"running", "answered", "lost"}})
         < ExecSize
  /\ Goes(t, "running")
  /\ UNCHANGED <<starter, stopper, stopCh, subID, subs, beating, wg>>

Acquire(t) ==
  /\ InTask(t, "waiting") /\ Kind[t] = "wf"
  /\ ExecSize > 0 => Cardinality(Slots) < ExecSize
  /\ Goes(t, "running")
  /\ UNCHANGED <<starter, stopper, stopCh, subID, subs, beating, wg>>

(* ... and an activity task for the rate limiters; one with a heartbeat timeout
   starts autoHeartbeat. *)
PassLimiters(t) ==
  /\ InTask(t, "waiting") /\ Kind[t] = "act"
  /\ Goes(t, "running")
  /\ beating' \in {beating, beating \cup {t}}
  /\ UNCHANGED <<starter, stopper, stopCh, subID, subs, wg>>

(* The wait is abandoned when the worker stops. *)
GiveUp(t) ==
  /\ InTask(t, "waiting") /\ stopCh
  /\ Goes(t, "dropped") /\ wg' = wg \ {t}
  /\ UNCHANGED <<starter, stopper, stopCh, subID, subs, beating>>

(* The response.  The connection is up; once stopCh is closed the context of
   the call is canceled and the response may be lost. *)
Responds(t) ==
  /\ \/ Goes(t, "answered")
     \/ stopCh /\ Goes(t, "lost")
  /\ wg' = wg \ {t}
  /\ UNCHANGED <<starter, stopper, stopCh, subID, subs, beating>>

(* dispatchWorkflowTask ends on every path (unknown type, history or input that
   does not decode, a function that blocks, fails, panics or returns) with one
   response, ... *)
RespondWorkflow(t) ==
  /\ InTask(t, "running") /\ Kind[t] = "wf"
  /\ Responds(t)

(* ... and so does dispatchActivityTask, for a panic in its deferred call; the
   cancel of the context ends autoHeartbeat, if nothing did before. *)
RespondActivity(t) ==
  /\ InTask(t, "running") /\ Kind[t] = "act"
  /\ Responds(t)

HeartbeatEnds(t) ==
  /\ t \in beating /\ ~InTask(t, "running")
  /\ beating' = beating \ {t}
  /\ UNCHANGED <<starter, stopper, stopCh, subID, subs, task, wg>>

TaskStep(t) ==
  \/ Check(t) \/ Spawn(t) \/ Acquire(t) \/ PassLimiters(t) \/ GiveUp(t)
  \/ RespondWorkflow(t) \/ RespondActivity(t) \/ HeartbeatEnds(t)

WorkerNext ==
  \/ StartFails \/ Start \/ (\E k \in Kinds : Subscribe(k))
  \/ Stop \/ Unsubscribe \/ WaitDone
  \/ \E t \in Tasks : Push(t) \/ TaskStep(t)

(* Goroutines run, functions return, calls end; the senders of a Go channel
   (workflowExecSem) are served in order, hence the strong fairness. *)
WorkerFairness ==
  /\ WF_workerVars(Unsubscribe) /\ WF_workerVars(WaitDone)
  /\ \A t \in Tasks :
       /\ WF_workerVars(Check(t) \/ Spawn(t) \/ PassLimiters(t)
                         \/ RespondWorkflow(t) \/ RespondActivity(t))
       /\ SF_workerVars(Acquire(t) \/ GiveUp(t))

(* Every task pushed to a worker is answered, unless the worker stops, and then Stop
   returns: the cap on concurrent workflow tasks delays a task and never strands it,
   every way out of a dispatch responds, and Stop's Wait is stuck behind none. *)
TasksAnswered ==
  \A t \in Tasks : InTask(t, "pushed") ~> InTask(t, "answered") \/ stopper = "done"
=============================================================================
