----------------------------- MODULE Coroutine -----------------------------
(***************************************************************************)
(* One workflow coroutine of the SDK and the goroutines it starts: the     *)
(* futures of a timer, of a child workflow and of an activity, a Selector  *)
(* over them and a Channel, and the cancellation that ends the wait        *)
(* (pkg/sdk/workflow: future, timer, selector, child; pkg/sdk/worker: env, *)
(* replay, dispatch).                                                      *)
(*                                                                         *)
(* The coroutine runs under one of the two CoroutineEnvs.  Under workerEnv *)
(* it is one decision episode of a workflow task: the root scope is        *)
(* canceled by cancelAll when the episode is over, e.ctx when the worker   *)
(* stops.  Under StubEnv goroutines of the test share the channel with it. *)
(* What the workflow function does next is left open; MaxWaits bounds it.  *)
(***************************************************************************)
EXTENDS Channel

CONSTANTS
  Main,          \* the goroutine of the workflow function
  Envs,          \* subset of {"worker", "stub"}
  Cases,         \* the cases of the function's Selector, in order
  TimedSelect,   \* the function adds a running timer to every Selector
  MaxWaits       \* per env, bound on the calls the function makes

ASSUME CoroutineAssumption ==
  /\ Main \in Goroutines /\ Envs \subseteq {"worker", "stub"}
  /\ Cases \in Seq({"timer", "child", "activity", "chan"})
  /\ TimedSelect \in BOOLEAN /\ MaxWaits \in [{"worker", "stub"} -> Nat]

VARIABLES
  env,       \* the CoroutineEnv
  pc,        \* the workflow function: "run", inside Select, inside Get of a future,
             \* "returned", or "over" when the task's deferred calls have run
  waits,     \* number of calls the function has made
  fut,       \* the futures; "blocked" is the future of an unresolved activity
  timer,     \* the goroutine of the timer: "off", "parked", "fired"
  child,     \* the goroutine of the child: "off", "rpc", "started"
  merged,    \* the goroutines that merge root.done and ctx.Done into cancelCh
  ctxDone,   \* e.ctx is done: the worker stops, or the task is over
  wakeCh     \* indices of the cases that became ready during this Select

coroVars == <<env, pc, waits, fut, timer, child, merged, ctxDone, wakeCh>>
coroutineVars == <<chanVars, coroVars>>

Futures == {"timer", "child", "execution", "activity"}
rootDone == Main \in canceled

CoroutineAt(here) ==
  /\ ChannelInit
  /\ env \in Envs /\ pc = here /\ waits = 0
  /\ fut = [f \in Futures |-> "none"]
  /\ timer = "off" /\ child = "off" /\ ctxDone = FALSE /\ wakeCh = <<>>
  /\ merged = [g \in {"timer", "select"} |-> "off"]

CoroutineInit == CoroutineAt("run")

(* Settle: the first call wins. *)
Settle(f, v) == [fut EXCEPT ![f] = IF @ = "pending" THEN v ELSE @]
Settled(f) == fut[f] \in {"value", "error"}

Running == pc = "run" /\ Inside(Main, "none") /\ waits < MaxWaits[env]
Calls == Running /\ waits' = waits + 1

-----------------------------------------------------------------------------
(* Timers.  workerEnv.NewTimer starts a goroutine that merges the two
   cancellations and the timer's own goroutine; StubEnv.NewTimer hands the
   root scope's done channel to the timer.  d <= 0 settles at once. *)
NewWallClockTimer ==
  /\ Calls /\ fut["timer"] = "none"
  /\ \/ /\ fut' = [fut EXCEPT !["timer"] = "value"] /\ UNCHANGED timer
     \/ /\ fut' = [fut EXCEPT !["timer"] = "pending"] /\ timer' = "parked"
  /\ UNCHANGED <<chanVars, env, pc, child, ctxDone, wakeCh>>

NewTimer ==
  /\ env = "worker" /\ NewWallClockTimer
  /\ merged' = [merged EXCEPT !["timer"] = "open"]

StubNewTimer == env = "stub" /\ NewWallClockTimer /\ UNCHANGED merged

(* doneCh of a timer and of a Select. *)
DoneCh(g) == IF env = "worker" THEN merged[g] = "closed" ELSE rootDone

Merge(g) ==
  /\ merged[g] = "open" /\ (rootDone \/ ctxDone)
  /\ merged' = [merged EXCEPT ![g] = "closed"]
  /\ UNCHANGED <<chanVars, env, pc, waits, fut, timer, child, ctxDone, wakeCh>>

(* The clock runs out: the goroutine's select takes t.C. *)
TimerFires ==
  /\ timer = "parked"
  /\ timer' = "fired"
  /\ UNCHANGED <<chanVars, env, pc, waits, fut, child, merged, ctxDone, wakeCh>>

(* The goroutine settles its future: cancellation is looked at once more after
   t.C, so that it wins when both are there. *)
TimerSettles ==
  /\ timer = "fired" \/ (timer = "parked" /\ DoneCh("timer"))
  /\ fut' = Settle("timer", IF DoneCh("timer") THEN "error" ELSE "value")
  /\ timer' = "off"
  /\ UNCHANGED <<chanVars, env, pc, waits, child, merged, ctxDone, wakeCh>>

(* Sleep waits for the clock or a cancellation and goes on either way; under
   StubEnv it only moves the stub's clock. *)
Sleep ==
  /\ env = "worker" /\ Calls
  /\ UNCHANGED <<chanVars, env, pc, fut, timer, child, merged, ctxDone, wakeCh>>

StubSleep ==
  /\ env = "stub" /\ Calls
  /\ UNCHANGED <<chanVars, env, pc, fut, timer, child, merged, ctxDone, wakeCh>>

-----------------------------------------------------------------------------
(* Child workflows.  workerEnv starts a goroutine that sends StartChildWorkflow;
   StubEnv settles both futures before it returns. *)
ExecuteChildWorkflow ==
  /\ env = "worker" /\ Calls /\ fut["child"] = "none"
  /\ fut' = [fut EXCEPT !["child"] = "pending", !["execution"] = "pending"]
  /\ child' = "rpc"
  /\ UNCHANGED <<chanVars, env, pc, timer, merged, ctxDone, wakeCh>>

StubExecuteChildWorkflow ==
  /\ env = "stub" /\ Calls /\ fut["child"] = "none"
  /\ \E r \in {"value", "error"} :
       fut' = [fut EXCEPT !["child"] = r, !["execution"] = "value"]
  /\ UNCHANGED <<chanVars, env, pc, timer, child, merged, ctxDone, wakeCh>>

(* The answer of the server, or an error; a canceled context is one. *)
ChildStarted ==
  /\ child = "rpc" /\ ~ctxDone
  /\ fut' = Settle("execution", "value") /\ child' = "started"
  /\ UNCHANGED <<chanVars, env, pc, waits, timer, merged, ctxDone, wakeCh>>

ChildFailsHalf ==  \* mutant
  /\ child = "rpc"
  /\ fut' = Settle("execution", "error") /\ child' = "off"
  /\ UNCHANGED <<chanVars, env, pc, waits, timer, merged, ctxDone, wakeCh>>

ChildFails ==
  /\ child = "rpc"
  /\ fut' = [Settle("child", "error") EXCEPT !["execution"] = "error"]
  /\ child' = "off"
  /\ UNCHANGED <<chanVars, env, pc, waits, timer, merged, ctxDone, wakeCh>>

(* One round of backoff, then the execution stands in for the result; or a
   cancellation. *)
ChildSettles ==
  /\ child = "started"
  /\ \E r \in {"value"} \cup (IF rootDone \/ ctxDone THEN {"error"} ELSE {}) :
       fut' = Settle("child", r)
  /\ child' = "off"
  /\ UNCHANGED <<chanVars, env, pc, waits, timer, merged, ctxDone, wakeCh>>

-----------------------------------------------------------------------------
(* CallActivity is workerEnv.ExecuteActivity: it settles the future from
   history, or returns the blockedFuture; StubEnv always settles it. *)
CallActivity ==
  /\ env = "worker" /\ Calls /\ fut["activity"] = "none"
  /\ \E r \in {"value", "error", "blocked"} : fut' = [fut EXCEPT !["activity"] = r]
  /\ UNCHANGED <<chanVars, env, pc, timer, child, merged, ctxDone, wakeCh>>

StubCallActivity ==
  /\ env = "stub" /\ Calls /\ fut["activity"] = "none"
  /\ \E r \in {"value", "error"} : fut' = [fut EXCEPT !["activity"] = r]
  /\ UNCHANGED <<chanVars, env, pc, timer, child, merged, ctxDone, wakeCh>>

(* Get on a blockedFuture panics with the sentinel, which ends the episode ... *)
GetBlocked ==
  /\ Calls /\ fut["activity"] = "blocked"
  /\ pc' = "returned"
  /\ UNCHANGED <<chanVars, env, fut, timer, child, merged, ctxDone, wakeCh>>

(* ... and on another one waits until it is settled or the scope is done. *)
GetWaits ==
  /\ Calls
  /\ \E f \in {"timer", "child"} : fut[f] # "none" /\ pc' = f
  /\ UNCHANGED <<chanVars, env, fut, timer, child, merged, ctxDone, wakeCh>>

GetReturns ==
  /\ pc \in {"timer", "child"}
  /\ rootDone \/ Settled(pc)
  /\ pc' = "run"
  /\ UNCHANGED <<chanVars, env, waits, fut, timer, child, merged, ctxDone, wakeCh>>

-----------------------------------------------------------------------------
(* Select.  The cases the function has something to wait for; readyIndex is
   the first one that is ready. *)
Added(i) == Cases[i] \in Futures => fut[Cases[i]] # "none"
Ready(i) == IF Cases[i] = "chan" THEN hasValue ELSE Settled(Cases[i])
ReadyCases == {i \in 1 .. Len(Cases) : Added(i) /\ Ready(i)}
OnChannel == \E i \in 1 .. Len(Cases) : Cases[i] = "chan"

(* A Selector with a default, or with a case that is ready, does not wait. *)
SelectAtOnce ==
  /\ Calls
  /\ UNCHANGED <<chanVars, env, pc, fut, timer, child, merged, ctxDone, wakeCh>>

(* The scan found nothing: one goroutine per case, the waker of the channel
   armed by RegisterReadyWaker, and workerEnv's merging goroutine. *)
SelectFanIn ==
  /\ Calls /\ ReadyCases = {}
  /\ \E i \in 1 .. Len(Cases) : Added(i)
  /\ pc' = "select" /\ wakeCh' = <<>>
  /\ IF OnChannel THEN SelectScans(Main) ELSE UNCHANGED chanVars
  /\ UNCHANGED <<env, fut, timer, child, ctxDone>>

SelectParks ==
  /\ env = "worker" /\ SelectFanIn
  /\ TimedSelect => fut["timer"] # "none"
  /\ merged' = [merged EXCEPT !["select"] = "open"]

StubSelectParks == env = "stub" /\ SelectFanIn /\ UNCHANGED merged

(* The goroutine of case i puts its index on wakeCh. *)
FanIn(i) ==
  /\ pc = "select" /\ ~Inside(Main, "arming") /\ Added(i)
  /\ i \notin Range(wakeCh)
  /\ IF Cases[i] = "chan" THEN Inside(Main, "woken") ELSE Settled(Cases[i])
  /\ wakeCh' = Append(wakeCh, i)
  /\ UNCHANGED <<chanVars, env, pc, waits, fut, timer, child, merged, ctxDone>>

(* Select takes an index (and prefers an earlier case that is ready by now) or
   sees doneCh; it stops its goroutines and runs the case's callback. *)
SelectReturns ==
  /\ pc = "select" /\ ~Inside(Main, "arming")
  /\ wakeCh # <<>> \/ DoneCh("select")
  /\ pc' = "run" /\ wakeCh' = <<>>
  /\ merged' = [merged EXCEPT !["select"] = "off"]
  /\ IF OnChannel THEN SelectLeaves(Main) ELSE UNCHANGED chanVars
  /\ UNCHANGED <<env, waits, fut, timer, child, ctxDone>>

-----------------------------------------------------------------------------
(* The function returns, fails or panics; dispatchWorkflowTask responds ... *)
FunctionReturns ==
  /\ pc = "run" /\ (Inside(Main, "none") \/ Inside(Main, "panic"))
  /\ pc' = "returned"
  /\ UNCHANGED <<chanVars, env, waits, fut, timer, child, merged, ctxDone, wakeCh>>

(* ... and then runs its deferred calls: cancelAll, and the cancel of the
   task's context. *)
CleanupForgetsCancel ==  \* mutant
  /\ pc = "returned" /\ env = "worker"
  /\ pc' = "over"
  /\ UNCHANGED <<chanVars, env, waits, fut, timer, child, merged, ctxDone, wakeCh>>

Cleanup ==
  /\ pc = "returned" /\ env = "worker"
  /\ pc' = "over" /\ canceled' = canceled \cup {Main} /\ ctxDone' = TRUE
  /\ UNCHANGED <<size, signal, buf, closed, recvWaiters, sendWaiters, wakers,
                 call, sent, taken, withdrawn>>
  /\ UNCHANGED <<env, waits, fut, timer, child, merged, wakeCh>>

(* The worker stops. *)
ContextDone ==
  /\ env = "worker" /\ ~ctxDone
  /\ ctxDone' = TRUE
  /\ UNCHANGED <<chanVars, env, pc, waits, fut, timer, child, merged, wakeCh>>

-----------------------------------------------------------------------------
(* The channel, between the function and the goroutines of a test.  A function
   under workerEnv has nobody to talk to and uses the channel in Select only. *)
UseChannel(p) ==
  /\ env = "stub" /\ (p = Main => pc = "run")
  /\ Operate(p)
  /\ UNCHANGED coroVars

ArmWaker == RegisterReadyWaker(Main) /\ UNCHANGED coroVars

(* StubEnv.Cancel and the cancel function of a derived scope. *)
CancelScope(p) == env = "stub" /\ Cancel(p) /\ UNCHANGED coroVars

Signals == env = "stub" /\ SignalAsync /\ UNCHANGED coroVars

Function ==
  \/ NewTimer \/ Sleep \/ ExecuteChildWorkflow \/ CallActivity
  \/ StubNewTimer \/ StubSleep \/ StubExecuteChildWorkflow \/ StubCallActivity
  \/ GetBlocked \/ GetWaits \/ GetReturns
  \/ SelectAtOnce \/ SelectParks \/ StubSelectParks \/ SelectReturns
  \/ FunctionReturns \/ Cleanup

Helpers ==
  \/ TimerFires \/ TimerSettles
  \/ ChildStarted \/ ChildFails \/ ChildSettles
  \/ \E g \in {"timer", "select"} : Merge(g)
  \/ \E i \in 1 .. Len(Cases) : FanIn(i)

CoroutineNext ==
  \/ Function \/ Helpers \/ ArmWaker \/ ContextDone \/ Signals
  \/ \E p \in Goroutines : UseChannel(p) \/ CancelScope(p)

(* Goroutines run, the clock advances and calls over the wire end; the
   function is finite, and arms the waker of its Select. *)
CoroutineFairness ==
  /\ WF_coroutineVars(Function)
  /\ WF_coroutineVars(TimerFires) /\ WF_coroutineVars(TimerSettles)
  /\ WF_coroutineVars(ChildFails \/ ChildSettles)
  /\ \A g \in {"timer", "select"} : WF_coroutineVars(Merge(g))
  /\ \A i \in 1 .. Len(Cases) : WF_coroutineVars(FanIn(i))
  /\ WF_coroutineVars(ArmWaker)

(* Every workflow task a worker takes is answered: the function gets out of
   each wait (a Select whose channel became readable between the scan and the
   arming of the waker included), and runWorkflowEpisode returns. *)
EpisodeEnds == env = "worker" ~> pc \in {"returned", "over"}

(* When the task is over, so are the goroutines it started: timers, children
   and the goroutines that merge cancellations (env.go, cancelAll: "so any
   goroutines unblock"). *)
NoGoroutineLeaks ==
  pc = "over" ~> /\ timer = "off" /\ child = "off"
                 /\ \A g \in {"timer", "select"} : merged[g] # "open"
=============================================================================
