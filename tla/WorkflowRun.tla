---------------------------- MODULE WorkflowRun ----------------------------
(***************************************************************************)
(* One workflow run of the engine (pkg/tasks/engine.go, durable.go and the *)
(* respond handlers of embed.go), at the grain of its store: every put,    *)
(* get or del of a shard is one atomic statement, and nothing makes two of *)
(* them atomic together.  Handlers run in goroutines (Threads).  Some hold *)
(* the run's mutex from their first read to their last write, some never   *)
(* take it.  The process may stop between any two writes; what survives is *)
(* the shard: row, hist, open and act.                                     *)
(*                                                                         *)
(*   row   wf/<ns>/<wf>/<run>       status and HistoryLen                  *)
(*   hist  wfh/<ns>/<wf>/<run>/<n>  the event stored under EventId n       *)
(*   open  wfopen/<ns>/<wf>/<run>   the entry of the open-run index        *)
(*   act   wfact/<ns>/<wf>/<run>/<seq>  the activity records               *)
(*                                                                         *)
(* The worker is the deterministic decider of pkg/sdk/worker: the commands *)
(* it answers a workflow task with are a function of the history the task  *)
(* carries, so a task is kept as the batch of commands it will produce.    *)
(***************************************************************************)
EXTENDS Naturals, Sequences, FiniteSets

CONSTANTS
  Threads,      \* goroutines that run handlers, timers and recovery
  NoThread,     \* the holder of a free run lock
  Seqs,         \* command sequence numbers of the workflow's activities
  Deps,         \* Deps[s]: the activities awaited before s is called
  MaxAttempts,  \* MaxAttempts[s]: effectiveRetryPolicy(...).MaximumAttempts of s
  Calls,        \* the client calls that are made on the run
  Eager,        \* clients and workers do not wait for boot and start to return
  MaxCalls,     \* bound: client calls
  MaxCrashes,   \* bound: process stops
  MaxErrors     \* bound: store writes that return an error

NoSeq == 0

ASSUME ThreadAssumption == NoThread \notin Threads /\ IsFiniteSet(Threads)
ASSUME SeqAssumption == Seqs \subseteq Nat \ {NoSeq}
ASSUME DepsAssumption == Deps \in [Seqs -> SUBSET Seqs]
ASSUME AttemptAssumption == MaxAttempts \in [Seqs -> Nat \ {0}]
ASSUME CallsAssumption == Calls \subseteq {"signal", "terminate", "cancel", "metadata"}
ASSUME EagerAssumption == Eager \in BOOLEAN
ASSUME BoundAssumption == MaxCalls \in Nat /\ MaxCrashes \in Nat /\ MaxErrors \in Nat

VARIABLES
  row, hist, open, act,       \* the shard
  lock, th,                   \* the run's mutex; the state of each goroutine
  tokens, timers, tasks,      \* activity tasks handed out, armed retries, workflow tasks
  canceling,                  \* the entry of the cancelTracker
  booting,                    \* Recover has not listed the open runs yet
  started,                    \* the client has asked for the run
  calls, crashes, errors      \* what the bounds count

shard == <<row, hist, open, act>>
queues == <<tokens, timers, tasks>>
bounds == <<started, calls, crashes, errors>>
vars == <<row, hist, open, act, lock, th, tokens, timers, tasks, canceling,
          booting, started, calls, crashes, errors>>

-----------------------------------------------------------------------------
(* Values of the shard. *)

OpenStatus == {"RUNNING", "CANCELING"}
TerminalStatus == {"COMPLETED", "FAILED", "CANCELED", "TERMINATED"}
isTerminal(r) == r.st \in TerminalStatus

Rows == [st : {"NONE"} \cup OpenStatus \cup TerminalStatus, len : Nat]
NoRow == [st |-> "NONE", len |-> 0]

WorkflowEvents == {"WF_STARTED", "SIGNALED", "CANCEL_REQUESTED"} \cup TerminalStatus
ActivityEvents == {"ACT_SCHEDULED", "ACT_STARTED", "ACT_COMPLETED", "ACT_FAILED"}
Events == [type : WorkflowEvents \cup ActivityEvents, seq : Seqs \cup {NoSeq}]
WorkflowEvent(type) == [type |-> type, seq |-> NoSeq]
ActivityEvent(type, s) == [type |-> type, seq |-> s]
Outcomes == {"ACT_COMPLETED", "ACT_FAILED"}

ActStatus == {"NONE", "SCHEDULED", "STARTED", "COMPLETED", "FAILED"}
Acts == [st : ActStatus, attempt : Nat]
NoAct == [st |-> "NONE", attempt |-> 0]
ActTerminal(s) == act[s].st \in {"COMPLETED", "FAILED"}
RecordedNever(s) == FALSE                                       \* mutant
Recorded(s) == act[s].st # "NONE"
ActPendingIfPresent(s) == act[s].st # "NONE"                    \* mutant
ActPending(s) == act[s].st \in {"SCHEDULED", "STARTED"}

-----------------------------------------------------------------------------
(* The worker: the command batch a history decides. *)

SeqsOf(h, type) == {s \in Seqs : \E i \in DOMAIN h : h[i] = ActivityEvent(type, s)}

Batches == [sched : SUBSET Seqs, close : {"NONE", "COMPLETED", "FAILED"}]

(* The workflow calls activity s once its Deps[s] have succeeded, reads the
   futures in order, and returns the first failure it reads. *)
Decide(h) ==
  LET done == SeqsOf(h, "ACT_COMPLETED")
      failed == SeqsOf(h, "ACT_FAILED")
      returnsError == \E s \in failed : \A r \in Seqs : r < s => r \in done
  IN [sched |-> {s \in Seqs : /\ Deps[s] \subseteq done
                              /\ s \notin SeqsOf(h, "ACT_SCHEDULED") \cup done \cup failed},
      close |-> IF Seqs \subseteq done THEN "COMPLETED"
                ELSE IF returnsError THEN "FAILED" ELSE "NONE"]

-----------------------------------------------------------------------------
(* Goroutines.  A handler is a sequence of steps named by pc; reg is the copy
   of the row it read last, ev the event it is appending, todo the commands or
   records it has yet to apply, goal the terminal status it is after. *)

LockedOps == {"respond", "activity", "timer", "signal", "recover"}
UnlockedOps == {"start", "terminate", "cancel", "sweep", "metadata"}
Pcs == {"idle", "lock", "startRow", "apRead", "apEvent", "apRow", "ttRead", "ttPut",
        "ttOpen", "cmd", "dispatch", "mint", "settle", "enqueue", "cancelRead",
        "cancelPut", "metaPut", "recRow", "recNext"}

Idle == [op |-> "none", pc |-> "idle", seq |-> NoSeq, out |-> "ok", reg |-> NoRow,
         ev |-> WorkflowEvent("WF_STARTED"), todo |-> {}, goal |-> "NONE"]
ThreadStates ==
  [op : LockedOps \cup UnlockedOps \cup {"none"}, pc : Pcs, seq : Seqs \cup {NoSeq},
   out : {"ok", "retryable", "fatal"}, reg : Rows, ev : Events, todo : SUBSET Seqs,
   goal : {"NONE"} \cup TerminalStatus]

At(t, pc) == th[t].pc = pc
Become(t, r) == th' = [th EXCEPT ![t] = r]
Goto(t, pc) == Become(t, [th[t] EXCEPT !.pc = pc])

(* Leave a subroutine for step pc; its locals die with it. *)
Resume(t, pc) ==
  Become(t, [th[t] EXCEPT !.pc = pc, !.reg = Idle.reg, !.ev = Idle.ev])

(* The handler returns; the deferred unlock runs if it holds the lock. *)
Return(t) ==
  /\ Become(t, Idle)
  /\ lock' = IF lock = t THEN NoThread ELSE lock

(* Call appendHistory(e). *)
StartAppend(t, e) == Become(t, [th[t] EXCEPT !.pc = "apRead", !.ev = e])

(* Where a handler continues once its event is appended. *)
AfterAppend(type) ==
  CASE type = "ACT_SCHEDULED" -> "dispatch"
    [] type = "ACT_STARTED" -> "mint"
    [] type = "CANCEL_REQUESTED" -> "cancelRead"
    [] type \in TerminalStatus -> "idle"
    [] OTHER -> "enqueue"

(* store.put of an event under EventId n *)
PutEvent(h, n, e) == IF n <= Len(h) THEN [h EXCEPT ![n] = e] ELSE Append(h, e)

(* Requests are served from node.Start() on, before Recover has run; a caller
   that is not Eager waits until the server is up and the start has returned. *)
Serving(t) ==
  /\ th[t] = Idle
  /\ Eager \/ (~booting /\ \A u \in Threads : th[u].op \notin {"start", "recover"})

-----------------------------------------------------------------------------
Init ==
  /\ row = NoRow /\ hist = <<>> /\ open = FALSE /\ act = [s \in Seqs |-> NoAct]
  /\ lock = NoThread /\ th = [t \in Threads |-> Idle]
  /\ tokens = [s \in Seqs |-> 0] /\ timers = [s \in Seqs |-> 0]
  /\ tasks = [b \in Batches |-> 0]
  /\ canceling = FALSE /\ booting = TRUE
  /\ started = FALSE /\ calls = 0 /\ crashes = 0 /\ errors = 0

openRunForgotten == UNCHANGED open                             \* mutant
openRun == open' = TRUE

(* startWorkflowFull: index the run, then write its row, then STARTED. *)
Start(t) ==
  /\ Serving(t) /\ ~started
  /\ started' = TRUE
  /\ openRun
  /\ Become(t, [Idle EXCEPT !.op = "start", !.pc = "startRow"])
  /\ UNCHANGED <<row, hist, act, lock, queues, canceling, booting, calls, crashes, errors>>

StartRow(t) ==
  /\ At(t, "startRow")
  /\ row' = [st |-> "RUNNING", len |-> 0]
  /\ StartAppend(t, WorkflowEvent("WF_STARTED"))
  /\ UNCHANGED <<hist, open, act, lock, queues, canceling, booting, bounds>>

(* appendHistory: read the row, put the event under HistoryLen + 1, put the
   whole row back with the new HistoryLen. *)
AppendRead(t) ==
  /\ At(t, "apRead")
  /\ Become(t, [th[t] EXCEPT !.pc = "apEvent", !.reg = row])
  /\ UNCHANGED <<shard, lock, queues, canceling, booting, bounds>>

AppendEvent(t) ==
  /\ At(t, "apEvent")
  /\ hist' = PutEvent(hist, th[t].reg.len + 1, th[t].ev)
  /\ Goto(t, "apRow")
  /\ UNCHANGED <<row, open, act, lock, queues, canceling, booting, bounds>>

AppendRow(t) ==
  /\ At(t, "apRow")
  /\ row' = [th[t].reg EXCEPT !.len = @ + 1]
  /\ IF AfterAppend(th[t].ev.type) = "idle"
       THEN Return(t)
       ELSE Resume(t, AfterAppend(th[t].ev.type)) /\ UNCHANGED lock
  /\ UNCHANGED <<hist, open, act, queues, canceling, booting, bounds>>

(* scheduleWorkflowTask: nothing for a terminal run, else a task that carries
   the history as it is now.  Every caller returns after it. *)
Enqueue(t) ==
  /\ At(t, "enqueue")
  /\ tasks' = IF isTerminal(row) THEN tasks ELSE [tasks EXCEPT ![Decide(hist)] = @ + 1]
  /\ Return(t)
  /\ UNCHANGED <<shard, tokens, timers, canceling, booting, bounds>>

(* terminalTransition: nothing for a terminal run, else closeRun (terminal row,
   then the index entry) and the closing event. *)
TerminalRead(t) ==
  /\ At(t, "ttRead")
  /\ IF row.st \notin OpenStatus
       THEN Return(t)
       ELSE /\ Become(t, [th[t] EXCEPT !.pc = "ttPut", !.reg = row])
            /\ UNCHANGED lock
  /\ UNCHANGED <<shard, queues, canceling, booting, bounds>>

TerminalPut(t) ==
  /\ At(t, "ttPut")
  /\ row' = [th[t].reg EXCEPT !.st = th[t].goal]
  /\ Resume(t, "ttOpen")
  /\ UNCHANGED <<hist, open, act, lock, queues, canceling, booting, bounds>>

TerminalOpen(t) ==
  /\ At(t, "ttOpen")
  /\ open' = FALSE
  /\ StartAppend(t, WorkflowEvent(th[t].goal))
  /\ UNCHANGED <<row, hist, act, lock, queues, canceling, booting, bounds>>

-----------------------------------------------------------------------------
(* lockRun, and the step each entry point takes first under the lock. *)
EntryPoint(op) ==
  CASE op = "respond" -> "cmd"
    [] op = "activity" -> "settle"
    [] op = "timer" -> "dispatch"
    [] op = "signal" -> "apRead"
    [] OTHER -> "recRow"

AcquireAlways(t) == lock' = t                                  \* mutant
Acquire(t) == lock = NoThread /\ lock' = t

LockRun(t) ==
  /\ At(t, "lock")
  /\ Acquire(t)
  /\ Goto(t, EntryPoint(th[t].op))
  /\ UNCHANGED <<shard, queues, canceling, booting, bounds>>

(* respondWorkflowHandler: the token is consumed before the lock is asked for.
   A worker that was pushed a cancel request may acknowledge it instead. *)
Respond(t) ==
  /\ Serving(t)
  /\ \E b \in Batches :
       /\ tasks[b] > 0
       /\ tasks' = [tasks EXCEPT ![b] = @ - 1]
       /\ \/ Become(t, [Idle EXCEPT !.op = "respond", !.pc = "lock",
                                    !.todo = b.sched, !.goal = b.close])
          \/ /\ canceling
             /\ Become(t, [Idle EXCEPT !.op = "respond", !.pc = "lock",
                                       !.goal = "CANCELED"])
  /\ UNCHANGED <<shard, lock, tokens, timers, canceling, booting, bounds>>

(* The least command not applied yet: batches are in program order. *)
IsNext(s, todo) == s \in todo /\ \A r \in todo : s <= r

(* The command loop: applyScheduleActivity does nothing for a record that
   exists, else creates it; a closing command is the last of its batch. *)
Command(t) ==
  /\ At(t, "cmd")
  /\ \/ \E s \in Seqs :
          /\ IsNext(s, th[t].todo)
          /\ IF Recorded(s)
               THEN /\ Become(t, [th[t] EXCEPT !.todo = @ \ {s}])
                    /\ UNCHANGED act
               ELSE /\ act' = [act EXCEPT ![s] = [st |-> "SCHEDULED", attempt |-> 1]]
                    /\ Become(t, [th[t] EXCEPT !.todo = @ \ {s}, !.seq = s,
                                               !.pc = "apRead",
                                               !.ev = ActivityEvent("ACT_SCHEDULED", s)])
          /\ UNCHANGED <<lock, canceling>>
     \/ /\ th[t].todo = {} /\ th[t].goal # "NONE"
        /\ canceling' = (canceling /\ th[t].goal # "CANCELED")
        /\ Goto(t, "ttRead")
        /\ UNCHANGED <<act, lock>>
     \/ /\ th[t].todo = {} /\ th[t].goal = "NONE"
        /\ Return(t)
        /\ UNCHANGED <<act, canceling>>
  /\ UNCHANGED <<row, hist, open, queues, booting, bounds>>

(* dispatchActivityAttempt: STARTED record, ACT_STARTED unless recovering, then
   the dispatcher mints a token.  The retry timer re-checks the record first. *)
Dispatch(t) ==
  LET s == th[t].seq IN
  /\ At(t, "dispatch")
  /\ IF th[t].op = "timer" /\ ActTerminal(s)
       THEN Return(t) /\ UNCHANGED act
       ELSE /\ act' = [act EXCEPT ![s].st = "STARTED"]
            /\ IF th[t].op = "recover"
                 THEN Goto(t, "mint")
                 ELSE StartAppend(t, ActivityEvent("ACT_STARTED", s))
            /\ UNCHANGED lock
  /\ UNCHANGED <<row, hist, open, queues, canceling, booting, bounds>>

Mint(t) ==
  /\ At(t, "mint")
  /\ tokens' = [tokens EXCEPT ![th[t].seq] = @ + 1]
  /\ IF th[t].op = "timer"
       THEN Return(t)
       ELSE /\ Become(t, [th[t] EXCEPT !.seq = NoSeq,
                                       !.pc = IF th[t].op = "respond" THEN "cmd" ELSE "recNext"])
            /\ UNCHANGED lock
  /\ UNCHANGED <<shard, timers, tasks, canceling, booting, bounds>>

(* ResolveActivityToken: a token is good once. *)
TakeTokenTwice(s) == tokens[s] > 0 /\ UNCHANGED tokens           \* mutant
TakeToken(s) == tokens[s] > 0 /\ tokens' = [tokens EXCEPT ![s] = @ - 1]

(* respondActivityCompletedHandler and ...FailedHandler: the token is consumed,
   then completeWorkflowActivity asks for the lock. *)
RespondActivity(t) ==
  /\ Serving(t)
  /\ \E s \in Seqs, out \in {"ok", "retryable", "fatal"} :
       /\ TakeToken(s)
       /\ Become(t, [Idle EXCEPT !.op = "activity", !.pc = "lock", !.seq = s,
                                 !.out = out])
  /\ UNCHANGED <<shard, lock, timers, tasks, canceling, booting, bounds>>

(* RetryPolicy.ShouldRetry at the record's attempt *)
ShouldRetryOnceMore(s, out) ==                                  \* mutant
  out = "retryable" /\ act[s].attempt <= MaxAttempts[s]
ShouldRetry(s, out) == out = "retryable" /\ act[s].attempt < MaxAttempts[s]

(* scheduleActivityRetry arms a timer in memory. *)
ArmTimerForgotten(s) == UNCHANGED timers                        \* mutant
ArmTimer(s) == timers' = [timers EXCEPT ![s] = @ + 1]

(* The terminal status of an outcome, and the event that reports it. *)
OutcomeRecordMixed(out) == "COMPLETED"                          \* mutant
OutcomeRecord(out) == IF out = "ok" THEN "COMPLETED" ELSE "FAILED"
OutcomeEvent(out) == IF out = "ok" THEN "ACT_COMPLETED" ELSE "ACT_FAILED"

(* completeWorkflowActivity under the lock: a terminal record or run ignores
   the outcome; a retry re-schedules the record and arms a timer; a terminal
   outcome is put on the record, then appended, then a task is enqueued. *)
Settle(t) ==
  LET s == th[t].seq IN
  /\ At(t, "settle")
  /\ IF ~ActPending(s) \/ isTerminal(row)
       THEN Return(t) /\ UNCHANGED <<act, timers>>
       ELSE IF ShouldRetry(s, th[t].out)
       THEN /\ act' = [act EXCEPT ![s] = [st |-> "SCHEDULED", attempt |-> @.attempt + 1]]
            /\ ArmTimer(s)
            /\ Return(t)
       ELSE /\ act' = [act EXCEPT ![s].st = OutcomeRecord(th[t].out)]
            /\ StartAppend(t, ActivityEvent(OutcomeEvent(th[t].out), s))
            /\ UNCHANGED <<lock, timers>>
  /\ UNCHANGED <<row, hist, open, tokens, tasks, canceling, booting, bounds>>

(* scheduleActivityRetry: the in-memory timer fires. *)
TimerFires(t) ==
  /\ th[t] = Idle
  /\ \E s \in Seqs :
       /\ timers[s] > 0
       /\ timers' = [timers EXCEPT ![s] = @ - 1]
       /\ Become(t, [Idle EXCEPT !.op = "timer", !.pc = "lock", !.seq = s])
  /\ UNCHANGED <<shard, lock, tokens, tasks, canceling, booting, bounds>>

-----------------------------------------------------------------------------
(* Client calls.  Each reads the row before anything else; only signalWorkflow
   then takes the lock, and it does not look at the row again under it. *)
Call(t, c) ==
  /\ Serving(t)
  /\ c \in Calls /\ calls < MaxCalls
  /\ calls' = calls + 1
  /\ UNCHANGED <<shard, lock, queues, canceling, booting, started, crashes, errors>>

signalWorkflow(t) ==
  /\ Call(t, "signal")
  /\ row.st \in OpenStatus
  /\ Become(t, [Idle EXCEPT !.op = "signal", !.pc = "lock",
                            !.ev = WorkflowEvent("SIGNALED")])

TerminateWorkflow(t) ==
  /\ Call(t, "terminate")
  /\ row.st \in OpenStatus
  /\ Become(t, [Idle EXCEPT !.op = "terminate", !.pc = "ttRead", !.goal = "TERMINATED"])

UpdateWorkflowMetadata(t) ==
  /\ Call(t, "metadata")
  /\ row # NoRow
  /\ Become(t, [Idle EXCEPT !.op = "metadata", !.pc = "metaPut", !.reg = row])

MetadataPut(t) ==
  /\ At(t, "metaPut")
  /\ row' = th[t].reg
  /\ Return(t)
  /\ UNCHANGED <<hist, open, act, queues, canceling, booting, bounds>>

(* CancelWorkflowWithReason of a RUNNING run (of a CANCELING one it only pushes
   the request again): CANCEL_REQUESTED, then the row is read once more. *)
CancelWorkflow(t) ==
  /\ Call(t, "cancel")
  /\ row.st = "RUNNING"
  /\ Become(t, [Idle EXCEPT !.op = "cancel", !.pc = "apRead", !.goal = "CANCELED",
                            !.ev = WorkflowEvent("CANCEL_REQUESTED")])

(* With no subscriber the cancel is acknowledged at once; with one, the copy
   just read is put back as CANCELING and the tracker is marked. *)
CancelRead(t) ==
  /\ At(t, "cancelRead")
  /\ \/ Goto(t, "ttRead")
     \/ Become(t, [th[t] EXCEPT !.pc = "cancelPut", !.reg = row])
  /\ UNCHANGED <<shard, lock, queues, canceling, booting, bounds>>

CancelPut(t) ==
  /\ At(t, "cancelPut")
  /\ row' = [th[t].reg EXCEPT !.st = "CANCELING"]
  /\ canceling' = TRUE
  /\ Return(t)
  /\ UNCHANGED <<hist, open, act, queues, booting, bounds>>

(* sweepCanceling: cancelTimeout passed; AckCanceled clears the tracker first. *)
SweepCanceling(t) ==
  /\ th[t] = Idle /\ canceling
  /\ canceling' = FALSE
  /\ Become(t, [Idle EXCEPT !.op = "sweep", !.pc = "ttRead", !.goal = "CANCELED"])
  /\ UNCHANGED <<shard, lock, queues, booting, bounds>>

-----------------------------------------------------------------------------
(* Process stop: everything that is not in the shard is gone. *)
Crash ==
  /\ crashes < MaxCrashes
  /\ crashes' = crashes + 1
  /\ lock' = NoThread /\ th' = [t \in Threads |-> Idle]
  /\ tokens' = [s \in Seqs |-> 0] /\ timers' = [s \in Seqs |-> 0]
  /\ tasks' = [b \in Batches |-> 0]
  /\ canceling' = FALSE /\ booting' = TRUE
  /\ UNCHANGED <<shard, started, calls, errors>>

(* Recover at boot: list the open index, then recoverRun under the run's lock. *)
Recover(t) ==
  /\ booting /\ th[t] = Idle
  /\ booting' = FALSE
  /\ Become(t, IF open THEN [Idle EXCEPT !.op = "recover", !.pc = "lock"] ELSE Idle)
  /\ UNCHANGED <<shard, lock, queues, canceling, bounds>>

RecoverRow(t) ==
  /\ At(t, "recRow")
  /\ IF row.st \notin OpenStatus
       THEN open' = FALSE /\ Return(t)
       ELSE /\ Become(t, [th[t] EXCEPT !.pc = "recNext",
                                       !.todo = {s \in Seqs : ActPending(s)}])
            /\ UNCHANGED <<open, lock>>
  /\ UNCHANGED <<row, hist, act, queues, canceling, booting, bounds>>

RecoverNext(t) ==
  /\ At(t, "recNext")
  /\ \/ \E s \in Seqs :
          /\ IsNext(s, th[t].todo)
          /\ Become(t, [th[t] EXCEPT !.todo = @ \ {s}, !.seq = s, !.pc = "dispatch"])
     \/ th[t].todo = {} /\ Goto(t, "enqueue")
  /\ UNCHANGED <<shard, lock, queues, canceling, booting, bounds>>

(* A store write returns an error.  respondWorkflowHandler drops the error of a
   schedule command and goes on with the batch; every other handler returns.
   (A write that fails inside Recover stops the process: Crash.) *)
WritePcs == {"startRow", "apEvent", "apRow", "ttPut", "ttOpen", "dispatch", "settle",
             "cancelPut", "metaPut"}
Scheduling(t) == th[t].op = "respond" /\ th[t].seq # NoSeq

StoreFails(t) ==
  /\ errors < MaxErrors
  /\ errors' = errors + 1
  /\ \/ /\ th[t].pc \in WritePcs /\ th[t].op # "recover"
        /\ IF Scheduling(t)
             THEN /\ Become(t, [th[t] EXCEPT !.pc = "cmd", !.seq = NoSeq,
                                             !.reg = Idle.reg, !.ev = Idle.ev])
                  /\ UNCHANGED lock
             ELSE Return(t)
     \/ \E s \in Seqs :
          /\ At(t, "cmd") /\ IsNext(s, th[t].todo) /\ ~Recorded(s)
          /\ Become(t, [th[t] EXCEPT !.todo = @ \ {s}])
          /\ UNCHANGED lock
  /\ UNCHANGED <<shard, queues, canceling, booting, started, calls, crashes>>

-----------------------------------------------------------------------------
Serve(t) == Respond(t) \/ RespondActivity(t) \/ TimerFires(t) \/ Recover(t)
Client(t) == Start(t) \/ signalWorkflow(t) \/ TerminateWorkflow(t)
             \/ CancelWorkflow(t) \/ UpdateWorkflowMetadata(t)
Append3(t) == AppendRead(t) \/ AppendEvent(t) \/ AppendRow(t)
Terminal3(t) == TerminalRead(t) \/ TerminalPut(t) \/ TerminalOpen(t)
Advance(t) ==
  \/ LockRun(t) \/ StartRow(t) \/ Append3(t) \/ Enqueue(t) \/ Terminal3(t)
  \/ Command(t) \/ Dispatch(t) \/ Mint(t) \/ Settle(t)
  \/ MetadataPut(t) \/ CancelRead(t) \/ CancelPut(t)
  \/ RecoverRow(t) \/ RecoverNext(t)

Next ==
  \/ Crash
  \/ \E t \in Threads : Serve(t) \/ Client(t) \/ Advance(t) \/ SweepCanceling(t) \/ StoreFails(t)

Spec == Init /\ [][Next]_vars

(* A goroutine that can step does, a live worker answers every task it holds,
   and timers fire: the Go runtime and the workers see to it. *)
Fairness == \A t \in Threads : WF_vars(Advance(t)) /\ WF_vars(Serve(t))
FairSpec == Spec /\ Fairness

-----------------------------------------------------------------------------
(* Every variable keeps its type: no token, timer or task count goes below zero,
   so nothing is handed in that was not handed out (dispatch.go, one-time tokens). *)
TypeOK ==
  /\ row \in Rows /\ hist \in Seq(Events) /\ open \in BOOLEAN
  /\ act \in [Seqs -> Acts]
  /\ lock \in Threads \cup {NoThread} /\ th \in [Threads -> ThreadStates]
  /\ tokens \in [Seqs -> Nat] /\ timers \in [Seqs -> Nat] /\ tasks \in [Batches -> Nat]
  /\ canceling \in BOOLEAN /\ booting \in BOOLEAN /\ started \in BOOLEAN
  /\ calls \in 0 .. MaxCalls /\ crashes \in 0 .. MaxCrashes /\ errors \in 0 .. MaxErrors

(* The record an outcome event reports. *)
OutcomeStatus(type) == IF type = "ACT_COMPLETED" THEN "COMPLETED" ELSE "FAILED"

(* An outcome in the history is the outcome of the activity's record: no replay
   reads a result the exactly-once anchor does not hold, whatever stops, fails
   or runs beside completeWorkflowActivity (durable.go:59-62). *)
OutcomeMatchesRecord ==
  \A i \in DOMAIN hist :
    hist[i].type \in Outcomes => act[hist[i].seq].st = OutcomeStatus(hist[i].type)

(* A history holds at most one outcome and one ACT_SCHEDULED per activity, so a
   replay settles a future with one event and a command is applied once
   (applyScheduleActivity "exactly-once: already scheduled",
   completeWorkflowActivity "duplicate / already resolved"). *)
AtMostOne(types) ==
  \A i, j \in DOMAIN hist :
    (hist[i].type \in types /\ hist[j].type \in types /\ hist[i].seq = hist[j].seq)
      => i = j
ExactlyOnce == AtMostOne(Outcomes) /\ AtMostOne({"ACT_SCHEDULED"})

(* The retry policy bounds what the history shows: no more ACT_STARTED than
   attempts on the record, no more attempts than MaximumAttempts. *)
AttemptsBounded ==
  \A s \in Seqs :
    /\ Cardinality({i \in DOMAIN hist : hist[i] = ActivityEvent("ACT_STARTED", s)})
         <= act[s].attempt
    /\ act[s].attempt <= MaxAttempts[s]

(* No handler, timer or recovery changes a terminal record, and none hands its
   activity out again: "a terminal record blocks any further dispatch". *)
RecordFinal ==
  [][\A s \in Seqs : ActTerminal(s) => act'[s] = act[s] /\ tokens'[s] <= tokens[s]]_vars

(* The run is indexed as long as its row is open: a stop between any two
   writes "never leaves an open row the index misses" (durable.go:404-408). *)
OpenIndexed == row.st \in OpenStatus => open

(* A terminal status is final. *)
TerminalFinal == [][isTerminal(row) => row'.st = row.st]_vars

(* The history is append-only: an event the row counts is never overwritten
   and HistoryLen never falls (appendHistory, "EventId is monotonic"). *)
AppendOnly ==
  [][/\ row'.len >= row.len
     /\ \A i \in 1 .. row.len : hist'[i] = hist[i]]_vars

Carries(r, s) ==
  /\ r.seq = s
  /\ \/ r.op \in {"activity", "timer"}
     \/ /\ r.op \in {"respond", "recover"}
        /\ r.pc \in {"apRead", "apEvent", "apRow", "dispatch", "mint"}
Carriers(s) == {t \in Threads : Carries(th[t], s)}

(* Between two restarts an activity is in one place at most: with a worker, on
   a retry timer, or in the handler that moves it on. *)
OneCarrier ==
  \A s \in Seqs :
    /\ tokens[s] + timers[s] <= 1
    /\ tokens[s] + timers[s] = 1 => Carriers(s) = {}
    /\ \A t, u \in Carriers(s) : t = u

(* A run that was started closes (no process stop, no store error). *)
RunCloses == [](crashes = 0 /\ errors = 0) => (row.st \in OpenStatus ~> isTerminal(row))

(* Once nothing is in progress, a terminal record's outcome is in the history. *)
Quiescent == ~booting /\ \A t \in Threads : th[t] = Idle
NoLostOutcome ==
  Quiescent => \A s \in Seqs : ActTerminal(s) =>
    s \in SeqsOf(hist, "ACT_COMPLETED") \cup SeqsOf(hist, "ACT_FAILED")

-----------------------------------------------------------------------------
(* The strengthening that makes OutcomeMatchesRecord and ExactlyOnce inductive:
   records change only under the run's lock, and the handler that holds it has
   brought the record to where the event it is about to append says it is. *)

Appending(r) == r.pc \in {"apRead", "apEvent", "apRow"}
Unwritten(r) == r.pc \in {"apRead", "apEvent"}
HoldsLock(r) == r.op \in LockedOps /\ r.pc \notin {"idle", "lock"}

(* Which operations reach a step, and what they have set by then. *)
ShapeOK(r) ==
  /\ r.pc = "lock" => r.op \in LockedOps
  /\ r.pc = "cmd" => r.op = "respond"
  /\ r.pc = "settle" => r.op = "activity"
  /\ r.pc \in {"recRow", "recNext"} => r.op = "recover"
  /\ r.pc \in {"dispatch", "mint"} => r.op \in {"respond", "timer", "recover"}
  /\ (Appending(r) /\ r.ev.type \in {"ACT_SCHEDULED", "ACT_STARTED"})
       => r.op \in {"respond", "timer"}
  /\ r.pc = "lock" => r.ev.type \in WorkflowEvents \ {"CANCEL_REQUESTED"}
  /\ r.pc = "lock" => (r.op \in {"activity", "timer"} => r.seq \in Seqs)
  /\ r.pc \in {"dispatch", "mint", "settle"} => r.seq \in Seqs
  /\ (Appending(r) /\ r.ev.type \in ActivityEvents)
       => r.op \in LockedOps /\ r.ev.seq = r.seq /\ r.seq \in Seqs
  /\ (Appending(r) /\ r.ev.type = "CANCEL_REQUESTED") => r.goal \in TerminalStatus
  /\ r.pc \in {"cancelRead", "ttRead", "ttPut", "ttOpen"} => r.goal \in TerminalStatus

(* The records the lock holder works on are where it left them. *)
RecordOK(r, a) ==
  /\ (r.pc = "dispatch" /\ r.op # "timer") => a[r.seq].st \in {"SCHEDULED", "STARTED"}
  /\ (r.op = "recover" /\ r.pc \in {"recNext", "dispatch", "mint"})
       => \A s \in r.todo : a[s].st \in {"SCHEDULED", "STARTED"}
  /\ (Appending(r) /\ r.ev.type = "ACT_SCHEDULED") => a[r.seq].st = "SCHEDULED"
  /\ (Appending(r) /\ r.ev.type = "ACT_STARTED") => a[r.seq].st = "STARTED"
  /\ r.pc = "mint" => a[r.seq].st = "STARTED"
  /\ (Appending(r) /\ r.ev.type \in Outcomes) => a[r.seq].st = OutcomeStatus(r.ev.type)

(* An event about to be put is not in the history yet. *)
FreshOK(r, h) ==
  Unwritten(r) =>
    \A i \in DOMAIN h :
      /\ (r.ev.type \in Outcomes /\ h[i].type \in Outcomes) => h[i].seq # r.seq
      /\ (r.ev.type = "ACT_SCHEDULED" /\ h[i].type = "ACT_SCHEDULED") => h[i].seq # r.seq

ThreadInv ==
  \A t \in Threads :
    /\ HoldsLock(th[t]) => lock = t
    /\ ShapeOK(th[t]) /\ RecordOK(th[t], act) /\ FreshOK(th[t], hist)

EventsHaveRecords ==
  \A i \in DOMAIN hist :
    hist[i].type \in ActivityEvents => hist[i].seq \in Seqs /\ act[hist[i].seq].st # "NONE"

RunInv ==
  TypeOK /\ ThreadInv /\ EventsHaveRecords /\ OutcomeMatchesRecord /\ ExactlyOnce

-----------------------------------------------------------------------------
(* The strengthening behind AttemptsBounded: an attempt is one ACT_STARTED, a
   timer that will lead to one, or a handler on its way to put one. *)
Starting(r, s) ==
  /\ r.seq = s
  /\ \/ r.op = "timer" /\ r.pc = "lock"
     \/ r.op # "recover" /\ r.pc = "dispatch"
     \/ Unwritten(r) /\ r.ev.type \in {"ACT_SCHEDULED", "ACT_STARTED"}
     \/ r.pc = "apRow" /\ r.ev.type = "ACT_SCHEDULED"
Starters(s) == {t \in Threads : Starting(th[t], s)}
StartedAt(h, s) == {i \in DOMAIN h : h[i] = ActivityEvent("ACT_STARTED", s)}

StartsOK ==
  \A s \in Seqs :
    /\ Cardinality(StartedAt(hist, s)) + timers[s] + Cardinality(Starters(s)) <= act[s].attempt
    /\ act[s].attempt <= MaxAttempts[s]
    /\ act[s].st = "NONE" => act[s].attempt = 0

-----------------------------------------------------------------------------
(* The strengthening behind OpenIndexed, TerminalFinal, AppendOnly and OneCarrier:
   as long as clients only signal, and wait for boot and start to return, one
   handler at a time is past the lock, and the start and the recovery run alone. *)
Quiet == Calls \subseteq {"signal"} /\ ~Eager

Active(r) == r.pc \notin {"idle", "lock"}
Alone(t) == \A u \in Threads : u # t => th[u].pc = "idle"

(* The operations there are, and what they have set. *)
QuietOK(r) ==
  /\ r.op \in LockedOps \cup {"start", "none"}
  /\ r.op = "none" <=> r.pc = "idle"
  /\ r.pc = "startRow" => r.op = "start"
  /\ r.pc \in {"ttRead", "ttPut", "ttOpen"} => r.op = "respond"
  /\ r.pc \notin {"cancelRead", "cancelPut", "metaPut"}
  /\ r.ev.type # "CANCEL_REQUESTED"
  /\ (r.op = "respond" /\ r.pc \in {"lock", "cmd", "ttRead", "ttPut", "ttOpen"})
       => r.seq = NoSeq

(* What a handler past the lock knows of the row w, the history h and the index o. *)
RowOK(r, w, h, o) ==
  /\ r.pc \in {"apEvent", "apRow", "ttPut"} => r.reg = w
  /\ r.pc = "apRow" => w.len < Len(h)
  /\ r.pc = "ttPut" => w.st \in OpenStatus
  /\ r.pc = "ttOpen" => isTerminal(w)
  /\ r.pc = "startRow" => w = NoRow /\ o

NoWork == \A s \in Seqs : tokens[s] = 0 /\ timers[s] = 0
QuietThreads ==
  /\ ~canceling
  /\ booting => NoWork /\ \A t \in Threads : th[t].pc = "idle"
  /\ ~started => /\ NoWork /\ \A b \in Batches : tasks[b] = 0
                 /\ \A t \in Threads : th[t].pc = "idle"
                 /\ row = NoRow /\ ~open
  /\ \A t \in Threads :
       /\ QuietOK(th[t])
       /\ th[t].op \in {"start", "recover"} =>
            ~booting /\ Alone(t) /\ \A s \in Seqs : timers[s] = 0

QuietRow ==
  /\ OpenIndexed
  /\ row.len <= Len(hist)
  /\ \A t \in Threads : RowOK(th[t], row, hist, open)

(* What the recovery has yet to hand out is in nobody's hands. *)
RecoverOK(r, k) ==
  r.op = "recover" =>
    /\ r.pc \in {"lock", "recRow"} => \A s \in Seqs : k[s] = 0
    /\ r.pc \in {"recNext", "dispatch", "mint"} => \A s \in r.todo : k[s] = 0
    /\ r.pc \in {"dispatch", "mint"} => r.seq \notin r.todo

QuietCarriers ==
  /\ OneCarrier
  /\ \A s \in Seqs : act[s].st = "NONE" => tokens[s] + timers[s] = 0 /\ Carriers(s) = {}
  /\ \A t \in Threads : RecoverOK(th[t], tokens)

QuietInv == QuietThreads /\ QuietRow /\ QuietCarriers
=============================================================================
