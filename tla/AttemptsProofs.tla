--------------------------- MODULE AttemptsProofs ---------------------------
(***************************************************************************)
(* The attempts of an activity in the history of a run: proofs about       *)
(* WorkflowRun for any goroutines and activities, and any calls, stops and *)
(* store errors.                                                           *)
(***************************************************************************)
EXTENDS WorkflowRunProofs, FiniteSetTheorems

-----------------------------------------------------------------------------
(* The attempts of an activity. *)
-----------------------------------------------------------------------------

(* Two finite sets that differ in one element at most. *)
LEMMA CountOne ==
  ASSUME NEW A, NEW B, NEW x, IsFiniteSet(A), IsFiniteSet(B), A \ {x} = B \ {x}
  PROVE  /\ Cardinality(A) \in Nat /\ Cardinality(B) \in Nat
         /\ Cardinality(A) + One(x \in B) = Cardinality(B) + One(x \in A)
<1>1. Cardinality(A) \in Nat /\ Cardinality(B) \in Nat
  BY FS_CardinalityType
<1>2. Cardinality(A \ {x}) = IF x \in A THEN Cardinality(A) - 1 ELSE Cardinality(A)
  BY FS_RemoveElement
<1>3. Cardinality(B \ {x}) = IF x \in B THEN Cardinality(B) - 1 ELSE Cardinality(B)
  BY FS_RemoveElement
<1> QED BY <1>1, <1>2, <1>3 DEF One

(* The counts of StartsOK are numbers. *)
LEMMA StartCounts ==
  ASSUME RunInv, NEW s \in Seqs
  PROVE  /\ IsFiniteSet(Starters(s)) /\ Cardinality(Starters(s)) \in Nat
         /\ IsFiniteSet(StartedAt(hist, s)) /\ Cardinality(StartedAt(hist, s)) \in Nat
         /\ timers[s] \in Nat /\ act[s] \in Acts /\ act[s].attempt \in Nat
<1>1. IsFiniteSet(Starters(s))
  BY ThreadAssumption, FS_Subset DEF Starters
<1>2. IsFiniteSet(StartedAt(hist, s))
  <2>1. hist \in Seq(Events)
    BY DEF RunInv, TypeOK
  <2>2. DOMAIN hist = 1 .. Len(hist) /\ Len(hist) \in Nat
    BY <2>1
  <2>3. IsFiniteSet(DOMAIN hist)
    BY <2>2, FS_Interval
  <2> QED BY ZenonT(30), <2>3, FS_Subset DEF StartedAt
<1>3. timers[s] \in Nat /\ act[s] \in Acts
  BY DEF RunInv, TypeOK
<1> QED BY ZenonT(30), <1>1, <1>2, <1>3, FS_CardinalityType DEF Acts

(* A step of one goroutine counts it in or out. *)
LEMMA StarterCount ==
  ASSUME RunInv, NEW t \in Threads, NEW r, Become(t, r), NEW s \in Seqs
  PROVE  /\ Cardinality(Starters(s)') \in Nat
         /\ Cardinality(Starters(s)') + One(Starting(th[t], s))
              = Cardinality(Starters(s)) + One(Starting(r, s))
<1>1. \A u \in Threads : th'[u] = IF u = t THEN r ELSE th[u]
  BY DEF Become, RunInv, TypeOK
<1> DEFINE A == {u \in Threads : Starting(th[u], s)}
           B == {u \in Threads : Starting(th'[u], s)}
<1>2. IsFiniteSet(A) /\ IsFiniteSet(B)
  BY Zenon, ThreadAssumption, FS_Subset
<1>3. A \ {t} = B \ {t} /\ (t \in A <=> Starting(th[t], s)) /\ (t \in B <=> Starting(r, s))
  BY Zenon, <1>1
<1>4. Starters(s) = A /\ Starters(s)' = B
  BY Zenon DEF Starters
<1> HIDE DEF A, B
<1>5. /\ Cardinality(A) \in Nat /\ Cardinality(B) \in Nat
      /\ Cardinality(A) + One(t \in B) = Cardinality(B) + One(t \in A)
  BY <1>2, <1>3, CountOne
<1>6. One(t \in A) = One(Starting(th[t], s)) /\ One(t \in B) = One(Starting(r, s))
  BY ZenonT(30), <1>3 DEF One
<1> QED BY Zenon, <1>4, <1>5, <1>6

(* A step that leaves the history, the timers and the attempts alone, and brings no
   goroutine on the way to an ACT_STARTED. *)
LEMMA StartsKept ==
  ASSUME RunInv, RunInv', StartsOK, NEW t \in Threads, NEW r, Become(t, r), hist' = hist,
         timers' = timers,
         \A s \in Seqs : /\ act'[s].attempt = act[s].attempt
                         /\ act'[s].st = "NONE" => act[s].st = "NONE"
                         /\ Starting(r, s) => Starting(th[t], s)
  PROVE  StartsOK'
<1> SUFFICES ASSUME NEW s \in Seqs
             PROVE  /\ Cardinality(StartedAt(hist', s)) + timers'[s] + Cardinality(Starters(s)')
                         <= act'[s].attempt
                    /\ act'[s].attempt <= MaxAttempts[s]
                    /\ act'[s].st = "NONE" => act'[s].attempt = 0
  BY DEF StartsOK
<1>1. /\ Cardinality(Starters(s)') \in Nat
      /\ Cardinality(Starters(s)') + One(Starting(th[t], s))
           = Cardinality(Starters(s)) + One(Starting(r, s))
  BY StarterCount
<1>2. One(Starting(r, s)) <= One(Starting(th[t], s)) /\ One(Starting(r, s)) \in Nat
      /\ One(Starting(th[t], s)) \in Nat
  BY DEF One
<1>3. /\ Cardinality(StartedAt(hist, s)) + timers[s] + Cardinality(Starters(s)) <= act[s].attempt
      /\ act[s].attempt <= MaxAttempts[s]
      /\ act[s].st = "NONE" => act[s].attempt = 0
  BY DEF StartsOK
<1> QED BY <1>1, <1>2, <1>3, StartCounts

-----------------------------------------------------------------------------
(* Steps that bring no goroutine on the way to an ACT_STARTED. *)
Elsewhere(r) ==
  \/ r.pc \notin {"lock", "dispatch", "apRead", "apEvent", "apRow"}
  \/ r.pc = "lock" /\ r.op # "timer"
  \/ Appending(r) /\ r.ev.type \notin {"ACT_SCHEDULED", "ACT_STARTED"}

(* A handler at any other place writes no attempt. *)
LEMMA NotStarting ==
  ASSUME NEW r, Elsewhere(r), NEW s
  PROVE  ~Starting(r, s)
  BY DEF Elsewhere, Starting, Unwritten, Appending

(* A goroutine that goes elsewhere. *)
LEMMA StartsElsewhere ==
  ASSUME RunInv, RunInv', StartsOK, NEW t \in Threads, NEW r, Become(t, r), Elsewhere(r),
         hist' = hist, timers' = timers, act' = act
  PROVE  StartsOK'
  BY Zenon, NotStarting, StartsKept

(* A handler that returns. *)
LEMMA StartsReturn ==
  ASSUME RunInv, RunInv', StartsOK, NEW t \in Threads, Return(t),
         hist' = hist, timers' = timers, act' = act
  PROVE  StartsOK'
<1>1. Elsewhere(Idle)
  BY DEF Elsewhere, Idle
<1> QED BY Zenon, <1>1, StartsElsewhere DEF Return

(* The entry points, but for the timer, begin elsewhere. *)
LEMMA StartsEntry ==
  ASSUME RunInv, RunInv', StartsOK, NEW t \in Threads,
         \/ Respond(t) \/ RespondActivity(t) \/ Recover(t) \/ Start(t) \/ signalWorkflow(t)
         \/ TerminateWorkflow(t) \/ CancelWorkflow(t) \/ UpdateWorkflowMetadata(t)
         \/ SweepCanceling(t)
  PROVE  StartsOK'
<1>1. hist' = hist /\ timers' = timers /\ act' = act
  BY Zenon DEF Respond, RespondActivity, Recover, Start, signalWorkflow, TerminateWorkflow,
               CancelWorkflow, UpdateWorkflowMetadata, SweepCanceling, Call, shard, queues
<1>2. CASE Respond(t)
  <2>1. PICK b \in Batches :
          \/ Become(t, [Idle EXCEPT !.op = "respond", !.pc = "lock", !.todo = b.sched,
                                    !.goal = b.close])
          \/ Become(t, [Idle EXCEPT !.op = "respond", !.pc = "lock", !.goal = "CANCELED"])
    BY <1>2, Zenon DEF Respond
  <2>2. Elsewhere([Idle EXCEPT !.op = "respond", !.pc = "lock", !.todo = b.sched,
                               !.goal = b.close])
    BY DEF Elsewhere, Idle
  <2>3. Elsewhere([Idle EXCEPT !.op = "respond", !.pc = "lock", !.goal = "CANCELED"])
    BY DEF Elsewhere, Idle
  <2> QED BY Zenon, <1>1, <2>1, <2>2, <2>3, StartsElsewhere
<1>3. CASE RespondActivity(t)
  <2>1. PICK s \in Seqs, out \in {"ok", "retryable", "fatal"} :
          Become(t, [Idle EXCEPT !.op = "activity", !.pc = "lock", !.seq = s, !.out = out])
    BY <1>3, Zenon DEF RespondActivity
  <2>2. Elsewhere([Idle EXCEPT !.op = "activity", !.pc = "lock", !.seq = s, !.out = out])
    BY DEF Elsewhere, Idle
  <2> QED BY Zenon, <1>1, <2>1, <2>2, StartsElsewhere
<1>4. CASE Recover(t)
  <2>1. \/ Become(t, Idle)
        \/ Become(t, [Idle EXCEPT !.op = "recover", !.pc = "lock"])
    BY <1>4, Zenon DEF Recover
  <2>2. Elsewhere(Idle) /\ Elsewhere([Idle EXCEPT !.op = "recover", !.pc = "lock"])
    BY DEF Elsewhere, Idle
  <2> QED BY Zenon, <1>1, <2>1, <2>2, StartsElsewhere
<1>5. CASE Start(t)
  <2>1. Elsewhere([Idle EXCEPT !.op = "start", !.pc = "startRow"])
    BY DEF Elsewhere, Idle
  <2> QED BY Zenon, <1>1, <1>5, <2>1, StartsElsewhere DEF Start
<1>6. CASE signalWorkflow(t)
  <2>1. Elsewhere([Idle EXCEPT !.op = "signal", !.pc = "lock", !.ev = WorkflowEvent("SIGNALED")])
    BY DEF Elsewhere, Idle
  <2> QED BY Zenon, <1>1, <1>6, <2>1, StartsElsewhere DEF signalWorkflow
<1>7. CASE TerminateWorkflow(t)
  <2>1. Elsewhere([Idle EXCEPT !.op = "terminate", !.pc = "ttRead", !.goal = "TERMINATED"])
    BY DEF Elsewhere, Idle
  <2> QED BY Zenon, <1>1, <1>7, <2>1, StartsElsewhere DEF TerminateWorkflow
<1>8. CASE CancelWorkflow(t)
  <2>1. Elsewhere([Idle EXCEPT !.op = "cancel", !.pc = "apRead", !.goal = "CANCELED",
                               !.ev = WorkflowEvent("CANCEL_REQUESTED")])
    BY Zenon DEF Elsewhere, Idle, Appending, WorkflowEvent
  <2> QED BY ZenonT(30), <1>1, <1>8, <2>1, StartsElsewhere DEF CancelWorkflow
<1>9. CASE UpdateWorkflowMetadata(t)
  <2>1. Elsewhere([Idle EXCEPT !.op = "metadata", !.pc = "metaPut", !.reg = row])
    BY DEF Elsewhere, Idle
  <2> QED BY Zenon, <1>1, <1>9, <2>1, StartsElsewhere DEF UpdateWorkflowMetadata
<1>10. CASE SweepCanceling(t)
  <2>1. Elsewhere([Idle EXCEPT !.op = "sweep", !.pc = "ttRead", !.goal = "CANCELED"])
    BY DEF Elsewhere, Idle
  <2> QED BY Zenon, <1>1, <1>10, <2>1, StartsElsewhere DEF SweepCanceling
<1> QED BY Zenon, <1>2, <1>3, <1>4, <1>5, <1>6, <1>7, <1>8, <1>9, <1>10

(* Steps that do not touch an activity. *)
LEMMA StartsAdvance ==
  ASSUME RunInv, RunInv', StartsOK, NEW t \in Threads,
         \/ StartRow(t) \/ Enqueue(t) \/ Terminal3(t) \/ Mint(t) \/ MetadataPut(t)
         \/ CancelRead(t) \/ CancelPut(t) \/ RecoverRow(t)
  PROVE  StartsOK'
<1>1. hist' = hist /\ timers' = timers /\ act' = act
  BY Zenon DEF StartRow, Enqueue, Terminal3, TerminalRead, TerminalPut, TerminalOpen, Mint,
               MetadataPut, CancelRead, CancelPut, RecoverRow, shard, queues
<1>0. th[t] \in ThreadStates /\ ShapeOK(th[t])
  BY Zenon, ThreadFacts
<1>2. CASE Return(t)
  BY Zenon, <1>1, <1>2, StartsReturn
<1>3. CASE StartRow(t)
  <2>1. Elsewhere([th[t] EXCEPT !.pc = "apRead", !.ev = WorkflowEvent("WF_STARTED")])
    BY <1>0 DEF Elsewhere, ThreadStates, Appending, WorkflowEvent
  <2> QED BY Zenon, <1>1, <1>3, <2>1, StartsElsewhere DEF StartRow, StartAppend
<1>4. CASE TerminalRead(t)
  <2>1. Elsewhere([th[t] EXCEPT !.pc = "ttPut", !.reg = row])
    BY <1>0 DEF Elsewhere, ThreadStates
  <2>2. Return(t) \/ Become(t, [th[t] EXCEPT !.pc = "ttPut", !.reg = row])
    BY <1>4, ZenonT(30) DEF TerminalRead
  <2> QED BY ZenonT(30), <1>1, <1>2, <2>1, <2>2, StartsElsewhere
<1>5. CASE TerminalPut(t)
  <2>1. Elsewhere([th[t] EXCEPT !.pc = "ttOpen", !.reg = Idle.reg, !.ev = Idle.ev])
    BY Zenon, <1>0 DEF Elsewhere, ThreadStates
  <2> QED BY Zenon, <1>1, <1>5, <2>1, StartsElsewhere DEF TerminalPut, Resume
<1>6. CASE TerminalOpen(t)
  <2>1. th[t].goal \in TerminalStatus
    BY Zenon, <1>0, <1>6 DEF ShapeOK, TerminalOpen, At
  <2>2. Elsewhere([th[t] EXCEPT !.pc = "apRead", !.ev = WorkflowEvent(th[t].goal)])
    BY Zenon, <1>0, <2>1 DEF Elsewhere, ThreadStates, Appending, WorkflowEvent, TerminalStatus
  <2> QED BY Zenon, <1>1, <1>6, <2>2, StartsElsewhere DEF TerminalOpen, StartAppend
<1>7. CASE Mint(t)
  <2> DEFINE r == [th[t] EXCEPT !.seq = NoSeq,
                                !.pc = IF th[t].op = "respond" THEN "cmd" ELSE "recNext"]
  <2>1. Elsewhere(r)
    BY Zenon, <1>0 DEF Elsewhere, ThreadStates
  <2>2. Return(t) \/ Become(t, r)
    BY <1>7, Zenon DEF Mint
  <2> QED BY Zenon, <1>1, <1>2, <2>1, <2>2, StartsElsewhere
<1>8. CASE CancelRead(t)
  <2>1. Elsewhere([th[t] EXCEPT !.pc = "ttRead"])
    BY Zenon, <1>0 DEF Elsewhere, ThreadStates
  <2>2. Elsewhere([th[t] EXCEPT !.pc = "cancelPut", !.reg = row])
    BY Zenon, <1>0 DEF Elsewhere, ThreadStates
  <2>3. \/ Become(t, [th[t] EXCEPT !.pc = "ttRead"])
        \/ Become(t, [th[t] EXCEPT !.pc = "cancelPut", !.reg = row])
    BY <1>8, Zenon DEF CancelRead, Goto
  <2> QED BY Zenon, <1>1, <2>1, <2>2, <2>3, StartsElsewhere
<1>9. CASE RecoverRow(t)
  <2> DEFINE r == [th[t] EXCEPT !.pc = "recNext", !.todo = {s \in Seqs : ActPending(s)}]
  <2>1. Elsewhere(r)
    BY <1>0 DEF Elsewhere, ThreadStates
  <2>2. Return(t) \/ Become(t, r)
    BY <1>9, Zenon DEF RecoverRow
  <2> QED BY Zenon, <1>1, <1>2, <2>1, <2>2, StartsElsewhere
<1>10. CASE Enqueue(t) \/ MetadataPut(t) \/ CancelPut(t)
  BY <1>2, <1>10, Zenon DEF Enqueue, MetadataPut, CancelPut
<1> QED BY Zenon, <1>3, <1>4, <1>5, <1>6, <1>7, <1>8, <1>9, <1>10 DEF Terminal3

-----------------------------------------------------------------------------
(* Steps on the way to an ACT_STARTED. *)
LEMMA StartsOnTheWay ==
  ASSUME RunInv, RunInv', StartsOK, NEW t \in Threads,
         LockRun(t) \/ AppendRead(t) \/ AppendRow(t) \/ RecoverNext(t)
  PROVE  StartsOK'
<1>0. th[t] \in ThreadStates /\ ShapeOK(th[t])
  BY ThreadFacts
<1>1. hist' = hist /\ timers' = timers /\ act' = act
  BY Zenon DEF LockRun, AppendRead, AppendRow, RecoverNext, shard, queues
<1>2. CASE LockRun(t)
  <2> DEFINE r == [th[t] EXCEPT !.pc = EntryPoint(th[t].op)]
  <2>1. r.op = th[t].op /\ r.pc = EntryPoint(th[t].op) /\ r.seq = th[t].seq /\ r.ev = th[t].ev
    BY Zenon, <1>0 DEF ThreadStates
  <2>2. /\ th[t].pc = "lock" /\ th[t].op \in LockedOps
        /\ th[t].ev.type \notin {"ACT_SCHEDULED", "ACT_STARTED"}
    BY ZenonT(30), <1>0, <1>2 DEF LockRun, At, ShapeOK, WorkflowEvents, TerminalStatus
  <2>3. ASSUME NEW s \in Seqs, Starting(r, s) PROVE Starting(th[t], s)
    BY <2>1, <2>2, <2>3 DEF Starting, EntryPoint, LockedOps, Unwritten
  <2>4. Become(t, r)
    BY Zenon, <1>2 DEF LockRun, Goto
  <2> HIDE DEF r
  <2> QED BY Zenon, <1>1, <2>3, <2>4, StartsKept
<1>3. CASE AppendRead(t)
  <2> DEFINE r == [th[t] EXCEPT !.pc = "apEvent", !.reg = row]
  <2>1. r.op = th[t].op /\ r.pc = "apEvent" /\ r.seq = th[t].seq /\ r.ev = th[t].ev
    BY <1>0 DEF ThreadStates
  <2>2. th[t].pc = "apRead" /\ Become(t, r)
    BY Zenon, <1>3 DEF AppendRead, At
  <2> HIDE DEF r
  <2>3. ASSUME NEW s \in Seqs, Starting(r, s) PROVE Starting(th[t], s)
    BY Zenon, <2>1, <2>2, <2>3 DEF Starting, Unwritten
  <2> QED BY Zenon, <1>1, <2>2, <2>3, StartsKept
<1>4. CASE AppendRow(t)
  <2> DEFINE n == AfterAppend(th[t].ev.type)
             r == [th[t] EXCEPT !.pc = n, !.reg = Idle.reg, !.ev = Idle.ev]
  <2>1. r.op = th[t].op /\ r.pc = n /\ r.seq = th[t].seq /\ r.ev = Idle.ev
    BY <1>0 DEF ThreadStates
  <2>2. th[t].pc = "apRow" /\ (Return(t) \/ Become(t, r))
    BY <1>4, Zenon DEF AppendRow, At, Resume
  <2>3. n \notin {"lock", "apRead", "apEvent", "apRow"} /\ (n = "dispatch" => th[t].ev.type = "ACT_SCHEDULED")
    <3>1. th[t].ev.type \in WorkflowEvents \cup ActivityEvents
      BY Zenon, <1>0 DEF ThreadStates, Events
    <3> QED BY Zenon, <3>1 DEF AfterAppend, WorkflowEvents, ActivityEvents, TerminalStatus
  <2> HIDE DEF r, n
  <2>4. ASSUME NEW s \in Seqs, Starting(r, s) PROVE Starting(th[t], s)
    BY Zenon, <2>1, <2>2, <2>3, <2>4 DEF Starting, Unwritten
  <2> QED BY Zenon, <1>1, <2>2, <2>4, StartsKept, StartsReturn
<1>5. CASE RecoverNext(t)
  <2>1. th[t].op = "recover"
    BY Zenon, <1>0, <1>5 DEF RecoverNext, At, ShapeOK
  <2>2. CASE Goto(t, "enqueue")
    <3>1. Elsewhere([th[t] EXCEPT !.pc = "enqueue"])
      BY Zenon, <1>0 DEF Elsewhere, ThreadStates
    <3> QED BY Zenon, <1>1, <2>2, <3>1, StartsElsewhere DEF Goto
  <2>3. ASSUME NEW q \in Seqs,
               Become(t, [th[t] EXCEPT !.todo = @ \ {q}, !.seq = q, !.pc = "dispatch"])
        PROVE  StartsOK'
    <3> DEFINE r == [th[t] EXCEPT !.todo = @ \ {q}, !.seq = q, !.pc = "dispatch"]
    <3>1. r.op = "recover" /\ r.pc = "dispatch"
      BY ZenonT(30), <1>0, <2>1 DEF ThreadStates
    <3>2. Become(t, r)
      BY Zenon, <2>3
    <3> HIDE DEF r
    <3>3. \A s \in Seqs : ~Starting(r, s)
      BY <3>1 DEF Starting, Unwritten
    <3> QED BY Zenon, <1>1, <3>2, <3>3, StartsKept
  <2> QED BY <1>5, <2>2, <2>3, Zenon DEF RecoverNext
<1> QED BY Zenon, <1>2, <1>3, <1>4, <1>5

(* A store error takes a goroutine off the way. *)
LEMMA StartsStoreFails ==
  ASSUME RunInv, RunInv', StartsOK, NEW t \in Threads, StoreFails(t)
  PROVE  StartsOK'
<1>0. th[t] \in ThreadStates
  BY ThreadFacts
<1>1. hist' = hist /\ timers' = timers /\ act' = act
  BY Zenon DEF StoreFails, shard, queues
<1> DEFINE r == [th[t] EXCEPT !.pc = "cmd", !.seq = NoSeq, !.reg = Idle.reg, !.ev = Idle.ev]
<1>2. \/ Become(t, r) \/ Return(t)
      \/ \E s \in Seqs : At(t, "cmd") /\ Become(t, [th[t] EXCEPT !.todo = @ \ {s}])
  BY Zenon DEF StoreFails
<1>3. CASE Become(t, r)
  <2>1. Elsewhere(r)
    BY <1>0 DEF Elsewhere, ThreadStates
  <2> QED BY ZenonT(30), <1>1, <1>3, <2>1, StartsElsewhere
<1>4. ASSUME NEW s \in Seqs, At(t, "cmd"), Become(t, [th[t] EXCEPT !.todo = @ \ {s}])
      PROVE  StartsOK'
  <2>1. Elsewhere([th[t] EXCEPT !.todo = @ \ {s}])
    BY Zenon, <1>0, <1>4 DEF Elsewhere, ThreadStates, At
  <2> QED BY Zenon, <1>1, <1>4, <2>1, StartsElsewhere
<1> QED BY Zenon, <1>1, <1>2, <1>3, <1>4, StartsReturn

(* dispatchActivityAttempt goes on to the ACT_STARTED it was on the way to. *)
LEMMA StartsDispatch ==
  ASSUME RunInv, RunInv', StartsOK, NEW t \in Threads, Dispatch(t)
  PROVE  StartsOK'
<1> DEFINE q == th[t].seq
<1>0. th[t] \in ThreadStates /\ ShapeOK(th[t]) /\ RecordOK(th[t], act) /\ th[t].pc = "dispatch"
      /\ act \in [Seqs -> Acts] /\ q \in Seqs
  BY Zenon, ThreadFacts DEF Dispatch, At, ShapeOK, RunInv, TypeOK
<1>1. hist' = hist /\ timers' = timers
  BY DEF Dispatch, queues
<1>2. CASE Return(t) /\ act' = act
  BY Zenon, <1>1, <1>2, StartsReturn
<1>3. ASSUME act' = [act EXCEPT ![q].st = "STARTED"],
             \/ th[t].op = "recover" /\ Goto(t, "mint")
             \/ th[t].op # "recover" /\ StartAppend(t, ActivityEvent("ACT_STARTED", q))
      PROVE  StartsOK'
  <2>1. \A s \in Seqs : /\ act'[s].attempt = act[s].attempt
                        /\ act'[s].st = "NONE" => act[s].st = "NONE"
    BY Zenon, <1>0, <1>3 DEF Acts
  <2>2. CASE th[t].op = "recover" /\ Goto(t, "mint")
    <3> DEFINE r == [th[t] EXCEPT !.pc = "mint"]
    <3>1. Elsewhere(r)
      BY <1>0 DEF Elsewhere, ThreadStates
    <3>2. Become(t, r)
      BY Zenon, <2>2 DEF Goto
    <3> HIDE DEF r
    <3> QED BY Zenon, <1>1, <2>1, <3>1, <3>2, NotStarting, StartsKept
  <2>3. CASE th[t].op # "recover" /\ StartAppend(t, ActivityEvent("ACT_STARTED", q))
    <3> DEFINE r == [th[t] EXCEPT !.pc = "apRead", !.ev = ActivityEvent("ACT_STARTED", q)]
    <3>1. Become(t, r)
      BY <2>3 DEF StartAppend
    <3>2. r.seq = th[t].seq
      BY Zenon, <1>0 DEF ThreadStates
    <3> HIDE DEF r
    <3>3. ASSUME NEW s \in Seqs, Starting(r, s) PROVE Starting(th[t], s)
      BY Zenon, <1>0, <2>3, <3>2, <3>3 DEF Starting
    <3> QED BY ZenonT(30), <1>1, <2>1, <3>1, <3>3, StartsKept
  <2> QED BY Zenon, <1>3, <2>2, <2>3
<1> QED BY <1>2, <1>3, ZenonT(30) DEF Dispatch

-----------------------------------------------------------------------------
(* Steps that move an attempt from one of its places to the next.  The goal for one
   activity, in the next state. *)
StartsAfter(s) ==
  /\ Cardinality(StartedAt(hist', s)) + timers'[s] + Cardinality(Starters(s)')
       <= act'[s].attempt
  /\ act'[s].attempt <= MaxAttempts[s]
  /\ act'[s].st = "NONE" => act'[s].attempt = 0

(* An activity the step has nothing to do with. *)
LEMMA StartsOther ==
  ASSUME RunInv, StartsOK, NEW t \in Threads, NEW r, Become(t, r), NEW s \in Seqs,
         Cardinality(StartedAt(hist', s)) = Cardinality(StartedAt(hist, s)),
         timers'[s] = timers[s], act'[s] = act[s],
         Starting(r, s) => Starting(th[t], s)
  PROVE  StartsAfter(s)
<1>1. /\ Cardinality(Starters(s)') \in Nat
      /\ Cardinality(Starters(s)') + One(Starting(th[t], s))
           = Cardinality(Starters(s)) + One(Starting(r, s))
  BY Zenon, StarterCount
<1>2. One(Starting(r, s)) <= One(Starting(th[t], s)) /\ One(Starting(r, s)) \in Nat
      /\ One(Starting(th[t], s)) \in Nat
  BY DEF One
<1>3. /\ Cardinality(StartedAt(hist, s)) + timers[s] + Cardinality(Starters(s)) <= act[s].attempt
      /\ act[s].attempt <= MaxAttempts[s]
      /\ act[s].st = "NONE" => act[s].attempt = 0
  BY Zenon DEF StartsOK
<1> QED BY <1>1, <1>2, <1>3, StartCounts DEF StartsAfter

(* The retry timer fires: its goroutine is on the way in its place. *)
LEMMA StartsTimer ==
  ASSUME RunInv, StartsOK, NEW t \in Threads, TimerFires(t)
  PROVE  StartsOK'
<1>1. PICK q \in Seqs :
        /\ timers[q] > 0 /\ timers' = [timers EXCEPT ![q] = @ - 1]
        /\ Become(t, [Idle EXCEPT !.op = "timer", !.pc = "lock", !.seq = q])
  BY Zenon DEF TimerFires
<1>2. hist' = hist /\ act' = act /\ th[t] = Idle /\ timers \in [Seqs -> Nat]
  BY DEF TimerFires, shard, RunInv, TypeOK
<1> DEFINE r == [Idle EXCEPT !.op = "timer", !.pc = "lock", !.seq = q]
<1>3. Become(t, r) /\ r.seq = q /\ r.pc = "lock"
  BY Zenon, <1>1 DEF Idle
<1> HIDE DEF r
<1>4. ASSUME NEW s \in Seqs PROVE StartsAfter(s)
  <2>1. CASE s = q
    <3>1. Cardinality(Starters(s)') \in Nat
          /\ Cardinality(Starters(s)') + One(Starting(th[t], s))
               = Cardinality(Starters(s)) + One(Starting(r, s))
      BY Zenon, <1>3, StarterCount
    <3>2. One(Starting(th[t], s)) \in {0, 1} /\ One(Starting(r, s)) \in {0, 1}
      BY DEF One
    <3>3. timers'[s] = timers[s] - 1
      BY ZenonT(30), <1>1, <1>2, <2>1
    <3>4. One(Starting(th[t], s)) = 0
      BY <1>2 DEF One, Starting, Idle, Unwritten
    <3>5. /\ Cardinality(StartedAt(hist, s)) + timers[s] + Cardinality(Starters(s)) <= act[s].attempt
          /\ act[s].attempt <= MaxAttempts[s]
          /\ act[s].st = "NONE" => act[s].attempt = 0
      BY Zenon DEF StartsOK
    <3> QED BY <1>1, <1>2, <2>1, <3>1, <3>2, <3>3, <3>4, <3>5, StartCounts DEF StartsAfter
  <2>2. CASE s # q
    <3>1. ~Starting(r, s) /\ timers'[s] = timers[s]
      BY ZenonT(30), <1>1, <1>2, <1>3, <2>2 DEF Starting
    <3> QED BY Zenon, <1>2, <1>3, <3>1, StartsOther
  <2> QED BY Zenon, <2>1, <2>2
<1> QED BY Zenon, <1>4 DEF StartsOK, StartsAfter

(* completeWorkflowActivity: a retry is one more attempt and one more timer. *)
LEMMA StartsSettle ==
  ASSUME RunInv, RunInv', StartsOK, NEW t \in Threads, Settle(t)
  PROVE  StartsOK'
<1> DEFINE q == th[t].seq
<1>0. th[t] \in ThreadStates /\ th[t].pc = "settle" /\ th[t].op = "activity" /\ q \in Seqs
      /\ act \in [Seqs -> Acts] /\ timers \in [Seqs -> Nat] /\ hist' = hist
  BY ZenonT(30), ThreadFacts DEF Settle, At, ShapeOK, RunInv, TypeOK
<1>1. CASE Return(t) /\ UNCHANGED <<act, timers>>
  BY Zenon, <1>0, <1>1, StartsReturn
<1>2. ASSUME ActPending(q), ShouldRetry(q, th[t].out),
             act' = [act EXCEPT ![q] = [st |-> "SCHEDULED", attempt |-> @.attempt + 1]],
             ArmTimer(q), Return(t)
      PROVE  StartsOK'
  <2>1. Become(t, Idle) /\ \A s \in Seqs : ~Starting(Idle, s)
    BY Zenon, <1>2 DEF Return, Starting, Idle, Unwritten
  <2>2. ASSUME NEW s \in Seqs PROVE StartsAfter(s)
    <3>1. CASE s = q
      <4>1. Cardinality(Starters(s)') \in Nat
            /\ Cardinality(Starters(s)') + One(Starting(th[t], s))
                 = Cardinality(Starters(s)) + One(Starting(Idle, s))
        BY Zenon, <2>1, StarterCount
      <4>2. One(Starting(th[t], s)) \in {0, 1} /\ One(Starting(Idle, s)) = 0
        BY Zenon, <2>1 DEF One
      <4>3. timers'[s] = timers[s] + 1 /\ act'[s].attempt = act[s].attempt + 1
            /\ act'[s].st = "SCHEDULED"
        BY ZenonT(30), <1>0, <1>2, <3>1 DEF ArmTimer, Acts
      <4>4. /\ Cardinality(StartedAt(hist, s)) + timers[s] + Cardinality(Starters(s)) <= act[s].attempt
            /\ act[s].attempt < MaxAttempts[s]
        BY Zenon, <1>2, <3>1 DEF StartsOK, ShouldRetry
      <4> QED BY <1>0, <4>1, <4>2, <4>3, <4>4, StartCounts, AttemptAssumption DEF StartsAfter
    <3>2. CASE s # q
      <4>1. timers'[s] = timers[s] /\ act'[s] = act[s]
        BY ZenonT(30), <1>0, <1>2, <3>2 DEF ArmTimer
      <4> QED BY ZenonT(30), <1>0, <2>1, <4>1, StartsOther
    <3> QED BY Zenon, <3>1, <3>2
  <2> QED BY Zenon, <2>2 DEF StartsOK, StartsAfter
<1>3. ASSUME ActPending(q), act' = [act EXCEPT ![q].st = OutcomeRecord(th[t].out)],
             StartAppend(t, ActivityEvent(OutcomeEvent(th[t].out), q)), timers' = timers
      PROVE  StartsOK'
  <2> DEFINE r == [th[t] EXCEPT !.pc = "apRead", !.ev = ActivityEvent(OutcomeEvent(th[t].out), q)]
  <2>1. Elsewhere(r)
    BY Zenon, <1>0 DEF Elsewhere, ThreadStates, Appending, ActivityEvent, OutcomeEvent
  <2>2. Become(t, r)
    BY Zenon, <1>3 DEF StartAppend
  <2>3. \A s \in Seqs : /\ act'[s].attempt = act[s].attempt
                        /\ act'[s].st = "NONE" => act[s].st = "NONE"
    BY Zenon, <1>0, <1>3 DEF Acts, OutcomeRecord
  <2> HIDE DEF r
  <2>4. \A s \in Seqs : ~Starting(r, s)
    BY Zenon, <2>1, NotStarting
  <2> QED BY Zenon, <1>0, <1>3, <2>2, <2>3, <2>4, StartsKept
<1>4. CASE ~ActPending(q) \/ isTerminal(row)
  BY <1>1, <1>4, Zenon DEF Settle
<1>5. CASE ActPending(q) /\ ~isTerminal(row) /\ ShouldRetry(q, th[t].out)
  BY <1>2, <1>5, ZenonT(30) DEF Settle
<1>6. CASE ActPending(q) /\ ~isTerminal(row) /\ ~ShouldRetry(q, th[t].out)
  BY <1>3, <1>6, Zenon DEF Settle
<1> QED BY ZenonT(30), <1>4, <1>5, <1>6

(* applyScheduleActivity: a new record starts at attempt one, with its first
   ACT_STARTED on the way; no earlier one is in the history. *)
LEMMA StartsCommand ==
  ASSUME RunInv, RunInv', StartsOK, NEW t \in Threads, Command(t)
  PROVE  StartsOK'
<1>0. th[t] \in ThreadStates /\ th[t].pc = "cmd" /\ act \in [Seqs -> Acts]
      /\ hist' = hist /\ timers' = timers
  BY Zenon, ThreadFacts DEF Command, At, RunInv, TypeOK, queues
<1>1. CASE Return(t) /\ act' = act
  BY Zenon, <1>0, <1>1, StartsReturn
<1>2. CASE Goto(t, "ttRead") /\ act' = act
  <2>1. Elsewhere([th[t] EXCEPT !.pc = "ttRead"])
    BY Zenon, <1>0 DEF Elsewhere, ThreadStates
  <2> QED BY ZenonT(30), <1>0, <1>2, <2>1, StartsElsewhere DEF Goto
<1>3. ASSUME NEW q \in Seqs, Become(t, [th[t] EXCEPT !.todo = @ \ {q}]), act' = act
      PROVE  StartsOK'
  <2>1. Elsewhere([th[t] EXCEPT !.todo = @ \ {q}])
    BY Zenon, <1>0 DEF Elsewhere, ThreadStates
  <2> QED BY Zenon, <1>0, <1>3, <2>1, StartsElsewhere
<1>4. ASSUME NEW q \in Seqs, ~Recorded(q),
             act' = [act EXCEPT ![q] = [st |-> "SCHEDULED", attempt |-> 1]],
             Become(t, [th[t] EXCEPT !.todo = @ \ {q}, !.seq = q, !.pc = "apRead",
                                     !.ev = ActivityEvent("ACT_SCHEDULED", q)])
      PROVE  StartsOK'
  <2> DEFINE r == [th[t] EXCEPT !.todo = @ \ {q}, !.seq = q, !.pc = "apRead",
                                !.ev = ActivityEvent("ACT_SCHEDULED", q)]
  <2>1. Become(t, r) /\ r.seq = q
    BY Zenon, <1>0, <1>4 DEF ThreadStates
  <2> HIDE DEF r
  <2>2. ASSUME NEW s \in Seqs PROVE StartsAfter(s)
    <3>1. CASE s = q
      <4>1. Cardinality(Starters(s)') \in Nat
            /\ Cardinality(Starters(s)') + One(Starting(th[t], s))
                 = Cardinality(Starters(s)) + One(Starting(r, s))
        BY Zenon, <2>1, StarterCount
      <4>2. One(Starting(th[t], s)) \in {0, 1} /\ One(Starting(r, s)) \in {0, 1}
        BY DEF One
      <4>3. act'[s].attempt = 1 /\ act'[s].st = "SCHEDULED" /\ 1 <= MaxAttempts[s]
        <5>1. act'[s] = [st |-> "SCHEDULED", attempt |-> 1]
          BY ZenonT(30), <1>0, <1>4, <3>1
        <5>2. MaxAttempts[s] \in Nat \ {0}
          BY Zenon, AttemptAssumption
        <5> QED BY <5>1, <5>2
      <4>4. Cardinality(StartedAt(hist, s)) + timers[s] + Cardinality(Starters(s)) <= 0
        BY Zenon, <1>4, <3>1 DEF StartsOK, Recorded
      <4>5. \A c, m, k, n \in Nat, y, z \in {0, 1} :
              n + y = k + z /\ c + m + k <= 0 => c + m + n <= 1
        OBVIOUS
      <4>6. Cardinality(StartedAt(hist, s)) + timers[s] + Cardinality(Starters(s)') <= 1
        BY Zenon, <4>1, <4>2, <4>4, <4>5, StartCounts
      <4> QED BY Zenon, <1>0, <4>3, <4>6 DEF StartsAfter
    <3>2. CASE s # q
      <4>1. act'[s] = act[s] /\ ~Starting(r, s)
        BY Zenon, <1>0, <1>4, <2>1, <3>2 DEF Starting
      <4> QED BY Zenon, <1>0, <2>1, <4>1, StartsOther
    <3> QED BY Zenon, <3>1, <3>2
  <2> QED BY Zenon, <2>2 DEF StartsOK, StartsAfter
<1> QED BY <1>1, <1>2, <1>3, <1>4, ZenonT(30) DEF Command

(* The history with an event put holds one ACT_STARTED more at most, and no more of
   any activity but the event's. *)
LEMMA PutStarted ==
  ASSUME NEW h \in Seq(Events), NEW n \in Nat \ {0}, NEW e \in Events, NEW s \in Seqs
  PROVE  LET g == PutEvent(h, n, e) IN
         /\ Cardinality(StartedAt(g, s)) \in Nat /\ Cardinality(StartedAt(h, s)) \in Nat
         /\ Cardinality(StartedAt(g, s))
              <= Cardinality(StartedAt(h, s)) + One(e = ActivityEvent("ACT_STARTED", s))
<1> DEFINE g == PutEvent(h, n, e)
           A == StartedAt(h, s)
           B == StartedAt(g, s)
<1>1. g \in Seq(Events)
  BY Zenon, PutEventLemma
<1>2. PICK k \in DOMAIN g :
        g[k] = e /\ \A i \in DOMAIN g : i # k => i \in DOMAIN h /\ g[i] = h[i]
  BY Zenon, PutEventLemma
<1> HIDE DEF g
<1>3. IsFiniteSet(A) /\ IsFiniteSet(B)
  <2>1. DOMAIN h = 1 .. Len(h) /\ Len(h) \in Nat /\ DOMAIN g = 1 .. Len(g) /\ Len(g) \in Nat
    BY <1>1
  <2>2. IsFiniteSet(DOMAIN h) /\ IsFiniteSet(DOMAIN g)
    BY <2>1, FS_Interval
  <2> QED BY <2>2, FS_Subset DEF StartedAt
<1>4. B \ {k} \subseteq A /\ (k \in B <=> e = ActivityEvent("ACT_STARTED", s))
  BY Zenon, <1>2 DEF StartedAt
<1> HIDE DEF A, B
<1>5. Cardinality(A) \in Nat /\ Cardinality(B) \in Nat
  BY Zenon, <1>3, FS_CardinalityType
<1>6. Cardinality(B \ {k}) = IF k \in B THEN Cardinality(B) - 1 ELSE Cardinality(B)
  BY Zenon, <1>3, FS_RemoveElement
<1>7. Cardinality(B \ {k}) <= Cardinality(A)
  BY Zenon, <1>3, <1>4, FS_Subset
<1>8. Cardinality(B) <= Cardinality(A) + One(e = ActivityEvent("ACT_STARTED", s))
  BY <1>4, <1>5, <1>6, <1>7 DEF One
<1> QED BY Zenon, <1>5, <1>8 DEF A, B, g

(* appendHistory puts an ACT_STARTED in the place of the goroutine that was on the
   way to it; whatever event it overwrites can only make them fewer. *)
LEMMA StartsEvent ==
  ASSUME RunInv, StartsOK, NEW t \in Threads, AppendEvent(t)
  PROVE  StartsOK'
<1> DEFINE e == th[t].ev
           n == th[t].reg.len + 1
           r == [th[t] EXCEPT !.pc = "apRow"]
<1>1. /\ th[t].pc = "apEvent" /\ Become(t, r) /\ hist' = PutEvent(hist, n, e)
      /\ act' = act /\ timers' = timers
  BY ZenonT(30) DEF AppendEvent, At, Goto, queues
<1>2. e \in Events /\ n \in Nat \ {0} /\ hist \in Seq(Events)
  BY ThreadFacts DEF ThreadStates, Rows, RunInv, TypeOK
<1>3. r.seq = th[t].seq /\ r.pc = "apRow" /\ r.ev = e
  BY Zenon, ThreadFacts DEF ThreadStates
<1>4. e.type \in {"ACT_SCHEDULED", "ACT_STARTED"} => e.seq = th[t].seq
  BY Zenon, <1>1, ThreadFacts DEF ShapeOK, Appending, ActivityEvents
<1> HIDE DEF r, n
<1>5. ASSUME NEW s \in Seqs PROVE StartsAfter(s)
  <2> DEFINE c == Cardinality(StartedAt(hist', s))
             d == Cardinality(StartedAt(hist, s))
             x == One(e = ActivityEvent("ACT_STARTED", s))
             y == One(Starting(th[t], s))
             z == One(Starting(r, s))
  <2>1. c \in Nat /\ d \in Nat /\ c <= d + x
    BY Zenon, <1>1, <1>2, PutStarted
  <2>2. x \in {0, 1} /\ y \in {0, 1} /\ z \in {0, 1}
    BY Zenon DEF One
  <2>3. x + z <= y
    <3>1. CASE e = ActivityEvent("ACT_STARTED", s)
      <4>1. e.type = "ACT_STARTED" /\ e.seq = s
        BY <3>1 DEF ActivityEvent
      <4> HIDE DEF e
      <4>2. ~Starting(r, s) /\ Starting(th[t], s)
        BY Zenon, <1>1, <1>3, <1>4, <4>1 DEF Starting, Unwritten, e
      <4> QED BY <3>1, <4>2 DEF One
    <3>2. CASE e # ActivityEvent("ACT_STARTED", s)
      <4>1. Starting(r, s) => Starting(th[t], s)
        BY Zenon, <1>1, <1>3 DEF Starting, Unwritten
      <4> QED BY <3>2, <4>1 DEF One
    <3> QED BY Zenon, <3>1, <3>2
  <2>4. Cardinality(Starters(s)') \in Nat /\ Cardinality(Starters(s)') + y = Cardinality(Starters(s)) + z
    BY Zenon, <1>1, StarterCount
  <2>5. /\ d + timers[s] + Cardinality(Starters(s)) <= act[s].attempt
        /\ act[s].attempt <= MaxAttempts[s]
        /\ act[s].st = "NONE" => act[s].attempt = 0
    BY Zenon DEF StartsOK
  <2> HIDE DEF c, d, x, y, z
  <2>6. c + timers[s] + Cardinality(Starters(s)') <= act[s].attempt
    BY <2>1, <2>2, <2>3, <2>4, <2>5, StartCounts
  <2> QED BY Zenon, <1>1, <2>5, <2>6 DEF StartsAfter, c
<1> QED BY Zenon, <1>5 DEF StartsOK, StartsAfter

(* A stop leaves no timer and no goroutine. *)
LEMMA StartsCrash ==
  ASSUME RunInv, StartsOK, Crash
  PROVE  StartsOK'
<1>1. hist' = hist /\ act' = act /\ timers' = [s \in Seqs |-> 0] /\ th' = [t \in Threads |-> Idle]
  BY Zenon DEF Crash, shard
<1>2. ASSUME NEW s \in Seqs PROVE StartsAfter(s)
  <2>1. \A t \in Threads : ~Starting(th'[t], s)
    BY Zenon, <1>1 DEF Starting, Idle, Unwritten
  <2>2. Starters(s)' = {}
    BY Zenon, <2>1 DEF Starters
  <2>3. Cardinality(Starters(s)') = 0
    BY Zenon, <2>2, FS_EmptySet
  <2>4. timers'[s] = 0
    BY Zenon, <1>1
  <2>5. /\ Cardinality(StartedAt(hist, s)) + timers[s] + Cardinality(Starters(s)) <= act[s].attempt
        /\ act[s].attempt <= MaxAttempts[s]
        /\ act[s].st = "NONE" => act[s].attempt = 0
    BY DEF StartsOK
  <2> QED BY <1>1, <2>3, <2>4, <2>5, StartCounts DEF StartsAfter
<1> QED BY Zenon, <1>2 DEF StartsOK, StartsAfter

(* StartsOK is an invariant of the run, on top of RunInv. *)
THEOREM StartsInvariant == Spec => []StartsOK
<1>1. Init => StartsOK
  <2> SUFFICES ASSUME Init, NEW s \in Seqs
               PROVE  /\ Cardinality(StartedAt(hist, s)) + timers[s] + Cardinality(Starters(s))
                           <= act[s].attempt
                      /\ act[s].attempt <= MaxAttempts[s]
                      /\ act[s].st = "NONE" => act[s].attempt = 0
    BY DEF StartsOK
  <2>1. StartedAt(hist, s) = {}
    BY DEF Init, StartedAt
  <2>2. Starters(s) = {}
    BY DEF Init, Starters, Starting, Idle, Unwritten
  <2>3. timers[s] = 0 /\ act[s] = NoAct /\ NoAct.attempt = 0
    BY DEF Init, NoAct
  <2>4. MaxAttempts[s] \in Nat
    BY Zenon, AttemptAssumption
  <2> QED BY <2>1, <2>2, <2>3, <2>4, FS_EmptySet
<1>2. RunInv /\ RunInv' /\ StartsOK /\ [Next]_vars => StartsOK'
  <2> SUFFICES ASSUME RunInv, RunInv', StartsOK, [Next]_vars PROVE StartsOK'
    BY Zenon
  <2>1. CASE UNCHANGED vars
    BY Zenon, <2>1 DEF vars, StartsOK, Starters
  <2>2. CASE Crash
    BY Zenon, <2>2, StartsCrash
  <2>3. ASSUME NEW t \in Threads, Serve(t) \/ Client(t) \/ SweepCanceling(t) \/ StoreFails(t)
        PROVE  StartsOK'
    BY Zenon, <2>3, StartsEntry, StartsTimer, StartsStoreFails DEF Serve, Client
  <2>4. ASSUME NEW t \in Threads, Advance(t)
        PROVE  StartsOK'
    BY Zenon, <2>4, StartsOnTheWay, StartsAdvance, StartsDispatch, StartsSettle, StartsCommand, StartsEvent
       DEF Advance, Append3
  <2> QED BY Zenon, <2>1, <2>2, <2>3, <2>4 DEF Next
<1> QED BY <1>1, <1>2, RunInvariant, PTL DEF Spec

(* The retry policy bounds what the history shows, for any interleaving of handlers,
   timers, stops and store errors (effectiveRetryPolicy, ShouldRetry,
   dispatchActivityAttempt). *)
THEOREM AttemptsAreBounded == Spec => []AttemptsBounded
<1>1. RunInv /\ StartsOK => AttemptsBounded
  <2> SUFFICES ASSUME RunInv, StartsOK, NEW s \in Seqs
               PROVE  /\ Cardinality(StartedAt(hist, s)) <= act[s].attempt
                      /\ act[s].attempt <= MaxAttempts[s]
    BY Zenon DEF AttemptsBounded, StartedAt
  <2>1. /\ Cardinality(StartedAt(hist, s)) + timers[s] + Cardinality(Starters(s)) <= act[s].attempt
        /\ act[s].attempt <= MaxAttempts[s]
    BY DEF StartsOK
  <2> QED BY <2>1, StartCounts
<1> QED BY <1>1, RunInvariant, StartsInvariant, PTL
=============================================================================
