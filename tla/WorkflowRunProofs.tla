------------------------- MODULE WorkflowRunProofs -------------------------
(* Proofs about WorkflowRun, for every set of goroutines and activities, every
   retry policy, every mix of client calls, process stops and store errors.  The last part is
   about a run that clients only signal, on an engine that has recovered before it
   serves (Quiet): an open row is indexed, an activity is carried once, a closed
   run stays closed, and the history is only appended to. *)
EXTENDS WorkflowRun, TLAPS

USE DEF NoSeq

(* What putEvent leaves of a history: events below the slot stay, those above go. *)
LEMMA PutEventLemma ==
  ASSUME NEW h \in Seq(Events), NEW n \in Nat \ {0}, NEW e \in Events
  PROVE  /\ PutEvent(h, n, e) \in Seq(Events)
         /\ \E k \in DOMAIN PutEvent(h, n, e) :
              /\ PutEvent(h, n, e)[k] = e
              /\ \A i \in DOMAIN PutEvent(h, n, e) :
                   i # k => i \in DOMAIN h /\ PutEvent(h, n, e)[i] = h[i]
<1>1. CASE n <= Len(h)
  <2> DEFINE g == [h EXCEPT ![n] = e]
  <2>1. PutEvent(h, n, e) = g
    BY <1>1 DEF PutEvent
  <2>2. g \in Seq(Events) /\ n \in DOMAIN g /\ g[n] = e
        /\ \A i \in DOMAIN g : i # n => i \in DOMAIN h /\ g[i] = h[i]
    BY <1>1
  <2> QED BY <2>1, <2>2
<1>2. CASE ~(n <= Len(h))
  <2> DEFINE g == Append(h, e)
  <2>1. PutEvent(h, n, e) = g
    BY <1>2 DEF PutEvent
  <2>2. g \in Seq(Events) /\ Len(h) + 1 \in DOMAIN g /\ g[Len(h) + 1] = e
        /\ \A i \in DOMAIN g : i # Len(h) + 1 => i \in DOMAIN h /\ g[i] = h[i]
    OBVIOUS
  <2> QED BY <2>1, <2>2
<1> QED BY <1>1, <1>2

(* The replaying decider answers any history with a batch of known commands. *)
LEMMA DecideType == ASSUME NEW h \in Seq(Events) PROVE Decide(h) \in Batches
  BY DEF Decide, Batches, SeqsOf

(* A thread between two calls is well typed. *)
LEMMA IdleType == Idle \in ThreadStates
  BY DEF Idle, ThreadStates, WorkflowEvent, Events, WorkflowEvents, NoRow, Rows, Pcs

(* An empty store and idle threads satisfy the invariant. *)
LEMMA InitRunInv == Init => RunInv
<1> SUFFICES ASSUME Init PROVE RunInv
  OBVIOUS
<1>1. TypeOK
  <2>1. row \in Rows /\ hist \in Seq(Events) /\ act \in [Seqs -> Acts]
    BY DEF Init, Rows, NoRow, Acts, ActStatus, NoAct
  <2>2. lock \in Threads \cup {NoThread} /\ th \in [Threads -> ThreadStates]
    BY IdleType DEF Init
  <2>3. tokens \in [Seqs -> Nat] /\ timers \in [Seqs -> Nat] /\ tasks \in [Batches -> Nat]
    BY DEF Init
  <2>4. calls \in 0 .. MaxCalls /\ crashes \in 0 .. MaxCrashes /\ errors \in 0 .. MaxErrors
    BY BoundAssumption DEF Init
  <2>5. open \in BOOLEAN /\ canceling \in BOOLEAN /\ booting \in BOOLEAN /\ started \in BOOLEAN
    BY Zenon DEF Init
  <2> QED BY <2>1, <2>2, <2>3, <2>4, <2>5 DEF TypeOK
<1>2. \A t \in Threads : th[t].pc = "idle" /\ th[t].op = "none"
  BY DEF Init, Idle
<1>3. ThreadInv
  BY <1>2
     DEF ThreadInv, ShapeOK, RecordOK, FreshOK, HoldsLock, Appending, Unwritten, LockedOps
<1>4. EventsHaveRecords /\ OutcomeMatchesRecord /\ ExactlyOnce
  BY DEF Init, EventsHaveRecords, OutcomeMatchesRecord, ExactlyOnce, AtMostOne
<1> QED BY <1>1, <1>3, <1>4 DEF RunInv

-----------------------------------------------------------------------------
(* What a step may do to the lock, given the state r its goroutine reaches. *)
LockStep(t, r) ==
  \/ lock' = lock /\ (HoldsLock(r) => lock = t)
  \/ lock = NoThread /\ lock' = t
  \/ lock' = (IF lock = t THEN NoThread ELSE lock) /\ ~HoldsLock(r)

Inv == ThreadInv /\ EventsHaveRecords /\ OutcomeMatchesRecord /\ ExactlyOnce

(* Nobody else holds the lock, so nobody else is at a step that depends on an
   activity record or carries an activity event. *)
LEMMA OthersHarmless ==
  ASSUME RunInv, NEW t \in Threads, NEW u \in Threads, u # t, lock = t
  PROVE  /\ ~HoldsLock(th[u])
         /\ Appending(th[u]) => th[u].ev.type \notin ActivityEvents
         /\ \A a : RecordOK(th[u], a)
         /\ \A h : FreshOK(th[u], h)
<1>1. ~HoldsLock(th[u])
  BY DEF RunInv, ThreadInv
<1>2. Appending(th[u]) => th[u].ev.type \notin ActivityEvents
  BY <1>1 DEF RunInv, ThreadInv, ShapeOK, HoldsLock, Appending
<1>3. th[u].pc \notin {"cmd", "dispatch", "mint", "recNext"}
  BY <1>1 DEF RunInv, ThreadInv, ShapeOK, HoldsLock, LockedOps
<1>4. \A a : RecordOK(th[u], a)
  BY <1>2, <1>3 DEF RecordOK, ActivityEvents, Outcomes
<1>5. \A h : FreshOK(th[u], h)
  BY <1>2 DEF FreshOK, Unwritten, Appending, ActivityEvents, Outcomes
<1> QED BY <1>1, <1>2, <1>4, <1>5

(* A step that leaves records and history alone. *)
LEMMA QuietStep ==
  ASSUME RunInv, NEW t \in Threads, NEW r, Become(t, r), act' = act, hist' = hist,
         LockStep(t, r), ShapeOK(r), RecordOK(r, act), FreshOK(r, hist)
  PROVE  Inv'
<1>1. \A u \in Threads : th'[u] = IF u = t THEN r ELSE th[u]
  BY DEF Become, RunInv, TypeOK
<1>2. ASSUME NEW u \in Threads
      PROVE  /\ HoldsLock(th'[u]) => lock' = u
             /\ ShapeOK(th'[u]) /\ RecordOK(th'[u], act') /\ FreshOK(th'[u], hist')
  <2>1. CASE u = t
    BY <2>1, <1>1, ThreadAssumption DEF LockStep
  <2>2. CASE u # t
    BY <2>2, <1>1, ThreadAssumption DEF LockStep, RunInv, ThreadInv
  <2> QED BY <2>1, <2>2
<1>3. ThreadInv'
  BY <1>2 DEF ThreadInv
<1>4. EventsHaveRecords' /\ OutcomeMatchesRecord' /\ ExactlyOnce'
  BY DEF RunInv, EventsHaveRecords, OutcomeMatchesRecord, ExactlyOnce, AtMostOne
<1> QED BY <1>3, <1>4 DEF Inv

(* A step of the lock's holder that moves one record, which was not terminal. *)
LEMMA RecordStep ==
  ASSUME RunInv, NEW t \in Threads, NEW r, Become(t, r), hist' = hist, lock = t,
         NEW s \in Seqs, NEW a \in Acts, a.st # "NONE", ~ActTerminal(s),
         act' = [act EXCEPT ![s] = a],
         LockStep(t, r), ShapeOK(r), RecordOK(r, act'), FreshOK(r, hist)
  PROVE  Inv'
<1>1. \A u \in Threads : th'[u] = IF u = t THEN r ELSE th[u]
  BY DEF Become, RunInv, TypeOK
<1>2. \A q \in Seqs : act'[q] = IF q = s THEN a ELSE act[q]
  BY DEF RunInv, TypeOK
<1>3. ASSUME NEW u \in Threads
      PROVE  /\ HoldsLock(th'[u]) => lock' = u
             /\ ShapeOK(th'[u]) /\ RecordOK(th'[u], act') /\ FreshOK(th'[u], hist')
  <2>1. CASE u = t
    BY Zenon, <2>1, <1>1, ThreadAssumption DEF LockStep
  <2>2. CASE u # t
    BY <2>2, <1>1, OthersHarmless DEF RunInv, ThreadInv
  <2> QED BY <2>1, <2>2
<1>4. ThreadInv'
  BY Zenon, <1>3 DEF ThreadInv
<1>5. EventsHaveRecords'
  BY <1>2 DEF RunInv, EventsHaveRecords
<1>6. OutcomeMatchesRecord'
  BY Zenon, <1>2 DEF RunInv, EventsHaveRecords, OutcomeMatchesRecord, OutcomeStatus, ActTerminal,
              Outcomes, ActivityEvents
<1>7. ExactlyOnce'
  BY DEF RunInv, ExactlyOnce, AtMostOne
<1> QED BY <1>4, <1>5, <1>6, <1>7 DEF Inv

(* Typing of a goroutine's step. *)
LEMMA BecomeType ==
  ASSUME RunInv, NEW t \in Threads, NEW r \in ThreadStates, Become(t, r)
  PROVE  th' \in [Threads -> ThreadStates]
  BY DEF Become, RunInv, TypeOK

(* The events the engine appends are well typed. *)
LEMMA EventType ==
  /\ Idle.reg \in Rows /\ Idle.ev \in Events /\ Idle.ev.type \notin ActivityEvents
  /\ \A type \in WorkflowEvents : /\ WorkflowEvent(type) \in Events
                                   /\ WorkflowEvent(type).type = type
  /\ \A type \in ActivityEvents, s \in Seqs : /\ ActivityEvent(type, s) \in Events
                                               /\ ActivityEvent(type, s).type = type
                                               /\ ActivityEvent(type, s).seq = s
<1>1. Idle.reg \in Rows /\ Idle.ev \in Events
  BY IdleType DEF ThreadStates
<1>2. Idle.ev.type \notin ActivityEvents
  BY DEF Idle, WorkflowEvent, ActivityEvents
<1> QED BY <1>1, <1>2 DEF WorkflowEvent, ActivityEvent, Events

(* A thread between two calls holds no lock and remembers nothing. *)
LEMMA IdleOK == /\ ShapeOK(Idle) /\ ~HoldsLock(Idle)
                /\ \A a : RecordOK(Idle, a)
                /\ \A h : FreshOK(Idle, h)
  BY Zenon DEF Idle, ShapeOK, HoldsLock, RecordOK, FreshOK, Appending, Unwritten, LockedOps

(* What every step uses of the invariant about the thread that takes it. *)
LEMMA ThreadFacts ==
  ASSUME RunInv, NEW t \in Threads
  PROVE  /\ th[t] \in ThreadStates /\ ShapeOK(th[t])
         /\ RecordOK(th[t], act) /\ FreshOK(th[t], hist)
         /\ HoldsLock(th[t]) => lock = t
  BY DEF RunInv, TypeOK, ThreadInv

(* A handler that returns. *)
LEMMA ReturnStep ==
  ASSUME RunInv, NEW t \in Threads, Return(t), act' = act, hist' = hist
  PROVE  /\ Inv' /\ th' \in [Threads -> ThreadStates]
         /\ lock' \in Threads \cup {NoThread}
<1>1. Become(t, Idle) /\ LockStep(t, Idle)
  BY IdleOK DEF Return, LockStep
<1>2. Inv'
  BY <1>1, IdleOK, QuietStep
<1>3. th' \in [Threads -> ThreadStates]
  BY <1>1, IdleType, BecomeType
<1>4. lock' \in Threads \cup {NoThread}
  BY DEF Return, RunInv, TypeOK
<1> QED BY <1>2, <1>3, <1>4

(* The step AppendRead preserves the invariant. *)
LEMMA AppendReadStep ==
  ASSUME RunInv, NEW t \in Threads, AppendRead(t)
  PROVE  RunInv'
<1> DEFINE r == [th[t] EXCEPT !.pc = "apEvent", !.reg = row]
<1>1. Become(t, r) /\ act' = act /\ hist' = hist /\ lock' = lock
  BY DEF AppendRead, At, Goto, Resume, StartAppend, shard, queues, bounds
<1>2. th[t] \in ThreadStates /\ ShapeOK(th[t]) /\ RecordOK(th[t], act) /\ FreshOK(th[t], hist)
      /\ (HoldsLock(th[t]) => lock = t)
  BY ThreadFacts
<1>3. r \in ThreadStates
  BY ZenonT(30), <1>2 DEF RunInv, TypeOK, ThreadStates, Pcs
<1>4. TypeOK'
  <2>1. th' \in [Threads -> ThreadStates]
    BY <1>1, <1>3, BecomeType
  <2> QED BY <2>1, <1>1, Zenon
             DEF RunInv, TypeOK, AppendRead, At, Goto, Resume, StartAppend, shard, queues,
                 bounds
<1>5. Inv'
  <2>1. ShapeOK(r) /\ RecordOK(r, act) /\ FreshOK(r, hist) /\ LockStep(t, r)
    BY <1>1, <1>2, SMTT(30)
       DEF AppendRead, At, Goto, Resume, StartAppend, shard, queues, bounds, ShapeOK,
           RecordOK, FreshOK, Appending, Unwritten, HoldsLock, LockStep, LockedOps
  <2> QED BY <1>1, <2>1, QuietStep
<1> QED BY <1>4, <1>5 DEF RunInv, Inv

(* The step TerminalPut preserves the invariant. *)
LEMMA TerminalPutStep ==
  ASSUME RunInv, NEW t \in Threads, TerminalPut(t)
  PROVE  RunInv'
<1> DEFINE r == [th[t] EXCEPT !.pc = "ttOpen", !.reg = Idle.reg, !.ev = Idle.ev]
<1>1. Become(t, r) /\ act' = act /\ hist' = hist /\ lock' = lock
  BY DEF TerminalPut, At, Goto, Resume, StartAppend, shard, queues, bounds
<1>2. th[t] \in ThreadStates /\ ShapeOK(th[t]) /\ RecordOK(th[t], act) /\ FreshOK(th[t], hist)
      /\ (HoldsLock(th[t]) => lock = t)
  BY ThreadFacts
<1>3. r \in ThreadStates
  BY Zenon, <1>2, EventType DEF RunInv, TypeOK, ThreadStates, Pcs
<1>4. TypeOK'
  <2>1. th' \in [Threads -> ThreadStates]
    BY <1>1, <1>3, BecomeType
  <2>2. row' \in Rows
    BY <1>2 DEF TerminalPut, At, ShapeOK, ThreadStates, Rows
  <2> QED BY <2>1, <1>1, <2>2, Zenon
             DEF RunInv, TypeOK, TerminalPut, At, Goto, Resume, StartAppend, shard,
                 queues, bounds
<1>5. Inv'
  <2>1. ShapeOK(r) /\ RecordOK(r, act) /\ FreshOK(r, hist) /\ LockStep(t, r)
    BY <1>1, <1>2
       DEF TerminalPut, At, Goto, Resume, StartAppend, shard, queues, bounds, ShapeOK,
           RecordOK, FreshOK, Appending, Unwritten, HoldsLock, LockStep, LockedOps
  <2> QED BY <1>1, <2>1, QuietStep
<1> QED BY <1>4, <1>5 DEF RunInv, Inv

(* The step TerminalOpen preserves the invariant. *)
LEMMA TerminalOpenStep ==
  ASSUME RunInv, NEW t \in Threads, TerminalOpen(t)
  PROVE  RunInv'
<1> DEFINE r == [th[t] EXCEPT !.pc = "apRead", !.ev = WorkflowEvent(th[t].goal)]
<1>1. Become(t, r) /\ act' = act /\ hist' = hist /\ lock' = lock
  BY Zenon DEF TerminalOpen, At, Goto, Resume, StartAppend, shard, queues, bounds
<1>2. th[t] \in ThreadStates /\ ShapeOK(th[t]) /\ RecordOK(th[t], act) /\ FreshOK(th[t], hist)
      /\ (HoldsLock(th[t]) => lock = t)
  BY ThreadFacts
<1>g. th[t].goal \in WorkflowEvents
  BY <1>2 DEF TerminalOpen, At, ShapeOK, WorkflowEvents
<1>3. r \in ThreadStates
  BY Zenon, <1>2, <1>g, EventType DEF RunInv, TypeOK, ThreadStates, Pcs
<1>4. TypeOK'
  <2>1. th' \in [Threads -> ThreadStates]
    BY <1>1, <1>3, BecomeType
  <2> QED BY <2>1, <1>1, Zenon
             DEF RunInv, TypeOK, TerminalOpen, At, Goto, Resume, StartAppend, shard,
                 queues, bounds
<1>5. Inv'
  <2>1. ShapeOK(r) /\ RecordOK(r, act) /\ FreshOK(r, hist) /\ LockStep(t, r)
    BY <1>1, <1>2
       DEF TerminalOpen, At, Goto, Resume, StartAppend, shard, queues, bounds, ShapeOK,
           RecordOK, FreshOK, Appending, Unwritten, HoldsLock, LockStep, LockedOps,
           WorkflowEvent, WorkflowEvents, ActivityEvents, Outcomes, TerminalStatus
  <2> QED BY Zenon, <1>1, <2>1, QuietStep
<1> QED BY <1>4, <1>5 DEF RunInv, Inv

(* The step StartRow preserves the invariant. *)
LEMMA StartRowStep ==
  ASSUME RunInv, NEW t \in Threads, StartRow(t)
  PROVE  RunInv'
<1> DEFINE r == [th[t] EXCEPT !.pc = "apRead", !.ev = WorkflowEvent("WF_STARTED")]
<1>1. Become(t, r) /\ act' = act /\ hist' = hist /\ lock' = lock
  BY DEF StartRow, At, Goto, Resume, StartAppend, shard, queues, bounds
<1>2. th[t] \in ThreadStates /\ ShapeOK(th[t]) /\ RecordOK(th[t], act) /\ FreshOK(th[t], hist)
      /\ (HoldsLock(th[t]) => lock = t)
  BY ThreadFacts
<1>g. "WF_STARTED" \in WorkflowEvents
  BY DEF WorkflowEvents
<1>3. r \in ThreadStates
  BY Zenon, <1>2, <1>g, EventType DEF RunInv, TypeOK, ThreadStates, Pcs
<1>4. TypeOK'
  <2>1. th' \in [Threads -> ThreadStates]
    BY <1>1, <1>3, BecomeType
  <2>2. row' \in Rows
    BY DEF StartRow, Rows, OpenStatus
  <2> QED BY <2>1, <1>1, <2>2, Zenon
             DEF RunInv, TypeOK, StartRow, At, Goto, Resume, StartAppend, shard, queues,
                 bounds
<1>5. Inv'
  <2>1. ShapeOK(r) /\ RecordOK(r, act) /\ FreshOK(r, hist) /\ LockStep(t, r)
    BY <1>1, <1>2
       DEF StartRow, At, Goto, Resume, StartAppend, shard, queues, bounds, ShapeOK,
           RecordOK, FreshOK, Appending, Unwritten, HoldsLock, LockStep, LockedOps,
           WorkflowEvent, WorkflowEvents, ActivityEvents, Outcomes, TerminalStatus
  <2> QED BY Zenon, <1>1, <2>1, QuietStep
<1> QED BY <1>4, <1>5 DEF RunInv, Inv

-----------------------------------------------------------------------------
(* Steps that begin a handler. *)

(* The step Start preserves the invariant. *)
LEMMA StartStep ==
  ASSUME RunInv, NEW t \in Threads, Start(t)
  PROVE  RunInv'
<1> DEFINE r == [Idle EXCEPT !.op = "start", !.pc = "startRow"]
<1>1. Become(t, r) /\ act' = act /\ hist' = hist /\ lock' = lock
  BY DEF Start, openRun, shard, queues, bounds
<1>2. r \in ThreadStates
  BY IdleType, EventType, ZenonT(40)
     DEF ThreadStates, Pcs, LockedOps, UnlockedOps, RunInv, TypeOK
<1>3. TypeOK'
  <2>1. th' \in [Threads -> ThreadStates]
    BY <1>1, <1>2, BecomeType
  <2> QED BY <2>1, <1>1, Zenon DEF RunInv, TypeOK, Start, openRun, shard, queues, bounds
<1>4. Inv'
  <2>1. ShapeOK(r) /\ RecordOK(r, act) /\ FreshOK(r, hist) /\ LockStep(t, r)
    BY <1>1 DEF Idle, ShapeOK, RecordOK, FreshOK, Appending, Unwritten, HoldsLock,
                LockStep, LockedOps, WorkflowEvent, WorkflowEvents, ActivityEvents, Outcomes, TerminalStatus
  <2> QED BY <1>1, <2>1, QuietStep
<1> QED BY <1>3, <1>4 DEF RunInv, Inv

(* The step signalWorkflow preserves the invariant. *)
LEMMA signalWorkflowStep ==
  ASSUME RunInv, NEW t \in Threads, signalWorkflow(t)
  PROVE  RunInv'
<1> DEFINE r == [Idle EXCEPT !.op = "signal", !.pc = "lock", !.ev = WorkflowEvent("SIGNALED")]
<1>1. Become(t, r) /\ act' = act /\ hist' = hist /\ lock' = lock
  BY DEF signalWorkflow, shard, queues, bounds, Call
<1>a. "SIGNALED" \in WorkflowEvents
  BY DEF WorkflowEvents
<1>2. r \in ThreadStates
  BY IdleType, EventType, <1>a, ZenonT(40)
     DEF ThreadStates, Pcs, LockedOps, UnlockedOps, RunInv, TypeOK
<1>3. TypeOK'
  <2>1. th' \in [Threads -> ThreadStates]
    BY <1>1, <1>2, BecomeType
  <2>2. calls' \in 0 .. MaxCalls
    BY BoundAssumption DEF signalWorkflow, Call, RunInv, TypeOK
  <2> QED BY <2>1, <1>1, <2>2, Zenon
             DEF RunInv, TypeOK, signalWorkflow, shard, queues, bounds, Call
<1>4. Inv'
  <2>1. ShapeOK(r) /\ RecordOK(r, act) /\ FreshOK(r, hist) /\ LockStep(t, r)
    BY <1>1 DEF Idle, ShapeOK, RecordOK, FreshOK, Appending, Unwritten, HoldsLock,
                LockStep, LockedOps, WorkflowEvent, WorkflowEvents, ActivityEvents, Outcomes, TerminalStatus
  <2> QED BY <1>1, <2>1, QuietStep
<1> QED BY <1>3, <1>4 DEF RunInv, Inv

(* The step TerminateWorkflow preserves the invariant. *)
LEMMA TerminateWorkflowStep ==
  ASSUME RunInv, NEW t \in Threads, TerminateWorkflow(t)
  PROVE  RunInv'
<1> DEFINE r == [Idle EXCEPT !.op = "terminate", !.pc = "ttRead", !.goal = "TERMINATED"]
<1>1. Become(t, r) /\ act' = act /\ hist' = hist /\ lock' = lock
  BY DEF TerminateWorkflow, shard, queues, bounds, Call
<1>2. r \in ThreadStates
  <2>1. "TERMINATED" \in TerminalStatus /\ "CANCELED" \in TerminalStatus
    BY DEF TerminalStatus
  <2> QED BY Zenon, <2>1, IdleType DEF ThreadStates, Pcs, UnlockedOps
<1>3. TypeOK'
  <2>1. th' \in [Threads -> ThreadStates]
    BY <1>1, <1>2, BecomeType
  <2>2. calls' \in 0 .. MaxCalls
    BY BoundAssumption DEF TerminateWorkflow, Call, RunInv, TypeOK
  <2> QED BY <2>1, <1>1, <2>2, Zenon
             DEF RunInv, TypeOK, TerminateWorkflow, shard, queues, bounds, Call
<1>4. Inv'
  <2>1. ShapeOK(r) /\ RecordOK(r, act) /\ FreshOK(r, hist) /\ LockStep(t, r)
    BY <1>1 DEF Idle, ShapeOK, RecordOK, FreshOK, Appending, Unwritten, HoldsLock,
                LockStep, LockedOps, WorkflowEvent, WorkflowEvents, ActivityEvents, Outcomes, TerminalStatus
  <2> QED BY <1>1, <2>1, QuietStep
<1> QED BY <1>3, <1>4 DEF RunInv, Inv

(* The step UpdateWorkflowMetadata preserves the invariant. *)
LEMMA UpdateWorkflowMetadataStep ==
  ASSUME RunInv, NEW t \in Threads, UpdateWorkflowMetadata(t)
  PROVE  RunInv'
<1> DEFINE r == [Idle EXCEPT !.op = "metadata", !.pc = "metaPut", !.reg = row]
<1>1. Become(t, r) /\ act' = act /\ hist' = hist /\ lock' = lock
  BY DEF UpdateWorkflowMetadata, shard, queues, bounds, Call
<1>2. r \in ThreadStates
  BY IdleType, EventType, ZenonT(40)
     DEF ThreadStates, Pcs, LockedOps, UnlockedOps, RunInv, TypeOK
<1>3. TypeOK'
  <2>1. th' \in [Threads -> ThreadStates]
    BY <1>1, <1>2, BecomeType
  <2>2. calls' \in 0 .. MaxCalls
    BY BoundAssumption DEF UpdateWorkflowMetadata, Call, RunInv, TypeOK
  <2> QED BY <2>1, <1>1, <2>2, Zenon
             DEF RunInv, TypeOK, UpdateWorkflowMetadata, shard, queues, bounds, Call
<1>4. Inv'
  <2>1. ShapeOK(r) /\ RecordOK(r, act) /\ FreshOK(r, hist) /\ LockStep(t, r)
    BY <1>1 DEF Idle, ShapeOK, RecordOK, FreshOK, Appending, Unwritten, HoldsLock,
                LockStep, LockedOps, WorkflowEvent, WorkflowEvents, ActivityEvents, Outcomes, TerminalStatus
  <2> QED BY <1>1, <2>1, QuietStep
<1> QED BY <1>3, <1>4 DEF RunInv, Inv

(* The step CancelWorkflow preserves the invariant. *)
LEMMA CancelWorkflowStep ==
  ASSUME RunInv, NEW t \in Threads, CancelWorkflow(t)
  PROVE  RunInv'
<1> DEFINE r == [Idle EXCEPT !.op = "cancel", !.pc = "apRead", !.goal = "CANCELED",
                             !.ev = WorkflowEvent("CANCEL_REQUESTED")]
<1>1. Become(t, r) /\ act' = act /\ hist' = hist /\ lock' = lock
  BY DEF CancelWorkflow, shard, queues, bounds, Call
<1>a. "CANCEL_REQUESTED" \in WorkflowEvents
  BY DEF WorkflowEvents
<1>2. r \in ThreadStates
  <2>1. "CANCELED" \in TerminalStatus
    BY DEF TerminalStatus
  <2> QED BY ZenonT(30), <2>1, <1>a, IdleType, EventType DEF ThreadStates, Pcs, UnlockedOps
<1>3. TypeOK'
  <2>1. th' \in [Threads -> ThreadStates]
    BY <1>1, <1>2, BecomeType
  <2>2. calls' \in 0 .. MaxCalls
    BY BoundAssumption DEF CancelWorkflow, Call, RunInv, TypeOK
  <2> QED BY <2>1, <1>1, <2>2, Zenon
             DEF RunInv, TypeOK, CancelWorkflow, shard, queues, bounds, Call
<1>4. Inv'
  <2>1. ShapeOK(r) /\ RecordOK(r, act) /\ FreshOK(r, hist) /\ LockStep(t, r)
    BY <1>1 DEF Idle, ShapeOK, RecordOK, FreshOK, Appending, Unwritten, HoldsLock,
                LockStep, LockedOps, WorkflowEvent, WorkflowEvents, ActivityEvents, Outcomes, TerminalStatus
  <2> QED BY <1>1, <2>1, QuietStep
<1> QED BY <1>3, <1>4 DEF RunInv, Inv

(* The step SweepCanceling preserves the invariant. *)
LEMMA SweepCancelingStep ==
  ASSUME RunInv, NEW t \in Threads, SweepCanceling(t)
  PROVE  RunInv'
<1> DEFINE r == [Idle EXCEPT !.op = "sweep", !.pc = "ttRead", !.goal = "CANCELED"]
<1>1. Become(t, r) /\ act' = act /\ hist' = hist /\ lock' = lock
  BY DEF SweepCanceling, shard, queues, bounds
<1>2. r \in ThreadStates
  <2>1. "TERMINATED" \in TerminalStatus /\ "CANCELED" \in TerminalStatus
    BY DEF TerminalStatus
  <2> QED BY ZenonT(30), <2>1, IdleType DEF ThreadStates, Pcs, UnlockedOps
<1>3. TypeOK'
  <2>1. th' \in [Threads -> ThreadStates]
    BY <1>1, <1>2, BecomeType
  <2> QED BY <2>1, <1>1, Zenon DEF RunInv, TypeOK, SweepCanceling, shard, queues, bounds
<1>4. Inv'
  <2>1. ShapeOK(r) /\ RecordOK(r, act) /\ FreshOK(r, hist) /\ LockStep(t, r)
    BY <1>1 DEF Idle, ShapeOK, RecordOK, FreshOK, Appending, Unwritten, HoldsLock,
                LockStep, LockedOps, WorkflowEvent, WorkflowEvents, ActivityEvents, Outcomes, TerminalStatus
  <2> QED BY <1>1, <2>1, QuietStep
<1> QED BY <1>3, <1>4 DEF RunInv, Inv

(* The step Recover preserves the invariant. *)
LEMMA RecoverStep ==
  ASSUME RunInv, NEW t \in Threads, Recover(t)
  PROVE  RunInv'
<1> DEFINE r == IF open THEN [Idle EXCEPT !.op = "recover", !.pc = "lock"] ELSE Idle
<1>1. Become(t, r) /\ act' = act /\ hist' = hist /\ lock' = lock
  BY DEF Recover, shard, queues, bounds
<1>2. r \in ThreadStates
  <2>1. [Idle EXCEPT !.op = "recover", !.pc = "lock"] \in ThreadStates
    BY ZenonT(30), IdleType DEF ThreadStates, Pcs, LockedOps
  <2> QED BY <2>1, IdleType
<1>3. TypeOK'
  <2>1. th' \in [Threads -> ThreadStates]
    BY <1>1, <1>2, BecomeType
  <2> QED BY <2>1, <1>1, Zenon DEF RunInv, TypeOK, Recover, shard, queues, bounds
<1>4. Inv'
  <2>1. ShapeOK(r) /\ RecordOK(r, act) /\ FreshOK(r, hist) /\ LockStep(t, r)
    BY <1>1 DEF Idle, ShapeOK, RecordOK, FreshOK, Appending, Unwritten, HoldsLock,
                LockStep, LockedOps, WorkflowEvent, WorkflowEvents, ActivityEvents, Outcomes, TerminalStatus
  <2> QED BY <1>1, <2>1, QuietStep
<1> QED BY <1>3, <1>4 DEF RunInv, Inv

(* The step Respond preserves the invariant. *)
LEMMA RespondStep ==
  ASSUME RunInv, NEW t \in Threads, Respond(t)
  PROVE  RunInv'
<1>1. PICK b \in Batches :
        /\ tasks[b] > 0
        /\ tasks' = [tasks EXCEPT ![b] = @ - 1]
        /\ \/ Become(t, [Idle EXCEPT !.op = "respond", !.pc = "lock",
                                     !.todo = b.sched, !.goal = b.close])
           \/ Become(t, [Idle EXCEPT !.op = "respond", !.pc = "lock", !.goal = "CANCELED"])
  BY Zenon DEF Respond
<1>2. UNCHANGED <<row, hist, open, act, lock, tokens, timers, canceling, booting,
                  started, calls, crashes, errors>>
  BY DEF Respond, shard, bounds
<1>3. PICK r \in ThreadStates :
        Become(t, r) /\ r.op = "respond" /\ r.pc = "lock" /\ r.ev = Idle.ev
  <2>1. b.sched \in SUBSET Seqs /\ b.close \in {"NONE"} \cup TerminalStatus
    BY DEF Batches, TerminalStatus
  <2>2. [Idle EXCEPT !.op = "respond", !.pc = "lock", !.todo = b.sched, !.goal = b.close]
          \in ThreadStates
    BY ZenonT(30), <2>1, IdleType DEF ThreadStates, Pcs, LockedOps
  <2>3. "CANCELED" \in TerminalStatus
    BY DEF TerminalStatus
  <2>4. [Idle EXCEPT !.op = "respond", !.pc = "lock", !.goal = "CANCELED"] \in ThreadStates
    BY Zenon, <2>3, IdleType DEF ThreadStates, Pcs, LockedOps
  <2> QED BY Zenon, <1>1, <2>2, <2>4 DEF Idle
<1>4. TypeOK'
  <2>1. th' \in [Threads -> ThreadStates]
    BY <1>3, BecomeType
  <2>2. tasks' \in [Batches -> Nat]
    BY <1>1 DEF RunInv, TypeOK
  <2> QED BY <2>1, <2>2, <1>2, Zenon DEF RunInv, TypeOK
<1>5. Inv'
  <2>1. ShapeOK(r) /\ RecordOK(r, act) /\ FreshOK(r, hist) /\ LockStep(t, r)
    BY <1>2, <1>3, SMTT(30)
       DEF Idle, ShapeOK, RecordOK, FreshOK, Appending, Unwritten, HoldsLock,
                      LockStep, LockedOps, WorkflowEvent, WorkflowEvents
  <2> QED BY Zenon, <1>2, <1>3, <2>1, QuietStep
<1> QED BY <1>4, <1>5 DEF RunInv, Inv

(* The step RespondActivity preserves the invariant. *)
LEMMA RespondActivityStep ==
  ASSUME RunInv, NEW t \in Threads, RespondActivity(t)
  PROVE  RunInv'
<1>1. PICK s \in Seqs, out \in {"ok", "retryable", "fatal"} :
        /\ tokens[s] > 0
        /\ tokens' = [tokens EXCEPT ![s] = @ - 1]
        /\ Become(t, [Idle EXCEPT !.op = "activity", !.pc = "lock", !.seq = s, !.out = out])
  BY Zenon DEF RespondActivity, TakeToken
<1> DEFINE r == [Idle EXCEPT !.op = "activity", !.pc = "lock", !.seq = s, !.out = out]
<1>2. UNCHANGED <<row, hist, open, act, lock, timers, tasks, canceling, booting,
                  started, calls, crashes, errors>>
  BY DEF RespondActivity, shard, bounds
<1>3. r \in ThreadStates
  BY IdleType, ZenonT(40) DEF ThreadStates, Pcs, LockedOps
<1>4. TypeOK'
  <2>1. th' \in [Threads -> ThreadStates]
    BY <1>1, <1>3, BecomeType
  <2>2. tokens' \in [Seqs -> Nat]
    BY <1>1 DEF RunInv, TypeOK
  <2> QED BY <2>1, <2>2, <1>2, Zenon DEF RunInv, TypeOK
<1>5. Inv'
  <2>1. ShapeOK(r) /\ RecordOK(r, act) /\ FreshOK(r, hist) /\ LockStep(t, r)
    BY <1>2 DEF Idle, ShapeOK, RecordOK, FreshOK, Appending, Unwritten, HoldsLock,
                LockStep, LockedOps, WorkflowEvent, WorkflowEvents
  <2> QED BY <1>1, <1>2, <2>1, QuietStep
<1> QED BY <1>4, <1>5 DEF RunInv, Inv

(* The step TimerFires preserves the invariant. *)
LEMMA TimerFiresStep ==
  ASSUME RunInv, NEW t \in Threads, TimerFires(t)
  PROVE  RunInv'
<1>1. PICK s \in Seqs :
        /\ timers[s] > 0
        /\ timers' = [timers EXCEPT ![s] = @ - 1]
        /\ Become(t, [Idle EXCEPT !.op = "timer", !.pc = "lock", !.seq = s])
  BY Zenon DEF TimerFires
<1> DEFINE r == [Idle EXCEPT !.op = "timer", !.pc = "lock", !.seq = s]
<1>2. UNCHANGED <<row, hist, open, act, lock, tokens, tasks, canceling, booting,
                  started, calls, crashes, errors>>
  BY DEF TimerFires, shard, bounds
<1>3. r \in ThreadStates
  BY ZenonT(30), IdleType DEF ThreadStates, Pcs, LockedOps
<1>4. TypeOK'
  <2>1. th' \in [Threads -> ThreadStates]
    BY <1>1, <1>3, BecomeType
  <2>2. timers' \in [Seqs -> Nat]
    BY <1>1 DEF RunInv, TypeOK
  <2> QED BY <2>1, <2>2, <1>2, Zenon DEF RunInv, TypeOK
<1>5. Inv'
  <2>1. ShapeOK(r) /\ RecordOK(r, act) /\ FreshOK(r, hist) /\ LockStep(t, r)
    BY <1>2 DEF Idle, ShapeOK, RecordOK, FreshOK, Appending, Unwritten, HoldsLock,
                LockStep, LockedOps, WorkflowEvent, WorkflowEvents
  <2> QED BY <1>1, <1>2, <2>1, QuietStep
<1> QED BY <1>4, <1>5 DEF RunInv, Inv

-----------------------------------------------------------------------------
(* Steps inside a handler that leave records and history alone. *)

(* The step LockRun preserves the invariant. *)
LEMMA LockRunStep ==
  ASSUME RunInv, NEW t \in Threads, LockRun(t)
  PROVE  RunInv'
<1> DEFINE r == [th[t] EXCEPT !.pc = EntryPoint(th[t].op)]
<1>1. Become(t, r) /\ th[t].pc = "lock" /\ lock = NoThread /\ lock' = t
      /\ UNCHANGED <<row, hist, open, act, tokens, timers, tasks, canceling, booting,
                     started, calls, crashes, errors>>
  BY DEF LockRun, Acquire, Goto, At, shard, queues, bounds
<1>2. EntryPoint(th[t].op) \in Pcs /\ r \in ThreadStates
  BY ThreadFacts DEF EntryPoint, Pcs, ThreadStates
<1>3. TypeOK'
  <2>1. th' \in [Threads -> ThreadStates] /\ lock' \in Threads \cup {NoThread}
    BY <1>1, <1>2, BecomeType
  <2> QED BY <2>1, <1>1, Zenon DEF RunInv, TypeOK
<1>4. Inv'
  <2>1. r.op = th[t].op /\ r.pc = EntryPoint(th[t].op) /\ r.ev = th[t].ev /\ r.seq = th[t].seq
    BY ThreadFacts DEF ThreadStates
  <2>2. th[t].op \in LockedOps /\ th[t].ev.type \in WorkflowEvents
        /\ (th[t].op \in {"activity", "timer"} => th[t].seq \in Seqs)
    BY <1>1, ThreadFacts DEF ShapeOK
  <2>3. th[t].ev.type \notin ActivityEvents
    BY <2>2 DEF WorkflowEvents, TerminalStatus, ActivityEvents
  <2>4. \/ r.op = "respond" /\ r.pc = "cmd"
        \/ r.op = "activity" /\ r.pc = "settle"
        \/ r.op = "timer" /\ r.pc = "dispatch"
        \/ r.op = "signal" /\ r.pc = "apRead"
        \/ r.op = "recover" /\ r.pc = "recRow"
    BY Zenon, <2>1, <2>2 DEF EntryPoint, LockedOps
  <2>5. r.pc = "apRead" => r.ev.type # "CANCEL_REQUESTED"
    BY Zenon, <1>1, <2>1, <2>4, ThreadFacts DEF ShapeOK
  <2>6. ShapeOK(r)
    BY Zenon, <2>1, <2>2, <2>3, <2>4, <2>5 DEF ShapeOK, Appending, ActivityEvents
  <2>7. RecordOK(r, act) /\ FreshOK(r, hist)
    BY <2>1, <2>3, <2>4
       DEF RecordOK, FreshOK, Appending, Unwritten, Outcomes, ActivityEvents
  <2>8. LockStep(t, r)
    BY <1>1 DEF LockStep
  <2> QED BY <1>1, <2>6, <2>7, <2>8, QuietStep
<1> QED BY <1>3, <1>4 DEF RunInv, Inv

(* The step CancelRead preserves the invariant. *)
LEMMA CancelReadStep ==
  ASSUME RunInv, NEW t \in Threads, CancelRead(t)
  PROVE  RunInv'
<1>1. th[t].pc = "cancelRead"
      /\ UNCHANGED <<row, hist, open, act, lock, tokens, timers, tasks, canceling,
                     booting, started, calls, crashes, errors>>
  BY DEF CancelRead, At, shard, queues, bounds
<1>2. PICK r \in ThreadStates :
        /\ Become(t, r) /\ r.op = th[t].op /\ r.goal = th[t].goal
        /\ r.pc \in {"ttRead", "cancelPut"}
  <2>1. [th[t] EXCEPT !.pc = "ttRead"] \in ThreadStates
    BY ThreadFacts DEF ThreadStates, Pcs
  <2>2. th[t] \in ThreadStates /\ row \in Rows
    BY ThreadFacts DEF RunInv, TypeOK
  <2>3. [th[t] EXCEPT !.pc = "cancelPut", !.reg = row] \in ThreadStates
    BY Zenon, <2>2 DEF ThreadStates, Pcs
  <2> QED BY Zenon, <2>1, <2>2, <2>3 DEF CancelRead, Goto, ThreadStates
<1>3. TypeOK'
  <2>1. th' \in [Threads -> ThreadStates]
    BY <1>2, BecomeType
  <2> QED BY <2>1, <1>1, Zenon DEF RunInv, TypeOK
<1>4. Inv'
  <2>1. ShapeOK(r) /\ RecordOK(r, act) /\ FreshOK(r, hist) /\ LockStep(t, r)
    BY Zenon, <1>1, <1>2, ThreadFacts
       DEF ShapeOK, RecordOK, FreshOK, Appending, Unwritten, HoldsLock, LockStep
  <2> QED BY Zenon, <1>1, <1>2, <2>1, QuietStep
<1> QED BY <1>3, <1>4 DEF RunInv, Inv

(* The step RecoverNext preserves the invariant. *)
LEMMA RecoverNextStep ==
  ASSUME RunInv, NEW t \in Threads, RecoverNext(t)
  PROVE  RunInv'
<1>1. th[t].pc = "recNext"
      /\ UNCHANGED <<row, hist, open, act, lock, tokens, timers, tasks, canceling,
                     booting, started, calls, crashes, errors>>
  BY Zenon DEF RecoverNext, At, shard, queues, bounds
<1>2. CASE \E s \in Seqs :
             /\ IsNext(s, th[t].todo)
             /\ Become(t, [th[t] EXCEPT !.todo = @ \ {s}, !.seq = s, !.pc = "dispatch"])
  <2>1. PICK s \in Seqs :
          /\ IsNext(s, th[t].todo)
          /\ Become(t, [th[t] EXCEPT !.todo = @ \ {s}, !.seq = s, !.pc = "dispatch"])
    BY Zenon, <1>2
  <2> DEFINE r == [th[t] EXCEPT !.todo = @ \ {s}, !.seq = s, !.pc = "dispatch"]
  <2>2. r \in ThreadStates
    BY ThreadFacts, ZenonT(40) DEF ThreadStates, Pcs
  <2>3. TypeOK'
    <3>1. th' \in [Threads -> ThreadStates]
      BY <2>1, <2>2, BecomeType
    <3> QED BY <3>1, <1>1, Zenon DEF RunInv, TypeOK
  <2>4. r.op = th[t].op /\ r.pc = "dispatch" /\ r.seq = s /\ r.todo = th[t].todo \ {s}
    BY ThreadFacts DEF ThreadStates
  <2>5. ShapeOK(r) /\ FreshOK(r, hist) /\ LockStep(t, r)
    BY <1>1, <2>4, ThreadFacts
       DEF ShapeOK, FreshOK, Appending, Unwritten, HoldsLock, LockStep
  <2>6. RecordOK(r, act)
    <3>1. th[t].op = "recover"
      BY Zenon, <1>1, ThreadFacts DEF ShapeOK
    <3> QED BY <1>1, <2>1, <2>4, <3>1, ThreadFacts DEF RecordOK, IsNext, Appending
  <2> QED BY <1>1, <2>1, <2>3, <2>5, <2>6, QuietStep DEF RunInv, Inv
<1>3. CASE Goto(t, "enqueue")
  <2> DEFINE r == [th[t] EXCEPT !.pc = "enqueue"]
  <2>1. Become(t, r) /\ r \in ThreadStates
    BY <1>3, ThreadFacts DEF Goto, ThreadStates, Pcs
  <2>2. TypeOK'
    <3>1. th' \in [Threads -> ThreadStates]
      BY Zenon, <2>1, BecomeType
    <3> QED BY <3>1, <1>1, Zenon DEF RunInv, TypeOK
  <2>3. ShapeOK(r) /\ RecordOK(r, act) /\ FreshOK(r, hist) /\ LockStep(t, r)
    BY <1>1, ThreadFacts
    DEF ThreadStates, ShapeOK, RecordOK, FreshOK, Appending, Unwritten, HoldsLock,
        LockStep
  <2> QED BY <1>1, <2>1, <2>2, <2>3, QuietStep DEF RunInv, Inv
<1> QED BY Zenon, <1>2, <1>3 DEF RecoverNext

(* The step Enqueue preserves the invariant. *)
LEMMA EnqueueStep ==
  ASSUME RunInv, NEW t \in Threads, Enqueue(t)
  PROVE  RunInv'
<1>1. Return(t) /\ UNCHANGED <<row, hist, open, act, tokens, timers, canceling, booting,
                               started, calls, crashes, errors>>
  BY DEF Enqueue, shard, bounds
<1>2. tasks' \in [Batches -> Nat]
  BY DecideType DEF Enqueue, RunInv, TypeOK
<1>3. TypeOK'
  BY <1>1, <1>2, ReturnStep, Zenon DEF RunInv, TypeOK
<1> QED BY <1>1, <1>3, ReturnStep DEF RunInv, Inv

(* The step MetadataPut preserves the invariant. *)
LEMMA MetadataPutStep ==
  ASSUME RunInv, NEW t \in Threads, MetadataPut(t)
  PROVE  RunInv'
<1>1. Return(t) /\ UNCHANGED <<hist, open, act, tokens, timers, tasks, canceling, booting,
                               started, calls, crashes, errors>>
  BY Zenon DEF MetadataPut, queues, bounds
<1>2. row' \in Rows
  BY ThreadFacts DEF MetadataPut, ThreadStates
<1>3. TypeOK'
  BY <1>1, <1>2, ReturnStep, Zenon DEF RunInv, TypeOK
<1> QED BY <1>1, <1>3, ReturnStep DEF RunInv, Inv

(* The step CancelPut preserves the invariant. *)
LEMMA CancelPutStep ==
  ASSUME RunInv, NEW t \in Threads, CancelPut(t)
  PROVE  RunInv'
<1>1. Return(t) /\ UNCHANGED <<hist, open, act, tokens, timers, tasks, booting,
                               started, calls, crashes, errors>>
      /\ canceling' = TRUE
  BY DEF CancelPut, queues, bounds
<1>2. row' \in Rows
  BY ThreadFacts DEF CancelPut, ThreadStates, Rows, OpenStatus
<1>3. TypeOK'
  BY <1>1, <1>2, ReturnStep, Zenon DEF RunInv, TypeOK
<1> QED BY <1>1, <1>3, ReturnStep DEF RunInv, Inv

(* The step AppendRow preserves the invariant. *)
LEMMA AppendRowStep ==
  ASSUME RunInv, NEW t \in Threads, AppendRow(t)
  PROVE  RunInv'
<1> DEFINE pc == AfterAppend(th[t].ev.type)
           r == [th[t] EXCEPT !.pc = pc, !.reg = Idle.reg, !.ev = Idle.ev]
<1>1. th[t].pc = "apRow"
      /\ UNCHANGED <<hist, open, act, tokens, timers, tasks, canceling, booting,
                     started, calls, crashes, errors>>
  BY DEF AppendRow, At, queues, bounds
<1>2. row' \in Rows
  BY ThreadFacts DEF AppendRow, ThreadStates, Rows
<1>3. CASE pc = "idle"
  <2>1. Return(t)
    BY <1>3 DEF AppendRow
  <2>2. TypeOK'
    BY <1>1, <1>2, <2>1, ReturnStep, Zenon DEF RunInv, TypeOK
  <2> QED BY <1>1, <2>1, <2>2, ReturnStep DEF RunInv, Inv
<1>4. CASE pc # "idle"
  <2>1. Become(t, r) /\ lock' = lock
    BY Zenon, <1>4 DEF AppendRow, Resume
  <2>2. /\ pc = "dispatch" <=> th[t].ev.type = "ACT_SCHEDULED"
        /\ pc = "mint" <=> th[t].ev.type = "ACT_STARTED"
        /\ pc = "cancelRead" <=> th[t].ev.type = "CANCEL_REQUESTED"
        /\ pc \in {"dispatch", "mint", "cancelRead", "enqueue"}
    BY <1>4 DEF AfterAppend, TerminalStatus
  <2>3. r \in ThreadStates
    <3>1. pc \in Pcs
      BY <2>2 DEF Pcs
    <3>2. th[t] \in ThreadStates /\ Idle.reg \in Rows /\ Idle.ev \in Events
      BY ThreadFacts, EventType
    <3> HIDE DEF pc
    <3> QED BY Zenon, <3>1, <3>2 DEF ThreadStates
  <2>4. r.op = th[t].op /\ r.pc = pc /\ r.seq = th[t].seq /\ r.goal = th[t].goal
    BY Zenon, ThreadFacts DEF ThreadStates
  <2>5. ShapeOK(r) /\ FreshOK(r, hist) /\ LockStep(t, r)
    BY ZenonT(30), <1>1, <2>1, <2>2, <2>4, ThreadFacts
       DEF ShapeOK, FreshOK, Appending, Unwritten, HoldsLock, LockStep, ActivityEvents
  <2>6. RecordOK(r, act)
    BY <1>1, <2>2, <2>4, ThreadFacts DEF RecordOK, ShapeOK, Appending
  <2>7. TypeOK'
    <3>1. th' \in [Threads -> ThreadStates]
      BY <2>1, <2>3, BecomeType
    <3> QED BY <1>1, <1>2, <2>1, <3>1, Zenon DEF RunInv, TypeOK
  <2> QED BY <1>1, <2>1, <2>5, <2>6, <2>7, QuietStep DEF RunInv, Inv
<1> QED BY <1>3, <1>4

(* The step TerminalRead preserves the invariant. *)
LEMMA TerminalReadStep ==
  ASSUME RunInv, NEW t \in Threads, TerminalRead(t)
  PROVE  RunInv'
<1> DEFINE r == [th[t] EXCEPT !.pc = "ttPut", !.reg = row]
<1>1. th[t].pc = "ttRead"
      /\ UNCHANGED <<row, hist, open, act, tokens, timers, tasks, canceling, booting,
                     started, calls, crashes, errors>>
  BY DEF TerminalRead, At, shard, queues, bounds
<1>2. CASE Return(t)
  <2>1. TypeOK'
    BY <1>1, <1>2, ReturnStep, Zenon DEF RunInv, TypeOK
  <2> QED BY <1>1, <1>2, <2>1, ReturnStep DEF RunInv, Inv
<1>3. CASE Become(t, r) /\ lock' = lock
  <2>1. r \in ThreadStates
    <3>1. th[t] \in ThreadStates /\ row \in Rows
      BY ThreadFacts DEF RunInv, TypeOK
    <3> QED BY Zenon, <3>1 DEF ThreadStates, Pcs
  <2>2. TypeOK'
    <3>1. th' \in [Threads -> ThreadStates]
      BY <1>3, <2>1, BecomeType
    <3> QED BY <1>1, <1>3, <3>1, Zenon DEF RunInv, TypeOK
  <2>3. ShapeOK(r) /\ RecordOK(r, act) /\ FreshOK(r, hist) /\ LockStep(t, r)
    <3>1. r.pc = "ttPut" /\ r.op = th[t].op /\ r.goal = th[t].goal
      BY ThreadFacts DEF ThreadStates
    <3>2. ShapeOK(r)
      BY <1>1, <3>1, ThreadFacts DEF ShapeOK, Appending
    <3>3. RecordOK(r, act) /\ FreshOK(r, hist)
      BY <3>1 DEF RecordOK, FreshOK, Appending, Unwritten
    <3>4. LockStep(t, r)
      BY <1>1, <1>3, <3>1, ThreadFacts DEF LockStep, HoldsLock
    <3> QED BY <3>2, <3>3, <3>4
  <2> QED BY <1>1, <1>3, <2>2, <2>3, QuietStep DEF RunInv, Inv
<1> QED BY <1>2, <1>3 DEF TerminalRead

(* The step Mint preserves the invariant. *)
LEMMA MintStep ==
  ASSUME RunInv, NEW t \in Threads, Mint(t)
  PROVE  RunInv'
<1> DEFINE pc == IF th[t].op = "respond" THEN "cmd" ELSE "recNext"
           r == [th[t] EXCEPT !.seq = NoSeq, !.pc = pc]
<1>1. th[t].pc = "mint"
      /\ UNCHANGED <<row, hist, open, act, timers, tasks, canceling, booting,
                     started, calls, crashes, errors>>
  BY Zenon DEF Mint, At, shard, bounds
<1>2. tokens' \in [Seqs -> Nat]
  BY ThreadFacts DEF Mint, At, ShapeOK, RunInv, TypeOK
<1>3. CASE th[t].op = "timer"
  <2>1. Return(t)
    BY <1>3 DEF Mint
  <2>2. TypeOK'
    BY <1>1, <1>2, <2>1, ReturnStep, Zenon DEF RunInv, TypeOK
  <2> QED BY <1>1, <2>1, <2>2, ReturnStep DEF RunInv, Inv
<1>4. CASE th[t].op # "timer"
  <2>1. Become(t, r) /\ lock' = lock
    BY <1>4 DEF Mint
  <2>2. r \in ThreadStates
    BY ThreadFacts, ZenonT(40) DEF ThreadStates, Pcs
  <2>3. TypeOK'
    <3>1. th' \in [Threads -> ThreadStates]
      BY <2>1, <2>2, BecomeType
    <3> QED BY <1>1, <1>2, <2>1, <3>1, Zenon DEF RunInv, TypeOK
  <2>4. r.op = th[t].op /\ r.pc = pc /\ r.todo = th[t].todo /\ r.op \in {"respond", "recover"}
    BY <1>1, <1>4, ThreadFacts DEF ThreadStates, ShapeOK
  <2>5. ShapeOK(r) /\ RecordOK(r, act) /\ FreshOK(r, hist) /\ LockStep(t, r)
    BY <1>1, <2>1, <2>4, ThreadFacts, SMTT(30)
       DEF ShapeOK, RecordOK, FreshOK, Appending, Unwritten, HoldsLock, LockStep
  <2> QED BY <1>1, <2>1, <2>3, <2>5, QuietStep DEF RunInv, Inv
<1> QED BY <1>3, <1>4

(* The step RecoverRow preserves the invariant. *)
LEMMA RecoverRowStep ==
  ASSUME RunInv, NEW t \in Threads, RecoverRow(t)
  PROVE  RunInv'
<1> DEFINE r == [th[t] EXCEPT !.pc = "recNext", !.todo = {s \in Seqs : ActPending(s)}]
<1>1. th[t].pc = "recRow"
      /\ UNCHANGED <<row, hist, act, tokens, timers, tasks, canceling, booting,
                     started, calls, crashes, errors>>
  BY DEF RecoverRow, At, queues, bounds
<1>2. CASE row.st \notin OpenStatus
  <2>1. Return(t) /\ open' = FALSE
    BY <1>2 DEF RecoverRow
  <2>2. TypeOK'
    BY <1>1, <2>1, ReturnStep, Zenon DEF RunInv, TypeOK
  <2> QED BY <1>1, <2>1, <2>2, ReturnStep DEF RunInv, Inv
<1>3. CASE row.st \in OpenStatus
  <2>1. Become(t, r) /\ lock' = lock /\ open' = open
    BY <1>3 DEF RecoverRow
  <2>2. r \in ThreadStates
    BY ThreadFacts, ZenonT(40) DEF ThreadStates, Pcs
  <2>3. TypeOK'
    <3>1. th' \in [Threads -> ThreadStates]
      BY <2>1, <2>2, BecomeType
    <3> QED BY <1>1, <2>1, <3>1, Zenon DEF RunInv, TypeOK
  <2>4. r.op = th[t].op /\ r.pc = "recNext" /\ \A s \in r.todo : ActPending(s)
    BY ThreadFacts DEF ThreadStates
  <2>5. ShapeOK(r) /\ RecordOK(r, act) /\ FreshOK(r, hist) /\ LockStep(t, r)
    BY <1>1, <2>1, <2>4, ThreadFacts
       DEF ShapeOK, RecordOK, FreshOK, Appending, Unwritten, HoldsLock, LockStep, ActPending
  <2> QED BY <1>1, <2>1, <2>3, <2>5, QuietStep DEF RunInv, Inv
<1> QED BY <1>2, <1>3

(* The step StoreFails preserves the invariant. *)
LEMMA StoreFailsStep ==
  ASSUME RunInv, NEW t \in Threads, StoreFails(t)
  PROVE  RunInv'
<1>1. UNCHANGED <<row, hist, open, act, tokens, timers, tasks, canceling, booting,
                  started, calls, crashes>>
  BY DEF StoreFails, shard, queues
<1>2. errors' \in 0 .. MaxErrors
  BY BoundAssumption DEF StoreFails, RunInv, TypeOK
<1>3. CASE Return(t)
  <2>1. TypeOK'
    BY <1>1, <1>2, <1>3, ReturnStep, ZenonT(30) DEF RunInv, TypeOK
  <2> QED BY <1>1, <1>3, <2>1, ReturnStep DEF RunInv, Inv
<1>4. ASSUME NEW r \in ThreadStates, Become(t, r), lock' = lock,
             r.pc = "cmd", r.op = "respond", th[t].op = "respond",
             th[t].pc \notin {"idle", "lock"}
      PROVE  RunInv'
  <2>1. TypeOK'
    <3>1. th' \in [Threads -> ThreadStates]
      BY Zenon, <1>4, BecomeType
    <3> QED BY <1>1, <1>2, <1>4, <3>1, Zenon DEF RunInv, TypeOK
  <2>2. ShapeOK(r) /\ RecordOK(r, act) /\ FreshOK(r, hist)
    BY Zenon, <1>4 DEF ShapeOK, RecordOK, FreshOK, Appending, Unwritten
  <2>3. LockStep(t, r)
    BY <1>4, ThreadFacts DEF HoldsLock, LockStep, LockedOps
  <2> QED BY <1>1, <1>4, <2>1, <2>2, <2>3, QuietStep DEF RunInv, Inv
<1>5. CASE /\ th[t].pc \in WritePcs /\ Scheduling(t)
           /\ Become(t, [th[t] EXCEPT !.pc = "cmd", !.seq = NoSeq,
                                      !.reg = Idle.reg, !.ev = Idle.ev])
           /\ lock' = lock
  <2> DEFINE r == [th[t] EXCEPT !.pc = "cmd", !.seq = NoSeq, !.reg = Idle.reg, !.ev = Idle.ev]
  <2>1. th[t] \in ThreadStates /\ Idle.reg \in Rows /\ Idle.ev \in Events
    BY ThreadFacts, EventType
  <2>2. r \in ThreadStates
    BY Zenon, <2>1 DEF ThreadStates, Pcs
  <2>3. r.pc = "cmd" /\ r.op = "respond" /\ th[t].op = "respond"
    BY <1>5, <2>1 DEF ThreadStates, Scheduling
  <2>4. th[t].pc \notin {"idle", "lock"}
    BY <1>5 DEF WritePcs
  <2> HIDE DEF r
  <2> QED BY Zenon, <1>4, <1>5, <2>2, <2>3, <2>4 DEF r
<1>6. ASSUME NEW s \in Seqs, th[t].pc = "cmd",
             Become(t, [th[t] EXCEPT !.todo = @ \ {s}]), lock' = lock
      PROVE  RunInv'
  <2> DEFINE r == [th[t] EXCEPT !.todo = @ \ {s}]
  <2>1. r \in ThreadStates
    BY ThreadFacts DEF ThreadStates
  <2>2. r.pc = "cmd" /\ r.op = "respond" /\ th[t].op = "respond"
    BY <1>6, ThreadFacts DEF ThreadStates, ShapeOK
  <2> QED BY Zenon, <1>4, <1>6, <2>1, <2>2
<1> QED BY Zenon, <1>3, <1>5, <1>6 DEF StoreFails, At

-----------------------------------------------------------------------------
(* Steps that move an activity record: their goroutine holds the run's lock. *)

(* The step Command preserves the invariant. *)
LEMMA CommandStep ==
  ASSUME RunInv, NEW t \in Threads, Command(t)
  PROVE  RunInv'
<1>1. th[t].pc = "cmd" /\ th[t].op = "respond" /\ lock = t
      /\ UNCHANGED <<row, hist, open, tokens, timers, tasks, booting,
                     started, calls, crashes, errors>>
  BY Zenon, ThreadFacts DEF Command, At, queues, bounds, ShapeOK, HoldsLock, LockedOps
<1>2. ASSUME NEW s \in Seqs, Become(t, [th[t] EXCEPT !.todo = @ \ {s}]),
             UNCHANGED <<act, lock, canceling>>
      PROVE  RunInv'
  <2> DEFINE r == [th[t] EXCEPT !.todo = @ \ {s}]
  <2>1. r \in ThreadStates
    BY ThreadFacts DEF ThreadStates
  <2>2. r.pc = "cmd" /\ r.op = "respond"
    BY ZenonT(30), <1>1, ThreadFacts DEF ThreadStates
  <2>3. ShapeOK(r) /\ RecordOK(r, act) /\ FreshOK(r, hist) /\ LockStep(t, r)
    BY <1>1, <1>2, <2>2 DEF ShapeOK, RecordOK, FreshOK, Appending, Unwritten, LockStep
  <2>4. TypeOK'
    <3>1. th' \in [Threads -> ThreadStates]
      BY Zenon, <1>2, <2>1, BecomeType
    <3> QED BY <1>1, <1>2, <3>1, Zenon DEF RunInv, TypeOK
  <2> QED BY Zenon, <1>1, <1>2, <2>3, <2>4, QuietStep DEF RunInv, Inv
<1>3. ASSUME NEW s \in Seqs, act[s].st = "NONE",
             act' = [act EXCEPT ![s] = [st |-> "SCHEDULED", attempt |-> 1]],
             Become(t, [th[t] EXCEPT !.todo = @ \ {s}, !.seq = s, !.pc = "apRead",
                                     !.ev = ActivityEvent("ACT_SCHEDULED", s)]),
             UNCHANGED <<lock, canceling>>
      PROVE  RunInv'
  <2> DEFINE r == [th[t] EXCEPT !.todo = @ \ {s}, !.seq = s, !.pc = "apRead",
                                !.ev = ActivityEvent("ACT_SCHEDULED", s)]
             a == [st |-> "SCHEDULED", attempt |-> 1]
  <2>1. ActivityEvent("ACT_SCHEDULED", s) \in Events /\ th[t] \in ThreadStates
    BY EventType, ThreadFacts DEF ActivityEvents
  <2>2. r \in ThreadStates
    BY Zenon, <2>1 DEF ThreadStates, Pcs
  <2>3. a \in Acts /\ act' \in [Seqs -> Acts] /\ act'[s] = a
    BY <1>3 DEF RunInv, TypeOK, Acts, ActStatus
  <2>4. /\ r.op = "respond" /\ r.pc = "apRead" /\ r.seq = s
        /\ r.ev.type = "ACT_SCHEDULED" /\ r.ev.seq = s
    BY <1>1, <2>1 DEF ThreadStates, ActivityEvent
  <2>5. \A i \in DOMAIN hist : hist[i].type \in ActivityEvents => hist[i].seq # s
    BY <1>3 DEF RunInv, EventsHaveRecords
  <2>6. ShapeOK(r) /\ LockStep(t, r)
    BY <1>1, <1>3, <2>4 DEF ShapeOK, Appending, LockStep, LockedOps
  <2>7. RecordOK(r, act') /\ FreshOK(r, hist)
    BY <2>3, <2>4, <2>5
       DEF RecordOK, FreshOK, Appending, Unwritten, Outcomes, ActivityEvents
  <2>8. TypeOK'
    <3>1. th' \in [Threads -> ThreadStates]
      BY <1>3, <2>2, BecomeType
    <3> QED BY <1>1, <1>3, <2>3, <3>1, Zenon DEF RunInv, TypeOK
  <2>9. Inv'
    <3>1. ~ActTerminal(s) /\ a.st # "NONE"
      BY <1>3 DEF ActTerminal
    <3> HIDE DEF r, a
    <3> QED BY Zenon, <1>1, <1>3, <2>3, <2>6, <2>7, <3>1, RecordStep DEF r, a
  <2> QED BY <2>8, <2>9 DEF RunInv, Inv
<1>4. ASSUME th[t].goal # "NONE", canceling' \in BOOLEAN, Goto(t, "ttRead"), UNCHANGED <<act, lock>>
      PROVE  RunInv'
  <2> DEFINE r == [th[t] EXCEPT !.pc = "ttRead"]
  <2>1. r \in ThreadStates
    BY ThreadFacts DEF ThreadStates, Pcs
  <2>2. r.pc = "ttRead" /\ r.goal \in TerminalStatus
    BY <1>4, ThreadFacts DEF ThreadStates
  <2>3. ShapeOK(r) /\ RecordOK(r, act) /\ FreshOK(r, hist) /\ LockStep(t, r)
    BY <1>1, <1>4, <2>2 DEF ShapeOK, RecordOK, FreshOK, Appending, Unwritten, LockStep
  <2>4. TypeOK'
    <3>1. th' \in [Threads -> ThreadStates]
      BY Zenon, <1>4, <2>1, BecomeType DEF Goto
    <3> QED BY <1>1, <1>4, <3>1, Zenon DEF RunInv, TypeOK
  <2> QED BY <1>1, <1>4, <2>3, <2>4, QuietStep DEF RunInv, Inv, Goto
<1>5. ASSUME Return(t), UNCHANGED <<act, canceling>>
      PROVE  RunInv'
  <2>1. TypeOK'
    BY <1>1, <1>5, ReturnStep, Zenon DEF RunInv, TypeOK
  <2> QED BY Zenon, <1>1, <1>5, <2>1, ReturnStep DEF RunInv, Inv
<1>6. (canceling /\ th[t].goal # "CANCELED") \in BOOLEAN
  BY Zenon
<1> QED BY Zenon, <1>2, <1>3, <1>4, <1>5, <1>6 DEF Command, Recorded

(* The step Dispatch preserves the invariant. *)
LEMMA DispatchStep ==
  ASSUME RunInv, NEW t \in Threads, Dispatch(t)
  PROVE  RunInv'
<1> DEFINE s == th[t].seq
           a == [act[s] EXCEPT !.st = "STARTED"]
<1>1. /\ th[t].pc = "dispatch" /\ lock = t /\ s \in Seqs
      /\ th[t].op \in {"respond", "timer", "recover"}
      /\ UNCHANGED <<row, hist, open, tokens, timers, tasks, canceling, booting,
                     started, calls, crashes, errors>>
  BY Zenon, ThreadFacts DEF Dispatch, At, queues, bounds, ShapeOK, HoldsLock, LockedOps
<1>2. CASE th[t].op = "timer" /\ ActTerminal(s)
  <2>1. Return(t) /\ act' = act
    BY <1>2 DEF Dispatch
  <2>2. TypeOK'
    BY <1>1, <2>1, ReturnStep, Zenon DEF RunInv, TypeOK
  <2> QED BY <1>1, <2>1, <2>2, ReturnStep DEF RunInv, Inv
<1>3. CASE ~(th[t].op = "timer" /\ ActTerminal(s))
  <2>1. act' = [act EXCEPT ![s] = a] /\ lock' = lock
    BY ZenonT(30), <1>1, <1>3 DEF Dispatch, RunInv, TypeOK
  <2>2. ~ActTerminal(s)
    BY Zenon, <1>1, <1>3, ThreadFacts DEF RecordOK, ActTerminal
  <2>3. a \in Acts /\ a.st = "STARTED" /\ act' \in [Seqs -> Acts]
        /\ \A q \in Seqs : act'[q] = IF q = s THEN a ELSE act[q]
    BY ZenonT(30), <1>1, <2>1 DEF RunInv, TypeOK, Acts, ActStatus
  <2>4. ASSUME NEW r \in ThreadStates, Become(t, r), r.seq = s, r.op = th[t].op,
               r.todo = th[t].todo,
               \/ r.pc = "mint" /\ r.op = "recover"
               \/ /\ r.pc = "apRead" /\ r.op # "recover"
                  /\ r.ev.type = "ACT_STARTED" /\ r.ev.seq = s
        PROVE  RunInv'
    <3>1. ShapeOK(r) /\ LockStep(t, r)
      BY Zenon, <1>1, <2>1, <2>4 DEF ShapeOK, Appending, LockStep, LockedOps
    <3>2. RecordOK(r, act')
      <4>1. act'[s].st = "STARTED" /\ \A q \in Seqs \ {s} : act'[q] = act[q]
        BY Zenon, <1>1, <2>3
      <4>2. r.todo \subseteq Seqs
        BY <2>4 DEF ThreadStates
      <4>3. r.op = "recover" => \A q \in r.todo : act[q].st \in {"SCHEDULED", "STARTED"}
        BY ZenonT(30), <1>1, <2>4, ThreadFacts DEF RecordOK
      <4>4. r.op = "recover" => \A q \in r.todo : act'[q].st \in {"SCHEDULED", "STARTED"}
        BY <4>1, <4>2, <4>3
      <4> QED BY <2>4, <4>1, <4>4 DEF RecordOK, Appending, Outcomes
    <3>3. FreshOK(r, hist)
      BY <2>4 DEF FreshOK, Unwritten, Outcomes
    <3>4. TypeOK'
      <4>1. th' \in [Threads -> ThreadStates]
        BY <2>4, BecomeType
      <4> QED BY <1>1, <2>1, <2>3, <4>1, Zenon DEF RunInv, TypeOK
    <3>5. Inv'
      <4> HIDE DEF s, a
      <4>1. a.st # "NONE"
        BY <2>3
      <4> QED BY Zenon, <1>1, <2>1, <2>2, <2>3, <2>4, <3>1, <3>2, <3>3, <4>1, RecordStep
    <3> QED BY <3>4, <3>5 DEF RunInv, Inv
  <2>5. CASE th[t].op = "recover"
    <3> DEFINE r == [th[t] EXCEPT !.pc = "mint"]
    <3>1. Become(t, r)
      BY <1>3, <2>5 DEF Dispatch, Goto
    <3>2. r \in ThreadStates
      BY ThreadFacts DEF ThreadStates, Pcs
    <3>3. r.seq = s /\ r.op = "recover" /\ r.pc = "mint" /\ r.todo = th[t].todo
      BY <2>5, ThreadFacts DEF ThreadStates
    <3> QED BY Zenon, <2>4, <2>5, <3>1, <3>2, <3>3
  <2>6. CASE th[t].op # "recover"
    <3> DEFINE r == [th[t] EXCEPT !.pc = "apRead", !.ev = ActivityEvent("ACT_STARTED", s)]
    <3>1. Become(t, r)
      BY ZenonT(30), <1>3, <2>6 DEF Dispatch, StartAppend
    <3>2. ActivityEvent("ACT_STARTED", s) \in Events /\ th[t] \in ThreadStates
      BY <1>1, EventType, ThreadFacts DEF ActivityEvents
    <3>3. r \in ThreadStates
      BY Zenon, <3>2 DEF ThreadStates, Pcs
    <3>4. /\ r.seq = s /\ r.op = th[t].op /\ r.pc = "apRead" /\ r.todo = th[t].todo
          /\ r.ev.type = "ACT_STARTED" /\ r.ev.seq = s
      BY <3>2 DEF ThreadStates, ActivityEvent
    <3> QED BY Zenon, <2>4, <2>6, <3>1, <3>3, <3>4
  <2> QED BY <2>5, <2>6
<1> QED BY Zenon, <1>2, <1>3

(* The step Settle preserves the invariant. *)
LEMMA SettleStep ==
  ASSUME RunInv, NEW t \in Threads, Settle(t)
  PROVE  RunInv'
<1> DEFINE s == th[t].seq
<1>1. /\ th[t].pc = "settle" /\ lock = t /\ s \in Seqs /\ th[t].op = "activity"
      /\ UNCHANGED <<row, hist, open, tokens, tasks, canceling, booting,
                     started, calls, crashes, errors>>
  BY ZenonT(30), ThreadFacts DEF Settle, At, bounds, ShapeOK, HoldsLock, LockedOps
<1>2. CASE Return(t) /\ UNCHANGED <<act, timers>>
  <2>1. TypeOK'
    BY <1>1, <1>2, ReturnStep, Zenon DEF RunInv, TypeOK
  <2> QED BY <1>1, <1>2, <2>1, ReturnStep DEF RunInv, Inv
<1>3. CASE /\ ActPending(s)
           /\ act' = [act EXCEPT ![s] = [st |-> "SCHEDULED", attempt |-> @.attempt + 1]]
           /\ ArmTimer(s)
           /\ Return(t)
  <2> DEFINE a == [st |-> "SCHEDULED", attempt |-> act[s].attempt + 1]
  <2>1. act' = [act EXCEPT ![s] = a]
    BY ZenonT(30), <1>1, <1>3 DEF RunInv, TypeOK
  <2>2. a \in Acts /\ a.st # "NONE" /\ act' \in [Seqs -> Acts] /\ timers' \in [Seqs -> Nat]
    <3>1. \A x \in Nat : x + 1 \in Nat
      OBVIOUS
    <3>2. act[s] \in Acts /\ timers[s] \in Nat
      BY Zenon, <1>1 DEF RunInv, TypeOK
    <3>3. act[s].attempt + 1 \in Nat
      BY <3>2 DEF Acts
    <3>4. a \in Acts /\ a.st # "NONE"
      BY <3>3 DEF Acts, ActStatus
    <3>5. act' \in [Seqs -> Acts]
      BY Zenon, <2>1, <3>4 DEF RunInv, TypeOK
    <3>6. timers' \in [Seqs -> Nat]
      BY Zenon, <1>3, <3>1, <3>2 DEF RunInv, TypeOK, ArmTimer
    <3> QED BY Zenon, <3>4, <3>5, <3>6
  <2>3. Become(t, Idle) /\ lock' = NoThread
    BY <1>1, <1>3 DEF Return
  <2>4. TypeOK'
    <3>1. th' \in [Threads -> ThreadStates] /\ lock' \in Threads \cup {NoThread}
      BY <2>3, IdleType, BecomeType
    <3> QED BY <1>1, <2>2, <3>1, Zenon DEF RunInv, TypeOK
  <2>5. Inv'
    <3>1. ~ActTerminal(s) /\ LockStep(t, Idle)
      BY Zenon, <1>1, <1>3, <2>3, IdleOK DEF ActPending, ActTerminal, LockStep
    <3> HIDE DEF s, a
    <3> QED BY ZenonT(30), <1>1, <2>1, <2>2, <2>3, <3>1, IdleOK, RecordStep
  <2> QED BY <2>4, <2>5 DEF RunInv, Inv
<1>4. CASE /\ ActPending(s)
           /\ act' = [act EXCEPT ![s].st = OutcomeRecord(th[t].out)]
           /\ StartAppend(t, ActivityEvent(OutcomeEvent(th[t].out), s))
           /\ UNCHANGED <<lock, timers>>
  <2> DEFINE type == OutcomeEvent(th[t].out)
             a == [act[s] EXCEPT !.st = OutcomeStatus(type)]
             r == [th[t] EXCEPT !.pc = "apRead", !.ev = ActivityEvent(type, s)]
  <2>1. Become(t, r) /\ act' = [act EXCEPT ![s] = a]
    BY Zenon, <1>1, <1>4
       DEF StartAppend, RunInv, TypeOK, OutcomeStatus, OutcomeRecord, OutcomeEvent
  <2>2. type \in Outcomes /\ OutcomeStatus(type) \in {"COMPLETED", "FAILED"}
    BY DEF Outcomes, OutcomeStatus, OutcomeEvent
  <2> HIDE DEF type
  <2>3. /\ a \in Acts /\ a.st = OutcomeStatus(type) /\ act' \in [Seqs -> Acts]
        /\ act'[s] = a
    BY ZenonT(30), <1>1, <2>1, <2>2 DEF RunInv, TypeOK, Acts, ActStatus
  <2>4. ActivityEvent(type, s) \in Events /\ th[t] \in ThreadStates
    BY Zenon, <1>1, <2>2, EventType, ThreadFacts DEF ActivityEvents, Outcomes
  <2>5. r \in ThreadStates
    BY ZenonT(30), <2>4 DEF ThreadStates, Pcs
  <2>6. /\ r.op = "activity" /\ r.pc = "apRead" /\ r.seq = s
        /\ r.ev.type = type /\ r.ev.seq = s
    BY <1>1, <2>4 DEF ThreadStates, ActivityEvent
  <2>7. \A i \in DOMAIN hist : hist[i].type \in Outcomes => hist[i].seq # s
    BY Zenon, <1>4 DEF RunInv, OutcomeMatchesRecord, OutcomeStatus, ActPending
  <2>8. ShapeOK(r) /\ LockStep(t, r)
    BY <1>1, <1>4, <2>2, <2>6
       DEF ShapeOK, Appending, LockStep, LockedOps, Outcomes, ActivityEvents
  <2>9. RecordOK(r, act') /\ FreshOK(r, hist)
    BY Zenon, <2>2, <2>3, <2>6, <2>7 DEF RecordOK, FreshOK, Appending, Unwritten, Outcomes
  <2>10. TypeOK'
    <3>1. th' \in [Threads -> ThreadStates]
      BY <2>1, <2>5, BecomeType
    <3> QED BY <1>1, <1>4, <2>3, <3>1, Zenon DEF RunInv, TypeOK
  <2>11. Inv'
    <3>1. ~ActTerminal(s) /\ a.st # "NONE"
      BY <1>4, <2>2, <2>3 DEF ActPending, ActTerminal
    <3> HIDE DEF s, a, r
    <3> QED BY Zenon, <1>1, <2>1, <2>3, <2>8, <2>9, <3>1, RecordStep
  <2> QED BY <2>10, <2>11 DEF RunInv, Inv
<1> QED BY Zenon, <1>2, <1>3, <1>4 DEF Settle

-----------------------------------------------------------------------------
(* The step that puts an event. *)

(* The step AppendEvent preserves the invariant. *)
LEMMA AppendEventStep ==
  ASSUME RunInv, NEW t \in Threads, AppendEvent(t)
  PROVE  RunInv'
<1> DEFINE e == th[t].ev
           n == th[t].reg.len + 1
           r == [th[t] EXCEPT !.pc = "apRow"]
<1>1. /\ th[t].pc = "apEvent" /\ Become(t, r) /\ hist' = PutEvent(hist, n, e)
      /\ UNCHANGED <<row, open, act, lock, tokens, timers, tasks, canceling, booting,
                     started, calls, crashes, errors>>
  BY DEF AppendEvent, At, Goto, queues, bounds
<1>2. e \in Events /\ n \in Nat \ {0} /\ r \in ThreadStates
  BY ThreadFacts DEF ThreadStates, Rows, Pcs
<1>3. hist' \in Seq(Events)
  BY Zenon, <1>1, <1>2, PutEventLemma DEF RunInv, TypeOK
<1>4. PICK k \in DOMAIN hist' :
        /\ hist'[k] = e
        /\ \A i \in DOMAIN hist' : i # k => i \in DOMAIN hist /\ hist'[i] = hist[i]
  BY <1>1, <1>2, PutEventLemma DEF RunInv, TypeOK
<1>5. r.op = th[t].op /\ r.pc = "apRow" /\ r.seq = th[t].seq /\ r.ev = e
      /\ r.goal = th[t].goal /\ r.todo = th[t].todo
  BY Zenon, ThreadFacts DEF ThreadStates
<1>6. e.type \in ActivityEvents => lock = t /\ e.seq = th[t].seq /\ e.seq \in Seqs
  BY Zenon, <1>1, ThreadFacts DEF ShapeOK, Appending, HoldsLock
<1>7. e.type \in ActivityEvents => act[e.seq].st # "NONE"
  BY Zenon, <1>1, <1>6, ThreadFacts
     DEF RecordOK, Appending, ActivityEvents, Outcomes, OutcomeStatus
<1>8. e.type \in Outcomes => act[e.seq].st = OutcomeStatus(e.type)
  BY <1>1, <1>6, ThreadFacts DEF RecordOK, Appending, ActivityEvents, Outcomes
<1>9. \A i \in DOMAIN hist :
        /\ (e.type \in Outcomes /\ hist[i].type \in Outcomes) => hist[i].seq # e.seq
        /\ (e.type = "ACT_SCHEDULED" /\ hist[i].type = "ACT_SCHEDULED") => hist[i].seq # e.seq
  BY <1>1, <1>6, ThreadFacts DEF FreshOK, Unwritten, Outcomes, ActivityEvents
<1>10. TypeOK'
  <2>1. th' \in [Threads -> ThreadStates]
    BY <1>1, <1>2, BecomeType
  <2> QED BY <1>1, <1>3, <2>1, Zenon DEF RunInv, TypeOK
<1>11. ThreadInv'
  <2>1. \A u \in Threads : th'[u] = IF u = t THEN r ELSE th[u]
    BY <1>1 DEF Become, RunInv, TypeOK
  <2>2. ShapeOK(r) /\ RecordOK(r, act) /\ FreshOK(r, hist') /\ (HoldsLock(r) => lock = t)
    <3>1. ShapeOK(r)
      BY ZenonT(30), <1>1, <1>5, ThreadFacts DEF ShapeOK, Appending
    <3>2. RecordOK(r, act)
      BY <1>1, <1>5, ThreadFacts DEF RecordOK, Appending
    <3>3. FreshOK(r, hist') /\ (HoldsLock(r) => lock = t)
      BY <1>1, <1>5, ThreadFacts DEF FreshOK, Unwritten, HoldsLock
    <3> QED BY Zenon, <3>1, <3>2, <3>3
  <2>3. ASSUME NEW u \in Threads, u # t
        PROVE  FreshOK(th[u], hist')
    <3>1. CASE e.type \in ActivityEvents
      BY Zenon, <1>6, <2>3, <3>1, OthersHarmless
    <3>2. CASE e.type \notin ActivityEvents
      <4>1. FreshOK(th[u], hist)
        BY ThreadFacts
      <4>2. \A i \in DOMAIN hist' :
              hist'[i].type \in ActivityEvents => i \in DOMAIN hist /\ hist'[i] = hist[i]
        BY <1>4, <3>2
      <4> QED BY <4>1, <4>2 DEF FreshOK, Outcomes, ActivityEvents
    <3> QED BY Zenon, <3>1, <3>2
  <2>4. ASSUME NEW u \in Threads
        PROVE  /\ HoldsLock(th'[u]) => lock' = u
               /\ ShapeOK(th'[u]) /\ RecordOK(th'[u], act') /\ FreshOK(th'[u], hist')
    <3>1. CASE u = t
      BY <1>1, <2>1, <2>2, <3>1
    <3>2. CASE u # t
      BY ZenonT(30), <1>1, <2>1, <2>3, <3>2, ThreadFacts
    <3> QED BY <3>1, <3>2
  <2> QED BY <2>4 DEF ThreadInv
<1> HIDE DEF e, n, r
<1>12. EventsHaveRecords'
  BY ZenonT(30), <1>1, <1>4, <1>6, <1>7 DEF RunInv, EventsHaveRecords
<1>13. OutcomeMatchesRecord'
  BY ZenonT(30), <1>1, <1>4, <1>8 DEF RunInv, OutcomeMatchesRecord
<1>14. ExactlyOnce'
  BY <1>4, <1>9 DEF RunInv, ExactlyOnce, AtMostOne
<1> QED BY <1>10, <1>11, <1>12, <1>13, <1>14 DEF RunInv

(* The step Crash preserves the invariant. *)
LEMMA CrashStep ==
  ASSUME RunInv, Crash
  PROVE  RunInv'
<1>1. /\ UNCHANGED <<row, hist, open, act, started, calls, errors>>
      /\ lock' = NoThread /\ th' = [t \in Threads |-> Idle]
      /\ tokens' = [s \in Seqs |-> 0] /\ timers' = [s \in Seqs |-> 0]
      /\ tasks' = [b \in Batches |-> 0] /\ canceling' = FALSE /\ booting' = TRUE
  BY DEF Crash, shard
<1>2. TypeOK'
  <2>1. crashes' \in 0 .. MaxCrashes
    BY BoundAssumption DEF Crash, RunInv, TypeOK
  <2>2. /\ th' \in [Threads -> ThreadStates] /\ lock' \in Threads \cup {NoThread}
        /\ tokens' \in [Seqs -> Nat] /\ timers' \in [Seqs -> Nat] /\ tasks' \in [Batches -> Nat]
    BY <1>1, IdleType
  <2> QED BY <1>1, <2>1, <2>2, ZenonT(30) DEF RunInv, TypeOK
<1>3. ThreadInv'
  BY Zenon, <1>1, IdleOK DEF ThreadInv
<1>4. EventsHaveRecords' /\ OutcomeMatchesRecord' /\ ExactlyOnce'
  BY <1>1 DEF RunInv, EventsHaveRecords, OutcomeMatchesRecord, ExactlyOnce, AtMostOne
<1> QED BY <1>2, <1>3, <1>4 DEF RunInv

-----------------------------------------------------------------------------
(* Every step of the engine, its threads and its crashes preserves the invariant. *)
LEMMA NextRunInv == RunInv /\ [Next]_vars => RunInv'
<1> SUFFICES ASSUME RunInv, [Next]_vars PROVE RunInv'
  OBVIOUS
<1>1. CASE UNCHANGED vars
  <2>1. TypeOK'
    BY <1>1, Zenon DEF RunInv, TypeOK, vars
  <2>2. ThreadInv' /\ EventsHaveRecords' /\ OutcomeMatchesRecord' /\ ExactlyOnce'
    BY Zenon, <1>1 DEF RunInv, ThreadInv, EventsHaveRecords, OutcomeMatchesRecord, ExactlyOnce,
                AtMostOne, vars
  <2> QED BY <2>1, <2>2 DEF RunInv
<1>2. CASE Crash
  BY <1>2, CrashStep
<1>3. ASSUME NEW t \in Threads, Serve(t)
      PROVE  RunInv'
  BY <1>3, RespondStep, RespondActivityStep, TimerFiresStep, RecoverStep DEF Serve
<1>4. ASSUME NEW t \in Threads, Client(t)
      PROVE  RunInv'
  BY Zenon, <1>4, StartStep, signalWorkflowStep, TerminateWorkflowStep, CancelWorkflowStep,
     UpdateWorkflowMetadataStep DEF Client
<1>5. ASSUME NEW t \in Threads, Advance(t)
      PROVE  RunInv'
  BY Zenon, <1>5, LockRunStep, StartRowStep, AppendReadStep, AppendEventStep, AppendRowStep,
     EnqueueStep, TerminalReadStep, TerminalPutStep, TerminalOpenStep, CommandStep,
     DispatchStep, MintStep, SettleStep, MetadataPutStep, CancelReadStep, CancelPutStep,
     RecoverRowStep, RecoverNextStep
     DEF Advance, Append3, Terminal3
<1>6. ASSUME NEW t \in Threads, SweepCanceling(t) \/ StoreFails(t)
      PROVE  RunInv'
  BY <1>6, SweepCancelingStep, StoreFailsStep
<1> QED BY <1>1, <1>2, <1>3, <1>4, <1>5, <1>6 DEF Next

(* RunInv is an inductive invariant of the run. *)
THEOREM RunInvariant == Spec => []RunInv
  BY InitRunInv, NextRunInv, PTL DEF Spec

(* Every variable keeps its type, whatever stops, fails or interleaves. *)
THEOREM TypeCorrect == Spec => []TypeOK
<1>1. RunInv => TypeOK
  BY DEF RunInv
<1> QED BY <1>1, RunInvariant, PTL

(* No replay reads an outcome that the activity's record does not hold: the
   order in completeWorkflowActivity (record first, event second, both under the
   run's lock) is enough, although Terminate, Cancel and UpdateWorkflowMetadata
   write the row without the lock and events may be overwritten. *)
THEOREM OutcomeMatches == Spec => []OutcomeMatchesRecord
<1>1. RunInv => OutcomeMatchesRecord
  BY DEF RunInv
<1> QED BY <1>1, RunInvariant, PTL

(* An activity is scheduled once and settled once in the history. *)
THEOREM SettledOnce == Spec => []ExactlyOnce
<1>1. RunInv => ExactlyOnce
  BY DEF RunInv
<1> QED BY <1>1, RunInvariant, PTL

-----------------------------------------------------------------------------
(* No step changes a terminal activity record or gives it a token back. *)
LEMMA RecordKept ==
  ASSUME RunInv, [Next]_vars, NEW s \in Seqs, ActTerminal(s)
  PROVE  act'[s] = act[s] /\ tokens'[s] <= tokens[s]
<1>1. act[s].st \notin {"NONE", "SCHEDULED", "STARTED"} /\ tokens[s] \in Nat
  BY DEF ActTerminal, RunInv, TypeOK
<1>2. CASE act' = act /\ tokens' = tokens
  BY <1>1, <1>2
<1>3. CASE Crash
  <2>1. act' = act /\ tokens' = [x \in Seqs |-> 0]
    BY <1>3 DEF Crash, shard
  <2> QED BY <1>1, <2>1
<1>4. ASSUME NEW t \in Threads, Command(t)
      PROVE  act'[s] = act[s] /\ tokens' = tokens
  BY Zenon, <1>1, <1>4 DEF Command, Recorded, queues, RunInv, TypeOK
<1>5. ASSUME NEW t \in Threads, Dispatch(t)
      PROVE  act'[s] = act[s] /\ tokens' = tokens
  <2>1. th[t].seq \in Seqs /\ (th[t].op # "timer" => act[th[t].seq].st \in {"SCHEDULED", "STARTED"})
    BY <1>5, ThreadFacts DEF Dispatch, At, ShapeOK, RecordOK
  <2>2. CASE th[t].seq = s
    BY <1>1, <1>5, <2>1, <2>2 DEF Dispatch, queues
  <2>3. CASE th[t].seq # s
    BY ZenonT(30), <1>5, <2>1, <2>3 DEF Dispatch, queues, RunInv, TypeOK
  <2> QED BY ZenonT(30), <2>2, <2>3
<1>6. ASSUME NEW t \in Threads, Settle(t)
      PROVE  act'[s] = act[s] /\ tokens' = tokens
  BY <1>1, <1>6 DEF Settle, ActPending, RunInv, TypeOK
<1>7. ASSUME NEW t \in Threads, Mint(t)
      PROVE  act' = act /\ tokens'[s] = tokens[s]
  <2>1. th[t].seq # s
    BY <1>1, <1>7, ThreadFacts DEF Mint, At, RecordOK
  <2> QED BY ZenonT(30), <1>7, <2>1 DEF Mint, shard, RunInv, TypeOK
<1>8. ASSUME NEW t \in Threads, RespondActivity(t)
      PROVE  act' = act /\ tokens'[s] <= tokens[s]
  BY <1>1, <1>8 DEF RespondActivity, TakeToken, shard, RunInv, TypeOK
<1>9. ASSUME NEW t \in Threads, Respond(t) \/ TimerFires(t) \/ Recover(t) \/ Client(t)
                                \/ SweepCanceling(t) \/ StoreFails(t)
      PROVE  act' = act /\ tokens' = tokens
  BY Zenon, <1>9
     DEF Respond, TimerFires, Recover, Client, Start, signalWorkflow, TerminateWorkflow,
              CancelWorkflow, UpdateWorkflowMetadata, Call, SweepCanceling, StoreFails,
              shard, queues
<1>10. ASSUME NEW t \in Threads, LockRun(t) \/ StartRow(t) \/ Append3(t) \/ Enqueue(t)
                                 \/ Terminal3(t)
       PROVE  act' = act /\ tokens' = tokens
  BY <1>10 DEF LockRun, StartRow, Append3, AppendRead, AppendEvent, AppendRow, Enqueue,
               Terminal3, TerminalRead, TerminalPut, TerminalOpen, shard, queues
<1>11. ASSUME NEW t \in Threads, MetadataPut(t) \/ CancelRead(t) \/ CancelPut(t)
                                 \/ RecoverRow(t) \/ RecoverNext(t)
       PROVE  act' = act /\ tokens' = tokens
  BY Zenon, <1>11 DEF MetadataPut, CancelRead, CancelPut, RecoverRow, RecoverNext, shard, queues
<1>12. ASSUME NEW t \in Threads, Advance(t)
       PROVE  act'[s] = act[s] /\ tokens'[s] <= tokens[s]
  <2>1. CASE Command(t) \/ Dispatch(t) \/ Settle(t)
    BY <1>1, <1>4, <1>5, <1>6, <2>1
  <2>2. CASE Mint(t)
    BY <1>1, <1>7, <2>2
  <2>3. CASE LockRun(t) \/ StartRow(t) \/ Append3(t) \/ Enqueue(t) \/ Terminal3(t)
    BY <1>1, <1>10, <2>3
  <2>4. CASE MetadataPut(t) \/ CancelRead(t) \/ CancelPut(t) \/ RecoverRow(t) \/ RecoverNext(t)
    BY <1>1, <1>11, <2>4
  <2> QED BY <1>12, <2>1, <2>2, <2>3, <2>4, ZenonT(30) DEF Advance
<1>13. ASSUME NEW t \in Threads, Serve(t)
       PROVE  act'[s] = act[s] /\ tokens'[s] <= tokens[s]
  <2>1. CASE RespondActivity(t)
    BY Zenon, <1>1, <1>8, <2>1
  <2>2. CASE Respond(t) \/ TimerFires(t) \/ Recover(t)
    BY <1>1, <1>9, <2>2
  <2> QED BY <1>13, <2>1, <2>2, Zenon DEF Serve
<1>14. CASE UNCHANGED vars
  BY <1>1, <1>14 DEF vars
<1>15. ASSUME NEW t \in Threads, Client(t) \/ SweepCanceling(t) \/ StoreFails(t)
       PROVE  act'[s] = act[s] /\ tokens'[s] <= tokens[s]
  BY <1>1, <1>9, <1>15
<1> QED BY Zenon, <1>3, <1>12, <1>13, <1>14, <1>15 DEF Next

(* A terminal record is final and its activity is never handed out again:
   scheduling, retry timers, late answers and recovery all stop at it. *)
THEOREM RecordIsFinal == Spec => RecordFinal
<1>1. RunInv /\ [Next]_vars =>
        [\A s \in Seqs : ActTerminal(s) => act'[s] = act[s] /\ tokens'[s] <= tokens[s]]_vars
  BY RecordKept
<1> QED BY <1>1, RunInvariant, PTL DEF Spec, RecordFinal

-----------------------------------------------------------------------------
(* The run under Quiet. *)
-----------------------------------------------------------------------------

(* 1 for a fact that holds, 0 for one that does not. *)
One(p) == IF p THEN 1 ELSE 0

(* Past the lock, or in the start, there is one goroutine at a time. *)
LEMMA OneActive ==
  ASSUME RunInv, QuietThreads, NEW t \in Threads, NEW u \in Threads, u # t, Active(th[t])
  PROVE  ~Active(th[u])
<1> SUFFICES ASSUME Active(th[u]) PROVE FALSE
  BY Zenon
<1>1. /\ th[t].op \in LockedOps \cup {"start"} /\ th[u].op \in LockedOps \cup {"start"}
  BY Zenon DEF QuietThreads, QuietOK, Active
<1>2. th[t].op # "start" /\ th[u].op # "start"
  BY DEF QuietThreads, Alone, Active
<1>3. HoldsLock(th[t]) /\ HoldsLock(th[u])
  BY <1>1, <1>2 DEF HoldsLock, Active
<1> QED BY <1>3, ThreadFacts

(* A step of a handler under way. *)
LEMMA ThreadsGoOn ==
  ASSUME RunInv, QuietThreads, NEW t \in Threads, th[t].pc # "idle", NEW r, Become(t, r),
         QuietOK(r), r.op \in {"none", th[t].op}, canceling' = canceling, booting' = booting,
         started' = started, timers' = timers \/ th[t].op = "activity"
  PROVE  QuietThreads'
<1>1. \A u \in Threads : th'[u] = IF u = t THEN r ELSE th[u]
  BY Zenon DEF Become, RunInv, TypeOK
<1>2. ~booting /\ started /\ ~canceling
  BY Zenon DEF QuietThreads
<1>3. ASSUME NEW u \in Threads
      PROVE  /\ QuietOK(th'[u])
             /\ th'[u].op \in {"start", "recover"} =>
                  /\ ~booting' /\ \A s \in Seqs : timers'[s] = 0
                  /\ \A v \in Threads : v # u => th'[v].pc = "idle"
  <2>1. CASE u = t
    <3>1. QuietOK(th'[u])
      BY Zenon, <1>1, <2>1
    <3>2. ASSUME th'[u].op \in {"start", "recover"}
          PROVE  /\ \A s \in Seqs : timers'[s] = 0
                 /\ \A v \in Threads : v # u => th'[v].pc = "idle"
      <4>1. th[t].op \in {"start", "recover"}
        BY Zenon, <1>1, <2>1, <3>2
      <4>2. Alone(t) /\ (\A s \in Seqs : timers[s] = 0) /\ timers' = timers
        BY Zenon, <4>1 DEF QuietThreads
      <4> QED BY Zenon, <1>1, <2>1, <4>2 DEF Alone
    <3> QED BY Zenon, <1>2, <3>1, <3>2
  <2>2. CASE u # t
    <3>1. QuietOK(th[u]) /\ th'[u] = th[u]
      BY Zenon, <1>1, <2>2 DEF QuietThreads
    <3>2. th[u].op \notin {"start", "recover"}
      BY <2>2 DEF QuietThreads, Alone
    <3> QED BY Zenon, <3>1, <3>2
  <2> QED BY Zenon, <2>1, <2>2
<1> QED BY <1>2, <1>3, Zenon DEF QuietThreads, Alone

(* A handler that begins once the server is up and the start has returned. *)
LEMMA ThreadsBegin ==
  ASSUME RunInv, QuietThreads, NEW t \in Threads, NEW r, Become(t, r),
         QuietOK(r), r.op \notin {"start", "recover"}, ~booting, started,
         \A u \in Threads : th[u].op \notin {"start", "recover"},
         canceling' = canceling, booting' = booting, started' = started
  PROVE  QuietThreads'
<1>1. \A u \in Threads : th'[u] = IF u = t THEN r ELSE th[u]
  BY Zenon DEF Become, RunInv, TypeOK
<1>2. \A u \in Threads : QuietOK(th'[u]) /\ th'[u].op \notin {"start", "recover"}
  BY Zenon, <1>1 DEF QuietThreads
<1>3. ~canceling
  BY Zenon DEF QuietThreads
<1> QED BY <1>2, <1>3, Zenon DEF QuietThreads

(* The row, for a step of the one goroutine past the lock. *)
LEMMA RowActive ==
  ASSUME RunInv, QuietThreads, QuietRow, NEW t \in Threads, Active(th[t]), NEW r, Become(t, r),
         OpenIndexed', row'.len <= Len(hist'), RowOK(r, row', hist', open')
  PROVE  QuietRow'
<1>1. \A u \in Threads : th'[u] = IF u = t THEN r ELSE th[u]
  BY Zenon DEF Become, RunInv, TypeOK
<1>2. ASSUME NEW u \in Threads PROVE RowOK(th'[u], row', hist', open')
  <2>1. CASE u = t
    BY Zenon, <1>1, <2>1
  <2>2. CASE u # t
    <3>1. ~Active(th[u]) /\ th'[u] = th[u]
      BY Zenon, <1>1, <2>2, OneActive
    <3> QED BY Zenon, <3>1 DEF RowOK, Active
  <2> QED BY Zenon, <2>1, <2>2
<1> QED BY Zenon, <1>2 DEF QuietRow

(* The row, for a step that leaves the shard alone. *)
LEMMA RowPassive ==
  ASSUME RunInv, QuietRow, NEW t \in Threads, NEW r, Become(t, r),
         row' = row, hist' = hist, open' = open, RowOK(r, row, hist, open)
  PROVE  QuietRow'
<1>1. \A u \in Threads : th'[u] = IF u = t THEN r ELSE th[u]
  BY DEF Become, RunInv, TypeOK
<1>2. ASSUME NEW u \in Threads PROVE RowOK(th'[u], row', hist', open')
  <2>1. CASE u = t
    BY Zenon, <1>1, <2>1
  <2>2. CASE u # t
    BY <1>1, <2>2 DEF QuietRow
  <2> QED BY Zenon, <2>1, <2>2
<1>3. OpenIndexed' /\ row'.len <= Len(hist')
  BY Zenon DEF QuietRow, OpenIndexed
<1> QED BY Zenon, <1>2, <1>3 DEF QuietRow

-----------------------------------------------------------------------------
Placed(s) ==
  /\ tokens[s] + timers[s] <= 1
  /\ tokens[s] + timers[s] = 1 => Carriers(s) = {}
  /\ \A t, u \in Carriers(s) : t = u
  /\ act[s].st = "NONE" => tokens[s] + timers[s] = 0 /\ Carriers(s) = {}

(* What the counts of tokens, timers and goroutines come to. *)
LEMMA Counts ==
  ASSUME NEW a \in Nat, NEW b \in Nat
  PROVE  /\ (a + 1) + b + 0 <= a + b + 1 /\ a + (b + 1) + 0 <= a + b + 1
         /\ \A c \in {0, 1} : a + b + 0 <= a + b + c
         /\ a + b + 0 = a + b
         /\ a + b <= 1 => a + b = 0 \/ a + b = 1
OBVIOUS

(* The carriers, activity by activity. *)
LEMMA PlacedEach ==
  QuietCarriers <=> (\A s \in Seqs : Placed(s)) /\ \A t \in Threads : RecoverOK(th[t], tokens)
  BY Zenon DEF QuietCarriers, OneCarrier, Placed

(* A step that moves an activity on, or loses it. *)
LEMMA PlacedMoves ==
  ASSUME RunInv, RunInv', NEW t \in Threads, NEW r, Become(t, r), NEW s \in Seqs, Placed(s),
         tokens'[s] + timers'[s] + One(Carries(r, s))
           <= tokens[s] + timers[s] + One(Carries(th[t], s)),
         act'[s].st = "NONE" => act[s].st = "NONE"
  PROVE  Placed(s)'
<1>1. \A u \in Threads : th'[u] = IF u = t THEN r ELSE th[u]
  BY Zenon DEF Become, RunInv, TypeOK
<1>2. tokens[s] \in Nat /\ timers[s] \in Nat /\ tokens'[s] \in Nat /\ timers'[s] \in Nat
  BY Zenon DEF RunInv, TypeOK
<1>3. Carriers(s)' \ {t} = Carriers(s) \ {t}
      /\ (t \in Carriers(s) <=> Carries(th[t], s)) /\ (t \in Carriers(s)' <=> Carries(r, s))
  BY Zenon, <1>1 DEF Carriers
<1>a. ASSUME tokens'[s] + timers'[s] + One(Carries(r, s)) <= 1, Carriers(s)' \subseteq {t}, act'[s].st # "NONE"
      PROVE  Placed(s)'
  <2>1. tokens'[s] + timers'[s] <= 1 /\ (tokens'[s] + timers'[s] = 1 => ~Carries(r, s))
    BY <1>2, <1>a DEF One
  <2>2. (tokens'[s] + timers'[s] = 1 => Carriers(s)' = {}) /\ \A u, v \in Carriers(s)' : u = v
    BY <1>3, <1>a, <2>1, ZenonT(30)
  <2> QED BY ZenonT(30), <1>a, <2>1, <2>2 DEF Placed
<1>4. CASE Carries(th[t], s)
  <2>1. tokens[s] + timers[s] = 0 /\ Carriers(s) = {t} /\ act[s].st # "NONE"
    <3>1. t \in Carriers(s)
      BY Zenon, <1>3, <1>4
    <3>2. tokens[s] + timers[s] <= 1 /\ tokens[s] + timers[s] # 1 /\ Carriers(s) = {t} /\ act[s].st # "NONE"
      BY Zenon, <3>1 DEF Placed
    <3> QED BY Zenon, <1>2, <3>2, Counts
  <2>2. tokens'[s] + timers'[s] + One(Carries(r, s)) <= 1 /\ act'[s].st # "NONE"
    <3>1. 0 + 1 = 1 /\ One(Carries(th[t], s)) = 1
      BY <1>4 DEF One
    <3> QED BY Zenon, <2>1, <3>1
  <2>3. Carriers(s)' \subseteq {t}
    BY Zenon, <1>3, <2>1
  <2> QED BY Zenon, <1>a, <2>2, <2>3
<1>5. CASE ~Carries(th[t], s)
  <2>1. tokens'[s] + timers'[s] + One(Carries(r, s)) <= tokens[s] + timers[s]
    <3>1. One(Carries(th[t], s)) = 0
      BY Zenon, <1>5 DEF One
    <3> QED BY Zenon, <1>2, <3>1, Counts
  <2>2. CASE tokens[s] + timers[s] = 1
    <3>1. tokens[s] + timers[s] # 0
      BY <2>2
    <3>2. Carriers(s) = {} /\ act[s].st # "NONE"
      BY Zenon, <2>2, <3>1 DEF Placed
    <3>3. Carriers(s)' \subseteq {t} /\ act'[s].st # "NONE"
      BY Zenon, <1>3, <3>2
    <3> QED BY Zenon, <1>a, <2>1, <2>2, <3>3
  <2>3. CASE tokens[s] + timers[s] = 0
    <3>1. tokens'[s] + timers'[s] = 0 /\ ~Carries(r, s)
      BY <1>2, <2>1, <2>3 DEF One
    <3>2. Carriers(s)' = Carriers(s)
      <4>1. \A u : u \in Carriers(s)' <=> u \in Carriers(s)
        BY <1>3, <1>5, <3>1, Zenon
      <4> QED BY Zenon, <4>1
    <3> QED BY Zenon, <2>3, <3>1, <3>2 DEF Placed
  <2> QED BY Zenon, <1>2, <2>2, <2>3, Counts DEF Placed
<1> QED BY Zenon, <1>4, <1>5

(* A goroutine that takes up an activity nobody has. *)
LEMMA PlacedNew ==
  ASSUME RunInv, NEW t \in Threads, NEW r, Become(t, r), NEW s \in Seqs,
         tokens[s] + timers[s] = 0, Carriers(s) = {}, tokens' = tokens, timers' = timers,
         act'[s].st # "NONE"
  PROVE  Placed(s)'
<1>1. \A u \in Threads : th'[u] = IF u = t THEN r ELSE th[u]
  BY Zenon DEF Become, RunInv, TypeOK
<1>2. Carriers(s)' \subseteq {t}
  BY Zenon, <1>1 DEF Carriers
<1> QED BY <1>2 DEF Placed

(* What the recovery knows, for a step of any goroutine. *)
LEMMA RecoverKept ==
  ASSUME RunInv, QuietThreads, QuietCarriers, NEW t \in Threads, NEW r, Become(t, r),
         RecoverOK(r, tokens'),
         th[t].pc # "idle" \/ \A u \in Threads : th[u].op # "recover"
  PROVE  \A u \in Threads : RecoverOK(th[u], tokens)'
<1>1. \A u \in Threads : th'[u] = IF u = t THEN r ELSE th[u]
  BY DEF Become, RunInv, TypeOK
<1> SUFFICES ASSUME NEW u \in Threads PROVE RecoverOK(th'[u], tokens')
  BY Zenon
<1>2. CASE u = t
  BY Zenon, <1>1, <1>2
<1>3. CASE u # t
  <2>1. th[u].op # "recover"
    BY <1>3 DEF QuietThreads, Alone
  <2> QED BY ZenonT(30), <1>1, <1>3, <2>1 DEF RecoverOK
<1> QED BY Zenon, <1>2, <1>3

(* A step that moves every activity on, loses it or leaves it where it is. *)
LEMMA CarriersMove ==
  ASSUME RunInv, RunInv', QuietThreads, QuietCarriers, NEW t \in Threads, NEW r, Become(t, r),
         RecoverOK(r, tokens'),
         th[t].pc # "idle" \/ \A u \in Threads : th[u].op # "recover",
         \A s \in Seqs :
           /\ tokens'[s] + timers'[s] + One(Carries(r, s))
                <= tokens[s] + timers[s] + One(Carries(th[t], s))
           /\ act'[s].st = "NONE" => act[s].st = "NONE"
  PROVE  QuietCarriers'
<1>1. ASSUME NEW s \in Seqs PROVE Placed(s)'
  BY Zenon, PlacedEach, PlacedMoves
<1>2. \A u \in Threads : RecoverOK(th[u], tokens)'
  BY Zenon, RecoverKept
<1> QED BY Zenon, <1>1, <1>2 DEF QuietCarriers, OneCarrier, Placed

(* The same, for a step that touches neither tokens, timers nor records. *)
LEMMA CarriersStay ==
  ASSUME RunInv, RunInv', QuietThreads, QuietCarriers, NEW t \in Threads, NEW r, Become(t, r),
         RecoverOK(r, tokens),
         th[t].pc # "idle" \/ \A u \in Threads : th[u].op # "recover",
         UNCHANGED <<tokens, timers, act>>,
         \A s \in Seqs : Carries(r, s) => Carries(th[t], s)
  PROVE  QuietCarriers'
<1>1. ASSUME NEW s \in Seqs
      PROVE  tokens'[s] + timers'[s] + One(Carries(r, s))
               <= tokens[s] + timers[s] + One(Carries(th[t], s))
  <2>1. tokens[s] \in Nat /\ timers[s] \in Nat
    BY Zenon DEF RunInv, TypeOK
  <2> QED BY <2>1 DEF One
<1> QED BY Zenon, <1>1, CarriersMove

-----------------------------------------------------------------------------
(* A goroutine that has returned. *)
LEMMA IdleQuiet ==
  /\ QuietOK(Idle) /\ Idle.op = "none" /\ Idle.pc = "idle"
  /\ \A w, h, o : RowOK(Idle, w, h, o)
  /\ \A k : RecoverOK(Idle, k)
  /\ \A s \in Seqs : ~Carries(Idle, s)
<1>1. Idle.op = "none" /\ Idle.pc = "idle" /\ Idle.ev.type = "WF_STARTED" /\ Idle.seq = NoSeq
  BY DEF Idle, WorkflowEvent
<1>2. QuietOK(Idle)
  BY <1>1 DEF QuietOK
<1>3. \A w, h, o : RowOK(Idle, w, h, o)
  BY <1>1 DEF RowOK
<1>4. (\A k : RecoverOK(Idle, k)) /\ \A s \in Seqs : ~Carries(Idle, s)
  BY <1>1 DEF RecoverOK, Carries
<1> QED BY ZenonT(30), <1>1, <1>2, <1>3, <1>4

(* What every step uses of the invariant about the thread that takes it. *)
LEMMA QuietFacts ==
  ASSUME QuietInv, NEW t \in Threads
  PROVE  /\ QuietThreads /\ QuietRow /\ QuietCarriers
         /\ QuietOK(th[t]) /\ RowOK(th[t], row, hist, open) /\ RecoverOK(th[t], tokens)
  BY Zenon DEF QuietInv, QuietThreads, QuietRow, QuietCarriers

(* What a step keeps that leaves the activities and the tracker alone. *)
Calm == UNCHANGED <<act, tokens, timers, canceling, booting, started>>

(* A step of a handler past the lock that leaves the activities alone. *)
LEMMA QuietShard ==
  ASSUME RunInv, RunInv', QuietInv, NEW t \in Threads, Active(th[t]), NEW r, Become(t, r), Calm,
         QuietOK(r), r.op \in {"none", th[t].op}, RecoverOK(r, tokens),
         OpenIndexed', row'.len <= Len(hist'), RowOK(r, row', hist', open'),
         \A s \in Seqs : Carries(r, s) => Carries(th[t], s)
  PROVE  QuietInv'
<1>1. QuietThreads /\ QuietRow /\ QuietCarriers /\ th[t].pc # "idle"
  BY Zenon DEF QuietInv, Active
<1>2. QuietThreads'
  BY Zenon, <1>1, ThreadsGoOn DEF Calm
<1>3. QuietRow'
  BY Zenon, <1>1, RowActive
<1>4. QuietCarriers'
  BY Zenon, <1>1, CarriersStay DEF Calm
<1> QED BY Zenon, <1>2, <1>3, <1>4 DEF QuietInv

(* A step of a handler past the lock that leaves the shard alone. *)
LEMMA QuietGoto ==
  ASSUME RunInv, RunInv', QuietInv, NEW t \in Threads, Active(th[t]), NEW r, Become(t, r), Calm,
         UNCHANGED <<row, hist, open>>,
         QuietOK(r), r.op \in {"none", th[t].op}, RecoverOK(r, tokens),
         RowOK(r, row, hist, open),
         \A s \in Seqs : Carries(r, s) => Carries(th[t], s)
  PROVE  QuietInv'
<1>1. OpenIndexed' /\ row'.len <= Len(hist')
  BY ZenonT(30) DEF QuietInv, QuietRow, OpenIndexed
<1> QED BY Zenon, <1>1, QuietShard

(* The end of a handler. *)
LEMMA QuietReturn ==
  ASSUME RunInv, RunInv', QuietInv, NEW t \in Threads, Active(th[t]), Return(t), Calm,
         UNCHANGED <<row, hist, open>>
  PROVE  QuietInv'
<1>1. Become(t, Idle)
  BY Zenon DEF Return
<1> QED BY Zenon, <1>1, IdleQuiet, QuietGoto

-----------------------------------------------------------------------------
(* The history with an event put after what the row counts. *)
LEMMA PutAfter ==
  ASSUME NEW h \in Seq(Events), NEW n \in Nat \ {0}, NEW e \in Events, n <= Len(h) + 1
  PROVE  LET g == PutEvent(h, n, e) IN
         g \in Seq(Events) /\ Len(g) >= n /\ \A i \in 1 .. (n - 1) : g[i] = h[i]
<1>1. CASE n <= Len(h)
  <2> DEFINE g == [h EXCEPT ![n] = e]
  <2>1. g \in Seq(Events) /\ Len(g) = Len(h) /\ \A i \in 1 .. (n - 1) : g[i] = h[i]
    BY <1>1
  <2> QED BY <1>1, <2>1 DEF PutEvent
<1>2. CASE ~(n <= Len(h))
  <2> DEFINE g == Append(h, e)
  <2>1. g \in Seq(Events) /\ Len(g) = Len(h) + 1 /\ \A i \in 1 .. Len(h) : g[i] = h[i]
    OBVIOUS
  <2> QED BY <1>2, <2>1 DEF PutEvent
<1> QED BY <1>1, <1>2

(* The start puts the row of a run that is indexed. *)
LEMMA QuietStartRow ==
  ASSUME RunInv, RunInv', QuietInv, NEW t \in Threads, StartRow(t)
  PROVE  QuietInv'
<1> DEFINE r == [th[t] EXCEPT !.pc = "apRead", !.ev = WorkflowEvent("WF_STARTED")]
<1>1. /\ th[t].pc = "startRow" /\ Become(t, r) /\ Calm /\ hist' = hist /\ open' = open
      /\ row' = [st |-> "RUNNING", len |-> 0]
  BY Zenon DEF StartRow, At, StartAppend, Calm, queues, bounds
<1>2. th[t] \in ThreadStates /\ QuietOK(th[t]) /\ open /\ hist \in Seq(Events)
  BY Zenon, <1>1, ThreadFacts, QuietFacts DEF RowOK, RunInv, TypeOK
<1>3. r.op = "start" /\ r.pc = "apRead" /\ r.ev.type = "WF_STARTED" /\ th[t].op = "start"
  BY Zenon, <1>1, <1>2 DEF ThreadStates, QuietOK, WorkflowEvent
<1> HIDE DEF r
<1>4. QuietOK(r) /\ RecoverOK(r, tokens) /\ RowOK(r, row', hist', open')
  BY <1>3 DEF QuietOK, RecoverOK, RowOK
<1>5. \A s \in Seqs : ~Carries(r, s)
  BY ZenonT(30), <1>3 DEF Carries
<1>6. OpenIndexed' /\ row'.len <= Len(hist')
  BY <1>1, <1>2 DEF OpenIndexed
<1>7. Active(th[t])
  BY <1>1 DEF Active
<1> QED BY Zenon, <1>1, <1>3, <1>4, <1>5, <1>6, <1>7, QuietShard

(* appendHistory reads the row under the lock. *)
LEMMA QuietAppendRead ==
  ASSUME RunInv, RunInv', QuietInv, NEW t \in Threads, AppendRead(t)
  PROVE  QuietInv'
<1> DEFINE r == [th[t] EXCEPT !.pc = "apEvent", !.reg = row]
<1>1. th[t].pc = "apRead" /\ Become(t, r) /\ Calm /\ UNCHANGED <<row, hist, open>>
  BY DEF AppendRead, At, Calm, shard, queues, bounds
<1>2. th[t] \in ThreadStates /\ QuietOK(th[t])
  BY ThreadFacts, QuietFacts
<1>3. r.op = th[t].op /\ r.pc = "apEvent" /\ r.ev = th[t].ev /\ r.seq = th[t].seq /\ r.reg = row
  BY Zenon, <1>2 DEF ThreadStates
<1> HIDE DEF r
<1>4. QuietOK(r) /\ RecoverOK(r, tokens) /\ RowOK(r, row, hist, open)
  BY Zenon, <1>1, <1>2, <1>3 DEF QuietOK, RecoverOK, RowOK
<1>5. \A s \in Seqs : Carries(r, s) => Carries(th[t], s)
  BY ZenonT(30), <1>1, <1>3 DEF Carries
<1>6. Active(th[t])
  BY <1>1 DEF Active
<1> QED BY Zenon, <1>1, <1>3, <1>4, <1>5, <1>6, QuietGoto

(* The event goes after what the row counts. *)
LEMMA QuietAppendEvent ==
  ASSUME RunInv, RunInv', QuietInv, NEW t \in Threads, AppendEvent(t)
  PROVE  QuietInv'
<1> DEFINE r == [th[t] EXCEPT !.pc = "apRow"]
           n == th[t].reg.len + 1
<1>1. /\ th[t].pc = "apEvent" /\ Become(t, r) /\ Calm /\ row' = row /\ open' = open
      /\ hist' = PutEvent(hist, n, th[t].ev)
  BY Zenon DEF AppendEvent, At, Goto, Calm, queues, bounds
<1>2. th[t] \in ThreadStates /\ QuietOK(th[t]) /\ th[t].reg = row /\ hist \in Seq(Events)
      /\ row.len <= Len(hist) /\ row.len \in Nat /\ th[t].ev \in Events
  BY Zenon, <1>1, ThreadFacts, QuietFacts DEF RowOK, QuietRow, RunInv, TypeOK, Rows, ThreadStates
<1>3. r.op = th[t].op /\ r.pc = "apRow" /\ r.ev = th[t].ev /\ r.seq = th[t].seq /\ r.reg = row
  BY Zenon, <1>2 DEF ThreadStates
<1>4. n = row.len + 1
  BY Zenon, <1>2
<1> HIDE DEF r, n
<1>5. Len(hist') >= n /\ Len(hist') \in Nat
  <2>1. n \in Nat \ {0} /\ n <= Len(hist) + 1
    BY <1>2, <1>4
  <2>2. hist' \in Seq(Events) /\ Len(hist') >= n
    BY Zenon, <1>1, <1>2, <2>1, PutAfter
  <2> QED BY <2>2
<1>6. row'.len < Len(hist') /\ row'.len <= Len(hist') /\ OpenIndexed'
  <2>1. \A x, y \in Nat : y >= x + 1 => x < y /\ x <= y
    OBVIOUS
  <2>2. OpenIndexed'
    BY Zenon, <1>1, QuietFacts DEF QuietRow, OpenIndexed
  <2> QED BY Zenon, <1>1, <1>2, <1>4, <1>5, <2>1, <2>2
<1>7. QuietOK(r) /\ RecoverOK(r, tokens) /\ RowOK(r, row', hist', open')
  BY Zenon, <1>1, <1>2, <1>3, <1>6 DEF QuietOK, RecoverOK, RowOK
<1>8. \A s \in Seqs : Carries(r, s) => Carries(th[t], s)
  BY Zenon, <1>1, <1>3 DEF Carries
<1>9. Active(th[t])
  BY <1>1 DEF Active
<1> QED BY Zenon, <1>1, <1>3, <1>6, <1>7, <1>8, <1>9, QuietShard

(* The row counts the event just put, and is otherwise the row it was. *)
LEMMA QuietAppendRow ==
  ASSUME RunInv, RunInv', QuietInv, NEW t \in Threads, AppendRow(t)
  PROVE  QuietInv'
<1> DEFINE n == AfterAppend(th[t].ev.type)
           r == [th[t] EXCEPT !.pc = n, !.reg = Idle.reg, !.ev = Idle.ev]
<1>1. /\ th[t].pc = "apRow" /\ Calm /\ hist' = hist /\ open' = open
      /\ row' = [th[t].reg EXCEPT !.len = @ + 1]
  BY Zenon DEF AppendRow, At, Calm, queues, bounds
<1>2. th[t] \in ThreadStates /\ QuietOK(th[t]) /\ ShapeOK(th[t]) /\ th[t].reg = row
      /\ hist \in Seq(Events) /\ row.len < Len(hist) /\ row \in Rows
  BY Zenon, <1>1, ThreadFacts, QuietFacts DEF RowOK, QuietRow, RunInv, TypeOK
<1>3. row'.st = row.st /\ row'.len = row.len + 1 /\ row.len \in Nat
  BY <1>1, <1>2 DEF Rows
<1>4. OpenIndexed' /\ row'.len <= Len(hist')
  BY <1>1, <1>2, <1>3, QuietFacts DEF QuietRow, OpenIndexed
<1>5. Active(th[t])
  BY <1>1 DEF Active
<1>6. CASE Return(t)
  BY Zenon, <1>1, <1>4, <1>5, <1>6, IdleQuiet, QuietShard DEF Return
<1>7. CASE n # "idle" /\ Become(t, r)
  <2>1. r.op = th[t].op /\ r.pc = n /\ r.seq = th[t].seq /\ r.ev.type = "WF_STARTED"
    BY ZenonT(30), <1>2 DEF ThreadStates, Idle, WorkflowEvent
  <2>2. /\ n \in {"dispatch", "mint", "enqueue"} /\ th[t].op \in LockedOps \cup {"start", "none"}
        /\ n \in {"dispatch", "mint"} => th[t].op \in {"respond", "timer"}
    BY <1>1, <1>2, <1>7 DEF QuietOK, ShapeOK, AfterAppend, Appending
  <2>3. th[t].op # "none"
    BY Zenon, <1>1, <1>2 DEF QuietOK
  <2> HIDE DEF r, n
  <2>4. QuietOK(r)
    BY Zenon, <2>1, <2>2, <2>3 DEF QuietOK
  <2>5. RecoverOK(r, tokens) /\ RowOK(r, row', hist', open')
    BY <2>1, <2>2 DEF RecoverOK, RowOK
  <2>6. \A s \in Seqs : Carries(r, s) => Carries(th[t], s)
    BY <1>1, <2>1 DEF Carries
  <2> QED BY Zenon, <1>1, <1>4, <1>5, <1>7, <2>1, <2>4, <2>5, <2>6, QuietShard
<1> QED BY <1>6, <1>7, Zenon DEF AppendRow, Resume

(* terminalTransition reads the row under the lock. *)
LEMMA QuietTerminalRead ==
  ASSUME RunInv, RunInv', QuietInv, NEW t \in Threads, TerminalRead(t)
  PROVE  QuietInv'
<1> DEFINE r == [th[t] EXCEPT !.pc = "ttPut", !.reg = row]
<1>1. th[t].pc = "ttRead" /\ Calm /\ UNCHANGED <<row, hist, open>>
  BY Zenon DEF TerminalRead, At, Calm, shard, queues, bounds
<1>2. th[t] \in ThreadStates /\ QuietOK(th[t])
  BY ThreadFacts, QuietFacts
<1>3. Active(th[t])
  BY Zenon, <1>1 DEF Active
<1>4. CASE Return(t)
  BY <1>1, <1>3, <1>4, QuietReturn
<1>5. CASE row.st \in OpenStatus /\ Become(t, r)
  <2>1. r.op = th[t].op /\ r.pc = "ttPut" /\ r.ev = th[t].ev /\ r.seq = th[t].seq /\ r.reg = row
    BY Zenon, <1>2 DEF ThreadStates
  <2> HIDE DEF r
  <2>2. QuietOK(r) /\ RecoverOK(r, tokens) /\ RowOK(r, row, hist, open)
    BY ZenonT(30), <1>1, <1>2, <1>5, <2>1 DEF QuietOK, RecoverOK, RowOK
  <2>3. \A s \in Seqs : Carries(r, s) => Carries(th[t], s)
    BY <1>1, <2>1 DEF Carries
  <2> QED BY Zenon, <1>1, <1>3, <1>5, <2>1, <2>2, <2>3, QuietGoto
<1> QED BY <1>4, <1>5, Zenon DEF TerminalRead

(* closeRun puts the terminal row before it takes the run off the index ... *)
LEMMA QuietTerminalPut ==
  ASSUME RunInv, RunInv', QuietInv, NEW t \in Threads, TerminalPut(t)
  PROVE  QuietInv'
<1> DEFINE r == [th[t] EXCEPT !.pc = "ttOpen", !.reg = Idle.reg, !.ev = Idle.ev]
<1>1. /\ th[t].pc = "ttPut" /\ Become(t, r) /\ Calm /\ hist' = hist /\ open' = open
      /\ row' = [th[t].reg EXCEPT !.st = th[t].goal]
  BY Zenon DEF TerminalPut, At, Resume, Calm, queues, bounds
<1>2. th[t] \in ThreadStates /\ QuietOK(th[t]) /\ th[t].reg = row /\ row \in Rows
      /\ th[t].goal \in TerminalStatus /\ row.len <= Len(hist)
  BY ZenonT(30), <1>1, ThreadFacts, QuietFacts DEF RowOK, QuietRow, RunInv, TypeOK, ShapeOK
<1>3. row'.st = th[t].goal /\ row'.len = row.len
  BY <1>1, <1>2 DEF Rows
<1>4. OpenIndexed' /\ row'.len <= Len(hist') /\ isTerminal(row')
  BY <1>1, <1>2, <1>3 DEF OpenIndexed, OpenStatus, TerminalStatus, isTerminal
<1>5. r.op = th[t].op /\ r.pc = "ttOpen" /\ r.seq = th[t].seq /\ r.ev.type = "WF_STARTED"
  BY <1>2 DEF ThreadStates, Idle, WorkflowEvent
<1> HIDE DEF r
<1>6. QuietOK(r) /\ RecoverOK(r, tokens) /\ RowOK(r, row', hist', open')
  BY <1>1, <1>2, <1>4, <1>5 DEF QuietOK, RecoverOK, RowOK
<1>7. (\A s \in Seqs : Carries(r, s) => Carries(th[t], s)) /\ Active(th[t])
  BY <1>1, <1>5 DEF Carries, Active
<1> QED BY <1>1, <1>4, <1>5, <1>6, <1>7, QuietShard

(* ... and appends the closing event last. *)
LEMMA QuietTerminalOpen ==
  ASSUME RunInv, RunInv', QuietInv, NEW t \in Threads, TerminalOpen(t)
  PROVE  QuietInv'
<1> DEFINE r == [th[t] EXCEPT !.pc = "apRead", !.ev = WorkflowEvent(th[t].goal)]
<1>1. /\ th[t].pc = "ttOpen" /\ Become(t, r) /\ Calm /\ hist' = hist /\ row' = row /\ open' = FALSE
  BY DEF TerminalOpen, At, StartAppend, Calm, queues, bounds
<1>2. th[t] \in ThreadStates /\ QuietOK(th[t]) /\ isTerminal(row) /\ row.len <= Len(hist)
      /\ th[t].goal \in TerminalStatus
  BY <1>1, ThreadFacts, QuietFacts DEF RowOK, QuietRow, ShapeOK
<1>3. th[t].op = "respond" /\ th[t].seq = NoSeq
  BY <1>1, <1>2 DEF QuietOK
<1>4. OpenIndexed' /\ row'.len <= Len(hist')
  BY <1>1, <1>2 DEF OpenIndexed, isTerminal, OpenStatus, TerminalStatus
<1>5. r.op = "respond" /\ r.pc = "apRead" /\ r.seq = NoSeq /\ r.ev.type = th[t].goal
  BY Zenon, <1>2, <1>3 DEF ThreadStates, WorkflowEvent
<1> HIDE DEF r
<1>6. QuietOK(r) /\ RecoverOK(r, tokens) /\ RowOK(r, row', hist', open')
  BY Zenon, <1>2, <1>5 DEF QuietOK, RecoverOK, RowOK, LockedOps, TerminalStatus
<1>7. (\A s \in Seqs : ~Carries(r, s)) /\ Active(th[t])
  BY Zenon, <1>1, <1>5, SeqAssumption DEF Carries, Active
<1> QED BY Zenon, <1>1, <1>3, <1>4, <1>5, <1>6, <1>7, QuietShard

(* scheduleWorkflowTask is a handler's last step. *)
LEMMA QuietEnqueue ==
  ASSUME RunInv, RunInv', QuietInv, NEW t \in Threads, Enqueue(t)
  PROVE  QuietInv'
<1>1. Return(t) /\ Calm /\ UNCHANGED <<row, hist, open>> /\ Active(th[t])
  BY DEF Enqueue, At, Calm, shard, bounds, Active
<1> QED BY Zenon, <1>1, QuietReturn

-----------------------------------------------------------------------------
(* A step of a handler past the lock that works on an activity. *)
LEMMA QuietWork ==
  ASSUME RunInv, RunInv', QuietInv, NEW t \in Threads, Active(th[t]), NEW r, Become(t, r),
         UNCHANGED <<row, hist, open, canceling, booting, started>>,
         timers' = timers \/ th[t].op = "activity",
         QuietOK(r), r.op \in {"none", th[t].op}, RecoverOK(r, tokens'),
         RowOK(r, row, hist, open),
         \A s \in Seqs :
           /\ tokens'[s] + timers'[s] + One(Carries(r, s))
                <= tokens[s] + timers[s] + One(Carries(th[t], s))
           /\ act'[s].st = "NONE" => act[s].st = "NONE"
  PROVE  QuietInv'
<1>1. QuietThreads /\ QuietRow /\ QuietCarriers /\ th[t].pc # "idle"
  BY Zenon DEF QuietInv, Active
<1>2. QuietThreads'
  BY Zenon, <1>1, ThreadsGoOn
<1>3. QuietRow'
  BY Zenon, <1>1, RowPassive
<1>4. QuietCarriers'
  BY Zenon, <1>1, CarriersMove
<1> QED BY Zenon, <1>2, <1>3, <1>4 DEF QuietInv

(* dispatchActivityAttempt works on the activity it carries. *)
LEMMA QuietDispatch ==
  ASSUME RunInv, RunInv', QuietInv, NEW t \in Threads, Dispatch(t)
  PROVE  QuietInv'
<1> DEFINE q == th[t].seq
<1>1. /\ th[t].pc = "dispatch" /\ UNCHANGED <<row, hist, open, tokens, timers, canceling, booting, started>>
      /\ Active(th[t])
  BY DEF Dispatch, At, queues, bounds, Active
<1>2. /\ th[t] \in ThreadStates /\ QuietOK(th[t]) /\ ShapeOK(th[t]) /\ RecoverOK(th[t], tokens)
      /\ act \in [Seqs -> Acts] /\ tokens \in [Seqs -> Nat] /\ timers \in [Seqs -> Nat] /\ q \in Seqs
  BY Zenon, <1>1, ThreadFacts, QuietFacts DEF RunInv, TypeOK, ShapeOK
<1>3. CASE Return(t) /\ act' = act
  BY Zenon, <1>1, <1>3, QuietReturn DEF Calm
<1>4. ASSUME act' = [act EXCEPT ![q].st = "STARTED"], NEW r, Become(t, r),
             r.op = th[t].op, r.seq = q, r.todo = th[t].todo,
             \/ r.op = "recover" /\ r.pc = "mint" /\ r.ev = th[t].ev
             \/ r.op # "recover" /\ r.pc = "apRead" /\ r.ev.type = "ACT_STARTED"
      PROVE  QuietInv'
  <2>1. \A s \in Seqs : act'[s].st = "NONE" => act[s].st = "NONE"
    BY Zenon, <1>2, <1>4 DEF Acts
  <2>2. QuietOK(r)
    BY Zenon, <1>1, <1>2, <1>4 DEF QuietOK
  <2>3. RecoverOK(r, tokens') /\ RowOK(r, row, hist, open)
    BY <1>1, <1>2, <1>4 DEF RecoverOK, RowOK
  <2>4. \A s \in Seqs : Carries(r, s) => Carries(th[t], s)
    BY ZenonT(30), <1>1, <1>4 DEF Carries
  <2>5. \A s \in Seqs : tokens'[s] + timers'[s] + One(Carries(r, s))
                          <= tokens[s] + timers[s] + One(Carries(th[t], s))
    <3>1. \A x, y \in Nat : x + y + 0 <= x + y + 0 /\ x + y + 0 <= x + y + 1 /\ x + y + 1 <= x + y + 1
      OBVIOUS
    <3>2. \A s \in Seqs : tokens[s] \in Nat /\ timers[s] \in Nat /\ tokens'[s] = tokens[s] /\ timers'[s] = timers[s]
      BY Zenon, <1>1, <1>2
    <3> QED BY Zenon, <2>4, <3>1, <3>2 DEF One
  <2> QED BY Zenon, <1>1, <1>4, <2>1, <2>2, <2>3, <2>5, QuietWork
<1>5. CASE th[t].op = "recover" /\ Goto(t, "mint") /\ act' = [act EXCEPT ![q].st = "STARTED"]
  <2> DEFINE r == [th[t] EXCEPT !.pc = "mint"]
  <2>1. /\ Become(t, r) /\ r.op = th[t].op /\ r.seq = q /\ r.todo = th[t].todo /\ r.op = "recover"
        /\ r.pc = "mint" /\ r.ev = th[t].ev
    BY <1>2, <1>5 DEF Goto, ThreadStates
  <2> HIDE DEF r
  <2> QED BY <1>4, <1>5, <2>1
<1>6. CASE th[t].op # "recover" /\ StartAppend(t, ActivityEvent("ACT_STARTED", q))
           /\ act' = [act EXCEPT ![q].st = "STARTED"]
  <2> DEFINE r == [th[t] EXCEPT !.pc = "apRead", !.ev = ActivityEvent("ACT_STARTED", q)]
  <2>1. /\ Become(t, r) /\ r.op = th[t].op /\ r.seq = q /\ r.todo = th[t].todo /\ r.op # "recover"
        /\ r.pc = "apRead" /\ r.ev.type = "ACT_STARTED"
    BY <1>2, <1>6 DEF StartAppend, ThreadStates, ActivityEvent
  <2> HIDE DEF r
  <2> QED BY <1>4, <1>6, <2>1
<1> QED BY <1>3, <1>5, <1>6, Zenon DEF Dispatch

(* The dispatcher's token takes the handler's place. *)
LEMMA QuietMint ==
  ASSUME RunInv, RunInv', QuietInv, NEW t \in Threads, Mint(t)
  PROVE  QuietInv'
<1> DEFINE q == th[t].seq
<1>1. /\ th[t].pc = "mint" /\ UNCHANGED <<row, hist, open, act, timers, canceling, booting, started>>
      /\ tokens' = [tokens EXCEPT ![q] = @ + 1] /\ Active(th[t])
  BY DEF Mint, At, shard, bounds, Active
<1>2. /\ th[t] \in ThreadStates /\ QuietOK(th[t]) /\ ShapeOK(th[t]) /\ RecoverOK(th[t], tokens)
      /\ tokens \in [Seqs -> Nat] /\ timers \in [Seqs -> Nat] /\ q \in Seqs
      /\ th[t].op \in {"respond", "timer", "recover"}
  BY Zenon, <1>1, ThreadFacts, QuietFacts DEF RunInv, TypeOK, ShapeOK
<1>3. Carries(th[t], q)
  BY Zenon, <1>1, <1>2 DEF Carries
<1>4. ASSUME NEW r, Become(t, r), \A s \in Seqs : ~Carries(r, s), QuietOK(r),
             r.op \in {"none", th[t].op}, RecoverOK(r, tokens'), RowOK(r, row, hist, open)
      PROVE  QuietInv'
  <2>1. ASSUME NEW s \in Seqs
        PROVE  tokens'[s] + timers'[s] + One(Carries(r, s))
                 <= tokens[s] + timers[s] + One(Carries(th[t], s))
    <3>1. tokens'[s] = IF s = q THEN tokens[s] + 1 ELSE tokens[s]
      BY Zenon, <1>1, <1>2
    <3>2. One(Carries(r, s)) = 0 /\ One(Carries(th[t], s)) \in {0, 1}
          /\ (s = q => One(Carries(th[t], s)) = 1)
      BY Zenon, <1>3, <1>4 DEF One
    <3>3. tokens[s] \in Nat /\ timers[s] \in Nat /\ timers'[s] = timers[s]
      BY Zenon, <1>1, <1>2
    <3> QED BY Zenon, <3>1, <3>2, <3>3, Counts
  <2> QED BY ZenonT(30), <1>1, <1>4, <2>1, QuietWork
<1>5. CASE Return(t)
  BY Zenon, <1>4, <1>5, IdleQuiet DEF Return
<1>6. CASE th[t].op # "timer"
  <2> DEFINE r == [th[t] EXCEPT !.seq = NoSeq,
                                !.pc = IF th[t].op = "respond" THEN "cmd" ELSE "recNext"]
  <2>1. Become(t, r)
    BY <1>6, Zenon DEF Mint
  <2>2. /\ r.op = th[t].op /\ r.seq = NoSeq /\ r.todo = th[t].todo /\ r.ev = th[t].ev
        /\ r.pc = IF th[t].op = "respond" THEN "cmd" ELSE "recNext"
    BY Zenon, <1>2 DEF ThreadStates
  <2> HIDE DEF r
  <2>3. \A s \in Seqs : ~Carries(r, s)
    BY <2>2, SeqAssumption DEF Carries
  <2>4. QuietOK(r) /\ RowOK(r, row, hist, open)
    BY Zenon, <1>1, <1>2, <1>6, <2>2 DEF QuietOK, RowOK
  <2>5. RecoverOK(r, tokens')
    <3>1. CASE th[t].op = "recover"
      <4>1. q \notin th[t].todo /\ (\A s \in th[t].todo : tokens[s] = 0) /\ th[t].todo \subseteq Seqs
        BY Zenon, <1>1, <1>2, <3>1 DEF RecoverOK, ThreadStates
      <4>2. \A s \in th[t].todo : tokens'[s] = 0
        BY Zenon, <1>1, <1>2, <4>1
      <4> QED BY <2>2, <3>1, <4>2 DEF RecoverOK
    <3>2. CASE th[t].op # "recover"
      BY Zenon, <2>2, <3>2 DEF RecoverOK
    <3> QED BY ZenonT(30), <3>1, <3>2
  <2> QED BY Zenon, <1>4, <2>1, <2>2, <2>3, <2>4, <2>5
<1> QED BY <1>5, <1>6, Zenon DEF Mint

(* completeWorkflowActivity hands its activity to a timer, or keeps it to the end. *)
LEMMA QuietSettle ==
  ASSUME RunInv, RunInv', QuietInv, NEW t \in Threads, Settle(t)
  PROVE  QuietInv'
<1> DEFINE q == th[t].seq
<1>1. /\ th[t].pc = "settle" /\ UNCHANGED <<row, hist, open, tokens, canceling, booting, started>>
      /\ Active(th[t])
  BY DEF Settle, At, bounds, Active
<1>2. /\ th[t] \in ThreadStates /\ QuietOK(th[t]) /\ th[t].op = "activity" /\ q \in Seqs
      /\ act \in [Seqs -> Acts] /\ tokens \in [Seqs -> Nat] /\ timers \in [Seqs -> Nat]
  BY Zenon, <1>1, ThreadFacts, QuietFacts DEF RunInv, TypeOK, ShapeOK
<1>3. Carries(th[t], q)
  BY ZenonT(30), <1>2 DEF Carries
<1>4. CASE Return(t) /\ UNCHANGED <<act, timers>>
  BY Zenon, <1>1, <1>4, QuietReturn DEF Calm
<1>5. ASSUME act' = [act EXCEPT ![q] = [st |-> "SCHEDULED", attempt |-> @.attempt + 1]],
             ArmTimer(q), Return(t)
      PROVE  QuietInv'
  <2>1. \A s \in Seqs : act'[s].st = "NONE" => act[s].st = "NONE"
    BY ZenonT(30), <1>2, <1>5
  <2>2. ASSUME NEW s \in Seqs
        PROVE  tokens'[s] + timers'[s] + One(Carries(Idle, s))
                 <= tokens[s] + timers[s] + One(Carries(th[t], s))
    <3>1. timers'[s] = IF s = q THEN timers[s] + 1 ELSE timers[s]
      BY Zenon, <1>2, <1>5 DEF ArmTimer
    <3>2. One(Carries(Idle, s)) = 0 /\ One(Carries(th[t], s)) \in {0, 1}
          /\ (s = q => One(Carries(th[t], s)) = 1)
      BY Zenon, <1>3, IdleQuiet DEF One
    <3>3. tokens[s] \in Nat /\ timers[s] \in Nat /\ tokens'[s] = tokens[s]
      BY Zenon, <1>1, <1>2
    <3> QED BY Zenon, <3>1, <3>2, <3>3, Counts
  <2>3. Become(t, Idle)
    BY Zenon, <1>5 DEF Return
  <2> QED BY Zenon, <1>1, <1>2, <2>1, <2>2, <2>3, IdleQuiet, QuietWork
<1>6. ASSUME act' = [act EXCEPT ![q].st = OutcomeRecord(th[t].out)],
             StartAppend(t, ActivityEvent(OutcomeEvent(th[t].out), q)), timers' = timers
      PROVE  QuietInv'
  <2> DEFINE r == [th[t] EXCEPT !.pc = "apRead", !.ev = ActivityEvent(OutcomeEvent(th[t].out), q)]
  <2>1. /\ Become(t, r) /\ r.op = "activity" /\ r.seq = q /\ r.pc = "apRead"
        /\ r.ev.type \in {"ACT_COMPLETED", "ACT_FAILED"}
    BY <1>2, <1>6 DEF StartAppend, ThreadStates, ActivityEvent, OutcomeEvent
  <2>2. \A s \in Seqs : act'[s].st = "NONE" => act[s].st = "NONE"
    BY Zenon, <1>2, <1>6 DEF Acts, OutcomeRecord
  <2> HIDE DEF r
  <2>3. QuietOK(r) /\ RecoverOK(r, tokens') /\ RowOK(r, row, hist, open)
    BY ZenonT(30), <2>1 DEF QuietOK, RecoverOK, RowOK, LockedOps
  <2>4. \A s \in Seqs : Carries(r, s) => Carries(th[t], s)
    BY <1>2, <2>1 DEF Carries
  <2>5. \A s \in Seqs : tokens'[s] + timers'[s] + One(Carries(r, s))
                          <= tokens[s] + timers[s] + One(Carries(th[t], s))
    BY <1>1, <1>2, <1>6, <2>4 DEF One
  <2> QED BY Zenon, <1>1, <1>2, <1>6, <2>1, <2>2, <2>3, <2>5, QuietWork
<1>7. CASE ~ActPending(q) \/ isTerminal(row)
  BY <1>4, <1>7, Zenon DEF Settle
<1>8. CASE ActPending(q) /\ ~isTerminal(row) /\ ShouldRetry(q, th[t].out)
  BY <1>5, <1>8, Zenon DEF Settle
<1>9. CASE ActPending(q) /\ ~isTerminal(row) /\ ~ShouldRetry(q, th[t].out)
  BY <1>6, <1>9, Zenon DEF Settle
<1> QED BY Zenon, <1>7, <1>8, <1>9

(* A handler past the lock that takes up an activity nobody has. *)
LEMMA QuietTakesUp ==
  ASSUME RunInv, RunInv', QuietInv, NEW t \in Threads, Active(th[t]), NEW r, Become(t, r),
         NEW q \in Seqs, r.seq = q, tokens[q] + timers[q] = 0, Carriers(q) = {},
         UNCHANGED <<row, hist, open, tokens, timers, canceling, booting, started>>,
         QuietOK(r), r.op = th[t].op, RecoverOK(r, tokens), RowOK(r, row, hist, open),
         act'[q].st # "NONE", \A s \in Seqs : s # q => act'[s] = act[s]
  PROVE  QuietInv'
<1>1. QuietThreads /\ QuietRow /\ QuietCarriers /\ th[t].pc # "idle"
  BY Zenon DEF QuietInv, Active
<1>2. QuietThreads'
  BY Zenon, <1>1, ThreadsGoOn
<1>3. QuietRow'
  BY Zenon, <1>1, RowPassive
<1>4. ASSUME NEW s \in Seqs PROVE Placed(s)'
  <2>1. CASE s = q
    BY Zenon, <2>1, PlacedNew
  <2>2. CASE s # q
    <3>1. tokens[s] \in Nat /\ timers[s] \in Nat /\ ~Carries(r, s)
      BY ZenonT(30), <2>2 DEF RunInv, TypeOK, Carries
    <3>2. tokens'[s] + timers'[s] + One(Carries(r, s))
            <= tokens[s] + timers[s] + One(Carries(th[t], s))
      <4>1. One(Carries(r, s)) = 0 /\ One(Carries(th[t], s)) \in {0, 1}
        BY ZenonT(30), <3>1 DEF One
      <4>2. \A x, y \in Nat, z \in {0, 1} : x + y + 0 <= x + y + z
        OBVIOUS
      <4> QED BY Zenon, <3>1, <4>1, <4>2
    <3>3. Placed(s)
      BY ZenonT(30), <1>1, PlacedEach
    <3> QED BY Zenon, <2>2, <3>2, <3>3, PlacedMoves
  <2> QED BY Zenon, <2>1, <2>2
<1>5. \A u \in Threads : RecoverOK(th[u], tokens)'
  BY Zenon, <1>1, RecoverKept
<1>6. QuietCarriers'
  BY Zenon, <1>4, <1>5 DEF QuietCarriers, OneCarrier, Placed
<1> QED BY Zenon, <1>2, <1>3, <1>6 DEF QuietInv

(* applyScheduleActivity takes up an activity that has no record. *)
LEMMA QuietCommand ==
  ASSUME RunInv, RunInv', QuietInv, NEW t \in Threads, Command(t)
  PROVE  QuietInv'
<1>1. /\ th[t].pc = "cmd" /\ UNCHANGED <<row, hist, open, tokens, timers, booting, started>>
      /\ Active(th[t])
  BY Zenon DEF Command, At, queues, bounds, Active
<1>2. th[t] \in ThreadStates /\ QuietOK(th[t]) /\ th[t].op = "respond" /\ th[t].seq = NoSeq
      /\ act \in [Seqs -> Acts]
  BY Zenon, <1>1, ThreadFacts, QuietFacts DEF RunInv, TypeOK, ShapeOK, QuietOK
<1>3. canceling' = canceling
  <2>1. canceling \in BOOLEAN /\ ~canceling
    BY QuietFacts DEF QuietThreads, RunInv, TypeOK
  <2>2. canceling' = canceling \/ canceling' = (canceling /\ th[t].goal # "CANCELED")
    BY ZenonT(30) DEF Command
  <2> QED BY <2>1, <2>2, Zenon
<1>4. CASE Return(t) /\ act' = act
  BY Zenon, <1>1, <1>3, <1>4, QuietReturn DEF Calm
<1>5. ASSUME NEW r, Become(t, r), act' = act, r.op = "respond", r.seq = NoSeq, r.ev = th[t].ev,
             r.pc \in {"cmd", "ttRead"}
      PROVE  QuietInv'
  <2>1. QuietOK(r) /\ RecoverOK(r, tokens) /\ RowOK(r, row, hist, open)
    BY Zenon, <1>2, <1>5 DEF QuietOK, RecoverOK, RowOK
  <2>2. \A s \in Seqs : ~Carries(r, s)
    BY Zenon, <1>5 DEF Carries
  <2> QED BY Zenon, <1>1, <1>2, <1>3, <1>5, <2>1, <2>2, QuietGoto DEF Calm
<1>6. CASE Goto(t, "ttRead") /\ act' = act
  <2> DEFINE r == [th[t] EXCEPT !.pc = "ttRead"]
  <2>1. Become(t, r) /\ r.op = "respond" /\ r.seq = NoSeq /\ r.ev = th[t].ev /\ r.pc = "ttRead"
    BY <1>2, <1>6 DEF Goto, ThreadStates
  <2> HIDE DEF r
  <2> QED BY Zenon, <1>5, <1>6, <2>1
<1>7. ASSUME NEW q \in Seqs, Become(t, [th[t] EXCEPT !.todo = @ \ {q}]), act' = act
      PROVE  QuietInv'
  <2> DEFINE r == [th[t] EXCEPT !.todo = @ \ {q}]
  <2>1. Become(t, r) /\ r.op = "respond" /\ r.seq = NoSeq /\ r.ev = th[t].ev /\ r.pc = "cmd"
    BY <1>1, <1>2, <1>7 DEF ThreadStates
  <2> HIDE DEF r
  <2> QED BY <1>5, <1>7, <2>1
<1>8. ASSUME NEW q \in Seqs, ~Recorded(q),
             act' = [act EXCEPT ![q] = [st |-> "SCHEDULED", attempt |-> 1]],
             Become(t, [th[t] EXCEPT !.todo = @ \ {q}, !.seq = q, !.pc = "apRead",
                                     !.ev = ActivityEvent("ACT_SCHEDULED", q)])
      PROVE  QuietInv'
  <2> DEFINE r == [th[t] EXCEPT !.todo = @ \ {q}, !.seq = q, !.pc = "apRead",
                                !.ev = ActivityEvent("ACT_SCHEDULED", q)]
  <2>1. /\ Become(t, r) /\ r.op = "respond" /\ r.seq = q /\ r.pc = "apRead"
        /\ r.ev.type = "ACT_SCHEDULED"
    BY <1>2, <1>8 DEF ThreadStates, ActivityEvent
  <2>2. tokens[q] + timers[q] = 0 /\ Carriers(q) = {}
    BY <1>8, QuietFacts DEF QuietCarriers, Recorded
  <2>3. act'[q].st # "NONE" /\ \A s \in Seqs : s # q => act'[s] = act[s]
    BY ZenonT(30), <1>2, <1>8
  <2> HIDE DEF r
  <2>4. QuietOK(r) /\ RecoverOK(r, tokens) /\ RowOK(r, row, hist, open)
    BY Zenon, <2>1 DEF QuietOK, RecoverOK, RowOK, LockedOps
  <2> QED BY Zenon, <1>1, <1>2, <1>3, <2>1, <2>2, <2>3, <2>4, QuietTakesUp
<1> QED BY <1>4, <1>6, <1>7, <1>8, Zenon DEF Command

(* recoverRun lists the pending activities while nobody has any ... *)
LEMMA QuietRecoverRow ==
  ASSUME RunInv, RunInv', QuietInv, NEW t \in Threads, RecoverRow(t)
  PROVE  QuietInv'
<1> DEFINE r == [th[t] EXCEPT !.pc = "recNext", !.todo = {s \in Seqs : ActPending(s)}]
<1>1. th[t].pc = "recRow" /\ Calm /\ row' = row /\ hist' = hist /\ Active(th[t])
  BY DEF RecoverRow, At, Calm, queues, bounds, Active
<1>2. /\ th[t] \in ThreadStates /\ QuietOK(th[t]) /\ th[t].op = "recover" /\ RecoverOK(th[t], tokens)
      /\ row.len <= Len(hist)
  BY Zenon, <1>1, ThreadFacts, QuietFacts DEF ShapeOK, QuietRow
<1>3. CASE row.st \notin OpenStatus /\ open' = FALSE /\ Return(t)
  <2>1. OpenIndexed' /\ row'.len <= Len(hist')
    BY Zenon, <1>1, <1>2, <1>3 DEF OpenIndexed
  <2> QED BY Zenon, <1>1, <1>3, <2>1, IdleQuiet, QuietShard DEF Return
<1>4. CASE Become(t, r) /\ open' = open
  <2>1. r.op = "recover" /\ r.pc = "recNext" /\ r.ev = th[t].ev /\ r.todo \subseteq Seqs
    BY <1>2 DEF ThreadStates
  <2> HIDE DEF r
  <2>2. QuietOK(r) /\ RecoverOK(r, tokens) /\ RowOK(r, row, hist, open)
    BY ZenonT(30), <1>1, <1>2, <2>1 DEF QuietOK, RecoverOK, RowOK
  <2>3. \A s \in Seqs : ~Carries(r, s)
    BY <2>1 DEF Carries
  <2> QED BY Zenon, <1>1, <1>2, <1>4, <2>1, <2>2, <2>3, QuietGoto
<1> QED BY <1>3, <1>4, Zenon DEF RecoverRow

(* ... and takes them up one by one. *)
LEMMA QuietRecoverNext ==
  ASSUME RunInv, RunInv', QuietInv, NEW t \in Threads, RecoverNext(t)
  PROVE  QuietInv'
<1>1. th[t].pc = "recNext" /\ Calm /\ UNCHANGED <<row, hist, open>> /\ Active(th[t])
  BY Zenon DEF RecoverNext, At, Calm, shard, queues, bounds, Active
<1>2. /\ th[t] \in ThreadStates /\ QuietOK(th[t]) /\ th[t].op = "recover" /\ RecoverOK(th[t], tokens)
      /\ RecordOK(th[t], act)
  BY Zenon, <1>1, ThreadFacts, QuietFacts DEF ShapeOK
<1>3. CASE Goto(t, "enqueue")
  <2> DEFINE r == [th[t] EXCEPT !.pc = "enqueue"]
  <2>1. Become(t, r) /\ r.op = "recover" /\ r.pc = "enqueue" /\ r.ev = th[t].ev
    BY <1>2, <1>3 DEF Goto, ThreadStates
  <2> HIDE DEF r
  <2>2. QuietOK(r) /\ RecoverOK(r, tokens) /\ RowOK(r, row, hist, open)
    BY Zenon, <1>2, <2>1 DEF QuietOK, RecoverOK, RowOK
  <2>3. \A s \in Seqs : ~Carries(r, s)
    BY Zenon, <2>1 DEF Carries
  <2> QED BY Zenon, <1>1, <1>2, <2>1, <2>2, <2>3, QuietGoto
<1>4. ASSUME NEW q \in Seqs, IsNext(q, th[t].todo),
             Become(t, [th[t] EXCEPT !.todo = @ \ {q}, !.seq = q, !.pc = "dispatch"])
      PROVE  QuietInv'
  <2> DEFINE r == [th[t] EXCEPT !.todo = @ \ {q}, !.seq = q, !.pc = "dispatch"]
  <2>1. /\ Become(t, r) /\ r.op = "recover" /\ r.seq = q /\ r.pc = "dispatch" /\ r.ev = th[t].ev
        /\ r.todo = th[t].todo \ {q}
    BY Zenon, <1>2, <1>4 DEF ThreadStates
  <2>2. q \in th[t].todo /\ (\A s \in th[t].todo : tokens[s] = 0) /\ act[q].st # "NONE"
    BY Zenon, <1>1, <1>2, <1>4 DEF IsNext, RecoverOK, RecordOK
  <2>3. timers[q] = 0 /\ Alone(t) /\ \A u \in Threads : QuietOK(th[u])
    BY Zenon, <1>2, QuietFacts DEF QuietThreads
  <2>4. Carriers(q) = {}
    <3>1. ASSUME NEW u \in Threads PROVE ~Carries(th[u], q)
      <4>1. CASE u = t
        BY Zenon, <1>1, <1>2, <4>1 DEF Carries
      <4>2. CASE u # t
        BY <2>3, <4>2 DEF Carries, Alone, QuietOK
      <4> QED BY <4>1, <4>2
    <3> QED BY <3>1 DEF Carriers
  <2> HIDE DEF r
  <2>5. QuietOK(r) /\ RecoverOK(r, tokens) /\ RowOK(r, row, hist, open)
    BY Zenon, <1>2, <2>1, <2>2 DEF QuietOK, RecoverOK, RowOK
  <2>6. tokens[q] + timers[q] = 0
    BY <2>2, <2>3
  <2> QED BY Zenon, <1>1, <1>2, <2>1, <2>2, <2>4, <2>5, <2>6, QuietTakesUp DEF Calm
<1> QED BY <1>3, <1>4, Zenon DEF RecoverNext

(* A store error ends the handler, or the command it was applying. *)
LEMMA QuietStoreFails ==
  ASSUME RunInv, RunInv', QuietInv, NEW t \in Threads, StoreFails(t)
  PROVE  QuietInv'
<1>1. Calm /\ UNCHANGED <<row, hist, open>>
  BY DEF StoreFails, Calm, shard, queues
<1>2. th[t] \in ThreadStates /\ QuietOK(th[t])
  BY ThreadFacts, QuietFacts
<1>3. Active(th[t])
  BY Zenon DEF StoreFails, WritePcs, At, Active
<1>4. ASSUME NEW r, Become(t, r), r.op = th[t].op, th[t].op = "respond", r.seq = NoSeq,
             r.ev.type # "CANCEL_REQUESTED", r.pc = "cmd"
      PROVE  QuietInv'
  <2>1. QuietOK(r) /\ RecoverOK(r, tokens) /\ RowOK(r, row, hist, open)
    BY Zenon, <1>4 DEF QuietOK, RecoverOK, RowOK, LockedOps
  <2>2. \A s \in Seqs : ~Carries(r, s)
    BY Zenon, <1>4 DEF Carries
  <2> QED BY Zenon, <1>1, <1>3, <1>4, <2>1, <2>2, QuietGoto
<1>5. CASE Return(t)
  BY Zenon, <1>1, <1>3, <1>5, QuietReturn
<1>6. CASE Scheduling(t) /\ Become(t, [th[t] EXCEPT !.pc = "cmd", !.seq = NoSeq,
                                                  !.reg = Idle.reg, !.ev = Idle.ev])
  <2> DEFINE r == [th[t] EXCEPT !.pc = "cmd", !.seq = NoSeq, !.reg = Idle.reg, !.ev = Idle.ev]
  <2>1. /\ Become(t, r) /\ r.op = th[t].op /\ th[t].op = "respond" /\ r.seq = NoSeq
        /\ r.ev.type # "CANCEL_REQUESTED" /\ r.pc = "cmd"
    BY Zenon, <1>2, <1>6 DEF ThreadStates, Idle, WorkflowEvent, Scheduling
  <2> HIDE DEF r
  <2> QED BY <1>4, <2>1
<1>7. ASSUME NEW s \in Seqs, At(t, "cmd"), Become(t, [th[t] EXCEPT !.todo = @ \ {s}])
      PROVE  QuietInv'
  <2> DEFINE r == [th[t] EXCEPT !.todo = @ \ {s}]
  <2>1. ShapeOK(th[t])
    BY ThreadFacts
  <2>2. /\ Become(t, r) /\ r.op = th[t].op /\ th[t].op = "respond" /\ r.seq = NoSeq
        /\ r.ev.type # "CANCEL_REQUESTED" /\ r.pc = "cmd"
    BY Zenon, <1>2, <1>7, <2>1 DEF ThreadStates, At, ShapeOK, QuietOK
  <2> HIDE DEF r
  <2> QED BY Zenon, <1>4, <2>2
<1> QED BY <1>5, <1>6, <1>7, Zenon DEF StoreFails

(* lockRun: a handler that waited goes past the lock. *)
LEMMA QuietLockRun ==
  ASSUME RunInv, RunInv', QuietInv, NEW t \in Threads, LockRun(t)
  PROVE  QuietInv'
<1> DEFINE r == [th[t] EXCEPT !.pc = EntryPoint(th[t].op)]
<1>1. th[t].pc = "lock" /\ Become(t, r) /\ Calm /\ UNCHANGED <<row, hist, open>>
  BY Zenon DEF LockRun, At, Goto, Calm, shard, queues, bounds
<1>2. /\ th[t] \in ThreadStates /\ QuietOK(th[t]) /\ ShapeOK(th[t]) /\ RecoverOK(th[t], tokens)
      /\ QuietThreads /\ QuietRow /\ QuietCarriers
  BY ThreadFacts, QuietFacts
<1>3. /\ r.op = th[t].op /\ r.pc = EntryPoint(th[t].op) /\ r.seq = th[t].seq /\ r.ev = th[t].ev
      /\ th[t].op \in LockedOps
  BY Zenon, <1>1, <1>2 DEF ThreadStates, ShapeOK
<1> HIDE DEF r
<1>4. QuietOK(r) /\ RecoverOK(r, tokens) /\ RowOK(r, row, hist, open)
  BY Zenon, <1>1, <1>2, <1>3 DEF QuietOK, RecoverOK, RowOK, EntryPoint, LockedOps
<1>5. \A s \in Seqs : Carries(r, s) => Carries(th[t], s)
  BY <1>3 DEF Carries, EntryPoint
<1>6. QuietThreads'
  BY Zenon, <1>1, <1>2, <1>3, <1>4, ThreadsGoOn DEF Calm
<1>7. QuietRow'
  BY Zenon, <1>1, <1>2, <1>4, RowPassive
<1>8. QuietCarriers'
  BY Zenon, <1>1, <1>2, <1>4, <1>5, CarriersStay DEF Calm
<1> QED BY <1>6, <1>7, <1>8 DEF QuietInv

-----------------------------------------------------------------------------
(* Handlers that begin. *)

(* A caller that waits for boot and start finds neither under way. *)
LEMMA ServingFacts ==
  ASSUME Quiet, NEW t \in Threads, Serving(t)
  PROVE  th[t] = Idle /\ ~booting /\ \A u \in Threads : th[u].op \notin {"start", "recover"}
  BY Zenon DEF Quiet, Serving

(* A handler that begins with an activity's token, a fired timer or a task. *)
LEMMA QuietBegin ==
  ASSUME RunInv, RunInv', QuietInv, NEW t \in Threads, th[t] = Idle, NEW r, Become(t, r),
         r.pc = "lock", r.op \in {"respond", "activity", "timer", "signal"},
         r.ev.type # "CANCEL_REQUESTED", r.op = "respond" => r.seq = NoSeq,
         ~booting, started, \A u \in Threads : th[u].op \notin {"start", "recover"},
         UNCHANGED <<row, hist, open, act, canceling, booting, started>>,
         \A s \in Seqs : tokens'[s] + timers'[s] + One(Carries(r, s)) <= tokens[s] + timers[s]
  PROVE  QuietInv'
<1>1. QuietThreads /\ QuietRow /\ QuietCarriers
  BY DEF QuietInv
<1>2. QuietOK(r) /\ RecoverOK(r, tokens') /\ RowOK(r, row, hist, open)
  BY Zenon DEF QuietOK, RecoverOK, RowOK, LockedOps
<1>3. QuietThreads'
  BY Zenon, <1>1, <1>2, ThreadsBegin
<1>4. QuietRow'
  BY Zenon, <1>1, <1>2, RowPassive
<1>5. ASSUME NEW s \in Seqs
      PROVE  tokens'[s] + timers'[s] + One(Carries(r, s))
               <= tokens[s] + timers[s] + One(Carries(th[t], s))
  <2>1. One(Carries(th[t], s)) = 0
    BY Zenon, IdleQuiet DEF One
  <2>2. tokens[s] \in Nat /\ timers[s] \in Nat
    BY Zenon DEF RunInv, TypeOK
  <2> QED BY <2>1, <2>2
<1>6. QuietCarriers'
  BY Zenon, <1>1, <1>2, <1>5, CarriersMove
<1> QED BY ZenonT(30), <1>3, <1>4, <1>6 DEF QuietInv

(* respondWorkflowHandler *)
LEMMA QuietRespond ==
  ASSUME Quiet, RunInv, RunInv', QuietInv, NEW t \in Threads, Respond(t)
  PROVE  QuietInv'
<1>1. /\ th[t] = Idle /\ ~booting /\ \A u \in Threads : th[u].op \notin {"start", "recover"}
      /\ UNCHANGED <<row, hist, open, act, tokens, timers, canceling, booting, started>>
  BY ServingFacts DEF Respond, shard, bounds
<1>2. PICK b \in Batches :
        /\ tasks[b] > 0
        /\ \/ Become(t, [Idle EXCEPT !.op = "respond", !.pc = "lock", !.todo = b.sched,
                                     !.goal = b.close])
           \/ Become(t, [Idle EXCEPT !.op = "respond", !.pc = "lock", !.goal = "CANCELED"])
  BY Zenon DEF Respond
<1>3. started
  <2>1. tasks[b] # 0
    BY <1>2
  <2> QED BY Zenon, <2>1 DEF QuietInv, QuietThreads
<1>4. ASSUME NEW r, Become(t, r), r.pc = "lock", r.op = "respond", r.seq = NoSeq,
             r.ev.type # "CANCEL_REQUESTED"
      PROVE  QuietInv'
  <2>1. ASSUME NEW s \in Seqs
        PROVE  tokens'[s] + timers'[s] + One(Carries(r, s)) <= tokens[s] + timers[s]
    <3>1. One(Carries(r, s)) = 0
      BY Zenon, <1>4 DEF One, Carries
    <3>2. tokens[s] \in Nat /\ timers[s] \in Nat
      BY Zenon DEF RunInv, TypeOK
    <3> QED BY <1>1, <3>1, <3>2
  <2> QED BY ZenonT(30), <1>1, <1>3, <1>4, <2>1, QuietBegin
<1>5. CASE Become(t, [Idle EXCEPT !.op = "respond", !.pc = "lock", !.todo = b.sched,
                                  !.goal = b.close])
  <2> DEFINE r == [Idle EXCEPT !.op = "respond", !.pc = "lock", !.todo = b.sched, !.goal = b.close]
  <2>1. /\ Become(t, r) /\ r.pc = "lock" /\ r.op = "respond" /\ r.seq = NoSeq
        /\ r.ev.type # "CANCEL_REQUESTED"
    BY <1>5 DEF Idle, WorkflowEvent
  <2> HIDE DEF r
  <2> QED BY <1>4, <2>1
<1>6. CASE Become(t, [Idle EXCEPT !.op = "respond", !.pc = "lock", !.goal = "CANCELED"])
  <2> DEFINE r == [Idle EXCEPT !.op = "respond", !.pc = "lock", !.goal = "CANCELED"]
  <2>1. /\ Become(t, r) /\ r.pc = "lock" /\ r.op = "respond" /\ r.seq = NoSeq
        /\ r.ev.type # "CANCEL_REQUESTED"
    BY <1>6 DEF Idle, WorkflowEvent
  <2> HIDE DEF r
  <2> QED BY <1>4, <2>1
<1> QED BY <1>2, <1>5, <1>6

(* respondActivityCompletedHandler, ...FailedHandler: the handler for the token. *)
LEMMA QuietRespondActivity ==
  ASSUME Quiet, RunInv, RunInv', QuietInv, NEW t \in Threads, RespondActivity(t)
  PROVE  QuietInv'
<1>1. /\ th[t] = Idle /\ ~booting /\ \A u \in Threads : th[u].op \notin {"start", "recover"}
      /\ UNCHANGED <<row, hist, open, act, timers, canceling, booting, started>>
      /\ tokens \in [Seqs -> Nat] /\ timers \in [Seqs -> Nat]
  BY ServingFacts DEF RespondActivity, shard, bounds, RunInv, TypeOK
<1>2. PICK q \in Seqs, out \in {"ok", "retryable", "fatal"} :
        /\ TakeToken(q)
        /\ Become(t, [Idle EXCEPT !.op = "activity", !.pc = "lock", !.seq = q, !.out = out])
  BY Zenon DEF RespondActivity
<1>3. tokens[q] > 0 /\ tokens' = [tokens EXCEPT ![q] = @ - 1] /\ started
  BY <1>2 DEF TakeToken, QuietInv, QuietThreads, NoWork
<1> DEFINE r == [Idle EXCEPT !.op = "activity", !.pc = "lock", !.seq = q, !.out = out]
<1>4. /\ Become(t, r) /\ r.pc = "lock" /\ r.op = "activity" /\ r.seq = q
      /\ r.ev.type # "CANCEL_REQUESTED"
  BY Zenon, <1>2 DEF Idle, WorkflowEvent
<1> HIDE DEF r
<1>5. ASSUME NEW s \in Seqs
      PROVE  tokens'[s] + timers'[s] + One(Carries(r, s)) <= tokens[s] + timers[s]
  <2>1. One(Carries(r, s)) = IF s = q THEN 1 ELSE 0
    BY Zenon, <1>4 DEF One, Carries
  <2>2. tokens'[s] = IF s = q THEN tokens[s] - 1 ELSE tokens[s]
    BY <1>1, <1>3
  <2>3. \A x, y \in Nat : (x - 1) + y + 1 <= x + y /\ x + y + 0 <= x + y
    OBVIOUS
  <2>4. tokens[s] \in Nat /\ timers[s] \in Nat /\ timers'[s] = timers[s]
    BY Zenon, <1>1
  <2> QED BY Zenon, <2>1, <2>2, <2>3, <2>4
<1> QED BY Zenon, <1>1, <1>3, <1>4, <1>5, QuietBegin

(* scheduleActivityRetry: the handler for the timer. *)
LEMMA QuietTimerFires ==
  ASSUME RunInv, RunInv', QuietInv, NEW t \in Threads, TimerFires(t)
  PROVE  QuietInv'
<1>1. /\ th[t] = Idle
      /\ UNCHANGED <<row, hist, open, act, tokens, canceling, booting, started>>
      /\ tokens \in [Seqs -> Nat] /\ timers \in [Seqs -> Nat]
  BY Zenon DEF TimerFires, shard, bounds, RunInv, TypeOK
<1>2. PICK q \in Seqs :
        /\ timers[q] > 0 /\ timers' = [timers EXCEPT ![q] = @ - 1]
        /\ Become(t, [Idle EXCEPT !.op = "timer", !.pc = "lock", !.seq = q])
  BY Zenon DEF TimerFires
<1>3. started /\ ~booting /\ \A u \in Threads : th[u].op \notin {"start", "recover"}
  BY <1>2 DEF QuietInv, QuietThreads, NoWork
<1> DEFINE r == [Idle EXCEPT !.op = "timer", !.pc = "lock", !.seq = q]
<1>4. /\ Become(t, r) /\ r.pc = "lock" /\ r.op = "timer" /\ r.seq = q
      /\ r.ev.type # "CANCEL_REQUESTED"
  BY Zenon, <1>2 DEF Idle, WorkflowEvent
<1> HIDE DEF r
<1>5. ASSUME NEW s \in Seqs
      PROVE  tokens'[s] + timers'[s] + One(Carries(r, s)) <= tokens[s] + timers[s]
  <2>1. One(Carries(r, s)) = IF s = q THEN 1 ELSE 0
    BY <1>4 DEF One, Carries
  <2>2. timers'[s] = IF s = q THEN timers[s] - 1 ELSE timers[s]
    BY <1>1, <1>2
  <2> QED BY <1>1, <2>1, <2>2
<1> QED BY Zenon, <1>1, <1>3, <1>4, <1>5, QuietBegin

(* signalWorkflow finds the run open. *)
LEMMA QuietSignal ==
  ASSUME Quiet, RunInv, RunInv', QuietInv, NEW t \in Threads, signalWorkflow(t)
  PROVE  QuietInv'
<1>1. /\ th[t] = Idle /\ ~booting /\ \A u \in Threads : th[u].op \notin {"start", "recover"}
      /\ UNCHANGED <<row, hist, open, act, tokens, timers, canceling, booting, started>>
      /\ row.st \in OpenStatus
  BY ServingFacts DEF signalWorkflow, Call, shard, queues
<1> DEFINE r == [Idle EXCEPT !.op = "signal", !.pc = "lock", !.ev = WorkflowEvent("SIGNALED")]
<1>2. /\ Become(t, r) /\ r.pc = "lock" /\ r.op = "signal" /\ r.ev.type # "CANCEL_REQUESTED"
  BY Zenon DEF signalWorkflow, Idle, WorkflowEvent
<1>3. started
  BY <1>1 DEF QuietInv, QuietThreads, NoRow, OpenStatus
<1> HIDE DEF r
<1>4. ASSUME NEW s \in Seqs
      PROVE  tokens'[s] + timers'[s] + One(Carries(r, s)) <= tokens[s] + timers[s]
  <2>1. One(Carries(r, s)) = 0
    BY ZenonT(30), <1>2 DEF One, Carries
  <2>2. tokens[s] \in Nat /\ timers[s] \in Nat
    BY DEF RunInv, TypeOK
  <2> QED BY <1>1, <2>1, <2>2
<1> QED BY Zenon, <1>1, <1>2, <1>3, <1>4, QuietBegin

(* startWorkflowFull begins on an empty store: nothing else is under way. *)
LEMMA QuietStart ==
  ASSUME Quiet, RunInv, RunInv', QuietInv, NEW t \in Threads, Start(t)
  PROVE  QuietInv'
<1>1. /\ th[t] = Idle /\ ~booting /\ \A u \in Threads : th[u].op \notin {"start", "recover"}
      /\ UNCHANGED <<row, hist, act, tokens, timers, canceling, booting>>
      /\ ~started /\ started' = TRUE /\ open' = TRUE
  BY ServingFacts DEF Start, openRun, queues
<1>2. /\ NoWork /\ row = NoRow /\ ~canceling
      /\ \A u \in Threads : th[u].pc = "idle" /\ QuietOK(th[u])
      /\ QuietThreads /\ QuietRow /\ QuietCarriers
  BY Zenon, <1>1 DEF QuietInv, QuietThreads
<1> DEFINE r == [Idle EXCEPT !.op = "start", !.pc = "startRow"]
<1>3. Become(t, r) /\ r.op = "start" /\ r.pc = "startRow" /\ r.ev.type = "WF_STARTED"
  BY DEF Start, Idle, WorkflowEvent
<1> HIDE DEF r
<1>4. \A u \in Threads : th'[u] = IF u = t THEN r ELSE th[u]
  BY ZenonT(30), <1>3 DEF Become, RunInv, TypeOK
<1>5. QuietOK(r) /\ RecoverOK(r, tokens) /\ \A s \in Seqs : ~Carries(r, s)
  BY Zenon, <1>3 DEF QuietOK, RecoverOK, Carries
<1>6. QuietThreads'
  <2>1. ASSUME NEW u \in Threads
        PROVE  /\ QuietOK(th'[u])
               /\ th'[u].op \in {"start", "recover"} =>
                    /\ \A s \in Seqs : timers'[s] = 0
                    /\ \A v \in Threads : v # u => th'[v].pc = "idle"
    <3>1. CASE u = t
      BY Zenon, <1>1, <1>2, <1>4, <1>5, <3>1 DEF NoWork
    <3>2. CASE u # t
      BY Zenon, <1>1, <1>2, <1>4, <3>2
    <3> QED BY Zenon, <3>1, <3>2
  <2> QED BY <1>1, <1>2, <2>1, Zenon DEF QuietThreads, Alone
<1>7. QuietRow'
  <2>1. ASSUME NEW u \in Threads PROVE RowOK(th'[u], row', hist', open')
    <3>1. CASE u = t
      BY Zenon, <1>1, <1>2, <1>3, <1>4, <3>1 DEF RowOK
    <3>2. CASE u # t
      BY Zenon, <1>2, <1>4, <3>2 DEF RowOK
    <3> QED BY Zenon, <3>1, <3>2
  <2>2. OpenIndexed' /\ row'.len <= Len(hist')
    BY Zenon, <1>1, <1>2 DEF OpenIndexed, QuietRow
  <2> QED BY Zenon, <2>1, <2>2 DEF QuietRow
<1>8. QuietCarriers'
  BY Zenon, <1>1, <1>2, <1>3, <1>5, CarriersStay
<1> QED BY <1>6, <1>7, <1>8 DEF QuietInv

(* Recover begins on a process that has just come up. *)
LEMMA QuietRecover ==
  ASSUME RunInv, RunInv', QuietInv, NEW t \in Threads, Recover(t)
  PROVE  QuietInv'
<1>1. /\ th[t] = Idle /\ booting /\ booting' = FALSE
      /\ UNCHANGED <<row, hist, open, act, tokens, timers, tasks, canceling, started>>
  BY Zenon DEF Recover, shard, queues, bounds
<1>2. /\ NoWork /\ ~canceling /\ QuietThreads /\ QuietRow /\ QuietCarriers
      /\ \A u \in Threads : th[u].pc = "idle" /\ QuietOK(th[u])
      /\ ~started => (\A b \in Batches : tasks[b] = 0) /\ row = NoRow /\ ~open
  BY Zenon, <1>1 DEF QuietInv, QuietThreads
<1>3. \A u \in Threads : th[u].op = "none"
  BY Zenon, <1>2 DEF QuietOK
<1>4. ASSUME NEW r, Become(t, r), QuietOK(r), RecoverOK(r, tokens), RowOK(r, row, hist, open),
             \A s \in Seqs : ~Carries(r, s), r.op # "start", r.pc = "idle" \/ started
      PROVE  QuietInv'
  <2>1. \A u \in Threads : th'[u] = IF u = t THEN r ELSE th[u]
    BY ZenonT(30), <1>4 DEF Become, RunInv, TypeOK
  <2>2. ASSUME NEW u \in Threads
        PROVE  /\ QuietOK(th'[u])
               /\ th'[u].op \in {"start", "recover"} =>
                    /\ \A s \in Seqs : timers'[s] = 0
                    /\ \A v \in Threads : v # u => th'[v].pc = "idle"
    <3>1. CASE u = t
      BY Zenon, <1>1, <1>2, <1>4, <2>1, <3>1 DEF NoWork
    <3>2. CASE u # t
      BY Zenon, <1>2, <1>3, <2>1, <3>2
    <3> QED BY Zenon, <3>1, <3>2
  <2>3. ~started' => /\ NoWork' /\ row' = NoRow /\ ~open' /\ \A b \in Batches : tasks'[b] = 0
                     /\ \A u \in Threads : th'[u].pc = "idle"
    BY Zenon, <1>1, <1>2, <1>4, <2>1 DEF NoWork
  <2>4. QuietThreads'
    BY <1>1, <1>2, <2>2, <2>3, Zenon DEF QuietThreads, Alone
  <2>5. QuietRow'
    BY Zenon, <1>1, <1>2, <1>4, RowPassive
  <2>6. QuietCarriers'
    BY Zenon, <1>1, <1>2, <1>3, <1>4, CarriersStay
  <2> QED BY <2>4, <2>5, <2>6 DEF QuietInv
<1>5. CASE ~open
  <2>1. Become(t, Idle)
    BY <1>5, Zenon DEF Recover
  <2> QED BY <1>4, <2>1, IdleQuiet
<1>6. CASE open
  <2> DEFINE r == [Idle EXCEPT !.op = "recover", !.pc = "lock"]
  <2>1. Become(t, r)
    BY <1>6, Zenon DEF Recover
  <2>2. r.op = "recover" /\ r.pc = "lock" /\ r.ev.type = "WF_STARTED"
    BY Zenon DEF Idle, WorkflowEvent
  <2> HIDE DEF r
  <2>3. QuietOK(r) /\ RowOK(r, row, hist, open) /\ \A s \in Seqs : ~Carries(r, s)
    BY <2>2 DEF QuietOK, RowOK, Carries, LockedOps
  <2>4. RecoverOK(r, tokens)
    BY Zenon, <1>2, <2>2 DEF RecoverOK, NoWork
  <2>5. started
    BY Zenon, <1>2, <1>6
  <2> QED BY Zenon, <1>4, <2>1, <2>2, <2>3, <2>4, <2>5
<1> QED BY <1>5, <1>6

(* A stop leaves the shard as it is, and nothing beside it. *)
LEMMA QuietCrash ==
  ASSUME RunInv, QuietInv, Crash
  PROVE  QuietInv'
<1>1. /\ UNCHANGED <<row, hist, open, act, started>> /\ th' = [t \in Threads |-> Idle]
      /\ tokens' = [s \in Seqs |-> 0] /\ timers' = [s \in Seqs |-> 0]
      /\ tasks' = [b \in Batches |-> 0] /\ canceling' = FALSE /\ booting' = TRUE
  BY DEF Crash, shard
<1>2. NoWork' /\ (\A b \in Batches : tasks'[b] = 0) /\ \A t \in Threads : th'[t] = Idle
  BY <1>1 DEF NoWork
<1>3. QuietThreads'
  <2>1. \A t \in Threads : th'[t].pc = "idle" /\ QuietOK(th'[t]) /\ th'[t].op = "none"
    BY Zenon, <1>2, IdleQuiet
  <2>2. ~started' => row' = NoRow /\ ~open'
    BY Zenon, <1>1 DEF QuietInv, QuietThreads
  <2>3. ~canceling'
    BY <1>1
  <2>4. "none" \notin {"start", "recover"}
    OBVIOUS
  <2> QED BY <1>2, <2>1, <2>2, <2>3, <2>4, Zenon DEF QuietThreads
<1>4. QuietRow'
  BY ZenonT(30), <1>1, <1>2, IdleQuiet DEF QuietInv, QuietRow, OpenIndexed
<1>5. QuietCarriers'
  <2>1. \A s \in Seqs : tokens'[s] + timers'[s] = 0
    BY <1>1
  <2>2. \A s \in Seqs : Carriers(s)' = {}
    BY Zenon, <1>2, IdleQuiet DEF Carriers
  <2>3. \A t \in Threads : RecoverOK(th'[t], tokens')
    BY Zenon, <1>2, IdleQuiet
  <2> QED BY <2>1, <2>2, <2>3 DEF QuietCarriers, OneCarrier
<1> QED BY Zenon, <1>3, <1>4, <1>5 DEF QuietInv

(* The calls that are not made, and the steps they would take. *)
LEMMA NotMade ==
  ASSUME Quiet, QuietInv, NEW t \in Threads
  PROVE  /\ ~TerminateWorkflow(t) /\ ~CancelWorkflow(t) /\ ~UpdateWorkflowMetadata(t)
         /\ ~SweepCanceling(t) /\ ~MetadataPut(t) /\ ~CancelRead(t) /\ ~CancelPut(t)
<1>1. QuietOK(th[t]) /\ ~canceling
  BY Zenon, QuietFacts DEF QuietThreads
<1>2. ~TerminateWorkflow(t) /\ ~CancelWorkflow(t) /\ ~UpdateWorkflowMetadata(t)
  BY DEF Quiet, TerminateWorkflow, CancelWorkflow, UpdateWorkflowMetadata, Call
<1>3. ~SweepCanceling(t) /\ ~MetadataPut(t) /\ ~CancelRead(t) /\ ~CancelPut(t)
  BY Zenon, <1>1 DEF QuietOK, SweepCanceling, MetadataPut, CancelRead, CancelPut, At
<1> QED BY <1>2, <1>3

(* Every step keeps the invariant. *)
LEMMA QuietNext ==
  ASSUME Quiet, RunInv, RunInv', QuietInv, [Next]_vars
  PROVE  QuietInv'
<1>1. CASE UNCHANGED vars
  <2>1. UNCHANGED <<row, hist, open, act, th, tokens, timers, tasks, canceling, booting, started>>
    BY Zenon, <1>1 DEF vars
  <2>2. QuietThreads'
    BY <2>1, Zenon DEF QuietInv, QuietThreads, NoWork, Alone
  <2>3. QuietRow'
    BY <2>1, Zenon DEF QuietInv, QuietRow, OpenIndexed
  <2>4. QuietCarriers'
    BY <2>1, Zenon DEF QuietInv, QuietCarriers, OneCarrier, Carriers
  <2> QED BY Zenon, <2>2, <2>3, <2>4 DEF QuietInv
<1>2. CASE Crash
  BY Zenon, <1>2, QuietCrash
<1>3. ASSUME NEW t \in Threads, Serve(t) PROVE QuietInv'
  BY Zenon, <1>3, QuietRespond, QuietRespondActivity, QuietTimerFires, QuietRecover DEF Serve
<1>4. ASSUME NEW t \in Threads, Client(t) \/ SweepCanceling(t) \/ StoreFails(t) PROVE QuietInv'
  BY Zenon, <1>4, QuietStart, QuietSignal, QuietStoreFails, NotMade DEF Client
<1>5. ASSUME NEW t \in Threads, Advance(t) PROVE QuietInv'
  BY Zenon, <1>5, QuietLockRun, QuietStartRow, QuietAppendRead, QuietAppendEvent, QuietAppendRow,
     QuietEnqueue, QuietTerminalRead, QuietTerminalPut, QuietTerminalOpen, QuietCommand,
     QuietDispatch, QuietMint, QuietSettle, QuietRecoverRow, QuietRecoverNext, NotMade
     DEF Advance, Append3, Terminal3
<1> QED BY Zenon, <1>1, <1>2, <1>3, <1>4, <1>5 DEF Next

(* QuietInv is an invariant of the run when clients only signal and wait. *)
THEOREM QuietInvariant == Quiet => (Spec => []QuietInv)
<1> SUFFICES ASSUME Quiet PROVE Spec => []QuietInv
  OBVIOUS
<1>1. Init => QuietInv
  <2> SUFFICES ASSUME Init PROVE QuietInv
    BY Zenon
  <2>1. /\ row = NoRow /\ hist = <<>> /\ open = FALSE /\ (\A t \in Threads : th[t] = Idle)
        /\ canceling = FALSE /\ booting = TRUE /\ started = FALSE
        /\ (\A b \in Batches : tasks[b] = 0) /\ NoWork
    BY DEF Init, NoWork
  <2>2. QuietThreads
    <3>1. \A t \in Threads : th[t].pc = "idle" /\ QuietOK(th[t]) /\ th[t].op = "none"
      BY Zenon, <2>1, IdleQuiet
    <3>2. "none" \notin {"start", "recover"} /\ ~canceling /\ ~open
      BY ZenonT(30), <2>1
    <3> QED BY <2>1, <3>1, <3>2, Zenon DEF QuietThreads
  <2>3. QuietRow
    <3>1. row.st = "NONE" /\ row.len = 0 /\ Len(hist) = 0
      BY ZenonT(30), <2>1 DEF NoRow
    <3>2. OpenIndexed
      BY Zenon, <3>1 DEF OpenIndexed, OpenStatus
    <3>3. 0 <= 0
      OBVIOUS
    <3>4. row.len <= Len(hist)
      BY Zenon, <3>1, <3>3
    <3>5. \A t \in Threads : RowOK(th[t], row, hist, open)
      BY Zenon, <2>1, IdleQuiet
    <3> QED BY Zenon, <3>2, <3>4, <3>5 DEF QuietRow
  <2>4. QuietCarriers
    <3>1. 0 + 0 = 0 /\ 0 <= 1 /\ 0 # 1
      OBVIOUS
    <3>2. \A s \in Seqs : tokens[s] + timers[s] = 0 /\ Carriers(s) = {}
      BY Zenon, <2>1, <3>1, IdleQuiet DEF Carriers, NoWork
    <3> QED BY Zenon, <2>1, <3>1, <3>2, IdleQuiet DEF QuietCarriers, OneCarrier
  <2> QED BY <2>2, <2>3, <2>4 DEF QuietInv
<1>2. RunInv /\ RunInv' /\ QuietInv /\ [Next]_vars => QuietInv'
  BY QuietNext
<1> QED BY <1>1, <1>2, RunInvariant, PTL DEF Spec

(* No stop and no store error leaves an open row that the index misses, so Recover
   finds every run that was under way (openRun before the row, closeRun after it). *)
THEOREM OpenIsIndexed == Quiet => (Spec => []OpenIndexed)
<1>1. QuietInv => OpenIndexed
  BY Zenon DEF QuietInv, QuietRow
<1> QED BY <1>1, QuietInvariant, PTL

(* Between two restarts an activity is with a worker, on a timer or in one handler:
   tokens are good once, and the run's lock orders the handlers. *)
THEOREM CarriedOnce == Quiet => (Spec => []OneCarrier)
<1>1. QuietInv => OneCarrier
  BY Zenon DEF QuietInv, QuietCarriers
<1> QED BY <1>1, QuietInvariant, PTL

(* What a step does to the row and the history. *)
LEMMA RowSteps ==
  ASSUME RunInv, QuietInv, Quiet, [Next]_vars
  PROVE  /\ isTerminal(row) => row'.st = row.st
         /\ row'.len >= row.len /\ \A i \in 1 .. row.len : hist'[i] = hist[i]
<1>0. row \in Rows /\ row.len \in Nat /\ hist \in Seq(Events)
  BY DEF RunInv, TypeOK, Rows
<1>1. CASE row' = row /\ hist' = hist
  BY <1>0, <1>1
<1>2. ASSUME NEW t \in Threads, StartRow(t)
      PROVE  ~isTerminal(row) /\ row.len = 0 /\ row'.len = 0
  <2>1. row = NoRow /\ row'.len = 0
    BY Zenon, <1>2, QuietFacts DEF StartRow, At, RowOK
  <2> QED BY <2>1 DEF NoRow, isTerminal, TerminalStatus
<1>3. ASSUME NEW t \in Threads, AppendRow(t)
      PROVE  row'.st = row.st /\ row'.len = row.len + 1 /\ hist' = hist
  <2>1. th[t].reg = row /\ row' = [th[t].reg EXCEPT !.len = @ + 1] /\ hist' = hist
    BY <1>3, QuietFacts DEF AppendRow, At, RowOK
  <2> QED BY <1>0, <2>1 DEF Rows
<1>4. ASSUME NEW t \in Threads, TerminalPut(t)
      PROVE  ~isTerminal(row) /\ row'.len = row.len /\ hist' = hist
  <2>1. /\ th[t].reg = row /\ row.st \in OpenStatus /\ row' = [th[t].reg EXCEPT !.st = th[t].goal]
        /\ hist' = hist
    BY Zenon, <1>4, QuietFacts DEF TerminalPut, At, RowOK
  <2> QED BY <1>0, <2>1 DEF Rows, isTerminal, OpenStatus, TerminalStatus
<1>5. ASSUME NEW t \in Threads, AppendEvent(t)
      PROVE  row' = row /\ \A i \in 1 .. row.len : hist'[i] = hist[i]
  <2>1. /\ th[t].reg = row /\ row.len <= Len(hist) /\ row' = row
        /\ hist' = PutEvent(hist, th[t].reg.len + 1, th[t].ev) /\ th[t].ev \in Events
    BY Zenon, <1>5, QuietFacts, ThreadFacts DEF AppendEvent, At, RowOK, QuietRow, ThreadStates
  <2> DEFINE n == row.len + 1
  <2>2. n \in Nat \ {0} /\ n <= Len(hist) + 1 /\ n - 1 = row.len /\ hist' = PutEvent(hist, n, th[t].ev)
    <3>1. \A x, y \in Nat : x <= y => /\ x + 1 \in Nat \ {0} /\ x + 1 <= y + 1
                                     /\ (x + 1) - 1 = x
      OBVIOUS
    <3>2. Len(hist) \in Nat
      BY <1>0
    <3> QED BY Zenon, <1>0, <2>1, <3>1, <3>2
  <2> DEFINE e == th[t].ev
  <2>3. e \in Events /\ hist' = PutEvent(hist, n, e)
    BY Zenon, <2>1, <2>2
  <2> HIDE DEF n, e
  <2>4. \A i \in 1 .. (n - 1) : PutEvent(hist, n, e)[i] = hist[i]
    BY Zenon, <1>0, <2>2, <2>3, PutAfter
  <2>5. \A i \in 1 .. (n - 1) : hist'[i] = hist[i]
    BY <2>3, <2>4
  <2> QED BY <2>1, <2>2, <2>5
<1>6. ASSUME NEW t \in Threads, Advance(t)
      PROVE  \/ row' = row /\ hist' = hist
             \/ StartRow(t) \/ AppendRow(t) \/ TerminalPut(t) \/ AppendEvent(t)
  BY <1>6, NotMade, Zenon
     DEF Advance, Append3, Terminal3, LockRun, AppendRead, Enqueue, TerminalRead, TerminalOpen,
         Command, Dispatch, Mint, Settle, RecoverRow, RecoverNext, shard
<1>7. ASSUME NEW t \in Threads, Serve(t) \/ Client(t) \/ SweepCanceling(t) \/ StoreFails(t)
      PROVE  row' = row /\ hist' = hist
  BY <1>7, Zenon
     DEF Serve, Respond, RespondActivity, TimerFires, Recover, Client, Start, signalWorkflow,
         TerminateWorkflow, CancelWorkflow, UpdateWorkflowMetadata, Call, SweepCanceling,
         StoreFails, shard
<1>8. CASE Crash \/ UNCHANGED vars
  BY Zenon, <1>1, <1>8 DEF Crash, vars, shard
<1>9. ASSUME NEW t \in Threads, StartRow(t) PROVE hist' = hist
  BY Zenon, <1>9 DEF StartRow
<1>10. ASSUME NEW t \in Threads, Advance(t)
       PROVE  /\ isTerminal(row) => row'.st = row.st
              /\ row'.len >= row.len /\ \A i \in 1 .. row.len : hist'[i] = hist[i]
  <2>1. CASE row' = row /\ hist' = hist
    BY Zenon, <1>1, <2>1
  <2>2. CASE StartRow(t)
    <3>1. 0 >= 0
      OBVIOUS
    <3> QED BY Zenon, <1>2, <1>9, <2>2, <3>1
  <2>3. CASE AppendRow(t)
    BY <1>0, <1>3, <2>3
  <2>4. CASE TerminalPut(t)
    BY <1>0, <1>4, <2>4
  <2>5. CASE AppendEvent(t)
    BY <1>0, <1>5, <2>5
  <2> QED BY Zenon, <1>6, <1>10, <2>1, <2>2, <2>3, <2>4, <2>5
<1> QED BY ZenonT(30), <1>1, <1>7, <1>8, <1>10 DEF Next

(* A closed run stays closed with the status it closed with (terminalTransition,
   appendHistory). *)
THEOREM TerminalIsFinal == Quiet => (Spec => TerminalFinal)
<1> SUFFICES ASSUME Quiet PROVE Spec => TerminalFinal
  BY Zenon
<1>1. RunInv /\ QuietInv /\ [Next]_vars => [isTerminal(row) => row'.st = row.st]_vars
  BY RowSteps
<1> QED BY <1>1, RunInvariant, QuietInvariant, PTL DEF Spec, TerminalFinal

(* No event that the row counts is overwritten, and HistoryLen never falls
   (appendHistory). *)
THEOREM HistoryIsAppendOnly == Quiet => (Spec => AppendOnly)
<1> SUFFICES ASSUME Quiet PROVE Spec => AppendOnly
  OBVIOUS
<1>1. RunInv /\ QuietInv /\ [Next]_vars =>
        [/\ row'.len >= row.len
         /\ \A i \in 1 .. row.len : hist'[i] = hist[i]]_vars
  BY RowSteps
<1> QED BY <1>1, RunInvariant, QuietInvariant, PTL DEF Spec, AppendOnly
=============================================================================
