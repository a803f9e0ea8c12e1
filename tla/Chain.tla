------------------------------- MODULE Chain -------------------------------
(***************************************************************************)
(* The runs of one workflow id (pkg/tasks: engine, engine_commands,        *)
(* retention; pkg/sdk/client/workflow): starts with a conflict policy and a*)
(* request id, continue-as-new, child starts, reset, the purge of expired  *)
(* runs, and a client that waits for a run and follows its chain.          *)
(*                                                                         *)
(* WorkflowRun has the inside of a run and the open index; here a run is   *)
(* its row and its history, there or not.  A start is several puts, taken  *)
(* by a thread one at a time: "client" serves a client's call, "server" a  *)
(* decider's command.  Crash stops both threads and the purge between two  *)
(* puts.                                                                   *)
(***************************************************************************)
EXTENDS Integers, FiniteSets, Sequences

CONSTANTS
  Runs,        \* run ids: random, compared as strings, so drawn in any order
  Requests,    \* request ids of idempotent starts
  MaxTime,     \* bound on the clock, which counts seconds
  Retention,   \* seconds a closed run is kept
  MaxCrashes   \* bound on crashes

ASSUME ChainAssumption ==
  /\ Runs \subseteq Nat \ {0} /\ IsFiniteSet(Runs) /\ "none" \notin Requests
  /\ MaxTime \in Nat /\ MaxCrashes \in Nat /\ Retention \in Nat \ {0}

VARIABLES
  now,         \* the clock
  row,         \* wf/: the rows; status "none" is no row
  logged,      \* wfh/: runs with a history
  idem,        \* idem/: the run a request started, or 0
  thread,      \* what each thread is in the middle of
  purging,     \* the run whose keys the purge deletes, and which are left
  recorded,    \* the parent's history has CHILD_WORKFLOW_EXECUTION_STARTED
  origin,      \* history: what made a run (by, "" while its id is not drawn), for
               \* which request, and the runs it continues or was reset from
  crashes,     \* crashes so far
  acked        \* history: runs returned to the client that asked for them

chainVars == <<now, row, logged, idem, thread, purging, recorded,
               origin, crashes, acked>>

Threads == {"client", "server"}
NoRun == [status |-> "none", start |-> 0, close |-> 0]
Rest == [pc |-> "idle", op |-> "none", run |-> 0, src |-> 0, read |-> NoRun, req |-> "none"]
Policies == {"", "USE_EXISTING", "TERMINATE_EXISTING", "FAIL"}

ChainInit ==
  /\ now = 0 /\ row = [r \in Runs |-> NoRun] /\ logged = {}
  /\ idem = [q \in Requests |-> 0] /\ thread = [t \in Threads |-> Rest]
  /\ purging = [run |-> 0, left |-> <<>>] /\ recorded = FALSE
  /\ origin = [r \in Runs |-> [by |-> "", from |-> {}, req |-> "none"]] /\ crashes = 0 /\ acked = {}

-----------------------------------------------------------------------------
(* Reading.  isTerminal; moreCurrentRun; DescribeWorkflow without a run id. *)
Exists(r) == row[r].status # "none"
Open(r) == row[r].status = "running"
isTerminalRow(w) == w.status \in {"closed", "continued"}

moreCurrentRunByTime(a, b) ==  \* mutant
  IF row[a].start # row[b].start THEN row[a].start > row[b].start ELSE a > b

moreCurrentRun(a, b) ==
  LET aTerm == isTerminalRow(row[a])     bTerm == isTerminalRow(row[b])
      aCan == row[a].status = "continued" bCan == row[b].status = "continued"
  IN IF aTerm # bTerm THEN ~aTerm
     ELSE IF aCan # bCan THEN ~aCan
     ELSE IF row[a].start # row[b].start THEN row[a].start > row[b].start
     ELSE a > b

(* The run DescribeWorkflow resolves an empty run id to, or 0: its scan keeps
   the most current run. *)
Current ==
  LET rows == {r \in Runs : Exists(r)}
  IN IF rows = {} THEN 0 ELSE CHOOSE r \in rows : \A o \in rows : ~moreCurrentRun(o, r)

ClosedRow(r, status) == [row[r] EXCEPT !.status = status, !.close = now]
Expired(r) == isTerminalRow(row[r]) /\ row[r].close + Retention <= now

-----------------------------------------------------------------------------
(* The end of a run: the decider completes it, a client terminates it.
   terminalTransition leaves a run alone that is closed already. *)
terminalTransition(r, status) ==
  /\ Open(r)
  /\ row' = [row EXCEPT ![r] = ClosedRow(r, status)]
  /\ UNCHANGED <<now, logged, idem, thread, purging, recorded, origin, crashes, acked>>

(* startWorkflowFull: the thread draws a run id and goes on with its puts. *)
Draw(t, op, src, q) ==
  \E r \in Runs :
    /\ origin[r].by = ""
    /\ origin' = [origin EXCEPT ![r] =
         [by |-> op, req |-> q, from |-> IF src = 0 THEN {} ELSE {src} \cup origin[src].from]]
    /\ thread' = [thread EXCEPT ![t] =
         [pc |-> "row", op |-> op, run |-> r, src |-> src, req |-> q,
          read |-> IF op = "reset" THEN row[src] ELSE NoRun]]

IdleThread(t) == thread[t].pc = "idle"
Live == Current # 0 /\ Open(Current)
Known(q) == IF q \in Requests THEN idem[q] # 0 /\ Exists(idem[q]) ELSE FALSE

(* resolveWorkflowIdConflict: an open run is returned, terminated or an error. *)
resolveWorkflowIdConflict(policy) ==
  \/ /\ ~Live \/ policy = ""
     /\ UNCHANGED row
  \/ /\ Live /\ policy = "TERMINATE_EXISTING"
     /\ row' = [row EXCEPT ![Current] = ClosedRow(Current, "closed")]

startWorkflowFull(t, op, q, policy) ==
  /\ IdleThread(t) /\ ~Known(q)
  /\ resolveWorkflowIdConflict(policy) /\ Draw(t, op, 0, q)
  /\ UNCHANGED <<now, logged, idem, purging, recorded, crashes, acked>>

(* lookupIdempotency: a start returns the run its request made before. *)
lookupIdempotency(q) ==
  /\ IdleThread("client") /\ Known(q)
  /\ acked' = acked \cup {idem[q]}
  /\ UNCHANGED <<now, row, logged, idem, thread, purging, recorded, origin, crashes>>

(* signalWithStartFull: a live run is signalled (WorkflowRun), else one starts. *)
signalWithStartFull(q) == ~Live /\ startWorkflowFull("client", "start", q, "")

(* applyContinueAsNew: the run is closed, and the successor started after it. *)
applyContinueAsNew(r) ==
  /\ IdleThread("server") /\ Open(r)
  /\ row' = [row EXCEPT ![r] = ClosedRow(r, "continued")]
  /\ Draw("server", "continue", r, "none")
  /\ UNCHANGED <<now, logged, idem, purging, recorded, crashes, acked>>

(* applyStartChild, of a parent under another workflow id: a no-op once its
   history has the start; else a start with USE_EXISTING, which may find the
   child running, and the event after it. *)
applyStartChild ==
  /\ ~recorded
  /\ startWorkflowFull("server", "child", "none", "USE_EXISTING")

ChildFound ==
  /\ IdleThread("server") /\ ~recorded /\ Live
  /\ recorded' = TRUE
  /\ UNCHANGED <<now, row, logged, idem, thread, purging, origin, crashes, acked>>

(* ResetWorkflow reads its source and makes a run from it; see ResetCloses. *)
ResetWorkflow(r) ==
  /\ IdleThread("client") /\ Exists(r)
  /\ Draw("client", "reset", r, "none")
  /\ UNCHANGED <<now, row, logged, idem, purging, recorded, crashes, acked>>

-----------------------------------------------------------------------------
(* The puts of a start, in order. *)
Goes(t, pc) == thread' = [thread EXCEPT ![t].pc = pc]

PutRow(t) ==
  /\ thread[t].pc = "row"
  /\ row' = [row EXCEPT ![thread[t].run] =
               [status |-> "running", start |-> now, close |-> 0]]
  /\ Goes(t, IF thread[t].req \in Requests THEN "idem" ELSE "event")
  /\ UNCHANGED <<now, logged, idem, purging, recorded, origin, crashes, acked>>

PutIdemForgotten(t) ==  \* mutant
  /\ thread[t].pc = "idem" /\ Goes(t, "event")
  /\ UNCHANGED <<now, row, logged, idem, purging, recorded, origin, crashes, acked>>

PutIdem(t) ==
  /\ thread[t].pc = "idem"
  /\ idem' = [idem EXCEPT ![thread[t].req] = thread[t].run] /\ Goes(t, "event")
  /\ UNCHANGED <<now, row, logged, purging, recorded, origin, crashes, acked>>

(* The first events and the first workflow task; the call returns, a child's
   start is recorded with its parent, a reset goes on with its source. *)
PutEvents(t) ==
  /\ thread[t].pc = "event"
  /\ logged' = logged \cup {thread[t].run}
  /\ recorded' = (recorded \/ thread[t].op = "child")
  /\ IF thread[t].op = "reset" THEN Goes(t, "close") /\ UNCHANGED acked
     ELSE /\ thread' = [thread EXCEPT ![t] = Rest]
          /\ acked' = IF t = "client" THEN acked \cup {thread[t].run} ELSE acked
  /\ UNCHANGED <<now, row, idem, purging, origin, crashes>>

(* ResetWorkflow closes its source, whatever became of it meanwhile: the row
   it read is put back as TERMINATED. *)
ResetCloses(t) ==
  /\ thread[t].pc = "close"
  /\ row' = [row EXCEPT ![thread[t].src] =
               [thread[t].read EXCEPT !.status = "closed", !.close = now]]
  /\ thread' = [thread EXCEPT ![t] = Rest]
  /\ UNCHANGED <<now, logged, idem, purging, recorded, origin, crashes, acked>>

-----------------------------------------------------------------------------
(* The purge.  purgeWorkflowRun re-reads the row under the run's lock and
   deletes the run's keys, the row last. *)
PurgeRowFirst == <<"row", "history", "idem">>  \* mutant
PurgeKeys == <<"history", "idem", "row">>

purgeWorkflowRun(r) ==
  /\ purging.run = 0 /\ Expired(r)
  /\ purging' = [run |-> r, left |-> PurgeKeys]
  /\ UNCHANGED <<now, row, logged, idem, thread, recorded, origin, crashes, acked>>

IdemWithout(r) == [q \in Requests |-> IF idem[q] = r THEN 0 ELSE idem[q]]

delAll ==
  LET r == purging.run     k == Head(purging.left)
  IN /\ r # 0
     /\ logged' = IF k = "history" THEN logged \ {r} ELSE logged
     /\ idem' = IF k = "idem" THEN IdemWithout(r) ELSE idem
     /\ row' = IF k = "row" THEN [row EXCEPT ![r] = NoRun] ELSE row
     /\ purging' = IF Len(purging.left) = 1 THEN [run |-> 0, left |-> <<>>]
                   ELSE [purging EXCEPT !.left = Tail(@)]
     /\ UNCHANGED <<now, thread, recorded, origin, crashes, acked>>

(* The retention is long compared with a call: the clock that expires a run
   stands still while a start is in progress. *)
Tick ==
  /\ now < MaxTime /\ \A t \in Threads : IdleThread(t)
  /\ now' = now + 1
  /\ UNCHANGED <<row, logged, idem, thread, purging, recorded, origin, crashes, acked>>

Crash ==
  /\ crashes < MaxCrashes /\ crashes' = crashes + 1
  /\ thread' = [t \in Threads |-> Rest] /\ purging' = [run |-> 0, left |-> <<>>]
  /\ thread # thread' \/ purging # purging'
  /\ UNCHANGED <<now, row, logged, idem, recorded, origin, acked>>

-----------------------------------------------------------------------------
(* A poll of WorkflowRun.Get asks for run r, or for the current one when r is 0:
   a run that is gone is an error, a closed run the answer, and the client polls
   on at a running one and after CONTINUED_AS_NEW, from then on with r = 0. *)
Poll(r) ==
  LET d == IF r # 0 THEN r ELSE Current
  IN CASE d = 0 -> [is |-> "error", run |-> 0]
       [] d # 0 /\ ~Exists(d) -> [is |-> "error", run |-> d]
       [] d # 0 /\ row[d].status = "continued" -> [is |-> "follow", run |-> 0]
       [] d # 0 /\ row[d].status = "running" -> [is |-> "poll", run |-> r]
       [] d # 0 /\ row[d].status = "closed" -> [is |-> "answer", run |-> d]

ChainNext ==
  \/ \E r \in Runs : terminalTransition(r, "closed")
  \/ \E q \in Requests \cup {"none"}, p \in Policies : startWorkflowFull("client", "start", q, p)
  \/ \E q \in Requests : lookupIdempotency(q) \/ signalWithStartFull(q)
  \/ \E r \in Runs : applyContinueAsNew(r) \/ ResetWorkflow(r) \/ purgeWorkflowRun(r)
  \/ applyStartChild \/ ChildFound
  \/ \E t \in Threads : PutRow(t) \/ PutIdem(t) \/ PutEvents(t) \/ ResetCloses(t)
  \/ delAll \/ Tick \/ Crash

ChainSpec == ChainInit /\ [][ChainNext]_chainVars

-----------------------------------------------------------------------------
(* Whatever is cut short, what is left of a run can be found by its row: no
   history and no idempotency key is without the row of its run, which a start
   puts first and the purge deletes last. *)
NoOrphans ==
  /\ \A r \in logged : Exists(r)
  /\ \A q \in Requests : idem[q] # 0 => Exists(idem[q])

(* A request starts one run: whatever is retried, closed, purged or crashes,
   two runs that were returned for one request id do not both exist, as long
   as neither is expired, or the source of a reset. *)
WasReset(r) == \E s \in Runs : origin[s].by = "reset" /\ r \in origin[s].from

Held(r) ==
  /\ r \in acked /\ origin[r].req \in Requests /\ Exists(r) /\ ~Expired(r)
  /\ ~WasReset(r)

RequestOnce ==
  \A r, s \in Runs : Held(r) /\ Held(s) /\ origin[r].req = origin[s].req => r = s

WasContinued(r) == \E s \in Runs : origin[s].by = "continue" /\ r \in origin[s].from

(* When a workflow id is used for one chain only, started once and never reset, a
   poll after a continue-as-new is answered exactly when the last run of the chain
   is closed, and by that run: however the poll falls between the close of a run
   and the start of its successor, whichever runs share a second, and whatever
   crashes or is purged. *)
OneChain ==
  /\ \A r \in Runs : origin[r].by # "reset"
  /\ \E first \in Runs : {r \in Runs : origin[r].by \in {"start", "child"}} = {first}

ChainResolves ==
  OneChain =>
    \A t \in Runs :
      origin[t].by # "" /\ ~WasContinued(t)
      => (Poll(0).is = "answer" \/ row[t].status = "closed"
          => Poll(0) = [is |-> "answer", run |-> t])

-----------------------------------------------------------------------------
(* The inductive form.  A run that is not drawn, or has no row yet, is nowhere. *)
RunRows == [status : {"none", "running", "closed", "continued"}, start : Nat, close : Nat]

ChainTypeOK ==
  /\ now \in Nat /\ crashes \in Nat /\ recorded \in BOOLEAN
  /\ row \in [Runs -> RunRows] /\ logged \subseteq Runs /\ acked \subseteq Runs
  /\ idem \in [Requests -> Runs \cup {0}]
  /\ thread \in [Threads ->
       [pc : {"idle", "row", "idem", "event", "close"},
        op : {"none", "start", "child", "continue", "reset"}, run : Runs \cup {0},
        src : Runs \cup {0}, read : RunRows, req : Requests \cup {"none"}]]
  /\ purging \in [run : Runs \cup {0},
                  left : {<<>>, <<"row">>, <<"idem", "row">>, <<"history", "idem", "row">>}]
  /\ origin \in [Runs -> [by : {"", "start", "child", "continue", "reset"},
                          from : SUBSET Runs, req : Requests \cup {"none"}]]

Drawn(r) == origin[r].by # ""
Fresh(r) ==
  /\ ~Exists(r) /\ r \notin logged /\ r \notin acked
  /\ \A q \in Requests : idem[q] # r
  /\ \A s \in Runs : r \notin origin[s].from

(* A thread inside a start has a run of its own, which is not there before its row
   is put and cannot expire before the last put. *)
StartHeld(t) ==
  LET j == thread[t]
  IN IF j.pc = "idle" THEN j.run = 0
     ELSE /\ j.run # 0 /\ j.run # purging.run
          /\ \A u \in Threads \ {t} : thread[u].run # j.run
          /\ origin[j.run].by = j.op /\ origin[j.run].req = j.req /\ j.op # "none"
          /\ j.op = "reset" => j.src \in origin[j.run].from
          /\ j.pc = "close" => j.op = "reset"
          /\ IF j.pc = "row" THEN Fresh(j.run)
             ELSE Exists(j.run) /\ (isTerminalRow(row[j.run]) => row[j.run].close = now)

(* A request in progress: nothing that is held was made for it, until its key is put. *)
RequestHeld(t) ==
  LET j == thread[t]
  IN j.pc # "idle" /\ j.req \in Requests =>
     /\ t = "client"
     /\ j.pc \in {"row", "idem"} => \A r \in Runs : Held(r) => origin[r].req # j.req
     /\ j.pc = "event" => idem[j.req] = j.run

(* The keys of requests, and the keys a purge has left. *)
KeysHeld ==
  /\ \A r \in Runs : ~Drawn(r) => Fresh(r)
  /\ \A q \in Requests : idem[q] # 0 => origin[idem[q]].req = q
  /\ \A r \in Runs : Held(r) => idem[origin[r].req] = r
  /\ \A t \in Threads : thread[t].pc = "idem" => thread[t].req \in Requests

PurgeHeld ==
  IF purging.run = 0 THEN purging.left = <<>>
  ELSE LET r == purging.run
       IN /\ purging.left # <<>> /\ Drawn(r) /\ isTerminalRow(row[r])
          /\ Expired(r) \/ WasReset(r)
          /\ purging.left # PurgeKeys => r \notin logged
          /\ purging.left = <<"row">> => \A q \in Requests : idem[q] # r

(* A run that was continued is never the answer; a chain has no branches. *)
NoReset == \A r \in Runs : origin[r].by # "reset"
LinksHeld ==
  /\ \A r \in Runs : origin[r].from # {} => origin[r].by \in {"continue", "reset"}
  /\ (\E r \in Runs : Drawn(r)) => \E r \in Runs : origin[r].by \in {"start", "child"}
  /\ NoReset => \A r \in Runs : WasContinued(r) => row[r].status \in {"continued", "none"}
  /\ OneChain => \A r, s \in Runs : Drawn(r) /\ Drawn(s) =>
                    r = s \/ r \in origin[s].from \/ s \in origin[r].from

ChainInv ==
  /\ ChainTypeOK /\ NoOrphans /\ KeysHeld /\ PurgeHeld /\ LinksHeld
  /\ \A t \in Threads : StartHeld(t) /\ RequestHeld(t)

=============================================================================
