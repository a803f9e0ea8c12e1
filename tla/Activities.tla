----------------------------- MODULE Activities -----------------------------
(***************************************************************************)
(* Standalone activities (pkg/tasks/activities.go): jobs that workers pull *)
(* with a claim under a lease, keep with heartbeats and settle; a reaper   *)
(* returns the jobs of silent workers to the queue.                        *)
(*                                                                         *)
(* A job's row is read and put by separate store statements, and only      *)
(* claims and the sweeper take a lock: each get and put is a step, and     *)
(* every call ends with appendActivityHistory, which reads the row and     *)
(* puts it once more.  The history itself is left out.                     *)
(*                                                                         *)
(* The time left of a lease is kept relative: Tick takes one unit off every *)
(* lease of a job, in the store and in the copies that calls hold.         *)
(***************************************************************************)
EXTENDS Integers, FiniteSets, FiniteSetsExt

CONSTANTS
  Workers,      \* processes that pull jobs
  Clients,      \* callers that start and cancel jobs
  Sweeper,      \* the goroutine of runScheduler
  Requests,     \* request ids of StartActivity
  MaxRuns,      \* bound: jobs started
  MaxAttempts,  \* RetryPolicy.MaximumAttempts of the jobs, 0 for no limit
  TTL,          \* length of a lease
  Races,        \* what the callers do not rule out: "client", "lapse"
  MaxDeaths,    \* bound: workers that die
  MaxCrashes,   \* bound: stops of the engine's process
  None          \* no worker, no request

ASSUME NumberAssumption ==
  MaxRuns \in Nat /\ MaxAttempts \in Nat /\ TTL \in Nat \ {0} /\ MaxDeaths \in Nat /\ MaxCrashes \in Nat

ASSUME CallersAssumption ==
  /\ None \notin Workers \cup Clients \cup {Sweeper} /\ Sweeper \notin Workers \cup Clients
  /\ Workers \cap Clients = {}

VARIABLES
  row,     \* act/<ns>/<id>/<run>
  idem,    \* aidem/<ns>/<id>/<request>: the job a request started, 0 for none
  lock,    \* the claim lock of the namespace
  op,      \* per caller, its call in progress
  job,     \* per worker, the job it works on, 0 for none
  alive,   \* per worker
  crashes  \* stops so far

vars == <<row, idem, lock, op, job, alive, crashes>>

Jobs == 1 .. MaxRuns                  \* numbered in the order they were started
Callers == Workers \cup Clients \cup {Sweeper}
Final == {"completed", "failed", "canceled"}
NoLease == -1

Row == [st : {"none", "scheduled", "started"} \cup Final, att : Nat,
        holder : Workers \cup {None}, lease : NoLease .. TTL]
NoRow == [st |-> "none", att |-> 0, holder |-> None, lease |-> NoLease]
NewRow == [st |-> "scheduled", att |-> 1, holder |-> None, lease |-> NoLease]

(* A call: where it stands, the job and the copy of its row, what comes after
   the append, and for a reap the rows it listed and the jobs still to visit. *)
Idle == [pc |-> "idle", act |-> 0, copy |-> NoRow, then |-> "return", req |-> None,
         seen |-> [a \in Jobs |-> NoRow], todo |-> {}]

Init ==
  /\ row = [a \in Jobs |-> NoRow] /\ idem = [r \in Requests |-> 0]
  /\ lock = None /\ op = [t \in Callers |-> Idle]
  /\ job = [w \in Workers |-> 0] /\ alive = [w \in Workers |-> TRUE] /\ crashes = 0

-----------------------------------------------------------------------------
Started == {a \in Jobs : row[a].st # "none" \/ \E t \in Callers : op[t].act = a}
isActivityTerminalNever(r) == FALSE                             \* mutant
isActivityTerminal(r) == r.st \in Final

(* A caller may begin a call.  Unless Races says otherwise, what clients do is
   over before a worker's call or a sweep begins, and the other way round. *)
MayCall(t) ==
  /\ op[t] = Idle
  /\ "client" \notin Races =>
       \A u \in Callers : op[u] = Idle \/ (t \notin Clients /\ u \notin Clients)
MayWork(w) == MayCall(w) /\ alive[w]

Write(t, a, copy, then) ==
  op' = [op EXCEPT ![t] = [@ EXCEPT !.pc = "put", !.act = a, !.copy = copy, !.then = then]]

(* StartActivity: a request that was seen before starts nothing. *)
StartActivity(c, r) ==
  /\ MayCall(c) /\ idem[r] = 0
  /\ \E a \in Jobs :
       /\ Started = 1 .. (a - 1)
       /\ op' = [op EXCEPT ![c] = [Idle EXCEPT !.pc = "put", !.act = a, !.copy = NewRow,
                                               !.req = r, !.then = "idem"]]
  /\ UNCHANGED <<row, idem, lock, job, alive, crashes>>

PutIdem(c) ==
  /\ op[c].pc = "idem"
  /\ idem' = [idem EXCEPT ![op[c].req] = op[c].act]
  /\ op' = [op EXCEPT ![c] = [@ EXCEPT !.pc = "append"]]
  /\ UNCHANGED <<row, lock, job, alive, crashes>>

(* HeartbeatActivity of the job a worker holds; a job that is closed is let go. *)
HeartbeatRow(r) ==
  [r EXCEPT !.st = "started", !.lease = IF @ = NoLease THEN NoLease ELSE TTL]

HeartbeatActivity(w) ==
  /\ MayWork(w) /\ job[w] # 0
  /\ IF isActivityTerminal(row[job[w]])
       THEN job' = [job EXCEPT ![w] = 0] /\ UNCHANGED op
       ELSE Write(w, job[w], HeartbeatRow(row[job[w]]), "return") /\ UNCHANGED job
  /\ UNCHANGED <<row, idem, lock, alive, crashes>>

(* CompleteActivity and FailActivity of the job a worker holds. *)
Close(r, status) == [r EXCEPT !.st = status]

Settle(w, status) ==
  /\ MayWork(w) /\ job[w] # 0
  /\ IF isActivityTerminal(row[job[w]])
       THEN job' = [job EXCEPT ![w] = 0] /\ UNCHANGED op
       ELSE Write(w, job[w], Close(row[job[w]], status), "settled") /\ UNCHANGED job
  /\ UNCHANGED <<row, idem, lock, alive, crashes>>

CancelActivity(c, a) ==
  /\ MayCall(c) /\ row[a].st # "none" /\ ~isActivityTerminal(row[a])
  /\ Write(c, a, Close(row[a], "canceled"), "return")
  /\ UNCHANGED <<row, idem, lock, job, alive, crashes>>

-----------------------------------------------------------------------------
(* ClaimNextActivity and sweepLeases take the claim lock and reap first. *)
AcquireAlways(t) == lock' = t                                   \* mutant
Acquire(t) == lock = None /\ lock' = t

List(t) ==
  /\ Acquire(t)
  /\ op' = [op EXCEPT ![t] = [Idle EXCEPT !.pc = "listed", !.seen = row]]
  /\ UNCHANGED <<row, idem, job, alive, crashes>>

ClaimNextActivity(w) == MayWork(w) /\ job[w] = 0 /\ List(w)
sweepLeases == MayCall(Sweeper) /\ List(Sweeper)

(* reapExpiredLeases: the expiry is judged by a clock read after the list. *)
ExpiredNever(r) == FALSE                                        \* mutant
Expired(r) == r.st = "started" /\ r.lease = 0

Judge(t) ==
  /\ op[t].pc = "listed"
  /\ op' = [op EXCEPT ![t] = [@ EXCEPT !.pc = "reap", !.todo = {a \in Jobs : Expired(op[t].seen[a])}]]
  /\ UNCHANGED <<row, idem, lock, job, alive, crashes>>

ExhaustedOneLater(r) == MaxAttempts > 0 /\ r.att > MaxAttempts  \* mutant
Exhausted(r) == MaxAttempts > 0 /\ r.att >= MaxAttempts
Requeued(r) == [r EXCEPT !.st = "scheduled", !.att = @ + 1, !.holder = None, !.lease = NoLease]

(* One expired job: requeued from the row as it was listed, or failed from the
   row as it is (FailActivity; an error of it is ignored). *)
Reap(t) ==
  /\ op[t].pc = "reap" /\ op[t].todo # {}
  /\ LET a == Min(op[t].todo)
         rest == [op[t] EXCEPT !.todo = @ \ {a}, !.seen[a] = NoRow]
         copy == IF Exhausted(op[t].seen[a]) THEN Close(row[a], "failed")
                 ELSE Requeued(op[t].seen[a])
     IN op' = [op EXCEPT ![t] =
                 IF Exhausted(op[t].seen[a]) /\ isActivityTerminal(row[a]) THEN rest
                 ELSE [rest EXCEPT !.pc = "put", !.act = a, !.copy = copy, !.then = "reap"]]
  /\ UNCHANGED <<row, idem, lock, job, alive, crashes>>

(* After the reap a claim lists again and takes the oldest scheduled job; a
   sweep, or a claim that finds none, is over. *)
Queue == {a \in Jobs : row[a].st = "scheduled"}
Claimed(r, w) == [r EXCEPT !.st = "started", !.holder = w, !.lease = TTL]

Take(w) ==
  /\ op[w].pc = "reap" /\ op[w].todo = {} /\ w \in Workers /\ Queue # {}
  /\ op' = [op EXCEPT ![w] = [Idle EXCEPT !.pc = "put", !.act = Min(Queue),
                                          !.copy = Claimed(row[Min(Queue)], w), !.then = "claimed"]]
  /\ UNCHANGED <<row, idem, lock, job, alive, crashes>>

Leave(t) ==
  /\ op[t].pc = "reap" /\ op[t].todo = {} /\ (t \in Workers => Queue = {})
  /\ op' = [op EXCEPT ![t] = Idle] /\ lock' = None
  /\ UNCHANGED <<row, idem, job, alive, crashes>>

-----------------------------------------------------------------------------
(* The put of a row, then appendActivityHistory: get, put the event, put. *)
Put(t) ==
  /\ op[t].pc = "put"
  /\ row' = [row EXCEPT ![op[t].act] = op[t].copy]
  /\ op' = [op EXCEPT ![t] = [@ EXCEPT !.pc = IF op[t].then = "idem" THEN "idem" ELSE "append",
                                       !.copy = NoRow]]
  /\ UNCHANGED <<idem, lock, job, alive, crashes>>

AppendGet(t) ==
  /\ op[t].pc = "append"
  /\ op' = [op EXCEPT ![t] = [@ EXCEPT !.pc = "append_put", !.copy = row[op[t].act]]]
  /\ UNCHANGED <<row, idem, lock, job, alive, crashes>>

(* The append ends the call, or the turn of the reap. *)
AppendPut(t) ==
  /\ op[t].pc = "append_put"
  /\ row' = [row EXCEPT ![op[t].act] = op[t].copy]
  /\ op' = [op EXCEPT ![t] = IF @.then = "reap"
                               THEN [@ EXCEPT !.pc = "reap", !.act = 0, !.copy = NoRow, !.then = "return"]
                               ELSE Idle]
  /\ job' = IF op[t].then = "claimed" THEN [job EXCEPT ![t] = op[t].act]
            ELSE IF op[t].then = "settled" THEN [job EXCEPT ![t] = 0]
            ELSE job
  /\ lock' = IF op[t].then = "claimed" THEN None ELSE lock
  /\ UNCHANGED <<idem, alive, crashes>>

-----------------------------------------------------------------------------
(* A worker dies; the call it had sent still runs. *)
Die(w) ==
  /\ alive[w] /\ Cardinality({v \in Workers : ~alive[v]}) < MaxDeaths
  /\ alive' = [alive EXCEPT ![w] = FALSE]
  /\ UNCHANGED <<row, idem, lock, op, job, crashes>>

(* The engine's process stops and starts again: calls and the lock are gone. *)
Crash ==
  /\ crashes < MaxCrashes /\ \E t \in Callers : op[t] # Idle
  /\ crashes' = crashes + 1
  /\ op' = [t \in Callers |-> Idle] /\ lock' = None
  /\ UNCHANGED <<row, idem, job, alive>>

(* Time passes for the leases of job a.  Unless Races has "lapse", only a job
   that no living worker holds and no call is about: workers that live send
   their heartbeats in time, and calls are short against a lease. *)
Age(r) == [r EXCEPT !.lease = IF @ > 0 THEN @ - 1 ELSE @]

Tick(a) ==
  /\ row[a].lease > 0 \/ \E t \in Callers : op[t].seen[a].lease > 0
  /\ "lapse" \notin Races =>
       /\ \A w \in Workers : job[w] = a => ~alive[w]
       /\ \A t \in Callers : op[t].act # a /\ op[t].pc # "listed"
  /\ row' = [row EXCEPT ![a] = Age(@)]
  /\ op' = [t \in Callers |-> [op[t] EXCEPT !.seen[a] = Age(@),
                                            !.copy = IF op[t].act = a THEN Age(@) ELSE @]]
  /\ UNCHANGED <<idem, lock, job, alive, crashes>>

Step(t) ==
  \/ Judge(t) \/ Reap(t) \/ Take(t) \/ Leave(t)
  \/ Put(t) \/ PutIdem(t) \/ AppendGet(t) \/ AppendPut(t)

Next ==
  \/ sweepLeases \/ Crash
  \/ \E t \in Callers : Step(t)
  \/ \E a \in Jobs : Tick(a)
  \/ \E c \in Clients : \/ \E r \in Requests : StartActivity(c, r)
                        \/ \E a \in Jobs : CancelActivity(c, a)
  \/ \E w \in Workers : \/ ClaimNextActivity(w) \/ HeartbeatActivity(w) \/ Die(w)
                        \/ \E status \in {"completed", "failed"} : Settle(w, status)

Spec == Init /\ [][Next]_vars

(* Calls run to their end and time passes; the workers that live keep polling,
   and settle what they hold however often they send heartbeats.  The claim
   lock is a Go mutex: whoever waits for it gets it.  Of the sweeper nothing is
   assumed: claims reap too. *)
Fairness ==
  /\ \A t \in Callers : WF_vars(Step(t))
  /\ SF_vars(\E a \in Jobs : Tick(a))
  /\ SF_vars(\E w \in Workers : ClaimNextActivity(w))
  /\ SF_vars(\E w \in Workers, status \in {"completed", "failed"} : Settle(w, status))
FairSpec == Spec /\ Fairness

-----------------------------------------------------------------------------
Call == [pc : {"idle", "put", "idem", "listed", "reap", "append", "append_put"}, act : 0 .. MaxRuns,
         copy : Row, then : {"return", "idem", "settled", "claimed", "reap"}, req : Requests \cup {None},
         seen : [Jobs -> Row], todo : SUBSET Jobs]

(* A call that holds the claim lock. *)
Locking(c) == c.pc \in {"listed", "reap"} \/ c.then \in {"reap", "claimed"}

(* Every variable keeps its type, a call that writes writes the row of a job, and the
   claim lock is held by the caller whose claim or sweep is in progress and by nobody
   else. *)
TypeOK ==
  /\ row \in [Jobs -> Row] /\ idem \in [Requests -> 0 .. MaxRuns]
  /\ job \in [Workers -> 0 .. MaxRuns] /\ alive \in [Workers -> BOOLEAN]
  /\ lock \in {None, Sweeper} \cup Workers /\ crashes \in 0 .. MaxCrashes
  /\ op \in [Callers -> Call]
  /\ \A t \in Callers :
       /\ op[t].pc \in {"put", "idem", "append", "append_put"} => op[t].act \in Jobs
       /\ Locking(op[t]) <=> lock = t

(* "no two ever claim the same activity" (ClaimNextActivity): two living
   workers never work on one job. *)
OneHolder ==
  \A v, w \in Workers : v # w /\ alive[v] /\ alive[w] /\ job[v] # 0 => job[v] # job[w]

(* The attempts of a job stay within its retry policy however often its lease
   lapses and whichever copies of its row are written back
   (reapExpiredLeases). *)
AttemptsBounded ==
  \A a \in Jobs : MaxAttempts > 0 => row[a].att <= MaxAttempts

(* The inductive form: so do the copies that calls hold. *)
Within(r) == MaxAttempts > 0 => r.att <= MaxAttempts
AttemptsInv ==
  /\ TypeOK /\ \A a \in Jobs : Within(row[a])
  /\ \A t \in Callers : Within(op[t].copy) /\ \A a \in Jobs : Within(op[t].seen[a])

(* A closed job stays closed, as it was closed: neither a heartbeat, a second
   answer, a reap nor the row put by an append opens it again. *)
StaysClosed ==
  [][\A a \in Jobs : row[a].st \in Final => row'[a].st = row[a].st]_vars

(* Every job is closed in the end, whichever workers die or lose the reply to
   their claim, as long as one worker lives: the reaper finds every job that
   is left behind. *)
JobsClose ==
  \A a \in Jobs : row[a].st # "none" ~> row[a].st \in Final

(* The inductive form of OneHolder and StaysClosed when Races is empty.  A job that a
   worker works on is not in the queue and has its whole lease: no reap finds it.  A
   call that is to put a row found the job open, and the row is still what it read. *)
AtWork(w) == job[w] # 0 /\ (alive[w] \/ op[w].act = job[w])
HeldRow(r, w) == r.st \in Final \cup {"started"} /\ r.holder = w /\ r.lease = TTL
HolderOK == \A w \in Workers : AtWork(w) => HeldRow(row[job[w]], w)

ClientsAlone == \A c \in Clients, t \in Callers : op[c] # Idle /\ t # c => op[t] = Idle

PutOK(t, c, r) ==
  /\ r.st \notin Final
  /\ c.then = "idem" => r.st = "none"
  /\ c.then \in {"return", "settled"} =>
       /\ c.copy.st \in Final \cup {"started"}
       /\ c.copy.holder = r.holder /\ c.copy.lease = r.lease
  /\ c.then = "claimed" => r.st = "scheduled" /\ c.copy.st = "started" /\ HeldRow(c.copy, t)
  /\ c.then = "reap" => c.copy.lease # TTL

WriterOK(t, c, r, j) ==
  /\ c.then = "idem" => t \in Clients
  /\ c.then = "return" => t \in Clients \cup Workers
  /\ c.then = "settled" => t \in Workers
  /\ c.then \in {"return", "settled"} /\ t \in Workers => j = c.act
  /\ c.then = "reap" => r.lease # TTL
  /\ c.then = "claimed" => t \in Workers /\ (c.pc # "put" => HeldRow(r, t))
  /\ c.pc = "put" => PutOK(t, c, r)
  /\ c.pc = "append_put" => c.copy = r

CallerOK(t, c, rows, j) ==
  /\ c.pc = "idle" => c = Idle
  /\ c.act # 0 <=> c.pc \in {"put", "idem", "append", "append_put"}
  /\ c.act # 0 => WriterOK(t, c, rows[c.act], j)
  /\ c.pc = "listed" => \A a \in Jobs : Expired(c.seen[a]) => Expired(rows[a])
  /\ c.pc = "reap" \/ c.then = "reap" => \A a \in c.todo : Expired(rows[a])
  /\ c.act \notin c.todo
  /\ t \in Workers /\ Locking(c) => j = 0

LeaseInv == HolderOK /\ ClientsAlone /\ \A t \in Callers : CallerOK(t, op[t], row, job[t])
=============================================================================
