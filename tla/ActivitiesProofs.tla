-------------------------- MODULE ActivitiesProofs --------------------------
(***************************************************************************)
(* Standalone activities: proofs about Activities for any workers,         *)
(* clients, jobs and lease.  The first part holds whatever the callers     *)
(* race with; the second when Races is empty.                              *)
(***************************************************************************)
EXTENDS Activities, WellFoundedInduction, TLAPS

-----------------------------------------------------------------------------
(* The attempts of a job, and the claim lock. *)
-----------------------------------------------------------------------------

(* The order of the numbers. *)
Less == {p \in Nat \X Nat : p[1] < p[2]}

(* A set of numbers that is not empty has a smallest one. *)
LEMMA Smallest == ASSUME NEW S \in SUBSET Nat, S # {} PROVE \E x \in S : \A y \in S : x <= y
<1>1. IsWellFoundedOn(Less, Nat)
  BY NatLessThanWellFounded DEF OpToRel, Less
<1>2. PICK x \in S : \A y \in S : ~(<<y, x>> \in Less)
  BY Zenon, <1>1, WFMin
<1>3. \A y \in S : ~(y < x)
  BY Zenon, <1>2 DEF Less
<1> QED
  BY <1>3

(* A set of jobs that is not empty has an oldest one: what reapExpiredLeases and
   ClaimNextActivity pick first. *)
LEMMA OldestJob == ASSUME NEW S \in SUBSET Jobs, S # {} PROVE Min(S) \in S
<1>1. S \in SUBSET Nat
  BY NumberAssumption DEF Jobs
<1>2. \E x \in S : \A y \in S : x <= y
  BY <1>1, Smallest
<1> QED
  BY <1>2, Zenon DEF Min

(* What the invariant says of one call, beside its lock. *)
CallOK(c) ==
  /\ c \in Call /\ Within(c.copy) /\ \A a \in Jobs : Within(c.seen[a])
  /\ c.pc \in {"put", "idem", "append", "append_put"} => c.act \in Jobs

RowsOK == row \in [Jobs -> Row] /\ \A a \in Jobs : Within(row[a])

RestOK ==
  /\ idem \in [Requests -> 0 .. MaxRuns] /\ job \in [Workers -> 0 .. MaxRuns]
  /\ alive \in [Workers -> BOOLEAN] /\ crashes \in 0 .. MaxCrashes

LocksOK ==
  /\ lock \in {None, Sweeper} \cup Workers
  /\ \A t \in Callers : Locking(op[t]) <=> lock = t

CallsOK == op \in [Callers -> Call] /\ \A t \in Callers : CallOK(op[t])

(* The invariant falls into four parts: the rows, the remaining variables, the claim
   lock, and the calls in progress. *)
LEMMA Parts == AttemptsInv <=> RowsOK /\ RestOK /\ LocksOK /\ CallsOK
BY DEF AttemptsInv, TypeOK, RowsOK, RestOK, LocksOK, CallsOK, CallOK

-----------------------------------------------------------------------------
(* The empty row and the row StartActivity writes are rows within the policy. *)
LEMMA NewRows == /\ NoRow \in Row /\ Within(NoRow) /\ NewRow \in Row /\ Within(NewRow)
                 /\ NoRow.lease = NoLease
<1>1. NoLease \in NoLease .. TTL /\ NoLease = -1
  BY NumberAssumption DEF NoLease
<1>2. NoRow \in Row /\ NewRow \in Row
  BY <1>1 DEF NoRow, NewRow, Row
<1> QED
  BY <1>2, NumberAssumption DEF NoRow, NewRow, Within

(* Every change of a row keeps its type and, but for a requeue, its attempts; a requeue
   of a job whose attempts are not exhausted stays within them. *)
LEMMA RowChanges ==
  ASSUME NEW r \in Row, Within(r)
  PROVE  /\ HeartbeatRow(r) \in Row /\ Within(HeartbeatRow(r))
         /\ \A s \in Final : Close(r, s) \in Row /\ Within(Close(r, s))
         /\ \A w \in Workers : Claimed(r, w) \in Row /\ Within(Claimed(r, w))
         /\ Age(r) \in Row /\ Within(Age(r))
         /\ ~Exhausted(r) => Requeued(r) \in Row /\ Within(Requeued(r))
<1>1. TTL \in NoLease .. TTL /\ NoLease \in NoLease .. TTL
  BY NumberAssumption DEF NoLease
<1>2. HeartbeatRow(r) \in Row /\ HeartbeatRow(r).att = r.att
  BY Zenon, <1>1 DEF HeartbeatRow, Row
<1>3. \A s \in Final : Close(r, s) \in Row /\ Close(r, s).att = r.att
  BY DEF Close, Row
<1>4. \A w \in Workers : Claimed(r, w) \in Row /\ Claimed(r, w).att = r.att
  BY Zenon, <1>1 DEF Claimed, Row
<1>5. Age(r) \in Row /\ Age(r).att = r.att
  <2>1. r.lease \in NoLease .. TTL
    BY DEF Row
  <2>2. (IF r.lease > 0 THEN r.lease - 1 ELSE r.lease) \in NoLease .. TTL
    BY <2>1, NumberAssumption DEF NoLease
  <2> QED
    BY <2>2 DEF Age, Row
<1>6. Requeued(r) \in Row /\ Requeued(r).att = r.att + 1 /\ r.att \in Nat
  <2>1. r.att \in Nat
    BY DEF Row
  <2>2. PICK n \in Nat : n = r.att + 1
    BY <2>1
  <2>3. Requeued(r) = [r EXCEPT !.st = "scheduled", !.att = n, !.holder = None, !.lease = NoLease]
    BY <2>2 DEF Requeued
  <2> QED
    BY Zenon, <1>1, <2>1, <2>2, <2>3 DEF Row
<1>7. ~Exhausted(r) => Within(Requeued(r))
  <2>1. MaxAttempts > 0 /\ ~Exhausted(r) => r.att + 1 <= MaxAttempts
    BY <1>6, NumberAssumption DEF Exhausted
  <2> QED
    BY <1>6, <2>1 DEF Within
<1> QED
  BY <1>2, <1>3, <1>4, <1>5, <1>6, <1>7 DEF Within

-----------------------------------------------------------------------------
(* A caller between two calls holds no lock and no copy of a row. *)
LEMMA IdleCall == /\ CallOK(Idle) /\ ~Locking(Idle) /\ Idle.pc = "idle" /\ Idle.act = 0
                  /\ Idle.seen = [a \in Jobs |-> NoRow] /\ Idle.copy = NoRow
<1>1. [a \in Jobs |-> NoRow] \in [Jobs -> Row] /\ 0 \in 0 .. MaxRuns
  BY NewRows, NumberAssumption
<1>2. Idle \in Call
  BY <1>1, NewRows DEF Idle, Call
<1> QED
  BY <1>2, NewRows DEF Idle, CallOK, Locking

(* A step of one call that leaves it in order, and takes, keeps or returns the claim
   lock with it, keeps the invariant. *)
LEMMA CallStep ==
  ASSUME AttemptsInv, RowsOK', RestOK', NEW t \in Callers, NEW c, CallOK(c),
         op' = [op EXCEPT ![t] = c], Locking(c) <=> lock' = t,
         \/ lock' = lock
         \/ lock = None /\ lock' = t /\ t \in {Sweeper} \cup Workers
         \/ lock = t /\ lock' = None
  PROVE  AttemptsInv'
<1>1. op \in [Callers -> Call] /\ \A u \in Callers : CallOK(op[u])
  BY Parts DEF CallsOK
<1>2. \A u \in Callers : op'[u] = IF u = t THEN c ELSE op[u]
  BY <1>1
<1>3. CallsOK'
  BY <1>1, <1>2 DEF CallsOK, CallOK
<1>4. LocksOK'
  <2>1. lock' \in {None, Sweeper} \cup Workers
    BY Parts DEF LocksOK
  <2>2. ASSUME NEW u \in Callers PROVE Locking(op[u])' <=> lock' = u
    <3>1. Locking(op[u]) <=> lock = u
      BY Parts DEF LocksOK
    <3>2. u # None /\ t # None
      BY CallersAssumption DEF Callers
    <3>3. CASE u = t
      BY <1>2, <3>3 DEF Locking
    <3>4. CASE u # t
      <4>1. op'[u] = op[u]
        BY <1>2, <3>4
      <4>2. lock' = u <=> lock = u
        BY <3>2, <3>4
      <4> QED
        BY <3>1, <4>1, <4>2 DEF Locking
    <3> QED
      BY <3>3, <3>4
  <2> QED
    BY <2>1, <2>2 DEF LocksOK
<1> QED
  BY <1>3, <1>4 DEF AttemptsInv, TypeOK, RowsOK, RestOK, LocksOK, CallsOK, CallOK

-----------------------------------------------------------------------------
(* What the steps below use of the invariant: its parts, and for every caller that its
   call is well formed and that it holds the claim lock exactly when it says so. *)
LEMMA Facts ==
  ASSUME AttemptsInv
  PROVE  /\ RowsOK /\ RestOK /\ LocksOK /\ CallsOK
         /\ \A t \in Callers : CallOK(op[t]) /\ op[t] \in Call /\ (Locking(op[t]) <=> lock = t)
BY Parts DEF CallsOK, LocksOK

(* StartActivity. *)
LEMMA StartKeeps ==
  ASSUME AttemptsInv, NEW t \in Clients, NEW r \in Requests, StartActivity(t, r)
  PROVE  AttemptsInv'
<1>1. PICK a \in Jobs :
        op' = [op EXCEPT ![t] = [Idle EXCEPT !.pc = "put", !.act = a, !.copy = NewRow,
                                             !.req = r, !.then = "idem"]]
  BY Zenon DEF StartActivity
<1>2. PICK c : c = [Idle EXCEPT !.pc = "put", !.act = a, !.copy = NewRow, !.req = r, !.then = "idem"]
  OBVIOUS
<1>3. a \in 0 .. MaxRuns /\ Idle \in Call
  BY IdleCall, NumberAssumption DEF Jobs, CallOK
<1>4. c \in Call /\ c.pc = "put" /\ c.act = a /\ c.copy = NewRow /\ c.then = "idem" /\ c.seen = Idle.seen
  BY Zenon, <1>2, <1>3, NewRows DEF Call
<1>5. CallOK(c) /\ ~Locking(c)
  BY <1>4, NewRows, IdleCall DEF CallOK, Locking
<1>6. t \in Callers /\ lock' = lock /\ lock # t /\ op' = [op EXCEPT ![t] = c]
  <2>1. op[t] = Idle /\ t \in Callers /\ lock' = lock
    BY DEF StartActivity, MayCall, Callers
  <2> QED
    BY <1>1, <1>2, <2>1, IdleCall, Facts
<1>7. RowsOK' /\ RestOK'
  BY Facts DEF StartActivity, RowsOK, RestOK
<1> QED
  BY Zenon, <1>5, <1>6, <1>7, CallStep

(* The calls that read a row and are to put it: HeartbeatActivity, CompleteActivity,
   FailActivity and CancelActivity. *)
LEMMA WriteKeeps ==
  ASSUME AttemptsInv, NEW t \in Callers, op[t] = Idle, NEW a \in Jobs, NEW r \in Row, Within(r),
         NEW then \in {"return", "settled"}, Write(t, a, r, then),
         UNCHANGED <<row, idem, lock, job, alive, crashes>>
  PROVE  AttemptsInv'
<1>1. PICK c : c = [op[t] EXCEPT !.pc = "put", !.act = a, !.copy = r, !.then = then]
               /\ op' = [op EXCEPT ![t] = c]
  BY Zenon DEF Write
<1>2. a \in 0 .. MaxRuns /\ op[t] \in Call
  BY Facts, NumberAssumption DEF Jobs
<1>3. c \in Call /\ c.pc = "put" /\ c.act = a /\ c.copy = r /\ c.then = then /\ c.seen = op[t].seen
  BY Zenon, <1>1, <1>2 DEF Call
<1>4. CallOK(c) /\ ~Locking(c)
  BY <1>3, Facts DEF CallOK, Locking
<1>5. lock' = lock /\ lock # t
  BY Facts, IdleCall
<1>6. RowsOK' /\ RestOK'
  BY Facts DEF RowsOK, RestOK
<1> QED
  BY Zenon, <1>1, <1>4, <1>5, <1>6, CallStep

(* A worker that finds its job closed lets it go. *)
LEMMA DropKeeps ==
  ASSUME AttemptsInv, NEW w \in Workers, job' = [job EXCEPT ![w] = 0],
         UNCHANGED <<row, idem, lock, op, alive, crashes>>
  PROVE  AttemptsInv'
<1>1. job' \in [Workers -> 0 .. MaxRuns]
  BY Facts, NumberAssumption DEF RestOK
<1> QED
  BY <1>1 DEF AttemptsInv, TypeOK

(* HeartbeatActivity, CompleteActivity and FailActivity, called by the worker that holds
   the job. *)
LEMMA WorkerKeeps ==
  ASSUME AttemptsInv, NEW w \in Workers,
         HeartbeatActivity(w) \/ \E status \in {"completed", "failed"} : Settle(w, status)
  PROVE  AttemptsInv'
<1>1. op[w] = Idle /\ w \in Callers /\ job[w] \in Jobs
  <2>1. job[w] \in 0 .. MaxRuns /\ job[w] # 0
    BY Facts DEF RestOK, HeartbeatActivity, Settle
  <2> QED
    BY <2>1, NumberAssumption DEF HeartbeatActivity, Settle, MayWork, MayCall, Callers, Jobs
<1>2. row[job[w]] \in Row /\ Within(row[job[w]])
  BY <1>1, Facts DEF RowsOK
<1>3. CASE HeartbeatActivity(w)
  <2>1. CASE isActivityTerminal(row[job[w]])
    BY <1>3, <2>1, DropKeeps DEF HeartbeatActivity
  <2>2. CASE ~isActivityTerminal(row[job[w]])
    BY <1>1, <1>2, <1>3, <2>2, RowChanges, WriteKeeps DEF HeartbeatActivity
  <2> QED
    BY <2>1, <2>2
<1>4. ASSUME NEW status \in {"completed", "failed"}, Settle(w, status) PROVE AttemptsInv'
  <2>1. CASE isActivityTerminal(row[job[w]])
    BY <1>4, <2>1, DropKeeps DEF Settle
  <2>2. CASE ~isActivityTerminal(row[job[w]])
    <3>1. status \in Final
      BY DEF Final
    <3> QED
      BY Zenon, <1>1, <1>2, <1>4, <2>2, <3>1, RowChanges, WriteKeeps DEF Settle
  <2> QED
    BY <2>1, <2>2
<1> QED
  BY <1>3, <1>4

(* CancelActivity. *)
LEMMA CancelKeeps ==
  ASSUME AttemptsInv, NEW t \in Clients, NEW a \in Jobs, CancelActivity(t, a)
  PROVE  AttemptsInv'
<1>1. op[t] = Idle /\ t \in Callers
  BY DEF CancelActivity, MayCall, Callers
<1>2. Close(row[a], "canceled") \in Row /\ Within(Close(row[a], "canceled"))
  BY Facts, RowChanges DEF RowsOK, Final
<1> QED
  BY <1>1, <1>2, WriteKeeps DEF CancelActivity

(* ClaimNextActivity and sweepLeases take the claim lock. *)
LEMMA ListKeeps ==
  ASSUME AttemptsInv, NEW t \in {Sweeper} \cup Workers, List(t)
  PROVE  AttemptsInv'
<1>1. PICK c : c = [Idle EXCEPT !.pc = "listed", !.seen = row] /\ op' = [op EXCEPT ![t] = c]
  BY Zenon DEF List
<1>2. Idle \in Call /\ RowsOK
  BY IdleCall, Facts DEF CallOK
<1>3. c \in Call /\ c.pc = "listed" /\ c.seen = row /\ c.copy = Idle.copy
  BY Zenon, <1>1, <1>2 DEF Call, RowsOK
<1>4. CallOK(c) /\ Locking(c)
  BY <1>2, <1>3, IdleCall DEF CallOK, Locking, RowsOK
<1>5. lock = None /\ lock' = t /\ t \in Callers
  BY DEF List, Acquire, Callers
<1>6. RowsOK' /\ RestOK'
  BY Facts DEF List, RowsOK, RestOK
<1> QED
  BY Zenon, <1>1, <1>4, <1>5, <1>6, CallStep

(* Judge and Reap: reapExpiredLeases under the claim lock. *)
LEMMA JudgeKeeps ==
  ASSUME AttemptsInv, NEW t \in Callers, Judge(t)
  PROVE  AttemptsInv'
<1>1. PICK c : c = [op[t] EXCEPT !.pc = "reap", !.todo = {a \in Jobs : Expired(op[t].seen[a])}]
               /\ op' = [op EXCEPT ![t] = c]
  BY Zenon DEF Judge
<1>2. c \in Call /\ c.pc = "reap" /\ c.seen = op[t].seen /\ c.copy = op[t].copy
  BY Zenon, <1>1, Facts DEF Call
<1>3. CallOK(c) /\ Locking(c)
  BY <1>2, Facts DEF CallOK, Locking
<1>4. lock' = lock /\ lock = t
  BY Facts DEF Judge, Locking
<1>5. RowsOK' /\ RestOK'
  BY Facts DEF Judge, RowsOK, RestOK
<1> QED
  BY Zenon, <1>1, <1>3, <1>4, <1>5, CallStep

(* Reap: the requeue or the final failure of one lapsed job, counted as one more
   attempt. *)
LEMMA ReapKeeps ==
  ASSUME AttemptsInv, NEW t \in Callers, Reap(t)
  PROVE  AttemptsInv'
<1>1. PICK a : a = Min(op[t].todo)
  OBVIOUS
<1>2. a \in Jobs /\ a \in 0 .. MaxRuns /\ op[t] \in Call /\ CallOK(op[t])
  <2>1. op[t].todo \in SUBSET Jobs /\ op[t].todo # {}
    BY Facts DEF Reap, Call
  <2>2. a \in Jobs
    BY <1>1, <2>1, OldestJob
  <2> QED
    BY <2>2, Facts, NumberAssumption DEF Jobs
<1>3. PICK rest : rest = [op[t] EXCEPT !.todo = @ \ {a}, !.seen[a] = NoRow]
  OBVIOUS
<1>4. PICK copy : copy = IF Exhausted(op[t].seen[a]) THEN Close(row[a], "failed")
                         ELSE Requeued(op[t].seen[a])
  OBVIOUS
<1>5. PICK c : /\ c = IF Exhausted(op[t].seen[a]) /\ isActivityTerminal(row[a]) THEN rest
                       ELSE [rest EXCEPT !.pc = "put", !.act = a, !.copy = copy, !.then = "reap"]
               /\ op' = [op EXCEPT ![t] = c]
  BY Zenon, <1>1, <1>3, <1>4 DEF Reap
<1>6. rest \in Call /\ rest.pc = "reap" /\ rest.copy = op[t].copy /\ rest.then = op[t].then
  BY Zenon, <1>2, <1>3, NewRows DEF Call, Reap
<1>7. \A b \in Jobs : Within(rest.seen[b])
  <2>1. op[t].seen \in [Jobs -> Row] /\ rest.seen = [op[t].seen EXCEPT ![a] = NoRow]
    BY <1>2, <1>3 DEF Call
  <2>2. \A b \in Jobs : rest.seen[b] = NoRow \/ rest.seen[b] = op[t].seen[b]
    BY <2>1
  <2> QED
    BY <1>2, <2>2, NewRows DEF CallOK
<1>8. copy \in Row /\ Within(copy)
  <2>1. row[a] \in Row /\ Within(row[a]) /\ op[t].seen[a] \in Row /\ Within(op[t].seen[a])
    BY Zenon, <1>2, Facts DEF RowsOK, CallOK, Call
  <2>2. Close(row[a], "failed") \in Row /\ Within(Close(row[a], "failed"))
    BY <2>1, RowChanges DEF Final
  <2>3. ~Exhausted(op[t].seen[a]) => Requeued(op[t].seen[a]) \in Row /\ Within(Requeued(op[t].seen[a]))
    BY <2>1, RowChanges
  <2> QED
    BY Zenon, <1>4, <2>2, <2>3
<1>9. CallOK(c) /\ Locking(c)
  <2>1. CASE c = rest
    BY Zenon, <1>2, <1>6, <1>7, <2>1 DEF CallOK, Locking
  <2>2. CASE c = [rest EXCEPT !.pc = "put", !.act = a, !.copy = copy, !.then = "reap"]
    <3>1. c \in Call /\ c.act = a /\ c.copy = copy /\ c.then = "reap" /\ c.seen = rest.seen
      BY Zenon, <1>2, <1>6, <1>8, <2>2 DEF Call
    <3> QED
      BY Zenon, <1>2, <1>7, <1>8, <3>1 DEF CallOK, Locking
  <2> QED
    BY <1>5, <2>1, <2>2
<1>10. lock' = lock /\ lock = t
  BY Facts DEF Reap, Locking
<1>11. RowsOK' /\ RestOK'
  BY Facts DEF Reap, RowsOK, RestOK
<1> QED
  BY Zenon, <1>5, <1>9, <1>10, <1>11, CallStep

(* Take and Leave: the end of a claim's search. *)
LEMMA TakeKeeps ==
  ASSUME AttemptsInv, NEW t \in Callers, Take(t)
  PROVE  AttemptsInv'
<1>1. PICK a : a = Min(Queue)
  OBVIOUS
<1>2. a \in Jobs /\ a \in 0 .. MaxRuns /\ Idle \in Call /\ t \in Workers
  <2>1. Queue \in SUBSET Jobs /\ Queue # {} /\ t \in Workers
    BY DEF Take, Queue
  <2>2. a \in Jobs
    BY <1>1, <2>1, OldestJob
  <2> QED
    BY <2>1, <2>2, IdleCall, NumberAssumption DEF Jobs, CallOK
<1>3. PICK r : r = Claimed(row[a], t)
  OBVIOUS
<1>4. r \in Row /\ Within(r)
  BY <1>2, <1>3, Facts, RowChanges DEF RowsOK
<1>5. PICK c : /\ c = [Idle EXCEPT !.pc = "put", !.act = a, !.copy = r, !.then = "claimed"]
               /\ op' = [op EXCEPT ![t] = c]
  BY Zenon, <1>1, <1>3 DEF Take
<1>6. c \in Call /\ c.act = a /\ c.copy = r /\ c.then = "claimed" /\ c.seen = Idle.seen
  BY Zenon, <1>2, <1>4, <1>5 DEF Call
<1>7. CallOK(c) /\ Locking(c)
  BY <1>2, <1>4, <1>6, IdleCall, NewRows DEF CallOK, Locking
<1>8. lock' = lock /\ lock = t
  BY Facts DEF Take, Locking
<1>9. RowsOK' /\ RestOK'
  BY Facts DEF Take, RowsOK, RestOK
<1> QED
  BY Zenon, <1>5, <1>7, <1>8, <1>9, CallStep

(* Leave: a claim or a sweep that found nothing to take releases the lock. *)
LEMMA LeaveKeeps ==
  ASSUME AttemptsInv, NEW t \in Callers, Leave(t)
  PROVE  AttemptsInv'
<1>1. lock = t /\ lock' = None /\ t # None
  BY Facts, CallersAssumption DEF Leave, Locking, Callers
<1>2. RowsOK' /\ RestOK' /\ op' = [op EXCEPT ![t] = Idle]
  BY Facts DEF Leave, RowsOK, RestOK
<1> QED
  BY Zenon, <1>1, <1>2, IdleCall, CallStep

-----------------------------------------------------------------------------
(* The put of a row, and appendActivityHistory. *)
LEMMA RowPut ==
  ASSUME AttemptsInv, NEW a \in Jobs, NEW r \in Row, Within(r), row' = [row EXCEPT ![a] = r]
  PROVE  RowsOK'
<1>1. row \in [Jobs -> Row] /\ \A b \in Jobs : Within(row[b])
  BY Facts DEF RowsOK
<1>2. row' \in [Jobs -> Row] /\ \A b \in Jobs : row'[b] = IF b = a THEN r ELSE row[b]
  BY <1>1
<1> QED
  BY <1>1, <1>2 DEF RowsOK, Within

(* Put: the store write of a row, after which the call goes on with its history. *)
LEMMA PutKeeps ==
  ASSUME AttemptsInv, NEW t \in Callers, Put(t)
  PROVE  AttemptsInv'
<1>1. op[t].act \in Jobs /\ op[t].copy \in Row /\ Within(op[t].copy) /\ op[t] \in Call
  BY Facts DEF Put, CallOK, Call
<1>2. RowsOK' /\ RestOK'
  BY Zenon, <1>1, RowPut, Facts DEF Put, RestOK
<1>3. PICK pc \in {"idem", "append"} : pc = IF op[t].then = "idem" THEN "idem" ELSE "append"
  OBVIOUS
<1>4. PICK c : c = [op[t] EXCEPT !.pc = pc, !.copy = NoRow] /\ op' = [op EXCEPT ![t] = c]
  BY Zenon, <1>3 DEF Put
<1>5. /\ c \in Call /\ c.pc = pc /\ c.copy = NoRow /\ c.act = op[t].act
      /\ c.then = op[t].then /\ c.seen = op[t].seen
  BY Zenon, <1>1, <1>4, NewRows DEF Call
<1>6. CallOK(c) /\ (Locking(c) <=> Locking(op[t]))
  BY <1>1, <1>5, NewRows, Facts DEF CallOK, Locking, Put
<1>7. lock' = lock /\ (Locking(c) <=> lock' = t)
  BY <1>6, Facts DEF Put
<1> QED
  BY Zenon, <1>2, <1>4, <1>6, <1>7, CallStep

(* PutIdem: the request key of StartActivity, written after the row. *)
LEMMA PutIdemKeeps ==
  ASSUME AttemptsInv, NEW t \in Callers, PutIdem(t)
  PROVE  AttemptsInv'
<1>1. op[t].act \in Jobs /\ op[t] \in Call
  BY Facts DEF PutIdem, CallOK
<1>2. RowsOK' /\ RestOK'
  <2>1. op[t].act \in 0 .. MaxRuns
    BY <1>1 DEF Call
  <2>2. idem' \in [Requests -> 0 .. MaxRuns]
    BY Zenon, <2>1, Facts DEF PutIdem, RestOK
  <2> QED
    BY <2>2, Facts DEF PutIdem, RowsOK, RestOK
<1>3. PICK c : c = [op[t] EXCEPT !.pc = "append"] /\ op' = [op EXCEPT ![t] = c]
  BY Zenon DEF PutIdem
<1>4. /\ c \in Call /\ c.pc = "append" /\ c.copy = op[t].copy /\ c.act = op[t].act
      /\ c.then = op[t].then /\ c.seen = op[t].seen
  BY <1>1, <1>3 DEF Call
<1>5. CallOK(c) /\ (Locking(c) <=> Locking(op[t]))
  BY <1>1, <1>4, Facts DEF CallOK, Locking, PutIdem
<1>6. lock' = lock /\ (Locking(c) <=> lock' = t)
  BY <1>5, Facts DEF PutIdem
<1> QED
  BY Zenon, <1>2, <1>3, <1>5, <1>6, CallStep

(* appendActivityHistory reads the row it will put back. *)
LEMMA AppendGetKeeps ==
  ASSUME AttemptsInv, NEW t \in Callers, AppendGet(t)
  PROVE  AttemptsInv'
<1>1. op[t].act \in Jobs /\ op[t] \in Call
  BY Facts DEF AppendGet, CallOK
<1>2. RowsOK' /\ RestOK'
  BY Facts DEF AppendGet, RowsOK, RestOK
<1>3. PICK r \in Row : r = row[op[t].act] /\ Within(r)
  BY <1>1, Facts DEF RowsOK
<1>4. PICK c : c = [op[t] EXCEPT !.pc = "append_put", !.copy = r] /\ op' = [op EXCEPT ![t] = c]
  BY Zenon, <1>3 DEF AppendGet
<1>5. /\ c \in Call /\ c.pc = "append_put" /\ c.copy = r /\ c.act = op[t].act
      /\ c.then = op[t].then /\ c.seen = op[t].seen
  BY Zenon, <1>1, <1>3, <1>4 DEF Call
<1>6. CallOK(c) /\ (Locking(c) <=> Locking(op[t]))
  BY <1>1, <1>3, <1>5, Facts DEF CallOK, Locking, AppendGet
<1>7. lock' = lock /\ (Locking(c) <=> lock' = t)
  BY <1>6, Facts DEF AppendGet
<1> QED
  BY Zenon, <1>2, <1>4, <1>6, <1>7, CallStep

(* appendActivityHistory puts back the row it read, however old it is by then. *)
LEMMA AppendPutKeeps ==
  ASSUME AttemptsInv, NEW t \in Callers, AppendPut(t)
  PROVE  AttemptsInv'
<1>1. op[t].act \in Jobs /\ op[t].copy \in Row /\ Within(op[t].copy) /\ op[t] \in Call
  BY Facts DEF AppendPut, CallOK, Call
<1>2. RowsOK' /\ RestOK'
  <2>1. op[t].act \in 0 .. MaxRuns /\ 0 \in 0 .. MaxRuns
    BY <1>1, NumberAssumption DEF Call
  <2>2. job' \in [Workers -> 0 .. MaxRuns]
    BY Zenon, <2>1, Facts DEF AppendPut, RestOK
  <2> QED
    BY Zenon, <1>1, <2>2, RowPut, Facts DEF AppendPut, RestOK
<1>3. CASE op[t].then = "reap"
  <2>1. PICK c : /\ c = [op[t] EXCEPT !.pc = "reap", !.act = 0, !.copy = NoRow, !.then = "return"]
                 /\ op' = [op EXCEPT ![t] = c]
    BY Zenon, <1>3 DEF AppendPut
  <2>2. c \in Call /\ c.pc = "reap" /\ c.copy = NoRow /\ c.seen = op[t].seen
    <3>1. 0 \in 0 .. MaxRuns
      BY NumberAssumption
    <3> QED
      BY Zenon, <1>1, <2>1, <3>1, NewRows DEF Call
  <2>3. CallOK(c) /\ Locking(c)
    BY <2>2, NewRows, Facts DEF CallOK, Locking
  <2>4. lock' = lock /\ lock = t
    BY <1>3, Facts DEF AppendPut, Locking
  <2> QED
    BY Zenon, <1>2, <2>1, <2>3, <2>4, CallStep
<1>4. CASE op[t].then = "claimed"
  <2>1. op' = [op EXCEPT ![t] = Idle] /\ lock = t /\ lock' = None /\ t # None
    BY <1>4, Facts, CallersAssumption DEF AppendPut, Locking, Callers
  <2> QED
    BY Zenon, <1>2, <2>1, IdleCall, CallStep
<1>5. CASE op[t].then \notin {"reap", "claimed"}
  <2>1. op' = [op EXCEPT ![t] = Idle] /\ lock' = lock /\ lock # t
    BY Zenon, <1>5, Facts DEF AppendPut, Locking
  <2> QED
    BY Zenon, <1>2, <2>1, IdleCall, CallStep
<1> QED
  BY <1>3, <1>4, <1>5

-----------------------------------------------------------------------------
(* A crash ends every call and frees the lock. *)
LEMMA CrashKeeps == ASSUME AttemptsInv, Crash PROVE AttemptsInv'
<1>1. RowsOK' /\ RestOK'
  BY Facts, NumberAssumption DEF Crash, RowsOK, RestOK
<1>2. \A t \in Callers : op'[t] = Idle
  BY DEF Crash
<1>3. CallsOK' /\ LocksOK'
  <2>1. op' \in [Callers -> Call]
    BY IdleCall DEF Crash, CallOK
  <2>2. \A t \in Callers : CallOK(op'[t]) /\ ~Locking(op'[t])
    BY <1>2, IdleCall
  <2>3. \A t \in Callers : lock' # t
    BY CallersAssumption DEF Crash, Callers
  <2>4. lock' \in {None, Sweeper} \cup Workers
    BY Zenon DEF Crash
  <2> QED
    BY <2>1, <2>2, <2>3, <2>4 DEF CallsOK, LocksOK, CallOK, Locking
<1> QED
  BY <1>1, <1>3 DEF AttemptsInv, TypeOK, RowsOK, RestOK, LocksOK, CallsOK, CallOK

(* Time takes a unit off leases and touches nothing else. *)
LEMMA TickKeeps == ASSUME AttemptsInv, NEW a \in Jobs, Tick(a) PROVE AttemptsInv'
<1>1. RestOK'
  BY Zenon, Facts DEF Tick, RestOK
<1>2. RowsOK'
  <2>1. row[a] \in Row /\ Within(row[a]) /\ row' = [row EXCEPT ![a] = Age(row[a])]
    BY Zenon, Facts DEF Tick, RowsOK
  <2> QED
    BY Zenon, <2>1, RowChanges, RowPut
<1>3. ASSUME NEW t \in Callers
      PROVE  CallOK(op'[t]) /\ op'[t].pc = op[t].pc /\ op'[t].then = op[t].then
  <2>1. op[t] \in Call /\ CallOK(op[t])
    BY Facts
  <2>2. PICK r : r = (IF op[t].act = a THEN Age(op[t].copy) ELSE op[t].copy)
    OBVIOUS
  <2>3. PICK s : s = [op[t].seen EXCEPT ![a] = Age(op[t].seen[a])]
    BY Zenon
  <2>4. op'[t] = [op[t] EXCEPT !.seen = s, !.copy = r]
    BY Zenon, <2>2, <2>3 DEF Tick
  <2>5. op[t].copy \in Row /\ Within(op[t].copy) /\ op[t].seen \in [Jobs -> Row]
    BY Zenon, <2>1 DEF CallOK, Call
  <2>6. r \in Row /\ Within(r)
    BY Zenon, <2>2, <2>5, RowChanges
  <2>7. Age(op[t].seen[a]) \in Row /\ Within(Age(op[t].seen[a]))
    BY Zenon, <2>1, <2>5, RowChanges DEF CallOK
  <2>8. s \in [Jobs -> Row] /\ \A b \in Jobs : Within(s[b])
    <3>1. s \in [Jobs -> Row]
      BY Zenon, <2>3, <2>5, <2>7
    <3>2. \A b \in Jobs : s[b] = Age(op[t].seen[a]) \/ s[b] = op[t].seen[b]
      BY <2>3, <2>5
    <3> QED
      BY Zenon, <2>1, <2>7, <3>1, <3>2 DEF CallOK
  <2>9. PICK c : c = op'[t]
    OBVIOUS
  <2>10. /\ c \in Call /\ c.copy = r /\ c.seen = s
         /\ c.pc = op[t].pc /\ c.then = op[t].then /\ c.act = op[t].act
    BY Zenon, <2>1, <2>4, <2>6, <2>8, <2>9 DEF Call
  <2>11. CallOK(c)
    BY <2>1, <2>6, <2>8, <2>10 DEF CallOK
  <2> QED
    BY <2>9, <2>10, <2>11
<1>4. CallsOK'
  <2>1. op' = [t \in Callers |-> op'[t]]
    BY Zenon DEF Tick
  <2>2. op' \in [Callers -> Call]
    BY <1>3, <2>1 DEF CallOK
  <2> QED
    BY <1>3, <2>2 DEF CallsOK, CallOK
<1>5. LocksOK'
  BY Zenon, <1>3, Facts DEF LocksOK, Locking, Tick
<1> QED
  BY <1>1, <1>2, <1>4, <1>5 DEF AttemptsInv, TypeOK, RowsOK, RestOK, LocksOK, CallsOK, CallOK

(* The inductive invariant: rows and copies of rows keep their attempts within the
   policy, and the claim lock goes with the claim or sweep in progress. *)
THEOREM AttemptsInvariant == Spec => []AttemptsInv
<1>1. Init => AttemptsInv
  <2> SUFFICES ASSUME Init PROVE AttemptsInv
    OBVIOUS
  <2>1. RowsOK
    BY NewRows DEF Init, RowsOK
  <2>2. RestOK
    BY NumberAssumption DEF Init, RestOK
  <2>3. CallsOK
    BY IdleCall DEF Init, CallsOK, CallOK
  <2>4. LocksOK
    BY IdleCall, CallersAssumption DEF Init, LocksOK, Callers
  <2> QED
    BY <2>1, <2>2, <2>3, <2>4, Parts
<1>2. AttemptsInv /\ [Next]_vars => AttemptsInv'
  <2> SUFFICES ASSUME AttemptsInv, [Next]_vars PROVE AttemptsInv'
    BY Zenon
  <2>1. CASE UNCHANGED vars
    BY <2>1 DEF vars, AttemptsInv, TypeOK
  <2>2. CASE sweepLeases
    BY <2>2, ListKeeps DEF sweepLeases
  <2>3. ASSUME NEW t \in Callers, Step(t) PROVE AttemptsInv'
    BY Zenon, <2>3, JudgeKeeps, ReapKeeps, TakeKeeps, LeaveKeeps, PutKeeps, PutIdemKeeps, AppendGetKeeps,
       AppendPutKeeps DEF Step
  <2>4. ASSUME NEW w \in Workers, ClaimNextActivity(w) PROVE AttemptsInv'
    BY Zenon, <2>4, ListKeeps DEF ClaimNextActivity
  <2>5. ASSUME NEW w \in Workers, Die(w) PROVE AttemptsInv'
    <3>1. alive' \in [Workers -> BOOLEAN]
      BY <2>5, Facts DEF Die, RestOK
    <3> QED
      BY <2>5, <3>1 DEF Die, AttemptsInv, TypeOK
  <2> QED
    BY <2>1, <2>2, <2>3, <2>4, <2>5, CrashKeeps, TickKeeps, StartKeeps, CancelKeeps, WorkerKeeps DEF Next
<1> QED
  BY <1>1, <1>2, PTL DEF Spec

(* Every variable keeps its type, and the claim lock is held by the one caller whose
   claim or sweep is in progress: two claims never search the queue at once
   (ClaimNextActivity, sweepLeases). *)
THEOREM ActivitiesTypeCorrect == Spec => []TypeOK
BY AttemptsInvariant, PTL DEF AttemptsInv

(* The attempts of a job never exceed its retry policy, whatever heartbeats, answers,
   cancellations, sweeps, crashes and lapsed leases race with (reapExpiredLeases). *)
THEOREM ActivityAttemptsBounded == Spec => []AttemptsBounded
BY AttemptsInvariant, PTL DEF AttemptsInv, AttemptsBounded, Within

-----------------------------------------------------------------------------
(* Who works on a job. *)
-----------------------------------------------------------------------------

(* The job a caller holds says nothing of a caller that is no worker. *)
LEMMA NoJob ==
  ASSUME NEW t, t \notin Workers, NEW c, NEW rows, NEW j, CallerOK(t, c, rows, j), NEW k
  PROVE  CallerOK(t, c, rows, k)
<1>1. c.act # 0 => WriterOK(t, c, rows[c.act], k)
  BY Zenon DEF CallerOK, WriterOK
<1> QED BY Zenon, <1>1 DEF CallerOK

(* What the invariant says of one caller. *)
LEMMA LeaseFacts ==
  ASSUME AttemptsInv, LeaseInv, NEW t \in Callers
  PROVE  /\ HolderOK /\ ClientsAlone /\ CallerOK(t, op[t], row, job[t])
         /\ op[t] \in Call /\ op[t].act \in 0 .. MaxRuns /\ op[t].todo \subseteq Jobs
         /\ op[t].seen \in [Jobs -> Row] /\ op[t].copy \in Row
         /\ row \in [Jobs -> Row] /\ (op[t].act # 0 => op[t].act \in Jobs)
         /\ (Locking(op[t]) <=> lock = t) /\ job \in [Workers -> 0 .. MaxRuns]
<1>1. CallOK(op[t]) /\ (Locking(op[t]) <=> lock = t) /\ RowsOK /\ RestOK
  BY Zenon, Facts
<1>2. CallerOK(t, op[t], row, job[t])
  BY Zenon DEF LeaseInv
<1>3. op[t].act # 0 => op[t].act \in Jobs
  BY <1>1, <1>2 DEF CallOK, CallerOK
<1> QED BY <1>1, <1>2, <1>3 DEF LeaseInv, CallOK, Call, RowsOK, RestOK

(* Jobs are numbered from 1. *)
LEMMA NoJobIsZero == 0 \notin Jobs /\ TTL # 0 /\ TTL # NoLease
BY NumberAssumption DEF Jobs, NoLease

(* What a call that writes a row knows of the row: a client is alone, a worker holds
   the job, or the claim lock is held and nobody holds the job. *)
LEMMA WriterKinds ==
  ASSUME AttemptsInv, LeaseInv, NEW t \in Callers, op[t].act # 0
  PROVE  \/ t \in Clients
         \/ t \in Workers /\ HeldRow(row[op[t].act], t)
         \/ Locking(op[t]) /\ \A w \in Workers : ~HeldRow(row[op[t].act], w)
<1> DEFINE r == row[op[t].act]
<1>1. WriterOK(t, op[t], r, job[t])
  BY Zenon, LeaseFacts DEF CallerOK
<1>2. op[t].then \in {"return", "idem", "settled", "claimed", "reap"}
  BY Zenon, LeaseFacts DEF Call
<1>3. t \in Workers /\ job[t] = op[t].act => HeldRow(r, t)
  BY Zenon, LeaseFacts DEF HolderOK, AtWork
<1>4. CASE op[t].then \in {"idem", "return", "settled"}
  BY Zenon, <1>1, <1>3, <1>4 DEF WriterOK
<1>5. CASE op[t].then = "reap"
  BY Zenon, <1>1, <1>5 DEF WriterOK, HeldRow, Locking
<1>6. CASE op[t].then = "claimed"
  <2>1. CASE op[t].pc # "put"
    BY Zenon, <1>1, <1>6, <2>1 DEF WriterOK
  <2>2. CASE op[t].pc = "put"
    BY <1>1, <1>6, <2>2 DEF WriterOK, PutOK, HeldRow, Locking, Final
  <2> QED BY Zenon, <2>1, <2>2
<1> QED BY Zenon, <1>2, <1>4, <1>5, <1>6

(* A client in a call is alone. *)
LEMMA Alone ==
  ASSUME AttemptsInv, LeaseInv, NEW t \in Clients, op[t] # Idle, NEW u \in Callers, u # t
  PROVE  op[u] = Idle
BY Zenon DEF LeaseInv, ClientsAlone

(* No two calls are about to write the same row. *)
LEMMA OneWriter ==
  ASSUME AttemptsInv, LeaseInv, NEW t \in Callers, NEW u \in Callers, t # u,
         op[t].act # 0, op[u].act = op[t].act
  PROVE  FALSE
<1>1. op[t] # Idle /\ op[u] # Idle
  BY IdleCall
<1>2. t \notin Clients /\ u \notin Clients
  BY Zenon, <1>1, Alone
<1>3. ~(Locking(op[t]) /\ Locking(op[u]))
  BY LeaseFacts
<1> QED BY <1>2, <1>3, WriterKinds DEF HeldRow

(* What a call writes is on nobody else's list of lapsed jobs. *)
LEMMA NotListed ==
  ASSUME AttemptsInv, LeaseInv, NEW t \in Callers, NEW u \in Callers, t # u,
         op[t].act # 0, Locking(op[u])
  PROVE  ~Expired(row[op[t].act])
<1>1. op[u] # Idle /\ op[t] # Idle
  BY Zenon, IdleCall
<1>2. t \notin Clients /\ ~Locking(op[t])
  BY Zenon, <1>1, Alone, LeaseFacts
<1>3. HeldRow(row[op[t].act], t)
  BY Zenon, <1>2, WriterKinds
<1> QED BY <1>3, NoJobIsZero DEF HeldRow, Expired

(* A step of one call. *)
LEMMA LeaseMoves ==
  ASSUME AttemptsInv, AttemptsInv', LeaseInv, NEW t \in Callers, NEW c, op' = [op EXCEPT ![t] = c],
         alive' = alive, \A w \in Workers : w # t => job'[w] = job[w],
         CallerOK(t, c, row', job'[t]),
         \A u \in Callers : u # t => CallerOK(u, op[u], row', job[u]),
         \A w \in Workers : w # t /\ AtWork(w) => HeldRow(row'[job[w]], w),
         t \in Workers /\ job'[t] # 0 /\ (alive[t] \/ c.act = job'[t]) => HeldRow(row'[job'[t]], t),
         \/ c = Idle \/ op[t] # Idle
         \/ \A u \in Callers : op[u] = Idle \/ (t \notin Clients /\ u \notin Clients)
  PROVE  LeaseInv'
<1>1. \A u \in Callers : op'[u] = IF u = t THEN c ELSE op[u]
  BY Zenon DEF AttemptsInv, TypeOK
<1>2. HolderOK'
  <2>1. ASSUME NEW w \in Workers, AtWork(w)' PROVE HeldRow(row'[job'[w]], w)
    <3>0. w \in Callers
      BY Zenon DEF Callers
    <3>1. CASE w = t
      BY Zenon, <1>1, <2>1, <3>0, <3>1 DEF AtWork
    <3>2. CASE w # t
      <4>1. AtWork(w)
        BY <1>1, <2>1, <3>0, <3>2, Zenon DEF AtWork
      <4> QED BY <3>2, <4>1
    <3> QED BY Zenon, <3>1, <3>2
  <2> QED BY Zenon, <2>1 DEF HolderOK, HeldRow
<1>3. ClientsAlone'
  <2>1. ASSUME NEW b \in Clients, NEW u \in Callers, op'[b] # Idle, u # b PROVE op'[u] = Idle
    <3>0. b \in Callers
      BY Zenon DEF Callers
    <3>1. op[b] # Idle => op[u] = Idle
      BY Zenon, <2>1 DEF LeaseInv, ClientsAlone
    <3>2. op[t] # Idle /\ b # t => op[b] = Idle
      BY Zenon, <3>0 DEF LeaseInv, ClientsAlone
    <3> QED BY <1>1, <2>1, <3>0, <3>1, <3>2, Zenon
  <2> QED BY <2>1 DEF ClientsAlone
<1>4. ASSUME NEW u \in Callers PROVE CallerOK(u, op'[u], row', job'[u])
  <2>1. CASE u = t
    BY Zenon, <1>1, <2>1
  <2>2. CASE u # t /\ u \in Workers
    BY Zenon, <1>1, <2>2
  <2>3. CASE u # t /\ u \notin Workers
    <3>1. CallerOK(u, op[u], row', job[u])
      BY <2>3
    <3> QED BY Zenon, <1>1, <2>3, <3>1, NoJob
  <2> QED BY Zenon, <2>1, <2>2, <2>3
<1> QED BY Zenon, <1>2, <1>3, <1>4 DEF LeaseInv

(* A step of one call that leaves the rows alone. *)
LEMMA RowsStay ==
  ASSUME AttemptsInv, AttemptsInv', LeaseInv, NEW t \in Callers, NEW c, op' = [op EXCEPT ![t] = c],
         row' = row, alive' = alive, \A w \in Workers : w # t => job'[w] = job[w],
         CallerOK(t, c, row, job'[t]),
         t \in Workers /\ job'[t] # 0 /\ (alive[t] \/ c.act = job'[t]) => HeldRow(row[job'[t]], t),
         \/ c = Idle \/ op[t] # Idle
         \/ \A u \in Callers : op[u] = Idle \/ (t \notin Clients /\ u \notin Clients)
  PROVE  LeaseInv'
<1>1. \A u \in Callers : CallerOK(u, op[u], row, job[u])
  BY Zenon DEF LeaseInv
<1>2. \A w \in Workers : AtWork(w) => HeldRow(row[job[w]], w)
  BY DEF LeaseInv, HolderOK
<1>3. CallerOK(t, c, row', job'[t])
  BY Zenon
<1>4. \A u \in Callers : u # t => CallerOK(u, op[u], row', job[u])
  BY <1>1, Zenon
<1> QED BY Zenon, <1>2, <1>3, <1>4, LeaseMoves

(* The same, when the call keeps the worker's job and its own place. *)
LEMMA CallGoesOn ==
  ASSUME AttemptsInv, AttemptsInv', LeaseInv, NEW t \in Callers, NEW c, op' = [op EXCEPT ![t] = c],
         row' = row, alive' = alive, job' = job, CallerOK(t, c, row, job[t]),
         t \in Workers /\ job[t] # 0 /\ c.act = job[t] => AtWork(t),
         \/ c = Idle \/ op[t] # Idle
         \/ \A u \in Callers : op[u] = Idle \/ (t \notin Clients /\ u \notin Clients)
  PROVE  LeaseInv'
<1>1. t \in Workers /\ job'[t] # 0 /\ (alive[t] \/ c.act = job'[t]) => HeldRow(row[job'[t]], t)
  BY DEF LeaseInv, HolderOK, AtWork
<1>2. CallerOK(t, c, row, job'[t])
  BY Zenon
<1> QED BY Zenon, <1>1, <1>2, RowsStay

(* A caller between two calls. *)
LEMMA IdleLease == \A t, rows, j : CallerOK(t, Idle, rows, j)
<1>1. Idle.pc = "idle" /\ Idle.act = 0 /\ Idle.then = "return" /\ Idle.todo = {} /\ ~Locking(Idle)
  BY IdleCall DEF Idle
<1> QED BY Zenon, <1>1 DEF CallerOK

(* The end of a call, with the job its worker holds unchanged. *)
LEMMA CallEnds ==
  ASSUME AttemptsInv, AttemptsInv', LeaseInv, NEW t \in Callers, op' = [op EXCEPT ![t] = Idle],
         row' = row, alive' = alive, job' = job
  PROVE  LeaseInv'
<1>1. CallerOK(t, Idle, row, job[t]) /\ Idle.act = 0
  BY IdleLease, IdleCall
<1> QED BY Zenon, <1>1, CallGoesOn

(* reapExpiredLeases reads the clock: what was listed as lapsed still is. *)
LEMMA JudgeLease ==
  ASSUME AttemptsInv, AttemptsInv', LeaseInv, NEW t \in Callers, Judge(t)
  PROVE  LeaseInv'
<1> DEFINE todo == {a \in Jobs : Expired(op[t].seen[a])}
           c == [op[t] EXCEPT !.pc = "reap", !.todo = todo]
<1>1. op' = [op EXCEPT ![t] = c] /\ row' = row /\ alive' = alive /\ job' = job /\ op[t].pc = "listed"
  BY DEF Judge
<1>2. c.pc = "reap" /\ c.todo = todo /\ c.act = op[t].act /\ c.then = op[t].then
  BY LeaseFacts DEF Call
<1>3. op[t].act = 0 /\ Locking(op[t]) /\ op[t] # Idle
  BY <1>1, LeaseFacts, IdleCall DEF CallerOK, Locking
<1>4. (\A a \in todo : Expired(row[a])) /\ 0 \notin todo /\ (t \in Workers => job[t] = 0)
  BY Zenon, <1>1, <1>3, LeaseFacts, NoJobIsZero DEF CallerOK
<1> HIDE DEF c, todo
<1>5. CallerOK(t, c, row, job[t])
  BY <1>2, <1>3, <1>4 DEF CallerOK
<1> QED BY Zenon, <1>1, <1>2, <1>3, <1>4, <1>5, CallGoesOn

(* reapExpiredLeases takes up one lapsed job, which nobody works on. *)
LEMMA ReapLease ==
  ASSUME AttemptsInv, AttemptsInv', LeaseInv, NEW t \in Callers, Reap(t)
  PROVE  LeaseInv'
<1>1. op[t].pc = "reap" /\ op[t].todo # {} /\ row' = row /\ alive' = alive /\ job' = job
  BY DEF Reap
<1> DEFINE a == Min(op[t].todo)
           rest == [op[t] EXCEPT !.todo = @ \ {a}, !.seen[a] = NoRow]
           copy == IF Exhausted(op[t].seen[a]) THEN Close(row[a], "failed")
                   ELSE Requeued(op[t].seen[a])
           next == [rest EXCEPT !.pc = "put", !.act = a, !.copy = copy, !.then = "reap"]
<1>2. op' = [op EXCEPT ![t] = rest] \/ op' = [op EXCEPT ![t] = next]
  BY Zenon DEF Reap
<1>3. a \in op[t].todo /\ a \in Jobs
  BY <1>1, OldestJob, LeaseFacts
<1>4. rest.pc = "reap" /\ rest.act = op[t].act /\ rest.then = op[t].then /\ rest.todo = op[t].todo \ {a}
  BY <1>1, LeaseFacts DEF Call
<1>5. next.pc = "put" /\ next.act = a /\ next.then = "reap" /\ next.todo = op[t].todo \ {a} /\ next.copy = copy
  BY LeaseFacts DEF Call
<1>6. /\ op[t].act = 0 /\ Locking(op[t]) /\ op[t] # Idle /\ (t \in Workers => job[t] = 0)
      /\ \A b \in op[t].todo : Expired(row[b])
  BY Zenon, <1>1, LeaseFacts, IdleCall DEF CallerOK, Locking
<1>7. copy.lease # TTL
  <2>1. Expired(row[a]) /\ row[a] \in Row /\ op[t].seen[a] \in Row
    BY Zenon, <1>3, <1>6, LeaseFacts
  <2>2. Close(row[a], "failed").lease = 0
    BY Zenon, <2>1 DEF Close, Row, Expired
  <2>3. Requeued(op[t].seen[a]).lease = NoLease
    BY Zenon, <2>1 DEF Requeued, Row
  <2> QED BY Zenon, <2>2, <2>3, NoJobIsZero
<1>8. row[a].st = "started" /\ row[a].lease # TTL
  BY Zenon, <1>3, <1>6, NoJobIsZero DEF Expired
<1>9. 0 \notin op[t].todo /\ a # 0
  BY Zenon, <1>3, LeaseFacts, NoJobIsZero
<1> HIDE DEF a, rest, copy, next
<1>10. CallerOK(t, rest, row, job[t])
  BY Zenon, <1>4, <1>6, <1>9 DEF CallerOK
<1>11. CallerOK(t, next, row, job[t])
  <2>1. PutOK(t, next, row[a])
    BY Zenon, <1>5, <1>7, <1>8 DEF PutOK, Final
  <2>2. WriterOK(t, next, row[a], job[t])
    BY <1>5, <1>8, <2>1 DEF WriterOK
  <2> QED BY Zenon, <1>5, <1>6, <1>9, <2>2 DEF CallerOK
<1>12. CASE op' = [op EXCEPT ![t] = rest]
  BY Zenon, <1>1, <1>4, <1>6, <1>10, <1>12, CallGoesOn
<1>13. CASE op' = [op EXCEPT ![t] = next]
  BY Zenon, <1>1, <1>6, <1>11, <1>13, CallGoesOn
<1> QED BY <1>2, <1>12, <1>13

(* ClaimNextActivity takes a job from the queue, which nobody works on. *)
LEMMA TakeLease ==
  ASSUME AttemptsInv, AttemptsInv', LeaseInv, NEW t \in Callers, Take(t)
  PROVE  LeaseInv'
<1> DEFINE a == Min(Queue)
           copy == Claimed(row[a], t)
           c == [Idle EXCEPT !.pc = "put", !.act = a, !.copy = copy, !.then = "claimed"]
<1>1. /\ op' = [op EXCEPT ![t] = c] /\ row' = row /\ alive' = alive /\ job' = job
      /\ op[t].pc = "reap" /\ t \in Workers
  BY DEF Take
<1>2. a \in Jobs /\ row[a].st = "scheduled" /\ a # 0 /\ row[a] \in Row
  <2>1. Queue \in SUBSET Jobs /\ Queue # {}
    BY DEF Take, Queue
  <2>2. a \in Queue
    BY <2>1, OldestJob
  <2> QED BY <2>2, NoJobIsZero, LeaseFacts DEF Queue
<1>3. copy.st = "started" /\ HeldRow(copy, t)
  BY <1>2 DEF Claimed, Row, HeldRow
<1>4. c.pc = "put" /\ c.act = a /\ c.copy = copy /\ c.then = "claimed" /\ c.todo = {}
  BY DEF Idle
<1>5. op[t] # Idle /\ job[t] = 0
  BY Zenon, <1>1, LeaseFacts, IdleCall DEF CallerOK, Locking
<1> HIDE DEF a, copy, c
<1>6. PutOK(t, c, row[a])
  BY Zenon, <1>2, <1>3, <1>4 DEF PutOK, Final
<1>7. WriterOK(t, c, row[a], job[t])
  BY Zenon, <1>1, <1>4, <1>6 DEF WriterOK
<1>8. CallerOK(t, c, row, job[t])
  BY <1>2, <1>4, <1>5, <1>7 DEF CallerOK
<1> QED BY Zenon, <1>1, <1>5, <1>8, CallGoesOn

(* A sweep ends, or a claim that found nothing. *)
LEMMA LeaveLease ==
  ASSUME AttemptsInv, AttemptsInv', LeaseInv, NEW t \in Callers, Leave(t)
  PROVE  LeaseInv'
BY Zenon, CallEnds DEF Leave

(* StartActivity puts the key of its request. *)
LEMMA PutIdemLease ==
  ASSUME AttemptsInv, AttemptsInv', LeaseInv, NEW t \in Callers, PutIdem(t)
  PROVE  LeaseInv'
<1> DEFINE c == [op[t] EXCEPT !.pc = "append"]
<1>1. op' = [op EXCEPT ![t] = c] /\ row' = row /\ alive' = alive /\ job' = job /\ op[t].pc = "idem"
  BY DEF PutIdem
<1>2. c.pc = "append" /\ c.todo = op[t].todo /\ c.act = op[t].act /\ c.then = op[t].then
  BY LeaseFacts DEF Call
<1>3. CallerOK(t, op[t], row, job[t]) /\ op[t] # Idle
  BY <1>1, LeaseFacts, IdleCall
<1> HIDE DEF c
<1>4. c.act # 0 => WriterOK(t, c, row[c.act], job[t])
  BY Zenon, <1>1, <1>2, <1>3 DEF CallerOK, WriterOK
<1>5. CallerOK(t, c, row, job[t])
  BY <1>1, <1>2, <1>3, <1>4 DEF CallerOK, Locking
<1> QED BY Zenon, <1>1, <1>2, <1>3, <1>5, CallGoesOn DEF AtWork

(* appendActivityHistory reads the row. *)
LEMMA AppendGetLease ==
  ASSUME AttemptsInv, AttemptsInv', LeaseInv, NEW t \in Callers, AppendGet(t)
  PROVE  LeaseInv'
<1> DEFINE c == [op[t] EXCEPT !.pc = "append_put", !.copy = row[op[t].act]]
<1>1. op' = [op EXCEPT ![t] = c] /\ row' = row /\ alive' = alive /\ job' = job /\ op[t].pc = "append"
  BY DEF AppendGet
<1>2. /\ c.pc = "append_put" /\ c.todo = op[t].todo /\ c.act = op[t].act /\ c.then = op[t].then
      /\ c.copy = row[op[t].act]
  BY LeaseFacts DEF Call
<1>3. CallerOK(t, op[t], row, job[t]) /\ op[t] # Idle
  BY <1>1, LeaseFacts, IdleCall
<1> HIDE DEF c
<1>4. c.act # 0 => WriterOK(t, c, row[c.act], job[t])
  BY Zenon, <1>1, <1>2, <1>3 DEF CallerOK, WriterOK
<1>5. CallerOK(t, c, row, job[t])
  BY Zenon, <1>1, <1>2, <1>3, <1>4 DEF CallerOK, Locking
<1> QED BY Zenon, <1>1, <1>2, <1>3, <1>5, CallGoesOn DEF AtWork

(* The append puts back the row as it is. *)
LEMMA AppendPutLease ==
  ASSUME AttemptsInv, AttemptsInv', LeaseInv, NEW t \in Callers, AppendPut(t)
  PROVE  LeaseInv'
<1>1. op[t].pc = "append_put" /\ alive' = alive
  BY Zenon DEF AppendPut
<1>2. CallerOK(t, op[t], row, job[t]) /\ op[t] # Idle /\ op[t].act \in Jobs /\ op[t].act # 0
  BY <1>1, LeaseFacts, IdleCall DEF CallerOK
<1>3. WriterOK(t, op[t], row[op[t].act], job[t]) /\ op[t].copy = row[op[t].act]
  BY Zenon, <1>1, <1>2 DEF CallerOK, WriterOK
<1>4. row' = row
  <2>1. row' = [row EXCEPT ![op[t].act] = op[t].copy] /\ row \in [Jobs -> Row]
    BY LeaseFacts DEF AppendPut
  <2> QED BY <1>2, <1>3, <2>1
<1>5. CASE op[t].then = "reap"
  <2> DEFINE c == [op[t] EXCEPT !.pc = "reap", !.act = 0, !.copy = NoRow, !.then = "return"]
  <2>1. op' = [op EXCEPT ![t] = c] /\ job' = job
    BY <1>5 DEF AppendPut
  <2>2. c.pc = "reap" /\ c.act = 0 /\ c.todo = op[t].todo /\ c.then = "return"
    BY Zenon, LeaseFacts DEF Call
  <2>3. (t \in Workers => job[t] = 0) /\ (\A a \in op[t].todo : Expired(row[a])) /\ 0 \notin op[t].todo
    BY Zenon, <1>2, <1>5, LeaseFacts, NoJobIsZero DEF CallerOK, Locking
  <2> HIDE DEF c
  <2>4. CallerOK(t, c, row, job[t])
    BY <2>2, <2>3 DEF CallerOK
  <2> QED BY Zenon, <1>1, <1>2, <1>4, <2>1, <2>3, <2>4, CallGoesOn
<1>6. CASE op[t].then \notin {"reap", "claimed", "settled"}
  <2>1. op' = [op EXCEPT ![t] = Idle] /\ job' = job
    BY Zenon, <1>6 DEF AppendPut
  <2> QED BY Zenon, <1>1, <1>4, <2>1, CallEnds
<1>7. CASE op[t].then \in {"claimed", "settled"}
  <2>1. op' = [op EXCEPT ![t] = Idle] /\ t \in Workers
    BY Zenon, <1>3, <1>7 DEF AppendPut, WriterOK
  <2>2. job' = [job EXCEPT ![t] = IF op[t].then = "claimed" THEN op[t].act ELSE 0]
    BY Zenon, <1>7 DEF AppendPut
  <2>3. (\A w \in Workers : w # t => job'[w] = job[w]) /\ job'[t] = IF op[t].then = "claimed" THEN op[t].act ELSE 0
    BY Zenon, <2>1, <2>2, LeaseFacts
  <2>4. op[t].then = "claimed" => HeldRow(row[op[t].act], t)
    BY Zenon, <1>1, <1>3 DEF WriterOK
  <2>5. job'[t] # 0 => HeldRow(row[job'[t]], t)
    BY <2>3, <2>4
  <2>6. CallerOK(t, Idle, row, job'[t])
    BY IdleLease
  <2> QED BY Zenon, <1>1, <1>4, <2>1, <2>3, <2>5, <2>6, RowsStay
<1> QED BY <1>5, <1>6, <1>7

(* The put of a row that a call has read: whoever works on the job still does, and the
   job was open. *)
LEMMA PutLease ==
  ASSUME AttemptsInv, AttemptsInv', LeaseInv, NEW t \in Callers, Put(t)
  PROVE  LeaseInv' /\ row[op[t].act].st \notin Final
<1> DEFINE a == op[t].act
           c == [op[t] EXCEPT !.pc = IF op[t].then = "idem" THEN "idem" ELSE "append", !.copy = NoRow]
<1>1. /\ op' = [op EXCEPT ![t] = c] /\ row' = [row EXCEPT ![a] = op[t].copy]
      /\ alive' = alive /\ job' = job /\ op[t].pc = "put"
  BY Zenon DEF Put
<1>2. /\ c.pc = (IF op[t].then = "idem" THEN "idem" ELSE "append") /\ c.todo = op[t].todo
      /\ c.act = a /\ c.then = op[t].then
  BY LeaseFacts DEF Call
<1>3. CallerOK(t, op[t], row, job[t]) /\ op[t] # Idle /\ a \in Jobs /\ a # 0
  BY Zenon, <1>1, LeaseFacts, IdleCall DEF CallerOK
<1>4. WriterOK(t, op[t], row[a], job[t]) /\ PutOK(t, op[t], row[a])
  BY Zenon, <1>1, <1>3 DEF CallerOK, WriterOK
<1>5. row'[a] = op[t].copy /\ \A b \in Jobs : b # a => row'[b] = row[b]
  BY Zenon, <1>1, <1>3, LeaseFacts
<1> HIDE DEF c, a
<1>6. CallerOK(t, c, row', job[t])
  <2>1. WriterOK(t, c, row'[a], job[t])
    <3>1. c.then = "reap" => row'[a].lease # TTL
      BY Zenon, <1>2, <1>4, <1>5 DEF PutOK
    <3>2. c.then = "claimed" => t \in Workers /\ HeldRow(row'[a], t)
      BY Zenon, <1>2, <1>4, <1>5 DEF PutOK, WriterOK
    <3> QED BY Zenon, <1>2, <1>4, <3>1, <3>2 DEF WriterOK, a
  <2>2. c.then = "reap" => \A b \in c.todo : Expired(row'[b])
    <3>1. a \notin op[t].todo /\ op[t].todo \subseteq Jobs
      BY Zenon, <1>3, LeaseFacts DEF CallerOK, a
    <3> QED BY Zenon, <1>2, <1>3, <1>5, <3>1 DEF CallerOK
  <2> QED BY <1>1, <1>2, <1>3, <2>1, <2>2 DEF CallerOK, Locking, a
<1>7. ASSUME NEW u \in Callers, u # t PROVE CallerOK(u, op[u], row', job[u])
  <2>1. CallerOK(u, op[u], row, job[u]) /\ op[u].todo \subseteq Jobs /\ (op[u].act # 0 => op[u].act \in Jobs)
    BY Zenon, LeaseFacts
  <2>2. op[u].act # 0 => row'[op[u].act] = row[op[u].act]
    BY Zenon, <1>3, <1>5, <1>7, <2>1, OneWriter DEF a
  <2>3. op[u].pc = "listed" => \A b \in Jobs : Expired(op[u].seen[b]) => Expired(row'[b])
    <3>1. SUFFICES ASSUME op[u].pc = "listed", NEW b \in Jobs, Expired(op[u].seen[b]) PROVE Expired(row'[b])
      BY Zenon
    <3>2. Expired(row[b]) /\ Locking(op[u])
      BY Zenon, <2>1, <3>1 DEF CallerOK, Locking
    <3>3. b # a
      BY Zenon, <1>3, <1>7, <3>2, NotListed DEF a
    <3> QED BY Zenon, <1>5, <3>2, <3>3
  <2>4. op[u].pc = "reap" \/ op[u].then = "reap" => \A b \in op[u].todo : Expired(row'[b])
    <3>1. SUFFICES ASSUME op[u].pc = "reap" \/ op[u].then = "reap", NEW b \in op[u].todo PROVE Expired(row'[b])
      BY Zenon
    <3>2. Expired(row[b]) /\ Locking(op[u])
      BY Zenon, <2>1, <3>1 DEF CallerOK, Locking
    <3>3. b # a
      BY Zenon, <1>3, <1>7, <3>2, NotListed DEF a
    <3> QED BY Zenon, <1>5, <2>1, <3>2, <3>3
  <2> QED BY Zenon, <2>1, <2>2, <2>3, <2>4 DEF CallerOK
<1>8. ASSUME NEW w \in Workers, AtWork(w) PROVE HeldRow(row'[job[w]], w)
  <2>1. HeldRow(row[job[w]], w) /\ job[w] \in Jobs
    <3>1. job[w] \in 0 .. MaxRuns /\ job[w] # 0
      BY Zenon, <1>8, LeaseFacts DEF AtWork
    <3> QED BY <1>8, <3>1, LeaseFacts, NumberAssumption DEF HolderOK, Jobs
  <2>2. CASE job[w] # a
    BY Zenon, <1>5, <2>1, <2>2
  <2>3. CASE job[w] = a
    <3>1. op[t].then \in {"return", "settled"}
      <4>1. op[t].then \in {"return", "idem", "settled", "claimed", "reap"}
        BY LeaseFacts DEF Call
      <4> QED BY Zenon, <1>4, <2>1, <2>3, <4>1 DEF PutOK, WriterOK, HeldRow, Final
    <3> QED BY <1>4, <1>5, <2>1, <2>3, <3>1 DEF PutOK, HeldRow
  <2> QED BY Zenon, <2>2, <2>3
<1>9. CallerOK(t, c, row', job'[t])
  BY <1>1, <1>6, Zenon
<1>10. t \in Workers /\ job'[t] # 0 /\ (alive[t] \/ c.act = job'[t]) => HeldRow(row'[job'[t]], t)
  BY Zenon, <1>1, <1>2, <1>8 DEF AtWork, a
<1>11. row[op[t].act].st \notin Final
  BY <1>4 DEF PutOK, a
<1> QED BY Zenon, <1>1, <1>3, <1>7, <1>8, <1>9, <1>10, <1>11, LeaseMoves

(* A call begins: nobody else is in a call that it could disturb. *)
LEMMA CallBegins ==
  ASSUME Races = {}, NEW t \in Callers, MayCall(t)
  PROVE  op[t] = Idle /\ \A u \in Callers : op[u] = Idle \/ (t \notin Clients /\ u \notin Clients)
BY DEF MayCall

(* StartActivity: the job is new. *)
LEMMA StartLease ==
  ASSUME Races = {}, AttemptsInv, AttemptsInv', LeaseInv, NEW t \in Clients, NEW r \in Requests,
         StartActivity(t, r)
  PROVE  LeaseInv'
<1>1. t \in Callers /\ MayCall(t) /\ row' = row /\ alive' = alive /\ job' = job /\ t \notin Workers
  BY CallersAssumption DEF StartActivity, Callers
<1>2. PICK a \in Jobs :
        /\ Started = 1 .. (a - 1)
        /\ op' = [op EXCEPT ![t] = [Idle EXCEPT !.pc = "put", !.act = a, !.copy = NewRow,
                                                !.req = r, !.then = "idem"]]
  BY Zenon DEF StartActivity
<1>3. row[a].st = "none" /\ a # 0
  <2>1. a \notin 1 .. (a - 1)
    BY NumberAssumption DEF Jobs
  <2> QED BY Zenon, <1>2, <2>1, NoJobIsZero DEF Started
<1> DEFINE c == [Idle EXCEPT !.pc = "put", !.act = a, !.copy = NewRow, !.req = r, !.then = "idem"]
<1>4. c.pc = "put" /\ c.act = a /\ c.then = "idem" /\ c.todo = {}
  BY DEF Idle
<1>5. op' = [op EXCEPT ![t] = c]
  BY Zenon, <1>2
<1> HIDE DEF c
<1>6. WriterOK(t, c, row[a], job[t])
  BY <1>1, <1>3, <1>4 DEF WriterOK, PutOK, Final
<1>7. CallerOK(t, c, row, job[t])
  BY Zenon, <1>3, <1>4, <1>6 DEF CallerOK, Locking
<1> QED BY Zenon, <1>1, <1>5, <1>7, CallBegins, CallGoesOn

(* Heartbeats, answers and cancellations, from the row they read. *)
LEMMA WriteLease ==
  ASSUME Races = {}, AttemptsInv, AttemptsInv', LeaseInv, NEW t \in Callers, MayCall(t),
         NEW a \in Jobs, NEW r, NEW then \in {"return", "settled"}, Write(t, a, r, then),
         row[a].st \notin Final, r.st \in Final \cup {"started"},
         r.holder = row[a].holder, r.lease = row[a].lease,
         \/ t \in Clients /\ then = "return"
         \/ t \in Workers /\ job[t] = a /\ alive[t],
         UNCHANGED <<row, job, alive>>
  PROVE  LeaseInv'
<1> DEFINE c == [op[t] EXCEPT !.pc = "put", !.act = a, !.copy = r, !.then = then]
<1>1. op' = [op EXCEPT ![t] = c]
  BY DEF Write
<1>2. c.pc = "put" /\ c.act = a /\ c.copy = r /\ c.then = then /\ c.todo = {} /\ a # 0
  <2>1. op[t] = Idle
    BY Zenon, CallBegins
  <2> QED BY <2>1, NoJobIsZero DEF Idle
<1> HIDE DEF c
<1>3. WriterOK(t, c, row[a], job[t])
  BY Zenon, <1>2, CallersAssumption DEF WriterOK, PutOK
<1>4. CallerOK(t, c, row, job[t])
  BY Zenon, <1>2, <1>3 DEF CallerOK, Locking
<1>5. t \in Workers /\ job[t] # 0 /\ c.act = job[t] => AtWork(t)
  BY Zenon, <1>2, CallersAssumption DEF AtWork
<1> QED BY Zenon, <1>1, <1>4, <1>5, CallBegins, CallGoesOn

(* A worker lets a closed job go. *)
LEMMA DropLease ==
  ASSUME AttemptsInv, AttemptsInv', LeaseInv, NEW w \in Workers, op[w] = Idle,
         job' = [job EXCEPT ![w] = 0], UNCHANGED <<row, op, alive>>
  PROVE  LeaseInv'
<1>1. w \in Callers /\ op' = [op EXCEPT ![w] = Idle]
  <2>1. w \in Callers /\ op \in [Callers -> Call]
    BY Zenon DEF Callers, AttemptsInv, TypeOK
  <2> QED BY Zenon, <2>1
<1>2. job'[w] = 0 /\ \A v \in Workers : v # w => job'[v] = job[v]
  BY <1>1, LeaseFacts
<1>3. CallerOK(w, Idle, row, job'[w])
  BY IdleLease
<1> QED BY Zenon, <1>1, <1>2, <1>3, RowsStay

(* HeartbeatActivity, CompleteActivity and FailActivity, of the job the worker holds. *)
LEMMA WorkerLease ==
  ASSUME Races = {}, AttemptsInv, AttemptsInv', LeaseInv, NEW w \in Workers,
         HeartbeatActivity(w) \/ \E status \in {"completed", "failed"} : Settle(w, status)
  PROVE  LeaseInv'
<1>1. MayCall(w) /\ alive[w] /\ w \in Callers /\ job[w] # 0 /\ op[w] = Idle
  BY Zenon DEF HeartbeatActivity, Settle, MayWork, MayCall, Callers
<1>2. job[w] \in Jobs /\ HeldRow(row[job[w]], w) /\ row[job[w]] \in Row
  <2>1. job[w] \in 0 .. MaxRuns /\ HolderOK
    BY Zenon, <1>1, LeaseFacts
  <2>2. job[w] \in Jobs
    BY <1>1, <2>1, NumberAssumption DEF Jobs
  <2> QED BY Zenon, <1>1, <2>1, <2>2, LeaseFacts DEF HolderOK, AtWork
<1> DEFINE a == job[w]
<1>3. CASE HeartbeatActivity(w)
  <2>1. CASE isActivityTerminal(row[a])
    BY <1>1, <1>3, <2>1, DropLease DEF HeartbeatActivity
  <2>2. CASE ~isActivityTerminal(row[a])
    <3>1. Write(w, a, HeartbeatRow(row[a]), "return") /\ UNCHANGED <<row, job, alive>>
      BY <1>3, <2>2 DEF HeartbeatActivity
    <3>2. /\ HeartbeatRow(row[a]).st = "started" /\ HeartbeatRow(row[a]).holder = row[a].holder
          /\ HeartbeatRow(row[a]).lease = row[a].lease
      BY Zenon, <1>2, NoJobIsZero DEF HeartbeatRow, Row, HeldRow
    <3>3. row[a].st \notin Final
      BY Zenon, <2>2 DEF isActivityTerminal
    <3> QED BY Zenon, <1>1, <1>2, <3>1, <3>2, <3>3, WriteLease
  <2> QED BY Zenon, <2>1, <2>2
<1>4. ASSUME NEW status \in {"completed", "failed"}, Settle(w, status) PROVE LeaseInv'
  <2>1. CASE isActivityTerminal(row[a])
    BY Zenon, <1>1, <1>4, <2>1, DropLease DEF Settle
  <2>2. CASE ~isActivityTerminal(row[a])
    <3>1. Write(w, a, Close(row[a], status), "settled") /\ UNCHANGED <<row, job, alive>>
      BY <1>4, <2>2 DEF Settle
    <3>2. /\ Close(row[a], status).st \in Final /\ Close(row[a], status).holder = row[a].holder
          /\ Close(row[a], status).lease = row[a].lease
      BY <1>2 DEF Close, Row, Final
    <3>3. row[a].st \notin Final
      BY <2>2 DEF isActivityTerminal
    <3> QED BY Zenon, <1>1, <1>2, <3>1, <3>2, <3>3, WriteLease
  <2> QED BY Zenon, <2>1, <2>2
<1> QED BY Zenon, <1>3, <1>4

(* CancelActivity, when no worker is in a call. *)
LEMMA CancelLease ==
  ASSUME Races = {}, AttemptsInv, AttemptsInv', LeaseInv, NEW t \in Clients, NEW a \in Jobs,
         CancelActivity(t, a)
  PROVE  LeaseInv'
<1>1. /\ t \in Callers /\ MayCall(t) /\ row[a].st \notin Final /\ UNCHANGED <<row, job, alive>>
      /\ Write(t, a, Close(row[a], "canceled"), "return")
  BY DEF CancelActivity, Callers, isActivityTerminal
<1>2. /\ Close(row[a], "canceled").st \in Final /\ Close(row[a], "canceled").holder = row[a].holder
      /\ Close(row[a], "canceled").lease = row[a].lease
  <2>1. row[a] \in Row
    BY <1>1, LeaseFacts
  <2> QED BY Zenon, <2>1 DEF Close, Row, Final
<1> QED BY Zenon, <1>1, <1>2, WriteLease

(* ClaimNextActivity and sweepLeases list the jobs under the claim lock. *)
LEMMA ListLease ==
  ASSUME Races = {}, AttemptsInv, AttemptsInv', LeaseInv, NEW t \in {Sweeper} \cup Workers, MayCall(t),
         t \in Workers => job[t] = 0, List(t)
  PROVE  LeaseInv'
<1> DEFINE c == [Idle EXCEPT !.pc = "listed", !.seen = row]
<1>1. t \in Callers /\ op' = [op EXCEPT ![t] = c] /\ row' = row /\ alive' = alive /\ job' = job
  BY DEF List, Callers
<1>2. c.pc = "listed" /\ c.seen = row /\ c.act = 0 /\ c.then = "return" /\ c.todo = {}
  BY Zenon DEF Idle
<1> HIDE DEF c
<1>3. CallerOK(t, c, row, job[t])
  BY Zenon, <1>2 DEF CallerOK
<1> QED BY Zenon, <1>1, <1>3, CallBegins, CallGoesOn

(* A stop of the engine: the rows stay, and workers keep their jobs. *)
LEMMA CrashLease ==
  ASSUME AttemptsInv, LeaseInv, Crash
  PROVE  LeaseInv'
<1>1. (\A t \in Callers : op'[t] = Idle) /\ row' = row /\ job' = job /\ alive' = alive
  BY Zenon DEF Crash
<1>2. HolderOK'
  <2>1. ASSUME NEW w \in Workers, AtWork(w)' PROVE AtWork(w)
    BY Zenon, <1>1, <2>1, IdleCall DEF AtWork, Callers
  <2> QED BY Zenon, <1>1, <2>1 DEF LeaseInv, HolderOK, HeldRow
<1>3. ClientsAlone'
  BY Zenon, <1>1 DEF ClientsAlone, Callers
<1> QED BY Zenon, <1>1, <1>2, <1>3, IdleLease DEF LeaseInv

(* A worker that dies. *)
LEMMA DieLease ==
  ASSUME AttemptsInv, LeaseInv, NEW w \in Workers, Die(w)
  PROVE  LeaseInv'
<1>1. /\ row' = row /\ job' = job /\ op' = op /\ alive' = [alive EXCEPT ![w] = FALSE]
      /\ alive \in [Workers -> BOOLEAN]
  BY DEF Die, AttemptsInv, TypeOK
<1>2. \A v \in Workers : alive'[v] => alive[v]
  BY Zenon, <1>1
<1>3. HolderOK'
  <2>1. ASSUME NEW v \in Workers, AtWork(v)' PROVE AtWork(v)
    BY Zenon, <1>1, <1>2, <2>1 DEF AtWork
  <2> QED BY Zenon, <1>1, <2>1 DEF LeaseInv, HolderOK, HeldRow
<1>4. ClientsAlone'
  BY <1>1 DEF LeaseInv, ClientsAlone
<1>5. \A t \in Callers : CallerOK(t, op'[t], row', job'[t])
  BY <1>1, Zenon DEF LeaseInv
<1> QED BY Zenon, <1>3, <1>4, <1>5 DEF LeaseInv

(* Time: only the leases of jobs that nobody works on, or writes, run down. *)
LEMMA TickLease ==
  ASSUME Races = {}, AttemptsInv, AttemptsInv', LeaseInv, NEW a \in Jobs, Tick(a)
  PROVE  LeaseInv'
<1>1. /\ \A w \in Workers : job[w] = a => ~alive[w]
      /\ \A t \in Callers : op[t].act # a /\ op[t].pc # "listed"
      /\ row' = [row EXCEPT ![a] = Age(row[a])] /\ job' = job /\ alive' = alive
  BY Zenon DEF Tick
<1>2. /\ row \in [Jobs -> Row] /\ job \in [Workers -> 0 .. MaxRuns] /\ HolderOK /\ ClientsAlone
      /\ \A t \in Callers : CallerOK(t, op[t], row, job[t])
  BY Zenon DEF LeaseInv, AttemptsInv, TypeOK
<1>3. row'[a] = Age(row[a]) /\ \A b \in Jobs : b # a => row'[b] = row[b]
  BY <1>1, <1>2
<1>4. ASSUME NEW t \in Callers
      PROVE  /\ op'[t] = [op[t] EXCEPT !.seen = [op[t].seen EXCEPT ![a] = Age(op[t].seen[a])]]
             /\ op'[t].pc = op[t].pc /\ op'[t].act = op[t].act /\ op'[t].then = op[t].then
             /\ op'[t].todo = op[t].todo /\ op'[t].copy = op[t].copy
  <2>1. op[t].act # a /\ op[t] \in Call
    BY <1>1, LeaseFacts
  <2> DEFINE s == [op[t].seen EXCEPT ![a] = Age(op[t].seen[a])]
  <2>2. op'[t] = [op[t] EXCEPT !.seen = s, !.copy = op[t].copy]
    BY <2>1, Zenon DEF Tick
  <2> HIDE DEF s
  <2>3. [op[t] EXCEPT !.seen = s, !.copy = op[t].copy] = [op[t] EXCEPT !.seen = s]
    BY Zenon, <2>1 DEF Call
  <2>4. op'[t] = [op[t] EXCEPT !.seen = s]
    BY Zenon, <2>2, <2>3
  <2>5. /\ op'[t].pc = op[t].pc /\ op'[t].act = op[t].act /\ op'[t].then = op[t].then
        /\ op'[t].todo = op[t].todo /\ op'[t].copy = op[t].copy
    BY Zenon, <2>1, <2>4 DEF Call
  <2> QED BY Zenon, <2>4, <2>5 DEF s
<1>5. HolderOK'
  <2>1. ASSUME NEW w \in Workers, AtWork(w)' PROVE HeldRow(row'[job'[w]], w)
    <3>0. w \in Callers
      BY DEF Callers
    <3>1. AtWork(w)
      BY Zenon, <1>1, <1>4, <2>1, <3>0 DEF AtWork
    <3>2. job[w] # a /\ job[w] \in Jobs
      <4>1. job[w] # a
        BY Zenon, <1>1, <3>0, <3>1 DEF AtWork
      <4>2. job[w] \in 0 .. MaxRuns /\ job[w] # 0
        BY Zenon, <1>2, <3>1 DEF AtWork
      <4> QED BY <4>1, <4>2, NumberAssumption DEF Jobs
    <3> QED BY Zenon, <1>1, <1>2, <1>3, <3>1, <3>2 DEF HolderOK
  <2> QED BY Zenon, <2>1 DEF HolderOK, HeldRow
<1>6. \A b \in Jobs : Expired(row[b]) => row'[b] = row[b]
  <2>1. row[a] \in Row
    BY <1>2
  <2>2. Expired(row[a]) => Age(row[a]) = row[a]
    BY <2>1 DEF Expired, Age, Row
  <2> QED BY Zenon, <1>3, <2>2
<1>9. ASSUME NEW t \in Callers, op[t] = Idle PROVE op'[t] = Idle
  <2>1. Idle.seen = [b \in Jobs |-> NoRow] /\ Age(NoRow) = NoRow
    BY IdleCall DEF Age, NoRow, NoLease
  <2>2. [Idle.seen EXCEPT ![a] = Age(Idle.seen[a])] = Idle.seen
    BY <2>1
  <2>3. op'[t] = [Idle EXCEPT !.seen = Idle.seen]
    BY <1>4, <1>9, <2>2
  <2> QED BY <2>3 DEF Idle
<1>7. ASSUME NEW t \in Callers PROVE CallerOK(t, op'[t], row', job'[t])
  <2>0. (op[t].act # 0 => op[t].act \in Jobs) /\ op[t].todo \subseteq Jobs
    BY LeaseFacts
  <2>1. op[t].act # 0 => WriterOK(t, op'[t], row'[op[t].act], job'[t])
    <3> SUFFICES ASSUME op[t].act # 0 PROVE WriterOK(t, op'[t], row'[op[t].act], job'[t])
      OBVIOUS
    <3>1. row'[op[t].act] = row[op[t].act] /\ WriterOK(t, op[t], row[op[t].act], job[t])
      BY Zenon, <1>1, <1>2, <1>3, <2>0 DEF CallerOK
    <3> DEFINE c == op'[t]
               r == row[op[t].act]
    <3>2. /\ c.pc = op[t].pc /\ c.act = op[t].act /\ c.then = op[t].then /\ c.copy = op[t].copy
      BY Zenon, <1>4
    <3>3. WriterOK(t, op[t], r, job[t])
      BY <3>1
    <3> HIDE DEF c, r
    <3>4. WriterOK(t, c, r, job[t])
      BY Zenon, <3>2, <3>3 DEF WriterOK, PutOK
    <3> QED BY <1>1, <3>1, <3>4, Zenon DEF c, r
  <2>2. op[t].pc = "reap" \/ op[t].then = "reap" => \A b \in op[t].todo : Expired(row'[b])
    BY Zenon, <1>2, <1>6, <2>0 DEF CallerOK
  <2>3. CallerOK(t, op[t], row, job[t]) /\ op[t].pc # "listed"
    BY <1>1, <1>2
  <2>4. t \in Workers /\ Locking(op'[t]) => job'[t] = 0
    BY Zenon, <1>1, <1>4, <2>3 DEF CallerOK, Locking
  <2>5. op'[t].pc = "idle" => op'[t] = Idle
    BY Zenon, <1>4, <1>9, <2>3 DEF CallerOK
  <2> QED BY Zenon, <1>4, <2>1, <2>2, <2>3, <2>4, <2>5 DEF CallerOK
<1>8. ClientsAlone'
  <2>1. ASSUME NEW t \in Callers PROVE op'[t] = Idle <=> op[t] = Idle
    <3>1. op'[t] = Idle => op[t].pc = "idle"
      BY Zenon, <1>4, IdleCall
    <3>2. op[t].pc = "idle" => op[t] = Idle
      BY <1>2 DEF CallerOK
    <3> QED BY <1>9, <3>1, <3>2
  <2> QED BY Zenon, <1>2, <2>1 DEF ClientsAlone, Callers
<1> QED BY <1>5, <1>7, <1>8 DEF LeaseInv

(* LeaseInv is an invariant when calls are short against a lease, workers send their
   heartbeats in time and clients do not call at the same time as workers. *)
THEOREM LeaseInvariant == Races = {} => (Spec => []LeaseInv)
<1> SUFFICES ASSUME Races = {} PROVE Spec => []LeaseInv
  BY Zenon
<1>1. Init => LeaseInv
  <2> SUFFICES ASSUME Init PROVE LeaseInv
    OBVIOUS
  <2>1. (\A t \in Callers : op[t] = Idle) /\ \A w \in Workers : job[w] = 0
    BY Zenon DEF Init
  <2> QED BY Zenon, <2>1, IdleLease DEF LeaseInv, HolderOK, AtWork, ClientsAlone
<1>2. AttemptsInv /\ AttemptsInv' /\ LeaseInv /\ [Next]_vars => LeaseInv'
  <2> SUFFICES ASSUME AttemptsInv, AttemptsInv', LeaseInv, [Next]_vars PROVE LeaseInv'
    BY Zenon
  <2>1. CASE UNCHANGED vars
    <3>1. row' = row /\ op' = op /\ job' = job /\ alive' = alive
      BY Zenon, <2>1 DEF vars
    <3>2. HolderOK' /\ ClientsAlone'
      BY <3>1 DEF LeaseInv, HolderOK, AtWork, HeldRow, ClientsAlone
    <3>3. \A t \in Callers : CallerOK(t, op'[t], row', job'[t])
      BY <3>1, Zenon DEF LeaseInv
    <3> QED BY <3>2, <3>3 DEF LeaseInv
  <2>2. CASE sweepLeases
    BY Zenon, <2>2, ListLease, CallersAssumption DEF sweepLeases
  <2>3. ASSUME NEW t \in Callers, Step(t) PROVE LeaseInv'
    BY Zenon, <2>3, JudgeLease, ReapLease, TakeLease, LeaveLease, PutLease, PutIdemLease, AppendGetLease,
       AppendPutLease DEF Step
  <2>4. ASSUME NEW w \in Workers, ClaimNextActivity(w) PROVE LeaseInv'
    BY <2>4, ListLease DEF ClaimNextActivity, MayWork
  <2> QED
    BY Zenon, <2>1, <2>2, <2>3, <2>4, CrashLease, TickLease, StartLease, CancelLease, WorkerLease, DieLease
       DEF Next
<1> QED BY <1>1, <1>2, AttemptsInvariant, PTL DEF Spec

(* Two living workers never work on one job (ClaimNextActivity). *)
THEOREM OneWorkerPerJob == Races = {} => (Spec => []OneHolder)
<1>1. AttemptsInv /\ LeaseInv => OneHolder
  BY DEF LeaseInv, HolderOK, AtWork, HeldRow, OneHolder
<1> QED BY <1>1, AttemptsInvariant, LeaseInvariant, PTL

(* A closed job stays as it was closed (reapExpiredLeases, appendActivityHistory). *)
THEOREM ClosedJobsStay == Races = {} => (Spec => StaysClosed)
<1> SUFFICES ASSUME Races = {} PROVE Spec => StaysClosed
  OBVIOUS
<1>1. ASSUME AttemptsInv, AttemptsInv', LeaseInv, [Next]_vars
      PROVE  \A a \in Jobs : row[a].st \in Final => row'[a].st = row[a].st
  <2>0. row \in [Jobs -> Row]
    BY Zenon, <1>1 DEF AttemptsInv, TypeOK
  <2>1. ASSUME NEW t \in Callers, Put(t) PROVE \A a \in Jobs : row[a].st \in Final => row'[a] = row[a]
    <3>1. row' = [row EXCEPT ![op[t].act] = op[t].copy] /\ row[op[t].act].st \notin Final
      BY Zenon, <1>1, <2>1, PutLease DEF Put
    <3> QED BY <2>0, <3>1
  <2>2. ASSUME NEW t \in Callers, AppendPut(t) PROVE row' = row
    <3>1. op[t].pc = "append_put" /\ row' = [row EXCEPT ![op[t].act] = op[t].copy]
      BY <2>2 DEF AppendPut
    <3>2. op[t].copy = row[op[t].act]
      BY Zenon, <1>1, <3>1, LeaseFacts DEF CallerOK, WriterOK
    <3> QED BY <2>0, <3>1, <3>2
  <2>3. ASSUME NEW a \in Jobs, Tick(a) PROVE \A b \in Jobs : row'[b].st = row[b].st
    <3>1. row' = [row EXCEPT ![a] = Age(row[a])]
      BY Zenon, <2>3 DEF Tick
    <3>2. Age(row[a]).st = row[a].st
      BY <2>0 DEF Age, Row
    <3> QED BY <2>0, <3>1, <3>2
  <2>4. ASSUME NEW t \in Callers, Step(t) PROVE row' = row \/ Put(t) \/ AppendPut(t)
    BY <2>4, Zenon DEF Step, Judge, Reap, Take, Leave, PutIdem, AppendGet
  <2>5. \/ row' = row \/ (\E t \in Callers : Step(t)) \/ (\E a \in Jobs : Tick(a))
    BY <1>1, Zenon
       DEF Next, vars, sweepLeases, List, Crash, StartActivity, CancelActivity, ClaimNextActivity,
           HeartbeatActivity, Settle, Die
  <2> QED BY Zenon, <2>1, <2>2, <2>3, <2>4, <2>5
<1>2. AttemptsInv /\ AttemptsInv' /\ LeaseInv /\ [Next]_vars =>
        [\A a \in Jobs : row[a].st \in Final => row'[a].st = row[a].st]_vars
  BY <1>1
<1> QED BY <1>2, AttemptsInvariant, LeaseInvariant, PTL DEF Spec, StaysClosed
=============================================================================
