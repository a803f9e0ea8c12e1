------------------------------ MODULE Failures -------------------------------
(***************************************************************************)
(* The failure record of one execution identity (failure.go): the durable  *)
(* row fail/<ns>/<fingerprint>, written by recordFailure and deleted by    *)
(* clearFailure, and the in-memory failTracker that throttles its log      *)
(* lines.  Several runs of one broken thing report at the same time; the   *)
(* per-identity lock orders their read-modify-writes.  The store may fail  *)
(* a read (recordFailure then starts a new row) or a write (ignored), and  *)
(* the process may die between the row and the log line.                   *)
(***************************************************************************)
EXTENDS Integers, FiniteSets

CONSTANTS
  Reporters,        \* goroutines that finish attempts of this identity
  FailEvery,        \* failReportThrottle
  PersistentAfter,  \* failPersistentAfter
  MaxAge,           \* bound: the last instant
  MaxReports,       \* bound: failures recorded
  MaxStoreFaults    \* bound: store errors and crashes

ASSUME FailuresAssumption ==
  /\ 0 \notin Reporters /\ FailEvery \in Nat \ {0} /\ PersistentAfter \in Nat
  /\ MaxAge \in Nat /\ MaxReports \in Nat /\ MaxStoreFaults \in Nat

VARIABLES
  age,        \* the clock
  streak,     \* the durable row; n = 0 is no row
  tracker,    \* failTracker.n of the key
  holder,     \* who holds the identity's lock, or NoHolder
  report,     \* per reporter: where recordFailure or clearFailure is, and its copy
  failed,     \* history: failures since the last success, as the lock orders them
  paged,      \* history: an ERROR line was written since the last success
  blurred,    \* history: the store failed since the last success
  owed,       \* history: the process died between the row and its line, not paged since
  reports, storeFaults

failVars == <<age, streak, tracker, holder, report, failed, paged, blurred, owed, reports, storeFaults>>

NoHolder == 0
NoStreak == [n |-> 0, since |-> 0, persistent |-> FALSE]
Done == [pc |-> "idle", rec |-> NoStreak, was |-> FALSE]

FailuresInit ==
  /\ age = 0 /\ streak = NoStreak /\ tracker = 0 /\ holder = NoHolder
  /\ report = [r \in Reporters |-> Done]
  /\ failed = 0 /\ paged = FALSE /\ blurred = FALSE /\ owed = FALSE /\ reports = 0 /\ storeFaults = 0

StoreFault(bad) ==
  /\ bad => storeFaults < MaxStoreFaults
  /\ storeFaults' = IF bad THEN storeFaults + 1 ELSE storeFaults
-----------------------------------------------------------------------------
(* recordFailure.  The row is read under the lock; one that cannot be read is
   taken for missing. *)
LockIgnored(r) == TRUE \* mutant
LockFree(r) == holder = NoHolder

Counted(rec) ==
  [rec EXCEPT !.n = @ + 1, !.persistent = rec.n + 1 > 1 /\ age - rec.since >= PersistentAfter]

recordFailure(r, unread) ==
  /\ report[r].pc = "idle" /\ LockFree(r) /\ reports < MaxReports
  /\ LET rec == IF unread \/ streak.n = 0 THEN [NoStreak EXCEPT !.since = age] ELSE streak
     IN report' = [report EXCEPT ![r] = [pc |-> "put", rec |-> Counted(rec), was |-> rec.persistent]]
  /\ holder' = r /\ reports' = reports + 1 /\ StoreFault(unread)
  /\ failed' = failed + 1 /\ blurred' = (blurred \/ unread)
  /\ UNCHANGED <<age, streak, tracker, paged, owed>>

PutStreak(r, lost) ==
  /\ report[r].pc = "put" /\ report' = [report EXCEPT ![r].pc = "log"]
  /\ streak' = IF lost THEN streak ELSE report[r].rec
  /\ blurred' = (blurred \/ lost) /\ StoreFault(lost)
  /\ UNCHANGED <<age, tracker, holder, failed, paged, owed, reports>>

(* shouldReport, or the transition to persistent, which no throttle holds back. *)
shouldReport(n) == n = 1 \/ n % FailEvery = 0
ReportedThrottled(n, rec, was) == shouldReport(n) \* mutant
Reported(n, rec, was) == shouldReport(n) \/ (rec.persistent /\ ~was)

(* failTracker: fail, and ok. *)
Incremented == tracker + 1
Cleared == 0

(* failTracker.fail and the line, at level ERROR when the streak is persistent. *)
LogFailure(r) ==
  /\ report[r].pc = "log" /\ report' = [report EXCEPT ![r] = Done]
  /\ tracker' = Incremented /\ holder' = NoHolder
  /\ paged' = (paged \/ (Reported(Incremented, report[r].rec, report[r].was) /\ report[r].rec.persistent))
  /\ owed' = (owed /\ ~paged')
  /\ UNCHANGED <<age, streak, failed, blurred, reports, storeFaults>>

(* clearFailure: the throttle is cleared, then the row is read and deleted. *)
clearFailure(r) ==
  /\ report[r].pc = "idle" /\ LockFree(r)
  /\ holder' = r /\ tracker' = Cleared /\ report' = [report EXCEPT ![r].pc = "del"]
  /\ UNCHANGED <<age, streak, failed, paged, blurred, owed, reports, storeFaults>>

DelStreak(r, kept) ==
  /\ report[r].pc = "del" /\ report' = [report EXCEPT ![r] = Done] /\ holder' = NoHolder
  /\ streak' = IF kept THEN streak ELSE NoStreak
  /\ failed' = 0 /\ blurred' = kept /\ StoreFault(kept)
  /\ paged' = (kept /\ paged) /\ owed' = (kept /\ owed)
  /\ UNCHANGED <<age, tracker, reports>>
-----------------------------------------------------------------------------
Age ==
  /\ age < MaxAge /\ age' = age + 1
  /\ UNCHANGED <<streak, tracker, holder, report, failed, paged, blurred, owed, reports, storeFaults>>

(* The process dies and restarts: the throttle and the locks are gone.  A failure
   whose row was not yet put is lost with it. *)
FailCrash ==
  /\ StoreFault(TRUE) /\ tracker' = 0 /\ holder' = NoHolder
  /\ report' = [r \in Reporters |-> Done]
  /\ owed' = (owed \/ \E r \in Reporters : report[r].pc = "log")
  /\ blurred' = (blurred \/ \E r \in Reporters : report[r].pc \in {"put", "del"})
  /\ UNCHANGED <<age, streak, failed, paged, reports>>

FailuresNext ==
  \/ \E r \in Reporters :
       \/ \E bad \in BOOLEAN : recordFailure(r, bad) \/ PutStreak(r, bad) \/ DelStreak(r, bad)
       \/ LogFailure(r) \/ clearFailure(r)
  \/ Age \/ FailCrash

FailuresSpec == FailuresInit /\ [][FailuresNext]_failVars
-----------------------------------------------------------------------------
(* The row counts every failure since the last success, however many runs of the
   identity fail at once and across restarts, unless the store lost a read or a
   write of this streak. *)
StreakCounts ==
  ~blurred /\ (\A r \in Reporters : report[r].pc \notin {"put", "del"}) => streak.n = failed

(* A row that says persistent has been paged: an ERROR line was written since the
   last success, on failure two of a slow schedule as much as on failure sixty,
   across restarts and store errors.  The exception is a process that dies between
   the row and the line, and it lasts until the next failure (the tracker restarts
   at zero), longer only if the store failed in this streak as well: the line of a
   failure that could not read the row takes the tracker's first report, and the
   page waits for the throttle's next one. *)
Paged == paged \/ (owed /\ (tracker = 0 \/ blurred))

PersistentPaged == streak.persistent /\ holder = NoHolder => Paged
-----------------------------------------------------------------------------
(* What holds in every state on the way: only the lock's holder is at work, and
   what its row and its copy of the row say is counted, or paged. *)
Streaks == [n : Nat, since : Nat, persistent : BOOLEAN]

FailuresTypeOK ==
  /\ age \in Nat /\ tracker \in Nat /\ failed \in Nat /\ reports \in Nat /\ storeFaults \in Nat
  /\ streak \in Streaks /\ holder \in Reporters \cup {NoHolder}
  /\ report \in [Reporters -> [pc : {"idle", "put", "log", "del"}, rec : Streaks, was : BOOLEAN]]
  /\ paged \in BOOLEAN /\ blurred \in BOOLEAN /\ owed \in BOOLEAN

LockHeld == \A r \in Reporters : report[r].pc # "idle" => holder = r

(* At "put" the copy is one failure ahead of the row; everywhere else the row is
   up to date. *)
CountHeld ==
  ~blurred => /\ \A r \in Reporters : report[r].pc = "put" => report[r].rec.n = failed
              /\ (\A r \in Reporters : report[r].pc # "put") => streak.n = failed

(* A row found persistent was paged.  The row put by the failure that makes it
   persistent is the only one that is not, and only until that failure's line. *)
PageHeld ==
  /\ \A r \in Reporters :
       /\ report[r].pc \in {"put", "log"} /\ report[r].rec.persistent /\ report[r].was => Paged
       /\ report[r].pc = "log" => streak = report[r].rec \/ (blurred /\ (streak.persistent => Paged))
  /\ (\A r \in Reporters : report[r].pc # "log") /\ streak.persistent => Paged

FailuresInv == FailuresTypeOK /\ LockHeld /\ CountHeld /\ PageHeld
=============================================================================
