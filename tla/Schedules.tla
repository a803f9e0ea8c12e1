------------------------------ MODULE Schedules ------------------------------
(***************************************************************************)
(* Schedules and the cron sweeper (engine.go, engine_extras.go).           *)
(*                                                                         *)
(* One schedule row, the sweeper goroutine and one API caller.  Nothing    *)
(* locks the row: the sweeper collects a copy, starts the action and puts  *)
(* the copy back; PauseSchedule, UpdateSchedule and TriggerSchedule read,  *)
(* change and put.  Each read, start and put is a step.  Times are the     *)
(* seconds RFC3339 keeps.  A caller takes its time stamp and puts the row  *)
(* in one step: the two lines are adjacent and the stamp has one second.   *)
(***************************************************************************)
EXTENDS Integers, FiniteSets, Sequences, FiniteSetsExt

CONSTANTS
  Specs,      \* the specs an API caller sends: sets of entries [kind, every]
  MaxClock,   \* bound: the last second
  MaxCalls,   \* bound: API calls that change the row
  MaxFaults   \* bound: failed starts, unreached fires, failed puts and crashes

ASSUME SchedulesAssumption ==
  /\ MaxClock \in Nat /\ MaxCalls \in Nat /\ MaxFaults \in Nat
  /\ \A sp \in Specs : \A en \in sp : en.kind \in {"cron", "interval"} /\ en.every \in Int

VARIABLES
  clock,    \* time.Now, in seconds
  sched,    \* the row sc/<ns>/<id>, or NoSchedule
  sweep,    \* the sweeper: where it is, its now, its copy of the row, the tick
  call,     \* the API caller: the operation, its argument, its copy of the row
  sctrig,   \* the row sctrig/<ns>/<id>/<request>: is it there
  fails,    \* failTracker's count for the schedule's key
  fired,    \* history: the ticks of the runs the sweeper started
  undone,   \* history: ticks whose run started and whose re-anchoring was lost
  calls, faults

schedVars == <<clock, sched, sweep, call, sctrig, fails, fired, undone, calls, faults>>

NoSchedule == [spec |-> {}, paused |-> TRUE, anchor |-> -1, next |-> -1, count |-> 0]
NoSweep == [pc |-> "idle", at |-> 0, copy |-> NoSchedule, tick |-> 0]
NoCall == [op |-> "none", arg |-> {}, copy |-> NoSchedule]
-----------------------------------------------------------------------------
(* nextScheduleFire: the earliest fire over the valid entries.  A cron entry
   fires at the next multiple of its period strictly after the anchor, an
   interval one interval after it.  -1 stands for (time.Time{}, false). *)
FireOf(en, after) == IF en.kind = "cron" THEN (after \div en.every + 1) * en.every
                     ELSE after + en.every
nextScheduleFire(spec, after) ==
  LET valid == {en \in spec : en.every > 0}
  IN IF valid = {} THEN -1 ELSE Min({FireOf(en, after) : en \in valid})

(* The NextActionTime shown in the row keeps its value when no entry is valid. *)
NextShown(s, after) == LET n == nextScheduleFire(s.spec, after) IN IF n = -1 THEN s.next ELSE n

IsThere(s) == s.anchor >= 0
-----------------------------------------------------------------------------
(* reportFire's counter: a fault extends the streak, a fire that reaches a
   worker ends it. *)
reportFire(fault) ==
  IF fault THEN fails' = fails + 1 /\ faults < MaxFaults /\ faults' = faults + 1
  ELSE fails' = 0 /\ UNCHANGED faults
-----------------------------------------------------------------------------
SchedulesInit ==
  /\ clock = 0 /\ sched = NoSchedule /\ sweep = NoSweep /\ call = NoCall /\ sctrig = FALSE
  /\ fails = 0 /\ fired = <<>> /\ undone = {} /\ calls = 0 /\ faults = 0

SchedTick ==
  /\ clock < MaxClock /\ clock' = clock + 1
  /\ UNCHANGED <<sched, sweep, call, sctrig, fails, fired, undone, calls, faults>>

(* sweepSchedules, phase 1: collect the schedule when it is due.  The anchor is
   the last update time, or the create time of a row never updated. *)
Collect ==
  /\ sweep.pc = "idle" /\ IsThere(sched) /\ ~sched.paused
  /\ LET tick == nextScheduleFire(sched.spec, sched.anchor)
     IN /\ tick # -1 /\ tick <= clock
        /\ sweep' = [pc |-> "fire", at |-> clock, copy |-> sched, tick |-> tick]
  /\ UNCHANGED <<clock, sched, call, sctrig, fails, fired, undone, calls, faults>>

(* Phase 2: the start fails, and the schedule is not re-anchored ... *)
FireFails ==
  /\ sweep.pc = "fire" /\ reportFire(TRUE) /\ sweep' = NoSweep
  /\ UNCHANGED <<clock, sched, call, sctrig, fired, undone, calls>>

(* ... or the run starts, whether or not a worker is there to take it ... *)
Fire(unreached) ==
  /\ sweep.pc = "fire" /\ reportFire(unreached)
  /\ fired' = Append(fired, sweep.tick) /\ sweep' = [sweep EXCEPT !.pc = "put"]
  /\ UNCHANGED <<clock, sched, call, sctrig, undone, calls>>

(* ... and the copy is re-anchored at the sweep's now and put back. *)
ReAnchoredAtTick(s, at, tick) == [s EXCEPT !.count = @ + 1, !.anchor = tick - 1, !.next = NextShown(s, at)] \* mutant
ReAnchored(s, at, tick) == [s EXCEPT !.count = @ + 1, !.anchor = at, !.next = NextShown(s, at)]

PutBack ==
  /\ sweep.pc = "put" /\ sched' = ReAnchored(sweep.copy, sweep.at, sweep.tick) /\ sweep' = NoSweep
  /\ UNCHANGED <<clock, call, sctrig, fails, fired, undone, calls, faults>>

(* The put fails, or the process dies before it; the failure tracker is in
   memory, and the API call in progress dies with the process. *)
SweepCut(crash) ==
  /\ sweep.pc # "idle" /\ (sweep.pc = "put" \/ crash)
  /\ faults < MaxFaults /\ faults' = faults + 1 /\ sweep' = NoSweep
  /\ undone' = IF sweep.pc = "put" THEN undone \cup {sweep.tick} ELSE undone
  /\ IF crash THEN call' = NoCall /\ fails' = 0 ELSE UNCHANGED <<call, fails>>
  /\ UNCHANGED <<clock, sched, sctrig, fired, calls>>
-----------------------------------------------------------------------------
(* The API. *)
CreateSchedule(spec) ==
  /\ call = NoCall /\ calls < MaxCalls /\ calls' = calls + 1
  /\ sched' = [spec |-> spec, paused |-> FALSE, anchor |-> clock, next |-> nextScheduleFire(spec, clock), count |-> 0]
  /\ UNCHANGED <<clock, sweep, call, sctrig, fails, fired, undone, faults>>

(* DeleteSchedule drops the failure count with the row. *)
DeleteSchedule ==
  /\ call = NoCall /\ calls < MaxCalls /\ calls' = calls + 1
  /\ sched' = NoSchedule /\ fails' = 0
  /\ UNCHANGED <<clock, sweep, call, sctrig, fired, undone, faults>>

(* DescribeSchedule, the read the other three start with.  A missing row is an
   error and changes nothing. *)
DescribeSchedule(op, arg) ==
  /\ call = NoCall /\ calls < MaxCalls /\ calls' = calls + 1 /\ IsThere(sched)
  /\ ~(op = "trigger" /\ sctrig)   \* the request has been served
  /\ call' = [op |-> op, arg |-> arg, copy |-> sched]
  /\ UNCHANGED <<clock, sched, sweep, sctrig, fails, fired, undone, faults>>

Replies(s) ==
  /\ sched' = [s EXCEPT !.anchor = clock]
  /\ UNCHANGED <<clock, sweep, fails, fired, undone, calls, faults>>

PauseSchedule ==
  /\ call.op \in {"pause", "resume"} /\ call' = NoCall
  /\ Replies([call.copy EXCEPT !.paused = (call.op = "pause")]) /\ UNCHANGED sctrig

UpdateSchedule ==
  /\ call.op = "update" /\ call' = NoCall
  /\ \E paused \in BOOLEAN :
       LET s == [call.copy EXCEPT !.spec = call.arg, !.paused = paused]
       IN Replies([s EXCEPT !.next = NextShown(s, clock)])
  /\ UNCHANGED sctrig

(* TriggerSchedule starts the run, counts it, and records the request last. *)
TriggerSchedule ==
  /\ call.op = "trigger" /\ call' = [call EXCEPT !.op = "record"]
  /\ Replies([call.copy EXCEPT !.count = @ + 1]) /\ UNCHANGED sctrig

TriggerRecorded ==
  /\ call.op = "record" /\ call' = NoCall /\ sctrig' = TRUE
  /\ UNCHANGED <<clock, sched, sweep, fails, fired, undone, calls, faults>>

SchedulesNext ==
  \/ SchedTick \/ Collect \/ FireFails \/ PutBack
  \/ \E b \in BOOLEAN : Fire(b) \/ SweepCut(b)
  \/ \E sp \in Specs : CreateSchedule(sp) \/ DescribeSchedule("update", sp)
  \/ DeleteSchedule \/ \E op \in {"pause", "resume", "trigger"} : DescribeSchedule(op, {})
  \/ PauseSchedule \/ UpdateSchedule \/ TriggerSchedule \/ TriggerRecorded

SchedulesSpec == SchedulesInit /\ [][SchedulesNext]_schedVars
-----------------------------------------------------------------------------
(* The sweeper starts a given tick of a schedule at most once, and ticks in
   ascending order, whatever API calls overwrite the row, are overwritten by it,
   or delete and recreate it in between.  Only a fire whose re-anchoring was
   lost to a failed put or a crash may be repeated. *)
TickOnce ==
  \A i, j \in 1..Len(fired) : i < j /\ fired[j] <= fired[i] => fired[j] \in undone
-----------------------------------------------------------------------------
(* What holds in every state on the way. *)
AllSpecs == Specs \cup {{}}
ScheduleRows == [spec : AllSpecs, paused : BOOLEAN, anchor : Nat \cup {-1}, next : Int, count : Nat]

SchedulesTypeOK ==
  /\ clock \in Nat /\ fails \in Nat /\ calls \in Nat /\ faults \in Nat /\ sctrig \in BOOLEAN
  /\ sched \in ScheduleRows
  /\ sweep \in [pc : {"idle", "fire", "put"}, at : Nat, copy : ScheduleRows, tick : Nat]
  /\ call \in [op : {"none", "pause", "resume", "update", "trigger", "record"}, arg : AllSpecs, copy : ScheduleRows]
  /\ fired \in Seq(Nat) /\ undone \in SUBSET Nat

(* The sweep's now is not in the future and its tick was due; every tick fired so
   far was due by then, and none is at or after this tick unless it was undone. *)
SweepHeld ==
  /\ \A i \in 1..Len(fired) : fired[i] <= clock
  /\ sweep.pc # "idle" =>
       sweep.tick <= sweep.at /\ sweep.at <= clock /\ \A i \in 1..Len(fired) : fired[i] <= sweep.at
  /\ sweep.pc = "fire" =>
       /\ \A i \in 1..Len(fired) : sweep.tick <= fired[i] => sweep.tick \in undone
       /\ IsThere(sched) /\ sched.anchor < sweep.tick
            => nextScheduleFire(sched.spec, sched.anchor) = sweep.tick

(* A tick fired after the row's anchor is the row's next tick, and its re-anchoring
   was lost or is still to come. *)
AnchorHeld ==
  IsThere(sched) =>
    \A i \in 1..Len(fired) : fired[i] > sched.anchor =>
      /\ nextScheduleFire(sched.spec, sched.anchor) = fired[i]
      /\ fired[i] \in undone \/ (sweep.pc = "put" /\ sweep.tick = fired[i])

SchedulesInv == SchedulesTypeOK /\ SweepHeld /\ AnchorHeld /\ TickOnce
=============================================================================
