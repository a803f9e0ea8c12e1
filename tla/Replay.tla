------------------------------- MODULE Replay -------------------------------
(***************************************************************************)
(* The replaying decider of the SDK (pkg/sdk/worker: env, replay,          *)
(* dispatch) across the decision episodes of one run.  A workflow task     *)
(* carries a prefix of the run's history; a worker re-runs the workflow    *)
(* function from the top against it and answers with commands.  Episodes   *)
(* of one run overlap: the tasks of two activity results are in flight     *)
(* together, a task is delivered again after a restart, answers overtake   *)
(* each other.                                                             *)
(*                                                                         *)
(* The function is a sequence of instructions, chosen from Programs:       *)
(*   call  ExecuteActivity of one of two types, by the coin of a SideEffect*)
(*   get   Future.Get; a failed activity makes the function return it      *)
(*   try   Future.Get whose error the function ignores                     *)
(*   side  SideEffect, GetVersion or MutableSideEffect: sets the coin      *)
(* The same function under StubEnv, with the activities' outcomes queued   *)
(* as its responses, is the reference for what a run should do.            *)
(***************************************************************************)
EXTENDS Integers, Sequences, SequencesExt

CONSTANTS
  Programs,    \* sequences of instructions [do, arg]
  Coins        \* what a SideEffect's function may return

VARIABLES
  program,     \* the workflow function of this run
  history,     \* the activity events of the run, in order
  tasks,       \* workflow tasks in flight: the lengths of the prefixes they carry
  answers,     \* command batches in flight to the server
  outcome,     \* how the run closed: "open", "complete" or "fail"
  assigned     \* history variable: per seq, the types that episodes gave it

replayVars == <<program, history, tasks, answers, outcome, assigned>>

Seqs == 0 .. Len(program) - 1
Event(kind, seq, type) == [kind |-> kind, seq |-> seq, type |-> type]

ReplayInit ==
  /\ program \in Programs
  /\ history = <<>> /\ tasks = {0} /\ answers = {} /\ outcome = "open"
  /\ assigned = [s \in Seqs |-> {}]

-----------------------------------------------------------------------------
(* loadHistory: what a prefix of the history says of a seq. *)
Recorded(h, kind) == {e.seq : e \in {x \in ToSet(h) : x.kind = kind}}

loadHistoryForgetsFailures(h) ==  \* mutant
  [scheduled |-> Recorded(h, "scheduled"),
   results |-> [s \in Recorded(h, "completed") \cup Recorded(h, "failed") |-> "completed"]]

loadHistory(h) ==
  [scheduled |-> Recorded(h, "scheduled"),
   results |-> [s \in Recorded(h, "completed") \cup Recorded(h, "failed") |->
                  IF s \in Recorded(h, "failed") THEN "failed" ELSE "completed"]]

(* An episode: futures made, commands emitted, where the function stands. *)
newWorkerEnv(c) ==
  [seq |-> 0, futures |-> <<>>, commands |-> {}, types |-> <<>>, coin |-> c, at |-> "running"]

TypeFor(coin, type) == IF coin = 0 THEN type ELSE "b"

(* ExecuteActivity takes the next seq; the result is in the history, or the
   future blocks and a ScheduleActivity command is emitted unless the history
   has it. *)
ExecuteActivitySkipping(ep, rec, type) ==  \* mutant
  LET known == ep.seq \in DOMAIN rec.results
      cmd == Event("scheduled", ep.seq, type)
  IN [ep EXCEPT !.seq = IF known THEN @ ELSE @ + 1,
                !.types = Append(@, cmd),
                !.futures = Append(@, IF known THEN rec.results[ep.seq] ELSE "blocked"),
                !.commands = IF known \/ ep.seq \in rec.scheduled THEN @ ELSE @ \cup {cmd}]

ExecuteActivity(ep, rec, type) ==
  LET known == ep.seq \in DOMAIN rec.results
      cmd == Event("scheduled", ep.seq, type)
  IN [ep EXCEPT !.seq = @ + 1,
                !.types = Append(@, cmd),
                !.futures = Append(@, IF known THEN rec.results[ep.seq] ELSE "blocked"),
                !.commands = IF known \/ ep.seq \in rec.scheduled THEN @ ELSE @ \cup {cmd}]

(* Future.Get: a blocked future ends the episode, a failure is returned. *)
Get(ep, k, ignore) ==
  CASE ep.futures[k] = "blocked" -> [ep EXCEPT !.at = "blocked"]
    [] ep.futures[k] = "failed" /\ ~ignore -> [ep EXCEPT !.at = "fail"]
    [] OTHER -> ep

(* SideEffect, GetVersion and MutableSideEffect keep what they return in the
   env of the episode; the history has no record of it. *)
SideEffect(ep, c) == [ep EXCEPT !.coin = c]

(* runWorkflowEpisode: the function from the top, until it blocks or returns. *)
runWorkflowEpisode(p, rec, c) ==
  LET Do(ep, ins) ==
        IF ep.at # "running" THEN ep
        ELSE CASE ins.do = "call" -> ExecuteActivity(ep, rec, TypeFor(ep.coin, ins.arg))
               [] ins.do = "get"  -> Get(ep, ins.arg, FALSE)
               [] ins.do = "try"  -> Get(ep, ins.arg, TRUE)
               [] ins.do = "side" -> SideEffect(ep, c)
      end == FoldLeft(Do, newWorkerEnv(0), p)
  IN IF end.at = "running" THEN [end EXCEPT !.at = "complete"] ELSE end

(* StubEnv runs the function once; ExecuteActivity takes the next queued
   response, which for the call with number s is the outcome of s. *)
StubExecuteActivity(ep, responses) ==
  [ep EXCEPT !.seq = @ + 1, !.futures = Append(@, responses[ep.seq])]

StubRun(p, responses) ==
  LET Do(ep, ins) ==
        IF ep.at # "running" THEN ep
        ELSE CASE ins.do = "call" -> StubExecuteActivity(ep, responses)
               [] ins.do = "get"  -> Get(ep, ins.arg, FALSE)
               [] ins.do = "try"  -> Get(ep, ins.arg, TRUE)
               [] ins.do = "side" -> ep
      end == FoldLeft(Do, newWorkerEnv(0), p)
  IN IF end.at = "running" THEN "complete" ELSE end.at

-----------------------------------------------------------------------------
(* dispatchWorkflowTask: a worker takes a task, runs an episode and responds.
   A task may be delivered again. *)
dispatchWorkflowTask(n, again) ==
  /\ n \in tasks
  /\ \E c \in Coins :
       LET ep == runWorkflowEpisode(program, loadHistory(SubSeq(history, 1, n)), c)
       IN /\ answers' = answers \cup {[commands |-> ep.commands, at |-> ep.at]}
          /\ assigned' = [s \in Seqs |->
               assigned[s] \cup {e.type : e \in {x \in ToSet(ep.types) : x.seq = s}}]
  /\ tasks' = IF again THEN tasks ELSE tasks \ {n}
  /\ UNCHANGED <<program, history, outcome>>

(* respondWorkflowHandler applies an answer to an open run: the schedules the
   history does not have yet, and the end of the run. *)
respondWorkflow(a) ==
  /\ a \in answers /\ answers' = answers \ {a}
  /\ IF outcome # "open" THEN UNCHANGED <<history, outcome>>
     ELSE /\ history' = history \o SetToSortSeq(
                {c \in a.commands : c.seq \notin Recorded(history, "scheduled")},
                LAMBDA c, d : c.seq < d.seq)
          /\ outcome' = IF a.at \in {"complete", "fail"} THEN a.at ELSE outcome
  /\ UNCHANGED <<program, tasks, assigned>>

(* The outcome of a scheduled activity is recorded, and wakes the run. *)
activityEnds(s, kind) ==
  /\ outcome = "open"
  /\ s \in Recorded(history, "scheduled")
  /\ s \notin Recorded(history, "completed") \cup Recorded(history, "failed")
  /\ history' = Append(history, Event(kind, s, "none"))
  /\ tasks' = tasks \cup {Len(history')}
  /\ UNCHANGED <<program, answers, outcome, assigned>>

ReplayNext ==
  \/ \E n \in tasks, again \in BOOLEAN : dispatchWorkflowTask(n, again)
  \/ \E a \in answers : respondWorkflow(a)
  \/ \E s \in Seqs, kind \in {"completed", "failed"} : activityEnds(s, kind)

ReplaySpec == ReplayInit /\ [][ReplayNext]_replayVars

(* "Same history => same command sequence" (env.go): the command sequence
   number an episode gives a call is the one every other episode gives it, on
   whatever prefix of the history it ran; so an outcome recorded for a seq is
   the outcome of that call. *)
SeqStable ==
  \A s \in Seqs : assigned[s] \subseteq {"a"} \/ assigned[s] \subseteq {"b"}

(* A run closes as its function does in one go under StubEnv when its
   activities return what the history records of them: no interleaving of
   episodes, stale prefixes and late answers changes the outcome, and what a
   test with StubEnv shows holds for the worker. *)
StubAgrees ==
  LET Outcome(s) == CASE s \in Recorded(history, "failed") -> "failed"
                      [] s \in Recorded(history, "completed") -> "completed"
                      [] OTHER -> "blocked"
  IN outcome # "open" => outcome = StubRun(program, [s \in Seqs |-> Outcome(s)])
=============================================================================
