------------------------------- MODULE MCSdk -------------------------------
(***************************************************************************)
(* The SDK's parts for TLC.  They share no state: a behaviour exercises    *)
(* one of them, which `part` names, and the others stay as they began.     *)
(***************************************************************************)
EXTENDS Coroutine, Replay, WorkerHost, TLC

CONSTANTS
  Parts,       \* the parts this run exercises
  g1,          \* the goroutine of a test
  t1, t2, t3   \* tasks

VARIABLE part

vars == <<part, coroutineVars, replayVars, workerVars>>

CaseList == <<"chan", "activity", "timer", "child">>
ActivityOnly == <<"activity">>
FewWaits == [worker |-> 3, stub |-> 1]

(* Workflow functions: calls awaited one by one, in parallel out of order, and
   with a failure that is ignored; and one that branches on a SideEffect. *)
Ins(do, arg) == [do |-> do, arg |-> arg]
Branching == { <<Ins("side", 0), Ins("call", "a"), Ins("get", 1)>> }
Plain ==
  Branching \cup
  { <<Ins("call", "a"), Ins("get", 1), Ins("call", "a"), Ins("get", 2)>>,
    <<Ins("call", "a"), Ins("call", "b"), Ins("get", 2), Ins("get", 1)>>,
    <<Ins("call", "a"), Ins("call", "b"), Ins("try", 1), Ins("call", "a"),
      Ins("get", 2), Ins("get", 3)>> }

OneActivity == [t \in Tasks |-> IF t = t3 THEN "act" ELSE "wf"]

Init ==
  /\ part \in Parts
  /\ IF part = "coroutine" THEN CoroutineInit
                           ELSE CoroutineAt("returned") /\ env = "stub" /\ signal
  /\ ReplayInit /\ (part # "replay" => program = CHOOSE p \in Programs : TRUE)
  /\ WorkerInit

Next ==
  /\ UNCHANGED part
  /\ \/ part = "coroutine" /\ CoroutineNext /\ UNCHANGED <<replayVars, workerVars>>
     \/ part = "replay" /\ ReplayNext /\ UNCHANGED <<coroutineVars, workerVars>>
     \/ part = "worker" /\ WorkerNext /\ UNCHANGED <<coroutineVars, replayVars>>

(* In a part that is not exercised no fair action is enabled. *)
Spec == Init /\ [][Next]_vars /\ CoroutineFairness /\ WorkerFairness
=============================================================================
