------------------------------ MODULE TaskPool ------------------------------
(***************************************************************************)
(* What the dispatcher promises the engine: per key a first-in first-out   *)
(* queue of tasks; the head of a queue is handed to one worker, never to a *)
(* second; the engine gets at most one answer per task, and only from a    *)
(* task that was handed out.  Dispatcher implements it.                    *)
(***************************************************************************)
EXTENDS Naturals, Sequences

CONSTANTS Peers, Keys, Tasks, KeyOf, None

VARIABLES
  asked,   \* tasks the engine has submitted
  queue,   \* per key, the tasks that wait
  holder,  \* per task, the worker it was handed to
  done     \* per task, the number of answers

vars == <<asked, queue, holder, done>>

Init ==
  /\ asked = {} /\ queue = [k \in Keys |-> <<>>]
  /\ holder = [t \in Tasks |-> None] /\ done = [t \in Tasks |-> 0]

Submit(t) ==
  /\ t \notin asked
  /\ asked' = asked \cup {t}
  /\ queue' = [queue EXCEPT ![KeyOf[t]] = Append(@, t)]
  /\ UNCHANGED <<holder, done>>

Hand(k, p) ==
  /\ queue[k] # <<>>
  /\ holder' = [holder EXCEPT ![Head(queue[k])] = p]
  /\ queue' = [queue EXCEPT ![k] = Tail(@)]
  /\ UNCHANGED <<asked, done>>

Answer(t) ==
  /\ holder[t] # None /\ done[t] = 0
  /\ done' = [done EXCEPT ![t] = 1]
  /\ UNCHANGED <<asked, queue, holder>>

Next ==
  \/ \E t \in Tasks : Submit(t) \/ Answer(t)
  \/ \E k \in Keys, p \in Peers : Hand(k, p)

Spec == Init /\ [][Next]_vars
=============================================================================
