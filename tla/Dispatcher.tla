----------------------------- MODULE Dispatcher -----------------------------
(***************************************************************************)
(* The in-memory dispatcher (pkg/tasks/dispatch.go): subscriptions of      *)
(* workers to task keys (namespace, queue, kind), tasks pushed to them in  *)
(* round robin, a backlog for the keys nobody serves, and one-time tokens. *)
(*                                                                         *)
(* Every operation runs under the dispatcher's mutex d.mu, but the pushes  *)
(* of a delivery are network sends: workers come and go between two sends  *)
(* of one operation.  job is the operation that holds d.mu; each turn of   *)
(* the delivery loop (pick, send, prune on error) is a step.               *)
(*                                                                         *)
(* The transport reports no disconnect: a send to a worker that has died   *)
(* succeeds and is lost until the transport has noticed, and fails after;  *)
(* a send to a live worker may fail too (a broken connection).             *)
(***************************************************************************)
EXTENDS Naturals, Sequences, FiniteSets, Functions

CONSTANTS
  Peers,      \* workers
  Keys,       \* subKeys
  Tasks,      \* tasks, one token each
  KeyOf,      \* KeyOf[t]: the key task t is enqueued under
  MaxSubs,    \* bound: subscriptions made
  MaxDeaths,  \* bound: workers that die
  None        \* no task, no peer

ASSUME KeyAssumption == KeyOf \in [Tasks -> Keys]
ASSUME SubsAssumption == MaxSubs \in Nat /\ MaxDeaths \in Nat
ASSUME NoneAssumption == None \notin Tasks /\ None \notin Peers

VARIABLES
  subs,      \* d.subs: per key, the subscriptions in the order they were made
  byPeer,    \* d.byPeer: per worker, its subscriptions
  rrIdx,     \* d.rrIdx: per key, the position the next pick starts from
  pending,   \* d.pendingWF, d.pendingAct: per key, the backlog
  byToken,   \* d.wfByToken, d.actByToken: the tokens that can be answered
  workerPeer,\* per task, the worker it was last pushed to
  job,       \* the delivery in progress under d.mu
  enqueued,  \* tasks the engine has asked for
  made,      \* subscriptions made so far; the last one's id
  link,      \* per worker: up, dead (not noticed yet) or gone
  inbox,     \* per worker, the tasks its process holds
  answered,  \* per task, the answers the engine got
  last       \* per key, the subscription picked last since the list changed

worker == <<link, inbox>>
vars == <<subs, byPeer, rrIdx, pending, byToken, workerPeer, job, enqueued, made, link,
          inbox, answered, last>>

Subscription == [id : 1 .. MaxSubs, peer : Peers, key : Keys]
Free == [op |-> "free", task |-> None]
Jobs == {Free} \cup [op : {"enqueue", "drain"}, task : Tasks]

Init ==
  /\ subs = [k \in Keys |-> <<>>] /\ byPeer = [p \in Peers |-> <<>>]
  /\ rrIdx = [k \in Keys |-> 0] /\ pending = [k \in Keys |-> <<>>]
  /\ byToken = {} /\ workerPeer = [t \in Tasks |-> None]
  /\ job = Free /\ enqueued = {} /\ made = 0
  /\ link = [p \in Peers |-> "up"] /\ inbox = [p \in Peers |-> {}]
  /\ answered = [t \in Tasks |-> 0] /\ last = [k \in Keys |-> 0]

-----------------------------------------------------------------------------
(* The list without the subscription id. *)
Without(list, id) ==
  IF \E i \in DOMAIN list : list[i].id = id
    THEN LET at == CHOOSE i \in DOMAIN list : list[i].id = id
         IN SubSeq(list, 1, at - 1) \o SubSeq(list, at + 1, Len(list))
    ELSE list

(* drainLocked: deliver the backlog of a key from its head on. *)
DrainLeavesBacklog(k) == Free                                   \* mutant
Drain(k) == IF pending'[k] = <<>> THEN Free ELSE [op |-> "drain", task |-> Head(pending'[k])]

Subscribe(p, k) ==
  /\ job = Free /\ link[p] = "up" /\ made < MaxSubs
  /\ made' = made + 1
  /\ LET s == [id |-> made', peer |-> p, key |-> k] IN
       /\ subs' = [subs EXCEPT ![k] = Append(@, s)]
       /\ byPeer' = [byPeer EXCEPT ![p] = Append(@, s)]
  /\ last' = [last EXCEPT ![k] = 0]
  /\ UNCHANGED pending
  /\ job' = Drain(k)
  /\ UNCHANGED <<rrIdx, byToken, workerPeer, enqueued, worker, answered>>

(* Unsubscribe: unlike removeSubLocked it leaves rrIdx as it is. *)
Unsubscribe(s) ==
  /\ job = Free /\ link[s.peer] = "up"
  /\ subs' = [subs EXCEPT ![s.key] = Without(@, s.id)]
  /\ byPeer' = [byPeer EXCEPT ![s.peer] = Without(@, s.id)]
  /\ last' = [last EXCEPT ![s.key] = 0]
  /\ UNCHANGED <<rrIdx, pending, byToken, workerPeer, job, enqueued, made, worker, answered>>

(* pickLocked: the position of the next subscriber, and rrIdx past it. *)
PickedFirst(k) == 1                                             \* mutant
Picked(k) == (rrIdx[k] % Len(subs[k])) + 1
Advanced(k) == [rrIdx EXCEPT ![k] = Picked(k) % Len(subs[k])]

(* EnqueueWorkflowTask, DispatchActivity: a fresh token, then the delivery. *)
Enqueue(t) ==
  /\ job = Free /\ t \notin enqueued
  /\ enqueued' = enqueued \cup {t}
  /\ byToken' = byToken \cup {t}
  /\ job' = [op |-> "enqueue", task |-> t]
  /\ UNCHANGED <<subs, byPeer, rrIdx, pending, workerPeer, made, worker, answered, last>>

(* The delivery loop ends without a delivery when no subscription is left. *)
ExhaustedAtOnce(k) == TRUE                                      \* mutant
Exhausted(k) == subs[k] = <<>>

(* The push is accepted: the worker has the task if it is alive. *)
Pushed(p, t) ==
  inbox' = IF link[p] = "up" THEN [inbox EXCEPT ![p] = @ \cup {t}] ELSE inbox

(* removeSubLocked *)
removeSubForgetsPeer(s) ==                                      \* mutant
  /\ subs' = [subs EXCEPT ![s.key] = Without(@, s.id)]
  /\ UNCHANGED byPeer
removeSub(s) ==
  /\ subs' = [subs EXCEPT ![s.key] = Without(@, s.id)]
  /\ byPeer' = [byPeer EXCEPT ![s.peer] = Without(@, s.id)]

(* What a job leaves to do once its task is delivered, and the backlog then. *)
AfterDelivery(k) ==
  IF job.op = "drain"
    THEN pending' = [pending EXCEPT ![k] = Tail(@)] /\ job' = Drain(k)
    ELSE job' = Free /\ UNCHANGED pending

(* One turn of deliverWFLocked / deliverActLocked: the subscriber that is next
   for the job's task, and the push to it. *)
Target == subs[KeyOf[job.task]][Picked(KeyOf[job.task])]

Try ==
  /\ job # Free /\ subs[KeyOf[job.task]] # <<>>
  /\ workerPeer' = [workerPeer EXCEPT ![job.task] = Target.peer]
  /\ UNCHANGED <<byToken, enqueued, made, link, answered>>

Deliver ==
  /\ Try
  /\ link[Target.peer] # "gone"
  /\ rrIdx' = Advanced(Target.key)
  /\ last' = [last EXCEPT ![Target.key] = Target.id]
  /\ Pushed(Target.peer, job.task)
  /\ AfterDelivery(Target.key)
  /\ UNCHANGED <<subs, byPeer>>

(* The send fails: the subscription is pruned and the loop goes on.  rrIdx was
   moved by the pick already, unless the key's last subscription went. *)
Prune ==
  /\ Try
  /\ link[Target.peer] # "dead"
  /\ removeSub(Target)
  /\ rrIdx' = IF Len(subs[Target.key]) = 1 THEN [rrIdx EXCEPT ![Target.key] = 0]
              ELSE Advanced(Target.key)
  /\ last' = [last EXCEPT ![Target.key] = 0]
  /\ UNCHANGED <<pending, job, inbox>>

(* No subscriber is left: a new task joins the backlog, a drained one stays. *)
Park ==
  /\ job # Free
  /\ LET k == KeyOf[job.task] IN
       /\ Exhausted(k)
       /\ pending' = IF job.op = "enqueue" THEN [pending EXCEPT ![k] = Append(@, job.task)]
                     ELSE pending
  /\ job' = Free
  /\ UNCHANGED <<subs, byPeer, rrIdx, byToken, workerPeer, enqueued, made, worker, answered, last>>

(* PushQuery picks from the same list and moves the same position. *)
PushQuery(k) ==
  /\ job = Free /\ subs[k] # <<>>
  /\ rrIdx' = Advanced(k)
  /\ last' = [last EXCEPT ![k] = subs[k][Picked(k)].id]
  /\ UNCHANGED <<subs, byPeer, pending, byToken, workerPeer, job, enqueued, made, worker, answered>>

(* CompleteWorkflowTask, ResolveActivityToken: a token is good once. *)
ConsumeKeepsToken(t) == t \in byToken /\ UNCHANGED byToken      \* mutant
Consume(t) == t \in byToken /\ byToken' = byToken \ {t}

(* A worker answers a task it holds, or repeats an answer it got no reply to. *)
Respond(p, t) ==
  /\ job = Free /\ link[p] = "up" /\ t \in inbox[p]
  /\ Consume(t)
  /\ answered' = [answered EXCEPT ![t] = @ + 1]
  /\ \/ inbox' = [inbox EXCEPT ![p] = @ \ {t}]
     \/ UNCHANGED inbox
  /\ UNCHANGED <<subs, byPeer, rrIdx, pending, workerPeer, job, enqueued, made, link, last>>

RespondAgain(p, t) ==
  /\ job = Free /\ link[p] = "up" /\ t \in inbox[p] /\ t \notin byToken
  /\ inbox' = [inbox EXCEPT ![p] = @ \ {t}]
  /\ UNCHANGED <<subs, byPeer, rrIdx, pending, byToken, workerPeer, job, enqueued, made, link,
                 answered, last>>

(* A worker process dies at any moment; later the transport notices. *)
Die(p) ==
  /\ link[p] = "up"
  /\ Cardinality({q \in Peers : link[q] # "up"}) < MaxDeaths
  /\ link' = [link EXCEPT ![p] = "dead"]
  /\ inbox' = [inbox EXCEPT ![p] = {}]
  /\ UNCHANGED <<subs, byPeer, rrIdx, pending, byToken, workerPeer, job, enqueued, made, answered, last>>

Notice(p) ==
  /\ link[p] = "dead"
  /\ link' = [link EXCEPT ![p] = "gone"]
  /\ UNCHANGED <<subs, byPeer, rrIdx, pending, byToken, workerPeer, job, enqueued, made, inbox,
                 answered, last>>

Next ==
  \/ Deliver \/ Prune \/ Park
  \/ \E t \in Tasks : Enqueue(t)
  \/ \E k \in Keys : PushQuery(k)
  \/ \E p \in Peers : \/ Die(p) \/ Notice(p)
                      \/ \E k \in Keys : Subscribe(p, k)
                      \/ \E s \in Range(byPeer[p]) : Unsubscribe(s)
                      \/ \E t \in Tasks : Respond(p, t) \/ RespondAgain(p, t)

Spec == Init /\ [][Next]_vars

(* The delivery loop runs to its end, live workers answer what they hold, and
   the transport notices a dead connection (TCP keep-alive). *)
Fairness ==
  /\ WF_vars(Deliver \/ Prune \/ Park)
  /\ \A p \in Peers : /\ WF_vars(\E t \in Tasks : Respond(p, t) \/ RespondAgain(p, t))
                      /\ WF_vars(Notice(p))
FairSpec == Spec /\ Fairness

-----------------------------------------------------------------------------
(* Every variable keeps its type; a pick is a position of the list. *)
TypeOK ==
  /\ subs \in [Keys -> Seq(Subscription)] /\ byPeer \in [Peers -> Seq(Subscription)]
  /\ rrIdx \in [Keys -> 0 .. MaxSubs]
  /\ pending \in [Keys -> Seq(Tasks)]
  /\ byToken \subseteq Tasks /\ enqueued \subseteq Tasks
  /\ workerPeer \in [Tasks -> Peers \cup {None}]
  /\ job \in Jobs /\ made \in 0 .. MaxSubs
  /\ link \in [Peers -> {"up", "dead", "gone"}] /\ inbox \in [Peers -> SUBSET Tasks]
  /\ answered \in [Tasks -> Nat] /\ last \in [Keys -> 0 .. MaxSubs]

(* The two maps of subscriptions hold the same ones: what a push error, an
   unsubscribe or a subscribe does to one it does to the other
   (removeSubLocked, Unsubscribe). *)
Listed == UNION {Range(subs[k]) : k \in Keys}
SubsAgree == Listed = UNION {Range(byPeer[p]) : p \in Peers}

(* A backlog means that nobody serves its key: whenever d.mu is free, a task
   waits only under a key without subscriptions, so no enqueue overtakes it. *)
BacklogUnserved == job = Free => \A k \in Keys : pending[k] # <<>> => subs[k] = <<>>

(* Where a task is, as the engine may think of it. *)
Waiting(t) == t \in Range(pending[KeyOf[t]]) \/ (job # Free /\ job.task = t)
Handed(t) == t \in enqueued /\ ~Waiting(t)

(* The dispatcher implements TaskPool: tasks leave a key's queue in the order
   they were enqueued, each is pushed to one worker and never again, and the
   engine gets one answer per task however often a worker repeats it. *)
Queue(k) ==
  pending[k] \o (IF job.op = "enqueue" /\ KeyOf[job.task] = k THEN <<job.task>> ELSE <<>>)
Queues == [k \in Keys |-> Queue(k)]
Holders == [t \in Tasks |-> IF Handed(t) THEN workerPeer[t] ELSE None]
Pool == INSTANCE TaskPool WITH asked <- enqueued, queue <- Queues, holder <- Holders,
                               done <- answered
PoolSpec == Pool!Spec

(* Round robin: as long as the list stays, no subscription of several is
   picked twice in a row, for tasks and queries together (pickLocked). *)
RoundRobin ==
  [][\A k \in Keys :
       /\ Len(subs[k]) > 1
       /\ PushQuery(k) \/ (Deliver /\ KeyOf[job.task] = k)
       => last'[k] # last[k]]_vars

(* A task asked for is pushed, unless its key has no subscription. *)
HandedOut ==
  \A t \in Tasks : t \in enqueued ~> (Handed(t) \/ subs[KeyOf[t]] = <<>>)

(* "Worker process killed mid-activity: the heartbeat times out; the task is
   rescheduled on another worker" (CONTRACT.md:199): a task whose worker died
   is answered in the end, as long as some worker of its key is up. *)
Rescheduled ==
  \A t \in Tasks :
    (Handed(t) /\ t \in byToken /\ link[workerPeer[t]] # "up")
      ~> (t \notin byToken \/ \A s \in Range(subs[KeyOf[t]]) : link[s.peer] # "up")

-----------------------------------------------------------------------------
(* The strengthening behind BacklogUnserved and PoolSpec. *)

SubsOK ==
  \A k \in Keys :
    /\ Len(subs[k]) <= made
    /\ \A i \in DOMAIN subs[k] : subs[k][i].key = k

(* A queued task is queued once, under its key, and can still be answered. *)
QueuedOK ==
  \A k \in Keys : \A i \in DOMAIN pending[k] :
    /\ KeyOf[pending[k][i]] = k /\ pending[k][i] \in byToken
    /\ \A j \in DOMAIN pending[k] : pending[k][i] = pending[k][j] => i = j

(* A drain delivers the head of its backlog, an enqueue a task not queued yet. *)
JobOK ==
  LET k == KeyOf[job.task] IN
  /\ job.op = "drain" => pending[k] # <<>> /\ job.task = Head(pending[k])
  /\ job.op = "enqueue" => /\ job.task \in byToken
                           /\ \A i \in DOMAIN pending[k] : pending[k][i] # job.task

BacklogOK ==
  \A k \in Keys :
    pending[k] # <<>> => subs[k] = <<>> \/ (job.op = "drain" /\ KeyOf[job.task] = k)

TokensOK ==
  /\ byToken \subseteq enqueued
  /\ \A t \in Tasks : t \in byToken \/ t \notin enqueued => answered[t] = 0

InboxOK ==
  \A p \in Peers : \A t \in inbox[p] :
    t \in enqueued /\ ~Waiting(t) /\ workerPeer[t] \in Peers

PoolInv == TypeOK /\ SubsOK /\ QueuedOK /\ JobOK /\ BacklogOK /\ TokensOK /\ InboxOK

(* The strengthening behind SubsAgree: an id is one subscription's, which stands once
   in the list of its worker and once in the list of its key. *)
OnceEach(list) == \A i, j \in DOMAIN list : list[i].id = list[j].id => i = j
AgreeInv ==
  /\ PoolInv /\ SubsAgree
  /\ \A k \in Keys : OnceEach(subs[k])
  /\ \A p \in Peers : OnceEach(byPeer[p]) /\ \A s \in Range(byPeer[p]) : s.peer = p
  /\ \A s \in Listed : s.id <= made
  /\ \A s, r \in Listed : s.id = r.id => s = r

(* The strengthening behind RoundRobin: the next pick starts right after the
   subscription picked last, as long as the key's list is the one it was picked from. *)
TurnOK ==
  \A k \in Keys : last[k] # 0 =>
    \E i \in DOMAIN subs[k] : subs[k][i].id = last[k] /\ rrIdx[k] = i % Len(subs[k])
=============================================================================
