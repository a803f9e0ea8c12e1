-------------------------- MODULE DispatcherProofs --------------------------
(***************************************************************************)
(* Proofs about Dispatcher for any workers, keys, tasks and bounds: a      *)
(* backlog is unserved, the dispatcher implements TaskPool, its two maps   *)
(* of subscriptions hold the same ones, and deliveries take turns.         *)
(***************************************************************************)
EXTENDS Dispatcher, TLAPS

-----------------------------------------------------------------------------
(* The backlog, and the abstract pool. *)
-----------------------------------------------------------------------------

(* The round-robin position taken modulo the length of the list is an index of it. *)
LEMMA ModRange ==
  ASSUME NEW a \in Nat, NEW n \in Nat, n > 0
  PROVE  a % n \in 0 .. (n - 1)
  OBVIOUS

(* The sequence of two sequences of a set. *)
LEMMA ConcatSeq ==
  ASSUME NEW S, NEW a \in Seq(S), NEW b \in Seq(S)
  PROVE  a \o b \in Seq(S) /\ Len(a \o b) = Len(a) + Len(b)
OBVIOUS

(* Removing a subscription keeps a list a list, and adds nothing to it. *)
LEMMA WithoutLemma ==
  ASSUME NEW S, NEW list \in Seq(S), NEW id
  PROVE  /\ Without(list, id) \in Seq(S)
         /\ Len(Without(list, id)) <= Len(list)
         /\ \A i \in DOMAIN Without(list, id) :
              \E j \in DOMAIN list : Without(list, id)[i] = list[j]
<1>1. CASE \E i \in DOMAIN list : list[i].id = id
  <2> DEFINE i == CHOOSE i \in DOMAIN list : list[i].id = id
  <2>1. i \in 1 .. Len(list)
    BY <1>1
  <2>2. Without(list, id) = SubSeq(list, 1, i - 1) \o SubSeq(list, i + 1, Len(list))
    BY Zenon, <1>1 DEF Without
  <2> HIDE DEF i
  <2> DEFINE A == SubSeq(list, 1, i - 1)
             B == SubSeq(list, i + 1, Len(list))
  <2>3. A \in Seq(S) /\ Len(A) = i - 1 /\ \A j \in 1 .. (i - 1) : A[j] = list[j]
    BY <2>1
  <2>4. B \in Seq(S) /\ Len(B) = Len(list) - i
        /\ \A j \in 1 .. (Len(list) - i) : B[j] = list[j + i]
    BY <2>1
  <2> HIDE DEF A, B
  <2>5. A \o B \in Seq(S) /\ Len(A \o B) = Len(list) - 1
    <3>1. A \o B \in Seq(S) /\ Len(A \o B) = Len(A) + Len(B)
      BY Zenon, <2>3, <2>4, ConcatSeq
    <3> QED BY <2>1, <2>3, <2>4, <3>1
  <2>6. ASSUME NEW j \in 1 .. (Len(list) - 1)
        PROVE  (A \o B)[j] = IF j < i THEN list[j] ELSE list[j + 1]
    BY <2>1, <2>3, <2>4
  <2>7. Without(list, id) = A \o B
    BY <2>2 DEF A, B
  <2>8. ASSUME NEW j \in DOMAIN (A \o B)
        PROVE  \E l \in DOMAIN list : (A \o B)[j] = list[l]
    <3>1. j \in 1 .. (Len(list) - 1) /\ j \in 1 .. Len(list) /\ j + 1 \in 1 .. Len(list)
      BY <2>1, <2>5
    <3> QED BY <2>6, <3>1
  <2>9. Len(A \o B) <= Len(list)
    BY <2>1, <2>5
  <2> QED BY Zenon, <2>5, <2>7, <2>8, <2>9
<1>2. CASE ~ \E i \in DOMAIN list : list[i].id = id
  BY <1>2 DEF Without
<1> QED BY <1>1, <1>2

(* The subscription a pick chooses. *)
LEMMA PickedLemma ==
  ASSUME TypeOK, SubsOK, NEW k \in Keys, subs[k] # <<>>
  PROVE  /\ Picked(k) \in 1 .. Len(subs[k])
         /\ subs[k][Picked(k)] \in Subscription
         /\ subs[k][Picked(k)].key = k
         /\ Advanced(k) \in [Keys -> 0 .. MaxSubs]
<1>1. subs[k] \in Seq(Subscription) /\ Len(subs[k]) > 0 /\ Len(subs[k]) \in Nat
      /\ Len(subs[k]) <= MaxSubs /\ rrIdx[k] \in Nat /\ rrIdx \in [Keys -> 0 .. MaxSubs]
  BY SubsAssumption DEF TypeOK, SubsOK
<1>2. rrIdx[k] % Len(subs[k]) \in 0 .. (Len(subs[k]) - 1)
  BY <1>1, ModRange
<1>3. Picked(k) \in 1 .. Len(subs[k])
  BY <1>1, <1>2 DEF Picked
<1>4. Picked(k) % Len(subs[k]) \in 0 .. (Len(subs[k]) - 1)
  BY <1>1, <1>3, ModRange
<1>5. Picked(k) % Len(subs[k]) \in 0 .. MaxSubs
  BY <1>1, <1>4, SubsAssumption
<1> QED BY <1>1, <1>3, <1>5 DEF SubsOK, Advanced

(* newDispatcher: no subscription, no task, no delivery. *)
LEMMA InitPoolInv == Init => PoolInv
<1> SUFFICES ASSUME Init PROVE PoolInv
  OBVIOUS
<1>1. TypeOK
  BY SubsAssumption DEF Init, TypeOK, Jobs
<1>2. SubsOK /\ QueuedOK /\ JobOK /\ BacklogOK /\ TokensOK /\ InboxOK
  BY DEF Init, SubsOK, QueuedOK, JobOK, BacklogOK, TokensOK, InboxOK, Free
<1> QED BY <1>1, <1>2 DEF PoolInv

-----------------------------------------------------------------------------
(* Steps that leave tasks and tokens alone. *)
LEMMA QuietStep ==
  ASSUME PoolInv, UNCHANGED <<pending, byToken, workerPeer, job, enqueued, answered>>,
         TypeOK', SubsOK',
         \A k \in Keys : subs[k] = <<>> => subs'[k] = <<>>,
         \A p \in Peers : inbox'[p] \subseteq inbox[p]
  PROVE  PoolInv' /\ UNCHANGED Pool!vars
<1>1. UNCHANGED <<Queues, Holders>>
  BY DEF Queues, Queue, Holders, Handed, Waiting
<1>2. QueuedOK' /\ JobOK' /\ TokensOK'
  BY DEF PoolInv, QueuedOK, JobOK, TokensOK
<1>3. BacklogOK'
  BY DEF PoolInv, BacklogOK
<1>4. InboxOK'
  BY DEF PoolInv, InboxOK, Waiting
<1> QED BY <1>1, <1>2, <1>3, <1>4 DEF PoolInv, Pool!vars

(* Removing a subscription from its key's list. *)
LEMMA RemoveLemma ==
  ASSUME PoolInv, NEW s \in Subscription, made' = made,
         subs' = [subs EXCEPT ![s.key] = Without(@, s.id)],
         byPeer' = [byPeer EXCEPT ![s.peer] = Without(@, s.id)]
  PROVE  /\ subs' \in [Keys -> Seq(Subscription)] /\ byPeer' \in [Peers -> Seq(Subscription)]
         /\ SubsOK' /\ \A k \in Keys : subs[k] = <<>> => subs'[k] = <<>>
<1> DEFINE k == s.key
           p == s.peer
           W == Without(subs[k], s.id)
<1>1. k \in Keys /\ p \in Peers /\ subs[k] \in Seq(Subscription)
      /\ byPeer[p] \in Seq(Subscription)
  BY Zenon DEF Subscription, PoolInv, TypeOK
<1>2. /\ W \in Seq(Subscription) /\ Len(W) <= Len(subs[k])
      /\ \A i \in DOMAIN W : \E j \in DOMAIN subs[k] : W[i] = subs[k][j]
  BY <1>1, WithoutLemma
<1>3. Without(byPeer[p], s.id) \in Seq(Subscription)
  BY <1>1, WithoutLemma
<1>4. subs' = [subs EXCEPT ![k] = W]
  OBVIOUS
<1> HIDE DEF W, k
<1>5. subs' \in [Keys -> Seq(Subscription)] /\ byPeer' \in [Peers -> Seq(Subscription)]
  <2>1. subs \in [Keys -> Seq(Subscription)] /\ byPeer \in [Peers -> Seq(Subscription)]
    BY DEF PoolInv, TypeOK
  <2>2. subs' \in [Keys -> Seq(Subscription)]
    BY Zenon, <1>1, <1>2, <1>4, <2>1
  <2> HIDE DEF p
  <2>3. byPeer' = [byPeer EXCEPT ![p] = Without(byPeer[p], s.id)]
    BY DEF p
  <2>4. byPeer' \in [Peers -> Seq(Subscription)]
    BY Zenon, <1>1, <1>3, <2>1, <2>3
  <2> QED BY <2>2, <2>4
<1>6. Len(subs[k]) <= made /\ Len(subs[k]) \in Nat /\ Len(W) \in Nat /\ made \in Nat
  BY <1>1, <1>2, SubsAssumption DEF PoolInv, TypeOK, SubsOK
<1>7. SubsOK'
  <2> SUFFICES ASSUME NEW l \in Keys
               PROVE  Len(subs'[l]) <= made /\ \A i \in DOMAIN subs'[l] : subs'[l][i].key = l
    BY DEF SubsOK
  <2>1. CASE l = k
    <3>1. subs'[l] = W
      BY Zenon, <1>1, <1>4, <2>1 DEF PoolInv, TypeOK
    <3> QED BY <1>1, <1>2, <1>6, <2>1, <3>1 DEF PoolInv, SubsOK
  <2>2. CASE l # k
    BY Zenon, <1>4, <2>2 DEF PoolInv, SubsOK, TypeOK
  <2> QED BY <2>1, <2>2
<1>8. ASSUME NEW l \in Keys, subs[l] = <<>> PROVE subs'[l] = <<>>
  <2>1. CASE l = k
    <3>1. subs'[l] = W /\ Len(W) = 0
      BY <1>1, <1>2, <1>4, <1>6, <1>8, <2>1 DEF PoolInv, TypeOK
    <3> QED BY <1>2, <3>1
  <2>2. CASE l # k
    BY <1>4, <1>8, <2>2 DEF PoolInv, TypeOK
  <2> QED BY <2>1, <2>2
<1> QED BY <1>5, <1>7, <1>8

(* Unsubscribe takes a subscription out of its list: a stutter of the pool. *)
LEMMA UnsubscribeStep ==
  ASSUME PoolInv, NEW p \in Peers, NEW s \in Range(byPeer[p]), Unsubscribe(s)
  PROVE  PoolInv' /\ UNCHANGED Pool!vars
<1>1. s \in Subscription
  BY DEF Range, PoolInv, TypeOK
<1>2. s.key \in Keys
  BY <1>1 DEF Subscription
<1>3. subs' \in [Keys -> Seq(Subscription)] /\ byPeer' \in [Peers -> Seq(Subscription)]
      /\ SubsOK' /\ \A k \in Keys : subs[k] = <<>> => subs'[k] = <<>>
  BY Zenon, <1>1, RemoveLemma DEF Unsubscribe
<1>4. last' \in [Keys -> 0 .. MaxSubs]
  BY <1>2, SubsAssumption DEF Unsubscribe, PoolInv, TypeOK
<1>5. TypeOK'
  BY Zenon, <1>3, <1>4 DEF Unsubscribe, worker, PoolInv, TypeOK
<1> QED BY <1>3, <1>5, QuietStep DEF Unsubscribe, worker

(* PushQuery sends to a subscriber and stores no task: a stutter of the pool. *)
LEMMA PushQueryStep ==
  ASSUME PoolInv, NEW k \in Keys, PushQuery(k)
  PROVE  PoolInv' /\ UNCHANGED Pool!vars
<1>1. Advanced(k) \in [Keys -> 0 .. MaxSubs] /\ subs[k][Picked(k)] \in Subscription
  BY PickedLemma DEF PushQuery, PoolInv
<1>2. last' \in [Keys -> 0 .. MaxSubs]
  <2>1. subs[k][Picked(k)].id \in 0 .. MaxSubs
    BY <1>1, SubsAssumption DEF Subscription
  <2> QED BY <2>1 DEF PushQuery, PoolInv, TypeOK
<1>3. TypeOK' /\ SubsOK'
  BY Zenon, <1>1, <1>2 DEF PushQuery, worker, PoolInv, TypeOK, SubsOK
<1> QED BY <1>3, QuietStep DEF PushQuery, worker

(* Workers that die or answer again, and broken connections, change neither list nor backlog. *)
LEMMA WorkerStep ==
  ASSUME PoolInv, NEW p \in Peers,
         Die(p) \/ Notice(p) \/ \E t \in Tasks : RespondAgain(p, t)
  PROVE  PoolInv' /\ UNCHANGED Pool!vars
<1>1. link' \in [Peers -> {"up", "dead", "gone"}] /\ inbox' \in [Peers -> SUBSET Tasks]
  BY ZenonT(30) DEF Die, Notice, RespondAgain, PoolInv, TypeOK
<1>2. UNCHANGED <<subs, byPeer, rrIdx, pending, byToken, workerPeer, job, enqueued, made, answered,
                  last>>
  BY DEF Die, Notice, RespondAgain
<1>3. \A q \in Peers : inbox'[q] \subseteq inbox[q]
  BY ZenonT(30) DEF Die, Notice, RespondAgain, PoolInv, TypeOK
<1>4. TypeOK' /\ SubsOK'
  BY <1>1, <1>2 DEF PoolInv, TypeOK, SubsOK
<1> QED BY <1>2, <1>3, <1>4, QuietStep

-----------------------------------------------------------------------------
(* The steps of a task. *)

(* Dropping the head of a queue whose tasks are distinct: drainLocked after a delivery. *)
LEMMA TailLemma ==
  ASSUME NEW S, NEW s \in Seq(S), s # <<>>
  PROVE  /\ Tail(s) \in Seq(S) /\ Len(Tail(s)) = Len(s) - 1 /\ Len(s) > 0
         /\ Head(s) = s[1] /\ Head(s) \in S
         /\ \A i \in 1 .. (Len(s) - 1) : Tail(s)[i] = s[i + 1]
  OBVIOUS

(* Appending a task that is not in the queue: enqueue without a live subscriber. *)
LEMMA AppendLemma ==
  ASSUME NEW S, NEW s \in Seq(S), NEW e \in S
  PROVE  LET q == Append(s, e) IN
         /\ q \in Seq(S) /\ q = s \o <<e>> /\ DOMAIN q = 1 .. (Len(s) + 1)
         /\ \A i \in DOMAIN q : q[i] = IF i = Len(s) + 1 THEN e ELSE s[i]
         /\ \A i \in DOMAIN q : i = Len(s) + 1 \/ i \in DOMAIN s
         /\ DOMAIN s \subseteq DOMAIN q /\ Len(s) + 1 \in DOMAIN q /\ Len(s) + 1 \notin DOMAIN s
         /\ Range(q) = Range(s) \cup {e}
<1> DEFINE q == Append(s, e)
<1>1. q \in Seq(S) /\ q = s \o <<e>>
  OBVIOUS
<1>2. /\ Len(s) \in Nat /\ DOMAIN s = 1 .. Len(s) /\ DOMAIN q = 1 .. (Len(s) + 1)
      /\ \A i \in 1 .. (Len(s) + 1) : q[i] = IF i = Len(s) + 1 THEN e ELSE s[i]
  OBVIOUS
<1> HIDE DEF q
<1>3. /\ \A i \in DOMAIN q : q[i] = IF i = Len(s) + 1 THEN e ELSE s[i]
      /\ \A i \in DOMAIN q : i = Len(s) + 1 \/ i \in DOMAIN s
      /\ DOMAIN s \subseteq DOMAIN q /\ Len(s) + 1 \in DOMAIN q /\ Len(s) + 1 \notin DOMAIN s
  BY <1>2
<1>4. ASSUME NEW i \in DOMAIN q PROVE q[i] \in Range(s) \cup {e}
  BY <1>3 DEF Range
<1>5. ASSUME NEW i \in DOMAIN s PROVE s[i] \in Range(q)
  <2>1. i \in DOMAIN q /\ q[i] = s[i]
    BY <1>3
  <2> QED BY <2>1 DEF Range
<1>6. e \in Range(q)
  BY <1>3 DEF Range
<1>7. Range(q) = Range(s) \cup {e}
  BY <1>4, <1>5, <1>6 DEF Range
<1> QED BY <1>1, <1>2, <1>3, <1>7 DEF q

(* The tasks left in a queue when its head is delivered. *)
LEMMA TailSet ==
  ASSUME NEW S, NEW s \in Seq(S), s # <<>>
  PROVE  /\ Range(s) = Range(Tail(s)) \cup {Head(s)}
         /\ \A i \in DOMAIN Tail(s) : i + 1 \in DOMAIN s /\ Tail(s)[i] = s[i + 1] /\ i \in Nat /\ i + 1 # 1
         /\ 1 \in DOMAIN s
<1> DEFINE q == Tail(s)
           h == Head(s)
<1>1. /\ q \in Seq(S) /\ Len(q) = Len(s) - 1 /\ Len(s) > 0 /\ h = s[1]
      /\ \A i \in 1 .. (Len(s) - 1) : q[i] = s[i + 1]
  BY TailLemma
<1> HIDE DEF q, h
<1>2. Len(s) \in Nat /\ DOMAIN s = 1 .. Len(s) /\ DOMAIN q = 1 .. (Len(s) - 1)
  BY <1>1
<1>3. \A i \in DOMAIN q : i + 1 \in DOMAIN s /\ q[i] = s[i + 1] /\ i \in Nat /\ i + 1 # 1
  BY <1>1, <1>2
<1>4. 1 \in DOMAIN s
  BY <1>1, <1>2
<1>5. ASSUME NEW i \in DOMAIN q PROVE q[i] \in Range(s)
  BY <1>3 DEF Range
<1>6. h \in Range(s)
  BY <1>1, <1>4 DEF Range
<1>7. ASSUME NEW i \in DOMAIN s PROVE s[i] \in Range(q) \cup {h}
  <2>1. CASE i = 1
    BY <1>1, <2>1
  <2>2. CASE i # 1
    <3>1. i - 1 \in 1 .. (Len(s) - 1) /\ (i - 1) + 1 = i
      BY <1>2, <2>2
    <3>2. q[i - 1] = s[i]
      BY Zenon, <1>1, <3>1
    <3> QED BY <1>2, <3>1, <3>2 DEF Range
  <2> QED BY <2>1, <2>2
<1>8. Range(s) = Range(q) \cup {h}
  BY <1>5, <1>6, <1>7 DEF Range
<1> QED BY <1>3, <1>4, <1>8 DEF q, h

(* A task is queued under its own key only. *)
LEMMA FreeJob ==
  ASSUME PoolInv
  PROVE  /\ job # Free => job \in [op : {"enqueue", "drain"}, task : Tasks]
         /\ job = Free <=> job.op = "free"
         /\ job # Free => job.task \in Tasks /\ KeyOf[job.task] \in Keys
         /\ \A k \in Keys : pending[k] \in Seq(Tasks)
  BY KeyAssumption DEF PoolInv, TypeOK, Jobs, Free

(* Subscribe adds a list entry and starts to drain the backlog of its key. *)
LEMMA SubscribeStep ==
  ASSUME PoolInv, NEW p \in Peers, NEW k \in Keys, Subscribe(p, k)
  PROVE  PoolInv' /\ UNCHANGED Pool!vars
<1> DEFINE s == [id |-> made', peer |-> p, key |-> k]
<1>1. job = Free /\ made < MaxSubs /\ made' = made + 1 /\ job' = Drain(k)
      /\ subs' = [subs EXCEPT ![k] = Append(@, s)]
      /\ byPeer' = [byPeer EXCEPT ![p] = Append(@, s)]
      /\ last' = [last EXCEPT ![k] = 0]
      /\ UNCHANGED <<rrIdx, pending, byToken, workerPeer, enqueued, link, inbox, answered>>
  BY DEF Subscribe, worker
<1>2. s \in Subscription /\ made' \in 0 .. MaxSubs
  BY <1>1, SubsAssumption DEF PoolInv, TypeOK, Subscription
<1> HIDE DEF s
<1>3. pending[k] \in Seq(Tasks) /\ job' = IF pending[k] = <<>> THEN Free
                                          ELSE [op |-> "drain", task |-> Head(pending[k])]
  BY <1>1, FreeJob DEF Drain
<1>4. job' \in Jobs
  BY Zenon, <1>3, TailLemma DEF Jobs
<1>5. pending[k] # <<>> => Head(pending[k]) = pending[k][1] /\ 1 \in DOMAIN pending[k]
                           /\ KeyOf[Head(pending[k])] = k
  BY <1>3, TailLemma DEF PoolInv, QueuedOK
<1>6. TypeOK'
  <2>1. subs' \in [Keys -> Seq(Subscription)] /\ byPeer' \in [Peers -> Seq(Subscription)]
        /\ last' \in [Keys -> 0 .. MaxSubs]
    BY <1>1, <1>2, SubsAssumption DEF PoolInv, TypeOK
  <2> QED BY Zenon, <1>1, <1>2, <1>4, <2>1 DEF PoolInv, TypeOK
<1>7. SubsOK'
  <2> SUFFICES ASSUME NEW l \in Keys
               PROVE  /\ Len(subs'[l]) <= made'
                      /\ \A i \in DOMAIN subs'[l] : subs'[l][i].key = l
    BY DEF SubsOK
  <2>0. /\ subs[l] \in Seq(Subscription) /\ Len(subs[l]) <= made
        /\ made \in Nat /\ Len(subs[l]) \in Nat
        /\ \A i \in DOMAIN subs[l] : subs[l][i].key = l
    BY SubsAssumption DEF PoolInv, TypeOK, SubsOK
  <2>1. CASE l = k
    <3>1. subs'[l] = Append(subs[l], s) /\ s.key = k
      BY <1>1, <2>1 DEF PoolInv, TypeOK, s
    <3>2. /\ Len(Append(subs[l], s)) = Len(subs[l]) + 1
          /\ \A i \in 1 .. (Len(subs[l]) + 1) :
               Append(subs[l], s)[i] = IF i = Len(subs[l]) + 1 THEN s ELSE subs[l][i]
      BY <1>2, <2>0
    <3>3. \A i \in 1 .. (Len(subs[l]) + 1) : i = Len(subs[l]) + 1 \/ i \in DOMAIN subs[l]
      BY <2>0
    <3>4. DOMAIN Append(subs[l], s) = 1 .. (Len(subs[l]) + 1)
      BY <1>2, <2>0
    <3>5. Len(subs'[l]) <= made'
      BY <1>1, <2>0, <3>1, <3>2
    <3>6. ASSUME NEW i \in DOMAIN subs'[l] PROVE subs'[l][i].key = l
      BY <2>0, <2>1, <3>1, <3>2, <3>3, <3>4, <3>6
    <3> QED BY <3>5, <3>6
  <2>2. CASE l # k
    <3>1. subs'[l] = subs[l]
      BY <1>1, <2>2 DEF PoolInv, TypeOK
    <3>2. Len(subs[l]) <= made'
      BY <1>1, <2>0
    <3> QED BY <2>0, <3>1, <3>2, Zenon
  <2> QED BY <2>1, <2>2
<1>8. \A t \in Tasks : Waiting(t)' <=> Waiting(t)
  BY <1>1, <1>3, <1>5 DEF Waiting, Range, Free
<1>9. UNCHANGED <<Queues, Holders>>
  <2>1. job.op # "enqueue" /\ job'.op # "enqueue"
    BY <1>1, <1>3 DEF Free
  <2> QED BY <1>1, <1>8, <2>1, Zenon DEF Queues, Queue, Holders, Handed
<1>10. QueuedOK' /\ TokensOK'
  BY <1>1 DEF PoolInv, QueuedOK, TokensOK
<1>11. JobOK'
  BY <1>1, <1>3, <1>5 DEF JobOK, Free
<1>12. BacklogOK'
  <2> SUFFICES ASSUME NEW l \in Keys, pending[l] # <<>>
               PROVE  subs'[l] = <<>> \/ (job'.op = "drain" /\ KeyOf[job'.task] = l)
    BY <1>1 DEF BacklogOK
  <2>1. CASE l = k
    BY Zenon, <1>3, <1>5, <2>1
  <2>2. CASE l # k
    BY <1>1, <2>2 DEF PoolInv, BacklogOK, TypeOK, Free
  <2> QED BY Zenon, <2>1, <2>2
<1>13. InboxOK'
  <2>1. inbox \in [Peers -> SUBSET Tasks]
    BY DEF PoolInv, TypeOK
  <2> QED BY <1>1, <1>8, <2>1 DEF PoolInv, InboxOK
<1> QED BY Zenon, <1>1, <1>6, <1>7, <1>9, <1>10, <1>11, <1>12, <1>13 DEF PoolInv, Pool!vars

(* EnqueueWorkflowTask and EnqueueActivityTask begin a delivery: the pool's Submit. *)
LEMMA EnqueueStep ==
  ASSUME PoolInv, NEW t \in Tasks, Enqueue(t)
  PROVE  PoolInv' /\ Pool!Submit(t)
<1> DEFINE k == KeyOf[t]
<1>1. job = Free /\ t \notin enqueued /\ enqueued' = enqueued \cup {t}
      /\ byToken' = byToken \cup {t} /\ job' = [op |-> "enqueue", task |-> t]
      /\ UNCHANGED <<subs, byPeer, rrIdx, pending, workerPeer, made, link, inbox, answered, last>>
  BY DEF Enqueue, worker
<1>2. k \in Keys /\ pending[k] \in Seq(Tasks) /\ job.op = "free"
  BY Zenon, <1>1, KeyAssumption, FreeJob
<1>3. t \notin byToken /\ answered[t] = 0 /\ \A i \in DOMAIN pending[k] : pending[k][i] # t
  BY <1>1, <1>2 DEF PoolInv, TokensOK, QueuedOK
<1>4. TypeOK'
  BY Zenon, <1>1 DEF PoolInv, TypeOK, Jobs
<1>5. SubsOK' /\ QueuedOK' /\ TokensOK'
  BY ZenonT(30), <1>1, <1>3 DEF PoolInv, SubsOK, QueuedOK, TokensOK
<1>6. JobOK' /\ BacklogOK'
  BY Zenon, <1>1, <1>2, <1>3 DEF PoolInv, JobOK, BacklogOK
<1>7. /\ \A u \in Tasks : u # t => (Waiting(u)' <=> Waiting(u))
      /\ Waiting(t)'
  BY Zenon, <1>1 DEF Waiting, Free
<1>8. InboxOK'
  <2>1. inbox \in [Peers -> SUBSET Tasks]
    BY DEF PoolInv, TypeOK
  <2> QED BY <1>1, <1>7, <2>1 DEF PoolInv, InboxOK
<1>9. Holders' = Holders
  <2>1. \A u \in Tasks : Handed(u)' <=> Handed(u)
    BY <1>1, <1>7 DEF Handed
  <2> QED BY <1>1, <2>1 DEF Holders
<1>10. Queues' = [Queues EXCEPT ![k] = Append(@, t)]
  <2>1. \A l \in Keys : Queue(l) = pending[l]
    BY <1>2, FreeJob DEF Queue
  <2>2. \A l \in Keys : Queue(l)' = IF l = k THEN Append(pending[l], t) ELSE pending[l]
    <3>1. \A l \in Keys : pending[l] \in Seq(Tasks)
      BY FreeJob
    <3>2. pending[k] \o <<t>> = Append(pending[k], t)
      BY <1>2
    <3>3. \A l \in Keys : pending[l] \o <<>> = pending[l]
      BY <3>1
    <3> QED BY Zenon, <1>1, <3>2, <3>3 DEF Queue
  <2> QED BY Zenon, <1>2, <2>1, <2>2 DEF Queues
<1> QED BY <1>1, <1>4, <1>5, <1>6, <1>8, <1>9, <1>10 DEF PoolInv, Pool!Submit

(* A delivery that found no subscriber left parks its task: a stutter of the pool. *)
LEMMA ParkStep ==
  ASSUME PoolInv, Park
  PROVE  PoolInv' /\ UNCHANGED Pool!vars
<1> DEFINE t == job.task
           k == KeyOf[t]
<1>1. job # Free /\ job' = Free /\ subs[k] = <<>>
      /\ pending' = (IF job.op = "enqueue" THEN [pending EXCEPT ![k] = Append(@, t)] ELSE pending)
      /\ UNCHANGED <<subs, byPeer, rrIdx, byToken, workerPeer, enqueued, made, link, inbox,
                     answered, last>>
  BY DEF Park, worker, Exhausted
<1>2. t \in Tasks /\ k \in Keys /\ pending[k] \in Seq(Tasks) /\ job.op \in {"enqueue", "drain"}
  BY <1>1, FreeJob
<1>3. job'.op = "free"
  BY <1>1 DEF Free
<1>4. CASE job.op = "drain"
  <2>1. pending' = pending
    BY <1>1, <1>4
  <2>2. pending[k] # <<>> /\ t = pending[k][1] /\ 1 \in DOMAIN pending[k]
    BY <1>2, <1>4, TailLemma DEF PoolInv, JobOK
  <2>3. \A u \in Tasks : Waiting(u)' <=> Waiting(u)
    BY <1>1, <2>1, <2>2 DEF Waiting, Range
  <2>4. UNCHANGED <<Queues, Holders>>
    BY <1>1, <1>3, <1>4, <2>1, <2>3 DEF Queues, Queue, Holders, Handed
  <2>5. TypeOK' /\ SubsOK' /\ QueuedOK' /\ TokensOK'
    <3>1. TypeOK'
      BY Zenon, <1>1, <2>1 DEF PoolInv, TypeOK, Jobs
    <3>2. SubsOK' /\ QueuedOK' /\ TokensOK'
      BY <1>1, <2>1, ZenonT(30) DEF PoolInv, SubsOK, QueuedOK, TokensOK
    <3> QED BY <3>1, <3>2
  <2>6. JobOK' /\ BacklogOK'
    BY <1>1, <1>3, <2>1 DEF PoolInv, JobOK, BacklogOK
  <2>7. InboxOK'
    <3>1. inbox \in [Peers -> SUBSET Tasks]
      BY DEF PoolInv, TypeOK
    <3> QED BY <1>1, <2>3, <3>1 DEF PoolInv, InboxOK
  <2> QED BY <1>1, <2>4, <2>5, <2>6, <2>7 DEF PoolInv, Pool!vars
<1>5. CASE job.op = "enqueue"
  <2> DEFINE q == Append(pending[k], t)
  <2>1. pending' = [pending EXCEPT ![k] = q] /\ pending \in [Keys -> Seq(Tasks)]
    BY ZenonT(30), <1>1, <1>5 DEF PoolInv, TypeOK
  <2>2. /\ q \in Seq(Tasks) /\ q = pending[k] \o <<t>>
        /\ DOMAIN q = 1 .. (Len(pending[k]) + 1)
        /\ \A i \in DOMAIN q : q[i] = IF i = Len(pending[k]) + 1 THEN t ELSE pending[k][i]
        /\ \A i \in DOMAIN q : i = Len(pending[k]) + 1 \/ i \in DOMAIN pending[k]
        /\ DOMAIN pending[k] \subseteq DOMAIN q /\ Len(pending[k]) + 1 \in DOMAIN q
        /\ Range(q) = Range(pending[k]) \cup {t}
    <3> HIDE DEF t, k
    <3> QED BY <1>2, AppendLemma, SMTT(30)
  <2> HIDE DEF q
  <2>3. \A l \in Keys : pending'[l] = IF l = k THEN q ELSE pending[l]
    BY <1>2, <2>1
  <2>4. t \in byToken /\ \A i \in DOMAIN pending[k] : pending[k][i] # t
    BY Zenon, <1>5 DEF PoolInv, JobOK
  <2>5. Range(q) = Range(pending[k]) \cup {t}
    BY Zenon, <2>2
  <2>6. \A u \in Tasks : Waiting(u)' <=> Waiting(u)
    BY <1>1, <1>2, <2>3, <2>5, KeyAssumption DEF Waiting
  <2>7. Holders' = Holders
    BY <1>1, <2>6 DEF Holders, Handed
  <2>8. Queues' = Queues
    <3>1. \A l \in Keys : Queue(l) = IF l = k THEN q ELSE pending[l]
      <4>1. \A l \in Keys : pending[l] \o <<>> = pending[l]
        BY FreeJob
      <4> QED BY Zenon, <1>5, <2>2, <4>1 DEF Queue
    <3>2. \A l \in Keys : Queue(l)' = IF l = k THEN q ELSE pending[l]
      <4>1. \A l \in Keys : pending[l] \o <<>> = pending[l]
        BY FreeJob
      <4>2. q \o <<>> = q
        BY <2>2
      <4>3. job'.op # "enqueue"
        BY <1>3
      <4>4. \A l \in Keys : Queue(l)' = pending'[l] \o <<>>
        BY <4>3 DEF Queue
      <4> HIDE DEF k, t
      <4> QED BY Zenon, <2>3, <4>1, <4>2, <4>4
    <3> QED BY <3>1, <3>2 DEF Queues
  <2>9. TypeOK'
    <3>1. pending' \in [Keys -> Seq(Tasks)]
      BY Zenon, <1>2, <2>1, <2>2
    <3>2. job' \in Jobs
      BY <1>1 DEF Jobs
    <3> QED BY Zenon, <1>1, <3>1, <3>2 DEF PoolInv, TypeOK
  <2>10. SubsOK' /\ TokensOK'
    BY <1>1 DEF PoolInv, SubsOK, TokensOK
  <2>11. QueuedOK'
    <3>0. byToken' = byToken
      BY <1>1
    <3> SUFFICES ASSUME NEW l \in Keys
                 PROVE  \A i \in DOMAIN pending'[l] :
                          /\ KeyOf[pending'[l][i]] = l /\ pending'[l][i] \in byToken
                          /\ \A j \in DOMAIN pending'[l] : pending'[l][i] = pending'[l][j] => i = j
      BY <3>0 DEF QueuedOK
    <3>1. CASE l = k
      <4>1. pending'[l] = q /\ k = KeyOf[t]
        BY Zenon, <2>3, <3>1
      <4>2. \A i \in DOMAIN pending[k] :
              /\ KeyOf[pending[k][i]] = k /\ pending[k][i] \in byToken
              /\ \A j \in DOMAIN pending[k] : pending[k][i] = pending[k][j] => i = j
        BY <1>2 DEF PoolInv, QueuedOK
      <4> HIDE DEF k, t
      <4>3. ASSUME NEW i \in DOMAIN q
            PROVE  KeyOf[q[i]] = k /\ q[i] \in byToken
        BY ZenonT(30), <2>2, <2>4, <4>1, <4>2
      <4>4. ASSUME NEW i \in DOMAIN q, NEW j \in DOMAIN q, q[i] = q[j]
            PROVE  i = j
        BY Zenon, <2>2, <2>4, <4>2, <4>4
      <4> QED BY <3>1, <4>1, <4>3, <4>4
    <3>2. CASE l # k
      <4>1. pending'[l] = pending[l]
        BY Zenon, <2>3, <3>2
      <4> QED BY Zenon, <4>1 DEF PoolInv, QueuedOK
    <3> QED BY <3>1, <3>2
  <2>12. JobOK' /\ BacklogOK'
    BY <1>1, <1>2, <1>3, <1>5, <2>3 DEF PoolInv, JobOK, BacklogOK
  <2>13. InboxOK'
    <3>1. inbox \in [Peers -> SUBSET Tasks]
      BY DEF PoolInv, TypeOK
    <3> QED BY <1>1, <2>6, <3>1 DEF PoolInv, InboxOK
  <2> QED BY Zenon, <1>1, <2>7, <2>8, <2>9, <2>10, <2>11, <2>12, <2>13 DEF PoolInv, Pool!vars
<1> QED BY Zenon, <1>2, <1>4, <1>5

(* The subscriber a delivery picks serves the key of the job's task. *)
LEMMA TargetLemma ==
  ASSUME PoolInv, job # Free, subs[KeyOf[job.task]] # <<>>
  PROVE  /\ Target \in Subscription /\ Target.key = KeyOf[job.task]
         /\ Target.peer \in Peers /\ Target.id \in 0 .. MaxSubs
         /\ Advanced(Target.key) \in [Keys -> 0 .. MaxSubs]
<1> DEFINE k == KeyOf[job.task]
<1>1. k \in Keys /\ subs[k] # <<>>
  BY Zenon, FreeJob
<1>2. /\ subs[k][Picked(k)] \in Subscription /\ subs[k][Picked(k)].key = k
      /\ Advanced(k) \in [Keys -> 0 .. MaxSubs]
  BY <1>1, PickedLemma DEF PoolInv
<1>3. Target = subs[k][Picked(k)]
  BY DEF Target
<1> HIDE DEF k
<1>4. Target \in Subscription /\ Target.key = k /\ Advanced(Target.key) \in [Keys -> 0 .. MaxSubs]
  BY <1>2, <1>3
<1>5. Target.peer \in Peers /\ Target.id \in 0 .. MaxSubs
  BY <1>4, SubsAssumption DEF Subscription
<1> QED BY <1>4, <1>5 DEF k

(* A failed send removes the subscription and the delivery goes on with the next. *)
LEMMA PruneStep ==
  ASSUME PoolInv, Prune
  PROVE  PoolInv' /\ UNCHANGED Pool!vars
<1> DEFINE t == job.task
<1>1. /\ job # Free /\ subs[KeyOf[t]] # <<>> /\ removeSub(Target)
      /\ workerPeer' = [workerPeer EXCEPT ![t] = Target.peer]
      /\ rrIdx' = (IF Len(subs[Target.key]) = 1 THEN [rrIdx EXCEPT ![Target.key] = 0]
                   ELSE Advanced(Target.key))
      /\ last' = [last EXCEPT ![Target.key] = 0]
      /\ UNCHANGED <<pending, byToken, job, enqueued, made, link, inbox, answered>>
  BY DEF Prune, Try
<1>2. /\ Target \in Subscription /\ Target.key \in Keys /\ Target.peer \in Peers /\ t \in Tasks
      /\ Advanced(Target.key) \in [Keys -> 0 .. MaxSubs]
  BY <1>1, TargetLemma, FreeJob
<1> HIDE DEF t
<1>3. /\ subs' \in [Keys -> Seq(Subscription)] /\ byPeer' \in [Peers -> Seq(Subscription)]
      /\ SubsOK' /\ \A k \in Keys : subs[k] = <<>> => subs'[k] = <<>>
  BY Zenon, <1>1, <1>2, RemoveLemma DEF removeSub
<1>4. TypeOK'
  <2>0. /\ last \in [Keys -> 0 .. MaxSubs] /\ rrIdx \in [Keys -> 0 .. MaxSubs]
        /\ workerPeer \in [Tasks -> Peers \cup {None}] /\ 0 \in 0 .. MaxSubs
    BY SubsAssumption DEF PoolInv, TypeOK
  <2>1. last' \in [Keys -> 0 .. MaxSubs] /\ workerPeer' \in [Tasks -> Peers \cup {None}]
    BY Zenon, <1>1, <1>2, <2>0
  <2>2. rrIdx' \in [Keys -> 0 .. MaxSubs]
    <3>1. [rrIdx EXCEPT ![Target.key] = 0] \in [Keys -> 0 .. MaxSubs]
      BY Zenon, <2>0
    <3> QED BY <1>1, <1>2, <3>1
  <2> QED BY Zenon, <1>1, <1>3, <2>1, <2>2 DEF PoolInv, TypeOK
<1>5. \A u \in Tasks : Waiting(u)' <=> Waiting(u)
  BY <1>1 DEF Waiting
<1>6. Waiting(t)
  BY Zenon, <1>1 DEF Waiting, t
<1>7. \A u \in Tasks : u # t => workerPeer'[u] = workerPeer[u]
  BY Zenon, <1>1, <1>2 DEF PoolInv, TypeOK
<1>8. Queues' = Queues
  BY <1>1 DEF Queues, Queue
<1>9. Holders' = Holders
  <2>1. \A u \in Tasks : /\ Handed(u)' <=> Handed(u)
                         /\ Handed(u) => workerPeer'[u] = workerPeer[u]
    BY <1>1, <1>5, <1>6, <1>7 DEF Handed
  <2> QED BY Zenon, <2>1 DEF Holders
<1>10. QueuedOK' /\ JobOK' /\ TokensOK'
  <2>1. QueuedOK'
    BY <1>1, ZenonT(40) DEF PoolInv, QueuedOK
  <2>2. JobOK'
    BY <1>1, ZenonT(40) DEF PoolInv, JobOK
  <2>3. TokensOK'
    BY <1>1, ZenonT(40) DEF PoolInv, TokensOK
  <2> QED BY <2>1, <2>2, <2>3
<1>11. BacklogOK'
  BY <1>1, <1>3 DEF PoolInv, BacklogOK
<1>12. InboxOK'
  <2>1. inbox \in [Peers -> SUBSET Tasks]
    BY DEF PoolInv, TypeOK
  <2> QED BY Zenon, <1>1, <1>5, <1>6, <1>7, <2>1 DEF PoolInv, InboxOK
<1> QED BY Zenon, <1>1, <1>3, <1>4, <1>8, <1>9, <1>10, <1>11, <1>12 DEF PoolInv, Pool!vars

(* TakeWorkflow and TakeActivity consume a token. *)
LEMMA RespondStep ==
  ASSUME PoolInv, NEW p \in Peers, NEW t \in Tasks, Respond(p, t)
  PROVE  PoolInv' /\ Pool!Answer(t)
<1>1. /\ job = Free /\ t \in inbox[p] /\ t \in byToken /\ byToken' = byToken \ {t}
      /\ answered' = [answered EXCEPT ![t] = @ + 1]
      /\ inbox' = [inbox EXCEPT ![p] = @ \ {t}] \/ inbox' = inbox
      /\ UNCHANGED <<subs, byPeer, rrIdx, pending, workerPeer, job, enqueued, made, link, last>>
  BY DEF Respond, Consume
<1>2. inbox \in [Peers -> SUBSET Tasks] /\ answered \in [Tasks -> Nat]
  BY DEF PoolInv, TypeOK
<1>3. inbox' \in [Peers -> SUBSET Tasks] /\ \A q \in Peers : inbox'[q] \subseteq inbox[q]
  BY <1>1, <1>2
<1>4. answered[t] = 0
  BY <1>1 DEF PoolInv, TokensOK
<1>5. answered' = [answered EXCEPT ![t] = 1] /\ answered' \in [Tasks -> Nat]
  BY <1>1, <1>2, <1>4
<1>6. TypeOK'
  BY Zenon, <1>1, <1>3, <1>5 DEF PoolInv, TypeOK
<1>7. t \in enqueued /\ ~Waiting(t) /\ workerPeer[t] \in Peers
  BY Zenon, <1>1 DEF PoolInv, InboxOK
<1>8. \A u \in Tasks : Waiting(u)' <=> Waiting(u)
  BY <1>1 DEF Waiting
<1>9. Queues' = Queues
  BY <1>1 DEF Queues, Queue
<1>10. Holders' = Holders
  <2>1. \A u \in Tasks : Handed(u)' <=> Handed(u)
    BY <1>1, <1>8 DEF Handed
  <2> QED BY Zenon, <1>1, <2>1 DEF Holders
<1>11. Holders[t] # None
  BY <1>7, NoneAssumption DEF Holders, Handed
<1>12. SubsOK' /\ BacklogOK'
  BY <1>1, Zenon DEF PoolInv, SubsOK, BacklogOK
<1>13. QueuedOK'
  <2> SUFFICES ASSUME NEW k \in Keys, NEW i \in DOMAIN pending[k]
               PROVE  pending[k][i] \in byToken'
    BY Zenon, <1>1 DEF PoolInv, QueuedOK
  <2>1. pending[k][i] \in byToken /\ KeyOf[pending[k][i]] = k
    BY DEF PoolInv, QueuedOK
  <2>2. pending[k][i] # t
    BY Zenon, <1>7, <2>1 DEF Waiting, Range
  <2> QED BY Zenon, <1>1, <2>1, <2>2
<1>14. JobOK'
  BY <1>1 DEF JobOK, Free
<1>15. TokensOK'
  BY Zenon, <1>1, <1>2, <1>7 DEF PoolInv, TokensOK
<1>16. InboxOK'
  BY <1>1, <1>2, <1>3, <1>8 DEF PoolInv, InboxOK
<1>17. PoolInv'
  BY Zenon, <1>6, <1>12, <1>13, <1>14, <1>15, <1>16 DEF PoolInv
<1> QED BY Zenon, <1>1, <1>4, <1>5, <1>9, <1>10, <1>11, <1>17 DEF Pool!Answer

(* What a delivery does to the queues: the job's task leaves the head of its
   key's queue and waits no more; the others wait as before. *)
LEMMA DeliverQueues ==
  ASSUME PoolInv, Deliver, NEW t \in Tasks, t = job.task
  PROVE  LET k == KeyOf[t] IN
         /\ pending' \in [Keys -> Seq(Tasks)] /\ job' \in Jobs
         /\ \A u \in Tasks : u # t => (Waiting(u)' <=> Waiting(u))
         /\ ~Waiting(t)'
         /\ Queues[k] # <<>> /\ Head(Queues[k]) = t
         /\ Queues' = [Queues EXCEPT ![k] = Tail(@)]
         /\ QueuedOK' /\ JobOK' /\ BacklogOK'
<1> DEFINE k == KeyOf[t]
<1>1. /\ job # Free /\ subs[k] # <<>> /\ Target.key = k /\ AfterDelivery(Target.key)
      /\ UNCHANGED <<byToken, subs>>
  BY TargetLemma DEF Deliver, Try
<1>2. t \in Tasks /\ k \in Keys /\ pending[k] \in Seq(Tasks) /\ job.op \in {"enqueue", "drain"}
  BY Zenon, <1>1, FreeJob
<1>3. pending \in [Keys -> Seq(Tasks)] /\ \A l \in Keys : pending[l] \o <<>> = pending[l]
  BY FreeJob DEF PoolInv, TypeOK
<1>4. CASE job.op = "enqueue"
  <2>1. job' = Free /\ pending' = pending
    BY Zenon, <1>1, <1>4 DEF AfterDelivery
  <2>2. pending[k] = <<>>
    BY Zenon, <1>1, <1>2, <1>4 DEF PoolInv, BacklogOK
  <2>3. t \notin Range(pending[k])
    BY <2>2 DEF Range
  <2>4. ~Waiting(t)' /\ \A u \in Tasks : u # t => (Waiting(u)' <=> Waiting(u))
    BY <1>1, <2>1, <2>3 DEF Waiting
  <2>5. \A l \in Keys : Queue(l) = IF l = k THEN <<t>> ELSE pending[l]
    <3>1. <<>> \o <<t>> = <<t>>
      BY <1>2
    <3> QED BY Zenon, <1>3, <1>4, <2>2, <3>1 DEF Queue
  <2>6. \A l \in Keys : Queue(l)' = pending[l]
    BY <1>3, <2>1 DEF Queue, Free
  <2>7. Tail(<<t>>) = <<>> /\ Head(<<t>>) = t /\ <<t>> # <<>>
    OBVIOUS
  <2> HIDE DEF k
  <2>8. Queues[k] = <<t>> /\ Queues' = [Queues EXCEPT ![k] = Tail(@)]
    BY Zenon, <1>2, <2>2, <2>5, <2>6, <2>7 DEF Queues
  <2>9. QueuedOK'
    BY <1>1, <2>1, ZenonT(30) DEF PoolInv, QueuedOK
  <2>10. JobOK' /\ BacklogOK'
    BY <1>1, <1>4, <2>1 DEF PoolInv, JobOK, BacklogOK, Free
  <2>11. job' \in Jobs
    BY Zenon, <2>1 DEF Jobs
  <2> QED BY Zenon, <1>3, <2>1, <2>4, <2>7, <2>8, <2>9, <2>10, <2>11 DEF k
<1>5. CASE job.op = "drain"
  <2> DEFINE q == Tail(pending[k])
  <2>1. pending' = [pending EXCEPT ![k] = q] /\ job' = Drain(k)
    BY Zenon, <1>1, <1>5 DEF AfterDelivery
  <2>2. pending[k] # <<>> /\ t = Head(pending[k])
    BY Zenon, <1>5 DEF PoolInv, JobOK
  <2>3. /\ q \in Seq(Tasks) /\ Len(q) = Len(pending[k]) - 1 /\ Len(pending[k]) > 0
        /\ t = pending[k][1]
        /\ \A i \in 1 .. (Len(pending[k]) - 1) : q[i] = pending[k][i + 1]
    BY Zenon, <1>2, <2>2, TailLemma
  <2> HIDE DEF q
  <2>4. Len(pending[k]) \in Nat /\ DOMAIN pending[k] = 1 .. Len(pending[k])
        /\ DOMAIN q = 1 .. (Len(pending[k]) - 1)
    BY <1>2, <2>3
  <2>5. \A i \in DOMAIN pending[k] :
          /\ KeyOf[pending[k][i]] = k /\ pending[k][i] \in byToken
          /\ \A j \in DOMAIN pending[k] : pending[k][i] = pending[k][j] => i = j
    BY Zenon, <1>2 DEF PoolInv, QueuedOK
  <2>6. \A i \in DOMAIN q : i + 1 \in DOMAIN pending[k] /\ q[i] = pending[k][i + 1] /\ i \in Nat
                            /\ i + 1 # 1
    BY Zenon, <1>2, <2>2, TailSet DEF q
  <2>7. \A i \in DOMAIN q : KeyOf[q[i]] = k /\ q[i] \in byToken /\ q[i] # t
    <3>1. 1 \in DOMAIN pending[k]
      BY Zenon, <1>2, <2>2, TailSet
    <3>2. ASSUME NEW i \in DOMAIN q PROVE q[i] # t
      <4>1. i + 1 \in DOMAIN pending[k] /\ q[i] = pending[k][i + 1] /\ i + 1 # 1
        BY <2>6
      <4>2. pending[k][i + 1] = pending[k][1] => i + 1 = 1
        BY <2>5, <3>1, <4>1, ZenonT(40)
      <4> QED BY Zenon, <2>3, <4>1, <4>2
    <3> QED BY <2>5, <2>6, <3>2
  <2>8. \A i, j \in DOMAIN q : q[i] = q[j] => i = j
    BY <2>5, <2>6
  <2>9. Range(pending[k]) = Range(q) \cup {t} /\ t \notin Range(q)
    <3>1. Range(pending[k]) = Range(q) \cup {t}
      BY <1>2, <2>2, TailSet DEF q
    <3>2. t \notin Range(q)
      BY Zenon, <2>7 DEF Range
    <3> QED BY Zenon, <3>1, <3>2
  <2>10. \A l \in Keys : pending'[l] = IF l = k THEN q ELSE pending[l]
    BY Zenon, <1>2, <1>3, <2>1
  <2>11. job' = IF q = <<>> THEN Free ELSE [op |-> "drain", task |-> Head(q)]
    BY <1>2, <2>1, <2>10 DEF Drain
  <2>12. q # <<>> => /\ Head(q) \in Range(q) /\ Head(q) \in Tasks /\ KeyOf[Head(q)] = k
    <3>1. q # <<>> => Head(q) = q[1] /\ 1 \in DOMAIN q /\ Head(q) \in Tasks
      BY <2>3, TailLemma
    <3> QED BY Zenon, <2>7, <3>1 DEF Range
  <2>13. ~Waiting(t)'
    BY Zenon, <1>2, <2>9, <2>10, <2>11, <2>12 DEF Waiting, Free
  <2>14. ASSUME NEW u \in Tasks, u # t PROVE Waiting(u)' <=> Waiting(u)
    <3>1. Waiting(u) <=> u \in Range(pending[KeyOf[u]])
      BY Zenon, <2>14 DEF Waiting
    <3>2. Waiting(u)' <=> u \in Range(pending'[KeyOf[u]])
      BY <1>2, <2>10, <2>11, <2>12 DEF Waiting, Free
    <3>3. KeyOf[u] \in Keys
      BY KeyAssumption
    <3> QED BY Zenon, <2>9, <2>10, <2>14, <3>1, <3>2, <3>3
  <2>15. \A l \in Keys : Queue(l) = pending[l] /\ Queue(l)' = pending'[l]
    <3>1. job.op # "enqueue" /\ job'.op # "enqueue"
      BY Zenon, <1>5, <2>11 DEF Free
    <3>2. \A l \in Keys : pending'[l] \o <<>> = pending'[l]
      BY <1>3, <2>3, <2>10
    <3> QED BY Zenon, <1>3, <3>1, <3>2 DEF Queue
  <2>16. Queues[k] = pending[k] /\ Queues' = [Queues EXCEPT ![k] = Tail(@)]
    BY <1>2, <2>10, <2>15 DEF Queues, q
  <2>17. QueuedOK'
    <3> SUFFICES ASSUME NEW l \in Keys
                 PROVE  \A i \in DOMAIN pending'[l] :
                          /\ KeyOf[pending'[l][i]] = l /\ pending'[l][i] \in byToken
                          /\ \A j \in DOMAIN pending'[l] : pending'[l][i] = pending'[l][j] => i = j
      BY <1>1 DEF QueuedOK
    <3>1. CASE l = k
      <4>1. pending'[l] = q
        BY <2>10, <3>1
      <4> QED BY <2>7, <2>8, <3>1, <4>1, ZenonT(30)
    <3>2. CASE l # k
      BY <2>10, <3>2 DEF PoolInv, QueuedOK
    <3> QED BY Zenon, <3>1, <3>2
  <2>18. JobOK'
    BY Zenon, <1>2, <2>10, <2>11, <2>12 DEF JobOK, Free
  <2>19. BacklogOK'
    <3> SUFFICES ASSUME NEW l \in Keys, pending'[l] # <<>>
                 PROVE  subs'[l] = <<>> \/ (job'.op = "drain" /\ KeyOf[job'.task] = l)
      BY Zenon DEF BacklogOK
    <3>1. CASE l = k
      BY Zenon, <2>10, <2>11, <2>12, <3>1
    <3>2. CASE l # k
      BY <1>1, <2>10, <3>2 DEF PoolInv, BacklogOK
    <3> QED BY Zenon, <3>1, <3>2
  <2>20. pending' \in [Keys -> Seq(Tasks)] /\ job' \in Jobs
    <3>1. pending' \in [Keys -> Seq(Tasks)]
      BY Zenon, <1>2, <1>3, <2>1, <2>3
    <3>2. job' \in Jobs
      BY <2>11, <2>12 DEF Jobs
    <3> QED BY Zenon, <3>1, <3>2
  <2> HIDE DEF k
  <2> QED BY Zenon, <2>2, <2>13, <2>14, <2>16, <2>17, <2>18, <2>19, <2>20 DEF k
<1> QED BY Zenon, <1>2, <1>4, <1>5

(* A send that succeeds hands the task to the worker. *)
LEMMA DeliverStep ==
  ASSUME PoolInv, Deliver
  PROVE  PoolInv' /\ \E k \in Keys, p \in Peers : Pool!Hand(k, p)
<1>1. /\ job # Free /\ subs[KeyOf[job.task]] # <<>>
      /\ workerPeer' = [workerPeer EXCEPT ![job.task] = Target.peer]
      /\ rrIdx' = Advanced(Target.key) /\ last' = [last EXCEPT ![Target.key] = Target.id]
      /\ Pushed(Target.peer, job.task)
      /\ UNCHANGED <<subs, byPeer, byToken, enqueued, made, link, answered>>
  BY DEF Deliver, Try
<1>2. PICK t \in Tasks : t = job.task
  BY Zenon, <1>1, FreeJob
<1>3. PICK p \in Peers : p = Target.peer
  BY Zenon, <1>1, TargetLemma
<1>4. PICK k \in Keys : k = KeyOf[t] /\ k = Target.key
  BY <1>1, <1>2, TargetLemma, FreeJob
<1>5. /\ pending' \in [Keys -> Seq(Tasks)] /\ job' \in Jobs
      /\ \A u \in Tasks : u # t => (Waiting(u)' <=> Waiting(u))
      /\ ~Waiting(t)'
      /\ Queues[k] # <<>> /\ Head(Queues[k]) = t
      /\ Queues' = [Queues EXCEPT ![k] = Tail(@)]
      /\ QueuedOK' /\ JobOK' /\ BacklogOK'
  BY Zenon, <1>2, <1>4, DeliverQueues
<1>6. /\ rrIdx' \in [Keys -> 0 .. MaxSubs] /\ last' \in [Keys -> 0 .. MaxSubs]
      /\ workerPeer' = [workerPeer EXCEPT ![t] = p] /\ workerPeer' \in [Tasks -> Peers \cup {None}]
  <2>1. Target.id \in 0 .. MaxSubs /\ Advanced(Target.key) \in [Keys -> 0 .. MaxSubs]
    BY <1>1, TargetLemma
  <2>2. last \in [Keys -> 0 .. MaxSubs] /\ workerPeer \in [Tasks -> Peers \cup {None}]
    BY DEF PoolInv, TypeOK
  <2> QED BY Zenon, <1>1, <1>2, <1>3, <1>4, <2>1, <2>2
<1>7. inbox' \in [Peers -> SUBSET Tasks] /\ \A q \in Peers : inbox'[q] \subseteq inbox[q] \cup {t}
  <2>1. inbox \in [Peers -> SUBSET Tasks]
    BY DEF PoolInv, TypeOK
  <2> QED BY Zenon, <1>1, <1>2, <1>3, <2>1 DEF Pushed
<1>8. TypeOK'
  BY Zenon, <1>1, <1>5, <1>6, <1>7 DEF PoolInv, TypeOK
<1>9. SubsOK' /\ TokensOK'
  BY <1>1, Zenon DEF PoolInv, SubsOK, TokensOK
<1>10. Waiting(t) /\ t \in enqueued
  <2>1. Waiting(t)
    BY Zenon, <1>1, <1>2 DEF Waiting
  <2>2. CASE job.op = "enqueue"
    BY Zenon, <1>2, <2>1, <2>2 DEF PoolInv, JobOK, TokensOK
  <2>3. CASE job.op = "drain"
    <3>1. pending[k] # <<>> /\ t = Head(pending[k]) /\ pending[k] \in Seq(Tasks)
      BY Zenon, <1>2, <1>4, <2>3, FreeJob DEF PoolInv, JobOK
    <3>2. t = pending[k][1] /\ 1 \in DOMAIN pending[k]
      BY <3>1, TailLemma
    <3> QED BY Zenon, <2>1, <3>2 DEF PoolInv, QueuedOK, TokensOK
  <2> QED BY Zenon, <1>1, <2>1, <2>2, <2>3, FreeJob
<1>11. InboxOK'
  <2> SUFFICES ASSUME NEW q \in Peers, NEW u \in inbox'[q]
               PROVE  u \in enqueued' /\ ~Waiting(u)' /\ workerPeer'[u] \in Peers
    BY Zenon DEF InboxOK
  <2>0. workerPeer \in [Tasks -> Peers \cup {None}]
    BY DEF PoolInv, TypeOK
  <2>1. CASE u = t
    <3>1. workerPeer'[t] = p
      BY Zenon, <1>6, <2>0
    <3> QED BY Zenon, <1>1, <1>5, <1>10, <2>1, <3>1
  <2>2. CASE u # t
    <3>1. u \in inbox[q] /\ u \in Tasks
      BY Zenon, <1>7, <2>2
    <3>2. u \in enqueued /\ ~Waiting(u) /\ workerPeer[u] \in Peers
      BY <3>1 DEF PoolInv, InboxOK
    <3>3. workerPeer'[u] = workerPeer[u]
      BY <1>6, <2>0, <2>2, <3>1
    <3> QED BY <1>1, <1>5, <2>2, <3>1, <3>2, <3>3
  <2> QED BY <2>1, <2>2
<1>12. Holders' = [Holders EXCEPT ![t] = p]
  <2>1. \A u \in Tasks : u # t => (Handed(u)' <=> Handed(u)) /\ workerPeer'[u] = workerPeer[u]
    BY ZenonT(30), <1>1, <1>5, <1>6 DEF Handed, PoolInv, TypeOK
  <2>2. Handed(t)' /\ workerPeer'[t] = p
    BY Zenon, <1>1, <1>5, <1>6, <1>10 DEF Handed, PoolInv, TypeOK
  <2> QED BY Zenon, <2>1, <2>2 DEF Holders
<1>13. Pool!Hand(k, p)
  BY Zenon, <1>1, <1>5, <1>12 DEF Pool!Hand
<1>14. PoolInv'
  BY <1>5, <1>8, <1>9, <1>11 DEF PoolInv
<1> QED BY Zenon, <1>13, <1>14

-----------------------------------------------------------------------------
(* Every step keeps the invariant and is a step, or a stutter, of the pool. *)
LEMMA NextStep ==
  ASSUME PoolInv, [Next]_vars
  PROVE  PoolInv' /\ [Pool!Next]_Pool!vars
<1>1. CASE Deliver
  BY <1>1, DeliverStep DEF Pool!Next
<1>2. CASE Prune
  BY <1>2, PruneStep
<1>3. CASE Park
  BY <1>3, ParkStep
<1>4. ASSUME NEW t \in Tasks, Enqueue(t) PROVE PoolInv' /\ Pool!Next
  BY <1>4, EnqueueStep DEF Pool!Next
<1>5. ASSUME NEW k \in Keys, PushQuery(k) PROVE PoolInv' /\ UNCHANGED Pool!vars
  BY <1>5, PushQueryStep
<1>6. ASSUME NEW p \in Peers, Die(p) \/ Notice(p) \/ \E t \in Tasks : RespondAgain(p, t)
      PROVE  PoolInv' /\ UNCHANGED Pool!vars
  BY <1>6, WorkerStep
<1>7. ASSUME NEW p \in Peers, NEW k \in Keys, Subscribe(p, k)
      PROVE  PoolInv' /\ UNCHANGED Pool!vars
  BY <1>7, SubscribeStep
<1>8. ASSUME NEW p \in Peers, NEW s \in Range(byPeer[p]), Unsubscribe(s)
      PROVE  PoolInv' /\ UNCHANGED Pool!vars
  BY <1>8, UnsubscribeStep
<1>9. ASSUME NEW p \in Peers, NEW t \in Tasks, Respond(p, t) PROVE PoolInv' /\ Pool!Next
  BY Zenon, <1>9, RespondStep DEF Pool!Next
<1>10. CASE UNCHANGED vars
  <2>1. TypeOK' /\ SubsOK'
    BY <1>10 DEF vars, PoolInv, TypeOK, SubsOK
  <2> QED BY Zenon, <1>10, <2>1, QuietStep DEF vars
<1> QED BY <1>1, <1>2, <1>3, <1>4, <1>5, <1>6, <1>7, <1>8, <1>9, <1>10, Zenon DEF Next

(* The invariant behind the two theorems below, of every behaviour of the
   dispatcher whatever the workers, keys and tasks. *)
THEOREM PoolInvariant == Spec => []PoolInv
<1>1. PoolInv /\ [Next]_vars => PoolInv'
  BY NextStep
<1> QED BY InitPoolInv, <1>1, PTL DEF Spec

(* Every variable of the dispatcher keeps its type; what pickLocked returns is
   a position of the key's list, however subscriptions come and go. *)
THEOREM DispatcherTypeCorrect == Spec => []TypeOK
<1>1. PoolInv => TypeOK
  BY Zenon DEF PoolInv
<1> QED BY PoolInvariant, <1>1, PTL

(* When no delivery is in progress, a task waits in the backlog only under a
   key that nobody serves (drainLocked at every Subscribe, the delivery loop's
   pruning). *)
THEOREM BacklogIsUnserved == Spec => []BacklogUnserved
<1>1. PoolInv => BacklogUnserved
  BY FreeJob DEF PoolInv, BacklogOK, BacklogUnserved
<1> QED BY PoolInvariant, <1>1, PTL

(* The dispatcher implements TaskPool: first in first out per key, a task is
   handed to one worker and never to a second, one answer per task. *)
THEOREM PoolImplemented == Spec => PoolSpec
<1>1. Init => Pool!Init
  BY DEF Init, Pool!Init, Queues, Queue, Holders, Handed, Free
<1>2. PoolInv /\ [Next]_vars => [Pool!Next]_Pool!vars
  BY Zenon, NextStep
<1> QED BY PoolInvariant, <1>1, <1>2, PTL DEF Spec, PoolSpec, Pool!Spec

-----------------------------------------------------------------------------
(* The subscriptions by key and by worker, and the turns. *)
-----------------------------------------------------------------------------

(* Removing an id that stands once in a list takes out that subscription and no
   other. *)
LEMMA WithoutSet ==
  ASSUME NEW list \in Seq(Subscription), OnceEach(list), NEW id
  PROVE  /\ Range(Without(list, id)) = {s \in Range(list) : s.id # id}
         /\ OnceEach(Without(list, id))
<1>1. CASE \E i \in DOMAIN list : list[i].id = id
  <2>1. PICK i \in 1 .. Len(list) :
          /\ list[i].id = id
          /\ Without(list, id) = SubSeq(list, 1, i - 1) \o SubSeq(list, i + 1, Len(list))
    <3> DEFINE c == CHOOSE i \in DOMAIN list : list[i].id = id
    <3>1. c \in DOMAIN list /\ list[c].id = id
      BY <1>1
    <3>2. Without(list, id) = SubSeq(list, 1, c - 1) \o SubSeq(list, c + 1, Len(list))
      BY Zenon, <1>1 DEF Without
    <3> HIDE DEF c
    <3>3. c \in 1 .. Len(list)
      BY <3>1
    <3> QED BY <3>1, <3>2, <3>3, Zenon
  <2> DEFINE A == SubSeq(list, 1, i - 1)
             B == SubSeq(list, i + 1, Len(list))
             W == A \o B
  <2>2. A \in Seq(Subscription) /\ Len(A) = i - 1 /\ \A j \in 1 .. (i - 1) : A[j] = list[j]
    BY <2>1
  <2>3. B \in Seq(Subscription) /\ Len(B) = Len(list) - i
        /\ \A j \in 1 .. (Len(list) - i) : B[j] = list[j + i]
    BY <2>1
  <2> HIDE DEF A, B
  <2>4. W \in Seq(Subscription) /\ Len(W) = Len(list) - 1
    <3>1. A \in Seq(Subscription) /\ B \in Seq(Subscription)
      BY <2>2, <2>3
    <3>2. A \o B \in Seq(Subscription) /\ Len(A \o B) = Len(A) + Len(B)
      BY <3>1
    <3>3. W \in Seq(Subscription) /\ Len(W) = Len(A) + Len(B)
      BY <3>2
    <3> QED BY <2>1, <2>2, <2>3, <3>3
  <2>5. ASSUME NEW j \in 1 .. (Len(list) - 1)
        PROVE  W[j] = IF j < i THEN list[j] ELSE list[j + 1]
    <3>1. (A \o B)[j] = IF j < i THEN list[j] ELSE list[j + 1]
      BY <2>1, <2>2, <2>3
    <3> QED BY <3>1
  <2>6. Without(list, id) = W
    BY <2>1 DEF A, B
  <2> HIDE DEF W
  <2>7. OnceEach(W)
    <3> SUFFICES ASSUME NEW j \in 1 .. (Len(list) - 1), NEW l \in 1 .. (Len(list) - 1), W[j].id = W[l].id
                 PROVE  j = l
      BY <2>4 DEF OnceEach
    <3> DEFINE at(n) == IF n < i THEN n ELSE n + 1
    <3>1. at(j) \in 1 .. Len(list) /\ at(l) \in 1 .. Len(list) /\ (at(j) = at(l) => j = l)
      BY <2>1
    <3>2. W[j] = list[at(j)] /\ W[l] = list[at(l)]
      BY <2>5
    <3> HIDE DEF at
    <3>3. list[at(j)].id = list[at(l)].id
      BY <3>2, Zenon
    <3>4. DOMAIN list = 1 .. Len(list)
      OBVIOUS
    <3>5. at(j) = at(l)
      BY <3>1, <3>3, <3>4, Zenon DEF OnceEach
    <3> QED BY <3>1, <3>5
  <2>8. ASSUME NEW j \in 1 .. (Len(list) - 1) PROVE W[j] \in Range(list) /\ W[j].id # id
    <3>1. PICK l \in 1 .. Len(list) : l # i /\ W[j] = list[l]
      <4>1. CASE j < i
        BY <2>1, <2>5, <4>1
      <4>2. CASE ~(j < i)
        <5>1. j + 1 \in 1 .. Len(list) /\ j + 1 # i /\ W[j] = list[j + 1]
          BY <2>1, <2>5, <4>2
        <5> QED BY <5>1
      <4> QED BY <4>1, <4>2
    <3> QED BY <2>1, <3>1 DEF OnceEach, Range
  <2>9. ASSUME NEW l \in 1 .. Len(list), list[l].id # id
        PROVE  \E j \in 1 .. (Len(list) - 1) : W[j] = list[l]
    <3>1. CASE l < i
      <4>1. l \in 1 .. (Len(list) - 1)
        BY <2>1, <3>1
      <4>2. W[l] = list[l]
        BY <2>5, <3>1, <4>1
      <4> QED BY <4>1, <4>2
    <3>2. CASE l > i
      <4>1. l - 1 \in 1 .. (Len(list) - 1) /\ ~(l - 1 < i) /\ (l - 1) + 1 = l
        BY <2>1, <3>2
      <4> QED BY Zenon, <2>5, <4>1
    <3> QED BY <2>1, <2>9, <3>1, <3>2
  <2>10. Range(W) = {s \in Range(list) : s.id # id}
    <3>1. Range(W) = {W[j] : j \in 1 .. (Len(list) - 1)} /\ Range(list) = {list[j] : j \in 1 .. Len(list)}
      BY <2>4 DEF Range
    <3> QED BY ZenonT(30), <2>8, <2>9, <3>1
  <2> QED BY <2>6, <2>7, <2>10
<1>2. CASE ~ \E i \in DOMAIN list : list[i].id = id
  BY <1>2 DEF Without, Range
<1> QED BY <1>1, <1>2

(* Appending a subscription with a fresh id. *)
LEMMA AppendSet ==
  ASSUME NEW list \in Seq(Subscription), OnceEach(list), NEW s \in Subscription,
         \A r \in Range(list) : r.id # s.id
  PROVE  Range(Append(list, s)) = Range(list) \cup {s} /\ OnceEach(Append(list, s))
<1> DEFINE L == Append(list, s)
           n == Len(list) + 1
<1>1. L \in Seq(Subscription) /\ Len(L) = n /\ L[n] = s /\ n \in Nat
      /\ \A i \in 1 .. Len(list) : L[i] = list[i]
  OBVIOUS
<1>2. \A i \in 1 .. Len(list) : list[i].id # s.id
  BY DEF Range
<1> HIDE DEF L
<1>3. Range(L) = Range(list) \cup {s}
  <2>1. Range(L) = {L[i] : i \in 1 .. n} /\ Range(list) = {list[i] : i \in 1 .. Len(list)}
    BY <1>1 DEF Range
  <2>2. 1 .. n = (1 .. Len(list)) \cup {n}
    OBVIOUS
  <2> HIDE DEF n
  <2>3. \A i \in 1 .. n : L[i] \in Range(list) \cup {s}
    BY Zenon, <1>1, <2>1, <2>2
  <2>4. \A i \in 1 .. Len(list) : list[i] \in Range(L)
    BY Zenon, <1>1, <2>1, <2>2
  <2>5. s \in Range(L)
    BY Zenon, <1>1, <2>1, <2>2
  <2> QED BY Zenon, <2>1, <2>3, <2>4, <2>5
<1>4. OnceEach(L)
  <2> SUFFICES ASSUME NEW i \in 1 .. n, NEW j \in 1 .. n, L[i].id = L[j].id PROVE i = j
    BY <1>1 DEF OnceEach
  <2>1. CASE i \in 1 .. Len(list) /\ j \in 1 .. Len(list)
    BY <1>1, <2>1 DEF OnceEach
  <2>2. CASE i = n \/ j = n
    BY <1>1, <1>2, <2>2
  <2> QED BY <2>1, <2>2
<1> QED BY <1>3, <1>4 DEF L

(* Where a subscription stands. *)
LEMMA ListedFacts ==
  ASSUME AgreeInv
  PROVE  /\ TypeOK /\ SubsOK
         /\ \A k \in Keys : \A s \in Range(subs[k]) : s \in Listed /\ s.key = k /\ s \in Subscription
         /\ \A p \in Peers : \A s \in Range(byPeer[p]) : s \in Listed /\ s \in Subscription
         /\ \A s \in Listed : s \in Range(subs[s.key]) /\ s \in Range(byPeer[s.peer])
                             /\ s \in Subscription /\ s.key \in Keys /\ s.peer \in Peers
<1>1. TypeOK /\ SubsOK /\ Listed = UNION {Range(byPeer[p]) : p \in Peers}
  BY Zenon DEF AgreeInv, PoolInv, SubsAgree
<1>2. ASSUME NEW k \in Keys, NEW s \in Range(subs[k])
      PROVE  s \in Listed /\ s.key = k /\ s \in Subscription
  <2>1. PICK i \in DOMAIN subs[k] : s = subs[k][i]
    BY Zenon DEF Range
  <2>2. s \in Subscription
    BY <1>1, <2>1 DEF TypeOK
  <2> QED BY Zenon, <1>1, <2>1, <2>2 DEF SubsOK, Listed
<1>3. ASSUME NEW p \in Peers, NEW s \in Range(byPeer[p])
      PROVE  s \in Listed /\ s \in Subscription /\ s.peer = p
  <2>1. PICK i \in DOMAIN byPeer[p] : s = byPeer[p][i]
    BY DEF Range
  <2>2. s \in Subscription
    BY <1>1, <2>1 DEF TypeOK
  <2> QED BY <1>1, <2>2 DEF AgreeInv
<1>4. ASSUME NEW s \in Listed
      PROVE  s \in Range(subs[s.key]) /\ s \in Range(byPeer[s.peer]) /\ s \in Subscription
             /\ s.key \in Keys /\ s.peer \in Peers
  <2>1. PICK k \in Keys : s \in Range(subs[k])
    BY DEF Listed
  <2>2. PICK p \in Peers : s \in Range(byPeer[p])
    BY ZenonT(30), <1>1
  <2> QED BY <1>2, <1>3, <2>1, <2>2
<1> QED BY Zenon, <1>1, <1>2, <1>3, <1>4

(* removeSubLocked and Unsubscribe take a subscription out of both maps. *)
LEMMA RemoveAgrees ==
  ASSUME AgreeInv, PoolInv', NEW s \in Listed, made' = made,
         subs' = [subs EXCEPT ![s.key] = Without(@, s.id)],
         byPeer' = [byPeer EXCEPT ![s.peer] = Without(@, s.id)]
  PROVE  AgreeInv'
<1>1. /\ s.key \in Keys /\ s.peer \in Peers /\ subs \in [Keys -> Seq(Subscription)]
      /\ byPeer \in [Peers -> Seq(Subscription)]
      /\ \A k \in Keys : OnceEach(subs[k]) /\ \A p \in Peers : OnceEach(byPeer[p])
  BY ListedFacts DEF TypeOK, AgreeInv
<1>2. ASSUME NEW k \in Keys
      PROVE  Range(subs'[k]) = {r \in Range(subs[k]) : r.id # s.id} /\ OnceEach(subs'[k])
  <2>1. CASE k = s.key
    <3>1. subs'[k] = Without(subs[k], s.id)
      BY <1>1, <2>1
    <3>2. subs[k] \in Seq(Subscription) /\ OnceEach(subs[k])
      BY Zenon, <1>1
    <3> QED BY ZenonT(30), <3>1, <3>2, WithoutSet
  <2>2. CASE k # s.key
    <3>1. subs'[k] = subs[k]
      BY <1>1, <2>2
    <3>2. \A r \in Range(subs[k]) : r.id # s.id
      BY <2>2, ListedFacts DEF AgreeInv
    <3> QED BY <1>1, <3>1, <3>2
  <2> QED BY ZenonT(30), <2>1, <2>2
<1>3. ASSUME NEW p \in Peers
      PROVE  Range(byPeer'[p]) = {r \in Range(byPeer[p]) : r.id # s.id} /\ OnceEach(byPeer'[p])
  <2>1. CASE p = s.peer
    <3>1. byPeer'[p] = Without(byPeer[p], s.id)
      BY <1>1, <2>1
    <3>2. byPeer[p] \in Seq(Subscription) /\ OnceEach(byPeer[p])
      BY Zenon, <1>1
    <3> QED BY ZenonT(30), <3>1, <3>2, WithoutSet
  <2>2. CASE p # s.peer
    <3>1. byPeer'[p] = byPeer[p]
      BY <1>1, <2>2
    <3>2. \A r \in Range(byPeer[p]) : r.id # s.id
      BY <2>2, ListedFacts DEF AgreeInv
    <3> QED BY Zenon, <1>1, <3>1, <3>2
  <2> QED BY Zenon, <2>1, <2>2
<1>4. Listed' = {r \in Listed : r.id # s.id}
  BY <1>2 DEF Listed
<1>5. UNION {Range(byPeer'[p]) : p \in Peers} = {r \in Listed : r.id # s.id}
  BY <1>3 DEF AgreeInv, SubsAgree
<1>6. \A p \in Peers : \A r \in Range(byPeer'[p]) : r.peer = p
  BY Zenon, <1>3 DEF AgreeInv
<1>7. (\A r \in Listed' : r.id <= made') /\ \A r, q \in Listed' : r.id = q.id => r = q
  BY Zenon, <1>4 DEF AgreeInv
<1> QED BY ZenonT(30), <1>2, <1>3, <1>4, <1>5, <1>6, <1>7 DEF AgreeInv, SubsAgree

(* Subscribe puts a subscription with the next id into both. *)
LEMMA SubscribeAgrees ==
  ASSUME AgreeInv, PoolInv', NEW p \in Peers, NEW k \in Keys, Subscribe(p, k)
  PROVE  AgreeInv'
<1>0. made \in Nat /\ made < MaxSubs /\ made' = made + 1
  <2>1. made \in 0 .. MaxSubs /\ made < MaxSubs /\ made' = made + 1
    BY Zenon, ListedFacts DEF TypeOK, Subscribe
  <2> QED BY <2>1, SubsAssumption
<1>1. PICK s \in Subscription :
        /\ s.id = made + 1 /\ s.peer = p /\ s.key = k
        /\ subs' = [subs EXCEPT ![k] = Append(@, s)]
        /\ byPeer' = [byPeer EXCEPT ![p] = Append(@, s)]
  <2>1. [id |-> made + 1, peer |-> p, key |-> k] \in Subscription
    BY <1>0, SubsAssumption DEF Subscription
  <2> QED BY Zenon, <1>0, <2>1 DEF Subscribe
<1>2. \A r \in Listed : r.id # s.id /\ r.id <= made + 1 /\ r.id \in Nat
  <2> SUFFICES ASSUME NEW r \in Listed PROVE r.id # s.id /\ r.id <= made + 1 /\ r.id \in Nat
    OBVIOUS
  <2>1. r.id <= made /\ r.id \in Nat
    <3>1. r.id <= made /\ r.id \in 1 .. MaxSubs
      BY Zenon, ListedFacts DEF AgreeInv, Subscription
    <3> QED BY <3>1, SubsAssumption
  <2> QED BY <1>0, <1>1, <2>1
<1>3. /\ subs \in [Keys -> Seq(Subscription)] /\ byPeer \in [Peers -> Seq(Subscription)]
      /\ \A l \in Keys : OnceEach(subs[l]) /\ \A q \in Peers : OnceEach(byPeer[q])
  BY Zenon, ListedFacts DEF TypeOK, AgreeInv
<1>4. ASSUME NEW l \in Keys
      PROVE  Range(subs'[l]) = Range(subs[l]) \cup (IF l = k THEN {s} ELSE {}) /\ OnceEach(subs'[l])
  <2>1. CASE l = k
    <3>1. subs'[l] = Append(subs[l], s) /\ \A r \in Range(subs[l]) : r.id # s.id
      BY Zenon, <1>1, <1>2, <1>3, <2>1, ListedFacts
    <3>2. Range(subs'[l]) = Range(subs[l]) \cup {s} /\ OnceEach(subs'[l])
      BY <1>3, <3>1, AppendSet
    <3> QED BY Zenon, <2>1, <3>2
  <2>2. CASE l # k
    BY Zenon, <1>1, <1>3, <2>2
  <2> QED BY Zenon, <2>1, <2>2
<1>5. ASSUME NEW q \in Peers
      PROVE  Range(byPeer'[q]) = Range(byPeer[q]) \cup (IF q = p THEN {s} ELSE {}) /\ OnceEach(byPeer'[q])
  <2>1. CASE q = p
    <3>1. byPeer'[q] = Append(byPeer[q], s) /\ \A r \in Range(byPeer[q]) : r.id # s.id
      BY Zenon, <1>1, <1>2, <1>3, <2>1, ListedFacts
    <3>2. Range(byPeer'[q]) = Range(byPeer[q]) \cup {s} /\ OnceEach(byPeer'[q])
      BY <1>3, <3>1, AppendSet
    <3> QED BY Zenon, <2>1, <3>2
  <2>2. CASE q # p
    BY Zenon, <1>1, <1>3, <2>2
  <2> QED BY Zenon, <2>1, <2>2
<1>6. Listed' = Listed \cup {s}
  BY <1>4 DEF Listed
<1>7. UNION {Range(byPeer'[q]) : q \in Peers} = Listed \cup {s}
  BY <1>5 DEF AgreeInv, SubsAgree
<1>8. \A q \in Peers : \A r \in Range(byPeer'[q]) : r.peer = q
  <2> SUFFICES ASSUME NEW q \in Peers, NEW r \in Range(byPeer'[q]) PROVE r.peer = q
    BY Zenon
  <2>1. r \in Range(byPeer[q]) \/ (q = p /\ r = s)
    BY Zenon, <1>5
  <2> QED BY Zenon, <1>1, <2>1 DEF AgreeInv
<1>9. \A r \in Listed' : r.id <= made'
  BY <1>0, <1>1, <1>2, <1>6
<1>10. \A r, q \in Listed' : r.id = q.id => r = q
  BY Zenon, <1>2, <1>6 DEF AgreeInv
<1> QED BY ZenonT(30), <1>4, <1>5, <1>6, <1>7, <1>8, <1>9, <1>10 DEF AgreeInv, SubsAgree

(* The inductive invariant of the two maps. *)
THEOREM AgreeInvariant == Spec => []AgreeInv
<1>1. Init => AgreeInv
  BY InitPoolInv DEF Init, AgreeInv, SubsAgree, Listed, OnceEach, Range
<1>2. AgreeInv /\ [Next]_vars => AgreeInv'
  <2> SUFFICES ASSUME AgreeInv, [Next]_vars PROVE AgreeInv'
    BY Zenon
  <2>1. PoolInv /\ PoolInv'
    BY ZenonT(30), NextStep DEF AgreeInv
  <2>2. CASE UNCHANGED <<subs, byPeer, made>>
    <3>1. Listed' = Listed
      BY Zenon, <2>2 DEF Listed
    <3>2. SubsAgree'
      <4>1. UNION {Range(byPeer'[p]) : p \in Peers} = UNION {Range(byPeer[p]) : p \in Peers}
        BY <2>2
      <4> QED BY Zenon, <3>1, <4>1 DEF AgreeInv, SubsAgree
    <3> QED BY Zenon, <2>1, <2>2, <3>1, <3>2 DEF AgreeInv, OnceEach
  <2>3. ASSUME NEW p \in Peers, NEW k \in Keys, Subscribe(p, k) PROVE AgreeInv'
    BY <2>1, <2>3, SubscribeAgrees
  <2>4. ASSUME NEW p \in Peers, NEW s \in Range(byPeer[p]), Unsubscribe(s) PROVE AgreeInv'
    <3>1. s \in Listed
      BY ListedFacts
    <3> QED BY Zenon, <2>1, <2>4, <3>1, RemoveAgrees DEF Unsubscribe
  <2>5. CASE Prune
    <3>1. KeyOf[job.task] \in Keys /\ subs[KeyOf[job.task]] # <<>>
      BY <2>1, <2>5, FreeJob DEF Prune, Try
    <3>2. Target \in Range(subs[KeyOf[job.task]])
      <4>1. Picked(KeyOf[job.task]) \in 1 .. Len(subs[KeyOf[job.task]])
        BY Zenon, <2>1, <3>1, PickedLemma DEF PoolInv
      <4>2. subs[KeyOf[job.task]] \in Seq(Subscription)
        BY Zenon, <2>1, <3>1 DEF PoolInv, TypeOK
      <4> HIDE DEF Picked
      <4> QED BY <4>1, <4>2 DEF Target, Range
    <3>3. Target \in Listed
      BY Zenon, <3>1, <3>2, ListedFacts
    <3> QED BY Zenon, <2>1, <2>5, <3>3, RemoveAgrees DEF Prune, Try, removeSub
  <2>6. CASE Deliver \/ Park \/ (\E t \in Tasks : Enqueue(t)) \/ (\E k \in Keys : PushQuery(k))
    <3>1. UNCHANGED <<subs, byPeer, made>>
      BY Zenon, <2>6 DEF Deliver, Try, Park, Enqueue, PushQuery
    <3> QED BY Zenon, <2>2, <3>1
  <2>7. ASSUME NEW p \in Peers,
               Die(p) \/ Notice(p) \/ \E t \in Tasks : Respond(p, t) \/ RespondAgain(p, t)
        PROVE  AgreeInv'
    <3>1. UNCHANGED <<subs, byPeer, made>>
      BY Zenon, <2>7 DEF Die, Notice, Respond, RespondAgain
    <3> QED BY Zenon, <2>2, <3>1
  <2>8. CASE UNCHANGED vars
    BY Zenon, <2>2, <2>8 DEF vars
  <2> QED BY <2>3, <2>4, <2>5, <2>6, <2>7, <2>8, Zenon DEF Next
<1> QED BY <1>1, <1>2, PTL DEF Spec

(* The lists by key and the lists by worker hold the same subscriptions, however
   workers come and go and pushes to them fail (Subscribe, Unsubscribe,
   removeSubLocked). *)
THEOREM MapsAgree == Spec => []SubsAgree
<1>1. AgreeInv => SubsAgree
  BY DEF AgreeInv
<1> QED BY AgreeInvariant, <1>1, PTL

-----------------------------------------------------------------------------
(* A position of a list, modulo its length. *)
LEMMA ModPosition ==
  ASSUME NEW n \in Nat, NEW i \in 1 .. n
  PROVE  i % n = IF i = n THEN 0 ELSE i
<1>1. n > 0
  OBVIOUS
<1>2. CASE i = n
  BY <1>1, <1>2
<1>3. CASE i # n
  <2>1. i \in 0 .. (n - 1)
    BY <1>3
  <2> QED BY <1>1, <1>3, <2>1
<1> QED BY <1>2, <1>3

(* pickLocked leaves the position right after the subscription it picks, and picks
   another one than the position stands after. *)
LEMMA PickTurns ==
  ASSUME NEW n \in Nat, n > 0, NEW x \in Nat
  PROVE  LET p == (x % n) + 1 IN
         /\ p \in 1 .. n
         /\ \A i \in 1 .. n : (n > 1 /\ x = i % n) => p # i
<1>1. x % n \in 0 .. (n - 1)
  BY Zenon, ModRange
<1>2. ASSUME NEW i \in 1 .. n, n > 1, x = i % n PROVE (x % n) + 1 # i
  <2>1. x = IF i = n THEN 0 ELSE i
    BY <1>2, ModPosition
  <2>2. x \in 0 .. (n - 1)
    BY <2>1
  <2>3. x % n = x
    BY <2>2
  <2> QED BY <1>2, <2>1, <2>3
<1> QED BY <1>1, <1>2

(* A pick makes the picked subscription the last one, and keeps the position after it
   (Deliver and PushQuery, both through pickLocked). *)
LEMMA PickStep ==
  ASSUME AgreeInv, TurnOK, NEW k \in Keys, subs[k] # <<>>,
         subs' = subs, rrIdx' = Advanced(k),
         last' = [last EXCEPT ![k] = subs[k][Picked(k)].id]
  PROVE  TurnOK' /\ (Len(subs[k]) > 1 => last'[k] # last[k])
<1> DEFINE p == Picked(k)
           n == Len(subs[k])
<1>1. /\ subs \in [Keys -> Seq(Subscription)] /\ rrIdx \in [Keys -> 0 .. MaxSubs]
      /\ last \in [Keys -> 0 .. MaxSubs] /\ TypeOK /\ SubsOK
  BY Zenon DEF AgreeInv, PoolInv, TypeOK
<1>2. n \in Nat /\ n > 0 /\ DOMAIN subs[k] = 1 .. n /\ rrIdx[k] \in Nat
  BY <1>1, SubsAssumption
<1>3. p \in 1 .. n /\ subs[k][p] \in Subscription
  BY Zenon, <1>1, PickedLemma
<1>4. last'[k] = subs[k][p].id /\ rrIdx'[k] = p % n
  BY Zenon, <1>1 DEF Advanced
<1>5. TurnOK'
  <2> SUFFICES ASSUME NEW j \in Keys, last'[j] # 0
               PROVE  \E i \in DOMAIN subs'[j] :
                        subs'[j][i].id = last'[j] /\ rrIdx'[j] = i % Len(subs'[j])
    BY DEF TurnOK
  <2>1. CASE j = k
    <3> HIDE DEF p, n
    <3>1. p \in DOMAIN subs[k] /\ subs[k][p].id = last'[k] /\ rrIdx'[k] = p % n
      BY Zenon, <1>2, <1>3, <1>4
    <3>2. rrIdx'[k] = p % Len(subs[k])
      BY <3>1 DEF n
    <3> QED BY <2>1, <3>1, <3>2, Zenon
  <2>2. CASE j # k
    <3>1. last'[j] = last[j] /\ rrIdx'[j] = rrIdx[j] /\ subs'[j] = subs[j]
      BY Zenon, <1>1, <2>2 DEF Advanced
    <3> QED BY <3>1, Zenon DEF TurnOK
  <2> QED BY Zenon, <2>1, <2>2
<1>6. ASSUME n > 1 PROVE last'[k] # last[k]
  <2>1. CASE last[k] = 0
    <3>1. subs[k][p].id \in 1 .. MaxSubs
      BY Zenon, <1>3 DEF Subscription
    <3> HIDE DEF p
    <3> QED BY <1>4, <2>1, <3>1
  <2>2. CASE last[k] # 0
    <3>1. PICK i \in 1 .. n : subs[k][i].id = last[k] /\ rrIdx[k] = i % n
      BY Zenon, <1>2, <2>2 DEF TurnOK
    <3>2. p = (rrIdx[k] % n) + 1
      BY Zenon DEF Picked
    <3>3. p # i
      <4> DEFINE x == rrIdx[k]
      <4> HIDE DEF n, p, x
      <4>1. x \in Nat /\ x = i % n /\ p = (x % n) + 1
        BY Zenon, <1>2, <3>1, <3>2 DEF x
      <4> QED BY Zenon, <1>2, <1>6, <4>1, PickTurns
    <3>4. OnceEach(subs[k])
      BY Zenon DEF AgreeInv
    <3> HIDE DEF p, n
    <3> QED BY Zenon, <1>2, <1>3, <1>4, <3>1, <3>3, <3>4 DEF OnceEach
  <2> QED BY Zenon, <2>1, <2>2
<1> QED BY Zenon, <1>5, <1>6

(* A change to one key's list forgets who was picked last from it, and leaves the
   turns of the other keys alone (Subscribe, Unsubscribe, removeSubLocked). *)
LEMMA ListStep ==
  ASSUME AgreeInv, TurnOK, NEW k \in Keys,
         \A j \in Keys : j # k => subs'[j] = subs[j] /\ rrIdx'[j] = rrIdx[j],
         last' = [last EXCEPT ![k] = 0]
  PROVE  TurnOK'
<1>1. last \in [Keys -> 0 .. MaxSubs]
  BY Zenon DEF AgreeInv, PoolInv, TypeOK
<1> SUFFICES ASSUME NEW j \in Keys, last'[j] # 0
             PROVE  \E i \in DOMAIN subs'[j] :
                      subs'[j][i].id = last'[j] /\ rrIdx'[j] = i % Len(subs'[j])
  BY Zenon DEF TurnOK
<1>2. j # k /\ last'[j] = last[j]
  BY Zenon, <1>1
<1> QED BY <1>2, Zenon DEF TurnOK

(* A delivery is a pick from the list of its task's key. *)
LEMMA DeliverPicks ==
  ASSUME AgreeInv, TurnOK, Deliver
  PROVE  LET k == KeyOf[job.task] IN
         /\ k \in Keys /\ TurnOK' /\ (Len(subs[k]) > 1 => last'[k] # last[k])
<1> DEFINE k == KeyOf[job.task]
<1>1. PoolInv /\ job # Free /\ subs[k] # <<>> /\ subs' = subs
  BY Zenon DEF AgreeInv, Deliver, Try
<1>2. k \in Keys /\ Target.key = k
  BY Zenon, <1>1, FreeJob, TargetLemma
<1>3. Target = subs[k][Picked(k)]
  BY DEF Target
<1>4. rrIdx' = Advanced(k) /\ last' = [last EXCEPT ![k] = subs[k][Picked(k)].id]
  <2>1. rrIdx' = Advanced(Target.key) /\ last' = [last EXCEPT ![Target.key] = Target.id]
    BY DEF Deliver
  <2> QED BY <1>2, <1>3, <2>1, Zenon
<1> HIDE DEF k
<1>5. TurnOK' /\ (Len(subs[k]) > 1 => last'[k] # last[k])
  BY Zenon, <1>1, <1>2, <1>4, PickStep
<1> QED BY Zenon, <1>2, <1>5 DEF k

(* Every step keeps the turns in place. *)
LEMMA TurnStep ==
  ASSUME AgreeInv, TurnOK, [Next]_vars
  PROVE  TurnOK'
<1>0. PoolInv /\ subs \in [Keys -> Seq(Subscription)] /\ rrIdx \in [Keys -> 0 .. MaxSubs]
  BY DEF AgreeInv, PoolInv, TypeOK
<1>1. CASE UNCHANGED <<subs, rrIdx, last>>
  BY <1>1, Zenon DEF TurnOK
<1>2. ASSUME NEW p \in Peers, NEW k \in Keys, Subscribe(p, k) PROVE TurnOK'
  <2>1. \A j \in Keys : j # k => subs'[j] = subs[j] /\ rrIdx'[j] = rrIdx[j]
    BY Zenon, <1>0, <1>2 DEF Subscribe
  <2>2. last' = [last EXCEPT ![k] = 0]
    BY <1>2 DEF Subscribe
  <2> QED BY Zenon, <2>1, <2>2, ListStep
<1>3. ASSUME NEW p \in Peers, NEW s \in Range(byPeer[p]), Unsubscribe(s) PROVE TurnOK'
  <2>1. s \in Subscription /\ s.key \in Keys
    BY Zenon, ListedFacts DEF Subscription
  <2>2. \A j \in Keys : j # s.key => subs'[j] = subs[j] /\ rrIdx'[j] = rrIdx[j]
    BY ZenonT(30), <1>0, <1>3 DEF Unsubscribe
  <2>3. last' = [last EXCEPT ![s.key] = 0]
    BY Zenon, <1>3 DEF Unsubscribe
  <2> QED BY Zenon, <2>1, <2>2, <2>3, ListStep
<1>4. CASE Prune
  <2>1. Target \in Subscription /\ Target.key \in Keys
    BY Zenon, <1>0, <1>4, TargetLemma DEF Prune, Try, Subscription
  <2>2. /\ subs' = [subs EXCEPT ![Target.key] = Without(@, Target.id)]
        /\ rrIdx' = IF Len(subs[Target.key]) = 1 THEN [rrIdx EXCEPT ![Target.key] = 0]
                    ELSE Advanced(Target.key)
        /\ last' = [last EXCEPT ![Target.key] = 0]
    BY Zenon, <1>4 DEF Prune, removeSub
  <2>3. \A j \in Keys : j # Target.key => subs'[j] = subs[j] /\ rrIdx'[j] = rrIdx[j]
    BY Zenon, <1>0, <2>2 DEF Advanced
  <2> QED BY Zenon, <2>1, <2>2, <2>3, ListStep
<1>5. CASE Deliver
  BY Zenon, <1>5, DeliverPicks
<1>6. ASSUME NEW k \in Keys, PushQuery(k) PROVE TurnOK'
  <2>1. /\ subs[k] # <<>> /\ subs' = subs /\ rrIdx' = Advanced(k)
        /\ last' = [last EXCEPT ![k] = subs[k][Picked(k)].id]
    BY Zenon, <1>6 DEF PushQuery
  <2> QED BY Zenon, <2>1, PickStep
<1>7. CASE Park \/ (\E t \in Tasks : Enqueue(t))
  <2>1. UNCHANGED <<subs, rrIdx, last>>
    BY Zenon, <1>7 DEF Park, Enqueue
  <2> QED BY Zenon, <1>1, <2>1
<1>8. ASSUME NEW p \in Peers,
             Die(p) \/ Notice(p) \/ \E t \in Tasks : Respond(p, t) \/ RespondAgain(p, t)
      PROVE  TurnOK'
  <2>1. UNCHANGED <<subs, rrIdx, last>>
    BY Zenon, <1>8 DEF Die, Notice, Respond, RespondAgain
  <2> QED BY Zenon, <1>1, <2>1
<1>9. CASE UNCHANGED vars
  BY Zenon, <1>1, <1>9 DEF vars
<1> QED BY <1>2, <1>3, <1>4, <1>5, <1>6, <1>7, <1>8, <1>9, ZenonT(30) DEF Next

(* Round robin: while a key's list stays as it is, no subscription of several is
   picked twice in a row, for tasks and queries together (pickLocked). *)
THEOREM PicksTakeTurns == Spec => RoundRobin
<1>1. Init => TurnOK
  BY DEF Init, TurnOK
<1>2. AgreeInv /\ TurnOK /\ [Next]_vars => TurnOK'
  BY Zenon, TurnStep
<1>3. AgreeInv /\ TurnOK /\ [Next]_vars =>
        [\A k \in Keys : /\ Len(subs[k]) > 1
                         /\ PushQuery(k) \/ (Deliver /\ KeyOf[job.task] = k)
                         => last'[k] # last[k]]_vars
  <2> SUFFICES ASSUME AgreeInv, TurnOK, NEW k \in Keys, Len(subs[k]) > 1,
                      PushQuery(k) \/ (Deliver /\ KeyOf[job.task] = k)
               PROVE  last'[k] # last[k]
    OBVIOUS
  <2>1. CASE PushQuery(k)
    <3>1. /\ subs[k] # <<>> /\ subs' = subs /\ rrIdx' = Advanced(k)
          /\ last' = [last EXCEPT ![k] = subs[k][Picked(k)].id]
      BY Zenon, <2>1 DEF PushQuery
    <3> QED BY Zenon, <3>1, PickStep
  <2>2. CASE Deliver /\ KeyOf[job.task] = k
    BY <2>2, DeliverPicks
  <2> QED BY Zenon, <2>1, <2>2
<1> QED BY <1>1, <1>2, <1>3, AgreeInvariant, PTL DEF Spec, RoundRobin
=============================================================================
