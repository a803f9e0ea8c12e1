------------------------------- MODULE Broker --------------------------------
(***************************************************************************)
(* The event broker (events.go).  publish walks the subscribers under the  *)
(* read lock, so several publishers run at once; on a full buffer it takes *)
(* the oldest event out and tries once more.  Each channel operation is a  *)
(* step.  unsubscribe closes the channel under the write lock; feed reads  *)
(* from it until its client goes away.  One subscriber; an event is the    *)
(* publisher and its count.                                                *)
(***************************************************************************)
EXTENDS Integers, Sequences

CONSTANTS Publishers, BufSize, MaxEvents
ASSUME BrokerAssumption == BufSize \in Nat \ {0} /\ MaxEvents \in Nat

VARIABLES
  buf,       \* the subscriber's channel
  chan,      \* "none", "open" or "closed"
  pub,       \* per publisher: where publish is
  sent,      \* per publisher: events published
  fed        \* history: events the feed wrote, per publisher the last

brokerVars == <<buf, chan, pub, sent, fed>>

BrokerInit ==
  /\ buf = <<>> /\ chan = "none" /\ pub = [p \in Publishers |-> "idle"]
  /\ sent = [p \in Publishers |-> 0] /\ fed = [p \in Publishers |-> 0]

(* The locks: publishers share the read lock, subscribe and unsubscribe need it
   free. *)
RLocked == \E p \in Publishers : pub[p] # "idle"
LockedNever(op) == TRUE \* mutant
Lockable(op) == ~RLocked

subscribe ==
  /\ chan = "none" /\ Lockable("subscribe") /\ chan' = "open"
  /\ UNCHANGED <<buf, pub, sent, fed>>

unsubscribe ==
  /\ chan = "open" /\ Lockable("unsubscribe") /\ chan' = "closed"
  /\ UNCHANGED <<buf, pub, sent, fed>>

(* publish takes the read lock and finds the subscriber, or nobody. *)
publish(p) ==
  /\ pub[p] = "idle" /\ sent[p] < MaxEvents /\ sent' = [sent EXCEPT ![p] = @ + 1]
  /\ pub' = IF chan = "open" THEN [pub EXCEPT ![p] = "send"] ELSE pub
  /\ UNCHANGED <<buf, chan, fed>>

Event(p) == [from |-> p, n |-> sent[p]]

(* The first select: enqueue, or find the buffer full. *)
Enqueue(p) ==
  /\ pub[p] = "send"
  /\ IF Len(buf) < BufSize THEN buf' = Append(buf, Event(p)) /\ pub' = [pub EXCEPT ![p] = "idle"]
     ELSE pub' = [pub EXCEPT ![p] = "full"] /\ UNCHANGED buf
  /\ UNCHANGED <<chan, sent, fed>>

(* Take the oldest out, if there is one by now; then try once more, and give the
   event up if another publisher was faster. *)
DropOldest(p) ==
  /\ pub[p] = "full" /\ pub' = [pub EXCEPT ![p] = "again"]
  /\ buf' = IF buf = <<>> THEN buf ELSE Tail(buf)
  /\ UNCHANGED <<chan, sent, fed>>

Requeue(p) ==
  /\ pub[p] = "again" /\ pub' = [pub EXCEPT ![p] = "idle"]
  /\ buf' = IF Len(buf) < BufSize THEN Append(buf, Event(p)) ELSE buf
  /\ UNCHANGED <<chan, sent, fed>>

(* feed takes the next event; a closed channel is drained first. *)
feed ==
  /\ buf # <<>> /\ chan # "none"
  /\ fed' = [fed EXCEPT ![Head(buf).from] = Head(buf).n] /\ buf' = Tail(buf)
  /\ UNCHANGED <<chan, pub, sent>>

BrokerNext ==
  \/ subscribe \/ unsubscribe \/ feed
  \/ \E p \in Publishers : publish(p) \/ Enqueue(p) \/ DropOldest(p) \/ Requeue(p)

BrokerSpec == BrokerInit /\ [][BrokerNext]_brokerVars
-----------------------------------------------------------------------------
(* No publisher is between its lookup and its send on a channel that is closed (a
   send would panic), the buffer keeps its bound, and a client sees each
   publisher's events in the order it published them, whatever was dropped. *)
FeedOrdered ==
  /\ \A p \in Publishers : pub[p] # "idle" => chan = "open"
  /\ Len(buf) <= BufSize
  /\ \A i \in 1..Len(buf) :
       /\ fed[buf[i].from] < buf[i].n
       /\ \A j \in 1..(i - 1) : buf[j].from = buf[i].from => buf[j].n < buf[i].n
-----------------------------------------------------------------------------
(* What holds in every state on the way: nothing buffered or fed is ahead of its
   publisher, and the event a publisher is about to send is after all of its others. *)
BrokerTypeOK ==
  /\ buf \in Seq([from : Publishers, n : Nat]) /\ chan \in {"none", "open", "closed"}
  /\ pub \in [Publishers -> {"idle", "send", "full", "again"}]
  /\ sent \in [Publishers -> Nat] /\ fed \in [Publishers -> Nat]

SentLast ==
  /\ \A p \in Publishers : fed[p] <= sent[p]
  /\ \A i \in 1..Len(buf) : buf[i].n <= sent[buf[i].from]
  /\ \A p \in Publishers : pub[p] # "idle" =>
       fed[p] < sent[p] /\ \A i \in 1..Len(buf) : buf[i].from = p => buf[i].n < sent[p]

BrokerInv == BrokerTypeOK /\ SentLast /\ FeedOrdered
=============================================================================
