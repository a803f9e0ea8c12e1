------------------------------ MODULE Channel ------------------------------
(***************************************************************************)
(* A workflow channel of the SDK (pkg/sdk/workflow/channel.go, chanImpl):  *)
(* a buffer, two queues of parked goroutines and the wakers that Selectors *)
(* arm.  Every operation is one critical section of c.mu, followed for a   *)
(* parked call by a select between the waiter's done channel and ctx.Done. *)
(*                                                                         *)
(* call[p] is what goroutine p is inside of: "send" and "recv" are parked, *)
(* "sent" and "got" have had their done channel closed and not returned    *)
(* yet, "arming" and "select" are the two halves of a Selector's wait.     *)
(* A payload is the number of the Send that brought it.                    *)
(***************************************************************************)
EXTENDS Integers, Sequences, Functions

CONSTANTS
  Goroutines,   \* the workflow coroutine and the goroutines of its tests
  Sizes,        \* buffer sizes of user channels; 0 is unbuffered
  MaxSends      \* bound on the number of values sent

ASSUME ChannelAssumption == Sizes \subseteq Nat /\ MaxSends \in Nat

VARIABLES
  size,         \* c.size, fixed when the channel is made
  signal,       \* the channel is a signal channel: only SignalAsync feeds it
  buf,          \* c.buf
  closed,       \* c.closed
  recvWaiters,  \* c.recvWaiters, the goroutines parked in Receive
  sendWaiters,  \* c.sendWaiters, the goroutines parked in Send
  wakers,       \* c.wakers, the goroutines whose Selector armed a waker
  call,         \* per goroutine, the call it is inside of
  canceled,     \* goroutines whose ctx.Done is closed
  sent,         \* number of values sent so far
  taken,        \* history: the values handed to receivers, in order
  withdrawn     \* history: the values of parked Sends that were canceled

chanVars == <<size, signal, buf, closed, recvWaiters, sendWaiters, wakers,
              call, canceled, sent, taken, withdrawn>>

Values == 1 .. MaxSends
Idle == [op |-> "none", val |-> 0]

newChan(n) ==
  /\ size = n /\ buf = <<>> /\ closed = FALSE
  /\ recvWaiters = <<>> /\ sendWaiters = <<>> /\ wakers = {}

(* A user channel, or a signal channel, whose 1024 slots are never full here. *)
NewBufferedChannel == signal = FALSE /\ \E n \in Sizes : newChan(n)
NewSignalChannel == signal = TRUE /\ newChan(MaxSends + 1)

ChannelInit ==
  /\ NewBufferedChannel \/ NewSignalChannel
  /\ call = [p \in Goroutines |-> Idle] /\ canceled = {}
  /\ sent = 0 /\ taken = <<>> /\ withdrawn = {}

(* Receive would return at once: hasValue, and RegisterReadyWaker's test. *)
hasValue == buf # <<>> \/ (size = 0 /\ sendWaiters # <<>>) \/ closed

Inside(p, op) == call[p].op = op
Doing(op, v) == [op |-> op, val |-> v]

(* signalWakersLocked wakes every Selector that is still parked; a waker its
   Selector has left behind fires into nothing. *)
Woken(c) ==
  [p \in Goroutines |->
     IF p \in wakers /\ c[p].op = "select" THEN Doing("woken", 0) ELSE c[p]]

(* The goroutine at the head of each queue, its call completed with v. *)
Answered(v) == [call EXCEPT ![Head(recvWaiters)] = Doing("got", v)]
Released == [call EXCEPT ![Head(sendWaiters)].op = "sent"]

(* Send on a closed channel panics in the caller. *)
SendPanics(p) ==
  /\ Inside(p, "none") /\ closed
  /\ call' = [call EXCEPT ![p] = Doing("panic", 0)]
  /\ UNCHANGED <<size, signal, buf, closed, recvWaiters, sendWaiters, wakers,
                 canceled, sent, taken, withdrawn>>

Sending(p) ==
  /\ Inside(p, "none") /\ ~signal /\ ~closed /\ sent < MaxSends
  /\ sent' = sent + 1

(* Send hands its value to the receiver that has waited longest. *)
SendHandsOver(p) ==
  /\ Sending(p) /\ recvWaiters # <<>>
  /\ call' = Answered(sent + 1)
  /\ recvWaiters' = Tail(recvWaiters)
  /\ taken' = Append(taken, sent + 1)
  /\ UNCHANGED <<size, signal, buf, closed, sendWaiters, wakers, canceled, withdrawn>>

(* Send finds room in the buffer. *)
SendBuffers(p) ==
  /\ Sending(p) /\ recvWaiters = <<>>
  /\ size > 0 /\ Len(buf) < size
  /\ buf' = Append(buf, sent + 1)
  /\ call' = Woken(call) /\ wakers' = {}
  /\ UNCHANGED <<size, signal, closed, recvWaiters, sendWaiters, canceled,
                 taken, withdrawn>>

(* Send parks; on an unbuffered channel that makes the channel readable. *)
SendParks(p) ==
  /\ Sending(p) /\ recvWaiters = <<>>
  /\ size = 0 \/ Len(buf) >= size
  /\ sendWaiters' = Append(sendWaiters, p)
  /\ LET parked == [call EXCEPT ![p] = Doing("send", sent + 1)]
     IN IF size = 0 THEN call' = Woken(parked) /\ wakers' = {}
                    ELSE call' = parked /\ UNCHANGED wakers
  /\ UNCHANGED <<size, signal, buf, closed, recvWaiters, canceled, taken, withdrawn>>

(* StubEnv.SignalAsync: enqueue without a look at the capacity, and hand the
   oldest value to the receiver that has waited longest. *)
SignalAsync ==
  /\ signal /\ sent < MaxSends
  /\ sent' = sent + 1
  /\ LET b == Append(buf, sent + 1)
     IN IF recvWaiters # <<>>
        THEN /\ call' = Woken(Answered(Head(b)))
             /\ recvWaiters' = Tail(recvWaiters)
             /\ buf' = Tail(b) /\ taken' = Append(taken, Head(b))
        ELSE /\ call' = Woken(call) /\ buf' = b
             /\ UNCHANGED <<recvWaiters, taken>>
  /\ wakers' = {}
  /\ UNCHANGED <<size, signal, closed, sendWaiters, canceled, withdrawn>>

(* The value a Receive or ReceiveAsync takes: the oldest in the buffer, into
   whose slot the oldest parked sender moves, or else the one of a sender
   parked on an unbuffered channel. *)
Take ==
  \/ /\ buf # <<>>
     /\ taken' = Append(taken, Head(buf))
     /\ \/ /\ sendWaiters # <<>>
           /\ buf' = Append(Tail(buf), call[Head(sendWaiters)].val)
           /\ sendWaiters' = Tail(sendWaiters) /\ call' = Released
        \/ /\ sendWaiters = <<>>
           /\ buf' = Tail(buf) /\ UNCHANGED <<call, sendWaiters>>
  \/ /\ buf = <<>> /\ size = 0 /\ sendWaiters # <<>>
     /\ taken' = Append(taken, call[Head(sendWaiters)].val)
     /\ sendWaiters' = Tail(sendWaiters) /\ call' = Released /\ UNCHANGED buf

(* Receive returns without parking: with a value; or, closed and empty, with
   ok = false, which changes nothing. *)
ReceiveTakes(p) ==
  /\ Inside(p, "none") /\ (buf # <<>> \/ ~closed)
  /\ Take
  /\ UNCHANGED <<size, signal, closed, recvWaiters, wakers, canceled, sent, withdrawn>>

(* ReceiveAsync looks at the parked senders of a closed channel, too. *)
ReceiveAsync(p) ==
  /\ Inside(p, "none")
  /\ Take
  /\ UNCHANGED <<size, signal, closed, recvWaiters, wakers, canceled, sent, withdrawn>>

ReceiveParks(p) ==
  /\ Inside(p, "none") /\ ~hasValue
  /\ recvWaiters' = Append(recvWaiters, p)
  /\ call' = [call EXCEPT ![p] = Doing("recv", 0)]
  /\ UNCHANGED <<size, signal, buf, closed, sendWaiters, wakers, canceled, sent,
                 taken, withdrawn>>

(* Close wakes the parked receivers with ok = false, and the Selectors; the
   parked senders stay parked. *)
Close(p) ==
  /\ Inside(p, "none") /\ ~signal /\ ~closed
  /\ closed' = TRUE /\ wakers' = {} /\ recvWaiters' = <<>>
  /\ call' = Woken([q \in Goroutines |-> IF q \in Range(recvWaiters)
                                         THEN Doing("got", 0) ELSE call[q]])
  /\ UNCHANGED <<size, signal, buf, sendWaiters, canceled, sent, taken, withdrawn>>

(* A completed call returns through its done channel, ... *)
Return(p) ==
  /\ call[p].op \in {"sent", "got"}
  /\ call' = [call EXCEPT ![p] = Idle]
  /\ UNCHANGED <<size, signal, buf, closed, recvWaiters, sendWaiters, wakers,
                 canceled, sent, taken, withdrawn>>

(* append(q[:i], q[i+1:]...), and the loop that finds the caller's own waiter. *)
CutAt(q, i) == SubSeq(q, 1, i - 1) \o SubSeq(q, i + 1, Len(q))
Without(q, p) == IF p \in Range(q) THEN CutAt(q, CHOOSE i \in DOMAIN q : q[i] = p) ELSE q

(* ... or, when ctx.Done is closed, through it: a waiter that is still queued
   leaves its queue.  The select may take ctx.Done although the call was
   completed; a Receive then drops the value it was handed. *)
ReturnCanceledQueued(p) ==  \* mutant
  /\ p \in canceled /\ call[p].op \in {"send", "recv", "sent", "got"}
  /\ withdrawn' = IF Inside(p, "send") THEN withdrawn \cup {call[p].val} ELSE withdrawn
  /\ call' = [call EXCEPT ![p] = Idle]
  /\ UNCHANGED <<size, signal, buf, closed, recvWaiters, sendWaiters, wakers,
                 canceled, sent, taken>>

ReturnCanceled(p) ==
  /\ p \in canceled /\ call[p].op \in {"send", "recv", "sent", "got"}
  /\ sendWaiters' = Without(sendWaiters, p)
  /\ recvWaiters' = Without(recvWaiters, p)
  /\ withdrawn' = IF Inside(p, "send") THEN withdrawn \cup {call[p].val} ELSE withdrawn
  /\ call' = [call EXCEPT ![p] = Idle]
  /\ UNCHANGED <<size, signal, buf, closed, wakers, canceled, sent, taken>>

Cancel(p) ==
  /\ p \notin canceled
  /\ canceled' = canceled \cup {p}
  /\ UNCHANGED <<size, signal, buf, closed, recvWaiters, sendWaiters, wakers,
                 call, sent, taken, withdrawn>>

(* RegisterReadyWaker, called after a scan that found nothing ready: a channel
   that has become readable since then fires the waker at once. *)
RegisterBlindly(p) ==  \* mutant
  /\ Inside(p, "arming")
  /\ call' = [call EXCEPT ![p] = Doing("select", 0)]
  /\ wakers' = wakers \cup {p}
  /\ UNCHANGED <<size, signal, buf, closed, recvWaiters, sendWaiters, canceled,
                 sent, taken, withdrawn>>

RegisterReadyWaker(p) ==
  /\ Inside(p, "arming")
  /\ IF hasValue
     THEN call' = [call EXCEPT ![p] = Doing("woken", 0)] /\ UNCHANGED wakers
     ELSE /\ call' = [call EXCEPT ![p] = Doing("select", 0)]
          /\ wakers' = wakers \cup {p}
  /\ UNCHANGED <<size, signal, buf, closed, recvWaiters, sendWaiters, canceled,
                 sent, taken, withdrawn>>

(* A Selector scans its cases, finds the channel not readable and starts to
   wait; it leaves when one of its cases is ready or its scope is done, and
   does not take back the waker it armed. *)
SelectScans(p) ==
  /\ Inside(p, "none") /\ ~hasValue
  /\ call' = [call EXCEPT ![p] = Doing("arming", 0)]
  /\ UNCHANGED <<size, signal, buf, closed, recvWaiters, sendWaiters, wakers,
                 canceled, sent, taken, withdrawn>>

SelectLeaves(p) ==
  /\ call[p].op \in {"select", "woken"}
  /\ call' = [call EXCEPT ![p] = Idle]
  /\ UNCHANGED <<size, signal, buf, closed, recvWaiters, sendWaiters, wakers,
                 canceled, sent, taken, withdrawn>>

Operate(p) ==
  \/ SendPanics(p) \/ SendHandsOver(p) \/ SendBuffers(p) \/ SendParks(p)
  \/ ReceiveTakes(p) \/ ReceiveAsync(p) \/ ReceiveParks(p) \/ Close(p)
  \/ Return(p) \/ ReturnCanceled(p)

ChannelNext ==
  \/ SignalAsync
  \/ \E p \in Goroutines : \/ Operate(p) \/ Cancel(p)
                            \/ SelectScans(p) \/ RegisterReadyWaker(p) \/ SelectLeaves(p)

ChannelSpec == ChannelInit /\ [][ChannelNext]_chanVars

-----------------------------------------------------------------------------
(* A goroutine is parked only while its call cannot proceed: no Receive waits
   beside a value or on a closed channel, no Send of a buffered channel beside
   a free slot, no Selector beside a readable channel.  A hand-over, a
   promotion or a wake-up that one of the paths of Send, Receive, SignalAsync
   or Close left out would break it and leave the goroutine asleep. *)
NoLostWakeup ==
  /\ \A p \in Goroutines : Inside(p, "recv") => ~hasValue
  /\ size > 0 /\ sendWaiters # <<>> => Len(buf) >= size
  /\ \A p \in Goroutines : Inside(p, "select") /\ p \in wakers => ~hasValue

Increasing(s) == \A i, j \in 1 .. Len(s) : i < j => s[i] < s[j]

Payloads == [i \in 1 .. Len(sendWaiters) |-> call[sendWaiters[i]].val]

(* The channel is first in first out and loses nothing: what receivers were
   handed, what is buffered and what parked senders hold is, in this order,
   every value sent in the order of the Sends, but for the Sends that were
   canceled while they were parked. *)
Fifo ==
  LET line == taken \o buf \o Payloads
  IN /\ Increasing(line)
     /\ Range(line) = 1 .. sent \ withdrawn

-----------------------------------------------------------------------------
(* What holds in every state on the way: the goroutines in a queue are those parked
   in the call, each once, and a Send is never parked on a signal channel. *)
ChannelTypeOK ==
  /\ size \in Nat /\ signal \in BOOLEAN /\ closed \in BOOLEAN
  /\ buf \in Seq(Nat) /\ taken \in Seq(Nat) /\ sent \in Nat /\ withdrawn \in SUBSET (1 .. sent)
  /\ recvWaiters \in Seq(Goroutines) /\ sendWaiters \in Seq(Goroutines)
  /\ wakers \in SUBSET Goroutines /\ canceled \in SUBSET Goroutines
  /\ call \in [Goroutines -> [op : {"none", "send", "sent", "recv", "got", "panic", "arming", "select", "woken"},
                              val : Nat]]

Queued(s, op) ==
  /\ \A i \in 1 .. Len(s) : Inside(s[i], op)
  /\ \A p \in Goroutines : Inside(p, op) => \E i \in 1 .. Len(s) : s[i] = p
  /\ \A i, j \in 1 .. Len(s) : s[i] = s[j] => i = j

QueuesHeld ==
  /\ Queued(recvWaiters, "recv") /\ Queued(sendWaiters, "send")
  /\ signal => sendWaiters = <<>>

ChannelInv == ChannelTypeOK /\ QueuesHeld /\ NoLostWakeup /\ Fifo

=============================================================================
