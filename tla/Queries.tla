------------------------------- MODULE Queries -------------------------------
(***************************************************************************)
(* Workflow queries: QueryWorkflowCtx (engine.go), and the dispatcher's    *)
(* pending-query table (dispatch.go), which PushQuery fills and            *)
(* CompleteQuery, CancelQuery and the two evictions empty.                 *)
(*                                                                         *)
(* A call is one goroutine: it registers its token under d.mu, sends the   *)
(* query outside it, and waits for the answer, the end of its context or   *)
(* its timeout.  A worker may answer late, twice or never; CompleteQuery   *)
(* takes the entry out under d.mu and sends on the call's channel of       *)
(* capacity one outside it.  Calls are numbered by their tokens.           *)
(***************************************************************************)
EXTENDS Integers, FiniteSets

CONSTANTS
  Asks,         \* the query calls, numbered
  MaxPending,   \* maxPendingQueries
  MaxAnswers    \* bound: answers a worker sends to one query

ASSUME QueriesAssumption ==
  Asks \subseteq Nat /\ IsFiniteSet(Asks) /\ MaxPending \in Nat \ {0} /\ MaxAnswers \in Nat

VARIABLES
  table,     \* dispatcher.queries: the tokens pending
  born,      \* pendingQuery.at, as the order of registration
  asker,     \* per call: where QueryWorkflowCtx is
  resCh,     \* per call: answers in its channel
  answering, \* per call: CompleteQuery calls that took the entry and have not sent
  told,      \* per call: answers the worker has sent
  got        \* history: answers each call returned

queryVars == <<table, born, asker, resCh, answering, told, got>>

QueriesInit ==
  /\ table = {} /\ born = [c \in Asks |-> 0]
  /\ asker = [c \in Asks |-> "idle"] /\ resCh = [c \in Asks |-> 0]
  /\ answering = [c \in Asks |-> 0] /\ told = [c \in Asks |-> 0] /\ got = [c \in Asks |-> 0]
-----------------------------------------------------------------------------
(* evictExpiredQueriesLocked: entries older than pendingQueryTTL.  A call waits
   five seconds at most and the TTL is five minutes, so an entry of a call that
   still waits is not expired. *)
ExpiredQueries == {c \in table : asker[c] \in {"answered", "gaveup"}}

(* evictOldestQueryLocked, when the table is full: the sets of entries it may take
   out (one entry is the oldest). *)
Evicted(pending) ==
  IF Cardinality(pending) >= MaxPending
  THEN {{c} : c \in {c \in pending : \A d \in pending : born[c] <= born[d]}} ELSE {{}}

(* PushQuery: ErrNoWorkersSubscribed, or the entry is registered ... *)
NoSubscriber(c) ==
  /\ asker[c] = "idle" /\ asker' = [asker EXCEPT ![c] = "failed"]
  /\ UNCHANGED <<table, born, resCh, answering, told, got>>

PushQuery(c) ==
  /\ asker[c] = "idle" /\ asker' = [asker EXCEPT ![c] = "sending"]
  /\ LET live == table \ ExpiredQueries
     IN \E out \in Evicted(live) : table' = (live \ out) \cup {c}
  /\ born' = [born EXCEPT ![c] = 1 + Cardinality({d \in Asks : born[d] > 0})]
  /\ UNCHANGED <<resCh, answering, told, got>>

(* ... and the query is sent; a failed send takes the entry out again. *)
SendQuery(c) ==
  /\ asker[c] = "sending" /\ asker' = [asker EXCEPT ![c] = "waiting"]
  /\ UNCHANGED <<table, born, resCh, answering, told, got>>

SendFails(c) ==
  /\ asker[c] = "sending"
  /\ asker' = [asker EXCEPT ![c] = "failed"] /\ table' = table \ {c}
  /\ UNCHANGED <<born, resCh, answering, told, got>>

(* A worker answers: CompleteQuery takes the entry, if it is still there. *)
TakenKept(c) == table \* mutant
Taken(c) == table \ {c}

CompleteQuery(c) ==
  /\ asker[c] # "idle" /\ told[c] < MaxAnswers
  /\ told' = [told EXCEPT ![c] = @ + 1] /\ table' = Taken(c)
  /\ answering' = IF c \in table THEN [answering EXCEPT ![c] = @ + 1] ELSE answering
  /\ UNCHANGED <<born, asker, resCh, got>>

(* Its send on the call's channel, which blocks while the channel is full. *)
SendAnswer(c) ==
  /\ answering[c] > 0 /\ resCh[c] < 1
  /\ answering' = [answering EXCEPT ![c] = @ - 1] /\ resCh' = [resCh EXCEPT ![c] = @ + 1]
  /\ UNCHANGED <<table, born, asker, told, got>>

(* QueryWorkflowCtx returns: with the answer, or on its timeout or the end of its
   context, when CancelQuery drops the entry. *)
QueryAnswered(c) ==
  /\ asker[c] = "waiting" /\ resCh[c] > 0
  /\ resCh' = [resCh EXCEPT ![c] = @ - 1] /\ got' = [got EXCEPT ![c] = @ + 1]
  /\ asker' = [asker EXCEPT ![c] = "answered"]
  /\ UNCHANGED <<table, born, answering, told>>

CancelQuery(c) ==
  /\ asker[c] = "waiting" /\ asker' = [asker EXCEPT ![c] = "gaveup"]
  /\ table' = table \ {c}
  /\ UNCHANGED <<born, resCh, answering, told, got>>

QueriesNext ==
  \E c \in Asks :
    \/ NoSubscriber(c) \/ PushQuery(c) \/ SendQuery(c) \/ SendFails(c)
    \/ CompleteQuery(c) \/ SendAnswer(c) \/ QueryAnswered(c) \/ CancelQuery(c)

QueriesSpec == QueriesInit /\ [][QueriesNext]_queryVars
-----------------------------------------------------------------------------
QueriesTypeOK ==
  /\ table \subseteq Asks /\ born \in [Asks -> Nat]
  /\ asker \in [Asks -> {"idle", "sending", "waiting", "answered", "gaveup", "failed"}]
  /\ resCh \in [Asks -> Nat] /\ answering \in [Asks -> Nat] /\ told \in [Asks -> Nat]
  /\ got \in [Asks -> Nat]

(* The handler that answers a query never blocks on a full channel, and a call gets
   one answer at most, however often the worker answers, also when the caller has
   given up or its entry was evicted; and an entry in the table belongs to a call
   that is still there to be answered: none leaks, and the table keeps its bound. *)
Answers(c) == resCh[c] + answering[c] + got[c]
OneAnswer ==
  /\ Cardinality(table) <= MaxPending
  /\ \A c \in Asks :
       /\ Answers(c) <= 1
       /\ c \in table => asker[c] \in {"sending", "waiting"} /\ Answers(c) = 0

(* The inductive form: a call that has not begun has no answer under way. *)
QueriesInv ==
  QueriesTypeOK /\ OneAnswer /\ \A c \in Asks : asker[c] = "idle" => Answers(c) = 0
=============================================================================
