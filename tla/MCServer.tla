------------------------------- MODULE MCServer ------------------------------
(***************************************************************************)
(* The server's parts for TLC.  They share no state: a behaviour exercises *)
(* one of them, which `part` names, and the others stay as they began.     *)
(***************************************************************************)
EXTENDS Chain, Shards, Schedules, Failures, Queries, Broker, Replication, Visibility,
        Catalog, Routing, Surface, Purge, TLC

CONSTANT Parts   \* the parts this run exercises

VARIABLE part

(* Schedules: a cron entry, an interval with an invalid entry beside it, nothing. *)
SpecList ==
  {{[kind |-> "cron", every |-> 2]},
   {[kind |-> "interval", every |-> 1], [kind |-> "cron", every |-> 0]}, {}}

(* Replication: node 1 proposes two frames, node 2 one. *)
OwnerOf(f) == IF f = 3 THEN 2 ELSE 1

(* Visibility: one numeric attribute, ordered as a string, and the status in two
   spellings; every tree of comparisons under two operators. *)
StatusNames == ("Running" :> "WFS_RUNNING") @@ ("Completed" :> "WFS_COMPLETED")
StringOrder == ("" :> 0) @@ ("10" :> 1) @@ ("9" :> 2) @@ ("WFS_COMPLETED" :> 3) @@ ("WFS_RUNNING" :> 4)
Executions == [Priority : {"", "10", "9"}, ExecutionStatus : {"WFS_RUNNING", "WFS_COMPLETED"}]
Atoms ==
  {Node("=", <<>>, "ExecutionStatus", <<"Running">>), Node(">", <<>>, "Priority", <<"10">>),
   Node("<=", <<>>, "Priority", <<"10">>), Node("IN", <<>>, "Priority", <<"10", "9">>),
   Node("NOT_IN", <<>>, "ExecutionStatus", <<"Completed">>), Node("BETWEEN", <<>>, "Priority", <<"10", "9">>)}
Join(A, B) == {Node(op, <<a, b>>, "", <<>>) : op \in {"AND", "OR"}, a \in A, b \in B}
Nots(A) == {Node("NOT", <<a>>, "", <<>>) : a \in A}
Level1 == Atoms \cup Join(Atoms, Atoms) \cup Nots(Atoms)
TreeList == Level1 \cup Nots(Level1) \cup Join(Level1, Atoms) \cup Join(Atoms, Level1)

(* Routing: the hash of a key and a node, with a tie. *)
Scores == [k \in Routes |-> [n \in Ids |-> (k * n) % 3]]

(* Surface: every word a handler or a route looks at, beside names that are only
   names, in every position, and one segment more than any route has. *)
Kinds == {"workflows", "schedules", "batches", "deployments", "nexus", "identities", "task-queues",
          "workers", "search-attributes", "metadata", "archival", "activities", "other"}
Seconds == {"x", "bad", "claim", "signal-with-start"}
Verbs == {"y", "cancel", "terminate", "signal", "history", "query", "metadata", "executions", "reset",
          "trigger", "matching-times", "pause", "unpause", "set-current", "versions", "workers", "partitions"}
Tails == {"y", "cancel", "complete", "fail", "heartbeat", "history"}
PathList ==
  {<<"settings">>, <<"namespaces">>, <<"nexus">>, <<"other">>}
  \cup {<<"namespaces", n>> : n \in {"n", "bad"}}
  \cup {<<"namespaces", n, k>> : n \in {"n", "bad"}, k \in Kinds}
  \cup {<<"namespaces", "n", k, i>> : k \in Kinds, i \in Seconds}
  \cup {<<"namespaces", "n", k, i, v>> : k \in Kinds, i \in Seconds, v \in Verbs}
  \cup {<<"namespaces", "n", k, i, v, t>> : k \in Kinds, i \in Seconds, v \in Verbs, t \in Tails}
  \cup {<<"namespaces", "n", k, i, v, "y", t>> :
           k \in Kinds, i \in Seconds, v \in Verbs, t \in {"y", "validate"}}

Init ==
  /\ part \in Parts
  /\ ChainInit /\ ShardsInit /\ SchedulesInit /\ FailuresInit /\ QueriesInit
  /\ BrokerInit /\ ReplicationInit /\ CatalogInit
  /\ VisibilityInit /\ (part # "visibility" => asked = Node(">", <<>>, "Priority", <<"10">>))
  /\ IF part = "surface" THEN SurfaceInit ELSE request = "none" /\ answers = <<>>
  /\ IF part = "purge" THEN PurgeInit
     ELSE /\ rows = <<>> /\ ahist = {} /\ cursor = WalkStart /\ pass = NoPass
          /\ target = {} /\ passedOver = {} /\ cuts = 0

Only(p) ==
  /\ part = p /\ UNCHANGED part
  /\ p # "chain" => UNCHANGED chainVars
  /\ p # "shards" => UNCHANGED shardVars
  /\ p # "schedules" => UNCHANGED schedVars
  /\ p # "failures" => UNCHANGED failVars
  /\ p # "queries" => UNCHANGED queryVars
  /\ p # "broker" => UNCHANGED brokerVars
  /\ p # "replication" => UNCHANGED replVars
  /\ p # "visibility" => UNCHANGED visVars
  /\ p # "catalog" => UNCHANGED catalogVars
  /\ p # "surface" => UNCHANGED surfaceVars
  /\ p # "purge" => UNCHANGED purgeVars

Next ==
  \/ Only("chain") /\ ChainNext
  \/ Only("shards") /\ ShardsNext
  \/ Only("schedules") /\ SchedulesNext
  \/ Only("failures") /\ FailuresNext
  \/ Only("queries") /\ QueriesNext
  \/ Only("broker") /\ BrokerNext
  \/ Only("replication") /\ ReplicationNext
  \/ Only("visibility") /\ VisibilityNext
  \/ Only("catalog") /\ CatalogNext
  \/ Only("surface") /\ SurfaceNext
  \/ Only("purge") /\ PurgeNext

vars == <<part, chainVars, shardVars, schedVars, failVars, queryVars, brokerVars, replVars,
          visVars, catalogVars, surfaceVars, purgeVars>>

Spec == Init /\ [][Next]_vars
=============================================================================
