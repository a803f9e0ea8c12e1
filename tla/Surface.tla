------------------------------ MODULE Surface ------------------------------
(***************************************************************************)
(* The engine's HTTP surface (pkg/tasks: embed, surface; pkg/auth), which  *)
(* has two renderings: HTTPHandler, a mux that splits the path and lets the*)
(* handlers pick the operation, and Surface, a table of routes that reaches*)
(* the same handlers.  And the two readings of a caller's identity: that of*)
(* the HTTP middleware and that of the ZAP listener.                       *)
(*                                                                         *)
(* A path is the sequence of its segments below /v1/tasks; names are model *)
(* values of three sorts, by the grammar they satisfy.  An answer is the   *)
(* engine operation a request reaches, with the names it is called with, or*)
(* the refusal; how an operation's result is written is left out.  The     *)
(* paths have no empty and no dot segment and no trailing slash: those are *)
(* redirected, or not, by net/http and zip before any code here runs.      *)
(***************************************************************************)
EXTENDS Sequences, FiniteSets, Naturals

CONSTANTS
  Paths,        \* the paths asked for
  NotIdent,     \* names validIdent refuses
  NotSegment,   \* names validPathSegment refuses
  Orgs          \* the orgs of valid tokens

VARIABLES
  request,      \* the method and path of the request
  answers       \* what each rendering answered, or "none"

surfaceVars == <<request, answers>>

Methods == {"GET", "POST", "DELETE", "PUT"}
Absent == <<"absent">>          \* absent(): 404, no such page
Invalid == <<"invalid">>        \* the refusal of grammar(): 400
Refusals == {Absent, Invalid}

SurfaceInit == request \in [method : Methods, path : Paths] /\ answers = <<>>

-----------------------------------------------------------------------------
(* The handlers of a namespace's resources: m is the method and s the segments
   below the resource's name. *)
IsWord(s, n, word) == Len(s) = n /\ s[n] = word

handleWorkflows(m, s) ==
  CASE Len(s) = 0 /\ m = "GET" -> <<"ListWorkflowExecutions">>
    [] Len(s) = 0 /\ m = "POST" -> <<"StartWorkflowWithRequestID">>
    [] IsWord(s, 1, "signal-with-start") /\ m = "POST" -> <<"SignalWithStartWorkflow">>
    [] Len(s) = 1 /\ m = "GET" -> <<"DescribeWorkflow", s[1]>>
    [] IsWord(s, 2, "cancel") /\ m = "POST" -> <<"CancelWorkflowWithReason", s[1]>>
    [] IsWord(s, 2, "terminate") /\ m = "POST" -> <<"TerminateWorkflowWithReason", s[1]>>
    [] IsWord(s, 2, "signal") /\ m = "POST" -> <<"SignalWorkflow", s[1]>>
    [] IsWord(s, 2, "history") /\ m = "GET" -> <<"GetWorkflowHistory", s[1]>>
    [] IsWord(s, 2, "query") /\ m = "POST" -> <<"QueryWorkflowCtx", s[1]>>
    [] IsWord(s, 2, "metadata") /\ m = "POST" -> <<"UpdateWorkflowMetadata", s[1]>>
    [] IsWord(s, 2, "executions") /\ m = "GET" -> <<"ListWorkflowChain", s[1]>>
    [] IsWord(s, 2, "reset") /\ m = "POST" -> <<"ResetWorkflow", s[1]>>
    [] OTHER -> Absent

handleTaskQueues(m, s) ==
  CASE Len(s) = 0 /\ m = "GET" -> <<"aggregateTaskQueues">>
    [] Len(s) = 1 /\ m = "GET" -> <<"taskQueueDetail", s[1]>>
    [] IsWord(s, 2, "workers") /\ m = "GET" -> <<"workers.List", s[1]>>
    [] IsWord(s, 2, "partitions") /\ m = "GET" -> <<"partitions">>
    [] OTHER -> Absent

handleWorkers(m, s) ==
  CASE Len(s) = 0 /\ m = "GET" -> <<"workers.List">>
    [] Len(s) = 1 /\ m = "GET" -> <<"workers.Get", s[1]>>
    [] OTHER -> Absent

handleArchival(m, s) == IF Len(s) # 0 \/ m # "GET" THEN Absent ELSE <<"QueryArchival">>

handleSchedules(m, s) ==
  CASE Len(s) = 0 /\ m = "GET" -> <<"ListSchedules">>
    [] Len(s) = 0 /\ m = "POST" -> <<"CreateSchedule">>
    [] Len(s) = 1 /\ m = "GET" -> <<"DescribeSchedule", s[1]>>
    [] Len(s) = 1 /\ m = "POST" -> <<"UpdateSchedule", s[1]>>
    [] Len(s) = 1 /\ m = "DELETE" -> <<"DeleteSchedule", s[1]>>
    [] IsWord(s, 2, "trigger") /\ m = "POST" -> <<"TriggerSchedule", s[1]>>
    [] IsWord(s, 2, "matching-times") /\ m = "GET" -> <<"ScheduleMatchingTimes", s[1]>>
    [] IsWord(s, 2, "pause") /\ m = "POST" -> <<"PauseSchedule", s[1], "true">>
    [] IsWord(s, 2, "unpause") /\ m = "POST" -> <<"PauseSchedule", s[1], "false">>
    [] OTHER -> Absent

handleBatches(m, s) ==
  CASE Len(s) = 0 /\ m = "GET" -> <<"ListBatches">>
    [] Len(s) = 0 /\ m = "POST" -> <<"StartBatch">>
    [] Len(s) = 1 /\ m = "GET" -> <<"DescribeBatch", s[1]>>
    [] IsWord(s, 2, "terminate") /\ m = "POST" -> <<"TerminateBatch", s[1]>>
    [] OTHER -> Absent

handleSearchAttributes(m, s) ==
  CASE Len(s) = 1 /\ m = "DELETE" -> <<"RemoveSearchAttribute", s[1]>>
    [] Len(s) = 0 /\ m = "GET" -> <<"ListSearchAttributes">>
    [] Len(s) = 0 /\ m = "POST" -> <<"AddSearchAttribute">>
    [] OTHER -> Absent

handleNamespaceMetadata(m, s) ==
  IF Len(s) # 0 \/ m # "POST" THEN Absent ELSE <<"UpdateNamespaceMetadata">>

handleDeployments(m, s) ==
  CASE Len(s) = 0 /\ m = "GET" -> <<"ListDeployments">>
    [] Len(s) = 0 /\ m = "POST" -> <<"CreateDeployment">>
    [] Len(s) = 1 /\ m = "GET" -> <<"DescribeDeployment", s[1]>>
    [] Len(s) = 1 /\ m = "POST" -> <<"UpdateDeployment", s[1]>>
    [] Len(s) = 1 /\ m = "DELETE" -> <<"DeleteDeployment", s[1]>>
    [] IsWord(s, 2, "set-current") /\ m = "POST" -> <<"SetCurrentDeploymentVersion", s[1]>>
    [] IsWord(s, 2, "versions") /\ m = "POST" -> <<"CreateVersion", s[1]>>
    [] Len(s) = 3 /\ s[2] = "versions" /\ m = "POST" -> <<"UpdateVersion", s[1], s[3]>>
    [] Len(s) = 3 /\ s[2] = "versions" /\ m = "DELETE" -> <<"DeleteDeploymentVersion", s[1], s[3]>>
    [] IsWord(s, 4, "validate") /\ s[2] = "versions" /\ m = "POST" -> <<"ValidateVersion", s[1], s[3]>>
    [] OTHER -> Absent

handleActivities(m, s) ==
  CASE Len(s) = 0 /\ m = "GET" -> <<"ListActivities">>
    [] Len(s) = 0 /\ m = "POST" -> <<"StartActivity">>
    [] IsWord(s, 1, "claim") /\ m = "POST" -> <<"ClaimNextActivity">>
    [] Len(s) = 2 /\ m = "GET" -> <<"DescribeActivity", s[1], s[2]>>
    [] IsWord(s, 3, "cancel") /\ m = "POST" -> <<"CancelActivity", s[1], s[2]>>
    [] IsWord(s, 3, "complete") /\ m = "POST" -> <<"CompleteActivity", s[1], s[2]>>
    [] IsWord(s, 3, "fail") /\ m = "POST" -> <<"FailActivity", s[1], s[2]>>
    [] IsWord(s, 3, "heartbeat") /\ m = "POST" -> <<"HeartbeatActivity", s[1], s[2]>>
    [] IsWord(s, 3, "history") /\ m = "GET" -> <<"GetActivityHistory", s[1], s[2]>>
    [] OTHER -> Absent

handleNexus(m, s) ==
  CASE Len(s) = 0 /\ m = "GET" -> <<"ListNexusEndpoints">>
    [] Len(s) = 0 /\ m = "POST" -> <<"CreateNexusEndpoint">>
    [] Len(s) = 1 /\ m = "DELETE" -> <<"DeleteNexusEndpoint", s[1]>>
    [] OTHER -> Absent

handleIdentities(m, s) ==
  CASE Len(s) = 0 /\ m = "GET" -> <<"ListIdentities">>
    [] Len(s) = 0 /\ m = "POST" -> <<"GrantIdentity">>
    [] Len(s) = 1 /\ m = "DELETE" -> <<"RevokeIdentity", s[1]>>
    [] OTHER -> Absent

resource(m, kind, s) ==
  CASE kind = "workflows" -> handleWorkflows(m, s)
    [] kind = "schedules" -> handleSchedules(m, s)
    [] kind = "batches" -> handleBatches(m, s)
    [] kind = "deployments" -> handleDeployments(m, s)
    [] kind = "nexus" -> handleNexus(m, s)
    [] kind = "identities" -> handleIdentities(m, s)
    [] kind = "task-queues" -> handleTaskQueues(m, s)
    [] kind = "workers" -> handleWorkers(m, s)
    [] kind = "search-attributes" -> handleSearchAttributes(m, s)
    [] kind = "metadata" -> handleNamespaceMetadata(m, s)
    [] kind = "archival" -> handleArchival(m, s)
    [] kind = "activities" -> handleActivities(m, s)
    [] OTHER -> Absent

-----------------------------------------------------------------------------
(* The operations on namespaces, and what stands beside them. *)
settings(m) == IF m # "GET" THEN Absent ELSE <<"settingsResponse">>

namespaces(m) ==
  CASE m = "GET" -> <<"ListNamespaces">> [] m = "POST" -> <<"RegisterNamespace">> [] OTHER -> Absent

endpoints(m) == IF m # "GET" THEN Absent ELSE <<"ListAllNexusEndpoints">>

namespaceOp(m, ns) ==
  CASE m = "GET" -> <<"DescribeNamespace", ns>> [] m = "DELETE" -> <<"DeprecateNamespace", ns>>
    [] OTHER -> Absent

grammar(ns, rest) ==
  ns \notin NotIdent /\ \A i \in 1..Len(rest) : rest[i] \notin NotSegment

(* The namespace is part of the call of every operation in it. *)
In(ns, op) == IF op \in Refusals THEN op ELSE Append(op, ns)

(* below: the mux's path under /v1/tasks/namespaces/. *)
below(m, parts) ==
  IF ~grammar(parts[1], Tail(parts)) THEN Invalid
  ELSE IF Len(parts) = 1 THEN namespaceOp(m, parts[1])
  ELSE In(parts[1], resource(m, parts[2], SubSeq(parts, 3, Len(parts))))

(* HTTPHandler's mux. *)
HTTPHandler(m, p) ==
  CASE p = <<"settings">> -> settings(m)
    [] p = <<"namespaces">> -> namespaces(m)
    [] p = <<"nexus">> -> endpoints(m)
    [] Len(p) > 1 /\ p[1] = "namespaces" -> below(m, Tail(p))
    [] OTHER -> Absent

-----------------------------------------------------------------------------
(* contents: the routes below a namespace.  A segment of Params matches any. *)
Params == {":wf", ":id", ":build", ":queue", ":attr", ":run"}

Below(kind, suffixes) == {<<kind>> \o s : s \in suffixes}
Acts(kind, id, words) == {<<kind>> \o id \o <<w>> : w \in words}

contentsGet ==
  Below("workflows", {<<>>, <<":wf">>}) \cup Acts("workflows", <<":wf">>, {"history", "executions"})
  \cup Below("schedules", {<<>>, <<":id">>}) \cup Acts("schedules", <<":id">>, {"matching-times"})
  \cup Below("batches", {<<>>, <<":id">>}) \cup Below("deployments", {<<>>, <<":id">>})
  \cup Below("nexus", {<<>>}) \cup Below("identities", {<<>>})
  \cup Below("task-queues", {<<>>, <<":queue">>})
  \cup Acts("task-queues", <<":queue">>, {"workers", "partitions"})
  \cup Below("workers", {<<>>, <<":id">>}) \cup Below("search-attributes", {<<>>})
  \cup Below("archival", {<<>>}) \cup Below("activities", {<<>>, <<":id", ":run">>})
  \cup Acts("activities", <<":id", ":run">>, {"history"})

contentsPost ==
  Below("workflows", {<<>>, <<"signal-with-start">>})
  \cup Acts("workflows", <<":wf">>, {"cancel", "terminate", "signal", "query", "metadata", "reset"})
  \cup Below("schedules", {<<>>, <<":id">>}) \cup Acts("schedules", <<":id">>, {"trigger", "pause", "unpause"})
  \cup Below("batches", {<<>>}) \cup Acts("batches", <<":id">>, {"terminate"})
  \cup Below("deployments", {<<>>, <<":id">>}) \cup Acts("deployments", <<":id">>, {"set-current", "versions"})
  \cup Below("deployments", {<<":id", "versions", ":build">>, <<":id", "versions", ":build", "validate">>})
  \cup Below("nexus", {<<>>}) \cup Below("identities", {<<>>}) \cup Below("search-attributes", {<<>>})
  \cup Below("metadata", {<<>>}) \cup Below("activities", {<<>>, <<"claim">>})
  \cup Acts("activities", <<":id", ":run">>, {"cancel", "complete", "fail", "heartbeat"})

contentsDelete ==
  Below("schedules", {<<":id">>}) \cup Below("nexus", {<<":id">>}) \cup Below("identities", {<<":id">>})
  \cup Below("search-attributes", {<<":attr">>})
  \cup Below("deployments", {<<":id">>, <<":id", "versions", ":build">>})

contents(m) ==
  CASE m = "GET" -> contentsGet [] m = "POST" -> contentsPost [] m = "DELETE" -> contentsDelete
    [] OTHER -> {}

(* zip's router: the segments match one by one. *)
Matches(route, p) ==
  /\ Len(route) = Len(p)
  /\ \A i \in 1..Len(p) : route[i] \in Params \/ route[i] = p[i]

(* segments: a parameter takes the segment it matched, a word is itself. *)
segmentsAsNamed(route, p) == [i \in 1..(Len(route) - 1) |-> route[i + 1]]  \* mutant
segments(route, p) ==
  [i \in 1..(Len(route) - 1) |-> IF route[i + 1] \in Params THEN p[i + 1] ELSE route[i + 1]]

(* Surface: the routes beside the table, the table, and the wildcard under it
   that refuses what no route claims. *)
Contained(m, ns, p) ==
  LET route == CHOOSE r \in contents(m) : Matches(r, p)
      sub == segments(route, p)
  IN IF ~grammar(ns, sub) THEN Invalid ELSE In(ns, resource(m, route[1], sub))

App(m, p) ==
  CASE p = <<"settings">> /\ m = "GET" -> settings(m)
    [] p = <<"namespaces">> /\ m \in {"GET", "POST"} -> namespaces(m)
    [] p = <<"nexus">> /\ m = "GET" -> endpoints(m)
    [] Len(p) = 2 /\ p[1] = "namespaces" /\ m \in {"GET", "DELETE"} ->
         IF ~grammar(p[2], <<>>) THEN Invalid ELSE namespaceOp(m, p[2])
    [] /\ Len(p) > 2 /\ p[1] = "namespaces"
       /\ \E r \in contents(m) : Matches(r, SubSeq(p, 3, Len(p))) ->
         Contained(m, p[2], SubSeq(p, 3, Len(p)))
    [] OTHER -> Absent

-----------------------------------------------------------------------------
(* Who is asking.  A credential is an org's token, "" for none, or a token that
   is not valid or names no org; the answer is the org the engine is scoped to,
   "" for the root tenant, or "401". *)
Credentials == Orgs \cup {"", "invalid", "orgless"}

(* RequireIdentity, the HTTP middleware; v says whether there is a validator. *)
RequireIdentity(v, require, cred) ==
  LET authed == v /\ cred \in Orgs
  IN CASE require /\ ~authed -> "401" [] authed -> cred [] OTHER -> ""

(* scope, in zapHandlers. *)
scope(v, require, cred) ==
  CASE ~v -> ""
    [] v /\ cred \notin Orgs -> IF require THEN "401" ELSE ""
    [] v /\ cred \in Orgs -> cred

-----------------------------------------------------------------------------
(* A request is sent to both. *)
Ask ==
  /\ answers = <<>>
  /\ answers' = <<HTTPHandler(request.method, request.path), App(request.method, request.path)>>
  /\ UNCHANGED request

SurfaceNext == Ask

-----------------------------------------------------------------------------
(* A caller cannot tell which of the two renderings answered: every method on
   every path of legal names reaches the same operation with the same names, or is
   refused by both, so the table of routes has a row for each case of the handlers
   and no other; a path with an illegal name reaches no operation in either.  And
   with a validator the ZAP listener acts for the same org as the HTTP middleware,
   or refuses with it. *)
Legal(p) == Len(p) < 2 \/ grammar(p[2], SubSeq(p, 3, Len(p)))

SurfacesAgree ==
  /\ answers # <<>> =>
       IF Legal(request.path) THEN answers[1] = answers[2]
       ELSE answers[1] \in Refusals /\ answers[2] \in Refusals
  /\ \A require \in BOOLEAN, cred \in Credentials :
       RequireIdentity(TRUE, require, cred) = scope(TRUE, require, cred)

=============================================================================
