------------------------------- MODULE Catalog -------------------------------
(***************************************************************************)
(* The catalogue rows of the engine (engine.go, engine_extras.go,          *)
(* activities.go): a namespace, a deployment series and its versions, a    *)
(* search attribute and a batch.  No operation takes a lock: each reads a  *)
(* row, changes its copy and puts the whole row back, and calls of several *)
(* clients interleave between the read and the put.                        *)
(***************************************************************************)
EXTENDS Integers, FiniteSets

CONSTANTS
  Clients,
  Builds,      \* build ids
  MaxOps       \* bound: calls made

ASSUME CatalogAssumption == "" \notin Builds /\ MaxOps \in Nat

VARIABLES
  ns,          \* the row ns/<name>: there, state, and whether metadata was patched
  dp,          \* the row dp/<ns>/<name>: there, DefaultBuildId, Versions
  sa,          \* the row sa/<ns>/<attribute> is there
  bt,          \* the row bt/<ns>/<batch>: "none", "RUNNING" or "TERMINATED"
  client,      \* per client: the call in progress, and the row it read
  ops

catalogVars == <<ns, dp, sa, bt, client, ops>>

NoNs == [there |-> FALSE, state |-> "REGISTERED", patched |-> FALSE]
NoDp == [there |-> FALSE, def |-> "", versions |-> [b \in Builds |-> "none"]]
NewDp == [there |-> TRUE, def |-> "", versions |-> [b \in Builds |-> "none"]]
NoReq == [op |-> "none", build |-> "", ns |-> NoNs, dp |-> NoDp, bt |-> "none"]

CatalogInit ==
  /\ ns = NoNs /\ dp = NoDp /\ sa = FALSE /\ bt = "none"
  /\ client = [c \in Clients |-> NoReq] /\ ops = 0

Versions(d) == {b \in Builds : d.versions[b] # "none"}

RowOps == {"register", "patch", "deprecate", "addattr", "delattr", "create", "update", "delete",
           "startbatch", "endbatch"}
VersionOps == {"createversion", "updateversion", "setcurrent", "delversion"}

(* A call starts by reading the rows it works on. *)
Begin(c, op, build) ==
  /\ client[c] = NoReq /\ ops < MaxOps /\ ops' = ops + 1
  /\ client' = [client EXCEPT ![c] = [op |-> op, build |-> build, ns |-> ns, dp |-> dp, bt |-> bt]]
  /\ UNCHANGED <<ns, dp, sa, bt>>

Ends(c) == client' = [client EXCEPT ![c] = NoReq] /\ UNCHANGED ops
-----------------------------------------------------------------------------
(* Namespaces. *)
RegisterNamespace(c) ==
  /\ client[c].op = "register" /\ Ends(c)
  /\ ns' = [there |-> TRUE, state |-> "REGISTERED", patched |-> FALSE] /\ UNCHANGED <<dp, sa, bt>>

(* engine.namespace: a missing row is registered on first use. *)
namespace(read) == IF read.there THEN ns ELSE [there |-> TRUE, state |-> "REGISTERED", patched |-> FALSE]

UpdateNamespaceMetadata(c) ==
  /\ client[c].op = "patch" /\ Ends(c)
  /\ ns' = IF client[c].ns.there THEN [client[c].ns EXCEPT !.patched = TRUE] ELSE ns
  /\ UNCHANGED <<dp, sa, bt>>

DeprecateNamespace(c) ==
  /\ client[c].op = "deprecate" /\ Ends(c)
  /\ ns' = IF client[c].ns.there THEN [client[c].ns EXCEPT !.state = "DELETED"] ELSE ns
  /\ UNCHANGED <<dp, sa, bt>>

(* AddSearchAttribute: the namespace first, then the lookup and the put. *)
AddToNamespace(c) ==
  /\ client[c].op = "addattr" /\ ns' = namespace(client[c].ns)
  /\ client' = [client EXCEPT ![c].op = "putattr"] /\ UNCHANGED <<dp, sa, bt, ops>>

AddSearchAttribute(c) ==
  /\ client[c].op = "putattr" /\ Ends(c) /\ sa' = TRUE /\ UNCHANGED <<ns, dp, bt>>

RemoveSearchAttribute(c) ==
  /\ client[c].op = "delattr" /\ Ends(c)
  /\ sa' = (sa /\ ~client[c].ns.there) /\ UNCHANGED <<ns, dp, bt>>
-----------------------------------------------------------------------------
(* Deployments.  Put writes the copy the call read, changed. *)
PutDeployment(c, ok, d) ==
  /\ Ends(c) /\ dp' = (IF ok THEN d ELSE dp) /\ UNCHANGED <<ns, sa, bt>>

CreateDeployment(c) ==
  LET d == client[c].dp IN
  /\ client[c].op = "create" /\ PutDeployment(c, ~d.there, NewDp)

UpdateDeployment(c) ==
  LET d == client[c].dp IN
  /\ client[c].op = "update" /\ PutDeployment(c, d.there, d)

(* UpdateVersion changes no state the model keeps; a build that is not there is an
   error. *)
UpdateVersion(c) ==
  LET d == client[c].dp IN
  /\ client[c].op = "updateversion"
  /\ PutDeployment(c, d.there /\ client[c].build \in Versions(d), d)

DeleteDeployment(c, force) ==
  LET d == client[c].dp IN
  /\ client[c].op = "delete" /\ PutDeployment(c, d.there /\ (force \/ Versions(d) = {}), NoDp)

(* The first version becomes the default. *)
CreateVersion(c) ==
  LET d == client[c].dp
      b == client[c].build
      state == IF d.def = "" THEN "CURRENT" ELSE "DRAFT"
  IN /\ client[c].op = "createversion"
     /\ PutDeployment(c, d.there /\ b \notin Versions(d),
          [d EXCEPT !.versions[b] = state, !.def = IF @ = "" THEN b ELSE @])

(* SetCurrentDeploymentVersion: the new default is CURRENT, the old one RETIRED. *)
FlippedAlone(d, b) == [d EXCEPT !.versions[b] = "CURRENT", !.def = b] \* mutant
Flipped(d, b) ==
  [d EXCEPT !.def = b,
            !.versions = [v \in Builds |-> CASE v = b -> "CURRENT"
                                             [] v # b /\ @[v] = "CURRENT" -> "RETIRED"
                                             [] OTHER -> @[v]]]

SetCurrentDeploymentVersion(c) ==
  LET d == client[c].dp
      b == client[c].build
  IN /\ client[c].op = "setcurrent"
     /\ PutDeployment(c, d.there /\ d.def # b /\ b \in Versions(d), Flipped(d, b))

(* DeleteDeploymentVersion refuses the default. *)
DeleteDeploymentVersion(c) ==
  LET d == client[c].dp
      b == client[c].build
  IN /\ client[c].op = "delversion"
     /\ PutDeployment(c, d.there /\ d.def # b /\ b \in Versions(d), [d EXCEPT !.versions[b] = "none"])
-----------------------------------------------------------------------------
(* Batches. *)
StartBatch(c) ==
  /\ client[c].op = "startbatch" /\ Ends(c) /\ bt' = "RUNNING" /\ UNCHANGED <<ns, dp, sa>>

TerminateBatch(c) ==
  /\ client[c].op = "endbatch" /\ Ends(c)
  /\ bt' = (IF client[c].bt = "none" THEN bt ELSE "TERMINATED") /\ UNCHANGED <<ns, dp, sa>>
-----------------------------------------------------------------------------
CatalogNext ==
  \E c \in Clients :
    \/ \E op \in RowOps : Begin(c, op, "")
    \/ \E op \in VersionOps, b \in Builds : Begin(c, op, b)
    \/ RegisterNamespace(c) \/ UpdateNamespaceMetadata(c) \/ DeprecateNamespace(c)
    \/ AddToNamespace(c) \/ AddSearchAttribute(c) \/ RemoveSearchAttribute(c)
    \/ CreateDeployment(c) \/ UpdateDeployment(c) \/ UpdateVersion(c)
    \/ \E force \in BOOLEAN : DeleteDeployment(c, force)
    \/ CreateVersion(c) \/ SetCurrentDeploymentVersion(c) \/ DeleteDeploymentVersion(c)
    \/ StartBatch(c) \/ TerminateBatch(c)

CatalogSpec == CatalogInit /\ [][CatalogNext]_catalogVars
-----------------------------------------------------------------------------
DpType == [there : BOOLEAN, def : Builds \cup {""}, versions : [Builds -> {"none", "DRAFT", "CURRENT", "RETIRED"}]]
NsType == [there : BOOLEAN, state : {"REGISTERED", "DELETED"}, patched : BOOLEAN]
BtType == {"none", "RUNNING", "TERMINATED"}
ReqType == [op : RowOps \cup VersionOps \cup {"none", "putattr"},
            build : Builds \cup {""}, ns : NsType, dp : DpType, bt : BtType]

CatalogTypeOK ==
  /\ ns \in NsType /\ dp \in DpType /\ sa \in BOOLEAN /\ bt \in BtType
  /\ client \in [Clients -> ReqType]

(* However calls interleave and overwrite each other, the default build of a
   deployment is one of its versions, it is the one marked CURRENT, and no other
   version is: flips, deletions and creations computed on stale copies keep the row
   consistent with itself. *)
Consistent(d) ==
  /\ \A b \in Builds : d.versions[b] = "CURRENT" <=> (d.there /\ d.def = b)
  /\ d.there /\ Versions(d) # {} => d.def # ""

DefaultDeployed == Consistent(dp)

(* The inductive form: so is every copy a call has read. *)
CatalogInv ==
  /\ CatalogTypeOK /\ Consistent(dp)
  /\ \A c \in Clients : /\ Consistent(client[c].dp)
                        /\ client[c].op = "createversion" => client[c].build \in Builds
=============================================================================
