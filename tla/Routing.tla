------------------------------- MODULE Routing -------------------------------
(***************************************************************************)
(* The rendezvous router (routing/routing.go): LeaderFor picks, for every  *)
(* key, the validator with the smallest hash score; a tie goes to the node *)
(* that comes first in the sorted list the loop walks.  scoreOf is any     *)
(* function of key and node.  Nodes are numbers; a membership is a set,    *)
(* since SetMembership sorts its copy.  ClusterProofs has what is proved.  *)
(***************************************************************************)
EXTENDS Integers

CONSTANTS
  Ids,         \* the nodes that may be validators
  Routes,      \* the routing keys
  scoreOf      \* the hash, [Routes -> [Ids -> Nat]]

ASSUME RoutingAssumption == Ids \subseteq Nat /\ scoreOf \in [Routes -> [Ids -> Nat]]

(* One step of LeaderFor's loop over the sorted validators: does v keep its place
   against w. *)
Beats(k, v, w) ==
  scoreOf[k][v] < scoreOf[k][w] \/ (scoreOf[k][v] = scoreOf[k][w] /\ v <= w)

LeaderFor(k, vs) == CHOOSE v \in vs : \A w \in vs : Beats(k, v, w)

IsLeader(k, local, vs) == vs # {} /\ LeaderFor(k, vs) = local
=============================================================================
