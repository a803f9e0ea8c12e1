----------------------------- MODULE Replication -----------------------------
(***************************************************************************)
(* The consensus replicator (replication/quasar) on several nodes, with    *)
(* the in-process MemoryTransport that cmd/tasksd connects it to.           *)
(*                                                                         *)
(* Propose adds the frame to its own engine, votes, and broadcasts; the    *)
(* transport calls each peer's handleFrame in turn, in the proposer's own  *)
(* goroutine, and each waits for its engine.  The engine (luxfi/consensus) *)
(* is external: a block is accepted once Alpha distinct voters are on      *)
(* record for it.  Every node votes under the zero NodeID, so a node's own *)
(* vote counts once; other votes come in through handleVote.  A frame is   *)
(* proposed once, by FrameOwner(f).                                        *)
(***************************************************************************)
EXTENDS Integers, FiniteSets, Sequences

CONSTANTS
  Hosts,      \* the nodes on the hub
  Frames,     \* the frames proposed
  FrameOwner(_),
  Voters,     \* voters outside the model whose votes may arrive
  Alpha       \* votes an engine needs

ASSUME ReplicationAssumption == Alpha \in Nat \ {0} /\ \A f \in Frames : FrameOwner(f) \in Hosts

VARIABLES
  height,     \* per node: QuasarReplicator.height
  blocks,     \* per node: blocks added to the engine
  votes,      \* per node: votes on record, <<frame, voter>>
  applied,    \* per node: frames given to the handlers, in order
  proposal    \* per frame: where Propose is, the peers still to call, its Seq

replVars == <<height, blocks, votes, applied, proposal>>

Zero == "zero"   \* consensus.NodeID{}

ReplicationInit ==
  /\ height = [n \in Hosts |-> 0] /\ blocks = [n \in Hosts |-> {}]
  /\ votes = [n \in Hosts |-> {}] /\ applied = [n \in Hosts |-> <<>>]
  /\ proposal = [f \in Frames |-> [pc |-> "idle", peer |-> FrameOwner(f), left |-> {}, seq |-> 0]]

IsAccepted(n, f) == f \in blocks[n] /\ Cardinality({v \in votes[n] : v[1] = f}) >= Alpha

(* engine.Add and the self vote. *)
Add(n, f) ==
  /\ blocks' = [blocks EXCEPT ![n] = @ \cup {f}]
  /\ votes' = [votes EXCEPT ![n] = @ \cup {<<f, Zero>>}]

applyAccepted(n, f) == applied' = [applied EXCEPT ![n] = Append(@, f)]

(* MemoryTransport.Broadcast: every peer except the sender. *)
BroadcastToAll(n) == Hosts \* mutant
Broadcast(n) == Hosts \ {n}

Propose(f) ==
  LET n == FrameOwner(f) IN
  /\ proposal[f].pc = "idle" /\ Add(n, f)
  /\ height' = [height EXCEPT ![n] = @ + 1]
  /\ proposal' = [proposal EXCEPT ![f] =
       [pc |-> "cast", peer |-> n, left |-> Broadcast(n), seq |-> height[n] + 1]]
  /\ UNCHANGED applied

(* handleFrame at the next peer: add and vote, then accept or time out. *)
handleFrame(f, p) ==
  /\ proposal[f].pc = "cast" /\ p \in proposal[f].left /\ Add(p, f)
  /\ proposal' = [proposal EXCEPT ![f].pc = "handle", ![f].peer = p, ![f].left = @ \ {p}]
  /\ UNCHANGED <<height, applied>>

HandleAccepted(f) ==
  /\ proposal[f].pc = "handle" /\ IsAccepted(proposal[f].peer, f)
  /\ applyAccepted(proposal[f].peer, f)
  /\ proposal' = [proposal EXCEPT ![f].pc = "cast"]
  /\ UNCHANGED <<height, blocks, votes>>

HandleTimesOut(f) ==
  /\ proposal[f].pc = "handle" /\ proposal' = [proposal EXCEPT ![f].pc = "cast"]
  /\ UNCHANGED <<height, blocks, votes, applied>>

(* Propose polls its own engine once the broadcast has returned. *)
ProposeAccepted(f) ==
  LET n == FrameOwner(f) IN
  /\ proposal[f].pc = "cast" /\ proposal[f].left = {} /\ IsAccepted(n, f)
  /\ applyAccepted(n, f) /\ proposal' = [proposal EXCEPT ![f].pc = "accept"]
  /\ UNCHANGED <<height, blocks, votes>>

ProposeTimesOut(f) ==
  /\ proposal[f].pc = "cast" /\ proposal[f].left = {}
  /\ proposal' = [proposal EXCEPT ![f].pc = "timeout"]
  /\ UNCHANGED <<height, blocks, votes, applied>>

(* A peer's vote, for a block the engine knows. *)
handleVote(n, f, v) ==
  /\ f \in blocks[n] /\ votes' = [votes EXCEPT ![n] = @ \cup {<<f, v>>}]
  /\ UNCHANGED <<height, blocks, applied, proposal>>

ReplicationNext ==
  \/ \E f \in Frames :
       \/ Propose(f) \/ HandleAccepted(f) \/ HandleTimesOut(f) \/ ProposeAccepted(f) \/ ProposeTimesOut(f)
       \/ \E p \in Hosts : handleFrame(f, p)
       \/ \E n \in Hosts, v \in Voters : handleVote(n, f, v)

ReplicationSpec == ReplicationInit /\ [][ReplicationNext]_replVars
-----------------------------------------------------------------------------
Times(n, f) == Cardinality({i \in 1..Len(applied[n]) : applied[n][i] = f})

(* A node applies a frame at most once, and only when its own engine accepted it.
   What Propose tells its caller is what its own node did: Accept means the frame
   was applied there, Timeout that it was not and will not be, though a peer may
   have applied it.  Frames of one node carry different sequence numbers, on which
   the block ids rest. *)
AppliedAsDecided ==
  /\ \A n \in Hosts, f \in Frames : Times(n, f) <= 1 /\ (Times(n, f) = 1 => IsAccepted(n, f))
  /\ \A f \in Frames :
       /\ (Times(FrameOwner(f), f) = 1) <=> (proposal[f].pc = "accept")
       /\ \A g \in Frames : f # g /\ FrameOwner(f) = FrameOwner(g) /\ proposal[f].seq > 0
            => proposal[f].seq # proposal[g].seq
-----------------------------------------------------------------------------
(* What holds in every state on the way: a peer the frame has still to reach has not
   applied it, its proposer applies it last, and no frame of a node has a sequence
   number above the node's height. *)
ReplicationTypeOK ==
  /\ height \in [Hosts -> Nat] /\ blocks \in [Hosts -> SUBSET Frames]
  /\ votes \in [Hosts -> SUBSET (Frames \X (Voters \cup {Zero}))] /\ \A n \in Hosts : IsFiniteSet(votes[n])
  /\ applied \in [Hosts -> Seq(Frames)]
  /\ proposal \in [Frames -> [pc : {"idle", "cast", "handle", "accept", "timeout"}, peer : Hosts,
                              left : SUBSET Hosts, seq : Nat]]

FrameHeld(f) ==
  LET n == FrameOwner(f) IN
  /\ proposal[f].pc = "idle" => \A p \in Hosts : Times(p, f) = 0
  /\ n \notin proposal[f].left /\ \A p \in proposal[f].left : Times(p, f) = 0
  /\ proposal[f].pc = "handle" =>
       proposal[f].peer # n /\ proposal[f].peer \notin proposal[f].left /\ Times(proposal[f].peer, f) = 0
  /\ Times(n, f) = (IF proposal[f].pc = "accept" THEN 1 ELSE 0)
  /\ \A p \in Hosts : Times(p, f) <= 1 /\ (Times(p, f) = 1 => IsAccepted(p, f))
  /\ proposal[f].seq <= height[n]

ReplicationInv == ReplicationTypeOK /\ (\A f \in Frames : FrameHeld(f)) /\ AppliedAsDecided
=============================================================================
