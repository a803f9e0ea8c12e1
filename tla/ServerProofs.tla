---------------------------- MODULE ServerProofs ----------------------------
(***************************************************************************)
(* Smaller parts of the server: proofs about Replication (the votes on a   *)
(* frame), Purge (the walk that removes expired runs), Queries (the table  *)
(* of pending queries), Catalog (the row of a deployment series) and       *)
(* Failures (the record of the failures of an execution identity), each    *)
(* for any clients and any number of calls.                                *)
(***************************************************************************)
EXTENDS Replication, Purge, Queries, Catalog, Failures, FiniteSetTheorems, TLAPS

-----------------------------------------------------------------------------
(* The replicator. *)
-----------------------------------------------------------------------------

(* How often an element occurs in a sequence, and in the sequence with one more. *)
Occurs(s, e) == {i \in 1..Len(s) : s[i] = e}

(* There are finitely many places. *)
LEMMA OccursFinite ==
  ASSUME NEW S, NEW s \in Seq(S), NEW e
  PROVE  IsFiniteSet(Occurs(s, e)) /\ Cardinality(Occurs(s, e)) \in Nat
<1>1. Len(s) \in Int /\ 1 \in Int
  OBVIOUS
<1>2. IsFiniteSet(1..Len(s))
  BY <1>1, FS_Interval, Zenon
<1>3. Occurs(s, e) \in SUBSET (1..Len(s))
  BY DEF Occurs
<1>4. IsFiniteSet(Occurs(s, e))
  BY <1>2, <1>3, FS_Subset, Zenon
<1> QED
  BY <1>4, FS_CardinalityType, Zenon

(* One more element adds at most one place. *)
LEMMA OccursAppend ==
  ASSUME NEW S, NEW s \in Seq(S), NEW d \in S, NEW e
  PROVE  Cardinality(Occurs(Append(s, d), e)) =
           Cardinality(Occurs(s, e)) + (IF d = e THEN 1 ELSE 0)
<1>1. /\ Len(Append(s, d)) = Len(s) + 1 /\ Len(s) \in Nat /\ Append(s, d)[Len(s) + 1] = d
      /\ \A i \in 1..Len(s) : Append(s, d)[i] = s[i]
  OBVIOUS
<1>2. IsFiniteSet(Occurs(s, e)) /\ Cardinality(Occurs(s, e)) \in Nat
  BY OccursFinite
<1>3. CASE d = e
  <2>1. Occurs(Append(s, d), e) = Occurs(s, e) \cup {Len(s) + 1}
    BY <1>1, <1>3 DEF Occurs
  <2>2. Len(s) + 1 \notin Occurs(s, e)
    BY <1>1 DEF Occurs
  <2> QED
    BY Zenon, <1>2, <1>3, <2>1, <2>2, FS_AddElement
<1>4. CASE d # e
  <2>1. Occurs(Append(s, d), e) = Occurs(s, e)
    BY <1>1, <1>4 DEF Occurs
  <2> QED
    BY <1>2, <1>4, <2>1
<1> QED
  BY <1>3, <1>4

(* Times counts up to the frames that are applied. *)
LEMMA TimesType ==
  ASSUME ReplicationTypeOK, NEW n \in Hosts, NEW f \in Frames
  PROVE  Times(n, f) \in Nat /\ Times(n, f) = Cardinality(Occurs(applied[n], f))
<1>1. applied[n] \in Seq(Frames)
  BY DEF ReplicationTypeOK
<1>2. Times(n, f) = Cardinality(Occurs(applied[n], f))
  BY DEF Times, Occurs
<1> QED
  BY <1>1, <1>2, OccursFinite, Zenon

(* applyAccepted gives one frame to the handlers, once. *)
LEMMA TimesApplied ==
  ASSUME ReplicationTypeOK, NEW m \in Hosts, NEW g \in Frames, applyAccepted(m, g),
         NEW n \in Hosts, NEW f \in Frames
  PROVE  Times(n, f)' = (IF n = m /\ f = g THEN Times(n, f) + 1 ELSE Times(n, f))
<1>1. applied[n] \in Seq(Frames) /\ applied \in [Hosts -> Seq(Frames)]
  BY DEF ReplicationTypeOK
<1>2. Times(n, f)' = Cardinality(Occurs(applied'[n], f))
  BY DEF Times, Occurs
<1>3. Times(n, f) \in Nat /\ Times(n, f) = Cardinality(Occurs(applied[n], f))
  BY Zenon, TimesType
<1>4. CASE n = m
  <2>1. applied'[n] = Append(applied[n], g)
    BY Zenon, <1>1, <1>4 DEF applyAccepted
  <2>2. Cardinality(Occurs(Append(applied[n], g), f)) =
           Cardinality(Occurs(applied[n], f)) + (IF g = f THEN 1 ELSE 0)
    BY <1>1, OccursAppend
  <2> QED
    BY <1>2, <1>3, <1>4, <2>1, <2>2
<1>5. CASE n # m
  <2>1. applied'[n] = applied[n]
    BY <1>1, <1>5 DEF applyAccepted
  <2> QED
    BY <1>2, <1>3, <1>5, <2>1
<1> QED
  BY <1>4, <1>5

(* A block that is accepted stays accepted: votes are only added. *)
LEMMA AcceptedStays ==
  ASSUME NEW n, NEW f, IsAccepted(n, f), blocks[n] \subseteq blocks'[n],
         votes[n] \subseteq votes'[n], IsFiniteSet(votes'[n])
  PROVE  IsAccepted(n, f)'
<1> DEFINE old == {v \in votes[n] : v[1] = f}
<1> DEFINE new == {v \in votes'[n] : v[1] = f}
<1>1. old \in SUBSET new /\ new \in SUBSET votes'[n]
  OBVIOUS
<1>2. IsFiniteSet(new)
  BY <1>1, FS_Subset, Zenon
<1>3. IsFiniteSet(old) /\ Cardinality(old) <= Cardinality(new)
  BY <1>1, <1>2, FS_Subset, Zenon
<1>4. Cardinality(old) \in Nat /\ Cardinality(new) \in Nat
  BY <1>2, <1>3, FS_CardinalityType, Zenon
<1>5. f \in blocks[n] /\ Cardinality(old) >= Alpha
  BY DEF IsAccepted
<1>6. Alpha \in Nat
  BY Zenon, ReplicationAssumption
<1>7. Cardinality(new) >= Alpha
  <2> HIDE DEF old, new
  <2> QED
    BY <1>3, <1>4, <1>5, <1>6
<1>8. f \in blocks'[n]
  BY Zenon, <1>5
<1> QED
  BY Zenon, <1>7, <1>8 DEF IsAccepted

-----------------------------------------------------------------------------
(* Each step keeps the types, adds blocks and votes only, and lowers no height. *)
LEMMA ReplicationTypes ==
  ASSUME ReplicationTypeOK, ReplicationNext
  PROVE  /\ ReplicationTypeOK'
         /\ \A n \in Hosts : blocks[n] \subseteq blocks'[n] /\ votes[n] \subseteq votes'[n] /\ height[n] <= height'[n]
<1> DEFINE Goal == /\ ReplicationTypeOK'
                   /\ \A n \in Hosts : /\ blocks[n] \subseteq blocks'[n] /\ votes[n] \subseteq votes'[n]
                                       /\ height[n] <= height'[n]
<1> DEFINE Votes == Frames \X (Voters \cup {Zero})
<1> DEFINE Proposals == [pc : {"idle", "cast", "handle", "accept", "timeout"}, peer : Hosts,
                         left : SUBSET Hosts, seq : Nat]
<1>t. /\ height \in [Hosts -> Nat] /\ blocks \in [Hosts -> SUBSET Frames]
      /\ votes \in [Hosts -> SUBSET Votes] /\ (\A n \in Hosts : IsFiniteSet(votes[n]))
      /\ applied \in [Hosts -> Seq(Frames)] /\ proposal \in [Frames -> Proposals]
  BY DEF ReplicationTypeOK
<1>o. \A f \in Frames : FrameOwner(f) \in Hosts
  BY ReplicationAssumption
<1>v. ASSUME NEW n \in Hosts, NEW x \in Votes, votes' = [votes EXCEPT ![n] = @ \cup {x}]
      PROVE  /\ votes' \in [Hosts -> SUBSET Votes] /\ \A m \in Hosts : IsFiniteSet(votes'[m])
             /\ \A m \in Hosts : votes[m] \subseteq votes'[m]
  <2>1. IsFiniteSet(votes[n] \cup {x})
    BY <1>t, FS_AddElement, Zenon
  <2>2. \A m \in Hosts : votes'[m] = IF m = n THEN votes[n] \cup {x} ELSE votes[m]
    BY Zenon, <1>t, <1>v
  <2>3. votes' \in [Hosts -> SUBSET Votes]
    BY <1>t, <1>v
  <2> QED
    BY Zenon, <1>t, <2>1, <2>2, <2>3
<1>a. ASSUME NEW n \in Hosts, NEW f \in Frames, Add(n, f)
      PROVE  /\ votes' \in [Hosts -> SUBSET Votes] /\ (\A m \in Hosts : IsFiniteSet(votes'[m]))
             /\ \A m \in Hosts : votes[m] \subseteq votes'[m]
             /\ blocks' \in [Hosts -> SUBSET Frames] /\ \A m \in Hosts : blocks[m] \subseteq blocks'[m]
  <2>1. <<f, Zero>> \in Votes
    OBVIOUS
  <2>2. votes' = [votes EXCEPT ![n] = @ \cup {<<f, Zero>>}] /\ blocks' = [blocks EXCEPT ![n] = @ \cup {f}]
    BY <1>a DEF Add
  <2>3. blocks' \in [Hosts -> SUBSET Frames] /\ \A m \in Hosts : blocks[m] \subseteq blocks'[m]
    BY Zenon, <1>t, <2>2
  <2> QED
    BY Zenon, <1>v, <2>1, <2>2, <2>3
<1>p. ASSUME NEW n \in Hosts, NEW f \in Frames, applyAccepted(n, f) PROVE applied' \in [Hosts -> Seq(Frames)]
  <2>1. Append(applied[n], f) \in Seq(Frames)
    BY <1>t
  <2> QED
    BY Zenon, <1>t, <1>p, <2>1 DEF applyAccepted
<1>h. height' = height => height' \in [Hosts -> Nat] /\ \A n \in Hosts : height[n] <= height'[n]
  BY <1>t
<1>b. UNCHANGED <<blocks, votes>> =>
        /\ votes' \in [Hosts -> SUBSET Votes] /\ (\A m \in Hosts : IsFiniteSet(votes'[m]))
        /\ (\A m \in Hosts : votes[m] \subseteq votes'[m])
        /\ blocks' \in [Hosts -> SUBSET Frames] /\ \A m \in Hosts : blocks[m] \subseteq blocks'[m]
  BY <1>t
<1>g. ASSUME height' \in [Hosts -> Nat], \A n \in Hosts : height[n] <= height'[n],
             votes' \in [Hosts -> SUBSET Votes], \A m \in Hosts : IsFiniteSet(votes'[m]),
             \A m \in Hosts : votes[m] \subseteq votes'[m],
             blocks' \in [Hosts -> SUBSET Frames], \A m \in Hosts : blocks[m] \subseteq blocks'[m],
             applied' \in [Hosts -> Seq(Frames)], proposal' \in [Frames -> Proposals]
      PROVE  Goal
  BY Zenon, <1>g DEF ReplicationTypeOK
<1> HIDE DEF Goal, Votes, Proposals
<1>1. ASSUME NEW f \in Frames, Propose(f) PROVE Goal
  <2>1. Add(FrameOwner(f), f) /\ applied' = applied /\ FrameOwner(f) \in Hosts
    BY Zenon, <1>1, <1>o DEF Propose
  <2>2. height' \in [Hosts -> Nat] /\ \A n \in Hosts : height[n] <= height'[n]
    BY <1>1, <1>t, <1>o DEF Propose
  <2>3. proposal' \in [Frames -> Proposals]
    BY <1>1, <1>t, <1>o DEF Propose, Broadcast, Proposals
  <2> QED
    BY Zenon, <1>a, <1>g, <1>t, <2>1, <2>2, <2>3
<1>2. ASSUME NEW f \in Frames, NEW p \in Hosts, handleFrame(f, p) PROVE Goal
  <2>1. proposal' \in [Frames -> Proposals]
    <3>1. proposal[f] \in Proposals
      BY <1>t
    <3>2. \A g \in Frames : proposal'[g] =
            IF g = f THEN [proposal[f] EXCEPT !.pc = "handle", !.peer = p, !.left = @ \ {p}] ELSE proposal[g]
      BY <1>2, <1>t DEF handleFrame
    <3>3. [proposal[f] EXCEPT !.pc = "handle", !.peer = p, !.left = @ \ {p}] \in Proposals
      BY Zenon, <3>1 DEF Proposals
    <3>4. DOMAIN proposal' = Frames /\ proposal' = [g \in Frames |-> proposal'[g]]
      BY Zenon, <1>2, <1>t DEF handleFrame
    <3> QED
      BY Zenon, <1>t, <3>2, <3>3, <3>4
  <2>2. Add(p, f) /\ applied' = applied /\ height' = height
    BY Zenon, <1>2 DEF handleFrame
  <2> QED
    BY Zenon, <1>a, <1>g, <1>h, <1>t, <2>1, <2>2
<1>3. ASSUME NEW f \in Frames, HandleAccepted(f) PROVE Goal
  <2>1. proposal' \in [Frames -> Proposals] /\ proposal[f].peer \in Hosts
    BY Zenon, <1>3, <1>t DEF HandleAccepted, Proposals
  <2>2. applyAccepted(proposal[f].peer, f) /\ UNCHANGED <<blocks, votes>> /\ height' = height
    BY <1>3 DEF HandleAccepted
  <2> QED
    BY Zenon, <1>b, <1>g, <1>h, <1>p, <2>1, <2>2
<1>4. ASSUME NEW f \in Frames, HandleTimesOut(f) PROVE Goal
  <2>1. proposal' \in [Frames -> Proposals]
    BY Zenon, <1>4, <1>t DEF HandleTimesOut, Proposals
  <2>2. applied' = applied /\ UNCHANGED <<blocks, votes>> /\ height' = height
    BY <1>4 DEF HandleTimesOut
  <2> QED
    BY Zenon, <1>b, <1>g, <1>h, <1>t, <2>1, <2>2
<1>5. ASSUME NEW f \in Frames, ProposeAccepted(f) PROVE Goal
  <2>1. proposal' \in [Frames -> Proposals]
    BY ZenonT(30), <1>5, <1>t DEF ProposeAccepted, Proposals
  <2>2. /\ applyAccepted(FrameOwner(f), f) /\ UNCHANGED <<blocks, votes>> /\ height' = height
        /\ FrameOwner(f) \in Hosts
    BY <1>5, <1>o DEF ProposeAccepted
  <2> QED
    BY <1>b, <1>g, <1>h, <1>p, <2>1, <2>2
<1>6. ASSUME NEW f \in Frames, ProposeTimesOut(f) PROVE Goal
  <2>1. proposal' \in [Frames -> Proposals]
    BY Zenon, <1>6, <1>t DEF ProposeTimesOut, Proposals
  <2>2. applied' = applied /\ UNCHANGED <<blocks, votes>> /\ height' = height
    BY <1>6 DEF ProposeTimesOut
  <2> QED
    BY <1>b, <1>g, <1>h, <1>t, <2>1, <2>2
<1>7. ASSUME NEW f \in Frames, NEW n \in Hosts, NEW v \in Voters, handleVote(n, f, v) PROVE Goal
  <2>1. <<f, v>> \in Votes /\ votes' = [votes EXCEPT ![n] = @ \cup {<<f, v>>}]
    BY <1>7 DEF handleVote, Votes
  <2>2. height' = height /\ blocks' = blocks /\ applied' = applied /\ proposal' = proposal
    BY <1>7 DEF handleVote
  <2>3. blocks' \in [Hosts -> SUBSET Frames] /\ \A m \in Hosts : blocks[m] \subseteq blocks'[m]
    BY Zenon, <1>t, <2>2
  <2> QED
    BY Zenon, <1>v, <1>g, <1>h, <1>t, <2>1, <2>2, <2>3
<1> QED
  BY Zenon, <1>1, <1>2, <1>3, <1>4, <1>5, <1>6, <1>7 DEF ReplicationNext, Goal

(* A frame whose proposal stands still and that nobody applies in a step. *)
LEMMA FrameStands ==
  ASSUME ReplicationTypeOK, ReplicationNext, NEW f \in Frames, FrameHeld(f), proposal'[f] = proposal[f],
         \A n \in Hosts : Times(n, f)' = Times(n, f)
  PROVE  FrameHeld(f)'
<1>1. /\ ReplicationTypeOK'
      /\ \A n \in Hosts : blocks[n] \subseteq blocks'[n] /\ votes[n] \subseteq votes'[n] /\ height[n] <= height'[n]
  BY ReplicationTypes
<1>2. \A n \in Hosts : IsAccepted(n, f) => IsAccepted(n, f)'
  BY Zenon, <1>1, AcceptedStays DEF ReplicationTypeOK
<1>3. FrameOwner(f) \in Hosts
  BY Zenon, ReplicationAssumption
<1>4. proposal[f].seq <= height'[FrameOwner(f)]
  BY <1>1, <1>3 DEF FrameHeld, ReplicationTypeOK
<1>5. proposal[f].left \subseteq Hosts /\ proposal[f].peer \in Hosts
  BY DEF ReplicationTypeOK
<1> QED
  BY <1>2, <1>3, <1>4, <1>5 DEF FrameHeld

(* Frames of one node have different sequence numbers. *)
SeqsDiffer ==
  \A f, g \in Frames : f # g /\ FrameOwner(f) = FrameOwner(g) /\ proposal[f].seq > 0
    => proposal[f].seq # proposal[g].seq

(* The invariant, frame by frame. *)
LEMMA DecidedByFrame ==
  ASSUME ReplicationTypeOK
  PROVE  ReplicationInv <=> (\A f \in Frames : FrameHeld(f)) /\ SeqsDiffer
<1>1. \A f \in Frames : FrameOwner(f) \in Hosts
  BY Zenon, ReplicationAssumption
<1>2. (\A f \in Frames : FrameHeld(f)) /\ SeqsDiffer => AppliedAsDecided
  BY <1>1 DEF FrameHeld, SeqsDiffer, AppliedAsDecided
<1>3. AppliedAsDecided => SeqsDiffer
  BY DEF SeqsDiffer, AppliedAsDecided
<1> QED
  BY <1>2, <1>3 DEF ReplicationInv

(* The frame a step is about, given what the step does to its proposal and to the
   frames applied. *)
LEMMA ReplicationSteps ==
  ASSUME ReplicationInv, ReplicationNext
  PROVE  (\A f \in Frames : FrameHeld(f)') /\ SeqsDiffer'
<1> DEFINE Goal == (\A f \in Frames : FrameHeld(f)') /\ SeqsDiffer'
<1>t. ReplicationTypeOK /\ (\A f \in Frames : FrameHeld(f)) /\ SeqsDiffer
  BY Zenon, DecidedByFrame DEF ReplicationInv
<1>o. \A f \in Frames : FrameOwner(f) \in Hosts
  BY ReplicationAssumption
<1>n. /\ ReplicationTypeOK'
      /\ \A n \in Hosts : blocks[n] \subseteq blocks'[n] /\ votes[n] \subseteq votes'[n] /\ height[n] <= height'[n]
  BY <1>t, ReplicationTypes
<1>a. \A n \in Hosts, f \in Frames : IsAccepted(n, f) => IsAccepted(n, f)'
  BY Zenon, <1>n, AcceptedStays DEF ReplicationTypeOK
<1>p. /\ proposal \in [Frames -> [pc : {"idle", "cast", "handle", "accept", "timeout"}, peer : Hosts,
                                  left : SUBSET Hosts, seq : Nat]]
      /\ height \in [Hosts -> Nat] /\ height' \in [Hosts -> Nat]
      /\ \A n \in Hosts, f \in Frames : Times(n, f) \in Nat
  BY Zenon, <1>t, <1>n, TimesType DEF ReplicationTypeOK
<1>u. applied' = applied => \A n \in Hosts, f \in Frames : Times(n, f)' = Times(n, f)
  BY DEF Times
<1>s. (\A f \in Frames : proposal'[f].seq = proposal[f].seq) => SeqsDiffer'
  BY <1>t DEF SeqsDiffer
<1>f. ASSUME NEW f \in Frames, FrameHeld(f)', SeqsDiffer',
             \A g \in Frames : g # f => proposal'[g] = proposal[g] /\ \A n \in Hosts : Times(n, g)' = Times(n, g)
      PROVE  Goal
  BY Zenon, <1>f, <1>t, FrameStands
<1> HIDE DEF Goal
<1>1. ASSUME NEW f \in Frames, Propose(f) PROVE Goal
  <2> DEFINE o == FrameOwner(f)
  <2>1. /\ proposal[f].pc = "idle" /\ proposal'[f].pc = "cast" /\ proposal'[f].left = Hosts \ {o}
        /\ proposal'[f].seq = height[o] + 1 /\ height'[o] = height[o] + 1 /\ o \in Hosts
        /\ \A g \in Frames : g # f => proposal'[g] = proposal[g]
    BY Zenon, <1>1, <1>o, <1>p DEF Propose, Broadcast
  <2>2. \A n \in Hosts, g \in Frames : Times(n, g)' = Times(n, g)
    BY Zenon, <1>1, <1>u DEF Propose
  <2>3. \A n \in Hosts : Times(n, f) = 0
    BY Zenon, <1>t, <2>1 DEF FrameHeld
  <2>4. FrameHeld(f)'
    BY <1>o, <1>p, <2>1, <2>2, <2>3 DEF FrameHeld
  <2>5. SeqsDiffer'
    <3>1. \A g \in Frames : FrameOwner(g) = o => proposal[g].seq <= height[o]
      BY Zenon, <1>t DEF FrameHeld
    <3>2. \A g \in Frames : proposal[g].seq \in Nat /\ height[o] \in Nat
      BY <1>p, <2>1
    <3>3. ASSUME NEW g \in Frames, NEW h \in Frames, g # h, FrameOwner(g) = FrameOwner(h), proposal'[g].seq > 0
          PROVE  proposal'[g].seq # proposal'[h].seq
      <4>1. CASE g = f
        BY <2>1, <3>1, <3>2, <3>3, <4>1
      <4>2. CASE h = f
        BY <2>1, <3>1, <3>2, <3>3, <4>2
      <4>3. CASE g # f /\ h # f
        BY Zenon, <1>t, <2>1, <3>3, <4>3 DEF SeqsDiffer
      <4> QED
        BY Zenon, <4>1, <4>2, <4>3
    <3> QED
      BY Zenon, <3>3 DEF SeqsDiffer
  <2> QED
    BY Zenon, <1>f, <2>1, <2>2, <2>4, <2>5
<1>2. ASSUME NEW f \in Frames, NEW p \in Hosts, handleFrame(f, p) PROVE Goal
  <2>1. /\ proposal[f].pc = "cast" /\ p \in proposal[f].left
        /\ proposal'[f].pc = "handle" /\ proposal'[f].peer = p /\ proposal'[f].left = proposal[f].left \ {p}
        /\ proposal'[f].seq = proposal[f].seq
        /\ \A g \in Frames : g # f => proposal'[g] = proposal[g]
    BY <1>2, <1>p DEF handleFrame
  <2>2. \A n \in Hosts, g \in Frames : Times(n, g)' = Times(n, g)
    BY Zenon, <1>2, <1>u DEF handleFrame
  <2>3. FrameHeld(f)'
    <3>1. FrameHeld(f) /\ FrameOwner(f) \in Hosts /\ height' = height
      BY Zenon, <1>2, <1>t, <1>o DEF handleFrame
    <3> QED
      BY <1>a, <1>p, <2>1, <2>2, <3>1 DEF FrameHeld
  <2> QED
    BY Zenon, <1>f, <1>s, <2>1, <2>2, <2>3
<1>3. ASSUME NEW f \in Frames, HandleAccepted(f) PROVE Goal
  <2>0. PICK p \in Hosts : p = proposal[f].peer
    BY Zenon, <1>p
  <2>1. /\ proposal[f].pc = "handle" /\ IsAccepted(p, f) /\ applyAccepted(p, f)
        /\ proposal'[f].pc = "cast" /\ proposal'[f].left = proposal[f].left
        /\ proposal'[f].seq = proposal[f].seq /\ height' = height
        /\ \A g \in Frames : g # f => proposal'[g] = proposal[g]
    BY Zenon, <1>3, <1>p, <2>0 DEF HandleAccepted
  <2>2. \A n \in Hosts, g \in Frames :
          Times(n, g)' = (IF n = p /\ g = f THEN Times(n, g) + 1 ELSE Times(n, g))
    BY ZenonT(30), <1>t, <2>1, TimesApplied
  <2>3. FrameHeld(f)'
    <3>1. FrameHeld(f) /\ FrameOwner(f) \in Hosts /\ IsAccepted(p, f)'
      BY ZenonT(30), <1>a, <1>t, <1>o, <2>1
    <3>2. Times(p, f)' = 1 /\ p # FrameOwner(f) /\ p \notin proposal[f].left
      BY <2>0, <2>1, <2>2, <3>1 DEF FrameHeld
    <3>3. \A n \in Hosts : n # p => Times(n, f)' = Times(n, f)
      BY Zenon, <2>2
    <3> QED
      BY <1>a, <1>p, <2>1, <3>1, <3>2, <3>3 DEF FrameHeld
  <2>4. SeqsDiffer'
    BY Zenon, <1>s, <2>1
  <2> QED
    BY Zenon, <1>f, <2>1, <2>2, <2>3, <2>4
<1>4. ASSUME NEW f \in Frames, HandleTimesOut(f) \/ ProposeTimesOut(f) PROVE Goal
  <2>1. /\ proposal[f].pc \in {"handle", "cast"} /\ proposal'[f].left = proposal[f].left
        /\ proposal'[f].pc \in {"cast", "timeout"} /\ proposal'[f].seq = proposal[f].seq /\ height' = height
        /\ \A g \in Frames : g # f => proposal'[g] = proposal[g]
    BY <1>4, <1>p DEF HandleTimesOut, ProposeTimesOut
  <2>2. \A n \in Hosts, g \in Frames : Times(n, g)' = Times(n, g)
    BY Zenon, <1>4, <1>u DEF HandleTimesOut, ProposeTimesOut
  <2>3. FrameHeld(f)'
    <3>1. FrameHeld(f) /\ FrameOwner(f) \in Hosts
      BY Zenon, <1>t, <1>o
    <3> QED
      BY <1>a, <1>p, <2>1, <2>2, <3>1 DEF FrameHeld
  <2>4. SeqsDiffer'
    BY Zenon, <1>s, <2>1
  <2> QED
    BY Zenon, <1>f, <2>1, <2>2, <2>3, <2>4
<1>5. ASSUME NEW f \in Frames, ProposeAccepted(f) PROVE Goal
  <2> DEFINE o == FrameOwner(f)
  <2>1. /\ proposal[f].pc = "cast" /\ proposal[f].left = {} /\ o \in Hosts /\ IsAccepted(o, f)
        /\ applyAccepted(o, f) /\ proposal'[f].pc = "accept" /\ proposal'[f].left = {}
        /\ proposal'[f].seq = proposal[f].seq /\ height' = height
        /\ \A g \in Frames : g # f => proposal'[g] = proposal[g]
    BY Zenon, <1>5, <1>p, <1>o DEF ProposeAccepted
  <2>2. \A n \in Hosts, g \in Frames :
          Times(n, g)' = (IF n = o /\ g = f THEN Times(n, g) + 1 ELSE Times(n, g))
    BY ZenonT(30), <1>t, <2>1, TimesApplied
  <2>3. FrameHeld(f)'
    <3>1. FrameHeld(f) /\ IsAccepted(o, f)'
      BY ZenonT(30), <1>a, <1>t, <2>1
    <3>2. Times(o, f)' = 1
      BY <2>1, <2>2, <3>1 DEF FrameHeld
    <3>3. \A n \in Hosts : n # o => Times(n, f)' = Times(n, f)
      BY Zenon, <2>2
    <3> QED
      BY <1>a, <1>p, <2>1, <3>1, <3>2, <3>3 DEF FrameHeld
  <2>4. SeqsDiffer'
    BY Zenon, <1>s, <2>1
  <2> QED
    BY Zenon, <1>f, <2>1, <2>2, <2>3, <2>4
<1>6. ASSUME NEW f \in Frames, NEW n \in Hosts, NEW v \in Voters, handleVote(n, f, v) PROVE Goal
  <2>1. proposal' = proposal /\ \A m \in Hosts, g \in Frames : Times(m, g)' = Times(m, g)
    BY <1>6, <1>u DEF handleVote
  <2>2. FrameHeld(f)'
    BY <1>t, <2>1, FrameStands
  <2> QED
    BY Zenon, <1>f, <1>s, <2>1, <2>2
<1> QED
  BY Zenon, <1>1, <1>2, <1>3, <1>4, <1>5, <1>6 DEF ReplicationNext, Goal

(* The inductive invariant of the replicator. *)
THEOREM ReplicationInvariant == ReplicationSpec => []ReplicationInv
<1>1. ReplicationInit => ReplicationInv
  <2> SUFFICES ASSUME ReplicationInit PROVE ReplicationInv
    BY Zenon
  <2>o. \A f \in Frames : FrameOwner(f) \in Hosts
    BY ReplicationAssumption
  <2>1. ReplicationTypeOK
    BY <2>o, FS_EmptySet DEF ReplicationInit, ReplicationTypeOK
  <2>2. \A n \in Hosts, f \in Frames : Times(n, f) = 0
    <3> SUFFICES ASSUME NEW n \in Hosts, NEW f \in Frames PROVE Times(n, f) = 0
      BY Zenon
    <3>1. Occurs(applied[n], f) = {}
      BY DEF ReplicationInit, Occurs
    <3> QED
      BY Zenon, <2>1, <3>1, TimesType, FS_EmptySet
  <2>3. \A f \in Frames : FrameHeld(f)
    BY <2>o, <2>2 DEF ReplicationInit, FrameHeld
  <2>4. SeqsDiffer
    BY DEF ReplicationInit, SeqsDiffer
  <2> QED
    BY <2>1, <2>3, <2>4, DecidedByFrame
<1>2. ReplicationInv /\ [ReplicationNext]_replVars => ReplicationInv'
  <2> SUFFICES ASSUME ReplicationInv, [ReplicationNext]_replVars PROVE ReplicationInv'
    OBVIOUS
  <2>1. CASE ReplicationNext
    <3>1. ReplicationTypeOK'
      BY <2>1, ReplicationTypes DEF ReplicationInv
    <3>2. (\A f \in Frames : FrameHeld(f)') /\ SeqsDiffer'
      BY Zenon, <2>1, ReplicationSteps
    <3>3. AppliedAsDecided'
      <4>1. \A f \in Frames : FrameOwner(f) \in Hosts
        BY ReplicationAssumption
      <4> QED
        BY <3>2, <4>1 DEF FrameHeld, SeqsDiffer, AppliedAsDecided
    <3> QED
      BY Zenon, <3>1, <3>2, <3>3 DEF ReplicationInv
  <2>2. CASE UNCHANGED replVars
    <3>1. ReplicationTypeOK'
      BY Zenon, <2>2 DEF replVars, ReplicationInv, ReplicationTypeOK
    <3>t. \A n \in Hosts, f \in Frames : Times(n, f)' = Times(n, f) /\ (IsAccepted(n, f)' <=> IsAccepted(n, f))
      BY Zenon, <2>2 DEF replVars, Times, IsAccepted
    <3>o. \A f \in Frames : FrameOwner(f) \in Hosts /\ proposal[f].peer \in Hosts /\ proposal[f].left \subseteq Hosts
      BY Zenon, ReplicationAssumption DEF ReplicationInv, ReplicationTypeOK
    <3>2. \A f \in Frames : FrameHeld(f)'
      BY <2>2, <3>t, <3>o DEF replVars, ReplicationInv, FrameHeld
    <3>3. AppliedAsDecided'
      BY <2>2, <3>t, <3>o DEF replVars, ReplicationInv, AppliedAsDecided
    <3> QED
      BY Zenon, <3>1, <3>2, <3>3 DEF ReplicationInv
  <2> QED
    BY <2>1, <2>2
<1> QED
  BY <1>1, <1>2, PTL DEF ReplicationSpec

(* A frame is applied once at most, only where it was accepted, and Propose tells its
   caller what its own node did. *)
THEOREM DecisionsApplied == ReplicationSpec => []AppliedAsDecided
BY ReplicationInvariant, PTL DEF ReplicationInv

-----------------------------------------------------------------------------
(* The walk of the purge. *)
-----------------------------------------------------------------------------

(* The parts of a key, and that they determine it (runPrefixes; the order of keys). *)
LEMMA KeyParts ==
  ASSUME NEW k \in RowKeys
  PROVE  k[1] \in {1, 2} /\ k[1] \in Nat /\ k[2] \in Nat /\ k[2] > 0 /\ k = <<k[1], k[2]>>
<1>1. k[1] \in 1..2 /\ k[2] \in Places /\ k = <<k[1], k[2]>>
  BY DEF RowKeys, Prefixes
<1> QED
  BY <1>1, PurgeAssumption

(* A walk starts before every key (the cursor ""). *)
LEMMA StartIsFirst ==
  ASSUME NEW k \in RowKeys
  PROVE  Beyond(WalkStart, k)
BY KeyParts DEF Beyond, WalkStart

(* A page has finitely many rows (Shard.Scan). *)
LEMMA PageIsFinite ==
  ASSUME NEW at, NEW read \in SUBSET RowsAfter(at)
  PROVE  Cardinality(read) \in Nat
<1>1. IsFiniteSet(Prefixes)
  <2>1. 1 \in Int /\ 2 \in Int
    OBVIOUS
  <2>2. IsFiniteSet(1..2)
    BY <2>1, FS_Interval, Zenon
  <2> QED
    BY <2>2 DEF Prefixes
<1>2. IsFiniteSet(RowKeys)
  BY Zenon, <1>1, FS_Product, PurgeAssumption DEF RowKeys
<1>3. read \subseteq RowKeys
  BY DEF RowsAfter
<1>4. IsFiniteSet(read)
  BY <1>2, <1>3, FS_Subset
<1> QED
  BY <1>4, FS_CardinalityType

-----------------------------------------------------------------------------
(* Initially there is no pass and nothing was owed (the first purgeOnce). *)
LEMMA WalkInit == PurgeInit => WalkInv
<1> SUFFICES ASSUME PurgeInit PROVE WalkInv
  OBVIOUS
<1>1. ahist \subseteq RowKeys /\ \A k \in ahist : k[1] = 2 /\ rows[k] # "none"
  BY DEF PurgeInit
<1>2. WalkStart \in Prefixes \X Nat
  BY DEF WalkStart, Prefixes
<1>3. PurgeTypeOK
  BY <1>1, <1>2 DEF PurgeInit, PurgeTypeOK, NoPass
<1>4. PassInv
  BY Zenon, <1>1 DEF PurgeInit, PassInv, NoPass
<1>5. WalkPurges
  BY Zenon, <1>1 DEF PurgeInit, WalkPurges, NoPass
<1>6. AheadInv
  BY DEF PurgeInit, AheadInv
<1> QED
  BY Zenon, <1>3, <1>4, <1>5, <1>6 DEF WalkInv

-----------------------------------------------------------------------------
(* The engine's steps: a run that starts or expires is no target of the walk in
   progress, so the pass still meets every target. *)
LEMMA EngineKeepsInv ==
  ASSUME WalkInv, NEW k \in RowKeys, RunStarts(k) \/ RunExpires(k)
  PROVE  WalkInv'
<1> USE DEF WalkInv
<1>1. CASE RunStarts(k)
  <2>1. PurgeTypeOK'
    BY Zenon, <1>1 DEF PurgeTypeOK, RunStarts
  <2>2. \A j \in RowKeys : j # k => rows'[j] = rows[j]
    BY Zenon, <1>1 DEF RunStarts, PurgeTypeOK
  <2>3. rows'[k] = "kept" /\ k \notin target
    BY Zenon, <1>1 DEF RunStarts, PurgeTypeOK
  <2>4. PassInv'
    BY Zenon, <1>1, <2>2, <2>3 DEF RunStarts, PassInv, PurgeTypeOK
  <2>5. WalkPurges'
    BY Zenon, <1>1, <2>2, <2>3 DEF RunStarts, WalkPurges, Remains, PurgeTypeOK
  <2>6. AheadInv'
    BY Zenon, <1>1, <2>2, <2>3 DEF RunStarts, AheadInv, Remains, Beyond, Exhausted, PurgeTypeOK
  <2> QED
    BY Zenon, <2>1, <2>4, <2>5, <2>6
<1>2. CASE RunExpires(k)
  <2>1. PurgeTypeOK'
    BY Zenon, <1>2 DEF PurgeTypeOK, RunExpires
  <2>2. \A j \in RowKeys : j # k => rows'[j] = rows[j]
    BY Zenon, <1>2 DEF RunExpires, PurgeTypeOK
  <2>3. rows'[k] = "expired" /\ k \notin target
    BY Zenon, <1>2 DEF RunExpires, PurgeTypeOK, PassInv
  <2>4. PassInv'
    BY Zenon, <1>2, <2>2, <2>3 DEF RunExpires, PassInv, PurgeTypeOK
  <2>5. WalkPurges'
    BY Zenon, <1>2, <2>2, <2>3 DEF RunExpires, WalkPurges, Remains, PurgeTypeOK
  <2>6. AheadInv'
    BY Zenon, <1>2, <2>2, <2>3 DEF RunExpires, AheadInv, Remains, Beyond, Exhausted, PurgeTypeOK
  <2> QED
    BY <2>1, <2>4, <2>5, <2>6
<1> QED
  BY Zenon, <1>1, <1>2

(* A pass begins: at the start of a walk its targets are the rows that are expired,
   and in the middle of one they are among the rows due (purgeOnce). *)
LEMMA BeginKeepsInv ==
  ASSUME WalkInv, purgeOnce
  PROVE  WalkInv'
<1> USE DEF WalkInv
<1>1. pass' = [pc |-> "page", at |-> cursor, left |-> Limit, due |-> DueNow, todo |-> {}, walked |-> FALSE]
  BY Zenon DEF purgeOnce, NoPass
<1>2. DueNow \subseteq RowKeys
  BY DEF DueNow
<1>3. /\ rows' = rows /\ ahist' = ahist /\ cursor' = cursor /\ cuts' = cuts
      /\ target' \in {target, DueNow} /\ passedOver' \in {passedOver, {}}
  BY Zenon DEF purgeOnce
<1>4. PurgeTypeOK'
  <2>1. pass' \in [pc : {"rest", "page", "purge", "save"}, at : Prefixes \X Nat, left : Int,
                  due : SUBSET RowKeys, todo : SUBSET RowKeys, walked : BOOLEAN]
    BY <1>1, <1>2, PurgeAssumption DEF PurgeTypeOK
  <2> QED
    BY Zenon, <1>2, <1>3, <2>1 DEF PurgeTypeOK
<1>5. PassInv' /\ WalkPurges'
  <2>1. \A k \in DueNow : rows[k] # "kept"
    BY Zenon DEF DueNow
  <2>2. pass'.pc = "page" /\ pass'.todo = {} /\ ~pass'.walked
    BY Zenon, <1>1
  <2> QED
    BY Zenon, <1>3, <2>1, <2>2 DEF PassInv, WalkPurges
<1>6. ASSUME NEW k \in target', Remains(k)'
      PROVE  k \in DueNow /\ Beyond(cursor, k)
  <2>1. k \in RowKeys
    BY <1>4 DEF PurgeTypeOK
  <2>2. k \in DueNow
    BY <1>6, <2>1 DEF Remains, DueNow, purgeOnce
  <2>3. CASE cursor = WalkStart
    BY ZenonT(30), <2>1, <2>2, <2>3, StartIsFirst
  <2>4. CASE cursor # WalkStart
    <3>1. k \in target /\ Remains(k)
      BY <1>6, <2>4 DEF purgeOnce, Remains
    <3> QED
      BY <2>2, <3>1 DEF AheadInv
  <2> QED
    BY Zenon, <2>3, <2>4
<1>7. AheadInv'
  BY <1>1, <1>6 DEF AheadInv, purgeOnce, Beyond
<1> QED
  BY <1>4, <1>5, <1>7

(* A page is read: a target it passes is on it, and one that is not full passes
   every target of its prefix (page, Scan). *)
LEMMA PageKeepsInv ==
  ASSUME WalkInv, page
  PROVE  WalkInv'
<1> USE DEF WalkInv
<1>1. PICK read \in SUBSET RowsAfter(pass.at), last \in RowKeys \cup {pass.at} :
        /\ IsScan(read, pass.at, pass.left) /\ IsLast(last, read, pass.at)
        /\ pass' = [pass EXCEPT !.pc = "purge", !.todo = read \cap pass.due,
                      !.at = last, !.left = @ - Cardinality(read)]
  BY Zenon DEF page
<1>2. /\ pass.pc = "page" /\ pass.todo = {} /\ ~pass.walked
      /\ rows' = rows /\ ahist' = ahist /\ cursor' = cursor /\ target' = target
      /\ passedOver' = passedOver /\ cuts' = cuts
  BY DEF page, PassInv, PurgeTypeOK
<1>3. /\ pass'.pc = "purge" /\ pass'.todo = read \cap pass.due /\ pass'.at = last
      /\ pass'.left = pass.left - Cardinality(read)
      /\ pass'.due = pass.due /\ pass'.walked = pass.walked
  BY <1>1 DEF PurgeTypeOK
<1>4. last \in Prefixes \X Nat /\ last[1] = pass.at[1]
  <2>1. pass.at \in Prefixes \X Nat /\ RowKeys \subseteq Prefixes \X Nat
    BY Zenon, PurgeAssumption DEF PurgeTypeOK, RowKeys
  <2>2. read # {} => last \in RowsAfter(pass.at)
    BY Zenon, <1>1 DEF IsLast
  <2> QED
    BY <1>1, <2>1, <2>2 DEF IsLast, RowsAfter
<1>5. Cardinality(read) \in Nat
  BY Zenon, PageIsFinite
<1>6. PurgeTypeOK'
  <2>1. read \cap pass.due \in SUBSET RowKeys /\ pass.left - Cardinality(read) \in Int
    BY <1>5 DEF PurgeTypeOK
  <2>2. pass' \in [pc : {"rest", "page", "purge", "save"}, at : Prefixes \X Nat, left : Int,
                  due : SUBSET RowKeys, todo : SUBSET RowKeys, walked : BOOLEAN]
    BY Zenon, <1>1, <1>4, <2>1 DEF PurgeTypeOK
  <2> QED
    BY Zenon, <1>2, <2>2 DEF PurgeTypeOK
<1>7. PassInv'
  BY Zenon, <1>2, <1>3 DEF PassInv
<1>8. WalkPurges'
  BY Zenon, <1>2, <1>3 DEF WalkPurges
<1>9. ASSUME NEW k \in target, Remains(k)
      PROVE  /\ Beyond(last, k) \/ k \in read
             /\ Exhausted(pass'.left) /\ Beyond(last, k) => k[1] > last[1]
  <2>1. k \in RowKeys /\ Beyond(pass.at, k) /\ rows[k] # "none"
    BY Zenon, <1>2, <1>9 DEF AheadInv, Remains, PurgeTypeOK
  <2>2. CASE k[1] > pass.at[1]
    BY Zenon, <1>4, <2>2 DEF Beyond
  <2>3. CASE k[1] = pass.at[1] /\ k[2] > pass.at[2]
    <3>1. k \in RowsAfter(pass.at)
      BY Zenon, <2>1, <2>3 DEF RowsAfter
    <3>2. k \notin read => k[2] > last[2]
      <4>1. CASE read = {}
        BY Zenon, <1>1, <2>3, <4>1 DEF IsLast
      <4>2. CASE read # {}
        <5>1. last \in read /\ last \in RowKeys
          BY <1>1, <4>2 DEF IsLast, RowsAfter
        <5>2. k[2] < last[2] => k \in read
          BY Zenon, <1>1, <3>1, <5>1 DEF IsScan
        <5>3. k[2] = last[2] => k = last
          BY Zenon, <1>4, <2>1, <2>3, <5>1, KeyParts
        <5> QED
          BY <2>1, <5>1, <5>2, <5>3, KeyParts
      <4> QED
        BY Zenon, <4>1, <4>2
    <3>3. Exhausted(pass'.left) => k \in read
      BY <1>1, <1>3, <3>1 DEF IsScan, Exhausted, PurgeTypeOK
    <3>4. k \in read => ~Beyond(last, k)
      <4>1. ASSUME k \in read PROVE k[2] <= last[2] /\ last \in RowKeys
        BY Zenon, <1>1, <4>1 DEF IsLast, RowsAfter
      <4> QED
        BY <1>4, <2>1, <2>3, <4>1, KeyParts DEF Beyond
    <3> QED
      BY Zenon, <1>4, <2>3, <3>2, <3>3, <3>4 DEF Beyond
  <2> QED
    BY Zenon, <2>1, <2>2, <2>3 DEF Beyond
<1>10. AheadInv'
  <2> SUFFICES ASSUME NEW k \in target, Remains(k)
               PROVE  /\ Beyond(cursor, k) /\ k \in pass.due
                      /\ Beyond(last, k) \/ k \in read \cap pass.due
                      /\ Exhausted(pass'.left) /\ Beyond(last, k) => k[1] > last[1]
    BY Zenon, <1>2, <1>3 DEF AheadInv, Remains, Beyond, Exhausted
  <2>1. Beyond(cursor, k) /\ k \in pass.due
    BY Zenon, <1>2 DEF AheadInv
  <2> QED
    BY Zenon, <1>9, <2>1
<1> QED
  BY Zenon, <1>6, <1>7, <1>8, <1>10

(* The runs of a page go, or are passed over: what leaves the page does not remain
   (purgeWorkflowRun, purgeActivityRun). *)
LEMMA RunsKeepInv ==
  ASSUME WalkInv, NEW k \in RowKeys, purgeWorkflow(k) \/ purgeActivityRun(k) \/ PassOver(k)
  PROVE  WalkInv'
<1> USE DEF WalkInv
<1>1. pass.pc = "purge" /\ k \in pass.todo /\ ~pass.walked
  BY DEF purgeWorkflow, purgeActivityRun, PassOver, IsNextDue, PassInv
<1>2. CASE ahist' = ahist \ {k} /\ UNCHANGED <<rows, pass, cursor, target, passedOver, cuts>>
  <2>1. PurgeTypeOK'
    BY Zenon, <1>2 DEF PurgeTypeOK
  <2>2. PassInv' /\ WalkPurges' /\ AheadInv'
    BY Zenon, <1>2 DEF PassInv, WalkPurges, AheadInv, Remains, Beyond, Exhausted
  <2> QED
    BY Zenon, <2>1, <2>2
<1>3. CASE /\ rows' = [rows EXCEPT ![k] = "none"] /\ pass' = [pass EXCEPT !.todo = @ \ {k}]
           /\ k \notin ahist' /\ ahist' \subseteq ahist
           /\ UNCHANGED <<cursor, target, passedOver, cuts>>
  <2>1. PurgeTypeOK'
    BY <1>3 DEF PurgeTypeOK
  <2>2. \A j \in RowKeys : j # k => rows'[j] = rows[j]
    BY Zenon, <1>3 DEF PurgeTypeOK
  <2>3. rows'[k] = "none"
    BY <1>3 DEF PurgeTypeOK
  <2>4. /\ pass'.pc = pass.pc /\ pass'.at = pass.at /\ pass'.left = pass.left
        /\ pass'.due = pass.due /\ pass'.todo = pass.todo \ {k} /\ pass'.walked = pass.walked
    BY <1>3 DEF PurgeTypeOK
  <2>5. PassInv'
    BY Zenon, <1>1, <1>3, <2>2, <2>3, <2>4 DEF PassInv, PurgeTypeOK
  <2>6. WalkPurges'
    BY Zenon, <1>1, <1>3, <2>2, <2>3, <2>4 DEF WalkPurges, PurgeTypeOK
  <2>7. AheadInv'
    BY <1>3, <2>2, <2>3, <2>4 DEF AheadInv, Remains, Beyond, Exhausted, PurgeTypeOK
  <2> QED
    BY Zenon, <2>1, <2>5, <2>6, <2>7
<1>4. CASE PassOver(k)
  <2>1. PurgeTypeOK'
    BY <1>4 DEF PassOver, PurgeTypeOK
  <2>2. /\ pass'.pc = pass.pc /\ pass'.at = pass.at /\ pass'.left = pass.left
        /\ pass'.due = pass.due /\ pass'.todo = pass.todo \ {k} /\ pass'.walked = pass.walked
    BY <1>4 DEF PassOver, PurgeTypeOK
  <2>3. PassInv'
    BY Zenon, <1>1, <1>4, <2>2 DEF PassInv, PassOver
  <2>4. WalkPurges'
    BY Zenon, <1>1, <1>4, <2>2 DEF WalkPurges, PassOver
  <2>5. AheadInv'
    BY <1>4, <2>2 DEF AheadInv, Remains, Beyond, Exhausted, PassOver
  <2> QED
    BY <2>1, <2>3, <2>4, <2>5
<1>5. k[1] = 1 => k \notin ahist
  BY DEF PassInv
<1>6. purgeWorkflow(k) \/ purgeActivityRun(k) =>
        \/ ahist' = ahist \ {k} /\ UNCHANGED <<rows, pass, cursor, target, passedOver, cuts>>
        \/ /\ rows' = [rows EXCEPT ![k] = "none"] /\ pass' = [pass EXCEPT !.todo = @ \ {k}]
           /\ k \notin ahist' /\ ahist' \subseteq ahist
           /\ UNCHANGED <<cursor, target, passedOver, cuts>>
  BY <1>5 DEF purgeWorkflow, purgeActivityRun
<1> QED
  BY Zenon, <1>2, <1>3, <1>4, <1>6

(* A page is done: the last page of the last prefix leaves no target (purge). *)
LEMMA PageDoneKeepsInv ==
  ASSUME WalkInv, PageDone
  PROVE  WalkInv'
<1> USE DEF WalkInv
<1>1. /\ pass.pc = "purge" /\ pass.todo = {} /\ ~pass.walked
      /\ rows' = rows /\ ahist' = ahist /\ cursor' = cursor /\ target' = target
      /\ passedOver' = passedOver /\ cuts' = cuts
  BY Zenon DEF PageDone, PassInv
<1>2. \A k \in target : Remains(k) =>
        /\ k \in RowKeys /\ Beyond(cursor, k) /\ k \in pass.due /\ Beyond(pass.at, k)
        /\ Exhausted(pass.left) => k[1] > pass.at[1]
  BY Zenon, <1>1 DEF AheadInv, PurgeTypeOK
<1>3. CASE pass' = [pass EXCEPT !.pc = "save"]
  <2>1. PurgeTypeOK'
    BY Zenon, <1>1, <1>3 DEF PurgeTypeOK
  <2>2. /\ pass'.pc = "save" /\ pass'.at = pass.at /\ pass'.due = pass.due
        /\ pass'.todo = pass.todo /\ pass'.walked = pass.walked
    BY Zenon, <1>3 DEF PurgeTypeOK
  <2>3. PassInv' /\ WalkPurges'
    BY Zenon, <1>1, <2>2 DEF PassInv, WalkPurges
  <2>4. AheadInv'
    BY Zenon, <1>1, <1>2, <2>2 DEF AheadInv, Remains, Beyond
  <2> QED
    BY <2>1, <2>3, <2>4
<1>4. CASE Exhausted(pass.left) /\ pass.at[1] = 1
           /\ pass' = [pass EXCEPT !.pc = "page", !.at = <<2, 0>>]
  <2>1. <<2, 0>> \in Prefixes \X Nat
    BY DEF Prefixes
  <2>2. PurgeTypeOK'
    BY Zenon, <1>1, <1>4, <2>1 DEF PurgeTypeOK
  <2>3. /\ pass'.pc = "page" /\ pass'.at = <<2, 0>> /\ pass'.due = pass.due
        /\ pass'.todo = pass.todo /\ pass'.walked = pass.walked
    BY Zenon, <1>4 DEF PurgeTypeOK
  <2>4. PassInv' /\ WalkPurges'
    BY Zenon, <1>1, <2>3 DEF PassInv, WalkPurges
  <2>5. \A k \in target : Remains(k) => Beyond(<<2, 0>>, k)
    BY <1>2, <1>4, KeyParts DEF Beyond
  <2>6. AheadInv'
    BY <1>1, <1>2, <2>3, <2>5 DEF AheadInv, Remains, Beyond
  <2> QED
    BY <2>2, <2>4, <2>6
<1>5. CASE Exhausted(pass.left) /\ pass.at[1] = 2
           /\ pass' = [pass EXCEPT !.pc = "save", !.at = WalkStart, !.walked = TRUE]
  <2>1. WalkStart \in Prefixes \X Nat
    BY DEF Prefixes, WalkStart
  <2>2. PurgeTypeOK'
    BY Zenon, <1>1, <1>5, <2>1 DEF PurgeTypeOK
  <2>3. pass'.pc = "save" /\ pass'.todo = pass.todo /\ pass'.walked
    BY <1>5 DEF PurgeTypeOK
  <2>4. \A k \in target : ~Remains(k)
    BY <1>2, <1>5, KeyParts
  <2>5. PassInv'
    BY Zenon, <1>1, <2>3 DEF PassInv
  <2>6. WalkPurges' /\ AheadInv'
    BY Zenon, <1>1, <2>4 DEF WalkPurges, AheadInv, Remains
  <2> QED
    BY <2>2, <2>5, <2>6
<1> QED
  BY Zenon, <1>3, <1>4, <1>5 DEF PageDone

(* The end of a pass, with its cursor saved or without (SaveCursor, PassCut). *)
LEMMA EndKeepsInv ==
  ASSUME WalkInv, SaveCursor \/ PassCut
  PROVE  WalkInv'
<1> USE DEF WalkInv
<1>1. /\ pass' = [pc |-> "rest", at |-> WalkStart, left |-> 0, due |-> {}, todo |-> {}, walked |-> FALSE]
      /\ rows' = rows /\ ahist' = ahist /\ target' = target /\ passedOver' = passedOver
  BY Zenon DEF SaveCursor, PassCut, NoPass
<1>2. WalkStart \in Prefixes \X Nat
  BY DEF Prefixes, WalkStart
<1>3. PurgeTypeOK'
  BY <1>1, <1>2 DEF PurgeTypeOK, SaveCursor, PassCut
<1>4. PassInv' /\ WalkPurges'
  BY Zenon, <1>1 DEF PassInv, WalkPurges
<1>5. ASSUME NEW k \in target, Remains(k)
      PROVE  Beyond(cursor', k)
  <2>1. k \in RowKeys /\ Beyond(cursor, k)
    BY <1>5 DEF AheadInv, PurgeTypeOK
  <2>2. CASE PassCut
    BY Zenon, <2>1, <2>2 DEF PassCut
  <2>3. CASE SaveCursor
    <3>1. Beyond(pass.at, k)
      BY Zenon, <1>5, <2>3 DEF SaveCursor, AheadInv, PassInv, WalkPurges
    <3> QED
      BY Zenon, <2>1, <2>3, <3>1, StartIsFirst DEF SaveCursor
  <2> QED
    BY <2>2, <2>3
<1>6. AheadInv'
  BY Zenon, <1>1, <1>5 DEF AheadInv, Remains, Beyond
<1> QED
  BY Zenon, <1>3, <1>4, <1>6

-----------------------------------------------------------------------------
(* The inductive invariant of the walk holds in every state: a target that remains
   is ahead of the cursor and of the pass, or on the pass's page. *)
THEOREM WalkInvariant == PurgeSpec => []WalkInv
<1>1. PurgeInit => WalkInv
  BY Zenon, WalkInit
<1>2. WalkInv /\ [PurgeNext]_purgeVars => WalkInv'
  <2> SUFFICES ASSUME WalkInv, [PurgeNext]_purgeVars PROVE WalkInv'
    OBVIOUS
  <2>1. CASE \E k \in RowKeys : RunStarts(k) \/ RunExpires(k)
    BY Zenon, <2>1, EngineKeepsInv
  <2>2. CASE \E k \in RowKeys : purgeWorkflow(k) \/ purgeActivityRun(k) \/ PassOver(k)
    BY <2>2, RunsKeepInv
  <2>3. CASE purgeOnce
    BY <2>3, BeginKeepsInv
  <2>4. CASE page
    BY Zenon, <2>4, PageKeepsInv
  <2>5. CASE PageDone
    BY <2>5, PageDoneKeepsInv
  <2>6. CASE SaveCursor \/ PassCut
    BY Zenon, <2>6, EndKeepsInv
  <2>7. CASE UNCHANGED purgeVars
    BY Zenon, <2>7 DEF purgeVars, WalkInv, PurgeTypeOK, PassInv, WalkPurges, AheadInv, Remains, Beyond, Exhausted
  <2> QED
    BY Zenon, <2>1, <2>2, <2>3, <2>4, <2>5, <2>6, <2>7 DEF PurgeNext
<1> QED
  BY <1>1, <1>2, PTL DEF PurgeSpec

(* A finished walk leaves no run that was expired when it began, but those it met an
   error of, and no activity history without its row, whatever the limit cuts, starts,
   fails or crashes meanwhile (retention.go, purge). *)
THEOREM WalkLeavesNothing == PurgeSpec => []WalkPurges
BY WalkInvariant, PTL DEF WalkInv

-----------------------------------------------------------------------------
(* The pending queries. *)
-----------------------------------------------------------------------------

(* What the invariant says of one call. *)
CallOK(c) ==
  /\ Answers(c) <= 1
  /\ c \in table => asker[c] \in {"sending", "waiting"} /\ Answers(c) = 0
  /\ asker[c] = "idle" => Answers(c) = 0

(* The table is finite, and the invariant is the cap and one statement per call. *)
LEMMA InvByCall ==
  QueriesInv <=> QueriesTypeOK /\ Cardinality(table) <= MaxPending /\ \A c \in Asks : CallOK(c)
BY Zenon DEF QueriesInv, OneAnswer, CallOK

(* A set of calls is finite and its size a number; taking calls out never grows it. *)
LEMMA SmallerTable ==
  ASSUME NEW S \in SUBSET Asks, NEW T \in SUBSET S
  PROVE  /\ IsFiniteSet(S) /\ IsFiniteSet(T)
         /\ Cardinality(S) \in Nat /\ Cardinality(T) \in Nat /\ Cardinality(T) <= Cardinality(S)
<1>1. IsFiniteSet(S)
  BY Zenon, FS_Subset, QueriesAssumption
<1> QED
  BY Zenon, <1>1, FS_Subset, FS_CardinalityType

(* PushQuery keeps the cap: a full table loses its oldest entry before the new one
   comes in. *)
LEMMA RegistrationKeepsCap ==
  ASSUME QueriesInv, NEW c \in Asks, PushQuery(c)
  PROVE  table' \subseteq Asks /\ Cardinality(table') <= MaxPending
<1> DEFINE live == table \ ExpiredQueries
<1>1. PICK out \in Evicted(live) : table' = (live \ out) \cup {c}
  BY Zenon DEF PushQuery
<1>2. live \in SUBSET Asks /\ live \in SUBSET table /\ table \in SUBSET Asks
  BY Zenon DEF QueriesInv, QueriesTypeOK
<1>3. Cardinality(live) \in Nat /\ Cardinality(live) <= MaxPending /\ IsFiniteSet(live)
  BY <1>2, SmallerTable, QueriesAssumption DEF QueriesInv, OneAnswer
<1> HIDE DEF live
<1>4. Cardinality(live \ out) < MaxPending /\ IsFiniteSet(live \ out) /\ Cardinality(live \ out) \in Nat
  <2>1. CASE Cardinality(live) >= MaxPending
    <3>1. PICK e \in live : out = {e}
      BY Zenon, <2>1 DEF Evicted
    <3>2. Cardinality(live \ {e}) = Cardinality(live) - 1 /\ IsFiniteSet(live \ {e})
      BY Zenon, <1>3, FS_RemoveElement
    <3>3. Cardinality(live \ {e}) \in Nat
      BY Zenon, <3>2, FS_CardinalityType
    <3> QED
      BY <1>3, <3>1, <3>2, <3>3, QueriesAssumption
  <2>2. CASE ~(Cardinality(live) >= MaxPending)
    <3>1. live \ out = live
      BY Zenon, <2>2 DEF Evicted
    <3> QED
      BY <1>3, <2>2, <3>1, QueriesAssumption
  <2> QED
    BY Zenon, <2>1, <2>2
<1>5. \/ Cardinality((live \ out) \cup {c}) = Cardinality(live \ out)
      \/ Cardinality((live \ out) \cup {c}) = Cardinality(live \ out) + 1
  <2>1. CASE c \in live \ out
    <3>1. (live \ out) \cup {c} = live \ out
      BY <2>1
    <3> QED
      BY Zenon, <3>1
  <2>2. CASE c \notin live \ out
    BY <1>4, <2>2, FS_AddElement, Zenon
  <2> QED
    BY Zenon, <2>1, <2>2
<1>6. (live \ out) \cup {c} \subseteq Asks
  BY Zenon, <1>2
<1>7. Cardinality((live \ out) \cup {c}) <= MaxPending
  BY <1>4, <1>5, QueriesAssumption
<1> QED
  BY Zenon, <1>1, <1>6, <1>7

-----------------------------------------------------------------------------
(* The inductive invariant of the query calls. *)
THEOREM QueriesInvariant == QueriesSpec => []QueriesInv
<1>1. QueriesInit => QueriesInv
  <2> SUFFICES ASSUME QueriesInit PROVE QueriesInv
    OBVIOUS
  <2>1. QueriesTypeOK
    BY Zenon DEF QueriesInit, QueriesTypeOK
  <2>2. Cardinality(table) <= MaxPending
    BY FS_EmptySet, QueriesAssumption DEF QueriesInit
  <2>3. \A c \in Asks : CallOK(c)
    BY DEF QueriesInit, CallOK, Answers
  <2> QED
    BY Zenon, <2>1, <2>2, <2>3, InvByCall
<1>2. QueriesInv /\ [QueriesNext]_queryVars => QueriesInv'
  <2> SUFFICES ASSUME QueriesInv, [QueriesNext]_queryVars PROVE QueriesInv'
    OBVIOUS
  <2>t. QueriesTypeOK
    BY DEF QueriesInv
  <2>k. \A c \in Asks : CallOK(c)
    BY Zenon, InvByCall
  <2>n. Cardinality(table) \in Nat /\ Cardinality(table) <= MaxPending
    BY Zenon, <2>t, SmallerTable, InvByCall DEF QueriesTypeOK
  <2>1. CASE UNCHANGED queryVars
    BY Zenon, <2>1 DEF queryVars, QueriesInv, QueriesTypeOK, OneAnswer, Answers
  <2>2. ASSUME NEW c \in Asks, QueriesNext,
               \/ NoSubscriber(c) \/ PushQuery(c) \/ SendQuery(c) \/ SendFails(c)
               \/ CompleteQuery(c) \/ SendAnswer(c) \/ QueryAnswered(c) \/ CancelQuery(c)
        PROVE  QueriesInv'
    <3>1. table' \subseteq Asks /\ Cardinality(table') <= MaxPending
      <4>1. CASE PushQuery(c)
        BY Zenon, <4>1, RegistrationKeepsCap
      <4>2. CASE ~PushQuery(c)
        <5>1. table' \in SUBSET table
          BY Zenon, <2>2, <4>2
            DEF NoSubscriber, SendQuery, SendFails, CompleteQuery, SendAnswer, QueryAnswered, CancelQuery, Taken
        <5>2. table \in SUBSET Asks
          BY Zenon, <2>t DEF QueriesTypeOK
        <5> QED
          BY <2>n, <5>1, <5>2, SmallerTable, QueriesAssumption
      <4> QED
        BY Zenon, <4>1, <4>2
    <3>2. QueriesTypeOK'
      <4>1. asker' \in [Asks -> {"idle", "sending", "waiting", "answered", "gaveup", "failed"}]
        BY ZenonT(30), <2>2, <2>t DEF QueriesTypeOK, NoSubscriber, PushQuery, SendQuery, SendFails, CompleteQuery,
             SendAnswer, QueryAnswered, CancelQuery
      <4>2. resCh' \in [Asks -> Nat] /\ answering' \in [Asks -> Nat]
        BY <2>2, <2>t DEF QueriesTypeOK, NoSubscriber, PushQuery, SendQuery, SendFails, CompleteQuery,
             SendAnswer, QueryAnswered, CancelQuery
      <4>3. told' \in [Asks -> Nat] /\ got' \in [Asks -> Nat]
        BY <2>2, <2>t DEF QueriesTypeOK, NoSubscriber, PushQuery, SendQuery, SendFails, CompleteQuery,
             SendAnswer, QueryAnswered, CancelQuery
      <4>4. born' \in [Asks -> Nat]
        <5>1. Cardinality({d \in Asks : born[d] > 0}) \in Nat
          BY SmallerTable
        <5> QED
          BY <2>2, <2>t, <5>1 DEF QueriesTypeOK, NoSubscriber, PushQuery, SendQuery, SendFails,
               CompleteQuery, SendAnswer, QueryAnswered, CancelQuery
      <4> QED
        BY Zenon, <3>1, <4>1, <4>2, <4>3, <4>4 DEF QueriesTypeOK
    <3>3. ASSUME NEW d \in Asks PROVE CallOK(d)'
      <4>1. /\ resCh[d] \in Nat /\ answering[d] \in Nat /\ got[d] \in Nat /\ CallOK(d) /\ CallOK(c)
            /\ resCh[c] \in Nat /\ answering[c] \in Nat /\ got[c] \in Nat
        BY Zenon, <2>t, <2>k DEF QueriesTypeOK
      <4>2. CASE NoSubscriber(c)
        BY Zenon, <2>t, <4>1, <4>2 DEF NoSubscriber, CallOK, Answers, QueriesTypeOK
      <4>3. CASE PushQuery(c)
        <5>1. d \in table' => d \in table \/ d = c
          BY Zenon, <4>3 DEF PushQuery
        <5> QED
          BY Zenon, <2>t, <4>1, <4>3, <5>1 DEF PushQuery, CallOK, Answers, QueriesTypeOK
      <4>4. CASE SendQuery(c)
        BY Zenon, <2>t, <4>1, <4>4 DEF SendQuery, CallOK, Answers, QueriesTypeOK
      <4>5. CASE SendFails(c)
        BY Zenon, <2>t, <4>1, <4>5 DEF SendFails, CallOK, Answers, QueriesTypeOK
      <4>6. CASE CompleteQuery(c)
        BY <2>t, <4>1, <4>6 DEF CompleteQuery, CallOK, Answers, QueriesTypeOK, Taken
      <4>7. CASE SendAnswer(c)
        BY <2>t, <4>1, <4>7 DEF SendAnswer, CallOK, Answers, QueriesTypeOK
      <4>8. CASE QueryAnswered(c)
        BY <2>t, <4>1, <4>8 DEF QueryAnswered, CallOK, Answers, QueriesTypeOK
      <4>9. CASE CancelQuery(c)
        BY Zenon, <2>t, <4>1, <4>9 DEF CancelQuery, CallOK, Answers, QueriesTypeOK
      <4> QED
        BY Zenon, <2>2, <4>2, <4>3, <4>4, <4>5, <4>6, <4>7, <4>8, <4>9
    <3> QED
      BY Zenon, <3>1, <3>2, <3>3 DEF QueriesInv, OneAnswer, CallOK
  <2> QED
    BY <2>1, <2>2 DEF QueriesNext
<1> QED
  BY <1>1, <1>2, PTL DEF QueriesSpec

(* CompleteQuery never blocks on a full channel and a query is answered once at most,
   whatever the worker, the timeout and the evictions do, and the table keeps its
   cap. *)
THEOREM AnsweredOnce == QueriesSpec => []OneAnswer
BY QueriesInvariant, PTL DEF QueriesInv

-----------------------------------------------------------------------------
(* The row of a deployment series. *)
-----------------------------------------------------------------------------

(* An empty deployment has a type, is consistent, and an idle client holds one. *)
LEMMA EmptyRow ==
  /\ NoDp \in DpType /\ NoNs \in NsType /\ NoReq \in ReqType /\ Consistent(NoDp)
  /\ NoReq.dp = NoDp /\ NoReq.op = "none"
<1>1. NoDp \in DpType /\ NoNs \in NsType
  BY Zenon DEF NoDp, DpType, NoNs, NsType
<1>2. Consistent(NoDp)
  BY Zenon DEF NoDp, Consistent, Versions
<1>3. NoReq.dp = NoDp /\ NoReq.op = "none"
  BY Zenon DEF NoReq
<1>4. "none" \in BtType 
  BY Zenon DEF BtType
<1>5. NoReq \in ReqType
  BY Zenon, <1>1, <1>4 DEF NoReq, ReqType
<1> QED
  BY Zenon, <1>1, <1>2, <1>3, <1>5

-----------------------------------------------------------------------------
(* What each operation makes of a consistent copy is consistent. *)

(* CreateDeployment puts a series without versions. *)
LEMMA CreatedConsistent ==
  NewDp \in DpType /\ Consistent(NewDp)
<1>1. NewDp \in DpType
  BY DEF NewDp, DpType
<1>2. Consistent(NewDp)
  BY Zenon, CatalogAssumption DEF NewDp, Consistent, Versions
<1> QED
  BY Zenon, <1>1, <1>2

(* CreateVersion: the first version becomes the default, a later one a draft. *)
LEMMA VersionCreated ==
  ASSUME NEW d \in DpType, Consistent(d), d.there, NEW b \in Builds, b \notin Versions(d)
  PROVE  LET e == [d EXCEPT !.versions[b] = IF d.def = "" THEN "CURRENT" ELSE "DRAFT",
                            !.def = IF @ = "" THEN b ELSE @]
         IN e \in DpType /\ Consistent(e)
<1> DEFINE state == IF d.def = "" THEN "CURRENT" ELSE "DRAFT"
           e == [d EXCEPT !.versions[b] = state, !.def = IF @ = "" THEN b ELSE @]
<1>1. state \in {"CURRENT", "DRAFT"}
  OBVIOUS
<1>2. /\ e \in DpType /\ e.there /\ e.def = IF d.def = "" THEN b ELSE d.def
      /\ e.versions = [d.versions EXCEPT ![b] = state]
  BY Zenon, <1>1 DEF DpType
<1>3. \A v \in Builds : e.versions[v] = IF v = b THEN state ELSE d.versions[v]
  BY Zenon, <1>2 DEF DpType
<1>4. d.versions[b] = "none" /\ b # ""
  BY Zenon, CatalogAssumption DEF Versions
<1>5. ASSUME NEW v \in Builds PROVE e.versions[v] = "CURRENT" <=> e.def = v
  <2>1. d.versions[v] = "CURRENT" <=> d.def = v
    BY Zenon DEF Consistent
  <2>2. v # ""
    BY Zenon, CatalogAssumption
  <2> HIDE DEF e
  <2>3. CASE v = b
    BY Zenon, <1>2, <1>3, <1>4, <2>1, <2>3
  <2>4. CASE v # b
    BY Zenon, <1>2, <1>3, <1>4, <2>1, <2>2, <2>4
  <2> QED
    BY Zenon, <2>3, <2>4
<1>6. e.def # ""
  BY Zenon, <1>2, <1>4
<1> QED
  BY Zenon, <1>2, <1>5, <1>6 DEF Consistent

(* SetCurrentDeploymentVersion moves the mark with the default. *)
LEMMA FlippedConsistent ==
  ASSUME NEW d \in DpType, Consistent(d), d.there, NEW b \in Builds
  PROVE  Flipped(d, b) \in DpType /\ Consistent(Flipped(d, b))
<1> DEFINE e == Flipped(d, b)
           vs == [v \in Builds |-> CASE v = b -> "CURRENT"
                                     [] v # b /\ d.versions[v] = "CURRENT" -> "RETIRED"
                                     [] OTHER -> d.versions[v]]
<1>1. e = [d EXCEPT !.def = b, !.versions = vs]
  BY DEF Flipped
<1>2. vs \in [Builds -> {"none", "DRAFT", "CURRENT", "RETIRED"}]
  BY Zenon DEF DpType
<1>3. \A v \in Builds : vs[v] = "CURRENT" <=> v = b
  BY Zenon DEF DpType
<1> HIDE DEF vs
<1>4. e \in DpType /\ e.there /\ e.def = b /\ e.versions = vs
  BY Zenon, <1>1, <1>2 DEF DpType
<1> QED
  BY Zenon, <1>3, <1>4, CatalogAssumption DEF Consistent

(* DeleteDeploymentVersion takes any version but the default. *)
LEMMA VersionDeleted ==
  ASSUME NEW d \in DpType, Consistent(d), d.there, NEW b \in Versions(d), d.def # b
  PROVE  LET e == [d EXCEPT !.versions[b] = "none"] IN e \in DpType /\ Consistent(e)
<1> DEFINE e == [d EXCEPT !.versions[b] = "none"]
<1>1. b \in Builds
  BY DEF Versions
<1>2. e \in DpType /\ e.there /\ e.def = d.def /\ e.versions = [d.versions EXCEPT ![b] = "none"]
  BY Zenon DEF DpType
<1>3. \A v \in Builds : e.versions[v] = IF v = b THEN "none" ELSE d.versions[v]
  BY Zenon, <1>2 DEF DpType
<1>4. ASSUME NEW v \in Builds PROVE e.versions[v] = "CURRENT" <=> e.def = v
  <2>1. d.versions[v] = "CURRENT" <=> d.def = v
    BY Zenon DEF Consistent
  <2> HIDE DEF e
  <2> QED
    BY Zenon, <1>2, <1>3, <2>1
<1>5. e.def # ""
  BY Zenon, <1>1, <1>2 DEF Consistent, Versions
<1> QED
  BY Zenon, <1>2, <1>4, <1>5 DEF Consistent

-----------------------------------------------------------------------------
(* A call that ends with a consistent row put, or none, keeps the invariant (the
   operations on deployments). *)
LEMMA PutKeepsInv ==
  ASSUME CatalogInv, NEW c \in Clients, NEW ok \in BOOLEAN, NEW d,
         ok => d \in DpType /\ Consistent(d), PutDeployment(c, ok, d)
  PROVE  CatalogInv'
<1>1. dp' \in DpType /\ Consistent(dp')
  BY Zenon DEF CatalogInv, CatalogTypeOK, PutDeployment
<1>2. client' = [client EXCEPT ![c] = NoReq] /\ ns' = ns /\ sa' = sa /\ bt' = bt
  BY Zenon DEF PutDeployment, Ends
<1>3. client' \in [Clients -> ReqType]
  BY Zenon, <1>2, EmptyRow DEF CatalogInv, CatalogTypeOK
<1>4. \A a \in Clients : client'[a] = IF a = c THEN NoReq ELSE client[a]
  BY Zenon, <1>2 DEF CatalogInv, CatalogTypeOK
<1>5. \A a \in Clients : /\ Consistent(client'[a].dp)
                         /\ client'[a].op = "createversion" => client'[a].build \in Builds
  BY Zenon, <1>4, EmptyRow DEF CatalogInv
<1>6. CatalogTypeOK'
  BY Zenon, <1>1, <1>2, <1>3 DEF CatalogInv, CatalogTypeOK
<1> QED
  BY Zenon, <1>1, <1>5, <1>6 DEF CatalogInv, Consistent, Versions

(* A call on the other rows leaves the deployment alone. *)
LEMMA OthersKeepInv ==
  ASSUME CatalogInv, NEW c \in Clients, dp' = dp,
         ns' \in NsType, sa' \in BOOLEAN, bt' \in BtType,
         \/ client' = [client EXCEPT ![c] = NoReq]
         \/ client' = [client EXCEPT ![c].op = "putattr"]
  PROVE  CatalogInv'
<1>1. /\ client' \in [Clients -> ReqType]
      /\ \A a \in Clients : /\ client'[a].dp \in {client[a].dp, NoDp}
                            /\ client'[a].op \in {client[a].op, "none", "putattr"}
                            /\ client'[a].op = "createversion" => client'[a].build = client[a].build
  <2>1. CASE client' = [client EXCEPT ![c] = NoReq]
    BY <2>1, EmptyRow DEF CatalogInv, CatalogTypeOK
  <2>2. CASE client' = [client EXCEPT ![c].op = "putattr"]
    <3> DEFINE r == [client[c] EXCEPT !.op = "putattr"]
    <3>1. client[c] \in ReqType /\ client \in [Clients -> ReqType]
      BY DEF CatalogInv, CatalogTypeOK
    <3>2. r \in ReqType /\ r.op = "putattr" /\ r.dp = client[c].dp /\ r.build = client[c].build
      BY Zenon, <3>1 DEF ReqType
    <3>3. client' = [client EXCEPT ![c] = r]
      BY <2>2
    <3> HIDE DEF r
    <3>4. client' \in [Clients -> ReqType]
      BY Zenon, <3>1, <3>2, <3>3
    <3>5. \A a \in Clients : client'[a] = IF a = c THEN r ELSE client[a]
      BY Zenon, <3>1, <3>3
    <3> QED
      BY <3>2, <3>4, <3>5
  <2> QED
    BY <2>1, <2>2
<1>2. CatalogTypeOK'
  BY Zenon, <1>1 DEF CatalogInv, CatalogTypeOK
<1>3. \A a \in Clients : /\ Consistent(client'[a].dp)
                         /\ client'[a].op = "createversion" => client'[a].build \in Builds
  BY Zenon, <1>1, EmptyRow DEF CatalogInv
<1> QED
  BY ZenonT(30), <1>2, <1>3 DEF CatalogInv, Consistent, Versions

(* A call begins with a copy of the row as it is. *)
LEMMA CatalogBeginKeeps ==
  ASSUME CatalogInv, NEW c \in Clients, NEW op \in RowOps \cup VersionOps, NEW build \in Builds \cup {""},
         op = "createversion" => build \in Builds, Begin(c, op, build)
  PROVE  CatalogInv'
<1> DEFINE r == [op |-> op, build |-> build, ns |-> ns, dp |-> dp, bt |-> bt]
<1>1. client' = [client EXCEPT ![c] = r] /\ ns' = ns /\ dp' = dp /\ sa' = sa /\ bt' = bt
  BY Zenon DEF Begin
<1>2. r \in ReqType /\ r.dp = dp /\ r.op = op /\ r.build = build
  BY Zenon DEF CatalogInv, CatalogTypeOK, ReqType
<1> HIDE DEF r
<1>3. client' \in [Clients -> ReqType] /\ \A a \in Clients : client'[a] = IF a = c THEN r ELSE client[a]
  BY Zenon, <1>1, <1>2 DEF CatalogInv, CatalogTypeOK
<1>4. CatalogTypeOK'
  BY Zenon, <1>1, <1>3 DEF CatalogInv, CatalogTypeOK
<1>5. \A a \in Clients : /\ Consistent(client'[a].dp)
                         /\ client'[a].op = "createversion" => client'[a].build \in Builds
  BY Zenon, <1>2, <1>3 DEF CatalogInv
<1> QED
  BY ZenonT(30), <1>1, <1>4, <1>5 DEF CatalogInv, Consistent, Versions

(* Every operation on deployments computes a consistent row from the copy it read. *)
LEMMA DeploymentsKeepInv ==
  ASSUME CatalogInv, NEW c \in Clients,
         \/ CreateDeployment(c) \/ UpdateDeployment(c) \/ UpdateVersion(c)
         \/ \E force \in BOOLEAN : DeleteDeployment(c, force)
         \/ CreateVersion(c) \/ SetCurrentDeploymentVersion(c) \/ DeleteDeploymentVersion(c)
  PROVE  CatalogInv'
<1> DEFINE d == client[c].dp
           b == client[c].build
<1>1. d \in DpType /\ Consistent(d) /\ d.there \in BOOLEAN
  BY Zenon DEF CatalogInv, CatalogTypeOK, ReqType, DpType
<1>2. CASE CreateDeployment(c)
  BY Zenon, <1>1, <1>2, CreatedConsistent, PutKeepsInv DEF CreateDeployment
<1>3. CASE UpdateDeployment(c)
  BY Zenon, <1>1, <1>3, PutKeepsInv DEF UpdateDeployment
<1>4. CASE UpdateVersion(c)
  BY Zenon, <1>1, <1>4, PutKeepsInv DEF UpdateVersion
<1>5. ASSUME NEW force \in BOOLEAN, DeleteDeployment(c, force) PROVE CatalogInv'
  BY Zenon, <1>1, <1>5, EmptyRow, PutKeepsInv DEF DeleteDeployment
<1>6. CASE CreateVersion(c)
  <2>1. b \in Builds
    BY <1>6 DEF CreateVersion, CatalogInv
  <2> QED
    BY Zenon, <1>1, <1>6, <2>1, VersionCreated, PutKeepsInv DEF CreateVersion
<1>7. CASE SetCurrentDeploymentVersion(c)
  <2>1. b \in Versions(d) => b \in Builds
    BY Zenon DEF Versions
  <2> QED
    BY Zenon, <1>1, <1>7, <2>1, FlippedConsistent, PutKeepsInv DEF SetCurrentDeploymentVersion
<1>8. CASE DeleteDeploymentVersion(c)
  BY Zenon, <1>1, <1>8, VersionDeleted, PutKeepsInv DEF DeleteDeploymentVersion
<1> QED
  BY Zenon, <1>2, <1>3, <1>4, <1>5, <1>6, <1>7, <1>8

-----------------------------------------------------------------------------
(* The inductive invariant: the row and every copy of it that a call holds are
   consistent. *)
THEOREM CatalogInvariant == CatalogSpec => []CatalogInv
<1>1. CatalogInit => CatalogInv
  <2> SUFFICES ASSUME CatalogInit PROVE CatalogInv
    OBVIOUS
  <2>1. CatalogTypeOK
    BY Zenon, EmptyRow DEF CatalogInit, CatalogTypeOK, BtType
  <2> QED
    BY <2>1, EmptyRow DEF CatalogInit, CatalogInv
<1>2. CatalogInv /\ [CatalogNext]_catalogVars => CatalogInv'
  <2> SUFFICES ASSUME CatalogInv, [CatalogNext]_catalogVars PROVE CatalogInv'
    OBVIOUS
  <2>1. CASE UNCHANGED catalogVars
    BY ZenonT(30), <2>1 DEF catalogVars, CatalogInv, CatalogTypeOK, Consistent, Versions
  <2>2. ASSUME NEW c \in Clients,
               NEW op \in RowOps, Begin(c, op, "")
        PROVE  CatalogInv'
    <3>1. op # "createversion"
      BY DEF RowOps
    <3> QED
      BY Zenon, <2>2, <3>1, CatalogBeginKeeps
  <2>3. ASSUME NEW c \in Clients, NEW b \in Builds,
               NEW op \in VersionOps, Begin(c, op, b)
        PROVE  CatalogInv'
    BY Zenon, <2>3, CatalogBeginKeeps
  <2>4. ASSUME NEW c \in Clients,
               \/ RegisterNamespace(c) \/ UpdateNamespaceMetadata(c) \/ DeprecateNamespace(c)
               \/ AddToNamespace(c) \/ AddSearchAttribute(c) \/ RemoveSearchAttribute(c)
               \/ StartBatch(c) \/ TerminateBatch(c)
        PROVE  CatalogInv'
    <3>1. client[c].ns \in NsType /\ ns \in NsType /\ sa \in BOOLEAN /\ bt \in BtType
      BY Zenon DEF CatalogInv, CatalogTypeOK, ReqType
    <3>2. dp' = dp
      BY Zenon, <2>4 DEF RegisterNamespace, UpdateNamespaceMetadata, DeprecateNamespace,
           AddToNamespace, AddSearchAttribute, RemoveSearchAttribute, StartBatch, TerminateBatch
    <3>5. ns' \in NsType
      <4>1. [there |-> TRUE, state |-> "REGISTERED", patched |-> FALSE] \in NsType
        BY Zenon DEF NsType
      <4>2. CASE RegisterNamespace(c)
        BY Zenon, <4>1, <4>2 DEF RegisterNamespace
      <4>3. CASE UpdateNamespaceMetadata(c)
        <5>1. [client[c].ns EXCEPT !.patched = TRUE] \in NsType
          BY Zenon, <3>1 DEF NsType
        <5> QED
          BY Zenon, <3>1, <4>3, <5>1 DEF UpdateNamespaceMetadata
      <4>4. CASE DeprecateNamespace(c)
        <5>1. [client[c].ns EXCEPT !.state = "DELETED"] \in NsType
          BY <3>1 DEF NsType
        <5> QED
          BY Zenon, <3>1, <4>4, <5>1 DEF DeprecateNamespace
      <4>5. CASE AddToNamespace(c)
        BY <3>1, <4>1, <4>5 DEF AddToNamespace, namespace
      <4> QED
        BY Zenon, <2>4, <3>1, <4>2, <4>3, <4>4, <4>5
          DEF AddSearchAttribute, RemoveSearchAttribute, StartBatch, TerminateBatch
    <3>3. sa' \in BOOLEAN /\ bt' \in BtType
      BY Zenon, <2>4, <3>1 DEF BtType, RegisterNamespace, UpdateNamespaceMetadata, DeprecateNamespace,
           AddToNamespace, AddSearchAttribute, RemoveSearchAttribute, StartBatch, TerminateBatch
    <3>4. \/ client' = [client EXCEPT ![c] = NoReq]
          \/ client' = [client EXCEPT ![c].op = "putattr"]
      BY <2>4 DEF RegisterNamespace, UpdateNamespaceMetadata, DeprecateNamespace, AddToNamespace,
           AddSearchAttribute, RemoveSearchAttribute, StartBatch, TerminateBatch, Ends
    <3> QED
      BY Zenon, <3>2, <3>3, <3>4, <3>5, OthersKeepInv
  <2> QED
    BY Zenon, <2>1, <2>2, <2>3, <2>4, DeploymentsKeepInv DEF CatalogNext
<1> QED
  BY <1>1, <1>2, PTL DEF CatalogSpec

(* The default build of a deployment is the one version marked CURRENT, however the
   calls of any number of clients overwrite each other (SetCurrentDeploymentVersion,
   CreateVersion, DeleteDeploymentVersion). *)
THEOREM DefaultIsDeployed == CatalogSpec => []DefaultDeployed
BY CatalogInvariant, PTL DEF CatalogInv, DefaultDeployed

-----------------------------------------------------------------------------
(* The record of failures. *)
-----------------------------------------------------------------------------

(* The records recordFailure starts from and puts are rows. *)
LEMMA RowTypes ==
  ASSUME FailuresTypeOK
  PROVE  /\ NoStreak \in Streaks /\ [NoStreak EXCEPT !.since = age] \in Streaks
         /\ Done \in [pc : {"idle", "put", "log", "del"}, rec : Streaks, was : BOOLEAN]
         /\ \A rec \in Streaks : Counted(rec) \in Streaks /\ Counted(rec).n = rec.n + 1
<1>1. NoStreak \in Streaks /\ [NoStreak EXCEPT !.since = age] \in Streaks
  BY Zenon DEF FailuresTypeOK, NoStreak, Streaks
<1>2. Done \in [pc : {"idle", "put", "log", "del"}, rec : Streaks, was : BOOLEAN]
  BY <1>1 DEF Done
<1>3. ASSUME NEW rec \in Streaks PROVE Counted(rec) \in Streaks /\ Counted(rec).n = rec.n + 1
  <2>1. rec.n \in Nat /\ rec.n + 1 \in Nat
    BY DEF Streaks
  <2>2. ASSUME NEW p \in BOOLEAN
        PROVE  /\ [rec EXCEPT !.n = rec.n + 1, !.persistent = p] \in Streaks
               /\ [rec EXCEPT !.n = rec.n + 1, !.persistent = p].n = rec.n + 1
    BY Zenon, <2>1 DEF Streaks
  <2> DEFINE p == rec.n + 1 > 1 /\ age - rec.since >= PersistentAfter
  <2>3. p \in BOOLEAN /\ Counted(rec) = [rec EXCEPT !.n = rec.n + 1, !.persistent = p]
    BY DEF Counted
  <2> HIDE DEF p
  <2> QED
    BY <2>2, <2>3, Zenon
<1> QED
  BY <1>1, <1>2, <1>3

(* What a report that has just read the row holds: one failure more than the row
   says, and whether the row was persistent; or a first failure. *)
LEMMA RowRead ==
  ASSUME FailuresTypeOK, NEW r \in Reporters, NEW unread \in BOOLEAN, recordFailure(r, unread)
  PROVE  \E rec \in Streaks :
           /\ report' = [report EXCEPT ![r] = [pc |-> "put", rec |-> Counted(rec), was |-> rec.persistent]]
           /\ Counted(rec) \in Streaks /\ rec.persistent \in BOOLEAN
           /\ ~unread => Counted(rec).n = streak.n + 1
           /\ rec.persistent => streak.persistent
<1> DEFINE fresh == [NoStreak EXCEPT !.since = age]
<1> DEFINE rec == IF unread \/ streak.n = 0 THEN fresh ELSE streak
<1>1. fresh \in Streaks /\ fresh.persistent = FALSE /\ fresh.n = 0
  BY Zenon, RowTypes DEF NoStreak
<1>2. streak \in Streaks
  BY DEF FailuresTypeOK
<1>3. rec \in Streaks /\ (~unread => rec.n = streak.n) /\ (rec.persistent => streak.persistent)
  BY <1>1, <1>2
<1>4. Counted(rec) \in Streaks /\ Counted(rec).n = rec.n + 1
  BY Zenon, <1>3, RowTypes
<1>5. rec.persistent \in BOOLEAN
  BY <1>3 DEF Streaks
<1>6. report' = [report EXCEPT ![r] = [pc |-> "put", rec |-> Counted(rec), was |-> rec.persistent]]
  BY Zenon DEF recordFailure
<1> HIDE DEF rec
<1> QED
  BY Zenon, <1>3, <1>4, <1>5, <1>6

-----------------------------------------------------------------------------
(* Each step keeps the types. *)
LEMMA FailuresTypes ==
  ASSUME FailuresInv, FailuresNext
  PROVE  FailuresTypeOK'
<1> DEFINE Reps == [pc : {"idle", "put", "log", "del"}, rec : Streaks, was : BOOLEAN]
<1>t. FailuresTypeOK
  BY DEF FailuresInv
<1>d. Done \in Reps /\ NoStreak \in Streaks
  BY Zenon, <1>t, RowTypes
<1>0. ASSUME NEW bad \in BOOLEAN, StoreFault(bad) PROVE storeFaults' \in Nat
  BY <1>0, <1>t DEF StoreFault, FailuresTypeOK
<1>1. ASSUME NEW r \in Reporters, NEW bad \in BOOLEAN, recordFailure(r, bad) PROVE FailuresTypeOK'
  <2>1. PICK rec \in Streaks :
          /\ report' = [report EXCEPT ![r] = [pc |-> "put", rec |-> Counted(rec), was |-> rec.persistent]]
          /\ Counted(rec) \in Streaks /\ rec.persistent \in BOOLEAN
    BY <1>1, <1>t, RowRead, Zenon
  <2>2. report' \in [Reporters -> Reps]
    BY <1>t, <2>1 DEF FailuresTypeOK
  <2>3. blurred' \in BOOLEAN /\ storeFaults' \in Nat
    BY <1>0, <1>1 DEF recordFailure
  <2> QED
    BY <1>1, <1>t, <2>2, <2>3 DEF FailuresTypeOK, recordFailure
<1>2. ASSUME NEW r \in Reporters, NEW bad \in BOOLEAN, PutStreak(r, bad) PROVE FailuresTypeOK'
  <2>1. report[r] \in Reps /\ report' \in [Reporters -> Reps]
    BY <1>t, <1>2 DEF FailuresTypeOK, PutStreak
  <2>2. streak' \in Streaks
    BY <1>t, <1>2, <2>1 DEF FailuresTypeOK, PutStreak
  <2>3. blurred' \in BOOLEAN /\ storeFaults' \in Nat
    BY Zenon, <1>0, <1>2 DEF PutStreak
  <2> QED
    BY Zenon, <1>2, <1>t, <2>1, <2>2, <2>3 DEF FailuresTypeOK, PutStreak
<1>3. ASSUME NEW r \in Reporters, NEW bad \in BOOLEAN, DelStreak(r, bad) PROVE FailuresTypeOK'
  <2>1. report' \in [Reporters -> Reps]
    BY Zenon, <1>t, <1>d, <1>3 DEF FailuresTypeOK, DelStreak
  <2>2. streak' \in Streaks
    BY Zenon, <1>t, <1>d, <1>3 DEF FailuresTypeOK, DelStreak
  <2>3. blurred' \in BOOLEAN /\ storeFaults' \in Nat /\ paged' \in BOOLEAN /\ owed' \in BOOLEAN
    BY Zenon, <1>0, <1>3 DEF DelStreak
  <2> QED
    BY Zenon, <1>3, <1>t, <2>1, <2>2, <2>3 DEF FailuresTypeOK, DelStreak
<1>4. ASSUME NEW r \in Reporters, LogFailure(r) PROVE FailuresTypeOK'
  <2>1. report' \in [Reporters -> Reps]
    BY Zenon, <1>t, <1>d, <1>4 DEF FailuresTypeOK, LogFailure
  <2>2. paged' \in BOOLEAN /\ owed' \in BOOLEAN
    BY Zenon, <1>4 DEF LogFailure
  <2>3. tracker' \in Nat
    BY <1>4, <1>t DEF LogFailure, Incremented, FailuresTypeOK
  <2> QED
    BY Zenon, <1>4, <1>t, <2>1, <2>2, <2>3 DEF FailuresTypeOK, LogFailure
<1>5. ASSUME NEW r \in Reporters, clearFailure(r) PROVE FailuresTypeOK'
  <2>1. report' \in [Reporters -> Reps]
    BY Zenon, <1>t, <1>5 DEF FailuresTypeOK, clearFailure
  <2> QED
    BY Zenon, <1>5, <1>t, <2>1 DEF FailuresTypeOK, clearFailure, Cleared
<1>6. CASE Age
  BY <1>6, <1>t DEF FailuresTypeOK, Age
<1>7. CASE FailCrash
  <2>1. report' \in [Reporters -> Reps]
    BY <1>d, <1>7 DEF FailCrash
  <2>2. blurred' \in BOOLEAN /\ owed' \in BOOLEAN /\ storeFaults' \in Nat
    BY Zenon, <1>0, <1>7 DEF FailCrash
  <2> QED
    BY Zenon, <1>7, <1>t, <2>1, <2>2 DEF FailuresTypeOK, FailCrash
<1> QED
  BY Zenon, <1>1, <1>2, <1>3, <1>4, <1>5, <1>6, <1>7 DEF FailuresNext
-----------------------------------------------------------------------------
(* Each step keeps the lock, the count and the page. *)
LEMMA FailuresSteps ==
  ASSUME FailuresInv, FailuresNext
  PROVE  LockHeld' /\ CountHeld' /\ PageHeld'
<1>t. FailuresTypeOK /\ LockHeld /\ CountHeld /\ PageHeld
  BY Zenon DEF FailuresInv
<1>b. /\ DOMAIN report = Reporters /\ paged \in BOOLEAN /\ blurred \in BOOLEAN /\ owed \in BOOLEAN
      /\ tracker \in Nat /\ failed \in Nat /\ 0 \notin Reporters
  BY Zenon, <1>t, FailuresAssumption DEF FailuresTypeOK
<1>1. ASSUME NEW r \in Reporters, NEW bad \in BOOLEAN, recordFailure(r, bad) PROVE LockHeld' /\ CountHeld' /\ PageHeld'
  <2>1. PICK rec \in Streaks :
          /\ report' = [report EXCEPT ![r] = [pc |-> "put", rec |-> Counted(rec), was |-> rec.persistent]]
          /\ Counted(rec) \in Streaks /\ rec.persistent \in BOOLEAN
          /\ ~bad => Counted(rec).n = streak.n + 1
          /\ rec.persistent => streak.persistent
    BY <1>1, <1>t, RowRead, Zenon
  <2>2. \A q \in Reporters : report[q].pc = "idle"
    BY Zenon, <1>1, <1>t, <1>b DEF recordFailure, LockFree, LockHeld, NoHolder
  <2>3. /\ holder' = r /\ streak' = streak /\ paged' = paged /\ owed' = owed /\ tracker' = tracker
        /\ failed' = failed + 1 /\ (~blurred' => ~bad /\ ~blurred) /\ (blurred => blurred')
    BY Zenon, <1>1, <1>b DEF recordFailure
  <2>4. LockHeld'
    BY Zenon, <2>1, <2>2, <2>3, <1>b DEF LockHeld
  <2>5. CountHeld'
    BY Zenon, <2>1, <2>2, <2>3, <1>b, <1>t DEF CountHeld
  <2>6. Paged => Paged'
    BY <2>3, <1>b DEF Paged
  <2>7. PageHeld'
    BY Zenon, <2>1, <2>2, <2>3, <2>6, <1>b, <1>t DEF PageHeld
  <2> QED
    BY <2>4, <2>5, <2>7
<1>2. ASSUME NEW r \in Reporters, NEW bad \in BOOLEAN, PutStreak(r, bad) PROVE LockHeld' /\ CountHeld' /\ PageHeld'
  <2>1. \A q \in Reporters : q # r => report[q].pc = "idle" /\ report'[q] = report[q]
    BY Zenon, <1>2, <1>t, <1>b DEF PutStreak, LockHeld
  <2>2. /\ report[r].pc = "put" /\ report'[r].pc = "log" /\ report'[r].rec = report[r].rec
        /\ report'[r].was = report[r].was
    BY <1>2, <1>t DEF PutStreak, FailuresTypeOK
  <2>3. /\ holder' = holder /\ paged' = paged /\ owed' = owed /\ tracker' = tracker /\ failed' = failed
        /\ (~blurred' => ~bad /\ ~blurred) /\ (blurred => blurred') /\ (bad => blurred')
    BY Zenon, <1>2, <1>b DEF PutStreak
  <2>4. streak' = (IF bad THEN streak ELSE report[r].rec)
    BY Zenon, <1>2 DEF PutStreak
  <2>5. LockHeld'
    BY Zenon, <2>1, <2>2, <2>3, <1>t DEF LockHeld
  <2>6. CountHeld'
    BY Zenon, <2>1, <2>2, <2>3, <2>4, <1>t DEF CountHeld
  <2>7. Paged => Paged'
    BY Zenon, <2>3, <1>b DEF Paged
  <2>8. PageHeld'
    <3>1. streak.persistent => Paged
      BY Zenon, <2>1, <2>2, <1>t DEF PageHeld
    <3> QED
      BY Zenon, <2>1, <2>2, <2>3, <2>4, <2>7, <3>1, <1>t DEF PageHeld
  <2> QED
    BY Zenon, <2>5, <2>6, <2>8
<1>3. ASSUME NEW r \in Reporters, NEW bad \in BOOLEAN, DelStreak(r, bad) PROVE LockHeld' /\ CountHeld' /\ PageHeld'
  <2>1. \A q \in Reporters : report'[q].pc = "idle"
    BY Zenon, <1>3, <1>t, <1>b DEF DelStreak, LockHeld, Done
  <2>2. \A q \in Reporters : report[q].pc # "log"
    BY Zenon, <1>3, <1>t, <1>b DEF DelStreak, LockHeld
  <2>3. LockHeld'
    BY Zenon, <2>1 DEF LockHeld
  <2>4. CountHeld'
    BY Zenon, <2>1, <1>3, <1>b DEF CountHeld, DelStreak, NoStreak
  <2>5. PageHeld'
    <3>1. CASE bad
      BY Zenon, <2>1, <2>2, <3>1, <1>3, <1>b, <1>t DEF PageHeld, Paged, DelStreak
    <3>2. CASE ~bad
      BY Zenon, <2>1, <3>2, <1>3, <1>b DEF PageHeld, DelStreak, NoStreak
    <3> QED
      BY Zenon, <3>1, <3>2
  <2> QED
    BY <2>3, <2>4, <2>5
<1>4. ASSUME NEW r \in Reporters, LogFailure(r) PROVE LockHeld' /\ CountHeld' /\ PageHeld'
  <2>1. \A q \in Reporters : report'[q].pc = "idle" /\ report[q].pc # "put"
    BY Zenon, <1>4, <1>t, <1>b DEF LogFailure, LockHeld, Done
  <2>2. /\ streak' = streak /\ failed' = failed /\ blurred' = blurred /\ tracker' = tracker + 1
        /\ (paged => paged') /\ (owed /\ ~paged' => owed')
    BY Zenon, <1>4, <1>b DEF LogFailure, Incremented
  <2>3. LockHeld'
    BY <2>1 DEF LockHeld
  <2>4. CountHeld'
    BY Zenon, <2>1, <2>2, <1>t DEF CountHeld
  <2>5. streak.persistent => paged' \/ (owed' /\ blurred)
    <3>1. CASE streak = report[r].rec /\ streak.persistent
      <4>1. CASE report[r].was
        <5>1. paged \/ (owed /\ (tracker = 0 \/ blurred))
          BY Zenon, <3>1, <4>1, <1>4, <1>t DEF PageHeld, Paged, LogFailure
        <5>2. ASSUME tracker = 0 PROVE paged'
          <6>1. Incremented = 1
            BY <5>2 DEF Incremented
          <6>2. Reported(Incremented, report[r].rec, report[r].was) /\ report[r].rec.persistent
            BY <3>1, <6>1 DEF Reported, shouldReport
          <6> QED
            BY Zenon, <1>4, <6>2 DEF LogFailure
        <5> QED
          BY Zenon, <2>2, <5>1, <5>2
      <4>2. CASE ~report[r].was
        <5>1. Reported(Incremented, report[r].rec, report[r].was) /\ report[r].rec.persistent
          BY Zenon, <3>1, <4>2 DEF Reported
        <5> QED
          BY Zenon, <1>4, <5>1 DEF LogFailure
      <4> QED
        BY Zenon, <4>1, <4>2
    <3>2. CASE streak # report[r].rec
      <4>1. blurred /\ (streak.persistent => Paged)
        BY Zenon, <3>2, <1>4, <1>t DEF PageHeld, LogFailure
      <4> QED
        BY Zenon, <4>1, <2>2 DEF Paged
    <3> QED
      BY Zenon, <3>1, <3>2
  <2>6. PageHeld'
    BY Zenon, <2>1, <2>2, <2>5 DEF PageHeld, Paged
  <2> QED
    BY Zenon, <2>3, <2>4, <2>6
<1>5. ASSUME NEW r \in Reporters, clearFailure(r) PROVE LockHeld' /\ CountHeld' /\ PageHeld'
  <2>1. \A q \in Reporters : report[q].pc = "idle"
    BY Zenon, <1>5, <1>t, <1>b DEF clearFailure, LockFree, LockHeld, NoHolder
  <2>2. \A q \in Reporters : report'[q].pc = (IF q = r THEN "del" ELSE "idle")
    BY Zenon, <1>5, <1>t, <2>1 DEF clearFailure, FailuresTypeOK
  <2>3. /\ streak' = streak /\ failed' = failed /\ blurred' = blurred /\ tracker' = 0 /\ holder' = r
        /\ paged' = paged /\ owed' = owed
    BY <1>5 DEF clearFailure, Cleared
  <2>4. LockHeld' /\ CountHeld'
    BY Zenon, <2>1, <2>2, <2>3, <1>t DEF LockHeld, CountHeld
  <2>5. PageHeld'
    BY Zenon, <2>1, <2>2, <2>3, <1>t DEF PageHeld, Paged
  <2> QED
    BY <2>4, <2>5
<1>6. CASE Age
  BY Zenon, <1>6, <1>t DEF Age, LockHeld, CountHeld, PageHeld, Paged
<1>7. CASE FailCrash
  <2>1. \A q \in Reporters : report'[q].pc = "idle"
    BY Zenon, <1>7 DEF FailCrash, Done
  <2>2. /\ streak' = streak /\ failed' = failed /\ paged' = paged /\ tracker' = 0
        /\ (owed => owed') /\ ((\E q \in Reporters : report[q].pc = "log") => owed')
        /\ (~blurred' => ~blurred /\ \A q \in Reporters : report[q].pc # "put")
    BY Zenon, <1>7, <1>b DEF FailCrash
  <2>3. LockHeld' /\ CountHeld'
    BY Zenon, <2>1, <2>2, <1>t DEF LockHeld, CountHeld
  <2>4. PageHeld'
    BY Zenon, <2>1, <2>2, <1>t DEF PageHeld, Paged
  <2> QED
    BY <2>3, <2>4
<1> QED
  BY Zenon, <1>1, <1>2, <1>3, <1>4, <1>5, <1>6, <1>7 DEF FailuresNext

(* The inductive invariant of the failure record. *)
THEOREM FailuresInvariant == FailuresSpec => []FailuresInv
<1>1. FailuresInit => FailuresInv
  <2> SUFFICES ASSUME FailuresInit PROVE FailuresInv
    OBVIOUS
  <2>1. FailuresTypeOK
    BY Zenon DEF FailuresInit, FailuresTypeOK, NoStreak, Streaks, Done
  <2>2. LockHeld /\ CountHeld /\ PageHeld
    BY Zenon DEF FailuresInit, LockHeld, CountHeld, PageHeld, NoStreak, Done
  <2> QED
    BY <2>1, <2>2 DEF FailuresInv
<1>2. FailuresInv /\ [FailuresNext]_failVars => FailuresInv'
  <2> SUFFICES ASSUME FailuresInv, [FailuresNext]_failVars PROVE FailuresInv'
    OBVIOUS
  <2>1. CASE FailuresNext
    BY Zenon, <2>1, FailuresTypes, FailuresSteps DEF FailuresInv
  <2>2. CASE UNCHANGED failVars
    BY Zenon, <2>2 DEF failVars, FailuresInv, FailuresTypeOK, LockHeld, CountHeld, PageHeld, Paged
  <2> QED
    BY <2>1, <2>2
<1> QED
  BY <1>1, <1>2, PTL DEF FailuresSpec

(* The row counts every failure of the streak. *)
THEOREM RowCounts == FailuresSpec => []StreakCounts
<1>1. FailuresInv => StreakCounts
  BY Zenon DEF FailuresInv, CountHeld, StreakCounts
<1> QED
  BY <1>1, FailuresInvariant, PTL

(* A persistent streak was paged. *)
THEOREM PersistentIsPaged == FailuresSpec => []PersistentPaged
<1>1. FailuresInv => PersistentPaged
  BY FailuresAssumption DEF FailuresInv, LockHeld, PageHeld, PersistentPaged, NoHolder
<1> QED
  BY <1>1, FailuresInvariant, PTL
=============================================================================
