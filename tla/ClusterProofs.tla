--------------------------- MODULE ClusterProofs ----------------------------
(***************************************************************************)
(* The nodes of a cluster and their event streams: proofs about Routing    *)
(* for any hash and membership, about Shards for any number of opens,      *)
(* sweeps, migrations and exits, and about Broker for any publishers,      *)
(* buffer and number of events.                                            *)
(***************************************************************************)
EXTENDS Routing, Shards, Broker, WellFoundedInduction, TLAPS

-----------------------------------------------------------------------------
(* The rendezvous router. *)
-----------------------------------------------------------------------------

Less == {p \in Nat \X Nat : p[1] < p[2]}

(* A set of numbers that is not empty has a smallest one. *)
LEMMA Smallest == ASSUME NEW S \in SUBSET Nat, S # {} PROVE \E x \in S : \A y \in S : x <= y
<1>1. IsWellFoundedOn(Less, Nat)
  BY NatLessThanWellFounded DEF OpToRel, Less
<1>2. PICK x \in S : \A y \in S : ~(<<y, x>> \in Less)
  BY Zenon, <1>1, WFMin
<1>3. \A y \in S : ~(y < x)
  BY Zenon, <1>2 DEF Less
<1> QED
  BY <1>3

(* LeaderFor's loop finds a validator no other one beats, whatever the scores. *)
THEOREM LeaderExists ==
  ASSUME NEW k \in Routes, NEW vs \in SUBSET Ids, vs # {}
  PROVE  LeaderFor(k, vs) \in vs /\ \A w \in vs : Beats(k, LeaderFor(k, vs), w)
<1> DEFINE score(v) == scoreOf[k][v]
<1>1. \A v \in vs : v \in Nat /\ score(v) \in Nat
  BY RoutingAssumption
<1> DEFINE scores == {score(v) : v \in vs}
<1>2. PICK s \in scores : \A t \in scores : s <= t
  <2>1. scores \in SUBSET Nat /\ scores # {}
    BY <1>1
  <2> HIDE DEF scores
  <2> QED
    BY <2>1, Smallest
<1> DEFINE best == {v \in vs : score(v) = s}
<1>3. PICK l \in best : \A w \in best : l <= w
  <2>1. best \in SUBSET Nat /\ best # {}
    BY <1>1, <1>2
  <2> QED
    BY Zenon, <2>1, Smallest
<1>4. \A w \in vs : Beats(k, l, w)
  <2> SUFFICES ASSUME NEW w \in vs PROVE Beats(k, l, w)
    OBVIOUS
  <2>1. score(l) <= score(w) /\ (score(w) = score(l) => l <= w)
    BY <1>2, <1>3
  <2> QED
    BY <1>1, <1>3, <2>1 DEF Beats
<1>5. \E v \in vs : \A w \in vs : Beats(k, v, w)
  BY <1>3, <1>4
<1> QED
  BY <1>5, Zenon DEF LeaderFor

(* Two validators that both beat each other are one: the tie-break of the sorted walk
   leaves no choice. *)
LEMMA BeatsAntisymmetric ==
  ASSUME NEW k \in Routes, NEW v \in Ids, NEW w \in Ids, Beats(k, v, w), Beats(k, w, v)
  PROVE  v = w
<1>1. scoreOf[k][v] \in Nat /\ scoreOf[k][w] \in Nat /\ v \in Nat /\ w \in Nat
  BY RoutingAssumption
<1> QED
  BY <1>1 DEF Beats

(* A membership change moves no key that it need not move: while the leader of a key
   stays a validator, the key stays with it or goes to a node that has just joined, and
   never from one old validator to another (SetMembership and LeaderFor). *)
THEOREM MinimalMove ==
  ASSUME NEW k \in Routes, NEW vs \in SUBSET Ids, NEW ws \in SUBSET Ids, vs # {},
         LeaderFor(k, vs) \in ws
  PROVE  LeaderFor(k, ws) = LeaderFor(k, vs) \/ LeaderFor(k, ws) \in ws \ vs
<1> DEFINE v == LeaderFor(k, vs)
           w == LeaderFor(k, ws)
<1>1. v \in vs /\ \A x \in vs : Beats(k, v, x)
  BY LeaderExists
<1>2. w \in ws /\ \A x \in ws : Beats(k, w, x)
  BY LeaderExists
<1> HIDE DEF v, w
<1>3. ASSUME w \in vs PROVE w = v
  BY <1>1, <1>2, <1>3, BeatsAntisymmetric DEF v
<1> QED
  BY <1>2, <1>3 DEF v, w

(* Nodes that agree on the membership agree on the leader, and one of them leads: no
   two nodes both find IsLeader true for a key, and if every validator asks, one does. *)
THEOREM OneLeader ==
  ASSUME NEW k \in Routes, NEW vs \in SUBSET Ids, vs # {}
  PROVE  \E l \in vs : \A n \in vs : IsLeader(k, n, vs) <=> n = l
<1>1. LeaderFor(k, vs) \in vs
  BY LeaderExists
<1> QED
  BY <1>1 DEF IsLeader

-----------------------------------------------------------------------------
(* The shards of the store. *)
-----------------------------------------------------------------------------

HandleType == [state : {"none", "open", "closed"}, pages : SUBSET Procs, dirty : BOOLEAN, idle : Nat]
ProcType == [pc : {"idle", "get", "open", "install", "have", "local", "copy"},
             stage : {"none", "put", "apply", "lock", "source", "unlock"}, h : Handles \cup {0}]
JobType == [status : {"none", "locking", "copying", "replaying", "released", "failed"}, copy : SUBSET Procs]
DiskType == [file : BOOLEAN, pages : SUBSET Procs]

(* The types, with each record type under one name. *)
LEMMA ShardsTypes ==
  ASSUME ShardsTypeOK
  PROVE  /\ handle \in [Handles -> HandleType] /\ resident \in Handles \cup {0} /\ gc \in Handles \cup {0}
         /\ disk \in DiskType /\ proc \in [Procs -> ProcType] /\ job \in JobType
         /\ stored \in SUBSET Procs /\ barrier \in SUBSET stored /\ exits \in Nat
         /\ mclosed \in {"no", "set", "done"}
         /\ 0 \notin Handles /\ Migrator \in Procs
BY DEF ShardsTypeOK, HandleType, ProcType, JobType, DiskType, Handles, Procs

(* What becomes of the handles: one is touched, sealed or closed. *)
LEMMA HandleTouched ==
  ASSUME ShardsTypeOK, NEW k \in Handles, handle' = Touched(k)
  PROVE  /\ handle' \in [Handles -> HandleType]
         /\ \A h \in Handles : /\ handle'[h].state = handle[h].state /\ handle'[h].pages = handle[h].pages
                               /\ handle'[h].dirty = handle[h].dirty
<1>1. handle \in [Handles -> HandleType]
  BY ShardsTypes
<1>2. handle' \in [Handles -> HandleType]
  BY <1>1 DEF Touched, HandleType
<1> QED
  BY <1>1, <1>2 DEF Touched, HandleType

(* Shard.Checkpoint seals what was put through the handle, and only then writes the file. *)
LEMMA HandleSealed ==
  ASSUME ShardsTypeOK, NEW k \in Handles, Checkpoint(k)
  PROVE  /\ handle' \in [Handles -> HandleType] /\ disk' \in DiskType
         /\ \A h \in Handles : /\ handle'[h].state = handle[h].state /\ handle'[h].pages = handle[h].pages
                               /\ handle'[h].dirty = IF h = k THEN FALSE ELSE handle[h].dirty
         /\ IF handle[k].dirty THEN disk'.file /\ disk'.pages = handle[k].pages ELSE disk' = disk
<1>1. handle \in [Handles -> HandleType] /\ disk \in DiskType
  BY ShardsTypes
<1>2. handle' \in [Handles -> HandleType]
  BY Zenon, <1>1 DEF Checkpoint, HandleType
<1>3. \A h \in Handles : /\ handle'[h].state = handle[h].state /\ handle'[h].pages = handle[h].pages
                         /\ handle'[h].dirty = IF h = k THEN FALSE ELSE handle[h].dirty
  BY <1>1 DEF Checkpoint, HandleType
<1>4. disk' \in DiskType
  <2>1. handle[k].pages \in SUBSET Procs
    BY <1>1 DEF HandleType
  <2> QED
    BY <1>1, <2>1 DEF Checkpoint, Seal, DiskType
<1>5. IF handle[k].dirty THEN disk'.file /\ disk'.pages = handle[k].pages ELSE disk' = disk
  BY DEF Checkpoint, Seal
<1> QED
  BY Zenon, <1>2, <1>3, <1>4, <1>5

(* Shard.Close seals as Checkpoint does, and closes the handle. *)
LEMMA HandleClosed ==
  ASSUME ShardsTypeOK, NEW k \in Handles, Close(k)
  PROVE  /\ handle' \in [Handles -> HandleType] /\ disk' \in DiskType
         /\ \A h \in Handles :
              /\ handle'[h].pages = handle[h].pages
              /\ handle'[h].state = IF h = k THEN "closed" ELSE handle[h].state
              /\ handle'[h].dirty = IF h = k THEN FALSE ELSE handle[h].dirty
         /\ IF handle[k].dirty THEN disk'.file /\ disk'.pages = handle[k].pages ELSE disk' = disk
<1>1. handle \in [Handles -> HandleType] /\ disk \in DiskType
  BY ShardsTypes
<1>0. handle' = [handle EXCEPT ![k] = [handle[k] EXCEPT !.state = "closed", !.dirty = FALSE]]
  BY Zenon, <1>1 DEF Close, HandleType
<1>r. [handle[k] EXCEPT !.state = "closed", !.dirty = FALSE] \in HandleType
  <2>1. handle[k] \in HandleType
    BY <1>1
  <2> QED
    BY Zenon, <2>1 DEF HandleType
<1>2. handle' \in [Handles -> HandleType]
  BY <1>1, <1>0, <1>r
<1>3. \A h \in Handles :
              /\ handle'[h].pages = handle[h].pages
              /\ handle'[h].state = IF h = k THEN "closed" ELSE handle[h].state
              /\ handle'[h].dirty = IF h = k THEN FALSE ELSE handle[h].dirty
  BY <1>1, <1>0 DEF HandleType
<1>4. disk' \in DiskType
  <2>1. handle[k].pages \in SUBSET Procs
    BY <1>1 DEF HandleType
  <2> QED
    BY <1>1, <2>1 DEF Close, Seal, DiskType
<1>5. IF handle[k].dirty THEN disk'.file /\ disk'.pages = handle[k].pages ELSE disk' = disk
  BY DEF Close, Seal
<1> QED
  BY Zenon, <1>2, <1>3, <1>4, <1>5

(* What becomes of the procs. *)
LEMMA ProcMoved ==
  ASSUME ShardsTypeOK, NEW t \in Procs, NEW pc \in {"open", "install", "have", "local", "copy"},
         NEW h \in Handles \cup {0}, Moves(t, pc, h)
  PROVE  /\ proc' \in [Procs -> ProcType] /\ proc'[t].pc = pc /\ proc'[t].h = h /\ proc'[t].stage = proc[t].stage
         /\ \A u \in Procs : u # t => proc'[u] = proc[u]
<1>1. proc \in [Procs -> ProcType]
  BY ShardsTypes
<1>2. proc' = [proc EXCEPT ![t] = [proc[t] EXCEPT !.pc = pc, !.h = h]]
  BY Zenon, <1>1 DEF Moves, ProcType
<1>3. [proc[t] EXCEPT !.pc = pc, !.h = h] \in ProcType
  <2>1. proc[t] \in ProcType
    BY <1>1
  <2> QED
    BY Zenon, <2>1 DEF ProcType
<1> QED
  BY <1>1, <1>2, <1>3 DEF ProcType

(* A proc that enters Manager.Get. *)
LEMMA ProcEnters ==
  ASSUME ShardsTypeOK, NEW t \in Procs, NEW s \in {"put", "apply", "lock", "source", "unlock"},
         Enters(t, s, "get")
  PROVE  /\ proc' \in [Procs -> ProcType] /\ proc'[t].pc = "get" /\ proc'[t].stage = s
         /\ \A u \in Procs : u # t => proc'[u] = proc[u]
<1>1. proc \in [Procs -> ProcType]
  BY ShardsTypes
<1>2. [pc |-> "get", stage |-> s, h |-> 0] \in ProcType
  BY DEF ProcType
<1> QED
  BY <1>1, <1>2 DEF Enters

(* A proc that has returned. *)
LEMMA ProcParked ==
  ASSUME ShardsTypeOK, NEW t \in Procs, proc' = [proc EXCEPT ![t] = Parked]
  PROVE  /\ proc' \in [Procs -> ProcType] /\ proc'[t].pc = "idle" /\ proc'[t].stage = "none"
         /\ \A u \in Procs : u # t => proc'[u] = proc[u]
<1>1. proc \in [Procs -> ProcType]
  BY ShardsTypes
<1>2. Parked \in ProcType
  BY DEF ProcType, Parked
<1> QED
  BY <1>1, <1>2 DEF Parked

-----------------------------------------------------------------------------
(* Steps that leave what the handles hold alone: a proc moves, but not to Install. *)
SameHandles ==
  /\ handle' \in [Handles -> HandleType]
  /\ \A h \in Handles : /\ handle'[h].state = handle[h].state /\ handle'[h].pages = handle[h].pages
                        /\ handle'[h].dirty = handle[h].dirty

StageOK(t) ==
  /\ proc[t].stage \in {"put", "apply"} => t \in Writers
  /\ proc[t].stage \in {"lock", "source", "unlock"} => t = Migrator
  /\ proc[t].pc = "local" => proc[t].stage = "apply"
  /\ proc[t].pc = "copy" => proc[t].stage = "source"

HolderOK(t) ==
  proc[t].pc \in {"have", "local", "copy"} =>
    /\ proc[t].h \in Handles /\ handle[proc[t].h].state # "none"
    /\ handle[proc[t].h].state = "open" => proc[t].h = resident

InstallerOK(t) ==
  Installing(t) =>
    /\ proc[t].h \in Handles \ {resident}
    /\ handle[proc[t].h].state = "open" /\ ~handle[proc[t].h].dirty
    /\ \A u \in Procs : u # t /\ Installing(u) => proc[u].h # proc[t].h

GcOK ==
  gc # 0 => handle[gc].state # "none" /\ (handle[gc].state = "open" => gc = resident /\ mclosed # "done")

(* What the invariant says of the handles, proc by proc. *)
LEMMA HandlesByProc ==
  HandlesHeld <=>
    /\ resident # 0 => handle[resident].state = "open"
    /\ GcOK /\ \A t \in Procs : InstallerOK(t) /\ HolderOK(t) /\ StageOK(t)
BY DEF HandlesHeld, GcOK, InstallerOK, HolderOK, StageOK

(* A step of one proc that leaves the handles, the map and the file alone. *)
LEMMA QuietStep ==
  ASSUME ShardsInv, SameHandles, UNCHANGED <<resident, mclosed, disk, gc, stored>>,
         NEW t \in Procs, proc' \in [Procs -> ProcType], \A u \in Procs : u # t => proc'[u] = proc[u],
         proc'[t].pc # "install", StageOK(t)',
         proc'[t].pc \in {"have", "local", "copy"} =>
           /\ proc'[t].h \in Handles /\ handle[proc'[t].h].state # "none"
           /\ handle[proc'[t].h].state = "open" => proc'[t].h = resident
  PROVE  HandlesHeld' /\ PagesHeld' /\ (barrier' = barrier /\ Barriered => Barriered')
<1>t. /\ handle \in [Handles -> HandleType] /\ resident \in Handles \cup {0} /\ gc \in Handles \cup {0}
      /\ proc \in [Procs -> ProcType] /\ 0 \notin Handles
  BY ShardsTypes DEF ShardsInv
<1>h. /\ resident # 0 => handle[resident].state = "open"
      /\ GcOK /\ \A u \in Procs : InstallerOK(u) /\ HolderOK(u) /\ StageOK(u)
  BY HandlesByProc DEF ShardsInv
<1>s. \A h \in Handles : /\ handle'[h].state = handle[h].state /\ handle'[h].pages = handle[h].pages
                        /\ handle'[h].dirty = handle[h].dirty
  BY DEF SameHandles
<1>i. \A u \in Procs : Installing(u)' => u # t /\ Installing(u) /\ proc'[u] = proc[u]
  BY DEF Installing
<1>j. \A u \in Procs : Installing(u) => proc[u].h \in Handles
  BY <1>h DEF InstallerOK
<1>1. ASSUME NEW u \in Procs PROVE InstallerOK(u)'
  BY SMTT(30), <1>h, <1>s, <1>i DEF InstallerOK
<1>2. ASSUME NEW u \in Procs PROVE HolderOK(u)' /\ StageOK(u)'
  <2>1. CASE u = t
    BY <2>1, <1>s DEF HolderOK
  <2>2. CASE u # t
    BY <2>2, <1>h, <1>s DEF HolderOK, StageOK
  <2> QED
    BY <2>1, <2>2
<1>3. GcOK' /\ (resident' # 0 => handle'[resident'].state = "open")
  BY <1>t, <1>h, <1>s DEF GcOK
<1>4. HandlesHeld'
  BY <1>1, <1>2, <1>3 DEF HandlesHeld, GcOK, InstallerOK, HolderOK, StageOK
<1>5. LateSeal => LateSeal'
  BY Zenon, <1>t, <1>s DEF LateSeal
<1>6. PagesHeld'
  BY <1>t, <1>s, <1>i, <1>j, <1>5 DEF ShardsInv, PagesHeld
<1>7. barrier' = barrier /\ Barriered => Barriered'
  BY <1>t, <1>s, <1>i, <1>j DEF Barriered
<1> QED
  BY <1>4, <1>6, <1>7

(* BarrierHeld when the migrator does not move, or moves nowhere near a copy. *)
LEMMA BarrierStands ==
  ASSUME BarrierHeld, CopyHeld', Barriered => Barriered',
         barrier \subseteq disk.pages => barrier' \subseteq disk'.pages,
         \/ /\ proc'[Migrator] = proc[Migrator]
            /\ mclosed' = "done" /\ proc[Migrator].pc = "have" /\ IsOpen(Migrator)'
                 => mclosed = "done" /\ IsOpen(Migrator)
         \/ proc'[Migrator].stage # "source"
         \/ proc'[Migrator].pc \in {"idle", "get"}
  PROVE  BarrierHeld'
<1>1. CASE proc'[Migrator].stage # "source"
  BY <1>1 DEF BarrierHeld
<1>2. CASE proc'[Migrator].pc \in {"idle", "get"}
  BY <1>2 DEF BarrierHeld
<1>3. CASE /\ proc'[Migrator] = proc[Migrator]
           /\ mclosed' = "done" /\ proc[Migrator].pc = "have" /\ IsOpen(Migrator)'
                => mclosed = "done" /\ IsOpen(Migrator)
  BY <1>3 DEF BarrierHeld
<1> QED
  BY <1>1, <1>2, <1>3

(* The types after a step, from the types of the parts. *)
LEMMA TypesPrimed ==
  ASSUME handle' \in [Handles -> HandleType], resident' \in Handles \cup {0}, gc' \in Handles \cup {0},
         disk' \in DiskType, proc' \in [Procs -> ProcType], job' \in JobType,
         stored' \in SUBSET Procs, barrier' \in SUBSET stored', exits' \in Nat,
         mclosed' \in {"no", "set", "done"}
  PROVE  ShardsTypeOK'
BY DEF ShardsTypeOK, HandleType, ProcType, JobType, DiskType

(* Handles that did not change are the same handles. *)
LEMMA HandlesKept ==
  ASSUME ShardsTypeOK
  PROVE  handle' = handle => SameHandles
BY ShardsTypes DEF SameHandles

(* The touch of Manager.Get resets the idle count, and nothing else of the handle. *)
LEMMA TouchKeeps ==
  ASSUME ShardsTypeOK, NEW k \in Handles
  PROVE  handle' = Touched(k) => SameHandles
BY HandleTouched, Zenon DEF SameHandles

(* The writers' quiet steps: storePut, ShardPut, applyFrame. *)
LEMMA WriterSteps ==
  ASSUME ShardsInv, NEW t \in Procs, storePut(t) \/ ShardPut(t) \/ applyFrame(t)
  PROVE  ShardsInv'
<1>t. ShardsTypeOK /\ HandlesHeld /\ BarrierHeld
  BY DEF ShardsInv
<1>v. /\ handle \in [Handles -> HandleType] /\ resident \in Handles \cup {0} /\ gc \in Handles \cup {0}
      /\ disk \in DiskType /\ proc \in [Procs -> ProcType] /\ job \in JobType
      /\ stored \in SUBSET Procs /\ barrier \in SUBSET stored /\ exits \in Nat
      /\ mclosed \in {"no", "set", "done"} /\ 0 \notin Handles /\ Migrator \in Procs
  BY <1>t, ShardsTypes
<1>u. UNCHANGED <<resident, mclosed, disk, gc, job, stored, barrier, exits>>
  BY DEF storePut, ShardPut, applyFrame
<1>h. InstallerOK(t) /\ HolderOK(t) /\ StageOK(t)
  BY <1>t, HandlesByProc
<1>w. t \in Writers /\ t # Migrator
  BY <1>h, ShardsAssumption DEF StageOK, storePut, ShardPut, applyFrame, Has
<1>1. /\ SameHandles /\ proc' \in [Procs -> ProcType] /\ (\A u \in Procs : u # t => proc'[u] = proc[u])
      /\ proc'[t].pc # "install" /\ StageOK(t)'
      /\ proc'[t].pc \in {"have", "local", "copy"} =>
           /\ proc'[t].h \in Handles /\ handle[proc'[t].h].state # "none"
           /\ handle[proc'[t].h].state = "open" => proc'[t].h = resident
  <2> DEFINE Goal == /\ SameHandles /\ proc' \in [Procs -> ProcType]
                     /\ (\A u \in Procs : u # t => proc'[u] = proc[u])
                     /\ proc'[t].pc # "install" /\ StageOK(t)'
                     /\ proc'[t].pc \in {"have", "local", "copy"} =>
                          /\ proc'[t].h \in Handles /\ handle[proc'[t].h].state # "none"
                          /\ handle[proc'[t].h].state = "open" => proc'[t].h = resident
  <2>1. ASSUME proc' = [proc EXCEPT ![t] = Parked], handle' = handle PROVE Goal
    BY Zenon, <2>1, <1>t, ProcParked, HandlesKept DEF StageOK
  <2>2. ASSUME NEW s \in {"put", "apply"}, Enters(t, s, "get"), SameHandles PROVE Goal
    BY ZenonT(30), <2>2, <1>t, <1>w, ProcEnters DEF StageOK
  <2>3. ASSUME Moves(t, "local", proc[t].h), SameHandles, Has(t, "apply") PROVE Goal
    <3>1. proc[t].h \in Handles
      BY <1>h, <2>3 DEF HolderOK, Has
    <3>2. /\ proc' \in [Procs -> ProcType] /\ proc'[t].pc = "local" /\ proc'[t].h = proc[t].h
          /\ proc'[t].stage = proc[t].stage /\ \A u \in Procs : u # t => proc'[u] = proc[u]
      BY <1>t, <2>3, <3>1, ProcMoved
    <3> QED
      BY <1>h, <1>w, <2>3, <3>2 DEF StageOK, HolderOK, Has
  <2>4. CASE storePut(t)
    BY ZenonT(30), <1>t, <2>2, <2>4, HandlesKept DEF storePut
  <2>5. CASE ShardPut(t) \/ applyFrame(t)
    <3>1. proc[t].h \in Handles
      BY Zenon, <1>h, <2>5 DEF HolderOK, Has, ShardPut, applyFrame
    <3>2. CASE IsOpen(t)
      <4>1. SameHandles
        BY <1>t, <2>5, <3>1, <3>2, TouchKeeps DEF ShardPut, applyFrame
      <4> QED
        BY Zenon, <2>2, <2>3, <2>5, <3>2, <4>1 DEF ShardPut, applyFrame, Proposes
    <3>3. CASE ~IsOpen(t)
      BY ZenonT(30), <2>1, <2>5, <3>3 DEF ShardPut, applyFrame
    <3> QED
      BY <3>2, <3>3
  <2> QED
    BY <2>4, <2>5
<1>2. HandlesHeld' /\ PagesHeld' /\ (Barriered => Barriered')
  BY Zenon, <1>1, <1>u, QuietStep
<1>3. proc'[Migrator] = proc[Migrator]
  BY <1>1, <1>v, <1>w
<1>4. proc[Migrator].pc = "have" => (IsOpen(Migrator)' <=> IsOpen(Migrator))
  <2>1. HolderOK(Migrator)
    BY <1>t, <1>v, HandlesByProc
  <2> QED
    BY <1>1, <1>3, <2>1 DEF IsOpen, HolderOK, SameHandles
<1>5. BarrierHeld'
  <2>1. CopyHeld'
    BY Zenon, <1>t, <1>u, <1>3 DEF BarrierHeld, CopyHeld, CopyHasBarrier
  <2> QED
    BY <1>t, <1>u, <1>2, <1>3, <1>4, <2>1, BarrierStands
<1>6. ShardsTypeOK'
  BY <1>1, <1>u, <1>v, TypesPrimed DEF SameHandles
<1> QED
  BY <1>2, <1>5, <1>6 DEF ShardsInv

(* The migrator's quiet steps: Migrate, Lock, CopyFile, Unlock. *)
LEMMA MigratorSteps ==
  ASSUME ShardsInv, NEW t \in Procs, Migrate(t) \/ Lock(t) \/ CopyFile(t) \/ Unlock(t)
  PROVE  ShardsInv'
<1>t. ShardsTypeOK /\ HandlesHeld /\ BarrierHeld
  BY DEF ShardsInv
<1>v. /\ handle \in [Handles -> HandleType] /\ resident \in Handles \cup {0} /\ gc \in Handles \cup {0}
      /\ disk \in DiskType /\ proc \in [Procs -> ProcType] /\ job \in JobType
      /\ stored \in SUBSET Procs /\ barrier \in SUBSET stored /\ exits \in Nat
      /\ mclosed \in {"no", "set", "done"} /\ 0 \notin Handles /\ Migrator \in Procs
  BY <1>t, ShardsTypes
<1>u. UNCHANGED <<resident, mclosed, disk, gc, stored, exits>>
  BY DEF Migrate, Lock, CopyFile, Unlock
<1>h. InstallerOK(t) /\ HolderOK(t) /\ StageOK(t)
  BY Zenon, <1>t, HandlesByProc
<1>w. t = Migrator
  BY <1>h DEF StageOK, Migrate, Lock, CopyFile, Unlock, Has
<1>1. /\ SameHandles /\ proc' \in [Procs -> ProcType] /\ (\A u \in Procs : u # t => proc'[u] = proc[u])
      /\ proc'[t].pc \in {"idle", "get"} /\ StageOK(t)'
  <2> DEFINE Goal == /\ SameHandles /\ proc' \in [Procs -> ProcType]
                     /\ (\A u \in Procs : u # t => proc'[u] = proc[u])
                     /\ proc'[t].pc \in {"idle", "get"} /\ StageOK(t)'
  <2>1. ASSUME proc' = [proc EXCEPT ![t] = Parked], SameHandles PROVE Goal
    BY Zenon, <2>1, <1>t, ProcParked DEF StageOK
  <2>2. ASSUME NEW s \in {"lock", "source", "unlock"}, Enters(t, s, "get"), SameHandles PROVE Goal
    BY <2>2, <1>t, <1>w, ProcEnters DEF StageOK
  <2>3. CASE Migrate(t) \/ CopyFile(t)
    BY Zenon, <1>t, <2>1, <2>2, <2>3, HandlesKept DEF Migrate, CopyFile, Fails
  <2>4. CASE Lock(t) \/ Unlock(t)
    <3>1. proc[t].h \in Handles
      BY <1>h, <2>4 DEF HolderOK, Has, Lock, Unlock
    <3>2. SameHandles
      BY <1>t, <2>4, <3>1, TouchKeeps, HandlesKept DEF Lock, Unlock
    <3> QED
      BY Zenon, <2>1, <2>2, <2>4, <3>2 DEF Lock, Unlock, Fails
  <2> QED
    BY <2>3, <2>4
<1>2. HandlesHeld' /\ PagesHeld'
  BY Zenon, <1>1, <1>u, QuietStep
<1>3. job' \in JobType /\ barrier' \in SUBSET stored' /\ CopyHeld'
  <2>0. disk.pages \in SUBSET Procs
    BY <1>v DEF DiskType
  <2>1. CASE Migrate(t)
    <3>1. proc'[t].stage = "lock"
      BY <1>t, <2>1, ProcEnters DEF Migrate
    <3>2. job' \in JobType /\ job'.status = "locking" /\ barrier' = barrier
      BY <1>v, <2>1 DEF Migrate, JobType
    <3> QED
      BY <1>v, <1>u, <1>w, <3>1, <3>2 DEF CopyHeld, CopyHasBarrier
  <2>2. CASE Lock(t)
    <3>1. \/ job' = [job EXCEPT !.status = "copying"] /\ barrier' = stored /\ Enters(t, "source", "get")
          \/ job' = [job EXCEPT !.status = "failed"] /\ barrier' = barrier /\ proc' = [proc EXCEPT ![t] = Parked]
      BY <2>2 DEF Lock, Fails
    <3>2. job' \in JobType /\ job'.status \in {"copying", "failed"}
      BY <1>v, <3>1 DEF JobType
    <3>3. proc'[t].stage \in {"source", "none"}
      BY Zenon, <1>t, <3>1, ProcEnters, ProcParked
    <3> QED
      BY <1>v, <1>u, <1>w, <3>1, <3>2, <3>3 DEF CopyHeld, CopyHasBarrier
  <2>3. CASE CopyFile(t)
    <3>1. barrier \subseteq disk.pages
      BY Zenon, <1>t, <1>h, <1>w, <2>3 DEF CopyFile, StageOK, BarrierHeld
    <3>2. barrier' = barrier
      BY Zenon, <2>3 DEF CopyFile
    <3>3. CASE job' = [status |-> "replaying", copy |-> disk.pages]
      BY Zenon, <1>v, <1>u, <2>0, <3>1, <3>2, <3>3 DEF JobType, CopyHeld, CopyHasBarrier
    <3>4. CASE Fails(t)
      <4>1. job' \in JobType /\ job'.status = "failed"
        BY <1>v, <3>4 DEF Fails, JobType
      <4>2. proc'[t].stage = "none"
        BY Zenon, <1>t, <3>4, ProcParked DEF Fails
      <4> QED
        BY <1>v, <1>u, <1>w, <3>2, <4>1, <4>2 DEF CopyHeld, CopyHasBarrier
    <3> QED
      BY Zenon, <2>3, <3>3, <3>4 DEF CopyFile
  <2>4. CASE Unlock(t)
    <3>1. barrier \subseteq job.copy /\ barrier' = barrier
      BY <1>t, <1>w, <2>4 DEF BarrierHeld, CopyHeld, Unlock, Has
    <3>2. job' \in JobType /\ job'.copy = job.copy
      BY <1>v, <2>4 DEF Unlock, Fails, JobType
    <3> QED
      BY <1>v, <1>u, <3>1, <3>2 DEF CopyHeld, CopyHasBarrier
  <2> QED
    BY <2>1, <2>2, <2>3, <2>4
<1>5. BarrierHeld'
  BY Zenon, <1>1, <1>3, <1>w DEF BarrierHeld
<1>6. ShardsTypeOK'
  BY Zenon, <1>1, <1>u, <1>v, <1>3, TypesPrimed DEF SameHandles
<1> QED
  BY <1>2, <1>5, <1>6 DEF ShardsInv

(* Manager.Get: the resident handle, or on to openShard. *)
LEMMA GetStep ==
  ASSUME ShardsInv, NEW t \in Procs, ManagerGet(t)
  PROVE  ShardsInv'
<1>t. ShardsTypeOK /\ HandlesHeld /\ PagesHeld /\ BarrierHeld
  BY DEF ShardsInv
<1>v. /\ handle \in [Handles -> HandleType] /\ resident \in Handles \cup {0} /\ gc \in Handles \cup {0}
      /\ disk \in DiskType /\ proc \in [Procs -> ProcType] /\ job \in JobType
      /\ stored \in SUBSET Procs /\ barrier \in SUBSET stored /\ exits \in Nat
      /\ mclosed \in {"no", "set", "done"} /\ 0 \notin Handles /\ Migrator \in Procs
  BY <1>t, ShardsTypes
<1>u. UNCHANGED <<resident, mclosed, disk, gc, stored, barrier, exits>>
  BY DEF ManagerGet
<1>h. /\ resident # 0 => handle[resident].state = "open"
      /\ GcOK /\ \A u \in Procs : InstallerOK(u) /\ HolderOK(u) /\ StageOK(u)
  BY <1>t, HandlesByProc
<1>1. /\ SameHandles /\ proc' \in [Procs -> ProcType] /\ (\A u \in Procs : u # t => proc'[u] = proc[u])
      /\ proc'[t].pc \in {"idle", "have", "open"} /\ proc'[t].stage \in {proc[t].stage, "none"} /\ StageOK(t)'
      /\ proc'[t].pc = "have" => proc'[t].h = resident /\ resident # 0 /\ mclosed = "no"
      /\ proc'[t].pc = "open" => resident = 0 /\ mclosed = "no"
  <2>1. CASE mclosed # "no" /\ proc' = [proc EXCEPT ![t] = Parked] /\ UNCHANGED handle
    BY Zenon, <2>1, <1>t, ProcParked, HandlesKept DEF StageOK
  <2>2. CASE mclosed = "no" /\ resident # 0 /\ handle' = Touched(resident) /\ Moves(t, "have", resident)
    <3>1. SameHandles
      BY <1>t, <1>v, <2>2, TouchKeeps
    <3>2. /\ proc' \in [Procs -> ProcType] /\ proc'[t].pc = "have" /\ proc'[t].h = resident
          /\ proc'[t].stage = proc[t].stage /\ \A u \in Procs : u # t => proc'[u] = proc[u]
      BY <1>t, <1>v, <2>2, ProcMoved
    <3> QED
      BY Zenon, <1>h, <2>2, <3>1, <3>2 DEF StageOK
  <2>3. CASE mclosed = "no" /\ resident = 0 /\ Moves(t, "open", 0) /\ UNCHANGED handle
    <3>2. /\ proc' \in [Procs -> ProcType] /\ proc'[t].pc = "open"
          /\ proc'[t].stage = proc[t].stage /\ \A u \in Procs : u # t => proc'[u] = proc[u]
      BY Zenon, <1>t, <1>v, <2>3, ProcMoved
    <3> QED
      BY Zenon, <1>h, <1>t, <2>3, <3>2, HandlesKept DEF StageOK
  <2> QED
    BY <2>1, <2>2, <2>3 DEF ManagerGet
<1>2. HandlesHeld' /\ PagesHeld' /\ (Barriered => Barriered')
  BY ZenonT(30), <1>1, <1>u, <1>h, <1>v, QuietStep
<1>3. job' \in JobType /\ CopyHeld'
  <2>1. /\ job.status \in {"replaying", "released"} => barrier \subseteq job.copy
        /\ proc[Migrator].stage = "unlock" => barrier \subseteq job.copy
    BY <1>t DEF BarrierHeld, CopyHeld, CopyHasBarrier
  <2>2. job' \in JobType /\ job'.copy = job.copy /\ job'.status \in {job.status, "failed"}
    BY <1>v DEF ManagerGet, JobType
  <2>3. proc'[Migrator].stage \in {proc[Migrator].stage, "none"}
    BY <1>v, <1>1
  <2> QED
    BY <1>u, <2>1, <2>2, <2>3 DEF CopyHeld, CopyHasBarrier
<1>4. BarrierHeld'
  <2>1. CASE t # Migrator
    <3>1. proc'[Migrator] = proc[Migrator]
      BY Zenon, <1>1, <1>v, <2>1
    <3>2. proc[Migrator].pc = "have" => (IsOpen(Migrator)' <=> IsOpen(Migrator))
      <4>1. HolderOK(Migrator)
        BY Zenon, <1>v, <1>h
      <4> QED
        BY <1>1, <3>1, <4>1 DEF IsOpen, HolderOK, SameHandles
    <3> QED
      BY <1>t, <1>u, <1>2, <1>3, <3>1, <3>2, BarrierStands
  <2>2. CASE t = Migrator /\ proc'[t].pc # "open"
    BY ZenonT(30), <1>1, <1>3, <1>u, <2>2 DEF BarrierHeld
  <2>3. CASE t = Migrator /\ proc'[t].pc = "open"
    <3>1. Barriered
      BY Zenon, <1>t, <1>v, <1>1, <2>3 DEF PagesHeld, Barriered
    <3> QED
      BY <1>1, <1>2, <1>3, <2>3, <3>1 DEF BarrierHeld
  <2> QED
    BY Zenon, <2>1, <2>2, <2>3
<1>6. ShardsTypeOK'
  BY <1>1, <1>u, <1>v, <1>3, TypesPrimed DEF SameHandles
<1> QED
  BY <1>2, <1>4, <1>6 DEF ShardsInv

(* openShard, outside the lock of the Manager. *)
LEMMA OpenStep ==
  ASSUME ShardsInv, NEW t \in Procs, openShard(t)
  PROVE  ShardsInv'
<1>t. ShardsTypeOK /\ HandlesHeld /\ PagesHeld /\ BarrierHeld
  BY DEF ShardsInv
<1>v. /\ handle \in [Handles -> HandleType] /\ resident \in Handles \cup {0} /\ gc \in Handles \cup {0}
      /\ disk \in DiskType /\ proc \in [Procs -> ProcType] /\ job \in JobType
      /\ stored \in SUBSET Procs /\ barrier \in SUBSET stored /\ exits \in Nat
      /\ mclosed \in {"no", "set", "done"} /\ 0 \notin Handles /\ Migrator \in Procs
  BY <1>t, ShardsTypes
<1>u. UNCHANGED <<resident, mclosed, disk, gc, job, stored, barrier, exits>>
  BY Zenon DEF openShard
<1>h. /\ resident # 0 => handle[resident].state = "open"
      /\ GcOK /\ \A u \in Procs : InstallerOK(u) /\ HolderOK(u) /\ StageOK(u)
  BY <1>t, HandlesByProc
<1>o. PICK k \in Handles :
        /\ handle[k].state = "none"
        /\ handle' = [handle EXCEPT ![k] = [state |-> "open", pages |-> disk.pages, dirty |-> FALSE, idle |-> 0]]
        /\ Moves(t, "install", k)
  BY ZenonT(30) DEF openShard
<1>1. /\ proc' \in [Procs -> ProcType] /\ proc'[t].pc = "install" /\ proc'[t].h = k
      /\ proc'[t].stage = proc[t].stage /\ \A u \in Procs : u # t => proc'[u] = proc[u]
  BY <1>t, <1>o, ProcMoved
<1>2. handle' \in [Handles -> HandleType]
  <2>1. disk.pages \in SUBSET Procs
    BY <1>v DEF DiskType
  <2>2. [state |-> "open", pages |-> disk.pages, dirty |-> FALSE, idle |-> 0] \in HandleType
    BY Zenon, <2>1 DEF HandleType
  <2> QED
    BY <1>v, <1>o, <2>2
<1>3. /\ \A h \in Handles : h # k => handle'[h] = handle[h]
      /\ handle'[k].state = "open" /\ handle'[k].pages = disk.pages /\ ~handle'[k].dirty
  BY Zenon, <1>v, <1>o
<1>4. k # resident /\ k # gc /\ \A u \in Procs :
        /\ Installing(u) => proc[u].h # k /\ proc[u].h \in Handles
        /\ proc[u].pc \in {"have", "local", "copy"} => proc[u].h # k
  <2>1. k # resident /\ k # gc
    BY <1>v, <1>h, <1>o DEF GcOK
  <2>2. ASSUME NEW u \in Procs
        PROVE  /\ Installing(u) => proc[u].h # k /\ proc[u].h \in Handles
               /\ proc[u].pc \in {"have", "local", "copy"} => proc[u].h # k
    BY Zenon, <1>h, <1>o DEF InstallerOK, HolderOK
  <2> QED
    BY Zenon, <2>1, <2>2
<1>5. \A u \in Procs : InstallerOK(u)' /\ HolderOK(u)' /\ StageOK(u)'
  <2>1. ASSUME NEW u \in Procs, u # t PROVE HolderOK(u)' /\ StageOK(u)'
    BY SMTT(30), <1>h, <1>u, <1>1, <1>3, <1>4, <2>1 DEF HolderOK, StageOK
  <2>2. HolderOK(t)' /\ StageOK(t)'
    BY ZenonT(30), <1>h, <1>1 DEF HolderOK, StageOK
  <2>3. ASSUME NEW u \in Procs, u # t PROVE InstallerOK(u)'
    <3>1. InstallerOK(u)
      BY Zenon, <1>h
    <3> QED
      BY ZenonT(30), <3>1, <1>u, <1>1, <1>3, <1>4, <2>3 DEF InstallerOK, Installing
  <2>4. InstallerOK(t)'
    BY Zenon, <1>u, <1>1, <1>3, <1>4 DEF InstallerOK, Installing
  <2> QED
    BY Zenon, <2>1, <2>2, <2>3, <2>4
<1>6. GcOK' /\ (resident' # 0 => handle'[resident'].state = "open")
  BY <1>v, <1>h, <1>u, <1>3, <1>4 DEF GcOK
<1>7. HandlesHeld'
  BY Zenon, <1>5, <1>6 DEF HandlesHeld, GcOK, InstallerOK, HolderOK, StageOK
<1>8. PagesHeld'
  <2>1. resident # 0 => handle'[resident] = handle[resident]
    BY Zenon, <1>v, <1>3, <1>4
  <2>2. LateSeal => LateSeal'
    BY ZenonT(30), <1>u, <2>1 DEF LateSeal
  <2>3. \A u \in Procs : Installing(u)' => IF u = t THEN handle'[proc'[u].h].pages = disk.pages
                        ELSE Installing(u) /\ handle'[proc'[u].h] = handle[proc[u].h]
    BY <1>1, <1>3, <1>4 DEF Installing
  <2> QED
    BY Zenon, <1>t, <1>u, <2>1, <2>2, <2>3 DEF PagesHeld
<1>9. Barriered => Barriered'
  <2>1. resident # 0 => handle'[resident] = handle[resident]
    BY <1>v, <1>3, <1>4
  <2>3. \A u \in Procs : Installing(u)' => IF u = t THEN handle'[proc'[u].h].pages = disk.pages
                        ELSE Installing(u) /\ handle'[proc'[u].h] = handle[proc[u].h]
    BY <1>1, <1>3, <1>4 DEF Installing
  <2> QED
    BY ZenonT(30), <1>u, <2>1, <2>3 DEF Barriered
<1>10. BarrierHeld'
  <2>0. proc'[Migrator].stage = proc[Migrator].stage
    BY <1>v, <1>1
  <2>1. CopyHeld'
    BY Zenon, <1>t, <1>u, <2>0 DEF BarrierHeld, CopyHeld, CopyHasBarrier
  <2>2. CASE t = Migrator
    <3>1. proc[t].stage = "source" => Barriered
      BY Zenon, <1>t, <2>2 DEF BarrierHeld, openShard
    <3> QED
      BY ZenonT(30), <1>1, <1>9, <2>1, <2>2, <3>1 DEF BarrierHeld
  <2>3. CASE t # Migrator
    <3>1. proc'[Migrator] = proc[Migrator]
      BY ZenonT(30), <1>1, <1>v, <2>3
    <3>2. proc[Migrator].pc = "have" => (IsOpen(Migrator)' <=> IsOpen(Migrator))
      <4>1. HolderOK(Migrator)
        BY <1>v, <1>h
      <4>2. proc[Migrator].pc = "have" => proc[Migrator].h # k
        BY <1>v, <1>4
      <4> QED
        BY <1>3, <3>1, <4>1, <4>2 DEF IsOpen, HolderOK
    <3> QED
      BY Zenon, <1>t, <1>u, <1>9, <2>1, <3>1, <3>2, BarrierStands
  <2> QED
    BY <2>2, <2>3
<1>11. ShardsTypeOK'
  BY Zenon, <1>1, <1>2, <1>u, <1>v, TypesPrimed
<1> QED
  BY ZenonT(30), <1>7, <1>8, <1>10, <1>11 DEF ShardsInv

(* Manager.Get after openShard: the handle is installed, or given up for one that was. *)
LEMMA InstallStep ==
  ASSUME ShardsInv, NEW t \in Procs, Install(t)
  PROVE  ShardsInv'
<1>t. ShardsTypeOK /\ HandlesHeld /\ PagesHeld /\ BarrierHeld
  BY DEF ShardsInv
<1>v. /\ handle \in [Handles -> HandleType] /\ resident \in Handles \cup {0} /\ gc \in Handles \cup {0}
      /\ disk \in DiskType /\ proc \in [Procs -> ProcType] /\ job \in JobType
      /\ stored \in SUBSET Procs /\ barrier \in SUBSET stored /\ exits \in Nat
      /\ mclosed \in {"no", "set", "done"} /\ 0 \notin Handles /\ Migrator \in Procs
  BY <1>t, ShardsTypes
<1>h. /\ resident # 0 => handle[resident].state = "open"
      /\ GcOK /\ \A u \in Procs : InstallerOK(u) /\ HolderOK(u) /\ StageOK(u)
  BY <1>t, HandlesByProc
<1>u. UNCHANGED <<mclosed, gc, job, stored, barrier, exits>>
  BY DEF Install
<1>k. PICK k \in Handles : k = proc[t].h
  BY <1>h DEF InstallerOK, Installing, Install
<1>i. k # resident /\ handle[k].state = "open" /\ ~handle[k].dirty /\ Installing(t)
  BY <1>h, <1>k DEF InstallerOK, Installing, Install
<1>j. \A u \in Procs : u # t /\ Installing(u) => proc[u].h # k
  BY Zenon, <1>h, <1>k, <1>i DEF InstallerOK
<1>1. /\ handle' \in [Handles -> HandleType] /\ disk' = disk /\ resident' \in Handles
      /\ \A h \in Handles : /\ handle'[h].pages = handle[h].pages /\ handle'[h].dirty = handle[h].dirty
                            /\ handle'[h].state = IF resident # 0 /\ h = k THEN "closed" ELSE handle[h].state
      /\ resident' = IF resident # 0 THEN resident ELSE k
      /\ Moves(t, "have", resident')
  <2>1. CASE resident # 0
    <3>1. /\ disk' = Seal(k) /\ Moves(t, "have", resident) /\ resident' = resident
          /\ handle' = [handle EXCEPT ![k].state = "closed", ![resident].idle = 0]
      BY <2>1, <1>k DEF Install
    <3>2. disk' = disk
      BY <3>1, <1>i DEF Seal
    <3>3. handle' = [handle EXCEPT ![k] = [handle[k] EXCEPT !.state = "closed"],
                                   ![resident] = [handle[resident] EXCEPT !.idle = 0]]
      BY Zenon, <1>v, <1>i, <2>1, <3>1
    <3>4. /\ [handle[k] EXCEPT !.state = "closed"] \in HandleType
          /\ [handle[resident] EXCEPT !.idle = 0] \in HandleType
      <4>1. handle[k] \in HandleType /\ handle[resident] \in HandleType
        BY <1>v, <2>1
      <4> QED
        BY <4>1 DEF HandleType
    <3>5. handle' \in [Handles -> HandleType]
      BY <1>v, <2>1, <3>3, <3>4
    <3>6. \A h \in Handles : handle'[h] = IF h = k THEN [handle[k] EXCEPT !.state = "closed"]
                                          ELSE IF h = resident THEN [handle[resident] EXCEPT !.idle = 0] ELSE handle[h]
      BY <1>v, <1>i, <2>1, <3>3
    <3>7. \A h \in Handles : /\ handle'[h].pages = handle[h].pages /\ handle'[h].dirty = handle[h].dirty
                            /\ handle'[h].state = IF h = k THEN "closed" ELSE handle[h].state
      BY <1>v, <2>1, <3>6 DEF HandleType
    <3> QED
      BY <1>v, <2>1, <3>1, <3>2, <3>5, <3>7
  <2>2. CASE resident = 0
    BY Zenon, <2>2, <1>k, <1>v DEF Install
  <2> QED
    BY <2>1, <2>2
<1>2. /\ proc' \in [Procs -> ProcType] /\ proc'[t].pc = "have" /\ proc'[t].h = resident'
      /\ proc'[t].stage = proc[t].stage /\ \A u \in Procs : u # t => proc'[u] = proc[u]
  <2>1. resident' \in Handles \cup {0} /\ Moves(t, "have", resident')
    BY Zenon, <1>1
  <2> HIDE DEF Moves
  <2> QED
    BY Zenon, <1>t, <2>1, ProcMoved
<1>3. \A u \in Procs : Installing(u)' => u # t /\ Installing(u) /\ proc'[u] = proc[u] /\ proc[u].h \in Handles
  BY <1>h, <1>2 DEF Installing, InstallerOK
<1>4. \A u \in Procs : InstallerOK(u)' /\ HolderOK(u)' /\ StageOK(u)'
  <2>1. ASSUME NEW u \in Procs PROVE InstallerOK(u)'
    <3>1. InstallerOK(u)
      BY <1>h
    <3> QED
      BY ZenonT(30), <3>1, <1>1, <1>3, <1>j DEF InstallerOK
  <2>2. ASSUME NEW u \in Procs, u # t PROVE HolderOK(u)' /\ StageOK(u)'
    <3>1. HolderOK(u) /\ StageOK(u) /\ proc'[u] = proc[u]
      BY <1>h, <1>2, <2>2
    <3> QED
      BY Zenon, <3>1, <1>v, <1>1, <1>i DEF HolderOK, StageOK
  <2>3. HolderOK(t)' /\ StageOK(t)'
    BY Zenon, <1>h, <1>1, <1>2, <1>i DEF HolderOK, StageOK
  <2> QED
    BY <2>1, <2>2, <2>3
<1>5. GcOK' /\ (resident' # 0 => handle'[resident'].state = "open")
  BY Zenon, <1>v, <1>h, <1>u, <1>1, <1>i DEF GcOK
<1>6. HandlesHeld'
  BY Zenon, <1>4, <1>5 DEF HandlesHeld, GcOK, InstallerOK, HolderOK, StageOK
<1>7. PagesHeld'
  <2>1. LateSeal => LateSeal'
    BY <1>v, <1>u, <1>1 DEF LateSeal
  <2>2. resident = 0 /\ mclosed # "done" => stored \subseteq handle[k].pages
    BY ZenonT(30), <1>t, <1>i, <1>k DEF PagesHeld
  <2> QED
    BY Zenon, <1>t, <1>v, <1>u, <1>1, <2>1, <2>2 DEF PagesHeld
<1>8. Barriered => Barriered'
  BY SMTT(30), <1>v, <1>u, <1>1, <1>3, <1>i, <1>k DEF Barriered
<1>9. BarrierHeld'
  <2>0. proc'[Migrator].stage = proc[Migrator].stage
    BY <1>v, <1>2
  <2>1. CopyHeld'
    BY Zenon, <1>t, <1>u, <2>0 DEF BarrierHeld, CopyHeld, CopyHasBarrier
  <2>2. CASE t = Migrator
    <3>1. proc[t].stage = "source" => Barriered
      BY <1>t, <1>i, <2>2 DEF BarrierHeld, Installing
    <3> QED
      BY <1>2, <1>8, <2>1, <2>2, <3>1 DEF BarrierHeld
  <2>3. CASE t # Migrator
    <3>1. proc'[Migrator] = proc[Migrator] /\ HolderOK(Migrator)
      BY Zenon, <1>h, <1>2, <1>v, <2>3
    <3>2. proc[Migrator].pc = "have" => (IsOpen(Migrator)' => IsOpen(Migrator))
      BY Zenon, <1>1, <3>1 DEF IsOpen, HolderOK
    <3> QED
      BY Zenon, <1>t, <1>u, <1>1, <1>8, <2>1, <3>1, <3>2, BarrierStands
  <2> QED
    BY <2>2, <2>3
<1>11. ShardsTypeOK'
  BY Zenon, <1>1, <1>2, <1>u, <1>v, TypesPrimed
<1> QED
  BY <1>6, <1>7, <1>9, <1>11 DEF ShardsInv

(* A put through a handle. *)
LEMMA LocalPutStep ==
  ASSUME ShardsInv, NEW t \in Procs, localPut(t)
  PROVE  ShardsInv'
<1>t. ShardsTypeOK /\ HandlesHeld /\ PagesHeld /\ BarrierHeld
  BY DEF ShardsInv
<1>v. /\ handle \in [Handles -> HandleType] /\ resident \in Handles \cup {0} /\ gc \in Handles \cup {0}
      /\ disk \in DiskType /\ proc \in [Procs -> ProcType] /\ job \in JobType
      /\ stored \in SUBSET Procs /\ barrier \in SUBSET stored /\ exits \in Nat
      /\ mclosed \in {"no", "set", "done"} /\ 0 \notin Handles /\ Migrator \in Procs
  BY <1>t, ShardsTypes
<1>h. /\ resident # 0 => handle[resident].state = "open"
      /\ GcOK /\ \A u \in Procs : InstallerOK(u) /\ HolderOK(u) /\ StageOK(u)
  BY <1>t, HandlesByProc
<1>u. UNCHANGED <<resident, mclosed, disk, gc, job, barrier, exits>>
  BY DEF localPut
<1>w. t # Migrator
  BY <1>h, ShardsAssumption DEF StageOK, localPut
<1>k. PICK k \in Handles : k = proc[t].h
  BY <1>h DEF HolderOK, localPut
<1>1. /\ proc' \in [Procs -> ProcType] /\ proc'[t].pc = "idle" /\ proc'[t].stage = "none"
      /\ \A u \in Procs : u # t => proc'[u] = proc[u]
  BY Zenon, <1>t, ProcParked DEF localPut
<1>2. StageOK(t)'
  BY <1>1 DEF StageOK
<1>m. proc'[Migrator] = proc[Migrator] /\ HolderOK(Migrator)
  BY <1>h, <1>1, <1>v, <1>w
<1>c. CopyHeld'
  BY Zenon, <1>t, <1>u, <1>m DEF BarrierHeld, CopyHeld, CopyHasBarrier
<1>3. CASE ~IsOpen(t)
  <2>1. handle' = handle /\ stored' = stored
    BY <1>3 DEF localPut
  <2>2. SameHandles
    BY <1>t, <2>1, HandlesKept
  <2>3. HandlesHeld' /\ PagesHeld' /\ (Barriered => Barriered')
    BY Zenon, <1>1, <1>2, <1>u, <2>1, <2>2, QuietStep
  <2>4. BarrierHeld'
    BY Zenon, <1>t, <1>u, <1>c, <1>m, <2>1, <2>3, BarrierStands DEF IsOpen
  <2>5. ShardsTypeOK'
    BY Zenon, <1>1, <1>u, <1>v, <2>1, TypesPrimed
  <2> QED
    BY <2>3, <2>4, <2>5 DEF ShardsInv
<1>4. CASE IsOpen(t)
  <2>k. k = resident /\ handle[k].state = "open"
    BY <1>h, <1>k, <1>4 DEF HolderOK, IsOpen, localPut
  <2>0. /\ handle' = [handle EXCEPT ![k] = [handle[k] EXCEPT !.pages = handle[k].pages \cup {t}, !.dirty = TRUE]]
        /\ Accepts(t)
    BY Zenon, <1>v, <1>k, <1>4 DEF localPut
  <2>1. [handle[k] EXCEPT !.pages = handle[k].pages \cup {t}, !.dirty = TRUE] \in HandleType
    <3>1. handle[k] \in HandleType
      BY <1>v
    <3> QED
      BY Zenon, <3>1 DEF HandleType
  <2>2. handle' \in [Handles -> HandleType]
    BY <1>v, <2>0, <2>1
  <2>3. /\ \A h \in Handles : h # k => handle'[h] = handle[h]
        /\ handle'[k].state = "open" /\ handle'[k].dirty /\ handle'[k].pages = handle[k].pages \cup {t}
    <3>1. handle[k] \in HandleType
      BY <1>v
    <3> QED
      BY <1>v, <2>k, <2>0, <3>1 DEF HandleType
  <2>4. stored' = IF mclosed = "done" THEN stored ELSE stored \cup {t}
    BY <2>0 DEF Accepts
  <2>5. \A u \in Procs : Installing(u)' => /\ Installing(u) /\ proc'[u] = proc[u] /\ proc[u].h \in Handles
                                           /\ handle'[proc'[u].h] = handle[proc[u].h]
    BY ZenonT(30), <1>h, <1>1, <2>3, <2>k DEF Installing, InstallerOK
  <2>6. \A u \in Procs : InstallerOK(u)' /\ HolderOK(u)' /\ StageOK(u)'
    <3>1. ASSUME NEW u \in Procs PROVE InstallerOK(u)'
      <4>1. InstallerOK(u)
        BY <1>h
      <4> QED
        BY Zenon, <4>1, <1>u, <2>5 DEF InstallerOK
    <3>2. ASSUME NEW u \in Procs, u # t PROVE HolderOK(u)' /\ StageOK(u)'
      <4>1. HolderOK(u) /\ StageOK(u) /\ proc'[u] = proc[u]
        BY <1>h, <1>1, <3>2
      <4> QED
        BY <4>1, <1>u, <2>3, <2>k DEF HolderOK, StageOK
    <3>3. HolderOK(t)' /\ StageOK(t)'
      BY <1>1 DEF HolderOK, StageOK
    <3> QED
      BY <3>1, <3>2, <3>3
  <2>7. GcOK' /\ (resident' # 0 => handle'[resident'].state = "open")
    BY Zenon, <1>v, <1>h, <1>u, <2>3, <2>k DEF GcOK
  <2>8. HandlesHeld'
    BY Zenon, <2>6, <2>7 DEF HandlesHeld, GcOK, InstallerOK, HolderOK, StageOK
  <2>9. PagesHeld'
    <3>1. LateSeal => LateSeal'
      BY <1>u, <2>3, <2>k DEF LateSeal
    <3> QED
      BY Zenon, <1>t, <1>v, <1>u, <2>3, <2>4, <2>k, <3>1 DEF PagesHeld
  <2>10. Barriered => Barriered'
    BY Zenon, <1>v, <1>u, <2>3, <2>5, <2>k DEF Barriered
  <2>11. BarrierHeld'
    <3>1. proc[Migrator].pc = "have" => (IsOpen(Migrator)' => IsOpen(Migrator))
      BY Zenon, <1>m, <2>3, <2>k DEF IsOpen, HolderOK
    <3> QED
      BY Zenon, <1>t, <1>u, <1>c, <1>m, <2>10, <3>1, BarrierStands
  <2>12. ShardsTypeOK'
    <3>1. stored' \in SUBSET Procs /\ barrier' \in SUBSET stored'
      BY <1>v, <1>u, <2>4
    <3> QED
      BY <1>1, <2>2, <1>u, <1>v, <3>1, TypesPrimed
  <2> QED
    BY <2>8, <2>9, <2>11, <2>12 DEF ShardsInv
<1> QED
  BY <1>3, <1>4

(* The resident handle is sealed in place: the sweep's checkpoint, the migration's. *)
LEMMA Sealed ==
  ASSUME ShardsInv, resident # 0, Checkpoint(resident), UNCHANGED <<resident, mclosed, stored, barrier>>
  PROVE  /\ handle' \in [Handles -> HandleType] /\ disk' \in DiskType
         /\ \A h \in Handles : /\ handle'[h].state = handle[h].state /\ handle'[h].pages = handle[h].pages
                               /\ handle'[h].dirty => handle[h].dirty
         /\ PagesHeld'
         /\ disk'.pages \in {disk.pages, handle[resident].pages}
         /\ mclosed # "done" => stored \subseteq disk'.pages
<1>t. ShardsTypeOK /\ HandlesHeld /\ PagesHeld /\ BarrierHeld
  BY DEF ShardsInv
<1>v. /\ handle \in [Handles -> HandleType] /\ resident \in Handles \cup {0} /\ gc \in Handles \cup {0}
      /\ disk \in DiskType /\ proc \in [Procs -> ProcType] /\ job \in JobType
      /\ stored \in SUBSET Procs /\ barrier \in SUBSET stored /\ exits \in Nat
      /\ mclosed \in {"no", "set", "done"} /\ 0 \notin Handles /\ Migrator \in Procs
  BY <1>t, ShardsTypes
<1>h. /\ resident # 0 => handle[resident].state = "open"
      /\ GcOK /\ \A u \in Procs : InstallerOK(u) /\ HolderOK(u) /\ StageOK(u)
  BY Zenon, <1>t, HandlesByProc
<1>1. /\ handle' \in [Handles -> HandleType] /\ disk' \in DiskType
      /\ \A h \in Handles : /\ handle'[h].state = handle[h].state /\ handle'[h].pages = handle[h].pages
                            /\ handle'[h].dirty = IF h = resident THEN FALSE ELSE handle[h].dirty
      /\ IF handle[resident].dirty THEN disk'.file /\ disk'.pages = handle[resident].pages ELSE disk' = disk
  BY Zenon, <1>t, <1>v, HandleSealed
<1>2. mclosed # "done" => stored \subseteq disk'.pages /\ stored \subseteq handle[resident].pages
  BY Zenon, <1>t, <1>1 DEF PagesHeld
<1>3. mclosed = "done" => stored \subseteq disk'.pages \/ LateSeal'
  <2>1. CASE handle[resident].dirty
    BY Zenon, <1>1, <1>v, <2>1 DEF LateSeal
  <2>2. CASE ~handle[resident].dirty
    BY Zenon, <1>t, <1>1, <1>v, <2>2 DEF PagesHeld, LateSeal
  <2> QED
    BY Zenon, <2>1, <2>2
<1>4. (~disk'.file => disk'.pages = {})
  BY <1>t, <1>1 DEF PagesHeld
<1>5. PagesHeld'
  BY Zenon, <1>1, <1>2, <1>3, <1>4, <1>v DEF PagesHeld
<1> QED
  BY Zenon, <1>1, <1>2, <1>5, <1>v

(* Shard.Source: what the migration copies. *)
LEMMA SourceStep ==
  ASSUME ShardsInv, NEW t \in Procs, Source(t)
  PROVE  ShardsInv'
<1>t. ShardsTypeOK /\ HandlesHeld /\ PagesHeld /\ BarrierHeld
  BY DEF ShardsInv
<1>v. /\ handle \in [Handles -> HandleType] /\ resident \in Handles \cup {0} /\ gc \in Handles \cup {0}
      /\ disk \in DiskType /\ proc \in [Procs -> ProcType] /\ job \in JobType
      /\ stored \in SUBSET Procs /\ barrier \in SUBSET stored /\ exits \in Nat
      /\ mclosed \in {"no", "set", "done"} /\ 0 \notin Handles /\ Migrator \in Procs
  BY <1>t, ShardsTypes
<1>h. /\ resident # 0 => handle[resident].state = "open"
      /\ GcOK /\ \A u \in Procs : InstallerOK(u) /\ HolderOK(u) /\ StageOK(u)
  BY <1>t, HandlesByProc
<1>u. UNCHANGED <<resident, mclosed, gc, stored, barrier, exits>>
  BY DEF Source
<1>w. t = Migrator
  BY Zenon, <1>h DEF StageOK, Source, Has
<1>k. PICK k \in Handles : k = proc[t].h
  BY <1>h DEF HolderOK, Source, Has
<1>3. CASE ~IsOpen(t)
  <2>1. handle' = handle /\ disk' = disk /\ Fails(t)
    BY <1>3 DEF Source
  <2>2. SameHandles
    BY <1>t, <2>1, HandlesKept
  <2>0. /\ proc' \in [Procs -> ProcType] /\ proc'[t].pc = "idle" /\ proc'[t].stage = "none"
        /\ \A u \in Procs : u # t => proc'[u] = proc[u]
    BY Zenon, <1>t, <2>1, ProcParked DEF Fails
  <2>s. StageOK(t)'
    BY <2>0 DEF StageOK
  <2>3. HandlesHeld' /\ PagesHeld'
    BY <1>u, <2>0, <2>s, <2>1, <2>2, QuietStep
  <2>4. job' \in JobType /\ job'.status = "failed"
    BY <1>v, <2>1 DEF Fails, JobType
  <2>5. BarrierHeld'
    BY <1>w, <2>0, <2>4 DEF BarrierHeld, CopyHeld, CopyHasBarrier
  <2>6. ShardsTypeOK'
    BY <1>u, <1>v, <2>0, <2>1, <2>4, TypesPrimed
  <2> QED
    BY <2>3, <2>5, <2>6 DEF ShardsInv
<1>4. CASE IsOpen(t)
  <2>k. k = resident /\ resident # 0
    BY <1>h, <1>v, <1>k, <1>4 DEF HolderOK, IsOpen, Source, Has
  <2>0. Checkpoint(resident) /\ Moves(t, "copy", k) /\ job' = job
    BY <1>k, <1>4, <2>k DEF Source
  <2>1. /\ proc' \in [Procs -> ProcType] /\ proc'[t].pc = "copy" /\ proc'[t].h = k
        /\ proc'[t].stage = proc[t].stage /\ \A u \in Procs : u # t => proc'[u] = proc[u]
    BY <1>t, <2>0, ProcMoved
  <2>2. \A u \in Procs : Installing(u)' => u # t /\ Installing(u) /\ proc'[u] = proc[u]
    BY Zenon, <2>1 DEF Installing
  <2>3. /\ handle' \in [Handles -> HandleType] /\ disk' \in DiskType
        /\ \A h \in Handles : /\ handle'[h].state = handle[h].state /\ handle'[h].pages = handle[h].pages
                              /\ handle'[h].dirty => handle[h].dirty
        /\ disk'.pages \in {disk.pages, handle[resident].pages}
        /\ mclosed # "done" => stored \subseteq disk'.pages
    BY <1>u, <2>0, <2>k, Sealed
  <2>p. PagesHeld'
    BY Zenon, <1>u, <2>0, <2>k, Sealed
  <2>4. \A u \in Procs : InstallerOK(u)' /\ HolderOK(u)' /\ StageOK(u)'
    <3>1. ASSUME NEW u \in Procs PROVE InstallerOK(u)'
      <4>1. InstallerOK(u)
        BY <1>h
      <4> QED
        BY <4>1, <1>u, <2>2, <2>3 DEF InstallerOK
    <3>2. ASSUME NEW u \in Procs, u # t PROVE HolderOK(u)' /\ StageOK(u)'
      <4>1. HolderOK(u) /\ StageOK(u) /\ proc'[u] = proc[u]
        BY Zenon, <1>h, <2>1, <3>2
      <4> QED
        BY Zenon, <4>1, <1>u, <2>3 DEF HolderOK, StageOK
    <3>3. HolderOK(t)' /\ StageOK(t)'
      <4>1. HolderOK(t) /\ StageOK(t) /\ proc[t].pc = "have" /\ proc[t].stage = "source"
        BY Zenon, <1>h DEF Source, Has
      <4> QED
        BY ZenonT(30), <4>1, <1>u, <1>k, <2>1, <2>3 DEF HolderOK, StageOK
    <3> QED
      BY <3>1, <3>2, <3>3
  <2>5. GcOK' /\ (resident' # 0 => handle'[resident'].state = "open")
    BY <1>v, <1>h, <1>u, <2>3 DEF GcOK
  <2>6. HandlesHeld'
    BY Zenon, <2>4, <2>5 DEF HandlesHeld, GcOK, InstallerOK, HolderOK, StageOK
  <2>7. barrier \subseteq disk'.pages
    <3>1. CASE mclosed # "done"
      BY Zenon, <3>1, <1>v, <2>3
    <3>2. CASE mclosed = "done"
      <4>1. Barriered
        BY ZenonT(30), <1>t, <1>w, <1>4, <3>2 DEF BarrierHeld, Source, Has
      <4> QED
        BY Zenon, <4>1, <2>3, <2>k DEF Barriered
    <3> QED
      BY <3>1, <3>2
  <2>8. BarrierHeld'
    <3>1. CopyHeld'
      BY Zenon, <1>t, <1>u, <1>w, <2>0, <2>1 DEF BarrierHeld, CopyHeld, CopyHasBarrier
    <3> QED
      BY <1>u, <1>w, <2>1, <2>7, <3>1 DEF BarrierHeld
  <2>9. ShardsTypeOK'
    BY ZenonT(30), <1>u, <1>v, <2>0, <2>1, <2>3, TypesPrimed
  <2> QED
    BY Zenon, <2>6, <2>p, <2>8, <2>9 DEF ShardsInv
<1> QED
  BY <1>3, <1>4

(* The sweep and Close, which move no proc. *)
LEMMA MigratorStays ==
  ASSUME ShardsInv, UNCHANGED <<proc, job, barrier>>, Barriered => Barriered',
         barrier \subseteq disk.pages => barrier \subseteq disk'.pages,
         mclosed' = "done" /\ proc[Migrator].pc = "have" /\ IsOpen(Migrator)' => mclosed = "done" /\ IsOpen(Migrator)
  PROVE  BarrierHeld'
<1>1. CopyHeld' /\ BarrierHeld
  BY DEF ShardsInv, BarrierHeld, CopyHeld, CopyHasBarrier
<1> QED
  BY Zenon, <1>1, BarrierStands

(* checkpointAll, the seal on a timer. *)
LEMMA CheckpointStep ==
  ASSUME ShardsInv, checkpointAll
  PROVE  ShardsInv'
<1>t. ShardsTypeOK /\ HandlesHeld /\ PagesHeld /\ BarrierHeld
  BY DEF ShardsInv
<1>v. /\ handle \in [Handles -> HandleType] /\ resident \in Handles \cup {0} /\ gc \in Handles \cup {0}
      /\ disk \in DiskType /\ proc \in [Procs -> ProcType] /\ job \in JobType
      /\ stored \in SUBSET Procs /\ barrier \in SUBSET stored /\ exits \in Nat
      /\ mclosed \in {"no", "set", "done"} /\ 0 \notin Handles /\ Migrator \in Procs
  BY Zenon, <1>t, ShardsTypes
<1>h. /\ resident # 0 => handle[resident].state = "open"
      /\ GcOK /\ \A u \in Procs : InstallerOK(u) /\ HolderOK(u) /\ StageOK(u)
  BY <1>t, HandlesByProc
<1>u. UNCHANGED <<resident, mclosed, proc, job, stored, barrier, exits>> /\ gc \in Handles /\ gc' = 0
  BY <1>v DEF checkpointAll
<1>1. /\ handle' \in [Handles -> HandleType] /\ disk' \in DiskType
      /\ \A h \in Handles : /\ handle'[h].state = handle[h].state /\ handle'[h].pages = handle[h].pages
                            /\ handle'[h].dirty => handle[h].dirty
      /\ PagesHeld'
      /\ \/ disk' = disk
         \/ resident # 0 /\ stored \subseteq disk'.pages
  <2>1. CASE handle[gc].state = "open"
    <3>1. gc = resident /\ resident # 0 /\ mclosed # "done" /\ Checkpoint(resident)
      BY <1>h, <1>u, <1>v, <2>1 DEF GcOK, checkpointAll
    <3> QED
      BY <1>u, <3>1, Sealed
  <2>2. CASE handle[gc].state # "open"
    <3>1. handle' = handle /\ disk' = disk
      BY <2>2 DEF checkpointAll
    <3>2. PagesHeld'
      BY <1>t, <1>u, <3>1 DEF PagesHeld, LateSeal, Installing
    <3> QED
      BY <1>v, <3>1, <3>2
  <2> QED
    BY <2>1, <2>2
<1>2. \A u \in Procs : InstallerOK(u)' /\ HolderOK(u)' /\ StageOK(u)'
  <2>1. ASSUME NEW u \in Procs PROVE InstallerOK(u)' /\ HolderOK(u)' /\ StageOK(u)'
    <3>1. InstallerOK(u) /\ HolderOK(u) /\ StageOK(u)
      BY <1>h
    <3>2. InstallerOK(u)'
      BY Zenon, <3>1, <1>u, <1>1 DEF InstallerOK, Installing
    <3> QED
      BY Zenon, <3>1, <3>2, <1>u, <1>1 DEF HolderOK, StageOK
  <2> QED
    BY <2>1
<1>3. HandlesHeld'
  <2>1. GcOK' /\ (resident' # 0 => handle'[resident'].state = "open")
    BY Zenon, <1>v, <1>h, <1>u, <1>1 DEF GcOK
  <2> QED
    BY Zenon, <1>2, <2>1 DEF HandlesHeld, GcOK, InstallerOK, HolderOK, StageOK
<1>4. BarrierHeld'
  <2>1. Barriered => Barriered'
    <3>1. \A u \in Procs : Installing(u)' => Installing(u) /\ proc[u].h \in Handles
      BY Zenon, <1>h, <1>u DEF InstallerOK, Installing
    <3> QED
      BY Zenon, <1>v, <1>u, <1>1, <3>1 DEF Barriered
  <2>2. barrier \subseteq disk.pages => barrier \subseteq disk'.pages
    BY Zenon, <1>v, <1>1
  <2>3. proc[Migrator].pc = "have" => (IsOpen(Migrator)' => IsOpen(Migrator))
    BY Zenon, <1>h, <1>u, <1>v, <1>1 DEF IsOpen, HolderOK
  <2> QED
    BY Zenon, <1>u, <2>1, <2>2, <2>3, MigratorStays
<1>5. ShardsTypeOK'
  BY <1>u, <1>v, <1>1, TypesPrimed
<1> QED
  BY <1>1, <1>3, <1>4, <1>5 DEF ShardsInv

(* The resident handle is sealed and closed: an eviction, or Close. *)
LEMMA ResidentClosed ==
  ASSUME ShardsInv, resident # 0, mclosed # "done", Close(resident), resident' = 0, gc' \in {0, gc},
         UNCHANGED <<proc, job, stored, barrier, exits>>, mclosed' \in {"no", "set", "done"},
         mclosed' = "done" \/ \A u \in Procs : ~Installing(u)
  PROVE  ShardsInv'
<1>t. ShardsTypeOK /\ HandlesHeld /\ PagesHeld /\ BarrierHeld
  BY DEF ShardsInv
<1>v. /\ handle \in [Handles -> HandleType] /\ resident \in Handles \cup {0} /\ gc \in Handles \cup {0}
      /\ disk \in DiskType /\ proc \in [Procs -> ProcType] /\ job \in JobType
      /\ stored \in SUBSET Procs /\ barrier \in SUBSET stored /\ exits \in Nat
      /\ mclosed \in {"no", "set", "done"} /\ 0 \notin Handles /\ Migrator \in Procs
  BY Zenon, <1>t, ShardsTypes
<1>h. /\ resident # 0 => handle[resident].state = "open"
      /\ GcOK /\ \A u \in Procs : InstallerOK(u) /\ HolderOK(u) /\ StageOK(u)
  BY Zenon, <1>t, HandlesByProc
<1>1. /\ handle' \in [Handles -> HandleType] /\ disk' \in DiskType
      /\ \A h \in Handles :
           /\ handle'[h].pages = handle[h].pages
           /\ handle'[h].state = IF h = resident THEN "closed" ELSE handle[h].state
           /\ handle'[h].dirty = IF h = resident THEN FALSE ELSE handle[h].dirty
      /\ IF handle[resident].dirty THEN disk'.file /\ disk'.pages = handle[resident].pages ELSE disk' = disk
  BY Zenon, <1>t, <1>v, HandleClosed
<1>2. stored \subseteq disk'.pages /\ stored \subseteq handle[resident].pages
  BY Zenon, <1>t, <1>1 DEF PagesHeld
<1>3. PagesHeld'
  BY <1>t, <1>1, <1>2 DEF PagesHeld, Installing
<1>4. \A u \in Procs : InstallerOK(u)' /\ HolderOK(u)' /\ StageOK(u)'
  <2>1. ASSUME NEW u \in Procs PROVE InstallerOK(u)' /\ HolderOK(u)' /\ StageOK(u)'
    <3>1. InstallerOK(u) /\ HolderOK(u) /\ StageOK(u)
      BY Zenon, <1>h
    <3>2. InstallerOK(u)'
      BY Zenon, <3>1, <1>1, <1>v DEF InstallerOK, Installing
    <3> QED
      BY Zenon, <3>1, <3>2, <1>1 DEF HolderOK, StageOK
  <2> QED
    BY <2>1
<1>5. HandlesHeld'
  <2>1. GcOK'
    BY Zenon, <1>v, <1>h, <1>1 DEF GcOK
  <2> QED
    BY Zenon, <1>4, <2>1 DEF HandlesHeld, GcOK, InstallerOK, HolderOK, StageOK
<1>6. BarrierHeld'
  <2>1. Barriered => Barriered'
    <3>1. \A u \in Procs : Installing(u)' => Installing(u) /\ proc[u].h \in Handles
      BY Zenon, <1>h DEF InstallerOK, Installing
    <3> QED
      BY Zenon, <1>v, <1>1, <1>2, <3>1 DEF Barriered
  <2>2. barrier \subseteq disk'.pages
    BY Zenon, <1>v, <1>2
  <2>3. ~(proc[Migrator].pc = "have" /\ IsOpen(Migrator)')
    BY Zenon, <1>h, <1>v, <1>1 DEF IsOpen, HolderOK
  <2> QED
    BY Zenon, <2>1, <2>2, <2>3, MigratorStays
<1>7. ShardsTypeOK'
  BY Zenon, <1>v, <1>1, TypesPrimed
<1> QED
  BY <1>3, <1>5, <1>6, <1>7 DEF ShardsInv

(* The handles hold what they held, and no proc moves: a tick of the sweep, Close's
   flag, Close with no shard open. *)
LEMMA IdleStep ==
  ASSUME ShardsInv, SameHandles, UNCHANGED <<resident, disk, proc, job, stored, barrier, exits>>,
         gc' \in {gc, resident}, mclosed # "done", mclosed' \in {"no", "set", "done"},
         mclosed' = "done" => resident = 0
  PROVE  ShardsInv'
<1>t. ShardsTypeOK /\ HandlesHeld /\ PagesHeld /\ BarrierHeld
  BY DEF ShardsInv
<1>v. /\ handle \in [Handles -> HandleType] /\ resident \in Handles \cup {0} /\ gc \in Handles \cup {0}
      /\ disk \in DiskType /\ proc \in [Procs -> ProcType] /\ job \in JobType
      /\ stored \in SUBSET Procs /\ barrier \in SUBSET stored /\ exits \in Nat
      /\ mclosed \in {"no", "set", "done"} /\ 0 \notin Handles /\ Migrator \in Procs
  BY <1>t, ShardsTypes
<1>h. /\ resident # 0 => handle[resident].state = "open"
      /\ GcOK /\ \A u \in Procs : InstallerOK(u) /\ HolderOK(u) /\ StageOK(u)
  BY <1>t, HandlesByProc
<1>1. /\ handle' \in [Handles -> HandleType]
      /\ \A h \in Handles : /\ handle'[h].state = handle[h].state /\ handle'[h].pages = handle[h].pages
                            /\ handle'[h].dirty = handle[h].dirty
  BY DEF SameHandles
<1>2. \A u \in Procs : InstallerOK(u)' /\ HolderOK(u)' /\ StageOK(u)'
  <2>1. ASSUME NEW u \in Procs PROVE InstallerOK(u)' /\ HolderOK(u)' /\ StageOK(u)'
    <3>1. InstallerOK(u) /\ HolderOK(u) /\ StageOK(u)
      BY <1>h
    <3>2. InstallerOK(u)'
      BY ZenonT(30), <3>1, <1>1 DEF InstallerOK, Installing
    <3> QED
      BY Zenon, <3>1, <3>2, <1>1 DEF HolderOK, StageOK
  <2> QED
    BY <2>1
<1>3. HandlesHeld'
  <2>1. GcOK' /\ (resident' # 0 => handle'[resident'].state = "open")
    BY <1>v, <1>h, <1>1 DEF GcOK
  <2> QED
    BY Zenon, <1>2, <2>1 DEF HandlesHeld, GcOK, InstallerOK, HolderOK, StageOK
<1>i. \A u \in Procs : Installing(u)' => Installing(u) /\ proc[u].h \in Handles
  BY Zenon, <1>h DEF InstallerOK, Installing
<1>4. PagesHeld'
  BY Zenon, <1>t, <1>v, <1>1, <1>i DEF PagesHeld
<1>5. BarrierHeld'
  <2>1. Barriered => Barriered'
    BY <1>v, <1>1, <1>i DEF Barriered
  <2>2. proc[Migrator].pc = "have" /\ mclosed' = "done" => ~IsOpen(Migrator)'
    BY <1>h, <1>v, <1>1 DEF IsOpen, HolderOK
  <2> QED
    BY ZenonT(30), <2>1, <2>2, MigratorStays
<1>6. ShardsTypeOK'
  BY <1>v, <1>1, TypesPrimed
<1> QED
  BY <1>3, <1>4, <1>5, <1>6 DEF ShardsInv

(* The idle sweep, and Manager.Close. *)
LEMMA SweepAndClose ==
  ASSUME ShardsInv, evictIdle \/ CloseFlag \/ CloseShards
  PROVE  ShardsInv'
<1>t. ShardsTypeOK /\ HandlesHeld /\ PagesHeld /\ BarrierHeld
  BY DEF ShardsInv
<1>v. /\ handle \in [Handles -> HandleType] /\ resident \in Handles \cup {0} /\ gc \in Handles \cup {0}
      /\ disk \in DiskType /\ proc \in [Procs -> ProcType] /\ job \in JobType
      /\ stored \in SUBSET Procs /\ barrier \in SUBSET stored /\ exits \in Nat
      /\ mclosed \in {"no", "set", "done"} /\ 0 \notin Handles /\ Migrator \in Procs
  BY <1>t, ShardsTypes
<1>h. /\ resident # 0 => handle[resident].state = "open"
      /\ GcOK /\ \A u \in Procs : InstallerOK(u) /\ HolderOK(u) /\ StageOK(u)
  BY Zenon, <1>t, HandlesByProc
<1>1. CASE evictIdle
  <2>1. CASE handle[resident].idle + 1 >= IdleTicks
    <3>1. /\ Close(resident) /\ resident' = 0 /\ gc' = 0 /\ resident # 0 /\ mclosed = "no"
          /\ \A u \in Procs : ~Installing(u)
          /\ UNCHANGED <<mclosed, proc, job, stored, barrier, exits>>
      BY <1>1, <2>1 DEF evictIdle, OpenIsQuick, Installing
    <3> QED
      BY <3>1, ResidentClosed
  <2>2. CASE ~(handle[resident].idle + 1 >= IdleTicks)
    <3>1. /\ handle' = [handle EXCEPT ![resident].idle = @ + 1] /\ resident # 0 /\ mclosed = "no"
          /\ gc' = resident /\ UNCHANGED <<resident, disk, mclosed, proc, job, stored, barrier, exits>>
      BY <1>1, <2>2 DEF evictIdle
    <3>2. SameHandles
      <4>1. handle' \in [Handles -> HandleType]
        BY <1>v, <3>1 DEF HandleType
      <4> QED
        BY <1>v, <3>1, <4>1 DEF SameHandles, HandleType
    <3> QED
      BY <3>1, <3>2, IdleStep
  <2> QED
    BY <2>1, <2>2
<1>2. CASE CloseFlag
  <2>1. SameHandles
    BY <1>t, <1>2, HandlesKept DEF CloseFlag
  <2> QED
    BY <1>2, <2>1, IdleStep DEF CloseFlag
<1>3. CASE CloseShards
  <2>1. CASE resident = 0
    <3>1. SameHandles
      BY <1>t, <1>3, <2>1, HandlesKept DEF CloseShards
    <3> QED
      BY <1>3, <2>1, <3>1, IdleStep DEF CloseShards
  <2>2. CASE resident # 0
    BY <1>3, <2>2, ResidentClosed DEF CloseShards
  <2> QED
    BY <2>1, <2>2
<1> QED
  BY <1>1, <1>2, <1>3

(* An exit without Close: the file is what is left. *)
LEMMA ExitStep ==
  ASSUME ShardsInv, UncleanExit
  PROVE  ShardsInv'
<1>t. ShardsTypeOK /\ HandlesHeld /\ PagesHeld /\ BarrierHeld
  BY DEF ShardsInv
<1>v. /\ handle \in [Handles -> HandleType] /\ resident \in Handles \cup {0} /\ gc \in Handles \cup {0}
      /\ disk \in DiskType /\ proc \in [Procs -> ProcType] /\ job \in JobType
      /\ stored \in SUBSET Procs /\ barrier \in SUBSET stored /\ exits \in Nat
      /\ mclosed \in {"no", "set", "done"} /\ 0 \notin Handles /\ Migrator \in Procs
  BY <1>t, ShardsTypes
<1>h. /\ resident # 0 => handle[resident].state = "open"
      /\ GcOK /\ \A u \in Procs : InstallerOK(u) /\ HolderOK(u) /\ StageOK(u)
  BY <1>t, HandlesByProc
<1>1. handle' \in [Handles -> HandleType]
  <2>1. NoHandle \in HandleType /\ [NoHandle EXCEPT !.state = "closed"] \in HandleType
    BY Zenon DEF NoHandle, HandleType
  <2> QED
    BY <2>1 DEF UncleanExit
<1>2. /\ proc' \in [Procs -> ProcType]
      /\ \A u \in Procs : proc'[u].pc = "idle" /\ proc'[u].stage = "none"
  <2>1. Parked \in ProcType /\ Parked.pc = "idle" /\ Parked.stage = "none"
    BY DEF Parked, ProcType
  <2> QED
    BY <2>1 DEF UncleanExit
<1>3. job' \in JobType /\ job'.status = "none"
  BY DEF UncleanExit, JobType
<1>u. /\ resident' = 0 /\ mclosed' = "no" /\ gc' = 0 /\ disk' = disk /\ exits' = exits + 1
      /\ stored' = stored \cap disk.pages /\ barrier' = {}
  BY Zenon DEF UncleanExit
<1>4. HandlesHeld'
  BY Zenon, <1>2, <1>u DEF HandlesHeld, Installing
<1>5. PagesHeld'
  BY Zenon, <1>t, <1>2, <1>u DEF PagesHeld, Installing
<1>6. BarrierHeld'
  BY ZenonT(30), <1>2, <1>3, <1>v DEF BarrierHeld, CopyHeld, CopyHasBarrier
<1>7. ShardsTypeOK'
  BY SMTT(30), <1>1, <1>2, <1>3, <1>u, <1>v, TypesPrimed
<1> QED
  BY <1>4, <1>5, <1>6, <1>7 DEF ShardsInv

-----------------------------------------------------------------------------
(* The inductive invariant of Shards: an open handle is the resident one, or one that
   Manager.Get is about to install, and has every page of the file. *)
THEOREM ShardsInvariant == ShardsSpec => []ShardsInv
<1>1. ShardsInit => ShardsInv
  <2> SUFFICES ASSUME ShardsInit PROVE ShardsInv
    OBVIOUS
  <2>0. Migrator \in Procs /\ MaxHandles \in Nat
    BY ShardsAssumption DEF Procs
  <2>1. /\ \A u \in Procs : proc[u].pc = "idle" /\ proc[u].stage = "none"
    BY DEF ShardsInit, Parked
  <2>2. ShardsTypeOK
    BY Zenon, <2>0 DEF ShardsInit, ShardsTypeOK, NoHandle, Parked
  <2>3. HandlesHeld
    BY ZenonT(30), <2>1 DEF ShardsInit, HandlesHeld, Installing
  <2>4. PagesHeld
    BY Zenon, <2>1 DEF ShardsInit, PagesHeld, Installing
  <2>5. BarrierHeld
    BY <2>0, <2>1 DEF ShardsInit, BarrierHeld, CopyHeld, CopyHasBarrier
  <2> QED
    BY <2>2, <2>3, <2>4, <2>5 DEF ShardsInv
<1>2. ShardsInv /\ [ShardsNext]_shardVars => ShardsInv'
  <2> SUFFICES ASSUME ShardsInv, [ShardsNext]_shardVars PROVE ShardsInv'
    OBVIOUS
  <2>1. ASSUME NEW t \in Procs, ManagerGet(t) PROVE ShardsInv'
    BY <2>1, GetStep
  <2>2. ASSUME NEW t \in Procs, openShard(t) PROVE ShardsInv'
    BY <2>2, OpenStep
  <2>3. ASSUME NEW t \in Procs, Install(t) PROVE ShardsInv'
    BY <2>3, InstallStep
  <2>4. ASSUME NEW t \in Procs, storePut(t) \/ ShardPut(t) \/ applyFrame(t) PROVE ShardsInv'
    BY <2>4, WriterSteps
  <2>5. ASSUME NEW t \in Procs, localPut(t) PROVE ShardsInv'
    BY <2>5, LocalPutStep
  <2>6. ASSUME NEW t \in Procs, Migrate(t) \/ Lock(t) \/ CopyFile(t) \/ Unlock(t) PROVE ShardsInv'
    BY <2>6, MigratorSteps
  <2>7. ASSUME NEW t \in Procs, Source(t) PROVE ShardsInv'
    BY <2>7, SourceStep
  <2>8. CASE evictIdle \/ CloseFlag \/ CloseShards
    BY <2>8, SweepAndClose
  <2>9. CASE checkpointAll
    BY <2>9, CheckpointStep
  <2>10. CASE UncleanExit
    BY Zenon, <2>10, ExitStep
  <2>11. CASE UNCHANGED shardVars
    <3>1. ShardsTypeOK'
      BY Zenon, <2>11 DEF shardVars, ShardsInv, ShardsTypeOK
    <3>2. HandlesHeld'
      BY Zenon, <2>11 DEF shardVars, ShardsInv, HandlesHeld, Installing
    <3>3. PagesHeld'
      BY Zenon, <2>11 DEF shardVars, ShardsInv, PagesHeld, LateSeal, Installing
    <3>4. BarrierHeld'
      BY Zenon, <2>11 DEF shardVars, ShardsInv, BarrierHeld, CopyHeld, CopyHasBarrier, Barriered, Installing, IsOpen
    <3> QED
      BY Zenon, <3>1, <3>2, <3>3, <3>4 DEF ShardsInv
  <2> QED
    BY <2>1, <2>2, <2>3, <2>4, <2>5, <2>6, <2>7, <2>8, <2>9, <2>10, <2>11, Zenon DEF ShardsNext
<1> QED
  BY <1>1, <1>2, PTL DEF ShardsSpec

(* A put that returned before Manager.Close did stays in the resident handle, or in the
   file once none is resident or Close has returned; what may lose it is an exit without
   Close, or a Get that installs its handle after Close (Manager.Get, Checkpoint, Close). *)
THEOREM AcknowledgedKept == ShardsSpec => []AckedKept
<1>1. ShardsInv => AckedKept
  BY Zenon DEF ShardsInv, PagesHeld, AckedKept, shardNames, LateSeal
<1> QED
  BY <1>1, ShardsInvariant, PTL

(* The copy a migration releases has every put that was acknowledged when the lock was
   accepted (Shard.Source under the migration's lock). *)
THEOREM CopyComplete == ShardsSpec => []CopyHasBarrier
<1>1. ShardsInv => CopyHasBarrier
  BY Zenon DEF ShardsInv, BarrierHeld, CopyHeld
<1> QED
  BY <1>1, ShardsInvariant, PTL

-----------------------------------------------------------------------------
(* The broker of events. *)
-----------------------------------------------------------------------------

Events == [from : Publishers, n : Nat]

(* A sequence without its head, and with one more element. *)
LEMMA TailAt ==
  ASSUME NEW S, NEW s \in Seq(S), s # <<>>
  PROVE  /\ Tail(s) \in Seq(S) /\ Len(Tail(s)) = Len(s) - 1 /\ Len(s) \in Nat /\ Len(s) >= 1
         /\ \A i \in 1..Len(Tail(s)) : i + 1 \in 1..Len(s) /\ Tail(s)[i] = s[i + 1]
         /\ Head(s) = s[1] /\ s[1] \in S /\ 1 \in 1..Len(s)
OBVIOUS

(* What a buffer of events holds. *)
LEMMA EventsAt ==
  ASSUME NEW s \in Seq(Events), NEW i \in 1..Len(s)
  PROVE  s[i].from \in Publishers /\ s[i].n \in Nat
<1>1. s[i] \in Events
  OBVIOUS
<1> QED
  BY <1>1 DEF Events

(* A sequence with one more element. *)
LEMMA AppendAt ==
  ASSUME NEW S, NEW s \in Seq(S), NEW e \in S
  PROVE  /\ Append(s, e) \in Seq(S) /\ Len(Append(s, e)) = Len(s) + 1 /\ Len(s) \in Nat
         /\ \A i \in 1..Len(Append(s, e)) :
              \/ i \in 1..Len(s) /\ Append(s, e)[i] = s[i]
              \/ i = Len(s) + 1 /\ Append(s, e)[i] = e
OBVIOUS

(* The places before one in a sequence with one more element are places of the sequence. *)
LEMMA EarlierAt ==
  ASSUME NEW n \in Nat, NEW i \in 1..(n + 1), NEW j \in 1..(i - 1)
  PROVE  j \in 1..n /\ j \in 1..(n + 1) /\ j # n + 1
OBVIOUS

(* Taking the head out of the buffer, whoever does, and appending the event of a
   publisher in publish. *)
LEMMA TailKeeps ==
  ASSUME BrokerInv, buf # <<>>, buf' = Tail(buf), sent' = sent, pub' = pub \/ fed' = fed,
         BrokerTypeOK', chan' = chan,
         \A p \in Publishers : pub'[p] # "idle" => pub[p] # "idle",
         \/ fed' = fed
         \/ fed' = [fed EXCEPT ![Head(buf).from] = Head(buf).n]
  PROVE  SentLast' /\ FeedOrdered'
<1>1. /\ buf' \in Seq(Events) /\ Len(buf') = Len(buf) - 1 /\ Len(buf) \in Nat /\ Len(buf) >= 1
      /\ \A i \in 1..Len(buf') : i + 1 \in 1..Len(buf) /\ buf'[i] = buf[i + 1]
      /\ Head(buf) = buf[1] /\ buf[1] \in Events /\ 1 \in 1..Len(buf)
  BY Zenon, TailAt DEF BrokerInv, BrokerTypeOK, Events
<1>2. \A i \in 1..Len(buf) : buf[i].from \in Publishers /\ buf[i].n \in Nat
  BY Zenon, EventsAt DEF BrokerInv, BrokerTypeOK, Events
<1>3. /\ sent \in [Publishers -> Nat] /\ fed \in [Publishers -> Nat] /\ fed' \in [Publishers -> Nat]
      /\ BufSize \in Nat
  BY BrokerAssumption DEF BrokerInv, BrokerTypeOK
<1>4. ASSUME NEW p \in Publishers
      PROVE  \/ fed'[p] = fed[p]
             \/ p = buf[1].from /\ fed'[p] = buf[1].n
  BY <1>1, <1>3
<1>5. SentLast /\ FeedOrdered
  BY DEF BrokerInv
<1>6. ASSUME NEW p \in Publishers PROVE fed'[p] <= sent[p] /\ (pub[p] # "idle" => fed'[p] < sent[p])
  BY Zenon, <1>1, <1>2, <1>4, <1>5 DEF SentLast
<1>7. SentLast'
  <2>1. \A i \in 1..Len(buf') : buf'[i].n <= sent[buf'[i].from]
    BY Zenon, <1>1, <1>5 DEF SentLast
  <2>2. ASSUME NEW p \in Publishers, pub'[p] # "idle", NEW i \in 1..Len(buf'), buf'[i].from = p
        PROVE  buf'[i].n < sent[p]
    BY Zenon, <1>1, <1>5, <2>2 DEF SentLast
  <2> QED
    BY Zenon, <1>6, <2>1, <2>2 DEF SentLast
<1>8. ASSUME NEW i \in 1..Len(buf') PROVE fed'[buf'[i].from] < buf'[i].n
  <2>1. i + 1 \in 1..Len(buf) /\ buf'[i] = buf[i + 1] /\ 1 \in 1..((i + 1) - 1)
    BY <1>1
  <2>2. fed[buf[i + 1].from] < buf[i + 1].n
    BY <1>5, <2>1 DEF FeedOrdered
  <2>3. buf[1].from = buf[i + 1].from => buf[1].n < buf[i + 1].n
    BY Zenon, <1>5, <2>1 DEF FeedOrdered
  <2>4. buf[i + 1].from \in Publishers
    BY <1>2, <2>1
  <2> QED
    BY Zenon, <1>4, <2>1, <2>2, <2>3, <2>4
<1>9. ASSUME NEW i \in 1..Len(buf'), NEW j \in 1..(i - 1), buf'[j].from = buf'[i].from PROVE buf'[j].n < buf'[i].n
  <2>1. i + 1 \in 1..Len(buf) /\ buf'[i] = buf[i + 1] /\ j + 1 \in 1..((i + 1) - 1) /\ j \in 1..Len(buf')
    BY <1>1
  <2>2. buf'[j] = buf[j + 1]
    BY <1>1, <2>1
  <2> QED
    BY Zenon, <1>5, <1>9, <2>1, <2>2 DEF FeedOrdered
<1>10. FeedOrdered'
  <2>1. \A p \in Publishers : pub'[p] # "idle" => chan' = "open"
    BY <1>5 DEF FeedOrdered
  <2>2. Len(buf') <= BufSize
    BY <1>1, <1>3, <1>5 DEF FeedOrdered
  <2> QED
    BY Zenon, <1>8, <1>9, <2>1, <2>2 DEF FeedOrdered
<1> QED
  BY <1>7, <1>10

(* publish puts the next event of its publisher at the end of the channel. *)
LEMMA AppendKeeps ==
  ASSUME BrokerInv, NEW p \in Publishers, pub[p] # "idle", Len(buf) < BufSize,
         buf' = Append(buf, Event(p)), pub' = [pub EXCEPT ![p] = "idle"],
         UNCHANGED <<chan, sent, fed>>
  PROVE  SentLast' /\ FeedOrdered'
<1>1. Event(p) \in Events /\ buf \in Seq(Events)
  BY Zenon DEF BrokerInv, BrokerTypeOK, Event, Events
<1>2. /\ Len(buf') = Len(buf) + 1 /\ Len(buf) \in Nat
      /\ \A i \in 1..Len(buf') : \/ i \in 1..Len(buf) /\ buf'[i] = buf[i]
                                 \/ i = Len(buf) + 1 /\ buf'[i] = Event(p)
  <2> DEFINE more == Append(buf, Event(p))
  <2>1. /\ Len(more) = Len(buf) + 1 /\ Len(buf) \in Nat
        /\ \A i \in 1..Len(more) : \/ i \in 1..Len(buf) /\ more[i] = buf[i]
                                   \/ i = Len(buf) + 1 /\ more[i] = Event(p)
    BY Zenon, <1>1, AppendAt
  <2>2. buf' = more
    OBVIOUS
  <2> HIDE DEF more
  <2> QED
    BY Zenon, <2>1, <2>2
<1>3. SentLast /\ FeedOrdered /\ pub \in [Publishers -> {"idle", "send", "full", "again"}]
  BY DEF BrokerInv, BrokerTypeOK
<1>4. \A i \in 1..Len(buf) : buf[i].from \in Publishers /\ buf[i].n \in Nat
  BY <1>1, EventsAt
<1>5. /\ sent \in [Publishers -> Nat] /\ fed \in [Publishers -> Nat] /\ BufSize \in Nat
      /\ Event(p).from = p /\ Event(p).n = sent[p]
  BY Zenon, BrokerAssumption DEF BrokerInv, BrokerTypeOK, Event
<1>6. SentLast'
  <2>1. fed' = fed /\ sent' = sent /\ \A r \in Publishers : pub'[r] # "idle" => r # p /\ pub[r] # "idle"
    BY Zenon, <1>3
  <2>2. Event(p).n <= sent[p] /\ \A i \in 1..Len(buf) : buf[i].n <= sent[buf[i].from]
    BY <1>3, <1>5 DEF SentLast
  <2>3. \A i \in 1..Len(buf') : buf'[i].n <= sent[buf'[i].from]
    BY Zenon, <1>2, <1>5, <2>2
  <2> QED
    BY ZenonT(30), <1>2, <1>3, <1>5, <2>1, <2>3 DEF SentLast
<1>7. ASSUME NEW i \in 1..Len(buf')
      PROVE  /\ fed[buf'[i].from] < buf'[i].n
             /\ \A j \in 1..(i - 1) : buf'[j].from = buf'[i].from => buf'[j].n < buf'[i].n
  <2>0. ASSUME NEW j \in 1..(i - 1) PROVE j \in 1..Len(buf) /\ buf'[j] = buf[j]
    <3>1. j \in 1..Len(buf) /\ j \in 1..Len(buf') /\ j # Len(buf) + 1
      BY Zenon, <1>2, EarlierAt
    <3> QED
      BY Zenon, <1>2, <3>1
  <2>1. CASE i \in 1..Len(buf) /\ buf'[i] = buf[i]
    <3>1. /\ fed[buf[i].from] < buf[i].n
          /\ \A j \in 1..(i - 1) : buf[j].from = buf[i].from => buf[j].n < buf[i].n
      BY Zenon, <1>3, <2>1 DEF FeedOrdered
    <3> QED
      BY Zenon, <2>0, <2>1, <3>1
  <2>2. CASE i = Len(buf) + 1 /\ buf'[i] = Event(p)
    <3>1. /\ fed[p] < sent[p]
          /\ \A k \in 1..Len(buf) : buf[k].from = p => buf[k].n < sent[p]
      BY Zenon, <1>3 DEF SentLast
    <3>2. buf'[i].from = p /\ buf'[i].n = sent[p]
      BY Zenon, <1>5, <2>2
    <3> QED
      BY Zenon, <2>0, <3>1, <3>2
  <2> QED
    BY Zenon, <1>2, <2>1, <2>2
<1>8. FeedOrdered'
  <2>1. \A q \in Publishers : pub'[q] # "idle" => chan' = "open"
    BY Zenon, <1>3 DEF FeedOrdered
  <2>2. Len(buf') <= BufSize
    BY <1>2, <1>5
  <2> QED
    BY Zenon, <1>7, <2>1, <2>2 DEF FeedOrdered
<1> QED
  BY Zenon, <1>6, <1>8

(* The inductive invariant of the broker. *)
THEOREM BrokerInvariant == BrokerSpec => []BrokerInv
<1>1. BrokerInit => BrokerInv
  <2> SUFFICES ASSUME BrokerInit PROVE BrokerInv
    OBVIOUS
  <2>1. buf \in Seq([from : Publishers, n : Nat]) /\ Len(buf) = 0 /\ 1..Len(buf) = {}
    BY DEF BrokerInit
  <2>2. 0 \in Nat /\ 0 <= 0 /\ 0 <= BufSize
    BY BrokerAssumption
  <2>3. BrokerTypeOK
    BY Zenon, <2>1, <2>2 DEF BrokerInit, BrokerTypeOK
  <2>4. \A p \in Publishers : pub[p] = "idle" /\ fed[p] <= sent[p]
    BY Zenon, <2>2 DEF BrokerInit
  <2>5. Len(buf) <= BufSize /\ \A i \in 1..Len(buf) : FALSE
    BY <2>1, <2>2
  <2> QED
    BY Zenon, <2>3, <2>4, <2>5 DEF BrokerInv, SentLast, FeedOrdered
<1>2. BrokerInv /\ [BrokerNext]_brokerVars => BrokerInv'
  <2> SUFFICES ASSUME BrokerInv, [BrokerNext]_brokerVars PROVE BrokerInv'
    OBVIOUS
  <2>t. BrokerTypeOK /\ SentLast /\ FeedOrdered
    BY DEF BrokerInv
  <2>b. /\ buf \in Seq(Events) /\ sent \in [Publishers -> Nat] /\ fed \in [Publishers -> Nat]
        /\ pub \in [Publishers -> {"idle", "send", "full", "again"}]
        /\ \A p \in Publishers : Event(p) \in Events
    BY <2>t DEF BrokerTypeOK, Events, Event
  <2>e. \A i \in 1..Len(buf) : buf[i].from \in Publishers /\ buf[i].n \in Nat
    BY <2>b, EventsAt
  <2>0. CASE UNCHANGED brokerVars
    BY Zenon, <2>0, <2>t DEF brokerVars, BrokerInv, BrokerTypeOK, SentLast, FeedOrdered
  <2>1. CASE subscribe \/ unsubscribe
    BY Zenon, <2>1, <2>t DEF subscribe, unsubscribe, Lockable, RLocked, BrokerInv, BrokerTypeOK, SentLast, FeedOrdered
  <2>2. CASE feed
    <3>0. buf # <<>>
      BY Zenon, <2>2 DEF feed
    <3>1. Tail(buf) \in Seq(Events) /\ Head(buf) \in Events
      BY Zenon, <2>b, <3>0, TailAt
    <3>2. fed' \in [Publishers -> Nat]
      BY Zenon, <2>2, <2>b, <3>1 DEF feed, Events
    <3>3. BrokerTypeOK'
      BY Zenon, <2>2, <2>t, <3>1, <3>2 DEF feed, BrokerTypeOK, Events
    <3> QED
      BY Zenon, <2>2, <2>t, <3>3, TailKeeps DEF feed, BrokerInv
  <2>3. ASSUME NEW p \in Publishers, publish(p) PROVE BrokerInv'
    <3>1. BrokerTypeOK'
      <4>1. \A q \in Publishers : sent[q] + 1 \in Nat
        BY <2>b
      <4>2. sent' \in [Publishers -> Nat] /\ pub' \in [Publishers -> {"idle", "send", "full", "again"}]
        BY Zenon, <2>3, <2>b, <4>1 DEF publish
      <4> QED
        BY Zenon, <2>3, <2>t, <4>2 DEF publish, BrokerTypeOK
    <3>2. \A q \in Publishers : sent'[q] = IF q = p THEN sent[q] + 1 ELSE sent[q]
      BY Zenon, <2>3, <2>b DEF publish
    <3>3. \A q \in Publishers : pub'[q] # "idle" => (chan = "open" /\ q = p) \/ pub[q] # "idle"
      BY <2>3, <2>b DEF publish
    <3>4. UNCHANGED <<buf, chan, fed>>
      BY Zenon, <2>3 DEF publish
    <3>5. SentLast'
      <4>a. \A x \in Nat : x <= x /\ x <= x + 1
        OBVIOUS
      <4>b. \A x, y \in Nat : x <= y => x < y + 1
        OBVIOUS
      <4>c. \A x, y, z \in Nat : x <= y /\ y <= z => x <= z
        OBVIOUS
      <4>1. \A q \in Publishers : sent[q] \in Nat /\ fed[q] \in Nat /\ fed[q] <= sent[q] /\ sent[q] <= sent'[q]
        BY Zenon, <2>t, <2>b, <3>2, <4>a DEF SentLast
      <4>2. \A i \in 1..Len(buf) : buf[i].n <= sent'[buf[i].from]
        <5> SUFFICES ASSUME NEW i \in 1..Len(buf) PROVE buf[i].n <= sent'[buf[i].from]
          BY ZenonT(30)
        <5>1. buf[i].n <= sent[buf[i].from] /\ buf[i].from \in Publishers /\ buf[i].n \in Nat
          BY Zenon, <2>t, <2>e DEF SentLast
        <5>2. sent'[buf[i].from] \in Nat
          BY Zenon, <3>1, <5>1 DEF BrokerTypeOK
        <5>3. sent[buf[i].from] \in Nat /\ sent[buf[i].from] <= sent'[buf[i].from]
          BY Zenon, <4>1, <5>1
        <5> QED
          BY Zenon, <4>c, <5>1, <5>2, <5>3
      <4>3. ASSUME NEW q \in Publishers, pub'[q] # "idle"
            PROVE  fed[q] < sent'[q] /\ \A i \in 1..Len(buf) : buf[i].from = q => buf[i].n < sent'[q]
        <5>1. CASE q = p
          <6>1. sent'[q] = sent[q] + 1 /\ fed[q] <= sent[q] /\ sent[q] \in Nat /\ fed[q] \in Nat
            BY Zenon, <3>2, <4>1, <5>1
          <6>2. \A i \in 1..Len(buf) : buf[i].from = q => buf[i].n <= sent[q] /\ buf[i].n \in Nat
            BY Zenon, <2>t, <2>e DEF SentLast
          <6> QED
            BY Zenon, <4>b, <6>1, <6>2
        <5>2. CASE q # p
          <6>1. pub[q] # "idle" /\ sent'[q] = sent[q]
            BY Zenon, <3>2, <3>3, <4>3, <5>2
          <6> QED
            BY Zenon, <2>t, <6>1 DEF SentLast
        <5> QED
          BY Zenon, <5>1, <5>2
      <4>4. \A q \in Publishers : fed[q] <= sent'[q]
        BY Zenon, <4>c, <4>1, <3>1 DEF BrokerTypeOK
      <4> QED
        BY ZenonT(30), <3>4, <4>2, <4>3, <4>4 DEF SentLast
    <3>6. FeedOrdered'
      BY <2>t, <3>3, <3>4 DEF FeedOrdered
    <3> QED
      BY Zenon, <3>1, <3>5, <3>6 DEF BrokerInv
  <2>4. ASSUME NEW p \in Publishers, NEW q, q # "idle", pub' = [pub EXCEPT ![p] = q], pub[p] # "idle",
               UNCHANGED <<buf, chan, sent, fed>>
        PROVE  SentLast' /\ FeedOrdered'
    BY Zenon, <2>4, <2>t, <2>b DEF SentLast, FeedOrdered
  <2>5. ASSUME NEW p \in Publishers, Enqueue(p) PROVE BrokerInv'
    <3>1. CASE Len(buf) < BufSize
      <4>0. Append(buf, Event(p)) \in Seq(Events)
        BY <2>b, AppendAt, Zenon
      <4>1. BrokerTypeOK'
        BY Zenon, <2>5, <2>t, <3>1, <4>0 DEF Enqueue, BrokerTypeOK, Events
      <4> QED
        BY <2>5, <3>1, <4>1, AppendKeeps DEF Enqueue, BrokerInv
    <3>2. CASE ~(Len(buf) < BufSize)
      BY Zenon, <2>5, <2>4, <2>t, <3>2 DEF Enqueue, BrokerTypeOK, BrokerInv
    <3> QED
      BY Zenon, <3>1, <3>2
  <2>6. ASSUME NEW p \in Publishers, DropOldest(p) PROVE BrokerInv'
    <3>1. CASE buf = <<>>
      BY Zenon, <2>6, <2>4, <2>t, <3>1 DEF DropOldest, BrokerTypeOK, BrokerInv
    <3>2. CASE buf # <<>>
      <4>1. BrokerTypeOK'
        BY Zenon, <2>6, <2>t, <2>b, <3>2, TailAt DEF DropOldest, BrokerTypeOK, Events
      <4>2. \A q \in Publishers : pub'[q] # "idle" => pub[q] # "idle"
        BY <2>6, <2>b DEF DropOldest
      <4> QED
        BY Zenon, <2>6, <3>2, <4>1, <4>2, TailKeeps DEF DropOldest, BrokerInv
    <3> QED
      BY <3>1, <3>2
  <2>7. ASSUME NEW p \in Publishers, Requeue(p) PROVE BrokerInv'
    <3>1. CASE Len(buf) < BufSize
      <4>0. Append(buf, Event(p)) \in Seq(Events)
        BY <2>b, AppendAt, Zenon
      <4>1. BrokerTypeOK'
        BY <2>7, <2>t, <3>1, <4>0 DEF Requeue, BrokerTypeOK, Events
      <4> QED
        BY Zenon, <2>7, <3>1, <4>1, AppendKeeps DEF Requeue, BrokerInv
    <3>2. CASE ~(Len(buf) < BufSize)
      <4>1. UNCHANGED <<buf, chan, sent, fed>> /\ pub' = [pub EXCEPT ![p] = "idle"]
        BY <2>7, <3>2 DEF Requeue
      <4> QED
        BY Zenon, <4>1, <2>t, <2>b DEF BrokerInv, BrokerTypeOK, SentLast, FeedOrdered
    <3> QED
      BY <3>1, <3>2
  <2> QED
    BY Zenon, <2>0, <2>1, <2>2, <2>3, <2>5, <2>6, <2>7 DEF BrokerNext
<1> QED
  BY <1>1, <1>2, PTL DEF BrokerSpec

(* No send on a closed channel, a bounded buffer, and per publisher the order of its
   events. *)
THEOREM FeedsInOrder == BrokerSpec => []FeedOrdered
BY BrokerInvariant, PTL DEF BrokerInv
=============================================================================
