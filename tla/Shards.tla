------------------------------- MODULE Shards -------------------------------
(***************************************************************************)
(* The shard manager (pkg/tasks/store) with the single-node replicator     *)
(* (pkg/tasks/replication/local) and the migration of a shard              *)
(* (pkg/tasks/migration).                                                  *)
(*                                                                         *)
(* Shards are independent, so there is one (principal, namespace).  A      *)
(* handle is an open *Shard with the pages it holds; two handles on the    *)
(* file do not see each other's pages.  The pages reach the disk when the  *)
(* handle is sealed.  A proc is a writer that puts one value through       *)
(* store.put, or the coordinator of a migration; both reach the shard by   *)
(* Manager.Get, which opens a shard outside the manager's lock.            *)
(***************************************************************************)
EXTENDS Integers, FiniteSets

CONSTANTS
  Writers,     \* the procs that put a value; the value is the writer
  Migrator,    \* the proc that runs Coordinator.Migrate
  MaxHandles,  \* bound on the handles opened
  IdleTicks,   \* IdleEvictAfter, in sweeps
  MaxExits     \* bound on unclean exits

ASSUME ShardsAssumption ==
  /\ Migrator \notin Writers
  /\ MaxHandles \in Nat \ {0} /\ IdleTicks \in Nat \ {0} /\ MaxExits \in Nat

VARIABLES
  handle,      \* the handles: state, pages, whether a put is not sealed, idle sweeps
  resident,    \* Manager.shards: the handle, or 0
  mclosed,     \* Manager.closed: "no", "set", "done" once Close has returned
  disk,        \* the file: the values sealed, and whether there is a file
  proc,        \* where each proc is, and the handle it holds
  gc,          \* the sweep: the handle it is about to seal, or 0
  job,         \* the migration: its status, its copy
  stored,      \* history: puts that returned without an error, before Close did
  barrier,     \* history: the puts acknowledged when the lock was accepted
  exits        \* unclean exits so far

shardVars == <<handle, resident, mclosed, disk, proc, gc, job, stored, barrier, exits>>

Handles == 1 .. MaxHandles
Procs == Writers \cup {Migrator}
NoHandle == [state |-> "none", pages |-> {}, dirty |-> FALSE, idle |-> 0]
Parked == [pc |-> "idle", stage |-> "none", h |-> 0]

ShardsInit ==
  /\ handle = [h \in Handles |-> NoHandle] /\ resident = 0 /\ mclosed = "no"
  /\ disk = [file |-> FALSE, pages |-> {}]
  /\ proc = [t \in Procs |-> Parked] /\ gc = 0
  /\ job = [status |-> "none", copy |-> {}]
  /\ stored = {} /\ barrier = {} /\ exits = 0

-----------------------------------------------------------------------------
(* The file.  hanzoai/sqlite seals a handle's pages over the file, when there
   is a put to seal. *)
Seal(h) ==
  IF handle[h].dirty THEN [file |-> TRUE, pages |-> handle[h].pages] ELSE disk

(* Shard.Checkpoint and Shard.Close, with what becomes of the handle. *)
CheckpointForgetsSeal(h) ==  \* mutant
  disk' = disk /\ handle' = [handle EXCEPT ![h].dirty = FALSE]

Checkpoint(h) ==
  disk' = Seal(h) /\ handle' = [handle EXCEPT ![h].dirty = FALSE]

Close(h) ==
  /\ disk' = Seal(h)
  /\ handle' = [handle EXCEPT ![h].state = "closed", ![h].dirty = FALSE]

Touched(h) == [handle EXCEPT ![h].idle = 0]

(* shardNames, for the one namespace: the files, and the shards held open. *)
shardNames == disk.file \/ resident # 0

-----------------------------------------------------------------------------
(* Manager.Get in three steps: the lookup, the open, and the second lookup. *)
Moves(t, pc, h) == proc' = [proc EXCEPT ![t].pc = pc, ![t].h = h]

ManagerGet(t) ==
  /\ proc[t].pc = "get"
  /\ \/ mclosed # "no" /\ proc' = [proc EXCEPT ![t] = Parked] /\ UNCHANGED handle
     \/ mclosed = "no" /\ resident # 0 /\ handle' = Touched(resident) /\ Moves(t, "have", resident)
     \/ mclosed = "no" /\ resident = 0 /\ Moves(t, "open", 0) /\ UNCHANGED handle
  /\ job' = IF mclosed # "no" /\ t = Migrator THEN [job EXCEPT !.status = "failed"] ELSE job
  /\ UNCHANGED <<resident, mclosed, disk, gc, stored, barrier, exits>>

openShard(t) ==
  /\ proc[t].pc = "open"
  /\ \E h \in Handles :
       /\ handle[h].state = "none" /\ \A k \in 1 .. h - 1 : handle[k].state # "none"
       /\ handle' = [handle EXCEPT ![h] =
                       [state |-> "open", pages |-> disk.pages, dirty |-> FALSE, idle |-> 0]]
       /\ Moves(t, "install", h)
  /\ UNCHANGED <<resident, mclosed, disk, gc, job, stored, barrier, exits>>

InstallBlindly(t) ==  \* mutant
  /\ proc[t].pc = "install"
  /\ resident' = proc[t].h /\ Moves(t, "have", proc[t].h)
  /\ UNCHANGED <<handle, disk, mclosed, gc, job, stored, barrier, exits>>

Install(t) ==
  /\ proc[t].pc = "install"
  /\ IF resident # 0
     THEN /\ disk' = Seal(proc[t].h)
          /\ handle' = [handle EXCEPT ![proc[t].h].state = "closed", ![resident].idle = 0]
          /\ Moves(t, "have", resident) /\ UNCHANGED resident
     ELSE /\ resident' = proc[t].h /\ Moves(t, "have", proc[t].h)
          /\ UNCHANGED <<handle, disk>>
  /\ UNCHANGED <<mclosed, gc, job, stored, barrier, exits>>

-----------------------------------------------------------------------------
(* store.put, and Shard.Put on the handle it got: the frame is proposed, and
   the replicator's handler gets the shard again and applies it there. *)
Enters(t, stage, pc) == proc' = [proc EXCEPT ![t] = [pc |-> pc, stage |-> stage, h |-> 0]]
Has(t, stage) == proc[t].pc = "have" /\ proc[t].stage = stage
IsOpen(t) == handle[proc[t].h].state = "open"

(* replicate, with the single-node replicator: the handler runs at once. *)
Proposes(t) == Enters(t, "apply", "get")

(* LocalReplicator.Propose answers what the handler did. *)
Accepts(t) == stored' = IF mclosed = "done" THEN stored ELSE stored \cup {t}

storePut(t) ==
  /\ t \in Writers /\ proc[t].pc = "idle" /\ t \notin stored
  /\ Enters(t, "put", "get")
  /\ UNCHANGED <<handle, resident, mclosed, disk, gc, job, stored, barrier, exits>>

ShardPut(t) ==
  /\ Has(t, "put")
  /\ IF IsOpen(t) THEN handle' = Touched(proc[t].h) /\ Proposes(t)
     ELSE UNCHANGED handle /\ proc' = [proc EXCEPT ![t] = Parked]
  /\ UNCHANGED <<resident, mclosed, disk, gc, job, stored, barrier, exits>>

(* applyFrame sees whether the shard is closed; localPut fails if it has been
   closed since.  A put that fails is an error of Propose and of Put. *)
applyFrame(t) ==
  /\ Has(t, "apply")
  /\ IF IsOpen(t) THEN handle' = Touched(proc[t].h) /\ Moves(t, "local", proc[t].h)
     ELSE UNCHANGED handle /\ proc' = [proc EXCEPT ![t] = Parked]
  /\ UNCHANGED <<resident, mclosed, disk, gc, job, stored, barrier, exits>>

localPut(t) ==
  /\ proc[t].pc = "local"
  /\ IF IsOpen(t)
     THEN /\ handle' = [handle EXCEPT ![proc[t].h].pages = @ \cup {t},
                                      ![proc[t].h].dirty = TRUE]
          /\ Accepts(t)
     ELSE UNCHANGED <<handle, stored>>
  /\ proc' = [proc EXCEPT ![t] = Parked]
  /\ UNCHANGED <<resident, mclosed, disk, gc, job, barrier, exits>>

-----------------------------------------------------------------------------
(* Manager.gc, every SweepEvery: evictIdle under the lock, then checkpointAll
   on the shards that are left.  Opening a file takes less than IdleEvictAfter:
   no shard goes idle while a proc has opened one it has not installed. *)
OpenIsQuick ==
  handle[resident].idle + 1 >= IdleTicks => \A t \in Procs : proc[t].pc # "install"

evictIdle ==
  /\ gc = 0 /\ mclosed = "no" /\ resident # 0 /\ OpenIsQuick
  /\ IF handle[resident].idle + 1 >= IdleTicks
     THEN Close(resident) /\ resident' = 0 /\ gc' = 0
     ELSE /\ handle' = [handle EXCEPT ![resident].idle = @ + 1]
          /\ gc' = resident /\ UNCHANGED <<resident, disk>>
  /\ UNCHANGED <<mclosed, proc, job, stored, barrier, exits>>

checkpointAll ==
  /\ gc # 0 /\ gc' = 0
  /\ IF handle[gc].state = "open" THEN Checkpoint(gc) ELSE UNCHANGED <<handle, disk>>
  /\ UNCHANGED <<resident, mclosed, proc, job, stored, barrier, exits>>

(* Manager.Close: the flag, then the shards. *)
CloseFlag ==
  /\ mclosed = "no" /\ mclosed' = "set"
  /\ UNCHANGED <<handle, resident, disk, proc, gc, job, stored, barrier, exits>>

CloseShards ==
  /\ mclosed = "set" /\ mclosed' = "done" /\ resident' = 0
  /\ IF resident # 0 THEN Close(resident) ELSE UNCHANGED <<handle, disk>>
  /\ UNCHANGED <<proc, gc, job, stored, barrier, exits>>

(* An unclean exit and a restart: what was not sealed is gone. *)
UncleanExit ==
  /\ exits < MaxExits /\ exits' = exits + 1
  /\ handle' = [h \in Handles |-> IF handle[h].state = "none" THEN NoHandle
                                  ELSE [NoHandle EXCEPT !.state = "closed"]]
  /\ resident' = 0 /\ mclosed' = "no" /\ gc' = 0
  /\ proc' = [t \in Procs |-> Parked] /\ job' = [status |-> "none", copy |-> {}]
  /\ stored' = stored \cap disk.pages /\ barrier' = {} /\ UNCHANGED disk

-----------------------------------------------------------------------------
(* Coordinator.Migrate: a lock frame through the replicator, the source, its
   checkpoint, the copy of the file, an unlock frame. *)
Migrate(t) ==
  /\ t = Migrator /\ proc[t].pc = "idle" /\ job.status = "none"
  /\ job' = [job EXCEPT !.status = "locking"] /\ Enters(t, "lock", "get")
  /\ UNCHANGED <<handle, resident, mclosed, disk, gc, stored, barrier, exits>>

Fails(t) == proc' = [proc EXCEPT ![t] = Parked] /\ job' = [job EXCEPT !.status = "failed"]

Lock(t) ==
  /\ Has(t, "lock")
  /\ IF IsOpen(t)
     THEN /\ handle' = Touched(proc[t].h) /\ Enters(t, "source", "get")
          /\ barrier' = stored /\ job' = [job EXCEPT !.status = "copying"]
     ELSE Fails(t) /\ UNCHANGED <<handle, barrier>>
  /\ UNCHANGED <<resident, mclosed, disk, gc, stored, exits>>

Source(t) ==
  /\ Has(t, "source")
  /\ IF IsOpen(t) THEN Checkpoint(proc[t].h) /\ Moves(t, "copy", proc[t].h) /\ UNCHANGED job
     ELSE Fails(t) /\ UNCHANGED <<handle, disk>>
  /\ UNCHANGED <<resident, mclosed, gc, stored, barrier, exits>>

CopyFile(t) ==
  /\ proc[t].pc = "copy"
  /\ IF disk.file
     THEN job' = [status |-> "replaying", copy |-> disk.pages] /\ Enters(t, "unlock", "get")
     ELSE Fails(t)
  /\ UNCHANGED <<handle, resident, mclosed, disk, gc, stored, barrier, exits>>

Unlock(t) ==
  /\ Has(t, "unlock")
  /\ IF IsOpen(t)
     THEN /\ handle' = Touched(proc[t].h) /\ proc' = [proc EXCEPT ![t] = Parked]
          /\ job' = [job EXCEPT !.status = "released"]
     ELSE Fails(t) /\ UNCHANGED handle
  /\ UNCHANGED <<resident, mclosed, disk, gc, stored, barrier, exits>>

ShardsNext ==
  \/ \E t \in Procs :
       \/ ManagerGet(t) \/ openShard(t) \/ Install(t)
       \/ storePut(t) \/ ShardPut(t) \/ applyFrame(t) \/ localPut(t)
       \/ Migrate(t) \/ Lock(t) \/ Source(t) \/ CopyFile(t) \/ Unlock(t)
  \/ evictIdle \/ checkpointAll \/ CloseFlag \/ CloseShards \/ UncleanExit

ShardsSpec == ShardsInit /\ [][ShardsNext]_shardVars

-----------------------------------------------------------------------------
(* A put that returned is never lost but to an unclean exit: the shard is found
   by shardNames, and its resident handle, or its file when none is resident or
   Close has returned, holds the value.  Neither the race of two opens, nor an
   eviction between a Get and the put that follows, nor Close may drop it.  The
   exception is a Get that is opening the file while Close runs: it does not look at
   closed again, its handle becomes resident after Close, and whoever seals that
   handle puts its older pages over the file. *)
LateSeal == mclosed = "done" /\ resident # 0 /\ disk.pages \subseteq handle[resident].pages

AckedKept ==
  \A w \in stored :
    /\ shardNames
    /\ \/ w \in IF resident # 0 /\ mclosed # "done" THEN handle[resident].pages ELSE disk.pages
       \/ LateSeal

(* A migration that is released has copied every put acknowledged when its
   lock was accepted, whatever the sweep and the writers did in between. *)
CopyHasBarrier == job.status \in {"replaying", "released"} => barrier \subseteq job.copy

-----------------------------------------------------------------------------
(* What holds in every state on the way. *)
ShardsTypeOK ==
  /\ handle \in [Handles -> [state : {"none", "open", "closed"}, pages : SUBSET Procs,
                             dirty : BOOLEAN, idle : Nat]]
  /\ resident \in Handles \cup {0} /\ gc \in Handles \cup {0} /\ mclosed \in {"no", "set", "done"}
  /\ disk \in [file : BOOLEAN, pages : SUBSET Procs]
  /\ proc \in [Procs -> [pc : {"idle", "get", "open", "install", "have", "local", "copy"},
                         stage : {"none", "put", "apply", "lock", "source", "unlock"},
                         h : Handles \cup {0}]]
  /\ job \in [status : {"none", "locking", "copying", "replaying", "released", "failed"},
              copy : SUBSET Procs]
  /\ stored \in SUBSET Procs /\ barrier \in SUBSET stored /\ exits \in Nat

Installing(t) == proc[t].pc = "install"

(* A handle between its open and its second lookup is open, clean and one proc's own;
   a handle that was resident is closed when it is no longer. *)
HandlesHeld ==
  /\ resident # 0 => handle[resident].state = "open"
  /\ gc # 0 => handle[gc].state # "none" /\ (handle[gc].state = "open" => gc = resident /\ mclosed # "done")
  /\ \A t \in Procs :
       /\ Installing(t) =>
            /\ proc[t].h \in Handles \ {resident}
            /\ handle[proc[t].h].state = "open" /\ ~handle[proc[t].h].dirty
            /\ \A u \in Procs : u # t /\ Installing(u) => proc[u].h # proc[t].h
       /\ proc[t].pc \in {"have", "local", "copy"} =>
            /\ proc[t].h \in Handles /\ handle[proc[t].h].state # "none"
            /\ handle[proc[t].h].state = "open" => proc[t].h = resident
       /\ proc[t].stage \in {"put", "apply"} => t \in Writers
       /\ proc[t].stage \in {"lock", "source", "unlock"} => t = Migrator
       /\ proc[t].pc = "local" => proc[t].stage = "apply"
       /\ proc[t].pc = "copy" => proc[t].stage = "source"

(* Whoever seals next seals all that was acknowledged: the resident handle holds it,
   or the file and every handle that may become resident. *)
PagesHeld ==
  /\ ~disk.file => disk.pages = {}
  /\ IF mclosed = "done" THEN stored \subseteq disk.pages \/ LateSeal
     ELSE IF resident # 0 THEN /\ stored \subseteq handle[resident].pages
                               /\ handle[resident].dirty \/ stored \subseteq disk.pages
     ELSE /\ stored \subseteq disk.pages
          /\ \A t \in Procs : Installing(t) => stored \subseteq handle[proc[t].h].pages

(* The migration's source, once it had to be opened, holds the barrier even if Close
   comes in between. *)
Barriered ==
  /\ barrier \subseteq disk.pages
  /\ resident # 0 => barrier \subseteq handle[resident].pages
  /\ \A t \in Procs : Installing(t) => barrier \subseteq handle[proc[t].h].pages

CopyHeld ==
  /\ CopyHasBarrier
  /\ proc[Migrator].stage = "unlock" => barrier \subseteq job.copy

BarrierHeld ==
  /\ proc[Migrator].stage = "source" =>
       /\ proc[Migrator].pc \in {"open", "install"} => Barriered
       /\ proc[Migrator].pc = "have" /\ mclosed = "done" /\ IsOpen(Migrator) => Barriered
       /\ proc[Migrator].pc = "copy" => barrier \subseteq disk.pages
  /\ CopyHeld

ShardsInv == ShardsTypeOK /\ HandlesHeld /\ PagesHeld /\ BarrierHeld
=============================================================================
