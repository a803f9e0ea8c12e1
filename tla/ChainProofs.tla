---------------------------- MODULE ChainProofs -----------------------------
(***************************************************************************)
(* The runs of a workflow id, and the schedules that start runs: proofs    *)
(* about Chain for any runs, requests and number of calls, purges and      *)
(* crashes, and about Schedules for any clients and any number of sweeps.  *)
(***************************************************************************)
EXTENDS Chain, Schedules, WellFoundedInduction, TLAPS

-----------------------------------------------------------------------------
(* The chain of runs. *)
-----------------------------------------------------------------------------

JobType ==
  [pc : {"idle", "row", "idem", "event", "close"},
   op : {"none", "start", "child", "continue", "reset"}, run : Runs \cup {0},
   src : Runs \cup {0}, read : RunRows, req : Requests \cup {"none"}]
OriginType ==
  [by : {"", "start", "child", "continue", "reset"}, from : SUBSET Runs, req : Requests \cup {"none"}]
PurgeType ==
  [run : Runs \cup {0}, left : {<<>>, <<"row">>, <<"idem", "row">>, <<"history", "idem", "row">>}]

(* The types, with each record type under one name. *)
LEMMA ChainTypes ==
  ChainTypeOK <=>
    /\ now \in Nat /\ crashes \in Nat /\ recorded \in BOOLEAN
    /\ row \in [Runs -> RunRows] /\ logged \in SUBSET Runs /\ acked \in SUBSET Runs
    /\ idem \in [Requests -> Runs \cup {0}] /\ thread \in [Threads -> JobType]
    /\ purging \in PurgeType /\ origin \in [Runs -> OriginType]
BY DEF ChainTypeOK, JobType, OriginType, PurgeType

(* What the invariant says of a run: one that has a row was drawn, and a run is
   not the number that stands for none. *)
LEMMA RunFacts ==
  ASSUME ChainInv
  PROVE  /\ 0 \notin Runs /\ \A r \in Runs : r \in Nat
         /\ \A r \in Runs : Exists(r) => Drawn(r)
         /\ \A t \in Threads : thread[t].pc # "idle" => thread[t].run \in Runs /\ Drawn(thread[t].run)
         /\ \A t \in Threads : thread[t] \in JobType
         /\ \A r \in Runs : row[r] \in RunRows /\ origin[r] \in OriginType
<1>1. 0 \notin Runs /\ \A r \in Runs : r \in Nat
  BY ChainAssumption
<1>2. \A r \in Runs : Exists(r) => Drawn(r)
  BY DEF ChainInv, KeysHeld, Fresh
<1>3. ASSUME NEW t \in Threads, thread[t].pc # "idle"
      PROVE  thread[t].run \in Runs /\ Drawn(thread[t].run)
  <2>1. /\ thread[t].run # 0 /\ origin[thread[t].run].by = thread[t].op /\ thread[t].op # "none"
    BY <1>3 DEF ChainInv, StartHeld
  <2>2. thread[t] \in JobType
    BY ChainTypes DEF ChainInv
  <2> QED
    BY Zenon, <2>1, <2>2 DEF JobType, Drawn
<1>4. \A t \in Threads : thread[t] \in JobType
  BY ChainTypes DEF ChainInv
<1>5. \A r \in Runs : row[r] \in RunRows /\ origin[r] \in OriginType
  BY ChainTypes DEF ChainInv
<1> QED
  BY <1>1, <1>2, <1>3, <1>4, <1>5

(* A step that draws no run leaves the links of the chain alone, as long as a run
   that was continued is not made the answer. *)
LEMMA LinksKept ==
  ASSUME ChainInv, origin' = origin,
         NoReset => \A r \in Runs : WasContinued(r) => row'[r].status \in {"continued", "none"}
  PROVE  LinksHeld'
<1>1. LinksHeld
  BY DEF ChainInv
<1>2. NoReset' = NoReset /\ OneChain' = OneChain
  BY DEF NoReset, OneChain
<1>3. \A r \in Runs : WasContinued(r)' = WasContinued(r) /\ Drawn(r)' = Drawn(r)
  BY DEF WasContinued, Drawn
<1> QED
  BY Zenon, <1>1, <1>2, <1>3 DEF LinksHeld

-----------------------------------------------------------------------------
(* The steps that touch one key, or none. *)
LEMMA AckStep ==
  ASSUME ChainInv, NEW q \in Requests, lookupIdempotency(q)
  PROVE  ChainInv'
<1>0. /\ UNCHANGED <<now, row, logged, idem, thread, purging, recorded, origin, crashes>>
      /\ acked' = acked \cup {idem[q]} /\ idem[q] # 0 /\ Exists(idem[q]) /\ thread["client"].pc = "idle"
  BY DEF lookupIdempotency, Known, IdleThread
<1>t. ChainTypeOK
  BY Zenon DEF ChainInv
<1>1. idem[q] \in Runs /\ origin[idem[q]].req = q /\ Drawn(idem[q])
  BY <1>0, <1>t, ChainTypes, RunFacts DEF ChainInv, KeysHeld
<1>2. ChainTypeOK'
  BY Zenon, <1>0, <1>1, <1>t, ChainTypes DEF ChainTypeOK
<1>3. NoOrphans'
  BY Zenon, <1>0 DEF ChainInv, NoOrphans, Exists
<1>4. \A r \in Runs : Held(r)' => Held(r) \/ r = idem[q]
  BY <1>0 DEF Held, WasReset, Exists, Expired, isTerminalRow
<1>5. \A r \in Runs : Fresh(r) => Fresh(r)'
  BY <1>0, <1>1 DEF Fresh, Exists
<1>6. KeysHeld'
  BY Zenon, <1>0, <1>1, <1>4, <1>5 DEF ChainInv, KeysHeld, Drawn
<1>7. PurgeHeld'
  BY Zenon, <1>0 DEF ChainInv, PurgeHeld, Drawn, isTerminalRow, Expired, WasReset, PurgeKeys
<1>8. LinksHeld'
  BY <1>0, LinksKept DEF ChainInv, LinksHeld
<1>9. ASSUME NEW t \in Threads PROVE StartHeld(t)' /\ RequestHeld(t)'
  <2>1. StartHeld(t) /\ RequestHeld(t)
    BY DEF ChainInv
  <2>2. StartHeld(t)'
    BY Zenon, <1>0, <1>5, <2>1, RunFacts DEF StartHeld, Exists, isTerminalRow
  <2>3. RequestHeld(t)'
    BY <1>0, <2>1 DEF RequestHeld
  <2> QED
    BY <2>2, <2>3
<1> QED
  BY <1>2, <1>3, <1>6, <1>7, <1>8, <1>9 DEF ChainInv

(* A step that at most records the child in its parent's history. *)
LEMMA QuietStep ==
  ASSUME ChainInv, recorded' \in BOOLEAN,
         UNCHANGED <<now, row, logged, idem, thread, purging, origin, crashes, acked>>
  PROVE  ChainInv'
<1>1. ChainTypeOK'
  BY Zenon, ChainTypes DEF ChainInv, ChainTypeOK
<1>2. \A r \in Runs : Held(r)' = Held(r) /\ Fresh(r)' = Fresh(r)
  BY DEF Held, WasReset, Exists, Expired, isTerminalRow, Fresh
<1>3. NoOrphans' /\ KeysHeld'
  BY Zenon, <1>2 DEF ChainInv, NoOrphans, KeysHeld, Exists, Drawn
<1>4. PurgeHeld'
  BY Zenon DEF ChainInv, PurgeHeld, Drawn, isTerminalRow, Expired, WasReset, PurgeKeys
<1>5. LinksHeld'
  BY ZenonT(30), LinksKept DEF ChainInv, LinksHeld
<1>6. ASSUME NEW t \in Threads PROVE StartHeld(t)' /\ RequestHeld(t)'
  <2>1. StartHeld(t) /\ RequestHeld(t)
    BY Zenon DEF ChainInv
  <2>2. StartHeld(t)'
    BY Zenon, <1>2, <2>1, RunFacts DEF StartHeld, Exists, isTerminalRow
  <2>3. RequestHeld(t)'
    BY Zenon, <1>2, <2>1 DEF RequestHeld
  <2> QED
    BY Zenon, <2>2, <2>3
<1> QED
  BY Zenon, <1>1, <1>3, <1>4, <1>5, <1>6 DEF ChainInv

(* startWorkflowFull puts the row of its run. *)
LEMMA PutRowStep ==
  ASSUME ChainInv, NEW t \in Threads, PutRow(t)
  PROVE  ChainInv'
<1> DEFINE j == thread[t]     n == thread[t].run
           made == [status |-> "running", start |-> now, close |-> 0]
<1>0. /\ UNCHANGED <<now, logged, idem, purging, recorded, origin, crashes, acked>>
      /\ row' = [row EXCEPT ![n] = made] /\ j.pc = "row"
      /\ thread' = [thread EXCEPT ![t].pc = IF j.req \in Requests THEN "idem" ELSE "event"]
  BY DEF PutRow, Goes
<1>t. ChainTypeOK
  BY Zenon DEF ChainInv
<1>1. /\ n \in Runs /\ Drawn(n) /\ Fresh(n) /\ n # purging.run /\ j \in JobType
      /\ StartHeld(t) /\ \A u \in Threads \ {t} : thread[u].run # n
  BY Zenon, <1>0, RunFacts DEF ChainInv, StartHeld
<1>2. made \in RunRows
  BY Zenon, <1>t, ChainTypes DEF RunRows
<1>3. row' \in [Runs -> RunRows] /\ row'[n] = made /\ \A r \in Runs : r # n => row'[r] = row[r]
  BY Zenon, <1>0, <1>1, <1>2, <1>t, ChainTypes
<1>4. /\ thread' \in [Threads -> JobType]
      /\ \A u \in Threads : u # t => thread'[u] = thread[u]
      /\ thread'[t].pc = (IF j.req \in Requests THEN "idem" ELSE "event")
      /\ thread'[t].run = n /\ thread'[t].req = j.req /\ thread'[t].op = j.op /\ thread'[t].src = j.src
  BY <1>0, <1>1, <1>t, ChainTypes DEF JobType
<1>5. ChainTypeOK'
  BY Zenon, <1>0, <1>3, <1>4, <1>t, ChainTypes DEF ChainTypeOK, JobType
<1>6. \A r \in Runs : Exists(r)' = (Exists(r) \/ r = n)
  BY <1>3 DEF Exists
<1>7. NoOrphans'
  BY Zenon, <1>0, <1>6, <1>t, ChainTypes DEF ChainInv, NoOrphans
<1>8. \A r \in Runs : Held(r)' => Held(r)
  BY <1>0, <1>1, <1>3 DEF Held, WasReset, Exists, Expired, isTerminalRow, Fresh
<1>9. \A r \in Runs : r # n /\ Fresh(r) => Fresh(r)'
  BY Zenon, <1>0, <1>6 DEF Fresh
<1>10. KeysHeld'
  <2>1. \A r \in Runs : Drawn(r)' = Drawn(r)
    BY <1>0 DEF Drawn
  <2>2. \A u \in Threads : thread'[u].pc = "idem" => thread'[u].req \in Requests
    BY <1>4 DEF ChainInv, KeysHeld
  <2> QED
    BY <1>0, <1>1, <1>8, <1>9, <2>1, <2>2 DEF ChainInv, KeysHeld
<1>11. PurgeHeld'
  BY Zenon, <1>0, <1>1, <1>3, <1>t, ChainTypes DEF ChainInv, PurgeHeld, PurgeType, Drawn, isTerminalRow, Expired, WasReset, PurgeKeys
<1>12. LinksHeld'
  BY <1>0, <1>1, <1>3, LinksKept DEF ChainInv, LinksHeld, WasContinued, Fresh
<1>13. ASSUME NEW u \in Threads PROVE StartHeld(u)'
  <2>1. CASE u = t
    <3>1. row'[n].status # "none" /\ ~isTerminalRow(row'[n])
      BY <1>1, <1>3 DEF isTerminalRow
    <3>2. thread'[t].pc \notin {"idle", "row", "close"}
      BY Zenon, <1>4
    <3>3. /\ n # 0 /\ origin[n].by = j.op /\ origin[n].req = j.req /\ j.op # "none"
          /\ j.op = "reset" => j.src \in origin[n].from
      BY Zenon, <1>0, <1>1 DEF StartHeld
    <3>4. /\ thread'[t].run # 0 /\ thread'[t].run # purging'.run
          /\ \A v \in Threads \ {t} : thread'[v].run # thread'[t].run
          /\ origin'[thread'[t].run].by = thread'[t].op /\ origin'[thread'[t].run].req = thread'[t].req
          /\ thread'[t].op # "none"
          /\ thread'[t].op = "reset" => thread'[t].src \in origin'[thread'[t].run].from
      BY ZenonT(30), <1>0, <1>1, <1>4, <3>3
    <3>5. /\ row'[thread'[t].run].status # "none"
          /\ isTerminalRow(row'[thread'[t].run]) => row'[thread'[t].run].close = now'
      BY Zenon, <1>4, <3>1
    <3> QED
      BY Zenon, <2>1, <3>2, <3>4, <3>5 DEF StartHeld, Exists
  <2>2. CASE u # t
    <3>1. thread'[u] = thread[u] /\ thread[u].run # n /\ StartHeld(u)
      BY <1>1, <1>4, <2>2 DEF ChainInv
    <3>2. \A v \in Threads : thread'[v].run = thread[v].run
      BY Zenon, <1>4
    <3>3. CASE thread[u].pc = "idle"
      BY <3>1, <3>3 DEF StartHeld
    <3>4. CASE thread[u].pc # "idle"
      <4>1. thread[u].run \in Runs
        BY <3>4, RunFacts
      <4>2. row'[thread[u].run] = row[thread[u].run]
        BY <1>3, <3>1, <4>1
      <4> QED
        BY ZenonT(30), <1>0, <1>6, <1>9, <3>1, <3>2, <3>4, <4>1, <4>2 DEF StartHeld
    <3> QED
      BY Zenon, <3>3, <3>4
  <2> QED
    BY Zenon, <2>1, <2>2
<1>14. ASSUME NEW u \in Threads PROVE RequestHeld(u)'
  <2>1. RequestHeld(u)
    BY DEF ChainInv
  <2> QED
    BY <1>0, <1>4, <1>8, <2>1 DEF RequestHeld
<1> QED
  BY Zenon, <1>5, <1>7, <1>10, <1>11, <1>12, <1>13, <1>14 DEF ChainInv

(* startWorkflowFull puts the key of its request. *)
LEMMA PutIdemStep ==
  ASSUME ChainInv, NEW t \in Threads, PutIdem(t)
  PROVE  ChainInv'
<1> DEFINE j == thread[t]     n == thread[t].run     q == thread[t].req
<1>0. /\ UNCHANGED <<now, row, logged, purging, recorded, origin, crashes, acked>>
      /\ idem' = [idem EXCEPT ![q] = n] /\ j.pc = "idem"
      /\ thread' = [thread EXCEPT ![t].pc = "event"]
  BY Zenon DEF PutIdem, Goes
<1>t. ChainTypeOK
  BY DEF ChainInv
<1>1. /\ n \in Runs /\ Drawn(n) /\ Exists(n) /\ n # purging.run /\ j \in JobType
      /\ StartHeld(t) /\ \A u \in Threads \ {t} : thread[u].run # n
      /\ origin[n].req = q /\ q \in Requests
  BY Zenon, <1>0, RunFacts DEF ChainInv, StartHeld, KeysHeld
<1>2. t = "client" /\ \A r \in Runs : Held(r) => origin[r].req # q
  BY Zenon, <1>0, <1>1 DEF ChainInv, RequestHeld
<1>3. /\ idem' \in [Requests -> Runs \cup {0}]
      /\ idem'[q] = n /\ \A p \in Requests : p # q => idem'[p] = idem[p]
  BY <1>0, <1>1, <1>t, ChainTypes
<1>4. /\ thread' \in [Threads -> JobType]
      /\ \A u \in Threads : u # t => thread'[u] = thread[u]
      /\ thread'[t].pc = "event"
      /\ thread'[t].run = n /\ thread'[t].req = q /\ thread'[t].op = j.op /\ thread'[t].src = j.src
  BY <1>0, <1>1, <1>t, ChainTypes DEF JobType
<1>5. ChainTypeOK'
  BY Zenon, <1>0, <1>3, <1>4, <1>t, ChainTypes DEF ChainTypeOK, JobType
<1>6. \A r \in Runs : Exists(r)' = Exists(r) /\ Held(r)' = Held(r)
  BY Zenon, <1>0 DEF Exists, Held, WasReset, Expired, isTerminalRow
<1>7. NoOrphans'
  BY Zenon, <1>0, <1>1, <1>3, <1>6, <1>t, ChainTypes DEF ChainInv, NoOrphans
<1>9. \A r \in Runs : r # n /\ Fresh(r) => Fresh(r)'
  BY Zenon, <1>0, <1>3, <1>6 DEF Fresh
<1>10. KeysHeld'
  <2>1. \A r \in Runs : Drawn(r)' = Drawn(r)
    BY <1>0 DEF Drawn
  <2>2. \A u \in Threads : thread'[u].pc = "idem" => thread'[u].req \in Requests
    BY Zenon, <1>4 DEF ChainInv, KeysHeld
  <2>3. \A p \in Requests : idem'[p] # 0 => origin[idem'[p]].req = p
    BY Zenon, <1>1, <1>3 DEF ChainInv, KeysHeld
  <2>4. \A r \in Runs : Held(r) => idem'[origin[r].req] = r
    BY <1>2, <1>3 DEF ChainInv, KeysHeld, Held
  <2> QED
    BY <1>0, <1>1, <1>6, <1>9, <2>1, <2>2, <2>3, <2>4 DEF ChainInv, KeysHeld
<1>11. PurgeHeld'
  BY Zenon, <1>0, <1>1, <1>3, <1>t, ChainTypes DEF ChainInv, PurgeHeld, PurgeType, Drawn, isTerminalRow, Expired, WasReset, PurgeKeys
<1>12. LinksHeld'
  BY Zenon, <1>0, LinksKept DEF ChainInv, LinksHeld
<1>13. ASSUME NEW u \in Threads PROVE StartHeld(u)'
  <2>1. CASE u = t
    <3>1. thread'[t].pc \notin {"idle", "row", "close"}
      BY Zenon, <1>4
    <3>2. /\ n # 0 /\ origin[n].by = j.op /\ j.op # "none"
          /\ j.op = "reset" => j.src \in origin[n].from
          /\ isTerminalRow(row[n]) => row[n].close = now
      BY Zenon, <1>0, <1>1 DEF StartHeld
    <3>3. /\ thread'[t].run # 0 /\ thread'[t].run # purging'.run
          /\ \A v \in Threads \ {t} : thread'[v].run # thread'[t].run
          /\ origin'[thread'[t].run].by = thread'[t].op /\ origin'[thread'[t].run].req = thread'[t].req
          /\ thread'[t].op # "none"
          /\ thread'[t].op = "reset" => thread'[t].src \in origin'[thread'[t].run].from
      BY ZenonT(30), <1>0, <1>1, <1>4, <3>2
    <3>4. /\ row'[thread'[t].run].status # "none"
          /\ isTerminalRow(row'[thread'[t].run]) => row'[thread'[t].run].close = now'
      BY Zenon, <1>0, <1>1, <1>4, <3>2 DEF Exists
    <3> QED
      BY Zenon, <2>1, <3>1, <3>3, <3>4 DEF StartHeld, Exists
  <2>2. CASE u # t
    <3>1. thread'[u] = thread[u] /\ thread[u].run # n /\ StartHeld(u)
      BY <1>1, <1>4, <2>2 DEF ChainInv
    <3>2. \A v \in Threads : thread'[v].run = thread[v].run
      BY Zenon, <1>4
    <3> QED
      BY Zenon, <1>0, <1>6, <1>9, <3>1, <3>2, RunFacts DEF StartHeld, isTerminalRow
  <2> QED
    BY <2>1, <2>2
<1>14. ASSUME NEW u \in Threads PROVE RequestHeld(u)'
  <2>0. thread'[t].pc \notin {"row", "idem"}
    BY <1>4
  <2>1. RequestHeld(u) /\ (u = t => RequestHeld(u)')
    <3>1. RequestHeld(u)
      BY Zenon DEF ChainInv
    <3>2. RequestHeld(t)'
      BY Zenon, <1>2, <1>3, <1>4, <2>0 DEF RequestHeld
    <3> QED
      BY Zenon, <3>1, <3>2
  <2>2. u # t => thread'[u] = thread[u] /\ ~(thread[u].pc # "idle" /\ thread[u].req \in Requests)
    BY Zenon, <1>2, <1>4, <2>1 DEF RequestHeld
  <2> QED
    BY Zenon, <2>1, <2>2 DEF RequestHeld
<1> QED
  BY <1>5, <1>7, <1>10, <1>11, <1>12, <1>13, <1>14 DEF ChainInv

(* A thread that is at rest again. *)
LEMMA RestFacts ==
  ASSUME ChainAssumption
  PROVE  Rest \in JobType /\ Rest.pc = "idle" /\ Rest.run = 0
<1>1. NoRun \in RunRows
  BY DEF NoRun, RunRows
<1> QED
  BY <1>1 DEF Rest, JobType

(* startWorkflowFull puts the first events, and returns the run. *)
LEMMA PutEventsStep ==
  ASSUME ChainInv, NEW t \in Threads, PutEvents(t)
  PROVE  ChainInv'
<1> DEFINE j == thread[t]     n == thread[t].run     reset == thread[t].op = "reset"
<1>0. /\ UNCHANGED <<now, row, idem, purging, origin, crashes>>
      /\ logged' = logged \cup {n} /\ j.pc = "event" /\ recorded' \in BOOLEAN
      /\ acked' = acked \/ (t = "client" /\ acked' = acked \cup {n})
      /\ IF reset THEN thread' = [thread EXCEPT ![t].pc = "close"] ELSE thread' = [thread EXCEPT ![t] = Rest]
  BY Zenon DEF PutEvents, Goes
<1>t. ChainTypeOK
  BY DEF ChainInv
<1>1. /\ n \in Runs /\ Drawn(n) /\ Exists(n) /\ n # purging.run /\ j \in JobType
      /\ StartHeld(t) /\ \A u \in Threads \ {t} : thread[u].run # n
      /\ origin[n].req = j.req
  BY <1>0, RunFacts DEF ChainInv, StartHeld
<1>2. j.req \in Requests => idem[j.req] = n
  BY Zenon, <1>0 DEF ChainInv, RequestHeld
<1>4. /\ thread' \in [Threads -> JobType]
      /\ \A u \in Threads : u # t => thread'[u] = thread[u]
      /\ reset => /\ thread'[t].pc = "close" /\ thread'[t].run = n
                  /\ thread'[t].req = j.req /\ thread'[t].op = j.op /\ thread'[t].src = j.src
      /\ ~reset => thread'[t].pc = "idle" /\ thread'[t].run = 0
  <2>1. CASE reset
    BY <1>0, <1>1, <1>t, <2>1, ChainTypes DEF JobType
  <2>2. CASE ~reset
    BY <1>0, <1>t, <2>2, ChainTypes, RestFacts, ChainAssumption
  <2> QED
    BY <2>1, <2>2
<1> HIDE DEF reset
<1>5. ChainTypeOK'
  BY Zenon, <1>0, <1>1, <1>4, <1>t, ChainTypes DEF ChainTypeOK, JobType
<1>6. \A r \in Runs : Exists(r)' = Exists(r) /\ (Held(r)' => Held(r) \/ (r = n /\ t = "client"))
  BY <1>0 DEF Exists, Held, WasReset, Expired, isTerminalRow
<1>7. NoOrphans'
  BY <1>0, <1>1, <1>6, <1>t, ChainTypes DEF ChainInv, NoOrphans
<1>9. \A r \in Runs : r # n /\ Fresh(r) => Fresh(r)'
  BY Zenon, <1>0, <1>6 DEF Fresh
<1>10. KeysHeld'
  <2>1. \A r \in Runs : Drawn(r)' = Drawn(r)
    BY Zenon, <1>0 DEF Drawn
  <2>2. \A u \in Threads : thread'[u].pc = "idem" => thread'[u].req \in Requests
    BY Zenon, <1>4 DEF ChainInv, KeysHeld
  <2>4. \A r \in Runs : Held(r)' => idem[origin[r].req] = r
    <3>1. \A r \in Runs : Held(r)' /\ r = n => j.req \in Requests
      BY <1>0, <1>1 DEF Held
    <3> QED
      BY Zenon, <1>1, <1>2, <1>6, <3>1 DEF ChainInv, KeysHeld
  <2> QED
    BY Zenon, <1>0, <1>1, <1>9, <2>1, <2>2, <2>4 DEF ChainInv, KeysHeld
<1>11. PurgeHeld'
  BY Zenon, <1>0, <1>1, <1>t, ChainTypes DEF ChainInv, PurgeHeld, PurgeType, Drawn, isTerminalRow, Expired, WasReset, PurgeKeys
<1>12. LinksHeld'
  BY Zenon, <1>0, LinksKept DEF ChainInv, LinksHeld
<1>13. ASSUME NEW u \in Threads PROVE StartHeld(u)'
  <2>0. \A v \in Threads : thread'[v].run \in {thread[v].run, 0}
    BY ZenonT(30), <1>4
  <2>1. CASE u = t
    <3>1. CASE ~reset
      BY Zenon, <1>4, <2>1, <3>1 DEF StartHeld
    <3>2. CASE reset
      <4>1. thread'[t].pc \notin {"idle", "row"} /\ j.op = "reset" /\ thread'[t].op = "reset"
        BY Zenon, <1>4, <3>2 DEF reset
      <4>2. /\ n # 0 /\ origin[n].by = j.op /\ j.src \in origin[n].from
            /\ isTerminalRow(row[n]) => row[n].close = now
        BY Zenon, <1>0, <1>1, <4>1 DEF StartHeld
      <4>3. /\ thread'[t].run # 0 /\ thread'[t].run # purging'.run
            /\ \A v \in Threads \ {t} : thread'[v].run # thread'[t].run
            /\ origin'[thread'[t].run].by = thread'[t].op /\ origin'[thread'[t].run].req = thread'[t].req
            /\ thread'[t].op # "none"
            /\ thread'[t].op = "reset" => thread'[t].src \in origin'[thread'[t].run].from
        BY Zenon, <1>0, <1>1, <1>4, <3>2, <4>1, <4>2
      <4>4. /\ row'[thread'[t].run].status # "none"
            /\ isTerminalRow(row'[thread'[t].run]) => row'[thread'[t].run].close = now'
        BY Zenon, <1>0, <1>1, <1>4, <3>2, <4>2 DEF Exists
      <4> QED
        BY Zenon, <2>1, <4>1, <4>3, <4>4 DEF StartHeld, Exists
    <3> QED
      BY Zenon, <3>1, <3>2
  <2>2. CASE u # t
    <3>1. thread'[u] = thread[u] /\ thread[u].run # n /\ StartHeld(u)
      BY Zenon, <1>1, <1>4, <2>2 DEF ChainInv
    <3> QED
      BY <1>0, <1>6, <1>9, <2>0, <3>1, RunFacts DEF StartHeld, isTerminalRow
  <2> QED
    BY <2>1, <2>2
<1>14. ASSUME NEW u \in Threads PROVE RequestHeld(u)'
  <2>1. RequestHeld(u)
    BY DEF ChainInv
  <2>2. CASE u = t
    BY <1>0, <1>4, <2>1, <2>2 DEF RequestHeld
  <2>3. CASE u # t
    <3>1. thread'[u] = thread[u]
      BY Zenon, <1>4, <2>3
    <3>2. u = "client" => t # "client"
      BY Zenon, <2>3
    <3> QED
      BY Zenon, <1>0, <1>6, <2>1, <3>1, <3>2 DEF RequestHeld
  <2> QED
    BY Zenon, <2>2, <2>3
<1> QED
  BY <1>5, <1>7, <1>10, <1>11, <1>12, <1>13, <1>14 DEF ChainInv

(* ResetWorkflow closes the run it was reset from. *)
LEMMA ResetClosesStep ==
  ASSUME ChainInv, NEW t \in Threads, ResetCloses(t)
  PROVE  ChainInv'
<1> DEFINE j == thread[t]     n == thread[t].run     s == thread[t].src
           put == [thread[t].read EXCEPT !.status = "closed", !.close = now]
<1>0. /\ UNCHANGED <<now, logged, idem, purging, recorded, origin, crashes, acked>>
      /\ row' = [row EXCEPT ![s] = put] /\ j.pc = "close" /\ thread' = [thread EXCEPT ![t] = Rest]
  BY Zenon DEF ResetCloses
<1>t. ChainTypeOK
  BY DEF ChainInv
<1>1. /\ n \in Runs /\ j \in JobType /\ origin[n] \in OriginType
      /\ s \in origin[n].from /\ origin[n].by = "reset"
  BY <1>0, RunFacts DEF ChainInv, StartHeld
<1>2. s \in Runs /\ WasReset(s) /\ ~NoReset
  BY Zenon, <1>1 DEF OriginType, WasReset, NoReset
<1>3. put \in RunRows /\ put.status = "closed" /\ put.close = now
  <2>1. j.read \in RunRows /\ now \in Nat
    BY Zenon, <1>1, <1>t, ChainTypes DEF JobType
  <2> QED
    BY Zenon, <2>1 DEF RunRows
<1> HIDE DEF put
<1>4. /\ thread' \in [Threads -> JobType] /\ thread'[t].pc = "idle" /\ thread'[t].run = 0
      /\ \A u \in Threads : u # t => thread'[u] = thread[u]
  BY Zenon, <1>0, <1>t, ChainTypes, RestFacts, ChainAssumption
<1>5. row' \in [Runs -> RunRows] /\ row'[s] = put /\ \A r \in Runs : r # s => row'[r] = row[r]
  BY <1>0, <1>2, <1>3, <1>t, ChainTypes
<1>6. ChainTypeOK'
  BY Zenon, <1>0, <1>4, <1>5, <1>t, ChainTypes DEF ChainTypeOK, JobType
<1>7. \A r \in Runs : Exists(r)' = (Exists(r) \/ r = s)
  BY <1>3, <1>5 DEF Exists
<1>8. NoOrphans'
  BY Zenon, <1>0, <1>7, <1>t, ChainTypes DEF ChainInv, NoOrphans
<1>9. \A r \in Runs : Fresh(r) => r # s /\ Fresh(r)'
  BY Zenon, <1>0, <1>1, <1>7 DEF Fresh
<1>10. \A r \in Runs : Held(r)' => Held(r)
  <2>1. \A r \in Runs : r = s => WasReset(r)'
    BY <1>0, <1>2 DEF WasReset
  <2> QED
    BY Zenon, <1>0, <1>5, <2>1 DEF Held, WasReset, Exists, Expired, isTerminalRow
<1>11. KeysHeld'
  <2>1. \A r \in Runs : Drawn(r)' = Drawn(r)
    BY Zenon, <1>0 DEF Drawn
  <2>2. \A u \in Threads : thread'[u].pc = "idem" => thread'[u].req \in Requests
    BY <1>4 DEF ChainInv, KeysHeld
  <2> QED
    BY Zenon, <1>0, <1>9, <1>10, <2>1, <2>2 DEF ChainInv, KeysHeld
<1>12. PurgeHeld'
  <2>1. isTerminalRow(row'[s]) /\ \A r \in Runs : r = s => WasReset(r)'
    BY <1>0, <1>2, <1>3, <1>5 DEF isTerminalRow, WasReset
  <2>2. purging \in PurgeType /\ PurgeHeld
    BY <1>t, ChainTypes DEF ChainInv
  <2> QED
    BY Zenon, <1>0, <1>5, <2>1, <2>2 DEF PurgeHeld, PurgeType, Drawn, isTerminalRow, Expired, WasReset, PurgeKeys
<1>13. LinksHeld'
  BY Zenon, <1>0, <1>2, LinksKept
<1>14. ASSUME NEW u \in Threads PROVE StartHeld(u)'
  <2>0. \A v \in Threads : thread'[v].run \in {thread[v].run, 0}
    BY <1>4
  <2>1. CASE u = t
    BY Zenon, <1>4, <2>1 DEF StartHeld
  <2>2. CASE u # t /\ thread[u].pc = "idle"
    BY Zenon, <1>4, <2>2 DEF ChainInv, StartHeld
  <2>3. CASE u # t /\ thread[u].pc # "idle"
    <3>1. thread'[u] = thread[u] /\ StartHeld(u) /\ thread[u].run \in Runs
      BY Zenon, <1>4, <2>3, RunFacts DEF ChainInv
    <3>2. thread[u].pc # "row" => /\ Exists(thread[u].run)'
                                  /\ isTerminalRow(row'[thread[u].run]) => row'[thread[u].run].close = now
      BY Zenon, <1>3, <1>5, <1>7, <2>3, <3>1 DEF StartHeld
    <3>3. thread[u].pc = "row" => Fresh(thread[u].run)'
      BY ZenonT(30), <1>9, <2>3, <3>1 DEF StartHeld
    <3> QED
      BY Zenon, <1>0, <2>0, <2>3, <3>1, <3>2, <3>3 DEF StartHeld
  <2> QED
    BY Zenon, <2>1, <2>2, <2>3
<1>15. ASSUME NEW u \in Threads PROVE RequestHeld(u)'
  BY <1>0, <1>4, <1>10 DEF ChainInv, RequestHeld
<1> QED
  BY <1>6, <1>8, <1>11, <1>12, <1>13, <1>14, <1>15 DEF ChainInv

(* purgeWorkflowRun begins, with a run that is past its retention. *)
LEMMA PurgeBegins ==
  ASSUME ChainInv, NEW n \in Runs, purgeWorkflowRun(n)
  PROVE  ChainInv'
<1>0. /\ UNCHANGED <<now, row, logged, idem, thread, recorded, origin, crashes, acked>>
      /\ purging.run = 0 /\ Expired(n) /\ purging' = [run |-> n, left |-> <<"history", "idem", "row">>]
  BY Zenon DEF purgeWorkflowRun, PurgeKeys
<1>t. ChainTypeOK
  BY DEF ChainInv
<1>1. isTerminalRow(row[n]) /\ Exists(n) /\ Drawn(n) /\ now \in Nat /\ row[n] \in RunRows
  BY <1>0, <1>t, ChainTypes, RunFacts DEF Expired, isTerminalRow, Exists
<1>2. purging' \in PurgeType /\ purging'.run = n /\ purging'.left = <<"history", "idem", "row">>
  BY <1>0 DEF PurgeType
<1>3. ChainTypeOK'
  BY Zenon, <1>0, <1>2, <1>t, ChainTypes DEF ChainTypeOK, PurgeType
<1>4. \A r \in Runs : Held(r)' = Held(r) /\ Fresh(r)' = Fresh(r) /\ Exists(r)' = Exists(r) /\ Drawn(r)' = Drawn(r)
  BY ZenonT(30), <1>0 DEF Held, WasReset, Exists, Expired, isTerminalRow, Fresh, Drawn
<1>5. NoOrphans' /\ KeysHeld'
  BY Zenon, <1>0, <1>4 DEF ChainInv, NoOrphans, KeysHeld, Exists
<1>6. PurgeHeld'
  <2>1. n # 0
    BY RunFacts
  <2> QED
    BY Zenon, <1>0, <1>1, <1>2, <2>1 DEF PurgeHeld, PurgeKeys, Drawn, isTerminalRow, Expired
<1>7. LinksHeld'
  BY Zenon, <1>0, LinksKept DEF ChainInv, LinksHeld
<1>8. ASSUME NEW t \in Threads PROVE StartHeld(t)'
  <2>1. StartHeld(t)
    BY DEF ChainInv
  <2>2. thread[t].pc # "idle" => thread[t].run # n
    <3>1. ~(row[n].close = now)
      <4>1. row[n].close \in Nat
        BY <1>1 DEF RunRows
      <4>2. row[n].close + Retention <= now /\ now \in Nat /\ Retention \in Nat \ {0}
        BY Zenon, <1>0, <1>1, ChainAssumption DEF Expired
      <4> QED
        BY <4>1, <4>2
    <3> QED
      BY Zenon, <1>1, <2>1, <3>1 DEF StartHeld, Fresh
  <2> QED
    BY Zenon, <1>0, <1>2, <1>4, <2>1, <2>2, RunFacts DEF StartHeld, isTerminalRow
<1>9. ASSUME NEW t \in Threads PROVE RequestHeld(t)'
  BY <1>0, <1>4 DEF ChainInv, RequestHeld
<1> QED
  BY Zenon, <1>3, <1>5, <1>6, <1>7, <1>8, <1>9 DEF ChainInv

(* A purge's record with other keys left. *)
LEMMA LeftOnly ==
  ASSUME NEW R, NEW L, NEW p \in [run : R, left : L], NEW x
  PROVE  [p EXCEPT !.left = x] = [run |-> p.run, left |-> x]
OBVIOUS

(* What is left after a delete: one key less. *)
LEMMA OneLess ==
  ASSUME ChainInv, delAll
  PROVE  \/ /\ purging.left = <<"history", "idem", "row">> /\ purging' = [run |-> purging.run, left |-> <<"idem", "row">>]
            /\ logged' = logged \ {purging.run} /\ idem' = idem /\ row' = row
         \/ /\ purging.left = <<"idem", "row">> /\ purging' = [run |-> purging.run, left |-> <<"row">>]
            /\ logged' = logged /\ idem' = IdemWithout(purging.run) /\ row' = row
         \/ /\ purging.left = <<"row">> /\ purging' = [run |-> 0, left |-> <<>>]
            /\ logged' = logged /\ idem' = idem /\ row' = [row EXCEPT ![purging.run] = NoRun]
<1>1. purging \in PurgeType /\ purging.run # 0 /\ purging.left # <<>>
  BY ChainTypes DEF ChainInv, delAll, PurgeHeld
<1>3. CASE purging.left = <<"history", "idem", "row">>
  <2>1. Head(purging.left) = "history" /\ Len(purging.left) = 3 /\ Tail(purging.left) = <<"idem", "row">>
    BY <1>3
  <2>2. [purging EXCEPT !.left = Tail(@)] = [run |-> purging.run, left |-> <<"idem", "row">>]
    <3>1. [purging EXCEPT !.left = Tail(@)] = [run |-> purging.run, left |-> Tail(purging.left)]
      BY Zenon, <1>1, LeftOnly DEF PurgeType
    <3> QED
      BY <2>1, <3>1, Zenon
  <2> QED
    BY <1>3, <2>1, <2>2 DEF delAll
<1>4. CASE purging.left = <<"idem", "row">>
  <2>1. Head(purging.left) = "idem" /\ Len(purging.left) = 2 /\ Tail(purging.left) = <<"row">>
    BY <1>4
  <2>2. [purging EXCEPT !.left = Tail(@)] = [run |-> purging.run, left |-> <<"row">>]
    <3>1. [purging EXCEPT !.left = Tail(@)] = [run |-> purging.run, left |-> Tail(purging.left)]
      BY Zenon, <1>1, LeftOnly DEF PurgeType
    <3> QED
      BY <2>1, <3>1, Zenon
  <2> QED
    BY <1>4, <2>1, <2>2 DEF delAll
<1>5. CASE purging.left = <<"row">>
  <2>1. Head(purging.left) = "row" /\ Len(purging.left) = 1
    BY <1>5
  <2> QED
    BY <1>5, <2>1 DEF delAll
<1> QED
  BY Zenon, <1>1, <1>3, <1>4, <1>5 DEF PurgeType

(* delAll deletes the next key: the history, the request's key, the row. *)
LEMMA PurgeDeletes ==
  ASSUME ChainInv, delAll
  PROVE  ChainInv'
<1> DEFINE n == purging.run
<1>0. UNCHANGED <<now, thread, recorded, origin, crashes, acked>> /\ n # 0
  BY DEF delAll
<1>t. ChainTypeOK /\ PurgeHeld
  BY DEF ChainInv
<1>1. /\ n \in Runs /\ Drawn(n) /\ isTerminalRow(row[n]) /\ ~Held(n)
      /\ \A t \in Threads : thread[t].pc # "idle" => thread[t].run # n
  BY Zenon, <1>0, <1>t, ChainTypes DEF PurgeHeld, PurgeType, Held, ChainInv, StartHeld
<1>2. NoRun \in RunRows /\ NoRun.status = "none"
  BY Zenon DEF NoRun, RunRows
<1>3. /\ logged' \in SUBSET Runs /\ logged' \subseteq logged /\ logged \subseteq logged' \cup {n}
      /\ purging' \in PurgeType /\ purging'.run \in {n, 0}
  <2>1. logged \in SUBSET Runs
    BY <1>t, ChainTypes
  <2> QED
    BY <1>1, <2>1, OneLess DEF PurgeType
<1>4. /\ idem' \in [Requests -> Runs \cup {0}] /\ \A q \in Requests : idem'[q] = idem[q] \/ (idem[q] = n /\ idem'[q] = 0)
  BY Zenon, <1>t, OneLess, ChainTypes DEF IdemWithout
<1>5. /\ row' \in [Runs -> RunRows] /\ \A r \in Runs : r # n => row'[r] = row[r]
      /\ row'[n] = row[n] \/ (purging.left = <<"row">> /\ row'[n].status = "none")
  BY <1>1, <1>2, <1>t, OneLess, ChainTypes
<1>6. ChainTypeOK'
  BY Zenon, <1>0, <1>3, <1>4, <1>5, <1>t, ChainTypes DEF ChainTypeOK, PurgeType
<1>7. \A r \in Runs : Exists(r)' => Exists(r)
  BY Zenon, <1>1, <1>5 DEF Exists, isTerminalRow
<1>8. \A r \in Runs : r # n => Exists(r)' = Exists(r)
  BY <1>5 DEF Exists
<1>9. NoOrphans'
  <2>1. ASSUME ~(row'[n].status # "none")
        PROVE  n \notin logged /\ \A q \in Requests : idem[q] # n
    <3>1. purging.left = <<"row">>
      BY Zenon, <1>1, <1>5, <2>1 DEF isTerminalRow
    <3>2. purging.left # <<"history", "idem", "row">>
      BY <3>1
    <3> QED
      BY Zenon, <1>0, <1>t, <3>1, <3>2 DEF PurgeHeld, PurgeKeys
  <2>2. \A r \in Runs : r = n => Exists(r)' \/ (n \notin logged /\ \A q \in Requests : idem[q] # n)
    BY <2>1 DEF Exists
  <2> QED
    BY Zenon, <1>3, <1>4, <1>8, <1>t, <2>2, ChainTypes DEF ChainInv, NoOrphans
<1>10. \A r \in Runs : (Held(r)' => Held(r)) /\ (Fresh(r) => Fresh(r)') /\ Drawn(r)' = Drawn(r)
  <2>1. \A r \in Runs : r # 0
    BY RunFacts
  <2>2. \A r \in Runs : Drawn(r)' = Drawn(r) /\ WasReset(r)' = WasReset(r)
    BY Zenon, <1>0 DEF Drawn, WasReset
  <2>3. \A r \in Runs : Fresh(r) => Fresh(r)'
    BY Zenon, <1>0, <1>3, <1>4, <1>7, <2>1 DEF Fresh
  <2>4. \A r \in Runs : r # n /\ Held(r)' => Held(r)
    BY Zenon, <1>0, <1>5, <1>8, <2>2 DEF Held, Expired
  <2>5. \A r \in Runs : r = n => ~Held(r)'
    BY Zenon, <1>0, <1>1, <1>5, <1>7, <2>2 DEF Held, Expired, Exists
  <2> QED
    BY Zenon, <2>2, <2>3, <2>4, <2>5
<1>11. KeysHeld'
  <2>1. \A q \in Requests : idem'[q] # 0 => origin'[idem'[q]].req = q
    BY Zenon, <1>0, <1>4 DEF ChainInv, KeysHeld
  <2>2. ASSUME NEW r \in Runs, Held(r)' PROVE idem'[origin'[r].req] = r
    <3>1. Held(r) /\ r # n
      BY <1>1, <1>10, <2>2
    <3> QED
      BY Zenon, <1>0, <1>4, <3>1 DEF ChainInv, KeysHeld, Held
  <2> QED
    BY Zenon, <1>0, <1>10, <2>1, <2>2 DEF ChainInv, KeysHeld
<1>12. PurgeHeld'
  <2>1. CASE purging'.run = 0
    BY <1>0, <2>1, OneLess DEF PurgeHeld
  <2>2. CASE purging'.run # 0
    <3>1. /\ purging'.run = n /\ row' = row
          /\ \/ purging.left = <<"history", "idem", "row">> /\ purging'.left = <<"idem", "row">> /\ n \notin logged'
             \/ /\ purging.left = <<"idem", "row">> /\ purging'.left = <<"row">> /\ n \notin logged'
                /\ \A q \in Requests : idem'[q] # n
      <4>1. purging.left = <<"idem", "row">> => n \notin logged
        BY <1>0, <1>t DEF PurgeHeld, PurgeKeys
      <4> QED
        BY <1>0, <2>2, <4>1, OneLess DEF IdemWithout
    <3>2. /\ Drawn(n) /\ isTerminalRow(row[n]) /\ (Expired(n) \/ WasReset(n))
      BY <1>0, <1>t DEF PurgeHeld
    <3>3. \A r \in Runs : r = n => Drawn(r)' /\ isTerminalRow(row'[r]) /\ (Expired(r)' \/ WasReset(r)')
      BY Zenon, <1>0, <3>1, <3>2 DEF Drawn, Expired, WasReset
    <3>4. purging'.left # <<>> /\ n \notin logged'
      BY <3>1
    <3>5. purging'.left = <<"row">> => \A q \in Requests : idem'[q] # n
      BY <3>1
    <3> QED
      BY Zenon, <1>1, <2>2, <3>1, <3>3, <3>4, <3>5 DEF PurgeHeld
  <2> QED
    BY Zenon, <2>1, <2>2
<1>13. LinksHeld'
  <2>1. \A r \in Runs : row'[r].status \in {row[r].status, "none"}
    BY <1>5
  <2> QED
    BY Zenon, <1>0, <2>1, LinksKept DEF ChainInv, LinksHeld
<1>14. ASSUME NEW t \in Threads PROVE StartHeld(t)'
  <2>1. StartHeld(t)
    BY DEF ChainInv
  <2>2. CASE thread[t].pc = "idle"
    BY Zenon, <1>0, <2>1, <2>2 DEF StartHeld
  <2>3. CASE thread[t].pc # "idle"
    <3>1. thread[t].run \in Runs /\ thread[t].run # n /\ thread[t].run # 0
      BY ZenonT(30), <1>1, <2>3, RunFacts
    <3> QED
      BY Zenon, <1>0, <1>3, <1>5, <1>8, <1>10, <2>1, <2>3, <3>1 DEF StartHeld
  <2> QED
    BY Zenon, <2>2, <2>3
<1>15. ASSUME NEW t \in Threads PROVE RequestHeld(t)'
  <2>1. RequestHeld(t)
    BY DEF ChainInv
  <2> QED
    BY <1>0, <1>1, <1>4, <1>10, <2>1 DEF RequestHeld
<1> QED
  BY <1>6, <1>9, <1>11, <1>12, <1>13, <1>14, <1>15 DEF ChainInv

(* The clock. *)
LEMMA TickStep ==
  ASSUME ChainInv, Tick
  PROVE  ChainInv'
<1>0. /\ UNCHANGED <<row, logged, idem, thread, purging, recorded, origin, crashes, acked>>
      /\ now' = now + 1 /\ \A t \in Threads : thread[t].pc = "idle"
  BY DEF Tick, IdleThread
<1>t. ChainTypeOK
  BY DEF ChainInv
<1>1. ChainTypeOK'
  <2>1. now' \in Nat
    BY <1>0, <1>t, ChainTypes
  <2> QED
    BY <1>0, <1>t, <2>1, Zenon DEF ChainTypeOK
<1>2. \A r \in Runs : Expired(r) => Expired(r)'
  BY <1>0, <1>t, ChainTypes, ChainAssumption DEF Expired, isTerminalRow, RunRows
<1>3. \A r \in Runs : /\ (Held(r)' => Held(r)) /\ Fresh(r)' = Fresh(r) /\ Exists(r)' = Exists(r)
                       /\ Drawn(r)' = Drawn(r) /\ WasReset(r)' = WasReset(r)
  BY <1>0, <1>2 DEF Held, WasReset, Exists, Fresh, Drawn
<1>4. NoOrphans' /\ KeysHeld'
  BY Zenon, <1>0, <1>3 DEF ChainInv, NoOrphans, KeysHeld, Exists
<1>5. PurgeHeld'
  <2>1. purging.run # 0 => purging.run \in Runs
    BY <1>t, ChainTypes DEF PurgeType
  <2> QED
    BY Zenon, <1>0, <1>2, <1>3, <2>1 DEF ChainInv, PurgeHeld, PurgeKeys, isTerminalRow
<1>6. LinksHeld'
  BY Zenon, <1>0, LinksKept DEF ChainInv, LinksHeld
<1>7. ASSUME NEW t \in Threads PROVE StartHeld(t)' /\ RequestHeld(t)'
  BY Zenon, <1>0 DEF ChainInv, StartHeld, RequestHeld
<1> QED
  BY Zenon, <1>1, <1>4, <1>5, <1>6, <1>7 DEF ChainInv

(* A stop of the process: what the store holds is what is left. *)
LEMMA CrashStep ==
  ASSUME ChainInv, Crash
  PROVE  ChainInv'
<1>0. /\ UNCHANGED <<now, row, logged, idem, recorded, origin, acked>> /\ crashes' = crashes + 1
      /\ thread' = [t \in Threads |-> Rest] /\ purging' = [run |-> 0, left |-> <<>>]
  BY DEF Crash
<1>t. ChainTypeOK
  BY DEF ChainInv
<1>1. thread' \in [Threads -> JobType] /\ \A t \in Threads : thread'[t].pc = "idle" /\ thread'[t].run = 0
  BY Zenon, <1>0, RestFacts, ChainAssumption
<1>2. purging' \in PurgeType /\ purging'.run = 0 /\ purging'.left = <<>>
  BY <1>0 DEF PurgeType
<1>3. ChainTypeOK'
  <2>1. crashes' \in Nat
    BY <1>0, <1>t, ChainTypes
  <2> QED
    BY <1>0, <1>1, <1>2, <1>t, <2>1, Zenon DEF ChainTypeOK, PurgeType, JobType
<1>4. \A r \in Runs : Held(r)' = Held(r) /\ Fresh(r)' = Fresh(r) /\ Drawn(r)' = Drawn(r)
  BY <1>0 DEF Held, WasReset, Exists, Expired, isTerminalRow, Fresh, Drawn
<1>5. NoOrphans' /\ KeysHeld'
  BY Zenon, <1>0, <1>1, <1>4 DEF ChainInv, NoOrphans, KeysHeld, Exists
<1>6. PurgeHeld'
  BY <1>2 DEF PurgeHeld
<1>7. LinksHeld'
  BY Zenon, <1>0, LinksKept DEF ChainInv, LinksHeld
<1>8. ASSUME NEW t \in Threads PROVE StartHeld(t)' /\ RequestHeld(t)'
  BY <1>1 DEF StartHeld, RequestHeld
<1> QED
  BY <1>3, <1>5, <1>6, <1>7, <1>8 DEF ChainInv

-----------------------------------------------------------------------------
(* The order of the numbers. *)
Less == {p \in Nat \X Nat : p[1] < p[2]}

(* A set of numbers that is not empty has a smallest one. *)
LEMMA Smallest == ASSUME NEW S \in SUBSET Nat, S # {} PROVE \E x \in S : \A y \in S : x <= y
<1>1. IsWellFoundedOn(Less, Nat)
  BY NatLessThanWellFounded DEF OpToRel, Less
<1>2. PICK x \in S : \A y \in S : ~(<<y, x>> \in Less)
  BY Zenon, <1>1, WFMin
<1>3. \A y \in S : ~(y < x)
  BY Zenon, <1>2 DEF Less
<1> QED
  BY <1>3

(* A list of numbers has a greatest one: no shortest list is without. *)
LEMMA GreatestOfList ==
  ASSUME NEW n \in Nat \ {0}, NEW g \in [1 .. n -> Nat]
  PROVE  \E i \in 1 .. n : \A k \in 1 .. n : g[k] <= g[i]
<1> DEFINE Tops(m, h) == \E i \in 1 .. m : \A k \in 1 .. m : h[k] <= h[i]
           Bad == {m \in Nat \ {0} : \E h \in [1 .. m -> Nat] : ~Tops(m, h)}
<1> SUFFICES ASSUME Bad # {} PROVE FALSE
  BY Zenon
<1>1. Bad \in SUBSET Nat
  OBVIOUS
<1>2. PICK m \in Bad : \A k \in Bad : m <= k
  <2> HIDE DEF Bad
  <2> QED
    BY Zenon, <1>1, Smallest
<1>3. PICK h \in [1 .. m -> Nat] : ~Tops(m, h)
  BY Zenon
<1>4. m \in Nat /\ m # 0
  OBVIOUS
<1>5. CASE m = 1
  BY <1>3, <1>5
<1>6. CASE m # 1
  <2> DEFINE c == [k \in 1 .. m - 1 |-> h[k]]
  <2>0. m - 1 \in Nat \ {0} /\ ~(m <= m - 1) /\ \A k \in 1 .. m - 1 : k \in 1 .. m
    BY <1>4, <1>6
  <2>1. m - 1 \in Nat \ {0} /\ c \in [1 .. m - 1 -> Nat] /\ ~(m <= m - 1)
    BY Zenon, <2>0
  <2>2. m - 1 \notin Bad
    <3> HIDE DEF Bad
    <3> QED
      BY <1>2, <2>1
  <2>3. Tops(m - 1, c)
    BY Zenon, <2>1, <2>2
  <2>4. PICK i \in 1 .. m - 1 : \A k \in 1 .. m - 1 : c[k] <= c[i]
    BY Zenon, <2>3
  <2>5. \A k \in 1 .. m - 1 : h[k] <= h[i]
    BY <2>4
  <2>6. i \in 1 .. m /\ m \in 1 .. m /\ \A k \in 1 .. m : k \in 1 .. m - 1 \/ k = m
    BY <1>4
  <2>7. h[i] \in Nat /\ h[m] \in Nat /\ \A k \in 1 .. m : h[k] \in Nat
    BY Zenon, <2>6
  <2>8. CASE h[m] <= h[i]
    BY Zenon, <1>3, <2>5, <2>6, <2>8
  <2>9. CASE ~(h[m] <= h[i])
    <3>1. ASSUME NEW k \in 1 .. m PROVE h[k] <= h[m]
      <4>1. CASE k = m
        BY <2>7, <4>1
      <4>2. CASE k \in 1 .. m - 1
        <5>1. h[k] <= h[i] /\ h[k] \in Nat
          BY Zenon, <2>5, <2>7, <4>2
        <5>2. \A x, y, z \in Nat : x <= y /\ ~(z <= y) => x <= z
          OBVIOUS
        <5> QED
          BY <2>7, <2>9, <5>1, <5>2, Zenon
      <4> QED
        BY Zenon, <2>6, <4>1, <4>2
    <3> QED
      BY Zenon, <1>3, <2>6, <3>1
  <2> QED
    BY <2>8, <2>9
<1> QED
  BY <1>5, <1>6

(* A number given to each member of a part of a finite set is greatest at one of them. *)
LEMMA Greatest ==
  ASSUME NEW S, IsFiniteSet(S), NEW P \in SUBSET S, P # {}, NEW f \in [P -> Nat]
  PROVE  \E x \in P : \A y \in P : f[y] <= f[x]
<1>1. PICK s \in Seq(S) : \A y \in S : \E i \in 1 .. Len(s) : s[i] = y
  BY DEF IsFiniteSet
<1> DEFINE n == Len(s)     g == [i \in 1 .. n |-> IF s[i] \in P THEN f[s[i]] + 1 ELSE 0]
<1>2. n \in Nat /\ \A y \in P : f[y] \in Nat /\ \E i \in 1 .. n : s[i] = y
  BY <1>1
<1>3. n # 0
  BY <1>2
<1>4. g \in [1 .. n -> Nat]
  BY <1>2
<1>5. PICK i \in 1 .. n : \A k \in 1 .. n : g[k] <= g[i]
  <2> HIDE DEF g, n
  <2> QED
    BY Zenon, <1>2, <1>3, <1>4, GreatestOfList
<1>6. PICK y \in P : TRUE
  BY Zenon
<1>7. s[i] \in P
  BY <1>2, <1>5, <1>6
<1>8. ASSUME NEW z \in P PROVE f[z] <= f[s[i]]
  <2>1. PICK k \in 1 .. n : s[k] = z
    BY Zenon, <1>2
  <2>2. g[k] <= g[i]
    BY Zenon, <1>5, <2>1
  <2>3. g[k] = f[z] + 1 /\ g[i] = f[s[i]] + 1 /\ f[z] \in Nat /\ f[s[i]] \in Nat
    BY Zenon, <1>2, <1>5, <1>7, <2>1
  <2> HIDE DEF g
  <2> QED
    BY <2>2, <2>3
<1> QED
  BY Zenon, <1>7, <1>8

(* The scan of DescribeWorkflow has a most current run: the last to be drawn of
   those that started last, among the rows of the best status. *)
LEMMA CurrentIsRow ==
  ASSUME ChainTypeOK
  PROVE  IF \E r \in Runs : Exists(r)
         THEN Current \in Runs /\ Exists(Current) /\ \A o \in Runs : Exists(o) => ~moreCurrentRun(o, Current)
         ELSE Current = 0
<1> DEFINE present == {r \in Runs : Exists(r)}
<1>1. CASE present = {}
  BY Zenon, <1>1 DEF Current
<1>2. CASE present # {}
  <2> DEFINE Grade(r) == IF row[r].status = "continued" THEN 0 ELSE IF row[r].status = "closed" THEN 1 ELSE 2
             grade == [r \in present |-> Grade(r)]
  <2>0. /\ \A r \in present : row[r] \in RunRows /\ row[r].start \in Nat /\ r \in Nat /\ Grade(r) \in Nat
        /\ present \subseteq Runs
    BY Zenon, ChainTypes, ChainAssumption DEF RunRows
  <2>1. present \in SUBSET Runs /\ grade \in [present -> Nat]
    BY Zenon, <2>0
  <2>2. PICK a \in present : \A r \in present : Grade(r) <= Grade(a)
    <3>1. \E a \in present : \A r \in present : grade[r] <= grade[a]
      <4> HIDE DEF grade, present
      <4> QED
        BY Zenon, <1>2, <2>1, ChainAssumption, Greatest
    <3> QED
      BY <3>1
  <2> DEFINE best == {r \in present : Grade(r) = Grade(a)}     started == [r \in best |-> row[r].start]
  <2>3. best \in SUBSET Runs /\ best # {} /\ started \in [best -> Nat]
    BY Zenon, <2>0
  <2>4. PICK b \in best : \A r \in best : row[r].start <= row[b].start
    <3>1. \E b \in best : \A r \in best : started[r] <= started[b]
      <4> HIDE DEF started, best
      <4> QED
        BY Zenon, <2>3, ChainAssumption, Greatest
    <3> QED
      BY Zenon, <3>1
  <2> DEFINE last == {r \in best : row[r].start = row[b].start}     id == [r \in last |-> r]
  <2>5. last \in SUBSET Runs /\ last # {} /\ id \in [last -> Nat]
    BY Zenon, <2>0
  <2>6. PICK c \in last : \A r \in last : r <= c
    <3>1. \E c \in last : \A r \in last : id[r] <= id[c]
      <4> HIDE DEF id, last
      <4> QED
        BY Zenon, <2>5, ChainAssumption, Greatest
    <3> QED
      BY Zenon, <3>1
  <2>7. ASSUME NEW o \in present PROVE ~moreCurrentRun(o, c)
    <3>1. /\ c \in present /\ Grade(o) <= Grade(c) /\ row[c].start \in Nat /\ row[o].start \in Nat /\ o \in Nat /\ c \in Nat
          /\ Grade(o) = Grade(c) => row[o].start <= row[c].start
          /\ Grade(o) = Grade(c) /\ row[o].start = row[c].start => o <= c
      BY Zenon, <2>0, <2>2, <2>4, <2>6
    <3>2. row[c].status \in {"running", "closed", "continued"} /\ row[o].status \in {"running", "closed", "continued"}
      BY Zenon, <2>0, <3>1 DEF Exists, RunRows
    <3> QED
      BY <3>1, <3>2 DEF moreCurrentRun, isTerminalRow
  <2>8. \E r \in present : \A o \in present : ~moreCurrentRun(o, r)
    BY Zenon, <2>7
  <2>9. Current = CHOOSE r \in present : \A o \in present : ~moreCurrentRun(o, r)
    BY Zenon, <1>2 DEF Current
  <2>10. Current \in present /\ \A o \in present : ~moreCurrentRun(o, Current)
    <3> HIDE DEF present
    <3> QED
      BY Zenon, <2>8, <2>9
  <2> QED
    BY Zenon, <1>2, <2>10
<1> QED
  BY <1>1, <1>2

-----------------------------------------------------------------------------
(* A run may be closed in a step: by its decider, a client, a start that replaces
   it, or a continue-as-new. *)
Closing ==
  /\ row' \in [Runs -> RunRows]
  /\ \A r \in Runs : \/ row'[r] = row[r]
                      \/ /\ Open(r) /\ row'[r].status \in {"closed", "continued"} /\ row'[r].close = now

(* The close of a run, as the store sees it. *)
LEMMA ClosesOne ==
  ASSUME ChainTypeOK, NEW r \in Runs, Open(r), NEW status \in {"closed", "continued"},
         row' = [row EXCEPT ![r] = ClosedRow(r, status)]
  PROVE  Closing /\ row'[r].status = status
<1>1. row[r] \in RunRows /\ now \in Nat
  BY ChainTypes
<1>2. ClosedRow(r, status) \in RunRows /\ ClosedRow(r, status).status = status /\ ClosedRow(r, status).close = now
  BY Zenon, <1>1 DEF ClosedRow, RunRows
<1>3. row' \in [Runs -> RunRows] /\ row'[r] = ClosedRow(r, status) /\ \A s \in Runs : s # r => row'[s] = row[s]
  BY Zenon, <1>2, ChainTypes
<1> QED
  BY Zenon, <1>2, <1>3 DEF Closing

(* A run that is closed in this step is there as before, and not expired. *)
LEMMA ClosingKeeps ==
  ASSUME ChainInv, Closing, now' = now
  PROVE  \A r \in Runs :
           /\ Exists(r)' = Exists(r) /\ Expired(r)' = Expired(r)
           /\ isTerminalRow(row[r]) => row'[r] = row[r]
           /\ row[r].status # "running" => row'[r] = row[r]
           /\ row'[r] # row[r] => row'[r].close = now
<1> SUFFICES ASSUME NEW r \in Runs
             PROVE  /\ Exists(r)' = Exists(r) /\ Expired(r)' = Expired(r)
                    /\ isTerminalRow(row[r]) => row'[r] = row[r]
                    /\ row[r].status # "running" => row'[r] = row[r]
                    /\ row'[r] # row[r] => row'[r].close = now
  BY Zenon
<1>1. CASE row'[r] = row[r]
  BY Zenon, <1>1 DEF Exists, Expired
<1>2. CASE row'[r] # row[r]
  <2>1. Open(r) /\ row'[r].status \in {"closed", "continued"} /\ row'[r].close = now
    BY Zenon, <1>2 DEF Closing
  <2>2. ~Expired(r) /\ ~isTerminalRow(row[r]) /\ Exists(r) /\ Exists(r)'
    BY Zenon, <2>1 DEF Open, Expired, isTerminalRow, Exists
  <2>3. ~(now + Retention <= now)
    BY ChainTypes, ChainAssumption DEF ChainInv
  <2>4. ~Expired(r)'
    BY Zenon, <2>1, <2>3 DEF Expired
  <2>5. Exists(r)' = Exists(r)
    BY Zenon, <2>2 DEF Exists
  <2>6. Expired(r)' = Expired(r)
    BY Zenon, <2>2, <2>4 DEF Expired, isTerminalRow
  <2> QED
    BY Zenon, <2>1, <2>2, <2>5, <2>6 DEF Open
<1> QED
  BY Zenon, <1>1, <1>2

(* A run closes, or is continued by another. *)
LEMMA CloseStep ==
  ASSUME ChainInv, Closing,
         UNCHANGED <<now, logged, idem, thread, purging, recorded, origin, crashes, acked>>
  PROVE  ChainInv'
<1>t. ChainTypeOK
  BY DEF ChainInv
<1>1. ChainTypeOK'
  BY <1>t, Zenon DEF ChainTypeOK, Closing
<1>2. \A r \in Runs : /\ Exists(r)' = Exists(r) /\ Held(r)' = Held(r) /\ Fresh(r)' = Fresh(r)
                       /\ Drawn(r)' = Drawn(r) /\ WasReset(r)' = WasReset(r)
  BY Zenon, ClosingKeeps DEF Held, WasReset, Fresh, Drawn
<1>3. NoOrphans' /\ KeysHeld'
  BY Zenon, <1>2, <1>t, ChainTypes DEF ChainInv, NoOrphans, KeysHeld
<1>4. PurgeHeld'
  <2>1. purging.run # 0 => purging.run \in Runs
    BY <1>t, ChainTypes DEF PurgeType
  <2> QED
    BY Zenon, <1>2, <2>1, ClosingKeeps DEF ChainInv, PurgeHeld, PurgeKeys
<1>5. LinksHeld'
  <2>1. \A r \in Runs : row[r].status \in {"continued", "none"} => row'[r] = row[r]
    BY Zenon, ClosingKeeps
  <2> QED
    BY Zenon, <2>1, LinksKept DEF ChainInv, LinksHeld
<1>6. ASSUME NEW t \in Threads PROVE StartHeld(t)'
  <2>1. StartHeld(t)
    BY DEF ChainInv
  <2>2. CASE thread[t].pc = "idle"
    BY Zenon, <2>1, <2>2 DEF StartHeld
  <2>3. CASE thread[t].pc # "idle"
    <3>1. thread[t].run \in Runs
      BY <2>3, RunFacts
    <3> QED
      BY Zenon, <1>2, <2>1, <2>3, <3>1, ClosingKeeps DEF StartHeld
  <2> QED
    BY Zenon, <2>2, <2>3
<1>7. ASSUME NEW t \in Threads PROVE RequestHeld(t)'
  BY Zenon, <1>2 DEF ChainInv, RequestHeld
<1> QED
  BY Zenon, <1>1, <1>3, <1>4, <1>5, <1>6, <1>7 DEF ChainInv

(* A run is drawn, and another one may be closed in the same step. *)
LEMMA DrawStep ==
  ASSUME ChainInv, Closing, NEW t \in Threads, IdleThread(t),
         NEW op \in {"start", "child", "continue", "reset"}, NEW src \in Runs \cup {0},
         NEW q \in Requests \cup {"none"}, Draw(t, op, src, q),
         IF op \in {"continue", "reset"} THEN src \in Runs /\ Exists(src) ELSE src = 0,
         op = "continue" => Open(src) /\ row'[src].status = "continued",
         q \in Requests => t = "client" /\ ~Known(q),
         UNCHANGED <<now, logged, idem, purging, recorded, crashes, acked>>
  PROVE  ChainInv'
<1>t. ChainTypeOK /\ 0 \notin Runs /\ LinksHeld
  BY RunFacts DEF ChainInv
<1> DEFINE before == IF src = 0 THEN {} ELSE {src} \cup origin[src].from
           mark == [by |-> op, req |-> q, from |-> before]
           job(n) == [pc |-> "row", op |-> op, run |-> n, src |-> src, req |-> q,
                      read |-> IF op = "reset" THEN row[src] ELSE NoRun]
<1>1. PICK n \in Runs : /\ ~Drawn(n) /\ origin' = [origin EXCEPT ![n] = mark]
                        /\ thread' = [thread EXCEPT ![t] = job(n)]
  BY Zenon DEF Draw, Drawn
<1>2. Fresh(n) /\ n # 0
  BY Zenon, <1>1, <1>t DEF ChainInv, KeysHeld
<1>3. before \in SUBSET Runs /\ mark \in OriginType
  BY Zenon, <1>t, ChainTypes DEF OriginType
<1>4. /\ origin' \in [Runs -> OriginType] /\ \A r \in Runs : r # n => origin'[r] = origin[r]
      /\ origin'[n].by = op /\ origin'[n].req = q /\ origin'[n].from = before
  BY Zenon, <1>1, <1>3, <1>t, ChainTypes
<1>5. job(n) \in JobType
  <2>1. NoRun \in RunRows
    BY Zenon DEF NoRun, RunRows
  <2>2. op = "reset" => row[src] \in RunRows
    BY <1>t, ChainTypes
  <2> QED
    BY Zenon, <2>1, <2>2 DEF JobType
<1>6. /\ thread' \in [Threads -> JobType] /\ \A u \in Threads : u # t => thread'[u] = thread[u]
      /\ thread'[t].pc = "row" /\ thread'[t].op = op /\ thread'[t].run = n /\ thread'[t].src = src
      /\ thread'[t].req = q
  BY Zenon, <1>1, <1>5, <1>t, ChainTypes
<1> HIDE DEF before, mark, job
<1>7. ChainTypeOK'
  BY <1>4, <1>6, <1>t, Zenon DEF ChainTypeOK, Closing, OriginType, JobType
<1>8. \A r \in Runs : Exists(r)' = Exists(r) /\ Expired(r)' = Expired(r)
  BY Zenon, ClosingKeeps
<1>9. \A r \in before : r \in Runs /\ Drawn(r) /\ ~Fresh(r)
  <2>1. src # 0 => Drawn(src) /\ ~Fresh(src) /\ \A r \in origin[src].from : ~Fresh(r)
    BY Zenon, <1>t, RunFacts DEF Fresh
  <2> QED
    BY Zenon, <1>3, <2>1 DEF before, ChainInv, KeysHeld
<1>10. \A r \in Runs : (Fresh(r) => Fresh(r)') /\ (WasReset(r) => WasReset(r)')
  <2>1. \A r \in Runs : Fresh(r) => Fresh(r)'
    BY Zenon, <1>4, <1>8, <1>9 DEF Fresh
  <2>2. ASSUME NEW r \in Runs, WasReset(r) PROVE WasReset(r)'
    <3>1. PICK s \in Runs : origin[s].by = "reset" /\ r \in origin[s].from
      BY Zenon, <2>2 DEF WasReset
    <3>2. s # n
      BY Zenon, <1>1, <3>1 DEF Drawn
    <3> QED
      BY Zenon, <1>4, <3>1, <3>2 DEF WasReset
  <2> QED
    BY Zenon, <2>1, <2>2
<1>11. \A r \in Runs : Held(r)' => r # n /\ Held(r)
  BY Zenon, <1>2, <1>4, <1>8, <1>10 DEF Held, Fresh
<1>12. NoOrphans'
  BY Zenon, <1>8, <1>t, ChainTypes DEF ChainInv, NoOrphans
<1>13. KeysHeld'
  <2>1. \A r \in Runs : ~Drawn(r)' => ~Drawn(r)
    BY Zenon, <1>1, <1>4 DEF Drawn
  <2>2. ASSUME NEW p \in Requests, idem[p] # 0 PROVE origin'[idem[p]].req = p
    <3>1. idem[p] \in Runs /\ idem[p] # n
      BY Zenon, <1>2, <1>t, <2>2, ChainTypes DEF Fresh
    <3> QED
      BY Zenon, <1>4, <2>2, <3>1 DEF ChainInv, KeysHeld
  <2>3. \A r \in Runs : Held(r)' => idem[origin'[r].req] = r
    BY Zenon, <1>4, <1>11 DEF ChainInv, KeysHeld
  <2>4. \A u \in Threads : thread'[u].pc = "idem" => thread'[u].req \in Requests
    BY Zenon, <1>6 DEF ChainInv, KeysHeld
  <2> QED
    BY Zenon, <1>10, <2>1, <2>2, <2>3, <2>4 DEF ChainInv, KeysHeld
<1>14. purging.run # n
  BY Zenon, <1>1, <1>2 DEF ChainInv, PurgeHeld
<1>15. PurgeHeld'
  <2>1. purging.run # 0 => purging.run \in Runs
    BY Zenon, <1>t, ChainTypes DEF PurgeType
  <2>2. \A r \in Runs : Drawn(r) => Drawn(r)'
    BY Zenon, <1>1, <1>4 DEF Drawn
  <2> QED
    BY Zenon, <1>8, <1>10, <2>1, <2>2, ClosingKeeps DEF ChainInv, PurgeHeld, PurgeKeys
<1>16. ASSUME NEW u \in Threads PROVE StartHeld(u)'
  <2>0. \A v \in Threads : thread[v].run # n
    <3>1. \A v \in Threads : thread[v].pc = "idle" => thread[v].run = 0
      BY Zenon DEF ChainInv, StartHeld
    <3> QED
      BY Zenon, <1>1, <1>2, <3>1, RunFacts
  <2>1. CASE u = t
    <3>1. \A r \in Runs : r = n => Fresh(r)'
      BY Zenon, <1>2, <1>10
    <3>2. op = "reset" => src \in before
      BY Zenon, <1>t DEF before
    <3> QED
      BY ZenonT(30), <1>2, <1>4, <1>6, <1>14, <2>0, <2>1, <3>1, <3>2 DEF StartHeld
  <2>2. CASE u # t /\ thread[u].pc = "idle"
    BY ZenonT(30), <1>6, <2>2 DEF ChainInv, StartHeld
  <2>3. CASE u # t /\ thread[u].pc # "idle"
    <3>1. thread'[u] = thread[u] /\ thread[u].run \in Runs /\ StartHeld(u) /\ thread[u].run # n
      BY Zenon, <1>6, <2>0, <2>3, RunFacts DEF ChainInv
    <3>2. \A v \in Threads \ {u} : thread'[v].run # thread[u].run
      BY Zenon, <1>6, <2>3, <3>1 DEF StartHeld
    <3>3. origin'[thread[u].run] = origin[thread[u].run]
      BY Zenon, <1>4, <3>1
    <3>4. thread[u].pc = "row" => Fresh(thread[u].run)'
      BY Zenon, <1>6, <1>10, <2>3, <3>1 DEF StartHeld
    <3>5. thread[u].pc # "row" => /\ Exists(thread[u].run)'
                                  /\ isTerminalRow(row'[thread[u].run]) => row'[thread[u].run].close = now
      BY Zenon, <1>8, <2>3, <3>1, ClosingKeeps DEF StartHeld
    <3> QED
      BY Zenon, <2>3, <3>1, <3>2, <3>3, <3>4, <3>5 DEF StartHeld
  <2> QED
    BY Zenon, <2>1, <2>2, <2>3
<1>17. ASSUME NEW u \in Threads PROVE RequestHeld(u)'
  <2>1. RequestHeld(u)
    BY Zenon DEF ChainInv
  <2>2. CASE u = t
    <3>1. ASSUME q \in Requests, NEW r \in Runs, Held(r)' PROVE origin'[r].req # q
      <4>1. Held(r) /\ origin'[r] = origin[r] /\ idem[origin[r].req] = r /\ Exists(r)
        BY Zenon, <1>4, <1>11, <3>1 DEF ChainInv, KeysHeld, Held
      <4> QED
        BY Zenon, <1>t, <3>1, <4>1 DEF Known
    <3> QED
      BY Zenon, <1>6, <2>2, <3>1 DEF RequestHeld
  <2>3. CASE u # t
    BY Zenon, <1>4, <1>6, <1>11, <2>1, <2>3 DEF RequestHeld
  <2> QED
    BY Zenon, <2>2, <2>3
<1>18. /\ NoReset' => NoReset /\ op # "reset"
       /\ \A r \in Runs : Drawn(r)' = (Drawn(r) \/ r = n)
  <2>1. NoReset' => NoReset
    <3>1. \A r \in Runs : origin[r].by = "reset" => origin'[r].by = "reset"
      BY Zenon, <1>1, <1>4 DEF Drawn
    <3> QED
      BY Zenon, <3>1 DEF NoReset
  <2> QED
    BY Zenon, <1>1, <1>4, <2>1 DEF NoReset, Drawn
<1>19. NoReset /\ src # 0 => \A r \in origin[src].from : WasContinued(r)
  BY Zenon, <1>t DEF LinksHeld, NoReset, WasContinued
<1>20. \A r \in Runs : origin'[r].from # {} => origin'[r].by \in {"continue", "reset"}
  BY Zenon, <1>4, <1>t DEF before, LinksHeld
<1>21. \E r \in Runs : origin'[r].by \in {"start", "child"}
  <2>1. CASE op \in {"start", "child"}
    BY Zenon, <1>4, <2>1
  <2>2. CASE op \in {"continue", "reset"}
    <3>1. Drawn(src) /\ src \in Runs
      BY Zenon, <2>2, RunFacts
    <3>2. PICK r \in Runs : origin[r].by \in {"start", "child"}
      BY Zenon, <1>t, <3>1 DEF LinksHeld
    <3>3. r # n
      BY Zenon, <1>1, <3>2 DEF Drawn
    <3> QED
      BY Zenon, <1>4, <3>2, <3>3
  <2> QED
    BY Zenon, <2>1, <2>2
<1>22. ASSUME NoReset', NEW r \in Runs, WasContinued(r)' PROVE row'[r].status \in {"continued", "none"}
  <2>1. PICK s \in Runs : origin'[s].by = "continue" /\ r \in origin'[s].from
    BY Zenon, <1>22 DEF WasContinued
  <2>2. NoReset
    BY Zenon, <1>18, <1>22
  <2>3. CASE WasContinued(r)
    <3>1. row[r].status \in {"continued", "none"}
      BY Zenon, <1>t, <2>2, <2>3 DEF LinksHeld
    <3> QED
      BY Zenon, <3>1, ClosingKeeps
  <2>4. CASE ~WasContinued(r)
    <3>1. s = n
      BY Zenon, <1>4, <2>1, <2>4 DEF WasContinued
    <3>2. op = "continue" /\ r \in before
      BY Zenon, <1>4, <2>1, <3>1
    <3>3. r = src
      BY Zenon, <1>19, <2>2, <2>4, <3>2 DEF before
    <3> QED
      BY Zenon, <3>2, <3>3
  <2> QED
    BY Zenon, <2>3, <2>4
<1>23. ASSUME OneChain', NEW r \in Runs, Drawn(r), r # n PROVE r \in before
  <2>1. NoReset' /\ \E first \in Runs : {x \in Runs : origin'[x].by \in {"start", "child"}} = {first}
    BY Zenon, <1>23 DEF OneChain, NoReset
  <2>2. PICK first \in Runs : {x \in Runs : origin'[x].by \in {"start", "child"}} = {first}
    BY Zenon, <2>1
  <2>3. NoReset /\ op # "reset"
    BY Zenon, <1>18, <2>1
  <2>4. PICK x \in Runs : origin[x].by \in {"start", "child"}
    BY Zenon, <1>23, <1>t DEF LinksHeld
  <2>5. x # n /\ origin'[x].by \in {"start", "child"}
    BY Zenon, <1>1, <1>4, <2>4 DEF Drawn
  <2>6. op = "continue"
    <3>1. x = first
      BY Zenon, <2>2, <2>5
    <3>2. origin'[n].by \in {"start", "child"} => n = first
      BY Zenon, <2>2
    <3> QED
      BY Zenon, <1>4, <2>3, <2>5, <3>1, <3>2
  <2>7. src \in Runs /\ Open(src) /\ Drawn(src) /\ src # n
    BY Zenon, <1>1, <2>6, RunFacts
  <2>8. OneChain
    <3>1. {y \in Runs : origin[y].by \in {"start", "child"}} = {y \in Runs : origin'[y].by \in {"start", "child"}}
      <4>1. \A y \in Runs : origin[y].by \in {"start", "child"} <=> origin'[y].by \in {"start", "child"}
        BY Zenon, <1>1, <1>4, <2>6 DEF Drawn
      <4> QED
        BY Zenon, <4>1
    <3> QED
      BY Zenon, <2>2, <2>3, <3>1 DEF OneChain, NoReset
  <2>9. r = src \/ r \in origin[src].from \/ src \in origin[r].from
    BY Zenon, <1>23, <1>t, <2>7, <2>8 DEF LinksHeld
  <2>10. src \notin origin[r].from
    <3>1. ASSUME src \in origin[r].from PROVE FALSE
      <4>1. origin[r].by = "continue"
        BY Zenon, <1>t, <2>3, <3>1 DEF LinksHeld, NoReset
      <4>2. WasContinued(src)
        BY Zenon, <3>1, <4>1 DEF WasContinued
      <4> QED
        BY Zenon, <1>t, <2>3, <2>7, <4>2 DEF LinksHeld, Open
    <3> QED
      BY Zenon, <3>1
  <2> QED
    BY Zenon, <1>t, <2>7, <2>9, <2>10 DEF before
<1>24. ASSUME OneChain', NEW r \in Runs, NEW s \in Runs, Drawn(r)', Drawn(s)'
       PROVE  r = s \/ r \in origin'[s].from \/ s \in origin'[r].from
  <2>1. CASE r = n
    BY Zenon, <1>4, <1>18, <1>23, <1>24, <2>1
  <2>2. CASE s = n
    BY Zenon, <1>4, <1>18, <1>23, <1>24, <2>2
  <2>3. CASE r # n /\ s # n
    <3>1. Drawn(r) /\ Drawn(s) /\ origin'[r] = origin[r] /\ origin'[s] = origin[s]
      BY ZenonT(30), <1>4, <1>18, <1>24, <2>3
    <3>2. src # 0
      <4>1. r \in before
        BY Zenon, <1>23, <1>24, <2>3, <3>1
      <4> QED
        BY Zenon, <4>1 DEF before
    <3>3. OneChain
      <4>1. op # "reset" /\ NoReset
        BY Zenon, <1>18, <1>24 DEF OneChain, NoReset
      <4>2. op = "continue"
        BY Zenon, <3>2, <4>1
      <4>3. \A y \in Runs : origin[y].by \in {"start", "child"} <=> origin'[y].by \in {"start", "child"}
        BY Zenon, <1>1, <1>4, <4>2 DEF Drawn
      <4>4. {y \in Runs : origin[y].by \in {"start", "child"}} = {y \in Runs : origin'[y].by \in {"start", "child"}}
        BY Zenon, <4>3
      <4> QED
        BY Zenon, <1>24, <4>1, <4>4 DEF OneChain, NoReset
    <3> QED
      BY Zenon, <1>t, <3>1, <3>3 DEF LinksHeld
  <2> QED
    BY Zenon, <2>1, <2>2, <2>3
<1>25. LinksHeld'
  BY Zenon, <1>20, <1>21, <1>22, <1>24 DEF LinksHeld
<1> QED
  BY Zenon, <1>7, <1>12, <1>13, <1>15, <1>16, <1>17, <1>25 DEF ChainInv

-----------------------------------------------------------------------------
(* The run that a workflow id stands for is open when one is. *)
LEMMA CurrentIfLive ==
  ASSUME ChainInv, Live
  PROVE  Current \in Runs /\ Open(Current)
<1>1. ChainTypeOK /\ Current # 0 /\ Open(Current)
  BY DEF ChainInv, Live
<1> QED
  BY Zenon, <1>1, CurrentIsRow

(* startWorkflowFull draws a run, for a client or for a parent. *)
LEMMA StartStep ==
  ASSUME ChainInv, NEW t \in Threads, NEW op \in {"start", "child"}, NEW q \in Requests \cup {"none"},
         q \in Requests => t = "client", NEW policy, startWorkflowFull(t, op, q, policy)
  PROVE  ChainInv'
<1>0. /\ IdleThread(t) /\ ~Known(q) /\ resolveWorkflowIdConflict(policy) /\ Draw(t, op, 0, q)
      /\ UNCHANGED <<now, logged, idem, purging, recorded, crashes, acked>>
  BY Zenon DEF startWorkflowFull
<1>1. ChainTypeOK
  BY DEF ChainInv
<1>2. Closing
  <2>1. CASE row' = row
    BY Zenon, <1>1, <2>1, ChainTypes DEF Closing
  <2>2. CASE Live /\ row' = [row EXCEPT ![Current] = ClosedRow(Current, "closed")]
    BY Zenon, <1>1, <2>2, CurrentIfLive, ClosesOne
  <2> QED
    BY Zenon, <1>0, <2>1, <2>2 DEF resolveWorkflowIdConflict
<1> QED
  BY Zenon, <1>0, <1>2, DrawStep

(* applyContinueAsNew closes the run and draws its successor. *)
LEMMA ContinueStep ==
  ASSUME ChainInv, NEW r \in Runs, applyContinueAsNew(r)
  PROVE  ChainInv'
<1>0. /\ IdleThread("server") /\ Open(r) /\ row' = [row EXCEPT ![r] = ClosedRow(r, "continued")]
      /\ Draw("server", "continue", r, "none")
      /\ UNCHANGED <<now, logged, idem, purging, recorded, crashes, acked>>
  BY DEF applyContinueAsNew
<1>1. Closing /\ row'[r].status = "continued" /\ Exists(r)
  BY Zenon, <1>0, ClosesOne DEF ChainInv, Open, Exists
<1>2. "server" \in Threads /\ "none" \notin Requests
  BY Zenon, ChainAssumption DEF Threads
<1> QED
  BY Zenon, <1>0, <1>1, <1>2, DrawStep

(* ResetWorkflow draws a run from an older one. *)
LEMMA ResetStep ==
  ASSUME ChainInv, NEW r \in Runs, ResetWorkflow(r)
  PROVE  ChainInv'
<1>0. /\ IdleThread("client") /\ Exists(r) /\ row' = row /\ Draw("client", "reset", r, "none")
      /\ UNCHANGED <<now, logged, idem, purging, recorded, crashes, acked>>
  BY Zenon DEF ResetWorkflow
<1>1. Closing
  BY Zenon, <1>0, ChainTypes DEF Closing, ChainInv
<1>2. "client" \in Threads /\ "none" \notin Requests
  BY Zenon, ChainAssumption DEF Threads
<1> QED
  BY Zenon, <1>0, <1>1, <1>2, DrawStep

(* The empty store. *)
LEMMA ChainBegins == ChainInit => ChainInv
<1> SUFFICES ASSUME ChainInit PROVE ChainInv
  BY Zenon
<1>1. NoRun \in RunRows /\ NoRun.status = "none"
  BY Zenon DEF NoRun, RunRows
<1> DEFINE unmade == [by |-> "", from |-> {}, req |-> "none"]
<1>2. unmade \in OriginType /\ unmade.by = "" /\ unmade.from = {}
  BY DEF OriginType
<1> HIDE DEF unmade
<1>3. /\ now = 0 /\ crashes = 0 /\ recorded = FALSE /\ logged = {} /\ acked = {}
      /\ row = [r \in Runs |-> NoRun] /\ idem = [q \in Requests |-> 0] /\ thread = [t \in Threads |-> Rest]
      /\ purging = [run |-> 0, left |-> <<>>] /\ origin = [r \in Runs |-> unmade]
  BY Zenon DEF ChainInit, unmade
<1>4. /\ row \in [Runs -> RunRows] /\ idem \in [Requests -> Runs \cup {0}] /\ thread \in [Threads -> JobType]
      /\ purging \in PurgeType /\ origin \in [Runs -> OriginType]
  BY Zenon, <1>1, <1>2, <1>3, RestFacts, ChainAssumption DEF PurgeType
<1>5. /\ \A r \in Runs : ~Exists(r) /\ ~Drawn(r) /\ origin[r].from = {}
      /\ \A q \in Requests : idem[q] = 0
      /\ \A t \in Threads : thread[t].pc = "idle" /\ thread[t].run = 0
      /\ purging.run = 0 /\ purging.left = <<>> /\ 0 \notin Runs
  BY Zenon, <1>1, <1>2, <1>3, RestFacts, ChainAssumption DEF Exists, Drawn
<1>6. ChainTypeOK
  <2>1. now \in Nat /\ crashes \in Nat /\ logged \in SUBSET Runs /\ acked \in SUBSET Runs
    BY <1>3
  <2>2. recorded \in BOOLEAN
    BY <1>3, Zenon
  <2> QED
    BY <1>4, <2>1, <2>2, ChainTypes, Zenon
<1>7. NoOrphans
  BY Zenon, <1>3, <1>5 DEF NoOrphans
<1>8. KeysHeld
  BY Zenon, <1>3, <1>5 DEF KeysHeld, Fresh, Held
<1>9. PurgeHeld
  BY Zenon, <1>5 DEF PurgeHeld
<1>10. LinksHeld
  BY Zenon, <1>5 DEF LinksHeld, WasContinued, Drawn
<1>11. \A t \in Threads : StartHeld(t) /\ RequestHeld(t)
  BY Zenon, <1>5 DEF StartHeld, RequestHeld
<1> QED
  BY Zenon, <1>6, <1>7, <1>8, <1>9, <1>10, <1>11 DEF ChainInv

(* The inductive invariant of Chain: every run under way has its own id, a key stands for
   the run of its request, and a chain has one end. *)
THEOREM ChainInvariant == ChainSpec => []ChainInv
<1>1. ChainInit => ChainInv
  BY ChainBegins
<1>2. ChainInv /\ [ChainNext]_chainVars => ChainInv'
  <2> SUFFICES ASSUME ChainInv, [ChainNext]_chainVars PROVE ChainInv'
    BY Zenon
  <2>0. "client" \in Threads /\ "server" \in Threads /\ "none" \notin Requests /\ recorded \in BOOLEAN
    BY Zenon, ChainAssumption, ChainTypes DEF Threads, ChainInv
  <2>1. ASSUME NEW r \in Runs, terminalTransition(r, "closed") PROVE ChainInv'
    BY Zenon, <2>1, ClosesOne, CloseStep DEF terminalTransition, ChainInv
  <2>2. ASSUME NEW q \in Requests \cup {"none"}, NEW p \in Policies, startWorkflowFull("client", "start", q, p)
        PROVE  ChainInv'
    BY Zenon, <2>0, <2>2, StartStep
  <2>3. ASSUME NEW q \in Requests, lookupIdempotency(q) \/ signalWithStartFull(q) PROVE ChainInv'
    BY Zenon, <2>0, <2>3, AckStep, StartStep DEF signalWithStartFull
  <2>4. ASSUME NEW r \in Runs, applyContinueAsNew(r) \/ ResetWorkflow(r) \/ purgeWorkflowRun(r) PROVE ChainInv'
    BY Zenon, <2>4, ContinueStep, ResetStep, PurgeBegins
  <2>5. CASE applyStartChild
    BY Zenon, <2>0, <2>5, StartStep DEF applyStartChild
  <2>6. CASE ChildFound
    BY Zenon, <2>6, QuietStep DEF ChildFound
  <2>7. ASSUME NEW t \in Threads, PutRow(t) \/ PutIdem(t) \/ PutEvents(t) \/ ResetCloses(t) PROVE ChainInv'
    BY Zenon, <2>7, PutRowStep, PutIdemStep, PutEventsStep, ResetClosesStep
  <2>8. CASE delAll
    BY Zenon, <2>8, PurgeDeletes
  <2>9. CASE Tick
    BY Zenon, <2>9, TickStep
  <2>10. CASE Crash
    BY <2>10, CrashStep
  <2>11. CASE UNCHANGED chainVars
    BY Zenon, <2>0, <2>11, QuietStep DEF chainVars
  <2> QED
    BY <2>1, <2>2, <2>3, <2>4, <2>5, <2>6, <2>7, <2>8, <2>9, <2>10, <2>11, Zenon DEF ChainNext
<1> QED
  BY <1>1, <1>2, PTL DEF ChainSpec

(* No history and no request key is left without its row, whatever crashes or is purged
   (startWorkflowFull puts the row first, purgeWorkflowRun deletes it last). *)
THEOREM NothingOrphaned == ChainSpec => []NoOrphans
<1>1. ChainInv => NoOrphans
  BY Zenon DEF ChainInv
<1> QED
  BY <1>1, ChainInvariant, PTL

(* A request id stands for one run that is there (startWorkflowFull, idem keys). *)
THEOREM RequestStartsOnce == ChainSpec => []RequestOnce
<1>1. ChainInv => RequestOnce
  BY Zenon DEF ChainInv, KeysHeld, RequestOnce
<1> QED
  BY <1>1, ChainInvariant, PTL

(* A poll on a continued workflow is answered by the last run of its chain, once that run
   is closed (applyContinueAsNew, the poll's walk over the runs). *)
THEOREM ChainIsResolved == ChainSpec => []ChainResolves
<1>1. ChainInv => ChainResolves
  <2> SUFFICES ASSUME ChainInv, OneChain, NEW t \in Runs, Drawn(t), ~WasContinued(t),
                      Poll(0).is = "answer" \/ row[t].status = "closed"
               PROVE  Poll(0) = [is |-> "answer", run |-> t]
    BY Zenon DEF ChainResolves, Drawn
  <2>0. ChainTypeOK /\ LinksHeld /\ NoReset /\ 0 \notin Runs /\ \A r \in Runs : row[r] \in RunRows
    BY Zenon, RunFacts DEF ChainInv, OneChain, NoReset
  <2>1. ASSUME NEW r \in Runs, Drawn(r), r # t PROVE row[r].status \in {"continued", "none"}
    <3>1. r \in origin[t].from \/ t \in origin[r].from
      BY Zenon, <2>0, <2>1 DEF LinksHeld
    <3>2. t \notin origin[r].from
      BY Zenon, <2>0 DEF LinksHeld, NoReset, WasContinued
    <3>3. WasContinued(r)
      BY Zenon, <2>0, <3>1, <3>2 DEF LinksHeld, NoReset, WasContinued
    <3> QED
      BY Zenon, <2>0, <3>3 DEF LinksHeld
  <2>2. \A r \in Runs : row[r].status \in {"running", "closed"} => r = t
    BY Zenon, <2>1, RunFacts DEF Exists
  <2>3. CASE row[t].status = "closed"
    <3>1. Exists(t)
      BY Zenon, <2>3 DEF Exists
    <3>2. Current \in Runs /\ Exists(Current) /\ ~moreCurrentRun(t, Current)
      BY Zenon, <2>0, <3>1, CurrentIsRow
    <3>3. Current = t
      <4>1. ASSUME Current # t PROVE FALSE
        <5>1. row[Current].status = "continued"
          BY Zenon, <2>1, <3>2, <4>1, RunFacts DEF Exists
        <5> QED
          BY <2>3, <3>2, <5>1 DEF moreCurrentRun, isTerminalRow
      <4> QED
        BY Zenon, <4>1
    <3> QED
      BY Zenon, <2>0, <2>3, <3>1, <3>3 DEF Poll
  <2>4. CASE Poll(0).is = "answer"
    <3>1. Current # 0 /\ Current \in Runs /\ Exists(Current)
      BY Zenon, <2>0, <2>4, CurrentIsRow DEF Poll
    <3>2. row[Current].status \in {"running", "closed", "continued"}
      BY Zenon, <2>0, <3>1 DEF Exists, RunRows
    <3>3. row[Current].status = "closed"
      BY Zenon, <2>4, <3>1, <3>2 DEF Poll
    <3> QED
      BY Zenon, <2>2, <2>3, <3>1, <3>3
  <2> QED
    BY <2>3, <2>4
<1> QED
  BY <1>1, ChainInvariant, PTL

-----------------------------------------------------------------------------
(* The sweeper and the row of a schedule. *)
-----------------------------------------------------------------------------

(* The next multiple of a period after an instant is after it. *)
LEMMA NextMultiple ==
  ASSUME NEW a \in Nat, NEW k \in Nat \ {0}
  PROVE  (a \div k + 1) * k \in Nat /\ (a \div k + 1) * k > a
<1>1. a \div k \in Nat
  OBVIOUS
<1>2. (a \div k + 1) * k > a
  OBVIOUS
<1>3. \A m, n \in Nat : m * n \in Nat
  OBVIOUS
<1> QED
  BY <1>1, <1>2, <1>3

(* nextScheduleFire finds a fire strictly after its anchor, or none. *)
LEMMA FireAfter ==
  ASSUME NEW sp \in AllSpecs, NEW a \in Nat, nextScheduleFire(sp, a) # -1
  PROVE  nextScheduleFire(sp, a) \in Nat /\ nextScheduleFire(sp, a) > a
<1> DEFINE valid == {en \in sp : en.every > 0}
<1> DEFINE fires == {FireOf(en, a) : en \in valid}
<1>1. ASSUME NEW en \in valid PROVE FireOf(en, a) \in Nat /\ FireOf(en, a) > a
  <2>1. en.every \in Nat \ {0}
    <3>1. sp \in Specs
      BY Zenon DEF AllSpecs
    <3> QED
      BY <3>1, SchedulesAssumption
  <2>2. (a \div en.every + 1) * en.every \in Nat /\ (a \div en.every + 1) * en.every > a
    BY Zenon, <2>1, NextMultiple
  <2> QED
    BY <2>1, <2>2 DEF FireOf
<1>2. valid # {} /\ nextScheduleFire(sp, a) = Min(fires)
  BY Zenon DEF nextScheduleFire
<1>3. fires \in SUBSET Nat /\ fires # {} /\ \A n \in fires : n > a
  BY Zenon, <1>1, <1>2
<1> HIDE DEF fires
<1>4. \E x \in fires : \A y \in fires : x <= y
  BY Zenon, <1>3, Smallest
<1>5. Min(fires) \in fires
  BY <1>4, Zenon DEF Min
<1> QED
  BY Zenon, <1>2, <1>3, <1>5

(* What nextScheduleFire and NextShown return is a time or -1. *)
LEMMA FireTypes ==
  ASSUME NEW sp \in AllSpecs, NEW a \in Nat, NEW s \in ScheduleRows
  PROVE  nextScheduleFire(sp, a) \in Int /\ NextShown(s, a) \in Int
<1>1. \A q \in AllSpecs : nextScheduleFire(q, a) \in Int
  <2> SUFFICES ASSUME NEW q \in AllSpecs PROVE nextScheduleFire(q, a) \in Int
    OBVIOUS
  <2>1. CASE nextScheduleFire(q, a) = -1
    BY <2>1
  <2>2. CASE nextScheduleFire(q, a) # -1
    BY <2>2, FireAfter
  <2> QED
    BY Zenon, <2>1, <2>2
<1>2. s.spec \in AllSpecs /\ s.next \in Int
  BY DEF ScheduleRows
<1> QED
  BY Zenon, <1>1, <1>2 DEF NextShown

(* The rows the calls and the sweep put. *)
LEMMA RowsPut ==
  ASSUME NEW s \in ScheduleRows, NEW a \in Nat, NEW sp \in AllSpecs, NEW b \in BOOLEAN, NEW n \in Int
  PROVE  /\ [s EXCEPT !.anchor = a] \in ScheduleRows /\ [s EXCEPT !.anchor = a].anchor = a
         /\ [s EXCEPT !.paused = b] \in ScheduleRows
         /\ [s EXCEPT !.count = @ + 1] \in ScheduleRows
         /\ [s EXCEPT !.next = n] \in ScheduleRows
         /\ [s EXCEPT !.spec = sp, !.paused = b] \in ScheduleRows
         /\ [s EXCEPT !.count = @ + 1, !.anchor = a, !.next = n] \in ScheduleRows
         /\ [s EXCEPT !.count = @ + 1, !.anchor = a, !.next = n].anchor = a
<1>1. s.count + 1 \in Nat /\ a \in Nat \cup {-1}
  BY DEF ScheduleRows
<1>2. [s EXCEPT !.anchor = a] \in ScheduleRows /\ [s EXCEPT !.anchor = a].anchor = a
  BY <1>1 DEF ScheduleRows
<1>3. [s EXCEPT !.paused = b] \in ScheduleRows
  BY DEF ScheduleRows
<1>4. [s EXCEPT !.count = @ + 1] \in ScheduleRows
  BY <1>1 DEF ScheduleRows
<1>5. [s EXCEPT !.next = n] \in ScheduleRows
  BY DEF ScheduleRows
<1>6. [s EXCEPT !.spec = sp, !.paused = b] \in ScheduleRows
  BY Zenon DEF ScheduleRows
<1>7. /\ [s EXCEPT !.count = @ + 1, !.anchor = a, !.next = n] \in ScheduleRows
      /\ [s EXCEPT !.count = @ + 1, !.anchor = a, !.next = n].anchor = a
  BY Zenon, <1>1 DEF ScheduleRows
<1> QED
  BY Zenon, <1>2, <1>3, <1>4, <1>5, <1>6, <1>7

(* Arguments of a call that takes none. *)
LEMMA AnyArgs == 0 \in Nat /\ {} \in AllSpecs /\ TRUE \in BOOLEAN /\ 0 \in Int
BY DEF AllSpecs

(* A row put by an API call, and what is left alone: the row is new and its anchor is
   the clock, or it is gone. *)
LEMMA CallPuts ==
  ASSUME SchedulesTypeOK,
         \/ \E sp \in Specs : CreateSchedule(sp)
         \/ DeleteSchedule \/ PauseSchedule \/ UpdateSchedule \/ TriggerSchedule
  PROVE  /\ sched' \in ScheduleRows /\ (IsThere(sched') => sched'.anchor = clock)
         /\ UNCHANGED <<clock, sweep, fired, undone>>
<1>t. clock \in Nat /\ sched \in ScheduleRows /\ call.copy \in ScheduleRows /\ call.arg \in AllSpecs
  BY DEF SchedulesTypeOK
<1>u. UNCHANGED <<clock, sweep, fired, undone>>
  BY Zenon DEF CreateSchedule, DeleteSchedule, PauseSchedule, UpdateSchedule, TriggerSchedule, Replies
<1>1. ASSUME NEW sp \in Specs, CreateSchedule(sp) PROVE sched' \in ScheduleRows /\ sched'.anchor = clock
  <2>1. sp \in AllSpecs
    BY Zenon DEF AllSpecs
  <2>2. nextScheduleFire(sp, clock) \in Int
    BY Zenon, <1>t, <2>1, FireTypes
  <2> QED
    BY Zenon, <1>t, <1>1, <2>1, <2>2 DEF CreateSchedule, ScheduleRows
<1>2. CASE DeleteSchedule
  BY SMTT(30), <1>u, <1>2 DEF DeleteSchedule, NoSchedule, IsThere, ScheduleRows, AllSpecs
<1>3. ASSUME NEW s \in ScheduleRows, Replies(s) PROVE sched' \in ScheduleRows /\ sched'.anchor = clock
  <2>1. sched' = [s EXCEPT !.anchor = clock]
    BY <1>3 DEF Replies
  <2> QED
    BY Zenon, <1>t, <2>1, RowsPut, AnyArgs
<1>4. CASE PauseSchedule
  <2>1. (call.op = "pause") \in BOOLEAN
    OBVIOUS
  <2>2. [call.copy EXCEPT !.paused = (call.op = "pause")] \in ScheduleRows
    BY Zenon, <1>t, <2>1, RowsPut, AnyArgs
  <2> QED
    BY <1>u, <1>3, <1>4, <2>2, Zenon DEF PauseSchedule
<1>5. CASE UpdateSchedule
  <2>1. PICK paused \in BOOLEAN :
          LET s == [call.copy EXCEPT !.spec = call.arg, !.paused = paused]
          IN Replies([s EXCEPT !.next = NextShown(s, clock)])
    BY Zenon, <1>5 DEF UpdateSchedule
  <2> DEFINE s == [call.copy EXCEPT !.spec = call.arg, !.paused = paused]
  <2>2. s \in ScheduleRows
    BY Zenon, <1>t, RowsPut, AnyArgs
  <2>3. NextShown(s, clock) \in Int
    BY Zenon, <1>t, <2>2, FireTypes
  <2>4. [s EXCEPT !.next = NextShown(s, clock)] \in ScheduleRows
    <3> HIDE DEF s
    <3> QED
      BY Zenon, <2>2, <2>3, RowsPut, AnyArgs
  <2>5. Replies([s EXCEPT !.next = NextShown(s, clock)])
    BY <2>1
  <2> QED
    BY <1>u, <1>3, <2>4, <2>5, Zenon
<1>6. CASE TriggerSchedule
  <2>1. [call.copy EXCEPT !.count = @ + 1] \in ScheduleRows
    BY Zenon, <1>t, RowsPut, AnyArgs
  <2> QED
    BY <1>u, <1>3, <1>6, <2>1, Zenon DEF TriggerSchedule
<1> QED
  BY Zenon, <1>u, <1>1, <1>2, <1>4, <1>5, <1>6

-----------------------------------------------------------------------------
(* Each step keeps the types. *)
LEMMA SchedulesTypes ==
  ASSUME SchedulesInv, SchedulesNext
  PROVE  SchedulesTypeOK'
<1> DEFINE Ops == {"none", "pause", "resume", "update", "trigger", "record"}
<1> DEFINE Sweeps == [pc : {"idle", "fire", "put"}, at : Nat, copy : ScheduleRows, tick : Nat]
<1> DEFINE Edits == [op : Ops, arg : AllSpecs, copy : ScheduleRows]
<1>t. SchedulesTypeOK
  BY ZenonT(30) DEF SchedulesInv
<1>n. NoSchedule \in ScheduleRows /\ NoSweep \in Sweeps /\ NoCall \in Edits
  BY DEF NoSchedule, NoSweep, NoCall, ScheduleRows, AllSpecs
<1>f. ASSUME NEW b \in BOOLEAN, reportFire(b) PROVE fails' \in Nat /\ faults' \in Nat
  BY <1>f, <1>t DEF reportFire, SchedulesTypeOK
<1>1. CASE SchedTick
  BY <1>1, <1>t DEF SchedTick, SchedulesTypeOK
<1>2. CASE Collect
  <2> DEFINE tick == nextScheduleFire(sched.spec, sched.anchor)
  <2>1. sched.spec \in AllSpecs /\ sched.anchor \in Nat
    BY <1>2, <1>t DEF Collect, IsThere, SchedulesTypeOK, ScheduleRows
  <2>2. tick \in Nat
    BY Zenon, <1>2, <2>1, FireAfter DEF Collect
  <2>3. sweep' = [pc |-> "fire", at |-> clock, copy |-> sched, tick |-> tick]
    BY Zenon, <1>2 DEF Collect
  <2> HIDE DEF tick
  <2>4. sweep' \in Sweeps
    BY Zenon, <1>t, <2>2, <2>3 DEF SchedulesTypeOK
  <2> QED
    BY Zenon, <1>2, <1>t, <2>4 DEF Collect, SchedulesTypeOK
<1>3. CASE FireFails
  BY Zenon, <1>3, <1>t, <1>n, <1>f DEF FireFails, SchedulesTypeOK
<1>4. CASE PutBack
  <2>1. sweep.copy \in ScheduleRows /\ sweep.at \in Nat
    BY Zenon, <1>t DEF SchedulesTypeOK
  <2>2. NextShown(sweep.copy, sweep.at) \in Int
    BY Zenon, <2>1, FireTypes, AnyArgs
  <2>3. sched' \in ScheduleRows
    BY Zenon, <1>4, <2>1, <2>2, RowsPut, AnyArgs DEF PutBack, ReAnchored
  <2> QED
    BY Zenon, <1>4, <1>t, <1>n, <2>3 DEF PutBack, SchedulesTypeOK
<1>5. ASSUME NEW b \in BOOLEAN, Fire(b) PROVE SchedulesTypeOK'
  <2>1. sweep' \in Sweeps /\ sweep.tick \in Nat
    BY Zenon, <1>5, <1>t DEF Fire, SchedulesTypeOK
  <2>2. fired' \in Seq(Nat)
    BY <1>5, <1>t, <2>1 DEF Fire, SchedulesTypeOK
  <2>3. fails' \in Nat /\ faults' \in Nat
    BY Zenon, <1>5, <1>f DEF Fire
  <2> QED
    BY Zenon, <1>5, <1>t, <2>1, <2>2, <2>3 DEF Fire, SchedulesTypeOK
<1>6. ASSUME NEW b \in BOOLEAN, SweepCut(b) PROVE SchedulesTypeOK'
  <2>1. undone' \in SUBSET Nat
    BY Zenon, <1>6, <1>t DEF SweepCut, SchedulesTypeOK
  <2>2. fails' \in Nat /\ faults' \in Nat /\ call' \in Edits
    BY <1>6, <1>t, <1>n DEF SweepCut, SchedulesTypeOK
  <2> QED
    BY Zenon, <1>6, <1>t, <1>n, <2>1, <2>2 DEF SweepCut, SchedulesTypeOK
<1>7. CASE \/ \E sp \in Specs : CreateSchedule(sp)
           \/ DeleteSchedule \/ PauseSchedule \/ UpdateSchedule \/ TriggerSchedule
  <2>1. sched' \in ScheduleRows /\ UNCHANGED <<clock, sweep, fired, undone>>
    BY <1>7, <1>t, CallPuts, Zenon
  <2>2. fails' \in {fails, 0} /\ calls' \in {calls, calls + 1} /\ faults' = faults /\ sctrig' = sctrig
    BY Zenon, <1>7 DEF CreateSchedule, DeleteSchedule, PauseSchedule, UpdateSchedule, TriggerSchedule, Replies
  <2>3. call' \in Edits
    BY Zenon, <1>7, <1>t, <1>n DEF CreateSchedule, DeleteSchedule, PauseSchedule, UpdateSchedule, TriggerSchedule,
         Replies, SchedulesTypeOK
  <2> QED
    BY <1>t, <2>1, <2>2, <2>3 DEF SchedulesTypeOK
<1>8. ASSUME NEW op \in {"pause", "resume", "trigger", "update"}, NEW arg \in AllSpecs, DescribeSchedule(op, arg)
      PROVE  SchedulesTypeOK'
  BY <1>8, <1>t DEF DescribeSchedule, SchedulesTypeOK
<1>9. CASE TriggerRecorded
  BY Zenon, <1>9, <1>t, <1>n DEF TriggerRecorded, SchedulesTypeOK
<1>10. Specs \subseteq AllSpecs /\ {} \in AllSpecs
  BY DEF AllSpecs
<1> QED
  BY Zenon, <1>1, <1>2, <1>3, <1>4, <1>5, <1>6, <1>7, <1>8, <1>9, <1>10 DEF SchedulesNext

(* A row put by a call, anchored at the clock, is after everything fired. *)
LEMMA CallsKeepTicks ==
  ASSUME SchedulesInv, UNCHANGED <<clock, sweep, fired, undone>>,
         IsThere(sched') => sched'.anchor = clock
  PROVE  SweepHeld' /\ AnchorHeld' /\ TickOnce'
<1>t. clock \in Nat /\ fired \in Seq(Nat) /\ sweep.tick \in Nat /\ sweep.at \in Nat
  BY DEF SchedulesInv, SchedulesTypeOK
<1>1. TickOnce'
  BY Zenon DEF SchedulesInv, TickOnce
<1>2. \A i \in 1..Len(fired) : fired[i] \in Nat /\ fired[i] <= clock
  BY <1>t DEF SchedulesInv, SweepHeld
<1>3. AnchorHeld'
  BY <1>t, <1>2 DEF AnchorHeld, IsThere
<1>4. sweep.pc = "fire" => sweep.tick <= clock
  BY <1>t DEF SchedulesInv, SweepHeld
<1>5. SweepHeld'
  BY <1>t, <1>4 DEF SchedulesInv, SweepHeld, IsThere
<1> QED
  BY Zenon, <1>1, <1>3, <1>5

(* Each step keeps the sweep's, the row's and the fired ticks' order. *)
LEMMA SchedulesSteps ==
  ASSUME SchedulesInv, SchedulesNext
  PROVE  SweepHeld' /\ AnchorHeld' /\ TickOnce'
<1>t. SchedulesTypeOK /\ SweepHeld /\ AnchorHeld /\ TickOnce
  BY Zenon DEF SchedulesInv
<1>r. /\ clock \in Nat /\ fired \in Seq(Nat) /\ sweep.tick \in Nat /\ sweep.at \in Nat
      /\ sched.anchor \in Nat \cup {-1} /\ sched.spec \in AllSpecs
      /\ \A i \in 1..Len(fired) : fired[i] \in Nat
  <2>1. /\ clock \in Nat /\ fired \in Seq(Nat) /\ sweep.tick \in Nat /\ sweep.at \in Nat
        /\ sched.anchor \in Nat \cup {-1} /\ sched.spec \in AllSpecs
    BY Zenon, <1>t DEF SchedulesTypeOK, ScheduleRows
  <2>2. \A i \in 1..Len(fired) : fired[i] \in Nat
    BY <2>1
  <2> QED
    BY Zenon, <2>1, <2>2
<1>1. CASE SchedTick
  <2>1. clock' = clock + 1 /\ UNCHANGED <<sched, sweep, fired, undone>>
    BY Zenon, <1>1 DEF SchedTick
  <2>2. /\ \A i \in 1..Len(fired) : fired[i] <= clock => fired[i] <= clock'
        /\ sweep.at <= clock => sweep.at <= clock'
    <3>1. \A x, y \in Nat : x <= y => x <= y + 1
      OBVIOUS
    <3> QED
      BY Zenon, <1>r, <2>1, <3>1
  <2> QED
    BY Zenon, <1>t, <2>1, <2>2 DEF SweepHeld, AnchorHeld, TickOnce, IsThere
<1>2. CASE Collect
  <2> DEFINE tick == nextScheduleFire(sched.spec, sched.anchor)
  <2>1. sched.anchor \in Nat /\ IsThere(sched)
    BY <1>2, <1>r DEF Collect, IsThere
  <2>2. tick \in Nat /\ tick > sched.anchor /\ tick <= clock
    BY Zenon, <1>2, <1>r, <2>1, FireAfter DEF Collect
  <2>3. sweep.pc = "idle" /\ sweep' = [pc |-> "fire", at |-> clock, copy |-> sched, tick |-> tick]
    BY Zenon, <1>2 DEF Collect
  <2>4. UNCHANGED <<clock, sched, fired, undone>>
    BY Zenon, <1>2 DEF Collect
  <2>5. \A i \in 1..Len(fired) : tick <= fired[i] => tick \in undone
    <3>1. \A x, y, z \in Nat : y > x /\ y <= z => z > x
      OBVIOUS
    <3>2. \A i \in 1..Len(fired) : tick <= fired[i] => fired[i] > sched.anchor
      BY Zenon, <1>r, <2>1, <2>2, <3>1
    <3> QED
      BY Zenon, <1>t, <2>1, <2>3, <3>2 DEF AnchorHeld
  <2> HIDE DEF tick
  <2>6. sweep'.pc = "fire" /\ sweep'.at = clock /\ sweep'.tick = tick
    BY Zenon, <2>3
  <2>7. SweepHeld'
    BY <1>t, <1>r, <2>2, <2>4, <2>5, <2>6 DEF SweepHeld, tick
  <2>8. AnchorHeld'
    BY Zenon, <1>t, <2>3, <2>4, <2>6 DEF AnchorHeld
  <2> QED
    BY <1>t, <2>4, <2>7, <2>8 DEF TickOnce
<1>3. CASE FireFails
  BY Zenon, <1>3, <1>t DEF FireFails, NoSweep, SweepHeld, AnchorHeld, TickOnce, IsThere
<1>4. CASE PutBack
  <2>1. sched'.anchor = sweep.at
    BY Zenon, <1>4, <1>t DEF PutBack, ReAnchored, SchedulesTypeOK, ScheduleRows
  <2>2. \A i \in 1..Len(fired) : fired[i] <= sweep.at
    BY Zenon, <1>4, <1>t DEF PutBack, SweepHeld
  <2>3. sweep'.pc = "idle" /\ UNCHANGED <<clock, fired, undone>>
    BY Zenon, <1>4 DEF PutBack, NoSweep
  <2>4. AnchorHeld'
    BY <1>r, <2>1, <2>2, <2>3 DEF AnchorHeld
  <2>5. SweepHeld'
    BY Zenon, <1>t, <2>3 DEF SweepHeld
  <2> QED
    BY Zenon, <1>t, <2>3, <2>4, <2>5 DEF TickOnce
<1>5. ASSUME NEW b \in BOOLEAN, Fire(b) PROVE SweepHeld' /\ AnchorHeld' /\ TickOnce'
  <2>1. /\ sweep.pc = "fire" /\ sweep'.pc = "put" /\ sweep'.tick = sweep.tick /\ sweep'.at = sweep.at
        /\ fired' = Append(fired, sweep.tick) /\ UNCHANGED <<clock, sched, undone>>
    BY Zenon, <1>5, <1>t DEF Fire, SchedulesTypeOK
  <2>2. /\ Len(fired') = Len(fired) + 1 /\ fired'[Len(fired) + 1] = sweep.tick
        /\ \A i \in 1..Len(fired) : fired'[i] = fired[i]
        /\ Len(fired) \in Nat
    BY <1>r, <2>1
  <2>3. \A i \in 1..Len(fired') : i \in 1..Len(fired) \/ i = Len(fired) + 1
    BY <2>2
  <2>4. /\ sweep.tick <= sweep.at /\ sweep.at <= clock /\ \A i \in 1..Len(fired) : fired[i] <= sweep.at
        /\ \A i \in 1..Len(fired) : sweep.tick <= fired[i] => sweep.tick \in undone
        /\ IsThere(sched) /\ sched.anchor < sweep.tick
             => nextScheduleFire(sched.spec, sched.anchor) = sweep.tick
    BY Zenon, <1>t, <2>1 DEF SweepHeld
  <2>5. \A i \in 1..Len(fired') : fired'[i] <= sweep.at /\ fired'[i] \in Nat
    BY Zenon, <1>r, <2>2, <2>3, <2>4
  <2>6. SweepHeld'
    <3>1. \A i \in 1..Len(fired') : fired'[i] <= clock
      BY <1>r, <2>4, <2>5
    <3>2. sweep'.pc # "fire"
      BY Zenon, <2>1
    <3> QED
      BY Zenon, <2>1, <2>4, <2>5, <3>1, <3>2 DEF SweepHeld
  <2>7. AnchorHeld'
    <3> SUFFICES ASSUME IsThere(sched), NEW i \in 1..Len(fired'), fired'[i] > sched.anchor
                 PROVE  /\ nextScheduleFire(sched.spec, sched.anchor) = fired'[i]
                        /\ fired'[i] \in undone \/ fired'[i] = sweep.tick
      BY Zenon, <2>1 DEF AnchorHeld
    <3>1. CASE i = Len(fired) + 1
      BY Zenon, <1>r, <2>2, <2>4, <3>1
    <3>2. CASE i \in 1..Len(fired)
      BY Zenon, <1>t, <2>1, <2>2, <3>2 DEF AnchorHeld
    <3> QED
      BY <2>3, <3>1, <3>2
  <2>8. TickOnce'
    <3> SUFFICES ASSUME NEW i \in 1..Len(fired'), NEW j \in 1..Len(fired'), i < j, fired'[j] <= fired'[i]
                 PROVE  fired'[j] \in undone
      BY Zenon, <2>1 DEF TickOnce
    <3>1. i \in 1..Len(fired)
      BY <2>2
    <3>2. CASE j = Len(fired) + 1
      BY Zenon, <2>2, <2>4, <3>1, <3>2
    <3>3. CASE j \in 1..Len(fired)
      BY Zenon, <1>t, <2>2, <3>1, <3>3 DEF TickOnce
    <3> QED
      BY Zenon, <2>3, <3>2, <3>3
  <2> QED
    BY <2>6, <2>7, <2>8
<1>6. ASSUME NEW b \in BOOLEAN, SweepCut(b) PROVE SweepHeld' /\ AnchorHeld' /\ TickOnce'
  <2>1. /\ sweep'.pc = "idle" /\ UNCHANGED <<clock, sched, fired>>
        /\ undone \subseteq undone' /\ (sweep.pc = "put" => sweep.tick \in undone')
    BY Zenon, <1>6 DEF SweepCut, NoSweep
  <2>2. TickOnce'
    BY Zenon, <1>t, <2>1 DEF TickOnce
  <2>3. SweepHeld'
    BY Zenon, <1>t, <2>1 DEF SweepHeld
  <2>4. AnchorHeld'
    BY Zenon, <1>t, <2>1 DEF AnchorHeld
  <2> QED
    BY Zenon, <2>2, <2>3, <2>4
<1>7. CASE \/ \E sp \in Specs : CreateSchedule(sp)
           \/ DeleteSchedule \/ PauseSchedule \/ UpdateSchedule \/ TriggerSchedule
  <2>1. (IsThere(sched') => sched'.anchor = clock) /\ UNCHANGED <<clock, sweep, fired, undone>>
    BY <1>7, <1>t, CallPuts, Zenon
  <2> QED
    BY Zenon, <2>1, CallsKeepTicks
<1>8. ASSUME NEW op, NEW arg, DescribeSchedule(op, arg)
      PROVE  SweepHeld' /\ AnchorHeld' /\ TickOnce'
  BY Zenon, <1>8, <1>t DEF DescribeSchedule, SweepHeld, AnchorHeld, TickOnce, IsThere
<1>9. CASE TriggerRecorded
  BY Zenon, <1>9, <1>t DEF TriggerRecorded, SweepHeld, AnchorHeld, TickOnce, IsThere
<1> QED
  BY Zenon, <1>1, <1>2, <1>3, <1>4, <1>5, <1>6, <1>7, <1>8, <1>9 DEF SchedulesNext

(* The inductive invariant of the sweeper and the schedule's row. *)
THEOREM SchedulesInvariant == SchedulesSpec => []SchedulesInv
<1>1. SchedulesInit => SchedulesInv
  <2> SUFFICES ASSUME SchedulesInit PROVE SchedulesInv
    OBVIOUS
  <2>1. SchedulesTypeOK
    <3>1. NoSchedule \in ScheduleRows
      BY DEF NoSchedule, ScheduleRows, AllSpecs
    <3>2. {} \in AllSpecs /\ <<>> \in Seq(Nat)
      BY DEF AllSpecs
    <3> QED
      BY ZenonT(30), <3>1, <3>2 DEF SchedulesInit, SchedulesTypeOK, NoSweep, NoCall
  <2>2. SweepHeld /\ AnchorHeld /\ TickOnce
    BY DEF SchedulesInit, SweepHeld, AnchorHeld, TickOnce, NoSweep
  <2> QED
    BY Zenon, <2>1, <2>2 DEF SchedulesInv
<1>2. SchedulesInv /\ [SchedulesNext]_schedVars => SchedulesInv'
  <2> SUFFICES ASSUME SchedulesInv, [SchedulesNext]_schedVars PROVE SchedulesInv'
    OBVIOUS
  <2>1. CASE SchedulesNext
    BY Zenon, <2>1, SchedulesTypes, SchedulesSteps DEF SchedulesInv
  <2>2. CASE UNCHANGED schedVars
    BY Zenon, <2>2 DEF schedVars, SchedulesInv, SchedulesTypeOK, SweepHeld, AnchorHeld, TickOnce, IsThere
  <2> QED
    BY Zenon, <2>1, <2>2
<1> QED
  BY <1>1, <1>2, PTL DEF SchedulesSpec

(* The sweeper starts a tick of a schedule once, and ticks in order. *)
THEOREM TicksOnce == SchedulesSpec => []TickOnce
BY SchedulesInvariant, PTL DEF SchedulesInv
=============================================================================
