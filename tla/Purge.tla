------------------------------- MODULE Purge -------------------------------
(***************************************************************************)
(* The retention purge's walk over a namespace's run rows (pkg/tasks:      *)
(* retention, durable; store/shard_db): workflow runs, then standalone     *)
(* activities, at most Limit rows a pass, from a cursor kept in the store. *)
(*                                                                         *)
(* A row's key is its prefix, 1 for wf/ and 2 for act/, and its place in   *)
(* the order of keys.  A row is kept (its run is open, or closed too       *)
(* recently) until it expires.  Chain has the deletes of a workflow run one*)
(* by one; here it goes in one step and an activity run in two.  A store   *)
(* call may fail, and a crash ends a pass between two of them.             *)
(***************************************************************************)
EXTENDS Integers, FiniteSets

CONSTANTS
  Places,       \* the places of the keys under a prefix
  Limit,        \* purgeBatch: how many rows a pass reads
  MaxCuts       \* bound on store failures and crashes

ASSUME PurgeAssumption ==
  /\ Places \subseteq Nat \ {0} /\ IsFiniteSet(Places)
  /\ Limit \in Nat \ {0} /\ MaxCuts \in Nat

VARIABLES
  rows,         \* the state of each row: "none", "kept", "expired"
  ahist,        \* activity runs that have a history
  cursor,       \* purge/<ns>: prefix and place of the last row read; place 0 is ""
  pass,         \* the pass in progress
  target,       \* history: rows that were expired when the walk began
  passedOver,   \* history: rows of which this walk met an error
  cuts          \* failures and crashes so far

purgeVars == <<rows, ahist, cursor, pass, target, passedOver, cuts>>

Prefixes == 1..2     \* runPrefixes
RowKeys == Prefixes \X Places
WalkStart == <<1, 0>>   \* the cursor "": a walk starts

(* pass: pc is the step that is next, at the last row read, left what may still be
   read, due the rows that are past the cutoff, todo those of the page to purge. *)
NoPass == [pc |-> "rest", at |-> WalkStart, left |-> 0, due |-> {}, todo |-> {}, walked |-> FALSE]

PurgeInit ==
  /\ rows \in [RowKeys -> {"none", "kept", "expired"}]
  /\ ahist = {k \in RowKeys : k[1] = 2 /\ rows[k] # "none"}
  /\ cursor = WalkStart /\ pass = NoPass /\ target = {} /\ passedOver = {} /\ cuts = 0

-----------------------------------------------------------------------------
(* The engine: a run starts anywhere in the order, and expires in time. *)
RunStarts(k) ==
  /\ rows[k] = "none" /\ k \notin target     \* a run id is drawn once
  /\ rows' = [rows EXCEPT ![k] = "kept"]
  /\ ahist' = IF k[1] = 2 THEN ahist \cup {k} ELSE ahist
  /\ UNCHANGED <<cursor, pass, target, passedOver, cuts>>

RunExpires(k) ==
  /\ rows[k] = "kept"
  /\ rows' = [rows EXCEPT ![k] = "expired"]
  /\ UNCHANGED <<ahist, cursor, pass, target, passedOver, cuts>>

-----------------------------------------------------------------------------
(* purgeOnce: a pass begins at the cursor, with its cutoff. *)
DueNow == {k \in RowKeys : rows[k] = "expired"}

purgeOnce ==
  /\ pass.pc = "rest"
  /\ pass' = [NoPass EXCEPT !.pc = "page", !.at = cursor, !.left = Limit, !.due = DueNow]
  /\ target' = IF cursor = WalkStart THEN DueNow ELSE target
  /\ passedOver' = IF cursor = WalkStart THEN {} ELSE passedOver
  /\ UNCHANGED <<rows, ahist, cursor, cuts>>

(* Scan: the first `limit` rows of a prefix after a place, in the order of keys. *)
RowsAfter(at) == {k \in RowKeys : k[1] = at[1] /\ k[2] > at[2] /\ rows[k] # "none"}

IsScan(read, at, limit) ==
  /\ \A k \in read, o \in RowsAfter(at) : o[2] < k[2] => o \in read
  /\ \/ Cardinality(read) = limit
     \/ Cardinality(read) < limit /\ read = RowsAfter(at)

(* page: the rows, and the last of their keys. *)
IsLast(last, read, at) ==
  IF read = {} THEN last = at ELSE last \in read /\ \A k \in read : k[2] <= last[2]

page ==
  /\ pass.pc = "page"
  /\ \E read \in SUBSET RowsAfter(pass.at), last \in RowKeys \cup {pass.at} :
       /\ IsScan(read, pass.at, pass.left) /\ IsLast(last, read, pass.at)
       /\ pass' = [pass EXCEPT !.pc = "purge", !.todo = read \cap pass.due,
                     !.at = last, !.left = @ - Cardinality(read)]
  /\ UNCHANGED <<rows, ahist, cursor, target, passedOver, cuts>>

(* purgeWorkflowRun, purgeActivityRun, on the rows of the page in their order. *)
IsNextDue(k) == pass.pc = "purge" /\ k \in pass.todo /\ \A o \in pass.todo : k[2] <= o[2]

purgeWorkflow(k) ==
  /\ IsNextDue(k) /\ k[1] = 1
  /\ rows' = [rows EXCEPT ![k] = "none"]
  /\ pass' = [pass EXCEPT !.todo = @ \ {k}]
  /\ UNCHANGED <<ahist, cursor, target, passedOver, cuts>>

purgeActivityRun(k) ==
  /\ IsNextDue(k) /\ k[1] = 2
  /\ ahist' = ahist \ {k}
  /\ \/ k \in ahist /\ UNCHANGED <<rows, pass>>
     \/ /\ k \notin ahist
        /\ rows' = [rows EXCEPT ![k] = "none"]
        /\ pass' = [pass EXCEPT !.todo = @ \ {k}]
  /\ UNCHANGED <<cursor, target, passedOver, cuts>>

(* A run that cannot be purged is passed over. *)
PassOver(k) ==
  /\ IsNextDue(k) /\ cuts < MaxCuts /\ cuts' = cuts + 1
  /\ pass' = [pass EXCEPT !.todo = @ \ {k}] /\ passedOver' = passedOver \cup {k}
  /\ UNCHANGED <<rows, ahist, cursor, target>>

(* After a page: a page that was not full ends its prefix, and the last prefix
   ends the walk. *)
ExhaustedIfRead(left) == TRUE  \* mutant
Exhausted(left) == left > 0

PageDone ==
  /\ pass.pc = "purge" /\ pass.todo = {}
  /\ \/ ~Exhausted(pass.left) /\ pass' = [pass EXCEPT !.pc = "save"]
     \/ /\ Exhausted(pass.left) /\ pass.at[1] = 1
        /\ pass' = [pass EXCEPT !.pc = "page", !.at = <<2, 0>>]
     \/ /\ Exhausted(pass.left) /\ pass.at[1] = 2
        /\ pass' = [pass EXCEPT !.pc = "save", !.at = WalkStart, !.walked = TRUE]
  /\ UNCHANGED <<rows, ahist, cursor, target, passedOver, cuts>>

(* The cursor is saved, "" reading as the start whatever the prefix was. *)
SaveCursor ==
  /\ pass.pc = "save"
  /\ cursor' = IF pass.at[2] = 0 THEN WalkStart ELSE pass.at
  /\ pass' = NoPass
  /\ UNCHANGED <<rows, ahist, target, passedOver, cuts>>

(* A page or a put that fails ends the pass, and so does a crash. *)
PassCut ==
  /\ pass.pc # "rest" /\ cuts < MaxCuts /\ cuts' = cuts + 1
  /\ pass' = NoPass
  /\ UNCHANGED <<rows, ahist, cursor, target, passedOver>>

PurgeNext ==
  \/ \E k \in RowKeys : RunStarts(k) \/ RunExpires(k)
  \/ \E k \in RowKeys : purgeWorkflow(k) \/ purgeActivityRun(k) \/ PassOver(k)
  \/ purgeOnce \/ page \/ PageDone \/ SaveCursor \/ PassCut

PurgeSpec == PurgeInit /\ [][PurgeNext]_purgeVars

-----------------------------------------------------------------------------
(* Wherever the limit cuts the pages, whatever runs start behind or ahead of the
   cursor, and whichever passes fail or crash, a walk that reaches the end of the
   rows leaves none of the runs that were expired when it began, but those of which
   it met an error; and no history of an activity is left without its row. *)
Remains(k) == rows[k] = "expired" /\ k \notin passedOver

WalkPurges ==
  /\ pass.walked => \A k \in target : ~Remains(k)
  /\ \A k \in ahist : rows[k] # "none"

(* The inductive form: a target that remains is ahead of the saved cursor, ahead of
   the pass or on its page, and under a later prefix once a page was not full. *)
PurgeTypeOK ==
  /\ rows \in [RowKeys -> {"none", "kept", "expired"}]
  /\ ahist \subseteq RowKeys /\ target \subseteq RowKeys /\ passedOver \subseteq RowKeys
  /\ cursor \in Prefixes \X Nat /\ cuts \in Nat
  /\ pass \in [pc : {"rest", "page", "purge", "save"}, at : Prefixes \X Nat, left : Int,
               due : SUBSET RowKeys, todo : SUBSET RowKeys, walked : BOOLEAN]

Beyond(at, k) == k[1] > at[1] \/ (k[1] = at[1] /\ k[2] > at[2])

PassInv ==
  /\ pass.pc # "purge" => pass.todo = {}
  /\ pass.walked => pass.pc = "save"
  /\ \A k \in ahist : k[1] = 2
  /\ \A k \in target : rows[k] # "kept"

AheadInv ==
  \A k \in target : Remains(k) =>
    /\ Beyond(cursor, k)
    /\ pass.pc # "rest" => k \in pass.due
    /\ pass.pc # "rest" /\ ~pass.walked => Beyond(pass.at, k) \/ k \in pass.todo
    /\ pass.pc = "purge" /\ Exhausted(pass.left) /\ Beyond(pass.at, k) => k[1] > pass.at[1]

WalkInv == PurgeTypeOK /\ PassInv /\ WalkPurges /\ AheadInv

=============================================================================
