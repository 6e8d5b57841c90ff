------------------------------ MODULE Snapshots ------------------------------
(***************************************************************************)
(* What a pass of the sync service copies whole from the spaces node: the  *)
(* rollouts and the root anchors (cmd/sync/sync.go: syncRollouts,          *)
(* syncRootAnchors, and the calls of syncBlocks).                          *)
(*                                                                         *)
(* The table rollouts is emptied and filled again in one transaction, but  *)
(* with the answers to as many requests as there are batches; the anchors  *)
(* are one answer, written to those of its blocks that have a row.  Both   *)
(* are done when a pass begins, and again before it stores its first block *)
(* if that is past the activation height.  Meanwhile the spaces node       *)
(* connects blocks, and the pass may be cut short anywhere.                *)
(*                                                                         *)
(* Simplifications.  A row of rollouts is a name and a batch.  The chain   *)
(* the spaces node has connected determines what it answers.  Which block  *)
(* a pass stores first is the matter of BlockSync, here it is any.         *)
(***************************************************************************)
EXTENDS BlockTree

CONSTANTS
  NoBlock,           \* a nil hash
  ActivationHeight,  \* activationBlock
  Batches,           \* how many rollout batches there are: 10 in the code
  Names,             \* the names of spaces
  Listing,           \* Listing[b][i]: batch i, when b is the node's last block
  BadNames,          \* those that do not begin with @
  Anchoring,         \* the blocks the node keeps a root anchor of
  FaultPoints        \* where a pass may be cut short

Index == 0 .. Batches - 1
Points == {"idle", "delete", "ask", "anchors", "apply", "fetch", "store"}

ASSUME SnapshotsAssumption ==
  /\ NoBlock \notin Blocks
  /\ ActivationHeight \in Int
  /\ Batches \in Nat \ {0}
  /\ Listing \in [Blocks -> [Index -> SUBSET Names]]
  /\ Anchoring \subseteq Blocks
  /\ FaultPoints \subseteq Points \ {"idle"}

VARIABLES
  tip,       \* the last block the spaces node has connected
  rollouts,  \* table rollouts: pairs of name and target
  stored,    \* the blocks that have a row
  anchored,  \* those whose root_anchor is set
  pc,        \* where the pass is
  batch,     \* i of syncRollouts
  rows,      \* the rows the open transaction has inserted
  roots,     \* the blocks of the answer to getrootanchors
  blk,       \* the block to store, once it is fetched
  asked,     \* history: the node's last block when it was asked for each batch,
  shown,     \* the same for the table's batches, and
  since      \* when the pass was last due to bring both up to date

tables  == <<rollouts, stored, anchored>>
local   == <<pc, batch, rows, roots, blk>>
history == <<asked, shown, since>>
vars    == <<tip, tables, local, history>>

NoAnswers == [i \in Index |-> NoBlock]

\* The rows of the first n batches, if each is asked for when f[i] is the last
\* block.
RowsOf(f, n) == {r \in Names \X (0 .. n - 1) : r[1] \in Listing[f[r[2]]][r[2]]}

\* Mutant of Kept: DELETE FROM rollouts is left out.
AllKept == rollouts

\* What the transaction keeps of the table.
Kept == {}

\* Mutant of FirstBatch: what an earlier run of the pass asked is not asked again.
OtherBatch == IF blk = NoBlock THEN 0 ELSE 1

\* i := 0
FirstBatch == 0

\* Mutant of MoreBatches: the last batch is left out.
MoreButOne == batch < Batches - 1

\* i < 10
MoreBatches == batch < Batches

\* Mutant of Renews: the batches are fetched at the start of a pass only.
NeverRenews(b) == FALSE

\* The block is past the activation height: once more before it is stored.
Renews(b) == Height[b] >= ActivationHeight

\* Mutants of Updated: no more than the block that is stored next; an upsert.
UpdatedNext == roots \cap {blk}
Upserted == roots

\* UPDATE blocks: those of the answer that have a row; the others are no error.
Updated == roots \cap stored

\* log.Fatalf ends the process on such an answer.
Bad(b, i) == Listing[b][i] \cap BadNames # {}

-----------------------------------------------------------------------------

Init ==
  /\ tip \in Blocks
  /\ rollouts = {} /\ stored = {} /\ anchored = {}
  /\ pc = "idle"
  /\ batch = 0
  /\ rows = {} /\ roots = {}
  /\ blk = NoBlock
  /\ asked = NoAnswers /\ shown = NoAnswers
  /\ since = tip

\* The spaces node connects blocks, also of another branch with more work.
NodeMoves ==
  /\ \E b \in Blocks : Work[b] > Work[tip] /\ tip' = b
  /\ UNCHANGED <<tables, local, history>>

\* The pass returns, or the process dies; the server rolls back.
EndPass ==
  /\ pc' = "idle"
  /\ batch' = 0
  /\ rows' = {} /\ roots' = {}
  /\ blk' = NoBlock
  /\ asked' = NoAnswers

\* GetSyncedHead is done.
BeginPass ==
  /\ pc = "idle"
  /\ pc' = "delete"
  /\ since' = tip
  /\ UNCHANGED <<tip, tables, batch, rows, roots, blk, asked, shown>>

DeleteRollouts ==
  /\ pc = "delete"
  /\ rows' = Kept
  /\ batch' = FirstBatch
  /\ pc' = "ask"
  /\ UNCHANGED <<tip, tables, roots, blk, history>>

\* One request, and the inserts of its rows.
GetRollOut ==
  /\ pc = "ask"
  /\ MoreBatches
  /\ ~Bad(tip, batch)
  /\ rows' = rows \cup (Listing[tip][batch] \X {batch})
  /\ asked' = [asked EXCEPT ![batch] = tip]
  /\ batch' = batch + 1
  /\ UNCHANGED <<tip, tables, pc, roots, blk, shown, since>>

BadName ==
  /\ pc = "ask"
  /\ MoreBatches
  /\ Bad(tip, batch)
  /\ EndPass
  /\ UNCHANGED <<tip, tables, shown, since>>

Replace ==
  /\ pc = "ask"
  /\ ~MoreBatches
  /\ rollouts' = rows
  /\ shown' = asked
  /\ UNCHANGED <<tip, stored, anchored, since>>

CommitRollouts ==
  /\ Replace
  /\ pc' = "anchors"
  /\ UNCHANGED <<batch, rows, roots, blk, asked>>

GetRootAnchors ==
  /\ pc = "anchors"
  /\ roots' = Anchoring \cap Ancestors[tip]
  /\ pc' = "apply"
  /\ UNCHANGED <<tip, tables, batch, rows, blk, history>>

UpdateRootAnchors ==
  /\ pc = "apply"
  /\ anchored' = anchored \cup Updated
  /\ UNCHANGED <<tip, rollouts, stored, shown, since>>

CommitRootAnchors ==
  /\ UpdateRootAnchors
  /\ pc' = IF blk = NoBlock THEN "fetch" ELSE "store"
  /\ UNCHANGED <<batch, rows, roots, blk, asked>>

\* getblockhash and getblock of the first block to store.
FetchBlock ==
  /\ pc = "fetch"
  /\ \E b \in Blocks :
       /\ blk' = b
       /\ pc' = IF Renews(b) THEN "delete" ELSE "store"
       /\ since' = IF Height[b] >= ActivationHeight THEN tip ELSE since
  /\ UNCHANGED <<tip, tables, batch, rows, roots, asked, shown>>

NothingToFetch ==
  /\ pc = "fetch"
  /\ EndPass
  /\ UNCHANGED <<tip, tables, shown, since>>

Store ==
  /\ pc = "store"
  /\ stored' = stored \cup {blk}
  /\ UNCHANGED <<tip, rollouts, anchored, shown, since>>

\* StoreBlock, and the next block if there is one.
StoreBlock ==
  /\ Store
  /\ \/ /\ \E b \in Blocks \ {blk} : Parent[b] = blk /\ blk' = b
        /\ UNCHANGED <<pc, batch, rows, roots, asked>>
     \/ EndPass

\* The server makes a commit and the answer is lost.
CommitUnanswered ==
  /\ pc \in FaultPoints
  /\ Replace \/ UpdateRootAnchors \/ Store
  /\ EndPass

\* An error return, a deadline or a crash.
Fail ==
  /\ pc \in FaultPoints
  /\ EndPass
  /\ UNCHANGED <<tip, tables, shown, since>>

SyncRollouts == DeleteRollouts \/ GetRollOut \/ BadName \/ CommitRollouts
SyncRootAnchors == GetRootAnchors \/ CommitRootAnchors
SyncBlocks == BeginPass \/ FetchBlock \/ NothingToFetch \/ StoreBlock

Next ==
  \/ NodeMoves
  \/ SyncRollouts \/ SyncRootAnchors \/ SyncBlocks
  \/ CommitUnanswered \/ Fail

Spec == Init /\ [][Next]_vars

(***************************************************************************)
(* main begins passes for ever, no fault strikes one and the same step for *)
(* ever, and a pass ends: the node's chain does.                           *)
(***************************************************************************)
Fairness ==
  /\ WF_vars(BeginPass \/ BadName)
  /\ SF_vars(DeleteRollouts)
  /\ \A i \in Index : SF_vars(batch = i /\ GetRollOut)
  /\ SF_vars(CommitRollouts)
  /\ SF_vars(GetRootAnchors)
  /\ SF_vars(CommitRootAnchors)
  /\ WF_vars(FetchBlock \/ NothingToFetch)
  /\ WF_vars(StoreBlock)

FairSpec == Spec /\ Fairness

-----------------------------------------------------------------------------
(***************************************************************************)
(* Properties.                                                             *)
(***************************************************************************)

TypeOK ==
  /\ tip \in Blocks
  /\ rollouts \subseteq Names \X Index
  /\ stored \subseteq Blocks
  /\ anchored \subseteq stored
  /\ pc \in Points
  /\ batch \in 0 .. Batches
  /\ rows \subseteq Names \X Index
  /\ roots \subseteq Anchoring
  /\ blk \in Blocks \cup {NoBlock}
  /\ pc \in {"idle", "fetch"} => blk = NoBlock
  /\ pc = "store" => blk # NoBlock
  /\ asked \in [Index -> Blocks \cup {NoBlock}]
  /\ shown \in [Index -> Blocks \cup {NoBlock}]
  /\ since \in Blocks

\* The table is what the node answered to one run through the batches, each
\* batch whole and in the order of the requests, wherever passes were cut short;
\* the batches of different runs are never mixed, nor is a batch ever missing.
RolloutsWhole ==
  \/ shown = NoAnswers /\ rollouts = {}
  \/ /\ shown \in [Index -> Blocks]
     /\ rollouts = RowsOf(shown, Batches)
     /\ \A i, j \in Index : i < j => Work[shown[i]] <= Work[shown[j]]

\* The table only moves forward: the oldest answer in a new one is not older
\* than the newest in the one it replaces, although a transaction whose commit
\* was never answered may have gone through.
NeverOlder ==
  [][\A i, j \in Index :
       shown' # shown /\ shown # NoAnswers => Work[shown'[i]] >= Work[shown[j]]]_vars

\* No block is stored by a pass that has not brought the rollouts up to date
\* itself, and past the activation height not before it did so after fetching
\* the first one.
StoredOnFresh ==
  pc \in {"fetch", "store"} => \A i \in Index : Work[shown[i]] >= Work[since]

\* A pass on a node that has not moved since brings both up to date: the table
\* lists what the node does now, and no block that had a row before the pass
\* stored its first one misses the anchor the node keeps of it.
FreshIfStill ==
  pc \in {"fetch", "store"} /\ tip = since =>
    /\ rollouts = RowsOf([i \in Index |-> tip], Batches)
    /\ pc = "fetch" => stored \cap Anchoring \cap Ancestors[tip] \subseteq anchored

\* Once the spaces node stands still the ten answers agree with it and each
\* other, unless it lists a name that ends the process.
FreshInTheEnd ==
  <>[]((\E i \in Index : Bad(tip, i)) \/ shown = [i \in Index |-> tip])

\* Anchors come before their blocks, and are lost on those that have no row yet;
\* still every block stored gets the one the node keeps.
AnchorsArrive ==
  <>[]((\E i \in Index : Bad(tip, i))
         \/ stored \cap Anchoring \cap Ancestors[tip] \subseteq anchored)
=============================================================================
