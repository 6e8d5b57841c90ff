------------------------------ MODULE BlockSync ------------------------------
(***************************************************************************)
(* The block half of the sync service (cmd/sync/sync.go: main, syncBlocks; *)
(* pkg/store/store.go: GetSyncedHead, StoreBlock and what they call; the   *)
(* block queries of pkg/db/blocks.sql.go).                                 *)
(*                                                                         *)
(* One process runs passes for ever.  A pass finds the highest database    *)
(* row that the node's chain confirms, turns the rows above it into        *)
(* orphans, and then stores the node's blocks one by one, each in a        *)
(* database transaction.  Between any two steps of a pass the node's chain *)
(* may grow or switch to a branch with more work, and a pass may be cut    *)
(* short: an RPC or a statement fails, a context deadline passes, the      *)
(* process dies.  The next pass starts from what the database holds.       *)
(*                                                                         *)
(* Simplifications.  The transactions of a block are inserted together and *)
(* so are its spaces outputs, so each is one fact about the block: in      *)
(* txRows, and the number metaCopies of times its outputs were inserted.   *)
(* A SQL transaction is the set of its writes that are not yet visible;    *)
(* the block's row is one of them at every commit.  Rollouts and root      *)
(* anchors touch neither (module Snapshots): steps that may fail.          *)
(***************************************************************************)
EXTENDS BlockTree

CONSTANTS
  Deadbeef,          \* the hash of the row that stands for the mempool
  NoBlock,           \* a nil hash
  ActivationHeight,  \* activationBlock
  FastSyncHeight,    \* fastSyncBlockHeight: FAST_SYNC_BLOCK_HEIGHT - 1, or -1
  Unstorable,        \* the blocks with a covenant the store does not know
  ReorgPoints,       \* where in a pass the node may switch branches
  FaultPoints        \* where a pass may be cut short

Points == {"idle", "scan", "mark", "demote", "fetch", "get", "store", "meta",
           "commit"}

ASSUME SyncAssumption ==
  /\ Deadbeef \notin Blocks
  /\ NoBlock \notin Blocks \cup {Deadbeef}
  /\ ActivationHeight \in Int
  /\ FastSyncHeight \in Int /\ FastSyncHeight >= -1
  /\ Unstorable \subseteq Blocks
  /\ ReorgPoints \subseteq Points
  /\ FaultPoints \subseteq Points \ {"idle"}

VARIABLES
  tip,         \* the last block of the node's active chain
  dbHeight,    \* blocks.height of every row, by hash
  orphans,     \* the rows with blocks.orphan = true
  txRows,      \* the blocks whose transactions are in table transactions
  metaCopies,  \* how often the outputs of a block are in table vmetaouts
  pc,          \* where the pass is
  head,        \* height in GetSyncedHead and syncBlocks
  blk,         \* the block the pass fetches or stores
  nxt,         \* nextBlockHash
  txn          \* the uncommitted writes of the open SQL transaction

node   == tip
tables == <<dbHeight, orphans, txRows, metaCopies>>
local  == <<pc, head, blk, nxt, txn>>
vars   == <<node, tables, local>>

(***************************************************************************)
(* The database and the node as the pass reads them.                       *)
(***************************************************************************)

Rows == DOMAIN dbHeight

\* The rows that index a block: a GetBlockByHeight of some height of the chain
\* finds them.
Active == {b \in Rows : dbHeight[b] >= 0}

\* The block of height h on the node's chain is b (getblockhash h).
NodeHas(h, b) == b \in Ancestors[tip] /\ Height[b] = h

\* getblockhash h answers "Block height out of range".
OutOfRange(h) == h > Height[tip]

\* Mutant of HeightLeft: the loop runs once more, at the mempool's row.
HeightLeftOnceMore == head >= -1

\* The loop of GetSyncedHead goes on.
HeightLeft == head >= 0

\* Mutant of Agreed: the hashes are not compared.
AgreedUnchecked(b) == dbHeight[b] = head /\ ~OutOfRange(head)

\* The row of height head has the hash the node has there.
Agreed(b) == dbHeight[b] = head /\ NodeHas(head, b)

\* Mutants of RowsAfter: the synced row too; not the row right above it; that
\* row only.
RowsFrom(h) == {b \in Rows : dbHeight[b] >= h}
RowsWellAfter(h) == {b \in Rows : dbHeight[b] > h + 1}
RowNextTo(h) == {b \in Rows : dbHeight[b] = h + 1}

\* "... WHERE height > h", of SetOrphanAfterHeight.
RowsAfter(h) == {b \in Rows : dbHeight[b] > h}

\* Mutants of ResumeHeight: height++ is missing, or is done twice; the fast sync
\* height is left out.
ResumeHere(h) == IF h < FastSyncHeight THEN FastSyncHeight + 1
                 ELSE IF h < 0 THEN 0 ELSE h
ResumeBeyond(h) == (IF h < FastSyncHeight THEN FastSyncHeight ELSE h) + 2
ResumeSlowly(h) == h + 1

\* The height syncBlocks asks for first, after it found the synced height h.
ResumeHeight(h) == (IF h < FastSyncHeight THEN FastSyncHeight ELSE h) + 1

\* Mutant of NothingAbove: the last block counts as out of range.
NothingNewAbove == ResumeHeight(head) >= Height[tip]

\* "Block height out of range": there is nothing to store.
NothingAbove == OutOfRange(ResumeHeight(head))

\* Mutant of Demoted: the row keeps its height.
NotDemoted(b) == dbHeight[b]

\* The height of a row after SetNegativeHeightToOrphans.
Demoted(b) == IF b \in orphans THEN -2 ELSE dbHeight[b]

\* unique_height_index would refuse a row of this height for b.
HeightTaken(b) == \E c \in Rows \ {b} : dbHeight[c] = Height[b]

\* What UpsertBlock adds: the transactions, only if the row was inserted.
BlockWrites(b) == IF b \in Rows THEN {} ELSE {"txs"}

\* Mutants of the upsert's ON CONFLICT clause: it does not set the height; it
\* does not clear the flag.
OldHeight(b) == IF b \in Rows THEN dbHeight[b] ELSE Height[blk]
NoneCleared == {}

\* The height of a row after the upsert of blk, and the rows it takes the flag
\* from.
NewHeight(b) == IF b = blk THEN Height[blk] ELSE dbHeight[b]
Cleared == {blk}

\* Mutant of MetaWrites: > for >= at the activation height.
MetaWritesLate(b) == IF Height[b] > ActivationHeight THEN {"vmeta"} ELSE {}

\* The vmetaouts of b, asked of the spaces node from the activation height on.
MetaWrites(b) == IF Height[b] >= ActivationHeight THEN {"vmeta"} ELSE {}

\* StoreSpacesTransactions knows every covenant of b, if it is asked for them.
Storable(b) == b \notin Unstorable \/ MetaWrites(b) = {}

-----------------------------------------------------------------------------

Init ==
  /\ tip \in Blocks
  /\ dbHeight = [b \in {Deadbeef} |-> -1]
  /\ orphans = {}
  /\ txRows = {}
  /\ metaCopies = [b \in Blocks |-> 0]
  /\ pc = "idle"
  /\ head = -1
  /\ blk = NoBlock
  /\ nxt = NoBlock
  /\ txn = {}

(***************************************************************************)
(* The node adopts a chain with more work: an extension of its chain at    *)
(* any time, a switch to another branch where ReorgPoints allows it.       *)
(***************************************************************************)
NodeMoves ==
  /\ \E b \in Blocks :
       /\ Work[b] > Work[tip]
       /\ tip \in Ancestors[b] \/ pc \in ReorgPoints
       /\ tip' = b
  /\ UNCHANGED <<tables, local>>

\* The pass returns; what it held in memory and did not commit is gone.
EndPass ==
  /\ pc' = "idle"
  /\ head' = -1
  /\ blk' = NoBlock
  /\ nxt' = NoBlock
  /\ txn' = {}

\* main connects and calls syncBlocks; GetBlocksMaxHeight over every row.
BeginPass ==
  /\ pc = "idle"
  /\ \E b \in Rows :
       /\ \A c \in Rows : dbHeight[c] <= dbHeight[b]
       /\ head' = dbHeight[b]
  /\ pc' = "scan"
  /\ UNCHANGED <<node, tables, blk, nxt, txn>>

ScanMatches ==
  /\ pc = "scan"
  /\ HeightLeft
  /\ \E b \in Rows : Agreed(b)
  /\ pc' = "mark"
  /\ UNCHANGED <<node, tables, head, blk, nxt, txn>>

\* It has another one: the scan goes one height down.
ScanDiffers ==
  /\ pc = "scan"
  /\ HeightLeft
  /\ ~OutOfRange(head)
  /\ \E b \in Rows : dbHeight[b] = head /\ ~Agreed(b)
  /\ head' = head - 1
  /\ UNCHANGED <<node, tables, pc, blk, nxt, txn>>

\* No height is left: GetSyncedHead returns -1 and marks nothing.
ScanExhausted ==
  /\ pc = "scan"
  /\ ~HeightLeft
  /\ pc' = "fetch"
  /\ UNCHANGED <<node, tables, head, blk, nxt, txn>>

\* The row is missing (ErrNoRows), or the node's chain is shorter than head.
ScanFails ==
  /\ pc = "scan"
  /\ HeightLeft
  /\ OutOfRange(head) \/ \A b \in Rows : dbHeight[b] # head
  /\ EndPass
  /\ UNCHANGED <<node, tables>>

\* SetOrphanAfterHeight, a statement with a transaction of its own.
MarkOrphans ==
  /\ pc = "mark"
  /\ orphans' = orphans \cup RowsAfter(head)
  /\ pc' = "demote"
  /\ UNCHANGED <<node, dbHeight, txRows, metaCopies, head, blk, nxt, txn>>

\* SetNegativeHeightToOrphans, another one: every row that is marked.
DemoteOrphans ==
  /\ pc = "demote"
  /\ dbHeight' = [b \in Rows |-> Demoted(b)]
  /\ pc' = "fetch"
  /\ UNCHANGED <<node, orphans, txRows, metaCopies, head, blk, nxt, txn>>

\* The hash of the first block to store, or nothing to store.
FetchHash ==
  /\ pc = "fetch"
  /\ \E b \in Blocks : NodeHas(ResumeHeight(head), b) /\ blk' = b
  /\ pc' = "get"
  /\ UNCHANGED <<node, tables, head, nxt, txn>>

NothingToFetch ==
  /\ pc = "fetch"
  /\ NothingAbove
  /\ EndPass
  /\ UNCHANGED <<node, tables>>

\* getblock: a block off the active chain comes without a nextblockhash.
GetBlock ==
  /\ pc = "get"
  /\ \/ nxt' \in Successors(blk, tip)
     \/ Successors(blk, tip) = {} /\ nxt' = NoBlock
  /\ pc' = "store"
  /\ UNCHANGED <<node, tables, head, blk, txn>>

(***************************************************************************)
(* StoreBlock: StoreBitcoinBlock, then the spaces outputs of the block,    *)
(* then the commit that makes both visible.  A height that is taken is an  *)
(* error of the upsert, and leaves only Fail.                              *)
(***************************************************************************)
StoreBitcoinBlock ==
  /\ pc = "store"
  /\ ~HeightTaken(blk)
  /\ txn' = BlockWrites(blk)
  /\ pc' = "meta"
  /\ UNCHANGED <<node, tables, head, blk, nxt>>

StoreSpacesTransactions ==
  /\ pc = "meta"
  /\ Storable(blk)
  /\ txn' = txn \cup MetaWrites(blk)
  /\ pc' = "commit"
  /\ UNCHANGED <<node, tables, head, blk, nxt>>

\* An unknown covenant is an error of StoreSpacesTransaction, on every pass.
StoreRefused ==
  /\ pc = "meta"
  /\ ~Storable(blk)
  /\ EndPass
  /\ UNCHANGED <<node, tables>>

\* InsertBatchTransactions: one COPY for all the transactions of the block.
CopiedTxs == IF "txs" \in txn THEN txRows \cup {blk} ELSE txRows

\* InsertVMetaOut, once for each of its outputs; no key refuses a second time.
InsertedOutputs ==
  IF "vmeta" \in txn THEN [metaCopies EXCEPT ![blk] = @ + 1] ELSE metaCopies

\* What the COMMIT of txn does to the tables.
Apply ==
  /\ dbHeight' = [b \in Rows \cup {blk} |-> NewHeight(b)]
  /\ orphans' = orphans \ Cleared
  /\ txRows' = CopiedTxs
  /\ metaCopies' = InsertedOutputs

\* The commit succeeds; the pass follows nextBlockHash while there is one.
Commit ==
  /\ pc = "commit"
  /\ Apply
  /\ \/ /\ nxt # NoBlock
        /\ pc' = "get"
        /\ blk' = nxt
        /\ nxt' = NoBlock
        /\ txn' = {}
        /\ UNCHANGED head
     \/ nxt = NoBlock /\ EndPass
  /\ UNCHANGED node

\* The server commits but the answer is lost: the pass sees an error.
CommitUnanswered ==
  /\ pc = "commit"
  /\ "commit" \in FaultPoints
  /\ Apply
  /\ EndPass
  /\ UNCHANGED node

\* An error return, a deadline or a crash: the server rolls txn back.
Fail ==
  /\ pc \in FaultPoints
  /\ EndPass
  /\ UNCHANGED <<node, tables>>

Scan == ScanMatches \/ ScanDiffers \/ ScanExhausted \/ ScanFails
Head == BeginPass \/ Scan \/ MarkOrphans \/ DemoteOrphans
Load == FetchHash \/ NothingToFetch \/ GetBlock
StoreBlock ==
  StoreBitcoinBlock \/ StoreSpacesTransactions \/ StoreRefused \/ Commit

Next == NodeMoves \/ Head \/ Load \/ StoreBlock \/ CommitUnanswered \/ Fail

Spec == Init /\ [][Next]_vars

(***************************************************************************)
(* main retries for ever, and no fault strikes one and the same step for   *)
(* ever: a step that passes reach again and again is carried out in the    *)
(* end.  A step of the scan is one height of its loop.                     *)
(***************************************************************************)
Fairness ==
  /\ WF_vars(BeginPass)
  /\ \A h \in {Height[b] : b \in Blocks} \cup {-1} : SF_vars(head = h /\ Scan)
  /\ SF_vars(MarkOrphans)
  /\ SF_vars(DemoteOrphans)
  /\ SF_vars(FetchHash \/ NothingToFetch)
  /\ SF_vars(GetBlock)
  /\ SF_vars(StoreBitcoinBlock)
  /\ SF_vars(StoreSpacesTransactions)
  /\ WF_vars(StoreRefused)
  /\ SF_vars(Commit)

FairSpec == Spec /\ Fairness

-----------------------------------------------------------------------------
(***************************************************************************)
(* Properties.                                                             *)
(***************************************************************************)

TypeOK ==
  /\ tip \in Blocks
  /\ Rows \subseteq Blocks \cup {Deadbeef}
  /\ dbHeight \in [Rows -> Int]
  /\ orphans \subseteq Rows
  /\ txRows \subseteq Blocks
  /\ metaCopies \in [Blocks -> Nat]
  /\ pc \in Points
  /\ head \in Int /\ head >= -1
  /\ blk \in Blocks \cup {NoBlock}
  /\ nxt \in Blocks \cup {NoBlock}
  /\ txn \subseteq {"txs", "vmeta"}

\* A block is in the database with everything that belongs to it or not at
\* all, wherever StoreBlock was cut short, and also when it comes back after
\* it was an orphan: StoreBlock's deferred rollback, and its wasInserted test.
BlocksComplete ==
  /\ \A b \in Rows \ {Deadbeef} :
       /\ b \in txRows
       /\ Height[b] >= ActivationHeight => metaCopies[b] > 0
  /\ \A b \in Blocks \ Rows : b \notin txRows /\ metaCopies[b] = 0

\* A row has the height its block has, unless it was marked as an orphan; and
\* the row that holds the mempool is never taken for a block after the synced
\* height, however the scan of GetSyncedHead ends.
HeightsHonest ==
  /\ \A b \in Rows \ {Deadbeef} :
       \/ dbHeight[b] = Height[b]
       \/ dbHeight[b] = -2 /\ b \in orphans
  /\ Deadbeef \in Rows \ orphans
  /\ dbHeight[Deadbeef] = -1

\* From the end of GetSyncedHead on, the explorer sees no block that is marked
\* as an orphan, and whatever the node does meanwhile, the block to be stored
\* never runs into unique_height_index: syncBlocks cannot block itself.
NeverConflicts ==
  pc \in {"fetch", "get", "store", "meta", "commit"} =>
    /\ Active \cap orphans = {}
    /\ pc = "store" => ~HeightTaken(blk)

\* What each step of a pass may take for granted, though the node moved on and
\* the pass before may have been cut short anywhere: the scan ends on a match,
\* nothing is left above the synced height, every block goes on top of all the
\* others, and a commit brings all that belongs to its block.
PassInv ==
  /\ pc = "scan" /\ head = -1 => Active = {}
  /\ pc \in {"mark", "demote"} => head >= 0
  /\ pc = "demote" => RowsAfter(head) \subseteq orphans
  /\ pc = "fetch" => RowsAfter(head) = {}
  /\ pc \in {"fetch", "get", "store", "meta", "commit"} =>
       Active \cap orphans = {}
  /\ pc \in {"get", "store", "meta", "commit"} =>
       blk \in Blocks /\ \A b \in Active : dbHeight[b] < Height[blk]
  /\ pc \in {"store", "meta", "commit"} /\ nxt # NoBlock =>
       Height[nxt] = Height[blk] + 1
  /\ pc = "meta" => txn = BlockWrites(blk)
  /\ pc = "commit" => txn = BlockWrites(blk) \cup MetaWrites(blk)

\* The spaces outputs of a block the explorer shows are not inserted again, by
\* no retry: not after a commit whose answer was lost, not after a restart.
NoReinsertWhileActive ==
  [][\A b \in Blocks : metaCopies'[b] # metaCopies[b] => b \notin Active]_vars

\* The blocks shown hang together: under each one, down to the first indexed
\* height, is its parent.  Nothing in StoreBlock compares the two.
Linked(b) ==
  \/ Height[b] = FastSyncHeight + 1
  \/ Height[b] > FastSyncHeight + 1 /\ Parent[b] \in Active

ActiveChainLinked == \A b \in Active : Linked(b)

\* Why that is so where no reorganisation falls between the comparison of the
\* hashes and the fetch of the next one, and no pass ends between the two
\* statements about orphans: the synced block stays on the node's chain until
\* the block above it is known, and every block comes with its parent.
PassFollowsChain ==
  /\ pc # "demote" => Active \cap orphans = {}
  /\ pc = "demote" => Active \cap orphans \subseteq RowsAfter(head)
  /\ pc \in {"mark", "demote", "fetch"} /\ head >= 0 =>
       \E b \in Active : dbHeight[b] = head /\ NodeHas(head, b)
  /\ pc \in {"get", "store", "meta", "commit"} => Linked(blk)
  /\ pc \in {"store", "meta", "commit"} /\ nxt # NoBlock => Parent[nxt] = blk

\* The explorer has a block to show at every height up to the highest one: where
\* a switch in the middle of a pass breaks the parent links there is still no
\* hole, and no later scan can end on a missing row above the fast sync height.
HeightsWhole ==
  /\ \A b \in Active : \A h \in (FastSyncHeight + 1)..dbHeight[b] :
       \E c \in Active : dbHeight[c] = h
  /\ pc = "scan" /\ head > FastSyncHeight => \E c \in Active : dbHeight[c] = head

\* The blocks shown behave as the abstract mirror of a chain.
Mirror == INSTANCE ChainMirror WITH Base <- FastSyncHeight + 1, chain <- Active
ImplementsMirror == Mirror!Spec

\* The blocks the pass can get to on the node's chain: from the first indexed
\* height up to below the first one that cannot be stored.
Reachable ==
  {b \in Ancestors[tip] :
     /\ Height[b] > FastSyncHeight
     /\ \A c \in Ancestors[b] : Height[c] > FastSyncHeight => Storable(c)}

\* A pass leaves nothing out and nothing too much: where it finds no block left
\* to store, or commits the node's last one, or meets one it cannot store, the
\* blocks shown are just those it can get to, whatever the passes before it met.
EndsSynced ==
  /\ pc = "fetch" /\ NothingAbove => Active = Reachable
  /\ pc = "meta" /\ blk \in Ancestors[tip] /\ ~Storable(blk) => Active = Reachable
  /\ pc = "commit" /\ blk = tip => Active \cup {blk} = Reachable

\* Once the node's chain stands still, the blocks shown become exactly that
\* chain, as far as it can be stored, and stay so.
Converges == <>[](Active = Reachable)

\* A pass demotes the blocks after the synced height, never one below it: the
\* two statements of GetSyncedHead mean the same rows.
DemotesOnlyAbove ==
  [][\A b \in Active \ Active' : Height[b] > head]_vars

\* GetSyncedHead demotes only blocks the node has left: a block both agree on
\* is never taken off the explorer, however the pass before was cut short.
DemotesOnlyStale ==
  [][\A b \in Active : b \in Ancestors[tip] => b \in Active']_vars
=============================================================================
