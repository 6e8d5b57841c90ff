# Verification of the spaces explorer indexer

TLA+ models of the indexer (`cmd/`, `pkg/`, `sql/`), TLC runs that check them on
small instances, and TLAPS proofs of the main safety properties for every value
of the constants. Paths below are relative to the repository's root.

Contents: [the system](#1-the-system) ·
[modules and the code](#2-modules-and-the-code) ·
[runs](#3-runs) · [bounds](#4-bounds-and-why-they-are-enough) ·
[fairness](#5-fairness) · [proofs](#6-proofs) ·
[what the code does that its comments do not say](#7-disagreements-and-known-behaviour) ·
[not modelled](#8-what-is-not-modelled) · [plan](#9-plan)

## 1. The system

The indexer copies what a bitcoin node and a spaces node know into PostgreSQL,
for an explorer front end that only reads. There are three programs; none of them
has threads of its own. What makes them hard is that they share their data with
nodes that move on between any two calls, that every call may fail, that the
process may die anywhere, and that only what PostgreSQL committed survives.

| Component | State it keeps | Operations | Hard behaviour | What makes it correct |
|---|---|---|---|---|
| **Block sync** `cmd/sync/sync.go`, `pkg/store/store.go` | tables `blocks` (hash, height, orphan), `transactions`, `vmetaouts`; in memory the synced height, the block in work, the open SQL transaction | `GetSyncedHead` finds the highest row the node confirms and turns those above it into orphans (height −2); `syncBlocks` asks for the next hash and follows `nextblockhash`; `StoreBlock` stores one block in one transaction | reorganisations between any two calls, failures between the two orphan statements, lost answers of a commit, blocks that come back | blocks are stored whole or not at all; the blocks shown are one linked chain, the node's in the end; the unique height index never blocks the service |
| **Mempool sync** `cmd/sync/mempool.go` | the rows of `transactions` and `vmetaouts` with the block hash `deadbeef…`; in memory the snapshot and the rows read | `syncMempool` takes a snapshot, `cleanupMempoolTxs` deletes, `processTxGroup` stores one group in one transaction | transactions are mined or evicted between the snapshot and their lookup; lookups that fail are skipped; a group that can never be stored | no collision with its own earlier work; only what one snapshot held is shown; no outputs twice, and a row comes with its own wherever the spaces node can know them |
| **Populate service** `cmd/populate/populate.go` | `vmetaouts`, which `StoreBlock` of the sync service fills too; one connection for all attempts and the transaction open on it | attempts that insert block after block, a commit every ten blocks | retries from the start after partial commits; a deferred rollback that knows only the first transaction; blocks stored meanwhile; a block that cannot be stored | success means completeness; the copies that failures leave only pile up from below |
| **Rollouts, root anchors** `cmd/sync/sync.go:108-175` | table `rollouts`, column `blocks.root_anchor` | replaced and updated at the start of every pass, and again before its first block | ten requests that are not one snapshot; anchors before their blocks; unheard commits | the table is one run through the requests, never an older one than before, and both agree with the spaces node in the end |
| **Service loop** `cmd/sync/sync.go:57-106` | one connection and one deadline per round | connect, block pass, mempool cycle, sleep | an error of the first half leaves out the second; a transaction changes its status between the halves | no transaction is listed twice; one that is in neither list is under a block one round later; both halves make progress |
| **Backfill service** `cmd/backfill/backfill.go` | — | does not compile at this commit (see 8) | — | — |
| **Queries and schema** `pkg/db`, `sql` | the tables, their keys, foreign keys and the unique height index | statements, each atomic; transactions | which of them share a transaction | — |
| **Node clients** `pkg/node` | — | one request each | answers for the node of that moment, or an error | — |
| **Values** `pkg/types`, `pkg/node/types.go` | — | hex, amounts, columns | integer widths | — |

How they interact. `main` of the sync service calls the block pass and then the
mempool cycle, with the same connection and context; they meet only in the
database, where the mempool has a row of its own in `blocks` (hash `deadbeef…`,
height −1). The populate service is started by hand beside the sync service and
meets it in `vmetaouts` and, through its foreign key, in `transactions`. The
nodes are never written to.

## 2. Modules and the code

| Module | Models |
|---|---|
| `BlockTree` | the tree of blocks the bitcoin node knows (constants with `TreeAssumption`): external |
| `BlockSync` | block sync, one action per call or statement |
| `ChainMirror` | the abstract specification: what the explorer is promised of the blocks it shows |
| `MempoolSync` | mempool sync and the node's mempool |
| `MempoolView` | the abstract specification of it: what the explorer is promised of the transactions it lists as unconfirmed |
| `Snapshots` | rollouts and root anchors, and the spaces node |
| `Indexer` | the service loop: `BlockSync` and `MempoolSync`, composed over one database and one node |
| `Populate` | the populate service and its connection |
| `MCBlockSync`, `MCMempoolSync`, `MCSnapshots`, `MCIndexer`, `MCPopulate` | instances for TLC |
| `*_proofs`, `BlockMirror_proofs` | theorems and proofs |

`PROJECT.json` maps every definition to the lines it stands for.

**BlockSync.** `tip` is the node's chain (a block and, through `Ancestors`, all
below it); `dbHeight`, `orphans`, `txRows` and `metaCopies` are the tables; `pc`,
`head`, `blk`, `nxt` and `txn` are the pass's local state. The actions in the
order of a pass:

| `pc` | Action | Code |
|---|---|---|
| `idle` | `BeginPass` | `GetBlocksMaxHeight` |
| `scan` | `ScanMatches`, `ScanDiffers`, `ScanExhausted`, `ScanFails` | the loop of `GetSyncedHead` |
| `mark` | `MarkOrphans` | `SetOrphanAfterHeight` |
| `demote` | `DemoteOrphans` | `SetNegativeHeightToOrphans` |
| `fetch` | `FetchHash`, `NothingToFetch` | `height++`, `getblockhash`, "Block height out of range" |
| `get` | `GetBlock` | `getblock`: the block and, if it is on the active chain, its `nextblockhash` |
| `store`, `meta`, `commit` | `StoreBitcoinBlock`, `StoreSpacesTransactions`, `Commit` | `StoreBlock`; `Apply` is what the commit makes visible, with the upsert's `height = EXCLUDED.height, orphan = false` |
| `meta` | `StoreRefused` | the block is one of `Unstorable`: a covenant `StoreSpacesTransaction` does not know |
| any | `Fail` | an error, a deadline, a crash: the open transaction is rolled back |
| `commit` | `CommitUnanswered` | the server commits and the pass sees an error |
| any | `NodeMoves` | the node extends its chain or switches to one with more work |

A row read and the node's answer for its height are one step in the scan: nobody
but this process writes `blocks`, so only the moment of the node's answer counts.
`StoreBitcoinBlock` is one step for the same reason (nothing of an open
transaction is visible).

**MempoolSync.** `pool` and `mined` are the node; `rows` and `metas` the tables;
`snap`, `existing`, `todo` the cycle's snapshot, rows read and groups left; `cur`,
`left`, `found`, `last` the group in work. `BeginCycle` (getrawmempool) →
`ReadRows` → `Cleanup` → for each group, in any order, `PickGroup` → a lookup per
member (`LookupFinds`, `LookupSkips`), parents first → `CheckPackage`
(`NothingReported`, `StoreReported`, `StoreRefused`) → `Commit`. The node's
`Enter`, `ChainMoves` (blocks take transactions, a reorganisation brings some
back) and `Evict` happen between any two of them. `last` is the last
transaction in `hexes`, for it is its report, not that of the group's own
transaction, that `processTxGroup` stores. A package holds the direct parents only,
in the order `depends` happens to have (`GetMempoolTxIds`). What the spaces node
reports on it nobody in this repository can tell; `Complete`, which is external, is
all that the model assumes: it reports its last transaction if all unconfirmed
ancestors are in the package, none of them spends another, and none has been mined
meanwhile. On any other package (a lookup failed, or there is a grandparent, which
may be missing or come too late) either answer is possible.

`MempoolView` is what a front end may rely on: the explorer visits the mempool and
looks at it once, stops showing what was not in it, all at once, and only then
begins to show what was, one by one; between two visits nothing changes. `rows` is
its `view`, `snap` what it has `seen`, and it is `visiting` while a cycle runs:
`BeginCycle` is a look, the deletion a `Drop`, a commit a `Show`, the end of a cycle a
`Forget`, and every other step is a stutter.

**Snapshots.** `tip` is the chain the spaces node has connected; it determines
what the node answers (`Listing`, `Anchoring`). `rollouts`, `stored`, `anchored`
are the tables; `batch`, `rows`, `roots` the open transaction. A pass is `BeginPass`
→ `DeleteRollouts` → `GetRollOut` per batch (or `BadName`, the `log.Fatalf`) →
`CommitRollouts` → `GetRootAnchors` → `CommitRootAnchors` → `FetchBlock`, then the
same again if the block is past the activation height, then `StoreBlock` block by
block. `asked`, `shown` and `since` are history: the chain at each request, the
same for the batches the table holds, and the chain when the pass was last due to
bring the table up to date.

**Indexer.** `B` and `M` are instances of the two halves: `B` with the blocks as
unstorable that contain an unstorable transaction (`TxsOf`), `M` with
`mined <- Mined`, the transactions of the node's chain. Thus one move of the node
is a `NodeMoves` of `B` and a `ChainMoves` of `M` at once. `phase` says whose turn
it is; each action is a group of the halves' own actions with what `main` does
after them:

| `phase` | Action | Code |
|---|---|---|
| `blocks` | `BeginRound`, `PassGoesOn` | `pgx.Connect`, `syncBlocks` |
| `blocks` → `mempool` | `PassSucceeds` | `syncBlocks` returns nil |
| `blocks` → `blocks` | `PassErrs` | it returns an error of its own: log, close, sleep, `continue` (`AfterError`) |
| `mempool` | `BeginCycle`, `PickGroup`, `CycleGoesOn` | `syncMempool` |
| `mempool` → `blocks` | `CycleEnds` | it returns, with an error or without |
| → `down` → `blocks` | `PassFaulted`, `CycleFaulted`, `Recover` | a call fails, a deadline passes, the process dies; a later round connects again |

`tips` and `latest` are history: every block the node's chain ended in since the
round began, and the one it ended in when the pass last asked it what comes next
(`FetchHash`, `GetBlock`, `NothingToFetch`).
The deadline both halves share needs no variable: it is a fault that may strike
at any step of either.

**Populate.** `stored` are the blocks in the database and `synced` those whose
outputs `StoreBlock` inserted with the block; it may do so at any moment
(`BlockStored`). The database the service finds holds any set of blocks, with
outputs or without (stored under another activation height). `committed` and `pending` count how often this service
inserted each block's outputs, in whole or in part, in the table and in the open
transaction; `conn` is the connection (`idle`,
`open`, `aborted` after a statement that failed, `closed`); `deferred` says whether
the deferred `Rollback` still belongs to the open transaction, which is so until
the first `CommitBatch`. `Begin` on a connection that is in a transaction goes on
in it (PostgreSQL only warns); on one that failed it is an error after which pgx
closes the connection. Both are properties of the server and of pgx. A covenant
`StoreSpacesTransaction` does not know (`Unstorable`, `Refused`) is an error in the
program and none in the transaction, which stays usable, with what of the block
was inserted before it.

## 3. Runs

| Run | What it checks | What it shows |
|---|---|---|
| `sync_races` | `TypeOK` `BlocksComplete` `HeightsHonest` `PassInv` `NeverConflicts` `NoReinsertWhileActive` | with reorganisations, faults, unheard commits and a block that cannot be stored, also with switches to shorter branches with more work: no block is stored in part, no row has a wrong height, a pass never runs into the unique height index, nothing shown is inserted twice |
| `sync_mirror` | `ActiveChainLinked` `PassFollowsChain` `EndsSynced` `ImplementsMirror` `DemotesOnlyAbove` `DemotesOnlyStale` | while the node does not switch branches between the scan and the fetch of the next hash, and no pass ends between the two orphan statements, the blocks shown refine `ChainMirror`, a block both agree on is never taken off, and a pass that finds nothing more to store, commits the node's last block or meets one it cannot store has left just the blocks it can get to |
| `sync_converges` | `Converges` | from a fast-sync height on, with switches during the scan too: once the node stands still the blocks shown become exactly its chain, up to below the first block that cannot be stored, and stay so (that they are one linked chain, for every fast-sync height, is `ChainLinked` and `MirrorImplemented`) |
| `reorg_in_window` | violates `ActiveChainLinked` | finding 1 below |
| `crash_while_demoting` | violates `DemotesOnlyAbove` | finding 2 |
| `mempool_races` | `TypeOK` `NoClash` `OnlySnapshot` `CycleInv` `ImplementsView` | with the node moving, its chain too, and cycles cut short anywhere, a cycle never collides with its own earlier work, shows as unconfirmed only what one snapshot held, and the list refines `MempoolView` |
| `mempool_calm` | `RowsComplete` `MetasOnce` `NothingMissed` | while lookups find what the snapshot names and no reorganisation falls into a cycle: a row whose group goes back no further than its direct parents comes with its spaces outputs and keeps them, no outputs are stored twice, also those of groups that go back further, and nothing in the snapshot is lost on the way, whatever is cut short |
| `mempool_parent_twice` | violates `MetasOnce` | finding 3 |
| `populate_attempts` | `TypeOK` `DoneComplete` `AddsFromBelow` `EarlyFailureLeavesNothing` `FinishesOrLoses` | success means completeness, with what the sync service stores meanwhile; the service never adds to a block more than to those below it; it comes to an end unless the one connection is lost, or it comes again and again to a block that cannot be stored |
| `populate_retry` | violates `PopulatedOnce` | finding 4 |
| `snapshots` | `TypeOK` `RolloutsWhole` `StoredOnFresh` `FreshIfStill` `NeverOlder` `FreshInTheEnd` `AnchorsArrive` | with blocks connected between any two requests and passes cut short anywhere: the table of rollouts is one run through the requests, each batch whole, never older than before; no block is stored by a pass that did not bring it up to date; a pass on a node that has not moved leaves just what the node lists and the anchors it keeps; in the end rollouts and anchors are the node's, unless it lists a name that ends the process |
| `indexer` | `FreshTip` `OneStatus` `NoHoles` `FreshChain` `HiddenOnlyLate` `TipIndexed` `Settles` | with reorganisations, evictions and faults in either half: the blocks shown have no hole; when the mempool's turn comes, after a round on one chain, they are exactly the chain the node had when the pass last asked it; in such a round no transaction is listed both under a block and as unconfirmed, and what is taken off the unconfirmed list is under a block already if it is in that chain; once the node stands still its last block is shown and the unconfirmed list is its mempool, unless a block cannot be stored |

`OneStatus`, `HiddenOnlyLate` and `FreshChain` speak of rounds during which the node did
not leave a block (`OneChain`) and of tables whose blocks hang together
(`ActiveChainLinked`: finding 1 breaks it). In the other rounds a transaction may
be in both lists or in none until the next good round; after an error of the
block half, too, the table of unconfirmed transactions is simply as old as the
last cycle.

No run says that a transaction is always in one of the two lists, for it is not.
The pass asks the node a last time what comes next, and `syncMempool` asks it for
the mempool later. A block that comes in between takes its transactions out of
the snapshot, so the cleanup deletes their rows, and no block on the explorer has
them before the next round. `HiddenOnlyLate` says that nothing else hides a mined
transaction, `FreshChain` that the next good round lists it.

The preconditions of `sync_mirror` and `mempool_calm` are not there to make the
properties true cheaply: each marks off exactly the steps the violation runs
show to matter. Every other interleaving and every other fault remains.

Deadlock is checked everywhere but in the populate runs, whose `main` returns.
Every property of a passing run has a mutant in `PROJECT.json`, a plausible bug in
one definition that makes the run fail.

## 4. Bounds, and why they are enough

*Block trees* (`MCBlockSync`): heights up to `Top` = 5 on three
branches, two of which share a prefix of two blocks and one of which leaves at
the first. This is the smallest shape in which a branch can be left, another one
indexed, a third taken, and the first come back, at different fork heights, and
with several blocks to demote and to store in one pass. Work equals height, so
that branches overtake each other at every height, but in `sync_races` branch b
has twice the work, so that it is preferred while it is shorter.
`sync_converges` leaves branch b out, because its fork lies below the fast-sync
height (see 7). The activation height 2 puts blocks on both sides of it.
One block of a branch is unstorable in `sync_races` (b3), `sync_mirror` and
`sync_converges` (c4), so that the service can get stuck below it and be freed
by a switch.
The tree bounds the node's moves; nothing bounds the passes, and `metaCopies` is
finite because each copy needs another move of the node.

*Mempool* (`MCMempoolSync`): four transactions. In `mempool_races` b spends a, and c
both of them, so a group may hold a grandparent; a changes no space. In
`mempool_calm` c spends b alone and all change spaces, so the group of c lacks its
grandparent a as long as that is unconfirmed, and has all it needs once a block
took a. One transaction (u) cannot be stored. `metas` counts up to `Many` = 2,
which tells "once" from "more". The counterexample uses two of them.

*Rollouts and anchors* (`MCSnapshots`): two batches for the code's ten, which is
enough for a name to move from one to the other between the two requests, and so
to be met twice or never; two branches, one with a name that ends the process;
anchors of blocks that are stored before and after them. The spaces node's work
only grows: that it goes back (a restored node) is not modelled.

*Composition* (`MCIndexer`): two branches of two and three blocks, three
transactions, of which one is mined on both branches at different heights, one
spends it and is mined on one branch only, and one cannot be stored, nor can its
block. So a transaction can be unconfirmed, mined, back, and mined again, with the
blocks ahead or behind at each step.

*Populate*: heights 1 to 4 and `Batch` = 2 for the code's 10, so that a range may
have a commit in the middle and end with a batch or within one; blocks are stored
in any order meanwhile. In `populate_attempts` the last one cannot be stored, so
that an attempt may come to it after a commit and with another block in the open
transaction, or end below it; `populate_retry` has none such. Counts stop at `Many`
= 3: enough to tell one copy, the copies of a retry, and a difference of one
between neighbours at every level.

The proofs of section 6 have none of these bounds but `Many`.

## 5. Fairness

`BlockSync`, `Snapshots`, `Populate`: weak fairness of the first step of a pass or
attempt, for `main` is an endless loop. Strong fairness of the steps inside: a
fault or a deadline may strike any pass, and a pass that is cut short takes the
steps from the start, so a step is not enabled continuously but again and again;
the assumption is that no fault strikes one and the same step for ever. It is
stated per step, and where a step stands for many (a height of the scan, a block
of the range, a batch) per height or batch. A step only the code's own refusal can
replace (`StoreRefused`, `BadName`, `Refused` of `Populate`) needs no more than weak
fairness, and nothing is assumed to insert a block that cannot be stored. Nothing is
assumed of the nodes: they may stop at any time, and their actions have none.
`Snapshots` has `GetSyncedHead` as part of one step: its liveness properties take for
granted that passes get past it in the end, which `Converges` checks.

`Indexer` is too large for a strong-fairness condition per step (each multiplies
the work of TLC's liveness check), and needs none: its liveness properties begin
with `Quiet`, that from some moment on the node stands still and no fault strikes
any more, and under it weak fairness of the service as a whole is enough. `Quiet`
is a premise and no assumption on behaviours: before that moment faults and
reorganisations are unrestricted. Only `PickGroup(t)` is strongly fair for each t,
because the groups come in the order of a Go map, which is random in each cycle:
without this a group that cannot be stored could always come first.

A block that cannot be stored is not assumed away: `Converges`, `TipIndexed` and
`Settles` say how far the service gets then.

## 6. Proofs

All theorems hold for every block tree, height, set of transactions, batch size,
and so on, under the assumptions named in the modules: `TreeAssumption` (the
constants form a tree and work grows along each path), `SyncAssumption`,
`MempoolAssumption`, `SnapshotsAssumption`, `PopulateAssumption` (types, and
sentinels that differ from what they stand beside), and `IndexerAssumption` (those
of the two halves, and a chain that mines a transaction mines what it spends).

| Module | Theorems |
|---|---|
| `BlockTree_proofs` | lemmas on root paths: a path is closed under parents, has one block per height, and so on |
| `BlockSync_proofs` | `TypeCorrect`, `BlocksAreComplete`, `HeightsAreHonest`, `PassInvHolds`, `NoConflict`, and the action property `NoReinsert`: for every choice of `ReorgPoints` and `FaultPoints` |
| `BlockMirror_proofs` | `ChainLinked`, `FollowsChain`, `MirrorImplemented` (`Spec => Mirror!Spec`) and `PassEndsSynced`, where no switch falls into the window and no pass ends between the orphan statements; `OnlyStaleDemoted`, where no switch falls into the scan either; `NoHeightMissing` and the action property `OnlyAboveDemoted` for switches anywhere, where no pass ends between the orphan statements |
| `ChainMirror_proofs` | `MirrorIsOnePath`: what the abstract specification promises, and with it the explorer's view, is one path without gaps or competing blocks |
| `MempoolSync_proofs` | `TypeCorrect`, `NoCycleClashes`, `ShowsOneSnapshot`, `CycleInvHolds` and `ViewImplemented` (`Spec => View!Spec`) for every node and every fault; and the action property `RowsAreComplete`, `MetasStoredOnce`, `PackagesComplete`, `NoneIsMissed` while lookups succeed |
| `Snapshots_proofs` | `TypeCorrect`, `RolloutsAreWhole`, `StoresOnFresh`, `StillIsFresh`, and the action property `RolloutsNeverOlder`: for every tree, listing and number of batches |
| `Indexer_proofs` | `RunsBlockSync` (`Spec => B!Spec`), `RunsMempoolSync` (`Spec => M!Spec`), `HalvesHold`; `TipsAreFresh`, `ChainIsFresh`, `NoHolesShown`, `StatusIsOne`, and the action property `OnlyLateHidden`, with faults anywhere but between the two orphan statements; the refinements for the service as a whole, `ServiceMirrors` and `ServiceViews`, and `ServiceListsWhole`, each where the half has it |
| `Populate_proofs` | `TypeCorrect`, `SuccessIsComplete`, `AlwaysAddsFromBelow`, `EarlyFailuresAreClean` |

The inductive invariants, and why they are needed:

- *BlockSync*, `IInv`: the properties speak of the tables, but whether a store
  collides depends on what the pass found out many calls ago. `PassInv` says what
  each step may take for granted however the node moved and wherever the pass
  before was cut short: nothing is left above the synced height, each block goes
  on top of all others, an open transaction holds all that belongs to its block.
- *BlockMirror*, `LInv`: without a switch in the window the synced block stays
  on the node's chain until the hash above it is known (`PassFollowsChain`), so a
  block comes with its parent. The refinement maps `MarkOrphans` to a stutter,
  `DemoteOrphans` to `CutBack`, commits to `Start` or `Grow`.
- *BlockMirror*, `EInv`: what a pass ends with depends on what earlier ones left. It
  adds to `LInv` that the blocks shown have one height each and are all storable;
  then the linked chain below the block in work is all that is shown
  (`ShownUnderBlk`), and it is `Reachable` when no block comes after it.
- *BlockMirror*, `HeightsInv`: a switch in the window breaks the links
  (finding 1), so whatever is to hold there cannot follow from them. It keeps of
  `LInv` only the heights: each block shown stands one above another one, a scan
  and a demotion leave one at the synced height, and the block in work goes on top.
  It needs no assumption on the node, only that no pass ends between the two orphan
  statements. `OnlyAboveDemoted` follows from it too.
- *MempoolSync*, `MInv`: the filter uses rows read before the cleanup, so
  `NoClash` needs that a cycle's groups are disjoint from all it stored since.
  `CInv` adds, for a calm node, that a package always holds all of its group and
  nothing else, and ends in the group's own transaction (`PackageInv`); when the
  group goes back no further than direct parents, that is what `Complete` asks.
  `RowsAreComplete` is then a statement about the two steps that insert rows
  (`ApplyAdds`). The refinement needs of `MInv` that what is committed is in the
  snapshot and all rows are (`OnlySnapshot`). For `NoneIsMissed` the filter's other
  direction counts: what is neither filtered out nor stored is still to come.
- *BlockMirror*, `PassedIsStale`: that a block both agree on is not taken off needs, while
  the scan goes down, that every height it has passed holds a block the node has
  left for good, which is so as long as the node only extends its chain.
- *Snapshots*, `IInv`: that the table is one run is about the commit, but a run is
  made of many requests. `PastInv` says that what the open run asked so far is in
  order and no older than what the table shows, `AskInv` that the open rows are
  those answers, `DoneInv` what a run that is through leaves for the steps after
  it. `RecentInv` follows, for `StillIsFresh`, every answer back to the moment the
  pass was due: each was given on the block the node had then or on one with more
  work, so if the node's last block is that very one, each is its answer.
- *Indexer*. The halves' theorems are not proved again: `Indexer_proofs` takes
  instances of their proof modules, shows that each step of the service is a step
  or a stutter of each half (`BlockSteps`, `CycleSteps`; the latter needs
  `TipsInv`: the mempool holds nothing that is mined), and so inherits their
  inductive invariants (`PartsInv`). On top of them, `ShownInv` says that the
  shown blocks have one height each, and `FreshInv` follows a round on one chain:
  the synced block is on the node's chain, so is every block fetched, and when one
  has no successor it is the block the node ended in at that request (`latest`); so a
  pass that ends without an error leaves it as the highest block shown, and what the
  cycle's snapshot holds is not mined below it. `StatusIsOne` and `OnlyLateHidden` then follow
  from `ShownIsOneChain`: linked blocks with one height each are the chain of the
  highest. With `FreshShows`, which says that all of that chain is there, it gives
  `ChainIsFresh` as well. `ServiceMirrors`, `ServiceViews`, `NoHolesShown` and
  `ServiceListsWhole` are theorems of the halves that need nothing of the order.
- *Populate*, `IInv`: `AddsFromBelow` is about what is committed, but an
  attempt inserts on top of what earlier ones left open. `AttemptInv` speaks of
  the total, committed or not: what the attempt has passed is one copy ahead of
  what it has not, so even a part of a block that is refused and stays in the open
  transaction is no more than there is below it (`InsertedTotals`). For
  `DoneComplete` the blocks above the end of an attempt count as well: they were
  stored, with their outputs, after the end was read (`EndInv`).

Only model-checked: the liveness properties (`Converges`, `FreshInTheEnd`,
`AnchorsArrive`, `TipIndexed`, `Settles`, `FinishesOrLoses`). Liveness under
fairness and `ENABLED` are out of the prover's reach, and so is induction over
data: the root paths of the tree are constants with their defining equations
rather than a recursive function, and the MC modules, which compute them, hold no
theorem. Every other property of a passing run is a theorem. Of the liveness
properties the part that is safety is proved: where a pass ends the blocks are
those `Converges` speaks of (`PassEndsSynced`, `ChainIsFresh`), a pass on a node
that stands still leaves the rollouts and anchors of `FreshInTheEnd` and
`AnchorsArrive` (`StillIsFresh`), and a cycle that gets through leaves the list of
`Settles` (`NoneIsMissed`). What TLC adds is that passes and cycles do get there.

## 7. Disagreements and known behaviour

Findings (each is a counterexample of a run):

1. `reorg_in_window`. `GetSyncedHead` compares hashes at height h; `syncBlocks`
   asks for h + 1 after it fetched rollouts and anchors, and never compares
   `previousblockhash`. If the node switches branches in between, the new
   branch's block is put on the old branch, and later scans match at the top: the
   split below is never found, against `store.go:354-355`.
2. `crash_while_demoting`. The two orphan statements are two transactions. If a
   pass ends between them and the node returns to the branch it left, the next
   pass demotes rows at or below its synced height, against `store.go:378`.
3. `mempool_parent_twice`. If the lookup of a group's own transaction fails, the
   package ends in a parent, and the parent's outputs are inserted again, against
   `mempool.go:147` and `mempool.go:161`.
4. `populate_retry`. A retry starts from the activation height though earlier
   batches are committed, against "tracking sync progress" (`populate.go:78`).

Behaviour met on the way that no comment denies:

- The spaces outputs of a block that was an orphan and comes back are inserted
  again: unlike its transactions they are not guarded by `wasInserted`
  (`store.go:271`, `store.go:412`). `NoReinsertWhileActive` says this is the only
  case.
- If a pass ends between the two orphan statements (finding 2), the rows demoted
  later may leave a height without a row; a scan that comes down to it fails with
  `ErrNoRows` (`store.go:367`) on every pass from then on. `TipIndexed` and
  `FreshTip` are therefore checked and proved without a fault at that step.
  `NoHeightMissing` proves that this is the only way: without it no height from
  the first indexed one on is ever left out, wherever the node switches branches.
- A block with an unknown covenant (`store.go:92`) stops the block half below it,
  and since an error leaves out the mempool half, the list of unconfirmed
  transactions stands still too, until the node leaves that block (`Converges`,
  `Settles`).
- `GetMempoolTxIds` puts a transaction's direct `depends` into its group and no
  grandparents (`bitcoin.go:111-120`). So the third transaction of an unconfirmed
  chain goes to `CheckPackage` without the first one, or with it in the wrong place,
  and may be stored without its spaces outputs though every lookup succeeds. Its
  row is then not looked at again while the node keeps it (`mempool.go:56`).
  `RowsComplete` therefore speaks of groups without grandparents.
- A block that is connected after the pass's last request to the node and before
  `getrawmempool` (`mempool.go:19`) leaves its transactions in neither list until the
  next round (see 3).
- A reorganisation in the middle of a mempool cycle may take away what a package
  spends: its outputs are then not reported and its row, which has none, is not
  looked at again while the node keeps the transaction. `mempool_calm` leaves
  that step out.
- Rollouts are ten requests: a name may be in two batches or in none until the
  next pass (`RolloutsWhole` says that no other mixture is possible). They are
  brought up to date before the first block a pass stores, not before each.
- Root anchors are written before the blocks of the pass, so a new block gets its
  anchor in the next pass (`AnchorsArrive`); an orphan that comes back keeps the
  anchor it had.
- With fast sync, a reorganisation below the first indexed height makes every
  later scan end in a missing row (`store.go:366`).
- After a switch to a branch with more work and fewer blocks the scan fails
  ("Block height out of range", `store.go:371`) until that branch is as long as
  the old one. `sync_races` covers its safety.
- A statement of the populate service that fails after the first commit leaves a
  failed transaction behind; the next `Begin` closes the connection, and `main`
  retries on it for ever.
- A block with an unknown covenant makes the populate service fail on every attempt
  (`populate.go:119-122`). The connection stays usable, so `main` retries for ever,
  and every attempt commits another copy of the whole batches below, and, once the
  next attempt has gone on in it, of what the transaction left open held.
  `FinishesOrLoses` says that this and a lost connection are the only ways not to
  finish.
- `StoreBlock` inserts the outputs of every block from the activation height on
  (`store.go:412-421`), and the populate service inserts them again when it comes to
  such a block: no key of `vmetaouts` refuses the copy. With a fast-sync height above
  the activation height, as `env.example` has for testnet4 (54000 and 50000), that is
  every block above the fast-sync height, and their outputs are in the table while
  those of the blocks under it are not, nor are these blocks. `AddsFromBelow` therefore
  speaks of the copies the service adds itself.

## 8. What is not modelled

- The backfill service: it calls `GetSyncedHead` without a context
  (`backfill.go:75`) and `store.UpdateTxSpenders` (`backfill.go:137`), which does
  not exist, so it does not compile.
- Values: hex, amounts, names, covenant fields. They do not influence control,
  but for an unknown covenant, which `BlockSync`, `MempoolSync` and `Populate`
  have. Each conversion copies one field; none is read again by a program here, so
  that even the one that changes a value (a locktime from 2^31 on becomes
  negative, `store.go:337`) has no effect a state machine could show.
- HTTP and JSON; statements and requests nothing calls; the formats of queries of
  the front end, which is another repository; configuration and deployment.
- In `Indexer`, rollouts and anchors: they are separate tables, and their steps are
  faults there as in `BlockSync`.
- The populate service beside the sync service: they share no lock and no
  transaction, and `BlockStored` of `Populate` is all that the one sees of the
  other. It stores blocks in any order, which allows all the orders there are.
- Reorganisations during a run of the populate service: a height stands for its
  block there.
- Two instances of one service on one database: nothing in the code or its
  deployment files starts two.

## 9. Plan

Done, in this order: `BlockTree`, `BlockSync`, its MC module and safety runs;
`ChainMirror` and the refinement; liveness; `MempoolSync`; `Populate`; the proofs
of each after its runs; `Snapshots` with its proofs; unstorable blocks in
`BlockSync` and reorganisations in `MempoolSync`; `Indexer`, with `TipIndexed` and
`Settles` moved there from the halves, and its proofs; `MempoolView` and the
refinement of it; what passes, rounds and cycles end with, heights without holes,
and both refinements for the service as a whole.

What could follow if the code grows: the backfill service once it compiles (it
would store blocks below the others, which is what `PassInv` of `BlockSync`
excludes today); and, if the two orphan statements become one transaction, the
runs without a fault between them can allow it.
