----------------------------- MODULE MempoolSync -----------------------------
(***************************************************************************)
(* The mempool half of the sync service (cmd/sync/mempool.go, the mempool  *)
(* statements of pkg/db/transactions.sql.go, GetMempoolTxIds of            *)
(* pkg/node/bitcoin.go).                                                   *)
(*                                                                         *)
(* A cycle takes one snapshot of the node's mempool, deletes the rows that *)
(* are not in it and then stores, each in a database transaction of its    *)
(* own, the transactions that had no row.  For each it asks the bitcoin    *)
(* node for the transaction and its unconfirmed parents, and the spaces    *)
(* node for what the last transaction of that package does to spaces.      *)
(* Meanwhile the node's mempool moves on, and a cycle may be cut short.    *)
(*                                                                         *)
(* Simplifications.  A row is its txid; a row's spaces outputs are one     *)
(* number, how often they were inserted, counted up to Many.  Of the       *)
(* spaces node the model assumes little (Complete): a package holds the    *)
(* direct parents only, in any order, so what it reports on one that goes  *)
(* back further is left open.                                              *)
(***************************************************************************)
EXTENDS Integers, FiniteSets

CONSTANTS
  Txs,           \* the transactions
  NoTx,          \* none of them
  Depends,       \* the transactions each one spends outputs of
  Spaces,        \* those that change spaces
  Unstorable,    \* those with a covenant StoreSpacesTransaction does not know
  TxIndex,       \* the node finds a transaction that was mined
  SpacesBehind,  \* the spaces node may lack blocks the bitcoin node has
  LookupErrors,  \* a lookup may fail though the node has the transaction
  EvictPoints,   \* where in a cycle the node may drop transactions
  ReorgPoints,   \* where in a cycle it may switch branches
  FaultPoints    \* where a cycle may be cut short

Points == {"idle", "read", "clean", "pick", "lookup", "check", "commit"}

ASSUME MempoolAssumption ==
  /\ NoTx \notin Txs
  /\ Depends \in [Txs -> SUBSET Txs]
  /\ \A t \in Txs : t \notin Depends[t]
  /\ Spaces \subseteq Txs
  /\ Unstorable \subseteq Spaces
  /\ TxIndex \in BOOLEAN
  /\ SpacesBehind \in BOOLEAN
  /\ LookupErrors \in BOOLEAN
  /\ EvictPoints \subseteq Points
  /\ ReorgPoints \subseteq Points
  /\ FaultPoints \subseteq Points \ {"idle"}

VARIABLES
  pool,      \* the node's mempool
  mined,     \* the transactions in the node's chain
  rows,      \* the txids in table transactions with the mempool's block hash
  metas,     \* how often their outputs are in vmetaouts, with that hash
  pc,        \* where the cycle is
  snap,      \* nodeMempoolTxs
  existing,  \* existingTxMap
  todo,      \* the groups of groupsToProcess that are left, by last txid
  cur,       \* the last txid of the group in process
  left,      \* its parents that were not looked up yet
  found,     \* the transactions of the group in hexes
  last       \* the last one in hexes; later, whose outputs are to be stored

node   == <<pool, mined>>
tables == <<rows, metas>>
local  == <<pc, snap, existing, todo, cur, left, found, last>>
vars   == <<node, tables, local>>

\* metas counts no further than this.
Many == 2
OneMore(n) == IF n < Many THEN n + 1 ELSE Many

\* getrawtransaction finds t.
Known(t) == t \in pool \/ (TxIndex /\ t \in mined)

\* What the spaces node has certainly seen in blocks.
InChain == IF SpacesBehind THEN {} ELSE mined

\* A package the spaces node is assumed to understand, in whatever order the
\* parents are in it: they are all there and spend nothing that is itself
\* unconfirmed, and no member was mined meanwhile.  Then it reports t, the last,
\* if t is about spaces.  Of any other package it may report t or not.
Complete(t) ==
  /\ found \cap mined = {}
  /\ \A d \in Depends[t] \ InChain : d \in found /\ Depends[d] \subseteq InChain

\* vmetaouts refers to transactions: t has a row, or is inserted with it.
HasRow(t) == t \in rows \/ (t = cur /\ t \in found)

\* Mutant of ToProcess: the groups are not filtered.
ToProcessAll(known) == snap

\* The groups whose last transaction had no row when the rows were read.
ToProcess(known) == snap \ known

-----------------------------------------------------------------------------

Init ==
  /\ pool = {} /\ mined = {}
  /\ rows = {}
  /\ metas = [t \in Txs |-> 0]
  /\ pc = "idle"
  /\ snap = {} /\ existing = {} /\ todo = {}
  /\ cur = NoTx
  /\ left = {} /\ found = {}
  /\ last = NoTx

(***************************************************************************)
(* The node: transactions enter after what they depend on, some are        *)
(* dropped or replaced with all that depends on them, and the chain moves: *)
(* blocks take some, also unseen ones, and at a switch of branches those   *)
(* of the old branch that are not on the new one come back.                *)
(***************************************************************************)
Enter(t) ==
  /\ t \notin pool \cup mined
  /\ Depends[t] \subseteq pool \cup mined
  /\ pool' = pool \cup {t}
  /\ UNCHANGED <<mined, tables, local>>

ChainMoves ==
  /\ \E T \in (SUBSET Txs) \ {mined} :
       /\ \A t \in T : Depends[t] \subseteq T
       /\ mined \subseteq T \/ pc \in ReorgPoints
       /\ mined' = T
  /\ pool' = (pool \cup mined) \ mined'
  /\ UNCHANGED <<tables, local>>

Evict(t) ==
  /\ pc \in EvictPoints
  /\ t \in pool
  /\ \A u \in pool : t \notin Depends[u]
  /\ pool' = pool \ {t}
  /\ UNCHANGED <<mined, tables, local>>

NodeMoves == ChainMoves \/ \E t \in Txs : Enter(t) \/ Evict(t)

\* syncMempool returns; what it held in memory and did not commit is gone.
EndCycle ==
  /\ pc' = "idle"
  /\ snap' = {} /\ existing' = {} /\ todo' = {}
  /\ cur' = NoTx
  /\ left' = {} /\ found' = {}
  /\ last' = NoTx

\* main calls syncMempool: getrawmempool, one reply with txids and depends.
BeginCycle ==
  /\ pc = "idle"
  /\ snap' = pool
  /\ pc' = "read"
  /\ UNCHANGED <<node, tables, existing, todo, cur, left, found, last>>

\* GetMempoolTxids.
ReadRows ==
  /\ pc = "read"
  /\ existing' = rows
  /\ pc' = "clean"
  /\ UNCHANGED <<node, tables, snap, todo, cur, left, found, last>>

\* Mutants of Gone: the test for the snapshot is the wrong way round; nothing is
\* deleted.
GoneInBoth == existing \cap snap
NoneGone == {}

\* toDelete.
Gone == existing \ snap

\* The commit of cleanupMempoolTxs; the foreign key cascades to vmetaouts.
DeleteRows ==
  /\ rows' = rows \ Gone
  /\ metas' = [t \in Txs |-> IF t \in Gone THEN 0 ELSE metas[t]]

\* cleanupMempoolTxs, and the filter of the groups by what was read before it.
Cleanup ==
  /\ pc = "clean"
  /\ DeleteRows
  /\ todo' = ToProcess(existing)
  /\ pc' = "pick"
  /\ UNCHANGED <<node, snap, existing, cur, left, found, last>>

\* The rows are deleted but the answer is lost: the cycle sees an error.
CleanupUnanswered ==
  /\ pc = "clean"
  /\ "clean" \in FaultPoints
  /\ Gone # {}
  /\ DeleteRows
  /\ EndCycle
  /\ UNCHANGED node

(***************************************************************************)
(* The loop over the groups.  Their order is that of a Go map: any.        *)
(***************************************************************************)

\* Mutant of ParentsOf: the group is the transaction without its parents.
NoParents(t) == {}

\* The transactions of t's group before t: "depends" of getrawmempool.
ParentsOf(t) == Depends[t] \cap snap

PickGroup(t) ==
  /\ pc = "pick"
  /\ t \in todo
  /\ todo' = todo \ {t}
  /\ cur' = t
  /\ left' = ParentsOf(t)
  /\ pc' = "lookup"
  /\ UNCHANGED <<node, tables, snap, existing, found, last>>

NoGroupLeft ==
  /\ pc = "pick"
  /\ todo = {}
  /\ EndCycle
  /\ UNCHANGED <<node, tables>>

\* The next of the group's transactions: the parents first, cur at the end.
Upcoming(t) == t \in left \/ (left = {} /\ t = cur)

\* After the lookup of t the loop of processTxGroup goes on, or is done.
Advance(t) ==
  /\ left' = left \ {t}
  /\ pc' = IF t = cur THEN "check" ELSE "lookup"

\* GetTransaction answers.  The row of cur is inserted at once: its key is
\* (mempool's block hash, txid), a second row would be an error.
LookupFinds(t) ==
  /\ pc = "lookup"
  /\ Upcoming(t)
  /\ Known(t)
  /\ t = cur => t \notin rows
  /\ found' = found \cup {t}
  /\ last' = t
  /\ Advance(t)
  /\ UNCHANGED <<node, tables, snap, existing, todo, cur>>

\* GetTransaction fails: it is logged, and the transaction is left out.
LookupSkips(t) ==
  /\ pc = "lookup"
  /\ Upcoming(t)
  /\ ~Known(t) \/ LookupErrors
  /\ Advance(t)
  /\ UNCHANGED <<node, tables, snap, existing, todo, cur, found, last>>

Lookup == \E t \in Txs : LookupFinds(t) \/ LookupSkips(t)

\* CheckPackage has nothing to store: no hexes, or no report on the last one.
NothingReported ==
  /\ pc = "check"
  /\ \/ last = NoTx
     \/ last # NoTx /\ (last \notin Spaces \/ ~Complete(last))
  /\ last' = NoTx
  /\ pc' = "commit"
  /\ UNCHANGED <<node, tables, snap, existing, todo, cur, left, found>>

\* Mutant of Taken: any of the reported transactions.
AnyTaken == found

\* Whose outputs are stored: "the last metaTx since it's the dependent one".
Taken == {last}

\* StoreSpacesTransaction of the last transaction that CheckPackage reports.
StoreReported ==
  /\ pc = "check"
  /\ last \in Spaces \ Unstorable
  /\ HasRow(last)
  /\ last' \in Taken
  /\ pc' = "commit"
  /\ UNCHANGED <<node, tables, snap, existing, todo, cur, left, found>>

\* It refuses: an unknown covenant, or no row the outputs could refer to.
StoreRefused ==
  /\ pc = "check"
  /\ last \in Spaces
  /\ last \in Unstorable \/ ~HasRow(last)
  /\ EndCycle
  /\ UNCHANGED <<node, tables>>

\* What the COMMIT of a group does to the tables.
Apply ==
  /\ rows' = rows \cup ({cur} \cap found)
  /\ metas' = IF last = NoTx THEN metas
              ELSE [metas EXCEPT ![last] = OneMore(@)]

\* Mutant of NewGroup: hexes is not emptied for the next group.
SameGroup == UNCHANGED <<left, found, last>>

NewGroup == left' = {} /\ found' = {} /\ last' = NoTx

Commit ==
  /\ pc = "commit"
  /\ Apply
  /\ pc' = "pick"
  /\ cur' = NoTx
  /\ NewGroup
  /\ UNCHANGED <<node, snap, existing, todo>>

CommitUnanswered ==
  /\ pc = "commit"
  /\ "commit" \in FaultPoints
  /\ Apply
  /\ EndCycle
  /\ UNCHANGED node

\* An error return, the 30 seconds are over, or a crash.
Fail ==
  /\ pc \in FaultPoints
  /\ EndCycle
  /\ UNCHANGED <<node, tables>>

Prepare == BeginCycle \/ ReadRows \/ Cleanup
Check == NothingReported \/ StoreReported \/ StoreRefused
Group == (\E t \in Txs : PickGroup(t)) \/ NoGroupLeft \/ Lookup \/ Check \/ Commit

Next ==
  NodeMoves \/ Prepare \/ Group \/ CleanupUnanswered \/ CommitUnanswered \/ Fail

Spec == Init /\ [][Next]_vars

-----------------------------------------------------------------------------
(***************************************************************************)
(* Properties.                                                             *)
(***************************************************************************)

TypeOK ==
  /\ pool \subseteq Txs
  /\ mined \subseteq Txs
  /\ rows \subseteq Txs
  /\ metas \in [Txs -> 0..Many]
  /\ pc \in Points
  /\ snap \subseteq Txs
  /\ existing \subseteq Txs
  /\ todo \subseteq Txs
  /\ cur \in Txs \cup {NoTx}
  /\ cur # NoTx <=> pc \in {"lookup", "check", "commit"}
  /\ left \subseteq IF cur = NoTx THEN {} ELSE Depends[cur]
  /\ found \subseteq IF cur = NoTx THEN {} ELSE Depends[cur] \cup {cur}
  /\ last \in found \cup {NoTx}

\* The filter is applied once, with the rows read before the cleanup and before
\* any group was stored, by cycles that failed or committed unheard; still no
\* group left to process has a row, so the primary key of transactions never
\* refuses an insert and a cycle never fails on its own earlier work.
NoClash ==
  /\ todo \cap rows = {}
  /\ cur \notin todo
  /\ pc \in {"lookup", "check", "commit"} => cur \notin rows

\* After the cleanup the explorer shows as unconfirmed only what the node had at
\* one moment, the snapshot, however many groups were stored since.
OnlySnapshot ==
  pc \in {"pick", "lookup", "check", "commit"} =>
    /\ rows \cup todo \subseteq snap
    /\ cur # NoTx => cur \in snap

\* What each step of a cycle may take for granted whatever the node, the faults
\* and the cycles before did: the rows read are still the rows when the cleanup
\* starts, and outputs are stored only with, and for, a row that changes spaces.
CycleInv ==
  /\ pc = "clean" => existing = rows
  /\ \A t \in Txs : metas[t] > 0 => t \in rows \cap Spaces
  /\ pc = "commit" /\ last # NoTx => last \in Spaces /\ HasRow(last)

\* The transactions listed as unconfirmed behave as the abstract view of the
\* node's mempool, wherever a cycle is cut short and whatever the node does: no
\* row is deleted that the snapshot has, and none is added that it has not, or
\* while a row is left that it has not; and between cycles nothing changes.
View == INSTANCE MempoolView WITH visiting <- (pc # "idle"), seen <- snap, view <- rows
ImplementsView == View!Spec

\* The group of t goes back no further than its direct parents, and nothing of
\* it has been mined since the snapshot.
Shallow(t) ==
  LET parents == Depends[t] \cap snap
  IN  /\ (parents \cup {t}) \cap mined = {}
      /\ \A d \in parents : Depends[d] \cap snap = {}

\* A row is not looked at again while the node keeps its transaction, so its
\* outputs must come with it, for a group that the spaces node can make sense
\* of; and they go only with it, through every cleanup, retry and later group.
RowsComplete ==
  [][\A t \in rows' \cap Spaces :
       (IF t \in rows THEN metas[t] > 0 ELSE Shallow(t)) => metas'[t] > 0]_vars

\* "Process the last metaTx since it's the dependent one" (processTxGroup): the
\* outputs stored for a group are those of the row the group inserts, so none
\* are stored twice.
MetasOnce == \A t \in Txs : metas[t] <= 1

\* None of the transactions in the snapshot is lost on the way: it has its row,
\* or its group is in process or still to come, and a cycle that gets through all
\* of them leaves as unconfirmed exactly what the node had.
NothingMissed ==
  pc \in {"pick", "lookup", "check", "commit"} =>
    rows \cup todo \cup ({cur} \ {NoTx}) = snap
=============================================================================
