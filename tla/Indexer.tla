------------------------------- MODULE Indexer -------------------------------
(***************************************************************************)
(* The sync service as a whole (cmd/sync/sync.go: main): its two halves,   *)
(* BlockSync and MempoolSync, take turns on one database and one node.     *)
(* A round is a pass of the block half and then, if that returned no       *)
(* error, a cycle of the mempool half; after an error the next round       *)
(* begins with the blocks.                                                 *)
(*                                                                         *)
(* The node's chain decides what is mined: the transactions of its blocks  *)
(* leave the mempool, and those of abandoned blocks return to it.  A block *)
(* is unstorable if one of its transactions is.                            *)
(***************************************************************************)
EXTENDS BlockTree

CONSTANTS
  Deadbeef, NoBlock, ActivationHeight, FastSyncHeight,  \* as in BlockSync
  NoTx, Txs, Depends, Spaces, Unstorable,               \* as in MempoolSync
  TxIndex, SpacesBehind, LookupErrors, EvictPoints,
  TxsOf,         \* the transactions of each block
  PassReorgs,    \* where in a pass the node may switch branches
  CycleReorgs,   \* where in a cycle
  PassFaults,    \* where a pass may be cut short
  CycleFaults    \* where a cycle may

\* The transactions of the chain that ends in b.
MinedIn(b) == UNION {TxsOf[c] : c \in Ancestors[b]}

VARIABLES
  tip, pool,                                  \* the node
  dbHeight, orphans, txRows, metaCopies,      \* the tables of BlockSync
  bpc, head, blk, nxt, txn,                   \* where its pass is
  rows, metas,                                \* the tables of MempoolSync
  mpc, snap, existing, todo, cur, left, found, last,  \* where its cycle is
  phase,   \* the half whose turn it is, or "down" after a fault
  tips,    \* history: the last blocks of the node's chain during this round
  latest   \* history: the last one when the pass last asked what comes next

pass  == <<dbHeight, orphans, txRows, metaCopies, bpc, head, blk, nxt, txn>>
cycle == <<rows, metas, mpc, snap, existing, todo, cur, left, found, last>>
round == <<phase, tips, latest>>
vars  == <<tip, pool, pass, cycle, round>>

Mined == MinedIn(tip)

B == INSTANCE BlockSync WITH
       pc <- bpc, ReorgPoints <- PassReorgs, FaultPoints <- PassFaults,
       Unstorable <- {b \in Blocks : TxsOf[b] \cap Unstorable # {}}

M == INSTANCE MempoolSync WITH
       pc <- mpc, ReorgPoints <- CycleReorgs, FaultPoints <- CycleFaults,
       mined <- Mined

ASSUME IndexerAssumption ==
  /\ B!SyncAssumption /\ M!MempoolAssumption
  /\ TxsOf \in [Blocks -> SUBSET Txs]
  /\ \A b \in Blocks : \A t \in MinedIn(b) : Depends[t] \subseteq MinedIn(b)

\* What the explorer lists under its blocks, and what as unconfirmed.
Confirmed == UNION {TxsOf[b] : b \in B!Active \cap txRows}
Unconfirmed == rows

\* Mutant of AfterError: an error of the block half is only logged.
GoesOn == "mempool"

\* The half that is next after an error of the block half: continue.
AfterError == "blocks"

-----------------------------------------------------------------------------

Init ==
  /\ B!Init
  /\ M!Init
  /\ phase = "blocks"
  /\ tips = {} /\ latest = NoBlock

\* The node's chain moves, and with it the mempool.
ChainMoves ==
  /\ B!NodeMoves
  /\ Mined \subseteq Mined' \/ mpc \in CycleReorgs
  /\ pool' = (pool \cup Mined) \ Mined'
  /\ tips' = IF tips = {} THEN {} ELSE tips \cup {tip'}
  /\ UNCHANGED <<cycle, phase, latest>>

PoolMoves ==
  /\ UNCHANGED <<tip, pass, round>>
  /\ \E t \in Txs : M!Enter(t) \/ M!Evict(t)

\* main connects and calls syncBlocks.
BeginRound ==
  /\ phase = "blocks"
  /\ B!BeginPass
  /\ tips' = {tip} /\ latest' = NoBlock
  /\ UNCHANGED <<pool, cycle, phase>>

PassGoesOn ==
  /\ \/ /\ B!FetchHash \/ B!GetBlock
        /\ latest' = tip
     \/ /\ \/ B!ScanMatches \/ B!ScanDiffers \/ B!ScanExhausted
           \/ B!MarkOrphans \/ B!DemoteOrphans
           \/ B!StoreBitcoinBlock \/ B!StoreSpacesTransactions
           \/ nxt # NoBlock /\ B!Commit
        /\ UNCHANGED latest
  /\ UNCHANGED <<pool, cycle, phase, tips>>

\* syncBlocks returns no error, and main calls syncMempool.
PassSucceeds ==
  /\ \/ B!NothingToFetch /\ latest' = tip
     \/ nxt = NoBlock /\ B!Commit /\ UNCHANGED latest
  /\ phase' = "mempool"
  /\ UNCHANGED <<pool, cycle, tips>>

\* What was asked in a round that is over counts no more.
EndRound == tips' = {} /\ latest' = NoBlock

\* It returns one: log, close, sleep, continue.
PassErrs ==
  /\ B!ScanFails \/ B!StoreRefused
  /\ phase' = AfterError
  /\ EndRound
  /\ UNCHANGED <<pool, cycle>>

\* A call fails, the five minutes are over, or the process dies.
PassFaulted ==
  /\ B!CommitUnanswered \/ B!Fail
  /\ phase' = "down"
  /\ EndRound
  /\ UNCHANGED <<pool, cycle>>

BeginCycle ==
  /\ phase = "mempool"
  /\ UNCHANGED <<tip, pass, round>>
  /\ M!BeginCycle

PickGroup(t) ==
  /\ UNCHANGED <<tip, pass, round>>
  /\ M!PickGroup(t)

CycleGoesOn ==
  /\ UNCHANGED <<tip, pass, round>>
  /\ \/ M!ReadRows \/ M!Cleanup
     \/ M!Lookup \/ M!NothingReported \/ M!StoreReported
     \/ M!Commit

\* syncMempool returns, with an error or without: main begins anew.
CycleEnds ==
  /\ phase' = "blocks"
  /\ EndRound
  /\ UNCHANGED <<tip, pass>>
  /\ M!NoGroupLeft \/ M!StoreRefused

CycleFaulted ==
  /\ phase' = "down"
  /\ EndRound
  /\ UNCHANGED <<tip, pass>>
  /\ M!CleanupUnanswered \/ M!CommitUnanswered \/ M!Fail

\* main is started again, or gets a new connection in the end.
Recover ==
  /\ phase = "down"
  /\ phase' = AfterError
  /\ UNCHANGED <<tip, pool, pass, cycle, tips, latest>>

Service ==
  \/ BeginRound \/ PassGoesOn \/ PassSucceeds \/ PassErrs \/ Recover
  \/ BeginCycle \/ (\E t \in Txs : PickGroup(t)) \/ CycleGoesOn \/ CycleEnds

Fault == PassFaulted \/ CycleFaulted

Next == ChainMoves \/ PoolMoves \/ Service \/ Fault

Spec == Init /\ [][Next]_vars

(***************************************************************************)
(* main runs for ever, and the order of a Go map does not leave one and    *)
(* the same group to the last in every cycle.                              *)
(***************************************************************************)
Fairness == WF_vars(Service) /\ \A t \in Txs : SF_vars(PickGroup(t))

FairSpec == Spec /\ Fairness

-----------------------------------------------------------------------------
(***************************************************************************)
(* Properties.                                                             *)
(***************************************************************************)

\* The node did not leave a block during this round.
OneChain == \A s, t \in tips : s \in Ancestors[t] \/ t \in Ancestors[s]

\* When the mempool's turn comes the blocks are up to date: unless the node
\* switched branches since the round began, the highest block shown is the one
\* it ended in when the pass last asked it what comes next.
FreshTip ==
  phase = "mempool" /\ OneChain =>
    /\ latest \in tips
    /\ latest \in B!Active \/ Height[latest] <= FastSyncHeight
    /\ \A c \in B!Active : Height[c] <= Height[latest]

\* The blocks of the chain that ends in b, from the first indexed height on, and
\* their transactions.
Indexed(b) == {c \in Ancestors[b] : Height[c] > FastSyncHeight}
IndexedOf(b) == UNION {TxsOf[c] : c \in Indexed(b)}

\* From the cleanup to the end of such a round no transaction is listed both
\* under a block and as unconfirmed, or about to be: neither table refers to
\* the other, only the order of the two halves keeps them apart.
OneStatus ==
  mpc \in {"pick", "lookup", "check", "commit"} /\ OneChain /\ B!ActiveChainLinked =>
    Confirmed \cap (Unconfirmed \cup todo) = {}

\* What a round takes off the unconfirmed list is under a block already if the
\* pass could know that block: a transaction that is in neither list then was
\* taken by a block that came after the pass's last request to the node, before
\* getrawmempool, or has left the node.  The next round lists it: FreshChain.
HiddenOnlyLate ==
  [][\A t \in rows \ rows' :
       OneChain /\ B!ActiveChainLinked
         => t \in Confirmed \/ (latest \in tips /\ t \notin IndexedOf(latest))]_vars

\* Wherever the node switches branches, the blocks shown have no hole.
NoHoles == B!HeightsWhole

\* What a round without a switch leaves on the explorer is one chain, whole from
\* the first indexed height on, and no other block: the chain the node had when
\* the pass last asked it what comes next.
FreshChain ==
  phase = "mempool" /\ OneChain /\ B!ActiveChainLinked =>
    latest \in tips /\ B!Active = Indexed(latest)

\* The node stands still and no fault strikes any more.
Quiet == <>[][~Fault /\ UNCHANGED <<tip, pool>>]_vars

\* The node's chain can be stored from the first indexed height on.
ChainStorable ==
  \A b \in Ancestors[tip] : Height[b] > FastSyncHeight => B!Storable(b)

\* Then the node's last block is shown in the end, whatever reorganisations and
\* faults the passes before have met, unless a block below cannot be stored.
TipIndexed ==
  Quiet => <>[](ChainStorable /\ Height[tip] > FastSyncHeight => tip \in B!Active)

\* And what is listed as unconfirmed becomes the node's mempool: the block half
\* lets the other one have its turn.  What cannot be stored is listed only if its
\* row was stored without outputs, at a time when the spaces node did not report it.
Settles ==
  Quiet => <>[](ChainStorable =>
                  Unconfirmed \subseteq pool /\ pool \ Unstorable \subseteq Unconfirmed)
=============================================================================
