--------------------------- MODULE Indexer_proofs ---------------------------
(***************************************************************************)
(* The sync service as a whole implements each of its halves, so that all  *)
(* that is proved of them holds of it; and what only the order of the two  *)
(* halves can ensure, for every tree of blocks and every mempool.          *)
(*                                                                         *)
(* What is proved of the halves is taken from their proof modules, under   *)
(* the substitutions of module Indexer.                                    *)
(***************************************************************************)
EXTENDS Indexer, BlockTree_proofs, TLAPS

BP == INSTANCE BlockMirror_proofs WITH
        pc <- bpc, ReorgPoints <- PassReorgs, FaultPoints <- PassFaults,
        Unstorable <- {b \in Blocks : TxsOf[b] \cap Unstorable # {}}

MP == INSTANCE MempoolSync_proofs WITH
        pc <- mpc, ReorgPoints <- CycleReorgs, FaultPoints <- CycleFaults,
        mined <- Mined

LEMMA Assumptions == BP!TreeAssumption /\ BP!SyncAssumption /\ MP!MempoolAssumption
<1>1. BP!TreeAssumption
  BY TreeAssumption DEF BP!TreeAssumption
<1>2. BP!SyncAssumption
  BY IndexerAssumption DEF BP!SyncAssumption, B!SyncAssumption, BP!Points, B!Points
<1>3. MP!MempoolAssumption
  BY IndexerAssumption
  DEF MP!MempoolAssumption, M!MempoolAssumption, MP!Points, M!Points
<1>. QED
  BY <1>1, <1>2, <1>3

(***************************************************************************)
(* The composition and its parts.                                          *)
(***************************************************************************)

\* A step of the mempool half leaves alone all the block half knows.
LEMMA BlockSteps == [Next]_vars => [B!Next]_(B!vars)
<1>. SUFFICES ASSUME [Next]_vars PROVE [B!Next]_(B!vars)
  OBVIOUS
<1>. USE DEF B!vars, B!node, B!tables, B!local, pass
<1>1. CASE ChainMoves
  BY <1>1 DEF ChainMoves, B!Next
<1>2. CASE PoolMoves
  BY <1>2 DEF PoolMoves
<1>3. CASE BeginRound
  BY <1>3 DEF BeginRound, B!Next, B!Head
<1>4. CASE PassGoesOn
  BY <1>4 DEF PassGoesOn, B!Next, B!Head, B!Scan, B!Load, B!StoreBlock
<1>5. CASE PassSucceeds
  BY <1>5 DEF PassSucceeds, B!Next, B!Load, B!StoreBlock
<1>6. CASE PassErrs
  BY <1>6 DEF PassErrs, B!Next, B!Head, B!Scan, B!StoreBlock
<1>7. CASE PassFaulted
  BY <1>7 DEF PassFaulted, B!Next
<1>8. CASE Recover
  BY <1>8 DEF Recover
<1>9. CASE \/ BeginCycle \/ (\E t \in Txs : PickGroup(t)) \/ CycleGoesOn
           \/ CycleEnds \/ CycleFaulted
  BY <1>9 DEF BeginCycle, PickGroup, CycleGoesOn, CycleEnds, CycleFaulted
<1>10. CASE UNCHANGED vars
  BY <1>10 DEF vars
<1>. QED
  BY <1>1, <1>2, <1>3, <1>4, <1>5, <1>6, <1>7, <1>8, <1>9, <1>10
  DEF Next, Service, Fault

\* The sync service is a block half to which nothing else is done.
THEOREM RunsBlockSync == Spec => B!Spec
<1>1. Init => B!Init
  BY DEF Init
<1>. QED
  BY <1>1, BlockSteps, PTL DEF Spec, B!Spec

\* Whose turn it is, and what the node's last blocks have in common.
TipsInv ==
  /\ tip \in Blocks /\ tips \subseteq Blocks
  /\ pool \cap Mined = {}
  /\ phase \in {"blocks", "mempool", "down"}
  /\ bpc # "idle" => phase = "blocks"
  /\ mpc # "idle" => phase = "mempool"
  /\ bpc # "idle" \/ phase = "mempool" => tip \in tips
  /\ \A t \in tips : Work[t] <= Work[tip]

LEMMA InitTips == Init => TipsInv
BY DEF Init, B!Init, M!Init, TipsInv

\* In the middle of a pass, and at its end, the same blocks are known.
LEMMA PassKeepsTips ==
  ASSUME TipsInv, bpc # "idle", tip' = tip,
         UNCHANGED <<pool, cycle>>, phase' \in {"blocks", "mempool", "down"},
         \/ tips' = tips /\ (bpc' = "idle" \/ phase' = "blocks")
         \/ tips' = {} /\ bpc' = "idle" /\ phase' # "mempool"
  PROVE  TipsInv'
BY DEF TipsInv, Mined, MinedIn, cycle

LEMMA CycleKeepsTips ==
  ASSUME TipsInv, UNCHANGED <<tip, pool, pass>>,
         phase' \in {"blocks", "mempool", "down"},
         \/ tips' = tips /\ (mpc' = "idle" \/ phase' = "mempool")
            /\ phase' = phase
         \/ tips' = {} /\ mpc' = "idle" /\ phase' # "mempool" /\ bpc = "idle"
  PROVE  TipsInv'
BY DEF TipsInv, Mined, MinedIn, pass

LEMMA StepTips == TipsInv /\ [Next]_vars => TipsInv'
<1>. SUFFICES ASSUME TipsInv, [Next]_vars PROVE TipsInv'
  OBVIOUS
<1>1. CASE ChainMoves
  <2>1. PICK b \in Blocks : Work[b] > Work[tip] /\ tip' = b
    BY <1>1 DEF ChainMoves, B!NodeMoves
  <2>2. /\ pool' \cap Mined' = {}
        /\ UNCHANGED <<phase, bpc, mpc>>
        /\ tips' = IF tips = {} THEN {} ELSE tips \cup {b}
    BY <1>1, <2>1 DEF ChainMoves, B!NodeMoves, B!local, cycle
  <2>3. \A t \in Blocks : Work[t] \in Nat
    BY TreeAssumption
  <2>4. \A t \in tips' : t \in Blocks /\ Work[t] <= Work[tip']
    BY <2>1, <2>2, <2>3 DEF TipsInv
  <2>. QED
    BY <2>1, <2>2, <2>4 DEF TipsInv
<1>2. CASE PoolMoves
  <2>1. UNCHANGED <<tip, bpc, mpc, phase, tips>> /\ Mined' = Mined
    BY <1>2 DEF PoolMoves, pass, round, M!Enter, M!Evict, M!local, Mined, MinedIn
  <2>2. pool' \cap Mined = {}
    BY <1>2 DEF PoolMoves, M!Enter, M!Evict, TipsInv
  <2>. QED
    BY <2>1, <2>2 DEF TipsInv
<1>3. CASE BeginRound
  <2>1. tip' = tip /\ tips' = {tip} /\ phase' = "blocks" /\ UNCHANGED <<pool, cycle>>
    BY <1>3 DEF BeginRound, B!BeginPass, B!node
  <2>2. Work[tip] <= Work[tip]
    BY TreeAssumption DEF TipsInv
  <2>. QED
    BY <1>3, <2>1, <2>2 DEF BeginRound, TipsInv, Mined, MinedIn, cycle
<1>4. CASE PassGoesOn
  <2>1. bpc # "idle" /\ tip' = tip
    BY <1>4 DEF PassGoesOn, B!ScanMatches, B!ScanDiffers, B!ScanExhausted,
      B!MarkOrphans, B!DemoteOrphans, B!FetchHash, B!GetBlock,
      B!StoreBitcoinBlock, B!StoreSpacesTransactions, B!Commit, B!node
  <2>2. UNCHANGED <<pool, cycle, phase, tips>>
    BY <1>4 DEF PassGoesOn
  <2>. QED
    BY <2>1, <2>2, PassKeepsTips DEF TipsInv
<1>5. CASE PassSucceeds
  <2>1. bpc # "idle" /\ tip' = tip /\ bpc' = "idle"
    BY <1>5 DEF PassSucceeds, B!NothingToFetch, B!Commit, B!EndPass, B!node
  <2>2. UNCHANGED <<pool, cycle, tips>> /\ phase' = "mempool"
    BY <1>5 DEF PassSucceeds
  <2>. QED
    BY <2>1, <2>2, PassKeepsTips
<1>6. CASE PassErrs
  <2>1. bpc # "idle" /\ tip' = tip /\ bpc' = "idle"
    BY <1>6 DEF PassErrs, B!ScanFails, B!StoreRefused, B!EndPass, B!node
  <2>2. UNCHANGED <<pool, cycle>> /\ tips' = {} /\ phase' = "blocks"
    BY <1>6 DEF PassErrs, EndRound, AfterError
  <2>. QED
    BY <2>1, <2>2, PassKeepsTips
<1>7. CASE PassFaulted
  <2>1. bpc # "idle" /\ tip' = tip /\ bpc' = "idle"
    BY <1>7, IndexerAssumption
    DEF PassFaulted, B!CommitUnanswered, B!Fail, B!EndPass, B!node, B!SyncAssumption
  <2>2. UNCHANGED <<pool, cycle>> /\ tips' = {} /\ phase' = "down"
    BY <1>7 DEF PassFaulted, EndRound
  <2>. QED
    BY <2>1, <2>2, PassKeepsTips
<1>8. CASE Recover
  BY <1>8 DEF Recover, AfterError, TipsInv, Mined, MinedIn, pass, cycle
<1>9. CASE BeginCycle
  <2>1. UNCHANGED <<tip, pool, pass, phase, tips>> /\ phase = "mempool"
    BY <1>9 DEF BeginCycle, round, M!BeginCycle, M!node
  <2>. QED
    BY <2>1, CycleKeepsTips DEF TipsInv
<1>10. CASE (\E t \in Txs : PickGroup(t)) \/ CycleGoesOn
  <2>1. UNCHANGED <<tip, pool, pass, phase, tips>> /\ mpc # "idle"
    BY <1>10 DEF PickGroup, CycleGoesOn, round, M!PickGroup, M!ReadRows, M!Cleanup,
      M!Lookup, M!LookupFinds, M!LookupSkips, M!NothingReported, M!StoreReported,
      M!Commit, M!node
  <2>. QED
    BY <2>1, CycleKeepsTips DEF TipsInv
<1>11. CASE CycleEnds
  <2>1. UNCHANGED <<tip, pool, pass>> /\ phase' = "blocks" /\ tips' = {}
        /\ mpc # "idle" /\ mpc' = "idle"
    BY <1>11 DEF CycleEnds, EndRound, M!NoGroupLeft, M!StoreRefused, M!EndCycle, M!node
  <2>. QED
    BY <2>1, CycleKeepsTips DEF TipsInv
<1>12. CASE CycleFaulted
  <2>1. UNCHANGED <<tip, pool, pass>> /\ phase' = "down" /\ tips' = {}
        /\ mpc # "idle" /\ mpc' = "idle"
    BY <1>12, IndexerAssumption
    DEF CycleFaulted, EndRound, M!CleanupUnanswered, M!CommitUnanswered, M!Fail,
        M!EndCycle, M!node, M!MempoolAssumption
  <2>. QED
    BY <2>1, CycleKeepsTips DEF TipsInv
<1>13. CASE UNCHANGED vars
  BY <1>13 DEF vars, pass, cycle, round, TipsInv, Mined, MinedIn
<1>. QED
  BY <1>1, <1>2, <1>3, <1>4, <1>5, <1>6, <1>7, <1>8, <1>9, <1>10, <1>11, <1>12,
     <1>13
  DEF Next, Service, Fault

\* To the mempool half the block half is the node and the scheduler.
LEMMA CycleSteps == TipsInv /\ [Next]_vars => [M!Next]_(M!vars)
<1>. SUFFICES ASSUME TipsInv, [Next]_vars PROVE [M!Next]_(M!vars)
  OBVIOUS
<1>. USE DEF M!vars, M!node, M!tables, M!local
<1>1. CASE ChainMoves
  <2>1. UNCHANGED <<rows, metas, mpc, snap, existing, todo, cur, left, found, last>>
    BY <1>1 DEF ChainMoves, cycle
  <2>2. CASE Mined' = Mined
    <3>1. pool' = pool
      BY <1>1, <2>2 DEF ChainMoves, TipsInv
    <3>. QED
      BY <2>1, <2>2, <3>1
  <2>3. CASE Mined' # Mined
    <3>1. tip' \in Blocks
      BY <1>1 DEF ChainMoves, B!NodeMoves
    <3>2. Mined' = MinedIn(tip')
      BY DEF Mined, MinedIn
    <3>3. Mined' \in SUBSET Txs
      BY <3>1, <3>2, IndexerAssumption, TreeAssumption DEF MinedIn
    <3>4. \A t \in Mined' : Depends[t] \subseteq Mined'
      BY <3>1, <3>2, IndexerAssumption
    <3>5. M!ChainMoves
      BY <1>1, <2>1, <2>3, <3>3, <3>4 DEF M!ChainMoves, ChainMoves
    <3>. QED
      BY <3>5 DEF M!Next, M!NodeMoves
  <2>. QED
    BY <2>2, <2>3
<1>2. CASE PoolMoves
  BY <1>2 DEF PoolMoves, M!Next, M!NodeMoves
<1>3. CASE \/ BeginRound \/ PassGoesOn \/ PassSucceeds \/ PassErrs \/ Recover
           \/ PassFaulted
  <2>1. UNCHANGED <<tip, pool, cycle>>
    BY <1>3 DEF BeginRound, PassGoesOn, PassSucceeds, PassErrs, Recover, PassFaulted,
      B!BeginPass, B!ScanMatches, B!ScanDiffers, B!ScanExhausted,
      B!MarkOrphans, B!DemoteOrphans, B!FetchHash, B!GetBlock, B!ScanFails,
      B!NothingToFetch, B!StoreRefused, B!CommitUnanswered, B!Fail,
      B!StoreBitcoinBlock, B!StoreSpacesTransactions, B!Commit, B!node
  <2>2. Mined' = Mined
    BY <2>1 DEF Mined, MinedIn
  <2>. QED
    BY <2>1, <2>2 DEF cycle
<1>4. CASE BeginCycle \/ (\E t \in Txs : PickGroup(t)) \/ CycleGoesOn
  BY <1>4 DEF BeginCycle, PickGroup, CycleGoesOn, M!Next, M!Prepare, M!Group, M!Check
<1>5. CASE CycleEnds \/ CycleFaulted
  BY <1>5 DEF CycleEnds, CycleFaulted, M!Next, M!Group, M!Check
<1>6. CASE UNCHANGED vars
  BY <1>6 DEF vars, cycle, Mined, MinedIn
<1>. QED
  BY <1>1, <1>2, <1>3, <1>4, <1>5, <1>6 DEF Next, Service, Fault

\* And it is a mempool half, for which the mined transactions are those of the
\* blocks on the node's chain.
THEOREM RunsMempoolSync == Spec => M!Spec
<1>1. Init => M!Init
  BY DEF Init
<1>2. Spec => []TipsInv
  BY InitTips, StepTips, PTL DEF Spec
<1>. QED
  BY <1>1, <1>2, CycleSteps, PTL DEF Spec, M!Spec

(***************************************************************************)
(* The names of the two instances of each half mean the same.              *)
(***************************************************************************)

LEMMA SameBlocks ==
  /\ B!Init => BP!Init
  /\ [B!Next]_(B!vars) => [BP!Next]_(BP!vars)
  /\ BP!IInv => B!TypeOK /\ B!HeightsHonest /\ B!BlocksComplete /\ B!PassInv
<1>. USE DEF
       B!Points, BP!Points, B!node, BP!node, B!tables, BP!tables, B!local,
       BP!local, B!vars, BP!vars, B!Rows, BP!Rows, B!Active, BP!Active,
       B!NodeHas, BP!NodeHas, B!OutOfRange, BP!OutOfRange, B!HeightLeft,
       BP!HeightLeft, B!Agreed, BP!Agreed, B!RowsAfter, BP!RowsAfter,
       B!ResumeHeight, BP!ResumeHeight, B!NothingAbove, BP!NothingAbove,
       B!Demoted, BP!Demoted, B!HeightTaken, BP!HeightTaken, B!BlockWrites,
       BP!BlockWrites, B!NewHeight, BP!NewHeight, B!Cleared, BP!Cleared,
       B!MetaWrites, BP!MetaWrites, B!Storable, BP!Storable, B!Successors,
       BP!Successors, B!Init, BP!Init, B!NodeMoves, BP!NodeMoves, B!EndPass,
       BP!EndPass, B!BeginPass, BP!BeginPass, B!ScanMatches, BP!ScanMatches,
       B!ScanDiffers, BP!ScanDiffers, B!ScanExhausted, BP!ScanExhausted,
       B!ScanFails, BP!ScanFails, B!MarkOrphans, BP!MarkOrphans,
       B!DemoteOrphans, BP!DemoteOrphans, B!FetchHash, BP!FetchHash,
       B!NothingToFetch, BP!NothingToFetch, B!GetBlock, BP!GetBlock,
       B!StoreBitcoinBlock, BP!StoreBitcoinBlock, B!StoreSpacesTransactions,
       BP!StoreSpacesTransactions, B!StoreRefused, BP!StoreRefused, B!CopiedTxs,
       BP!CopiedTxs, B!InsertedOutputs, BP!InsertedOutputs, B!Apply, BP!Apply, B!Commit, BP!Commit, B!CommitUnanswered, BP!CommitUnanswered,
       B!Fail, BP!Fail, B!Scan, BP!Scan, B!Head, BP!Head, B!Load, BP!Load,
       B!StoreBlock, BP!StoreBlock, B!Next, BP!Next
<1>1. B!Init => BP!Init
  OBVIOUS
<1>2. [B!Next]_(B!vars) => [BP!Next]_(BP!vars)
  OBVIOUS
<1>3. BP!IInv => B!TypeOK /\ B!HeightsHonest /\ B!BlocksComplete /\ B!PassInv
  BY DEF BP!IInv,
         B!TypeOK, BP!TypeOK, B!HeightsHonest, BP!HeightsHonest,
         B!BlocksComplete, BP!BlocksComplete, B!PassInv, BP!PassInv
<1>. QED
  BY <1>1, <1>2, <1>3

LEMMA SameCycles ==
  /\ M!Init => MP!Init
  /\ [M!Next]_(M!vars) => [MP!Next]_(MP!vars)
  /\ MP!MInv => M!TypeOK /\ M!NoClash /\ M!OnlySnapshot /\ M!CycleInv
<1>. USE DEF
       M!Points, MP!Points, M!node, MP!node, M!tables, MP!tables, M!local,
       MP!local, M!vars, MP!vars, M!Many, MP!Many, M!OneMore, MP!OneMore,
       M!Known, MP!Known, M!InChain, MP!InChain, M!Complete, MP!Complete, M!HasRow, MP!HasRow,
       M!ToProcess, MP!ToProcess, M!Init, MP!Init, M!Enter, MP!Enter,
       M!ChainMoves, MP!ChainMoves, M!Evict, MP!Evict, M!NodeMoves,
       MP!NodeMoves, M!EndCycle, MP!EndCycle, M!BeginCycle, MP!BeginCycle,
       M!ReadRows, MP!ReadRows, M!Gone, MP!Gone, M!DeleteRows, MP!DeleteRows,
       M!Cleanup, MP!Cleanup, M!CleanupUnanswered, MP!CleanupUnanswered,
       M!ParentsOf, MP!ParentsOf, M!PickGroup, MP!PickGroup, M!NoGroupLeft,
       MP!NoGroupLeft, M!Upcoming, MP!Upcoming, M!Advance, MP!Advance,
       M!LookupFinds, MP!LookupFinds, M!LookupSkips, MP!LookupSkips, M!Lookup,
       MP!Lookup, M!NothingReported, MP!NothingReported, M!Taken, MP!Taken,
       M!StoreReported, MP!StoreReported, M!StoreRefused, MP!StoreRefused,
       M!Apply, MP!Apply, M!NewGroup, MP!NewGroup, M!Commit, MP!Commit,
       M!CommitUnanswered, MP!CommitUnanswered, M!Fail, MP!Fail, M!Prepare,
       MP!Prepare, M!Check, MP!Check, M!Group, MP!Group, M!Next, MP!Next
<1>1. M!Init => MP!Init
  OBVIOUS
<1>2. [M!Next]_(M!vars) => [MP!Next]_(MP!vars)
  OBVIOUS
<1>3. MP!MInv => M!TypeOK /\ M!NoClash /\ M!OnlySnapshot /\ M!CycleInv
  BY DEF MP!MInv,
         M!TypeOK, MP!TypeOK, M!NoClash, MP!NoClash, M!OnlySnapshot,
         MP!OnlySnapshot, M!CycleInv, MP!CycleInv
<1>. QED
  BY <1>1, <1>2, <1>3

PartsInv == TipsInv /\ BP!IInv /\ MP!MInv

LEMMA InitParts == Init => PartsInv
<1>. SUFFICES ASSUME Init PROVE PartsInv
  OBVIOUS
<1>1. BP!Init /\ MP!Init
  BY SameBlocks, SameCycles DEF Init
<1>. QED
  BY <1>1, InitTips, BP!InitIInv, MP!InitMInv, Assumptions DEF PartsInv

LEMMA StepParts == PartsInv /\ [Next]_vars => PartsInv'
<1>. SUFFICES ASSUME PartsInv, [Next]_vars PROVE PartsInv'
  OBVIOUS
<1>1. [BP!Next]_(BP!vars) /\ [MP!Next]_(MP!vars)
  BY BlockSteps, CycleSteps, SameBlocks, SameCycles DEF PartsInv
<1>2. BP!IInv'
  BY <1>1, BP!NextIInv, Assumptions DEF PartsInv
<1>3. MP!MInv'
  BY <1>1, MP!NextMInv, Assumptions DEF PartsInv
<1>. QED
  BY <1>2, <1>3, StepTips DEF PartsInv

\* What is proved of the halves alone holds when they take turns: no block and no
\* row is left half stored, whichever half was cut short, and neither half runs
\* into what it or the other one has left behind.
THEOREM HalvesHold ==
  Spec => [](/\ B!TypeOK /\ B!BlocksComplete /\ B!HeightsHonest
             /\ M!TypeOK /\ M!NoClash /\ M!OnlySnapshot)
<1>1. PartsInv => /\ B!TypeOK /\ B!BlocksComplete /\ B!HeightsHonest
                  /\ M!TypeOK /\ M!NoClash /\ M!OnlySnapshot
  BY SameBlocks, SameCycles DEF PartsInv
<1>. QED
  BY <1>1, InitParts, StepParts, PTL DEF Spec

(***************************************************************************)
(* What the order of the halves ensures.                                   *)
(***************************************************************************)

\* No fault falls between the two statements that turn rows into orphans.
Calm == "demote" \notin PassFaults

\* The blocks shown: which are marked, and one of each height.
ShownInv ==
  /\ bpc # "demote" => B!Active \cap orphans = {}
  /\ bpc = "demote" => B!Active \cap orphans \subseteq B!RowsAfter(head)
  /\ \A b, c \in B!Active : Height[b] = Height[c] => b = c

\* A block that is shown stands at its own height.
LEMMA ActiveHeights ==
  ASSUME BP!IInv, NEW b \in B!Active
  PROVE  /\ b \in Blocks /\ dbHeight[b] = Height[b] /\ Height[b] \in Nat
         /\ b \in B!Rows /\ b \in txRows
<1>1. B!TypeOK /\ B!HeightsHonest /\ B!BlocksComplete
  BY SameBlocks
<1>2. b \in B!Rows /\ b # Deadbeef /\ b \in Blocks
  BY <1>1 DEF B!TypeOK, B!HeightsHonest, B!Active
<1>. QED
  BY <1>1, <1>2, TreeAssumption
  DEF B!HeightsHonest, B!BlocksComplete, B!Active

\* A commit shows one block more, above all the others.
LEMMA CommitShows ==
  ASSUME BP!IInv, bpc = "commit", B!Apply
  PROVE  /\ B!Active' = B!Active \cup {blk} /\ orphans' = orphans \ {blk}
         /\ blk \in Blocks /\ \A b \in B!Active : Height[b] < Height[blk]
<1>1. blk \in Blocks /\ \A b \in B!Active : dbHeight[b] < Height[blk]
  BY SameBlocks DEF B!PassInv
<1>2. Height[blk] \in Nat
  BY <1>1, TreeAssumption
<1>3. /\ dbHeight' = [b \in B!Rows \cup {blk} |->
                       IF b = blk THEN Height[blk] ELSE dbHeight[b]]
      /\ orphans' = orphans \ {blk}
  BY DEF B!Apply, B!NewHeight, B!Cleared
<1>4. B!Active' = B!Active \cup {blk}
  BY <1>2, <1>3 DEF B!Active, B!Rows
<1>. QED
  BY <1>1, <1>3, <1>4, ActiveHeights

\* The demotion takes off what is marked.
LEMMA DemotionHides ==
  ASSUME BP!IInv, B!DemoteOrphans
  PROVE  B!Active' = B!Active \ orphans
<1>1. dbHeight' = [b \in B!Rows |-> IF b \in orphans THEN -2 ELSE dbHeight[b]]
  BY DEF B!DemoteOrphans, B!Demoted
<1>. QED
  BY <1>1 DEF B!Active, B!Rows

LEMMA StepShown ==
  ASSUME Calm, PartsInv, ShownInv, [Next]_vars
  PROVE  ShownInv'
<1>1. [B!Next]_(B!vars) /\ BP!IInv
  BY BlockSteps DEF PartsInv
<1>2. ASSUME UNCHANGED B!tables, bpc # "demote", bpc' # "demote"
      PROVE  ShownInv'
  BY <1>2 DEF ShownInv, B!tables, B!Active, B!Rows
<1>3. CASE bpc = "commit" /\ B!Apply /\ bpc' # "demote"
  <2>1. /\ B!Active' = B!Active \cup {blk} /\ orphans' = orphans \ {blk}
        /\ blk \in Blocks /\ \A b \in B!Active : Height[b] < Height[blk]
    BY <1>1, <1>3, CommitShows
  <2>2. \A b \in B!Active \cup {blk} : Height[b] \in Nat
    BY <1>1, <2>1, ActiveHeights, TreeAssumption
  <2>3. \A b, c \in B!Active' : Height[b] = Height[c] => b = c
    BY <2>1, <2>2 DEF ShownInv
  <2>4. B!Active \cap orphans = {}
    BY <1>3 DEF ShownInv
  <2>. QED
    BY <1>3, <2>1, <2>3, <2>4 DEF ShownInv
<1>4. CASE B!MarkOrphans
  <2>1. /\ dbHeight' = dbHeight /\ head' = head /\ bpc = "mark" /\ bpc' = "demote"
        /\ orphans' = orphans \cup B!RowsAfter(head)
    BY <1>4 DEF B!MarkOrphans
  <2>2. B!Active' = B!Active /\ B!RowsAfter(head)' = B!RowsAfter(head)
    BY <2>1 DEF B!Active, B!Rows, B!RowsAfter
  <2>. QED
    BY <2>1, <2>2 DEF ShownInv
<1>5. CASE B!DemoteOrphans
  <2>1. orphans' = orphans /\ bpc' = "fetch"
    BY <1>5 DEF B!DemoteOrphans
  <2>. QED
    BY <1>1, <1>5, <2>1, DemotionHides DEF ShownInv
<1>6. CASE B!NodeMoves \/ UNCHANGED B!vars
  BY <1>6 DEF B!NodeMoves, B!vars, B!tables, B!local, B!Active, B!Rows,
    B!RowsAfter, ShownInv
<1>7. CASE B!BeginPass \/ B!Scan \/ B!Load \/ B!StoreBitcoinBlock
           \/ B!StoreSpacesTransactions \/ B!StoreRefused \/ B!Fail
  <2>1. UNCHANGED B!tables /\ bpc # "demote" /\ bpc' # "demote"
    BY <1>7
    DEF Calm, B!BeginPass, B!Scan, B!ScanMatches, B!ScanDiffers, B!ScanExhausted,
      B!ScanFails, B!Load, B!FetchHash, B!NothingToFetch, B!GetBlock,
      B!StoreBitcoinBlock, B!StoreSpacesTransactions, B!StoreRefused, B!Fail,
      B!EndPass, B!tables
  <2>. QED
    BY <1>2, <2>1
<1>8. CASE B!Commit \/ B!CommitUnanswered
  BY <1>3, <1>8 DEF B!Commit, B!CommitUnanswered, B!EndPass
<1>. QED
  BY <1>1, <1>4, <1>5, <1>6, <1>7, <1>8 DEF B!Next, B!Head, B!StoreBlock

Fresh(b) ==
  /\ b \in B!Active \/ Height[b] <= FastSyncHeight
  /\ \A c \in B!Active : Height[c] <= Height[b]

\* How a round on one chain arrives at its last block, and what its snapshot of
\* the mempool then leaves out.
FreshInv ==
  OneChain =>
    /\ bpc \in {"mark", "demote", "fetch"} /\ head >= 0 =>
         \E b \in B!Active : dbHeight[b] = head /\ B!NodeHas(head, b)
    /\ bpc \in {"get", "store", "meta", "commit"} => blk \in Ancestors[tip]
    /\ bpc \in {"store", "meta", "commit"} =>
         IF nxt = NoBlock THEN blk = latest /\ latest \in tips
         ELSE nxt \in Ancestors[tip]
    /\ phase = "mempool" =>
         /\ latest \in tips /\ Fresh(latest)
         /\ mpc # "idle" => snap \cap MinedIn(latest) = {}

\* On one chain, all that the node ended in is below where it ends now.
LEMMA OnNodesChain ==
  ASSUME TipsInv, OneChain, tip \in tips, NEW t \in tips
  PROVE  t \in Ancestors[tip]
<1>1. t \in Blocks /\ tip \in Blocks /\ Work[t] <= Work[tip]
  BY DEF TipsInv
<1>2. Work[t] \in Nat /\ Work[tip] \in Nat
  BY <1>1, TreeAssumption
<1>3. CASE tip \in Ancestors[t]
  <2>1. t = tip
    BY <1>1, <1>2, <1>3, WorkGrows
  <2>. QED
    BY <1>1, <2>1, EndOfChain
<1>. QED
  BY <1>3 DEF OneChain

LEMMA MovesKeepFresh ==
  ASSUME PartsInv, FreshInv, ChainMoves
  PROVE  FreshInv'
<1>. SUFFICES ASSUME OneChain' PROVE FreshInv'
  BY DEF FreshInv
<1>1. UNCHANGED <<pass, cycle, phase, latest>>
  BY DEF ChainMoves, B!NodeMoves, B!tables, B!local, pass
<1>2. tip' \in Blocks /\ Work[tip'] > Work[tip] /\ tip \in Blocks
  BY DEF ChainMoves, B!NodeMoves, PartsInv, TipsInv
<1>3. CASE bpc = "idle" /\ phase # "mempool"
  BY <1>1, <1>3 DEF FreshInv, pass
<1>4. CASE bpc # "idle" \/ phase = "mempool"
  <2>1. tip \in tips
    BY <1>4 DEF PartsInv, TipsInv
  <2>2. tips' = tips \cup {tip'}
    BY <2>1 DEF ChainMoves
  <2>3. OneChain
    BY <2>2 DEF OneChain
  <2>4. tip \in Ancestors[tip']
    <3>1. tip' \notin Ancestors[tip]
      <4>1. Work[tip] \in Nat /\ Work[tip'] \in Nat
        BY <1>2, TreeAssumption
      <4>. QED
        BY <1>2, <4>1, WorkGrows
    <3>. QED
      BY <2>1, <2>2, <3>1 DEF OneChain
  <2>5. Ancestors[tip] \subseteq Ancestors[tip']
    BY <1>2, <2>4, ChainOfAncestor
  <2>6. B!Active' = B!Active
    BY <1>1 DEF pass, B!Active, B!Rows
  <2>7. \A b : Fresh(b)' <=> Fresh(b)
    BY <2>6 DEF Fresh
  <2>8. \A b \in B!Active : B!NodeHas(head, b) => B!NodeHas(head, b)'
    BY <1>1, <2>5 DEF B!NodeHas, pass
  <2>. QED
    BY <1>1, <2>2, <2>3, <2>5, <2>6, <2>7, <2>8 DEF FreshInv, pass, cycle
<1>. QED
  BY <1>3, <1>4

\* The block the pass found nothing above is where the node ended.
LEMMA NothingMeansFresh ==
  ASSUME PartsInv, FreshInv, OneChain, B!NothingToFetch
  PROVE  tip \in tips /\ Fresh(tip)
<1>1. bpc = "fetch" /\ B!ResumeHeight(head) > Height[tip]
  BY DEF B!NothingToFetch, B!NothingAbove, B!OutOfRange
<1>2. tip \in tips /\ tip \in Blocks /\ Height[tip] \in Nat
  BY <1>1, TreeAssumption DEF PartsInv, TipsInv
<1>3. /\ head \in Int /\ head >= -1 /\ FastSyncHeight \in Int
      /\ \A c \in B!Active : dbHeight[c] <= head
  <2>1. B!TypeOK /\ B!PassInv
    BY SameBlocks DEF PartsInv
  <2>2. B!RowsAfter(head) = {} /\ head \in Int /\ head >= -1
    BY <1>1, <2>1 DEF B!PassInv, B!TypeOK
  <2>3. \A c \in B!Active : c \in B!Rows /\ dbHeight[c] \in Int
    BY <2>1 DEF B!Active, B!TypeOK
  <2>. QED
    BY <2>2, <2>3, IndexerAssumption DEF B!RowsAfter, B!SyncAssumption
<1>4. \A c \in B!Active : Height[c] <= head /\ Height[c] \in Nat
  BY <1>3, ActiveHeights DEF PartsInv
<1>5. CASE head = -1
  <2>1. Height[tip] <= FastSyncHeight
    BY <1>1, <1>2, <1>3, <1>5 DEF B!ResumeHeight
  <2>. QED
    BY <1>2, <1>4, <1>5, <2>1 DEF Fresh
<1>6. CASE head >= 0
  <2>1. PICK b \in B!Active : dbHeight[b] = head /\ B!NodeHas(head, b)
    BY <1>1, <1>6 DEF FreshInv
  <2>2. b \in Ancestors[tip] /\ Height[b] = head
    BY <2>1 DEF B!NodeHas
  <2>3. head <= Height[tip] /\ (b # tip => head < Height[tip])
    <3>1. b # tip => Height[b] < Height[tip]
      BY <1>2, <2>2, EndIsHighest
    <3>. QED
      BY <1>2, <1>3, <2>2, <3>1
  <2>4. \A c \in B!Active : Height[c] <= Height[tip]
    BY <1>2, <1>3, <1>4, <2>3
  <2>5. b = tip \/ Height[tip] <= FastSyncHeight
    BY <1>1, <1>2, <1>3, <2>3 DEF B!ResumeHeight
  <2>. QED
    BY <1>2, <2>1, <2>4, <2>5 DEF Fresh
<1>. QED
  BY <1>3, <1>5, <1>6

\* No more than that a fetched block is on the node's chain need be known of the
\* blocks after it: the last one has none above it.
LEMMA PassKeepsFresh ==
  ASSUME Calm, PartsInv, ShownInv, FreshInv, PassGoesOn
  PROVE  FreshInv'
<1>. SUFFICES ASSUME OneChain' PROVE FreshInv'
  BY DEF FreshInv
<1>1. UNCHANGED <<pool, cycle, phase, tips>> /\ OneChain
  BY DEF PassGoesOn, OneChain
<1>2. bpc # "idle" /\ tip' = tip
  BY DEF PassGoesOn, B!ScanMatches, B!ScanDiffers, B!ScanExhausted,
    B!MarkOrphans, B!DemoteOrphans, B!FetchHash, B!GetBlock,
    B!StoreBitcoinBlock, B!StoreSpacesTransactions, B!Commit, B!node
<1>3. phase' # "mempool" /\ tip \in Blocks /\ tip \in tips
  BY <1>1, <1>2 DEF PartsInv, TipsInv
<1>4. CASE B!ScanMatches
  <2>1. PICK b \in B!Rows : dbHeight[b] = head /\ B!NodeHas(head, b)
    BY <1>4 DEF B!ScanMatches, B!Agreed
  <2>2. UNCHANGED <<head, dbHeight>> /\ head >= 0 /\ bpc' = "mark"
    BY <1>4 DEF B!ScanMatches, B!HeightLeft, B!tables
  <2>3. b \in B!Active /\ B!Active' = B!Active /\ B!NodeHas(head, b)'
    BY <1>2, <2>1, <2>2 DEF B!Active, B!Rows, B!NodeHas
  <2>. QED
    BY <1>3, <2>1, <2>2, <2>3 DEF FreshInv
<1>5. CASE B!ScanDiffers \/ B!ScanExhausted
  <2>1. \/ bpc' = "scan"
        \/ bpc' = "fetch" /\ ~(head >= 0) /\ head' = head
    BY <1>5 DEF B!ScanDiffers, B!ScanExhausted, B!HeightLeft
  <2>. QED
    BY <1>3, <2>1 DEF FreshInv
<1>6. CASE B!MarkOrphans
  <2>1. UNCHANGED <<head, dbHeight>> /\ bpc = "mark" /\ bpc' = "demote"
    BY <1>6 DEF B!MarkOrphans
  <2>2. B!Active' = B!Active /\ \A b : B!NodeHas(head, b)' <=> B!NodeHas(head, b)
    BY <1>2, <2>1 DEF B!Active, B!Rows, B!NodeHas
  <2>. QED
    BY <1>1, <1>3, <2>1, <2>2 DEF FreshInv
<1>7. CASE B!DemoteOrphans
  <2>1. head' = head /\ bpc = "demote" /\ bpc' = "fetch"
        /\ dbHeight' = [b \in B!Rows |-> IF b \in orphans THEN -2 ELSE dbHeight[b]]
    BY <1>7 DEF B!DemoteOrphans, B!Demoted
  <2>2. SUFFICES ASSUME head >= 0
                 PROVE  \E b \in B!Active' : dbHeight'[b] = head /\ B!NodeHas(head, b)'
    BY <1>3, <2>1 DEF FreshInv
  <2>3. PICK b \in B!Active : dbHeight[b] = head /\ B!NodeHas(head, b)
    BY <1>1, <2>1, <2>2 DEF FreshInv
  <2>4. b \notin orphans
    <3>1. head \in Int
      BY SameBlocks DEF PartsInv, B!TypeOK
    <3>. QED
      BY <2>1, <2>3, <3>1 DEF ShownInv, B!RowsAfter
  <2>5. b \in B!Active' /\ dbHeight'[b] = head
    BY <1>7, <2>1, <2>3, <2>4, DemotionHides DEF PartsInv, B!Active
  <2>. QED
    BY <1>2, <2>1, <2>3, <2>5 DEF B!NodeHas
<1>8. CASE B!FetchHash
  BY <1>1, <1>2, <1>3, <1>8 DEF B!FetchHash, B!NodeHas, FreshInv
<1>9. CASE B!GetBlock /\ latest' = tip
  <2>1. bpc = "get" /\ bpc' = "store" /\ blk' = blk /\ latest' = tip
    BY <1>9 DEF B!GetBlock
  <2>2. blk \in Ancestors[tip]
    BY <1>1, <2>1 DEF FreshInv
  <2>3. CASE nxt' \in B!Successors(blk, tip)
    <3>1. nxt' \in Ancestors[tip] /\ nxt' # NoBlock
      BY <1>3, <2>3, TreeAssumption, IndexerAssumption DEF B!Successors, B!SyncAssumption
    <3>. QED
      BY <1>2, <1>3, <2>1, <2>2, <3>1 DEF FreshInv
  <2>4. CASE B!Successors(blk, tip) = {} /\ nxt' = NoBlock
    <3>1. blk = tip
      BY <1>3, <2>2, <2>4, HasSuccessor DEF B!Successors, Successors
    <3>. QED
      BY <1>1, <1>2, <1>3, <2>1, <2>2, <2>4, <3>1 DEF FreshInv
  <2>. QED
    BY <1>9, <2>3, <2>4 DEF B!GetBlock
<1>10. CASE (B!StoreBitcoinBlock \/ B!StoreSpacesTransactions) /\ UNCHANGED latest
  <2>1. bpc \in {"store", "meta"} /\ bpc' \in {"meta", "commit"}
        /\ UNCHANGED <<blk, nxt, latest>>
    BY <1>10 DEF B!StoreBitcoinBlock, B!StoreSpacesTransactions
  <2>. QED
    BY <1>1, <1>2, <1>3, <2>1 DEF FreshInv
<1>11. CASE nxt # NoBlock /\ B!Commit
  <2>1. bpc = "commit" /\ bpc' = "get" /\ blk' = nxt
    BY <1>11 DEF B!Commit
  <2>. QED
    BY <1>1, <1>2, <1>3, <1>11, <2>1 DEF FreshInv
<1>. QED
  BY <1>4, <1>5, <1>6, <1>7, <1>8, <1>9, <1>10, <1>11 DEF PassGoesOn

LEMMA SuccessIsFresh ==
  ASSUME PartsInv, FreshInv, PassSucceeds
  PROVE  FreshInv'
<1>. SUFFICES ASSUME OneChain' PROVE FreshInv'
  BY DEF FreshInv
<1>1. UNCHANGED <<cycle, tips>> /\ OneChain
  BY DEF PassSucceeds, OneChain
<1>2. bpc # "idle" /\ bpc' = "idle"
  BY DEF PassSucceeds, B!NothingToFetch, B!Commit, B!EndPass
<1>3. mpc' = "idle"
  BY <1>1, <1>2 DEF PartsInv, TipsInv, cycle
<1>4. CASE B!NothingToFetch /\ latest' = tip
  <2>1. tip \in tips /\ Fresh(tip)
    BY <1>1, <1>4, NothingMeansFresh
  <2>2. B!Active' = B!Active
    BY <1>4 DEF B!NothingToFetch, B!tables, B!Active, B!Rows
  <2>4. latest' \in tips' /\ Fresh(latest)'
    BY <1>1, <1>4, <2>1, <2>2 DEF Fresh
  <2>. QED
    BY <1>2, <1>3, <2>4 DEF FreshInv
<1>5. CASE nxt = NoBlock /\ B!Commit /\ UNCHANGED latest
  <2>1. bpc = "commit" /\ B!Apply
    BY <1>5 DEF B!Commit
  <2>2. blk = latest /\ latest \in tips
    BY <1>1, <1>5, <2>1 DEF FreshInv
  <2>3. /\ B!Active' = B!Active \cup {blk} /\ blk \in Blocks
        /\ \A b \in B!Active : Height[b] < Height[blk]
    BY <2>1, CommitShows DEF PartsInv
  <2>4. \A b \in B!Active \cup {blk} : Height[b] \in Nat
    BY <2>3, ActiveHeights, TreeAssumption DEF PartsInv
  <2>5. latest' \in tips' /\ Fresh(latest)'
    BY <1>1, <1>5, <2>2, <2>3, <2>4 DEF Fresh
  <2>. QED
    BY <1>2, <1>3, <2>5 DEF FreshInv
<1>. QED
  BY <1>4, <1>5 DEF PassSucceeds

\* The cycle's snapshot is taken when the round's last block is already shown.
LEMMA BeginIsFresh ==
  ASSUME PartsInv, FreshInv, BeginCycle
  PROVE  FreshInv'
<1>. SUFFICES ASSUME OneChain' PROVE FreshInv'
  BY DEF FreshInv
<1>1. /\ phase = "mempool" /\ bpc = "idle" /\ snap' = pool
      /\ UNCHANGED <<tip, pass, phase, tips, latest>> /\ OneChain
  BY DEF BeginCycle, round, M!BeginCycle, OneChain, PartsInv, TipsInv
<1>2. latest \in tips /\ Fresh(latest)
  BY <1>1 DEF FreshInv
<1>3. latest \in Ancestors[tip] /\ tip \in Blocks
  BY <1>1, <1>2, OnNodesChain DEF PartsInv, TipsInv
<1>4. MinedIn(latest) \subseteq Mined
  <2>1. Ancestors[latest] \subseteq Ancestors[tip]
    BY <1>3, ChainOfAncestor
  <2>. QED
    BY <2>1 DEF MinedIn, Mined
<1>5. snap' \cap MinedIn(latest) = {}
  BY <1>1, <1>4 DEF PartsInv, TipsInv
<1>6. Fresh(latest)' /\ latest' \in tips'
  BY <1>1, <1>2 DEF pass, Fresh, B!Active, B!Rows
<1>. QED
  BY <1>1, <1>5, <1>6 DEF FreshInv, pass, MinedIn

\* The rest of the cycle stays with that snapshot.
LEMMA CycleKeepsFresh ==
  ASSUME TipsInv, FreshInv, UNCHANGED <<tip, pass, round, snap>>,
         mpc' # "idle" => mpc # "idle"
  PROVE  FreshInv'
<1>. SUFFICES ASSUME OneChain' PROVE FreshInv'
  BY DEF FreshInv
<1>1. OneChain
  BY DEF OneChain, round
<1>2. /\ \A b : B!NodeHas(head, b)' <=> B!NodeHas(head, b)
      /\ Fresh(latest)' <=> Fresh(latest)
      /\ MinedIn(latest)' = MinedIn(latest)
  BY DEF Fresh, pass, round, B!Active, B!Rows, B!NodeHas, MinedIn
<1>3. B!Active' = B!Active
  BY DEF pass, B!Active, B!Rows
<1>. QED
  BY <1>1, <1>2, <1>3 DEF FreshInv, pass, round

\* A half that has not come to the fetch promises nothing yet.
LEMMA IdleIsFresh ==
  ASSUME bpc' \in {"idle", "scan"}, phase' # "mempool"
  PROVE  FreshInv'
BY DEF FreshInv

LEMMA StepFresh ==
  ASSUME Calm, PartsInv, ShownInv, FreshInv, [Next]_vars
  PROVE  FreshInv'
<1>1. CASE ChainMoves
  BY <1>1, MovesKeepFresh
<1>2. CASE PoolMoves
  BY <1>2, CycleKeepsFresh DEF PoolMoves, M!Enter, M!Evict, M!local, PartsInv
<1>3. CASE BeginRound
  BY <1>3, IdleIsFresh DEF BeginRound, B!BeginPass
<1>4. CASE PassGoesOn
  BY <1>4, PassKeepsFresh
<1>5. CASE PassSucceeds
  BY <1>5, SuccessIsFresh
<1>6. CASE PassErrs \/ PassFaulted
  BY <1>6, IdleIsFresh
  DEF PassErrs, PassFaulted, B!ScanFails, B!StoreRefused, B!CommitUnanswered,
    B!Fail, B!EndPass, AfterError
<1>7. CASE Recover \/ CycleEnds \/ CycleFaulted
  <2>1. bpc' = bpc /\ phase' # "mempool" /\ phase # "blocks"
    BY <1>7, IndexerAssumption
    DEF Recover, CycleEnds, CycleFaulted, pass, AfterError, M!NoGroupLeft,
      M!StoreRefused, M!CleanupUnanswered, M!CommitUnanswered, M!Fail,
      M!MempoolAssumption, PartsInv, TipsInv
  <2>2. bpc' = "idle"
    BY <2>1 DEF PartsInv, TipsInv
  <2>. QED
    BY <2>1, <2>2, IdleIsFresh
<1>8. CASE BeginCycle
  BY <1>8, BeginIsFresh
<1>9. CASE (\E t \in Txs : PickGroup(t)) \/ CycleGoesOn
  <2>1. UNCHANGED <<tip, pass, round, snap>> /\ mpc # "idle"
    BY <1>9 DEF PickGroup, CycleGoesOn, M!PickGroup, M!ReadRows, M!Cleanup,
      M!Lookup, M!LookupFinds, M!LookupSkips, M!NothingReported, M!StoreReported,
      M!Commit
  <2>. QED
    BY <2>1, CycleKeepsFresh DEF PartsInv
<1>10. CASE UNCHANGED vars
  BY <1>10, CycleKeepsFresh DEF vars, cycle, PartsInv
<1>. QED
  BY <1>1, <1>2, <1>3, <1>4, <1>5, <1>6, <1>7, <1>8, <1>9, <1>10
  DEF Next, Service, Fault

RoundInv == PartsInv /\ ShownInv /\ FreshInv

LEMMA RoundsInvariance ==
  ASSUME Calm
  PROVE  Spec => []RoundInv
<1>1. Init => RoundInv
  <2>. SUFFICES ASSUME Init PROVE RoundInv
    OBVIOUS
  <2>1. bpc = "idle" /\ phase = "blocks" /\ B!Active = {}
    BY DEF Init, B!Init, B!Active, B!Rows
  <2>. QED
    BY <2>1, InitParts DEF RoundInv, ShownInv, FreshInv
<1>2. RoundInv /\ [Next]_vars => RoundInv'
  BY StepParts, StepShown, StepFresh DEF RoundInv
<1>. QED
  BY <1>1, <1>2, PTL DEF Spec

\* When the mempool's turn comes the blocks are up to date, after whatever
\* faults between other steps: a pass that ends without an error has stored the
\* block above which the node had nothing.
THEOREM TipsAreFresh ==
  ASSUME Calm
  PROVE  Spec => []FreshTip
<1>1. RoundInv => FreshTip
  BY DEF RoundInv, FreshInv, Fresh, FreshTip
<1>. QED
  BY <1>1, RoundsInvariance, PTL

(***************************************************************************)
(* What is shown hangs together, and so it is the chain of the last block. *)
(***************************************************************************)

\* Linked blocks reach down to the first indexed height.
LEMMA ShownDownwards ==
  ASSUME BP!IInv, B!ActiveChainLinked,
         NEW b \in B!Active, NEW d \in Ancestors[b], Height[d] > FastSyncHeight
  PROVE  d \in B!Active
<1> DEFINE S == {x \in B!Active : \E e \in Ancestors[x] :
                   Height[e] > FastSyncHeight /\ e \notin B!Active}
<1>1. SUFFICES ASSUME S # {} PROVE FALSE
  OBVIOUS
<1>2. S \subseteq Blocks
  BY ActiveHeights
<1>3. PICK x \in S : \A y \in S : Height[x] <= Height[y]
  BY <1>1, <1>2, LowestBlock
<1>4. PICK e \in Ancestors[x] : Height[e] > FastSyncHeight /\ e \notin B!Active
  OBVIOUS
<1>5. x \in Blocks /\ x \in B!Active /\ x # e
  BY <1>2, <1>4
<1>6. x # Genesis
  BY <1>4, <1>5, TreeAssumption
<1>7. /\ Parent[x] \in Blocks
      /\ Height[x] = Height[Parent[x]] + 1
      /\ e \in Ancestors[Parent[x]]
  BY <1>4, <1>5, <1>6, TreeAssumption
<1>8. Height[e] \in Nat /\ Height[Parent[x]] \in Nat /\ FastSyncHeight \in Int
  BY <1>4, <1>5, <1>7, TreeAssumption, IndexerAssumption DEF B!SyncAssumption
<1>9. Height[e] <= Height[Parent[x]]
  <2>1. e # Parent[x] => Height[e] < Height[Parent[x]]
    BY <1>7, EndIsHighest
  <2>. QED
    BY <1>8, <2>1
<1>10. Parent[x] \in B!Active
  <2>1. Height[x] # FastSyncHeight + 1
    BY <1>4, <1>7, <1>8, <1>9
  <2>. QED
    BY <1>5, <2>1 DEF B!ActiveChainLinked, B!Linked
<1>11. Parent[x] \in S
  BY <1>4, <1>7, <1>10
<1> HIDE DEF S
<1>. QED
  BY <1>3, <1>7, <1>8, <1>11

\* All the blocks shown are on the chain of the highest.
LEMMA ShownIsOneChain ==
  ASSUME BP!IInv, ShownInv, B!ActiveChainLinked,
         NEW b \in Blocks, Fresh(b), NEW c \in B!Active
  PROVE  c \in Ancestors[b]
<1>1. /\ Height[c] \in Nat /\ Height[b] \in Nat /\ FastSyncHeight \in Int
      /\ Height[c] <= Height[b]
  BY ActiveHeights, TreeAssumption, IndexerAssumption DEF B!SyncAssumption, Fresh
<1>2. Height[c] > FastSyncHeight
  BY <1>1 DEF B!ActiveChainLinked, B!Linked
<1>3. b \in B!Active
  BY <1>1, <1>2 DEF Fresh
<1>4. PICK d \in Ancestors[b] : Height[d] = Height[c]
  BY <1>1, ChainHasHeight
<1>5. d \in B!Active
  BY <1>2, <1>3, <1>4, ShownDownwards
<1>. QED
  BY <1>4, <1>5 DEF ShownInv

\* The chain of a fresh block is shown, from the first indexed height on.
LEMMA FreshShows ==
  ASSUME BP!IInv, B!ActiveChainLinked, NEW b \in Blocks, Fresh(b),
         NEW d \in Ancestors[b], Height[d] > FastSyncHeight
  PROVE  d \in B!Active
<1>1. d \in Blocks
  BY TreeAssumption
<1>2. Height[b] \in Nat /\ Height[d] \in Nat /\ FastSyncHeight \in Int
  BY <1>1, TreeAssumption, IndexerAssumption DEF B!SyncAssumption
<1>3. d # b => Height[d] < Height[b]
  BY EndIsHighest
<1>4. b \in B!Active
  BY <1>2, <1>3 DEF Fresh
<1>. QED
  BY <1>4, ShownDownwards

\* No transaction is listed twice: what a round deletes and stores it takes from
\* a snapshot that has none of the blocks already shown.
THEOREM StatusIsOne ==
  ASSUME Calm
  PROVE  Spec => []OneStatus
<1>1. ASSUME RoundInv PROVE OneStatus
  <2>. SUFFICES ASSUME mpc \in {"pick", "lookup", "check", "commit"},
                       OneChain, B!ActiveChainLinked,
                       NEW t \in Confirmed
                PROVE  t \notin rows /\ t \notin todo
    BY DEF OneStatus, Unconfirmed
  <2>1. phase = "mempool" /\ tips \subseteq Blocks /\ BP!IInv /\ ShownInv
    BY <1>1 DEF RoundInv, PartsInv, TipsInv
  <2>2. latest \in Blocks /\ Fresh(latest) /\ snap \cap MinedIn(latest) = {}
    BY <1>1, <2>1 DEF RoundInv, FreshInv
  <2>3. PICK c \in B!Active : t \in TxsOf[c]
    BY DEF Confirmed
  <2>4. c \in Ancestors[latest]
    BY <2>1, <2>2, ShownIsOneChain
  <2>5. t \notin snap
    BY <2>2, <2>3, <2>4 DEF MinedIn
  <2>6. rows \cup todo \subseteq snap
    BY <1>1, SameCycles DEF RoundInv, PartsInv, M!OnlySnapshot
  <2>. QED
    BY <2>5, <2>6
<1>. QED
  BY <1>1, RoundsInvariance, PTL

\* Rows are deleted by a cleanup only.
LEMMA CleanupDeletes ==
  ASSUME PartsInv, [Next]_vars, NEW t \in rows, t \notin rows'
  PROVE  mpc = "clean"
<1>1. [M!Next]_(M!vars)
  BY CycleSteps DEF PartsInv
<1>2. M!Next
  BY <1>1 DEF M!vars, M!tables
<1>. QED
  BY <1>2
  DEF M!Next, M!NodeMoves, M!Enter, M!Evict, M!ChainMoves, M!Prepare, M!BeginCycle,
    M!ReadRows, M!Cleanup, M!CleanupUnanswered, M!Group, M!PickGroup, M!NoGroupLeft,
    M!Lookup, M!LookupFinds, M!LookupSkips, M!Check, M!NothingReported,
    M!StoreReported, M!StoreRefused, M!Commit, M!CommitUnanswered, M!Apply, M!Fail,
    M!tables

\* What a cleanup takes off the list is shown under its block, or no request of
\* the pass could have told of that block.
THEOREM OnlyLateHidden ==
  ASSUME Calm
  PROVE  Spec => HiddenOnlyLate
<1> DEFINE A == \A t \in rows \ rows' :
                  OneChain /\ B!ActiveChainLinked
                    => t \in Confirmed \/ (latest \in tips /\ t \notin IndexedOf(latest))
<1>1. ASSUME RoundInv, [Next]_vars PROVE A
  <2>. SUFFICES ASSUME NEW t \in rows \ rows', OneChain, B!ActiveChainLinked
                PROVE  /\ latest \in tips
                       /\ t \in IndexedOf(latest) => t \in Confirmed
    OBVIOUS
  <2>1. mpc = "clean"
    BY <1>1, CleanupDeletes DEF RoundInv
  <2>2. phase = "mempool" /\ tips \subseteq Blocks /\ BP!IInv
    BY <1>1, <2>1 DEF RoundInv, PartsInv, TipsInv
  <2>3. latest \in tips /\ Fresh(latest)
    BY <1>1, <2>2 DEF RoundInv, FreshInv
  <2>4. ASSUME NEW d \in Indexed(latest), t \in TxsOf[d]
        PROVE  t \in Confirmed
    <3>1. d \in B!Active
      BY <2>2, <2>3, FreshShows DEF Indexed
    <3>2. d \in txRows
      BY <2>2, <3>1, ActiveHeights
    <3>. QED
      BY <2>4, <3>1, <3>2 DEF Confirmed
  <2>. QED
    BY <2>3, <2>4 DEF IndexedOf
<1>2. RoundInv /\ [Next]_vars => [A]_vars
  BY <1>1
<1>3. Spec => [][A]_vars
  BY <1>2, RoundsInvariance, PTL DEF Spec
<1>. QED
  BY <1>3, PTL DEF HiddenOnlyLate

\* What a round without a switch leaves is the chain the node had when the pass
\* last asked it: all of it from the first indexed height on, and nothing else.
THEOREM ChainIsFresh ==
  ASSUME Calm
  PROVE  Spec => []FreshChain
<1>1. ASSUME RoundInv PROVE FreshChain
  <2>. SUFFICES ASSUME phase = "mempool", OneChain, B!ActiveChainLinked
                PROVE  latest \in tips /\ B!Active = Indexed(latest)
    BY DEF FreshChain
  <2>1. tips \subseteq Blocks /\ BP!IInv /\ ShownInv /\ FastSyncHeight \in Int
    BY <1>1, IndexerAssumption DEF RoundInv, PartsInv, TipsInv, B!SyncAssumption
  <2>2. latest \in tips /\ Fresh(latest)
    BY <1>1 DEF RoundInv, FreshInv
  <2>3. ASSUME NEW c \in B!Active
        PROVE  c \in Ancestors[latest] /\ Height[c] > FastSyncHeight
    <3>1. Height[c] \in Nat
      BY <2>1, ActiveHeights
    <3>2. Height[c] > FastSyncHeight
      BY <2>1, <3>1 DEF B!ActiveChainLinked, B!Linked
    <3>. QED
      BY <2>1, <2>2, <3>2, ShownIsOneChain
  <2>4. ASSUME NEW c \in Ancestors[latest], Height[c] > FastSyncHeight
        PROVE  c \in B!Active
    BY <2>1, <2>2, <2>4, FreshShows
  <2>. QED
    BY <2>2, <2>3, <2>4 DEF Indexed
<1>. QED
  BY <1>1, RoundsInvariance, PTL

(***************************************************************************)
(* Theorems of the halves, for the service.                                *)
(***************************************************************************)

LEMMA RunsProvedHalves == Spec => BP!Spec /\ MP!Spec
<1>1. Spec => B!Spec /\ M!Spec
  BY RunsBlockSync, RunsMempoolSync
<1>2. B!Spec => BP!Spec
  BY SameBlocks, PTL DEF B!Spec, BP!Spec
<1>3. M!Spec => MP!Spec
  BY SameCycles, PTL DEF M!Spec, MP!Spec
<1>. QED
  BY <1>1, <1>2, <1>3, PTL

\* The blocks shown have no hole, whichever half was cut short and wherever the
\* node switched branches.
THEOREM NoHolesShown ==
  ASSUME Calm
  PROVE  Spec => []NoHoles
<1>1. BP!Spec => []BP!HeightsWhole
  BY BP!NoHeightMissing, Assumptions DEF Calm
<1>2. BP!HeightsWhole => NoHoles
  BY DEF NoHoles, BP!HeightsWhole, B!HeightsWhole, BP!Active, B!Active, BP!Rows, B!Rows
<1>. QED
  BY <1>1, <1>2, RunsProvedHalves, PTL

\* The blocks the service shows are the abstract mirror of a chain, where the node
\* stays on its branch from the comparison of the hashes to the fetch.
THEOREM ServiceMirrors ==
  ASSUME Calm, PassReorgs \cap {"mark", "demote", "fetch"} = {}
  PROVE  Spec => B!ImplementsMirror
<1>1. BP!Spec => BP!ImplementsMirror
  BY BP!MirrorImplemented, Assumptions DEF Calm, BP!Calm
<1>2. /\ BP!Mirror!Init => B!Mirror!Init
      /\ [BP!Mirror!Next]_(BP!Active) => [B!Mirror!Next]_(B!Active)
  BY DEF BP!Active, B!Active, BP!Rows, B!Rows,
    BP!Mirror!Init, B!Mirror!Init, BP!Mirror!Next, B!Mirror!Next,
    BP!Mirror!Start, B!Mirror!Start, BP!Mirror!Grow, B!Mirror!Grow,
    BP!Mirror!CutBack, B!Mirror!CutBack
<1>3. BP!ImplementsMirror => B!ImplementsMirror
  BY <1>2, PTL
  DEF BP!ImplementsMirror, B!ImplementsMirror, BP!Mirror!Spec, B!Mirror!Spec
<1>. QED
  BY <1>1, <1>3, RunsProvedHalves, PTL

\* What the service lists as unconfirmed is the abstract view of the mempool,
\* whatever the chain does and wherever a round is cut short.
THEOREM ServiceViews == Spec => M!ImplementsView
<1>1. MP!Spec => MP!ImplementsView
  BY MP!ViewImplemented, Assumptions
<1>2. /\ MP!View!Init => M!View!Init
      /\ [MP!View!Next]_(MP!View!vars) => [M!View!Next]_(M!View!vars)
  BY DEF MP!View!Init, M!View!Init, MP!View!Next, M!View!Next,
    MP!View!NodeMoves, M!View!NodeMoves, MP!View!Look, M!View!Look,
    MP!View!Forget, M!View!Forget, MP!View!Drop, M!View!Drop,
    MP!View!Show, M!View!Show, MP!View!Act, M!View!Act,
    MP!View!Leave, M!View!Leave, MP!View!vars, M!View!vars
<1>3. MP!ImplementsView => M!ImplementsView
  BY <1>2, PTL
  DEF MP!ImplementsView, M!ImplementsView, MP!View!Spec, M!View!Spec
<1>. QED
  BY <1>1, <1>3, RunsProvedHalves, PTL

\* While lookups find what the snapshot names, what the service lists as
\* unconfirmed comes with the outputs the spaces node must report, no outputs are
\* there twice, and a cycle leaves out only what it never got to.
THEOREM ServiceListsWhole ==
  ASSUME MP!Calm
  PROVE  Spec => M!RowsComplete /\ [](M!MetasOnce /\ M!NothingMissed)
<1>1. MP!Spec => MP!RowsComplete /\ [](MP!MetasOnce /\ MP!NothingMissed)
  <2>1. MP!Spec => MP!RowsComplete
    BY MP!RowsAreComplete, Assumptions
  <2>2. MP!Spec => []MP!MetasOnce
    BY MP!MetasStoredOnce, Assumptions
  <2>3. MP!Spec => []MP!NothingMissed
    BY MP!NoneIsMissed, Assumptions
  <2>. QED
    BY <2>1, <2>2, <2>3, PTL
<1>2. MP!MetasOnce /\ MP!NothingMissed => M!MetasOnce /\ M!NothingMissed
  BY DEF MP!MetasOnce, M!MetasOnce, MP!NothingMissed, M!NothingMissed
<1>3. MP!RowsComplete => M!RowsComplete
  BY DEF MP!RowsComplete, M!RowsComplete, MP!Shallow, M!Shallow, MP!vars, M!vars,
    MP!node, M!node, MP!tables, M!tables, MP!local, M!local
<1>. QED
  BY <1>1, <1>2, <1>3, RunsProvedHalves, PTL
=============================================================================
