-------------------------- MODULE BlockSync_proofs --------------------------
(***************************************************************************)
(* Proofs about BlockSync, for every block tree, activation and fast sync  *)
(* height, and wherever reorganisations and faults strike.                 *)
(*                                                                         *)
(* BlocksComplete and NeverConflicts are not inductive: they hold because  *)
(* of what each step of the pass knows of the tables (PassInv) and of what *)
(* a row's height says about its block (HeightsHonest).  IInv is the       *)
(* conjunction, and every theorem below follows from its invariance.       *)
(***************************************************************************)
EXTENDS BlockSync, BlockTree_proofs

IInv == TypeOK /\ HeightsHonest /\ BlocksComplete /\ PassInv

\* Nothing is known, and nothing need be, once a pass has ended.
LEMMA EndPassIInv ==
  ASSUME IInv, EndPass, UNCHANGED <<node, tables>>
  PROVE  IInv'
<1>1. TypeOK'
  BY SyncAssumption DEF IInv, TypeOK, EndPass, node, tables, Points, Rows
<1>2. HeightsHonest' /\ BlocksComplete'
  BY DEF IInv, HeightsHonest, BlocksComplete, node, tables, Rows
<1>3. PassInv'
  BY DEF EndPass, PassInv
<1> QED
  BY <1>1, <1>2, <1>3 DEF IInv

\* The tables say the same after a step that only changes the memory of the
\* pass, or the node's chain.
LEMMA TablesKeepIInv ==
  ASSUME IInv, UNCHANGED tables
  PROVE  HeightsHonest' /\ BlocksComplete' /\ Rows' = Rows /\ Active' = Active
BY DEF IInv, HeightsHonest, BlocksComplete, tables, Rows, Active

\* The scan never gets past Genesis: the row of height 0 always matches.
LEMMA ScanStopsAtGenesis ==
  ASSUME IInv, ScanDiffers
  PROVE  head > 0
<1>1. head \in Int /\ head >= 0 /\ tip \in Blocks
  BY DEF IInv, TypeOK, ScanDiffers, HeightLeft
<1>2. PICK b \in Rows : dbHeight[b] = head /\ ~NodeHas(head, b)
  BY DEF ScanDiffers, Agreed
<1>3. b \in Blocks /\ Height[b] = head
  BY <1>1, <1>2 DEF IInv, TypeOK, HeightsHonest
<1>4. ASSUME head = 0 PROVE FALSE
  <2>1. b = Genesis
    BY <1>3, <1>4, HeightZero
  <2> QED
    BY <1>1, <1>2, <1>3, <2>1, GenesisOnEveryChain DEF NodeHas
<1> QED
  BY <1>1, <1>4

LEMMA InitIInv == Init => IInv
<1> SUFFICES ASSUME Init PROVE IInv
  OBVIOUS
<1>1. Rows = {Deadbeef} /\ dbHeight[Deadbeef] = -1
  BY DEF Init, Rows
<1>2. TypeOK
  BY <1>1, SyncAssumption DEF Init, TypeOK, Points, Rows
<1>3. HeightsHonest /\ BlocksComplete
  BY <1>1, SyncAssumption DEF Init, HeightsHonest, BlocksComplete
<1>4. PassInv
  BY DEF Init, PassInv
<1> QED
  BY <1>2, <1>3, <1>4 DEF IInv

\* What an applied transaction leaves: blk is a row like any other.
LEMMA ApplyIInv ==
  ASSUME IInv, pc = "commit", Apply
  PROVE  /\ Rows' = Rows \cup {blk} /\ Rows' \subseteq Blocks \cup {Deadbeef}
         /\ \A b \in Rows' : dbHeight'[b] = IF b = blk THEN Height[blk]
                                                       ELSE dbHeight[b]
         /\ dbHeight' \in [Rows' -> Int]
         /\ orphans' = orphans \ {blk} /\ orphans' \subseteq Rows'
         /\ txRows' \subseteq Blocks
         /\ metaCopies' \in [Blocks -> Nat]
         /\ HeightsHonest'
         /\ BlocksComplete'
<1>1. /\ blk \in Blocks /\ blk # Deadbeef /\ Height[blk] \in Nat
      /\ "txs" \in txn <=> blk \notin Rows
      /\ "vmeta" \in txn <=> Height[blk] >= ActivationHeight
  BY SyncAssumption, TreeAssumption
  DEF IInv, PassInv, BlockWrites, MetaWrites
<1>2. /\ Rows' = Rows \cup {blk}
      /\ \A b \in Rows' : dbHeight'[b] = IF b = blk THEN Height[blk]
                                                    ELSE dbHeight[b]
      /\ dbHeight' \in [Rows' -> Int]
  BY <1>1 DEF Apply, NewHeight, Rows, IInv, TypeOK
<1>3. orphans' = orphans \ {blk} /\ orphans' \subseteq Rows'
  BY <1>1, <1>2 DEF Apply, Cleared, IInv, TypeOK
<1>4. txRows' = IF blk \in Rows THEN txRows ELSE txRows \cup {blk}
  BY <1>1 DEF Apply, CopiedTxs, InsertedOutputs
<1>5. /\ metaCopies' \in [Blocks -> Nat]
      /\ \A b \in Blocks \ {blk} : metaCopies'[b] = metaCopies[b]
      /\ Height[blk] >= ActivationHeight => metaCopies'[blk] > 0
  BY <1>1 DEF Apply, CopiedTxs, InsertedOutputs, IInv, TypeOK
<1>6. HeightsHonest'
  BY <1>1, <1>2, <1>3 DEF IInv, HeightsHonest
<1>7. BlocksComplete'
  BY <1>1, <1>2, <1>4, <1>5 DEF IInv, TypeOK, BlocksComplete
<1>8. txRows' \subseteq Blocks
  BY <1>1, <1>4 DEF IInv, TypeOK
<1>9. Rows' \subseteq Blocks \cup {Deadbeef}
  BY <1>1, <1>2 DEF IInv, TypeOK
<1> QED
  BY <1>2, <1>3, <1>5, <1>6, <1>7, <1>8, <1>9

LEMMA NextIInv == IInv /\ [Next]_vars => IInv'
<1> SUFFICES ASSUME IInv, [Next]_vars PROVE IInv'
  OBVIOUS
<1> USE DEF node
<1>1. CASE NodeMoves
  <2>1. TypeOK'
    BY <1>1 DEF NodeMoves, IInv, TypeOK, tables, local, Rows
  <2>2. HeightsHonest' /\ BlocksComplete'
    BY <1>1, TablesKeepIInv DEF NodeMoves
  <2>3. PassInv'
    BY <1>1 DEF NodeMoves, IInv, PassInv, tables, local, Active, Rows,
                RowsAfter, BlockWrites, MetaWrites
  <2> QED
    BY <2>1, <2>2, <2>3 DEF IInv
<1>2. CASE BeginPass
  <2>1. PICK b \in Rows : /\ \A c \in Rows : dbHeight[c] <= dbHeight[b]
                          /\ head' = dbHeight[b]
    BY <1>2 DEF BeginPass
  <2>2. head' \in Int /\ head' >= -1
    BY <2>1 DEF IInv, TypeOK, HeightsHonest
  <2>3. TypeOK'
    BY <1>2, <2>2 DEF BeginPass, IInv, TypeOK, tables, Points, Rows
  <2>4. Active' = Active /\ HeightsHonest' /\ BlocksComplete'
    BY <1>2, TablesKeepIInv DEF BeginPass
  <2>5. head' = -1 => Active = {}
    BY <2>1 DEF IInv, TypeOK, Active
  <2>6. PassInv'
    BY <1>2, <2>4, <2>5 DEF BeginPass, PassInv
  <2> QED
    BY <2>3, <2>4, <2>6 DEF IInv
<1>3. CASE ScanMatches
  <2>1. TypeOK'
    BY <1>3 DEF ScanMatches, IInv, TypeOK, tables, Points, Rows
  <2>2. HeightsHonest' /\ BlocksComplete'
    BY <1>3, TablesKeepIInv DEF ScanMatches
  <2>3. PassInv'
    BY <1>3 DEF ScanMatches, HeightLeft, PassInv
  <2> QED
    BY <2>1, <2>2, <2>3 DEF IInv
<1>4. CASE ScanDiffers
  <2>1. head > 0
    BY <1>4, ScanStopsAtGenesis
  <2>2. head \in Int /\ head' = head - 1 /\ pc' = "scan"
    BY <1>4 DEF ScanDiffers, IInv, TypeOK
  <2>3. TypeOK'
    BY <1>4, <2>1, <2>2 DEF ScanDiffers, IInv, TypeOK, tables, Rows
  <2>4. HeightsHonest' /\ BlocksComplete'
    BY <1>4, TablesKeepIInv DEF ScanDiffers
  <2>5. PassInv'
    BY <2>1, <2>2 DEF PassInv
  <2> QED
    BY <2>3, <2>4, <2>5 DEF IInv
<1>5. CASE ScanExhausted
  <2>1. head = -1 /\ head' = -1 /\ pc' = "fetch"
    BY <1>5 DEF ScanExhausted, HeightLeft, IInv, TypeOK
  <2>2. TypeOK'
    BY <1>5 DEF ScanExhausted, IInv, TypeOK, tables, Points, Rows
  <2>3. /\ HeightsHonest' /\ BlocksComplete'
        /\ Rows' = Rows /\ Active' = Active
    BY <1>5, TablesKeepIInv DEF ScanExhausted
  <2>4. Active = {}
    BY <1>5, <2>1 DEF ScanExhausted, IInv, PassInv
  <2>5. RowsAfter(head)' = {}
    BY <1>5, <2>1, <2>4 DEF ScanExhausted, IInv, TypeOK, tables, RowsAfter,
                            Active, Rows
  <2>6. PassInv'
    BY <2>1, <2>3, <2>4, <2>5 DEF PassInv
  <2> QED
    BY <2>2, <2>3, <2>6 DEF IInv
<1>6. CASE ScanFails
  BY <1>6, EndPassIInv DEF ScanFails
<1>7. CASE MarkOrphans
  <2>1. TypeOK' /\ Rows' = Rows
    BY <1>7 DEF MarkOrphans, IInv, TypeOK, Points, Rows, RowsAfter
  <2>2. Deadbeef \notin RowsAfter(head)
    BY <1>7 DEF MarkOrphans, IInv, TypeOK, HeightsHonest, RowsAfter
  <2>3. HeightsHonest' /\ BlocksComplete'
    BY <1>7, <2>1, <2>2
    DEF MarkOrphans, IInv, HeightsHonest, BlocksComplete
  <2>4. RowsAfter(head)' \subseteq orphans'
    BY <1>7, <2>1 DEF MarkOrphans, RowsAfter
  <2>5. PassInv'
    BY <1>7, <2>4 DEF MarkOrphans, IInv, PassInv
  <2> QED
    BY <2>1, <2>3, <2>5 DEF IInv
<1>8. CASE DemoteOrphans
  <2>1. /\ Rows' = Rows
        /\ \A b \in Rows : dbHeight'[b] = IF b \in orphans THEN -2
                                                           ELSE dbHeight[b]
        /\ orphans' = orphans /\ head' = head /\ pc' = "fetch"
    BY <1>8 DEF DemoteOrphans, Demoted, Rows
  <2>2. TypeOK'
    BY <1>8, <2>1 DEF DemoteOrphans, IInv, TypeOK, Points, Rows
  <2>3. HeightsHonest' /\ BlocksComplete'
    BY <1>8, <2>1 DEF DemoteOrphans, IInv, HeightsHonest, BlocksComplete
  <2>4. RowsAfter(head)' = {}
    BY <1>8, <2>1 DEF DemoteOrphans, IInv, TypeOK, PassInv, RowsAfter
  <2>5. (Active \cap orphans)' = {}
    BY <2>1 DEF Active
  <2>6. PassInv'
    BY <2>1, <2>4, <2>5 DEF PassInv
  <2> QED
    BY <2>2, <2>3, <2>6 DEF IInv
<1>9. CASE FetchHash
  <2>1. /\ pc' = "get" /\ head' = head
        /\ blk' \in Blocks /\ Height[blk'] = ResumeHeight(head)
    BY <1>9, TreeAssumption DEF FetchHash, NodeHas
  <2>2. TypeOK'
    BY <1>9, <2>1 DEF FetchHash, IInv, TypeOK, tables, Points, Rows
  <2>3. /\ HeightsHonest' /\ BlocksComplete'
        /\ Rows' = Rows /\ Active' = Active
    BY <1>9, TablesKeepIInv DEF FetchHash
  <2>4. ResumeHeight(head) \in Int /\ ResumeHeight(head) > head
    BY SyncAssumption DEF ResumeHeight, IInv, TypeOK
  <2>5. \A b \in Active : dbHeight[b] <= head
    BY <1>9 DEF FetchHash, IInv, TypeOK, PassInv, RowsAfter, Active
  <2>6. \A b \in Active : dbHeight[b] < Height[blk']
    BY <2>1, <2>4, <2>5 DEF IInv, TypeOK, Active
  <2>7. PassInv'
    BY <1>9, <2>1, <2>3, <2>6 DEF FetchHash, IInv, PassInv, tables
  <2> QED
    BY <2>2, <2>3, <2>7 DEF IInv
<1>10. CASE NothingToFetch
  BY <1>10, EndPassIInv DEF NothingToFetch
<1>11. CASE GetBlock
  <2>1. nxt' \in Successors(blk, tip) \/ nxt' = NoBlock
    BY <1>11 DEF GetBlock
  <2>2. blk \in Blocks
    BY <1>11 DEF GetBlock, IInv, PassInv
  <2>3. nxt' # NoBlock => nxt' \in Blocks /\ Height[nxt'] = Height[blk] + 1
    BY <2>1, TreeAssumption DEF Successors, IInv, TypeOK
  <2>4. TypeOK'
    BY <1>11, <2>1, <2>3 DEF GetBlock, IInv, TypeOK, tables, Points, Rows
  <2>5. HeightsHonest' /\ BlocksComplete' /\ Active' = Active
    BY <1>11, TablesKeepIInv DEF GetBlock
  <2>6. PassInv'
    BY <1>11, <2>3, <2>5 DEF GetBlock, IInv, PassInv, tables
  <2> QED
    BY <2>4, <2>5, <2>6 DEF IInv
<1>12. CASE StoreBitcoinBlock
  <2>1. TypeOK'
    BY <1>12 DEF StoreBitcoinBlock, BlockWrites, IInv, TypeOK, tables, Points,
                 Rows
  <2>2. HeightsHonest' /\ BlocksComplete' /\ Active' = Active /\ Rows' = Rows
    BY <1>12, TablesKeepIInv DEF StoreBitcoinBlock
  <2>3. PassInv'
    BY <1>12, <2>2 DEF StoreBitcoinBlock, IInv, PassInv, tables, BlockWrites
  <2> QED
    BY <2>1, <2>2, <2>3 DEF IInv
<1>13. CASE StoreSpacesTransactions
  <2>1. TypeOK'
    BY <1>13 DEF StoreSpacesTransactions, MetaWrites, IInv, TypeOK, tables,
                 Points, Rows
  <2>2. HeightsHonest' /\ BlocksComplete' /\ Active' = Active /\ Rows' = Rows
    BY <1>13, TablesKeepIInv DEF StoreSpacesTransactions
  <2>3. PassInv'
    BY <1>13, <2>2 DEF StoreSpacesTransactions, IInv, PassInv, tables,
                       BlockWrites, MetaWrites
  <2> QED
    BY <2>1, <2>2, <2>3 DEF IInv
<1>14. CASE Commit
  <2>1. CASE nxt # NoBlock
    <3>1. pc' = "get" /\ blk' = nxt /\ nxt' = NoBlock /\ txn' = {}
          /\ head' = head /\ tip' = tip
      BY <1>14, <2>1 DEF Commit
    <3>2. /\ nxt \in Blocks /\ Height[nxt] = Height[blk] + 1
          /\ Height[blk] \in Nat
          /\ \A b \in Active : dbHeight[b] < Height[blk]
          /\ Active \cap orphans = {}
      BY <1>14, <2>1, TreeAssumption DEF Commit, IInv, TypeOK, PassInv
    <3>3. TypeOK'
      BY <1>14, <3>1, <3>2, ApplyIInv DEF Commit, IInv, TypeOK, Points
    <3>4. HeightsHonest' /\ BlocksComplete'
      BY <1>14, ApplyIInv DEF Commit
    <3>5. \A b \in Active' : /\ b = blk \/ b \in Active
                             /\ b = blk => dbHeight'[b] = Height[blk]
                             /\ b # blk => dbHeight'[b] = dbHeight[b]
      BY <1>14, ApplyIInv DEF Commit, Active
    <3>6. \A b \in Active' : dbHeight'[b] < Height[nxt]
      BY <3>2, <3>5 DEF IInv, TypeOK, Active
    <3>7. Active' \cap orphans' = {}
      BY <1>14, <3>2, <3>5, ApplyIInv DEF Commit
    <3>8. PassInv'
      BY <3>1, <3>2, <3>6, <3>7 DEF PassInv
    <3> QED
      BY <3>3, <3>4, <3>8 DEF IInv
  <2>2. CASE nxt = NoBlock
    <3>1. EndPass /\ Apply /\ pc = "commit" /\ tip' = tip
      BY <1>14, <2>2 DEF Commit
    <3>2. TypeOK' /\ HeightsHonest' /\ BlocksComplete'
      BY <3>1, ApplyIInv DEF EndPass, IInv, TypeOK, Points
    <3>3. PassInv'
      BY <3>1 DEF EndPass, PassInv
    <3> QED
      BY <3>2, <3>3 DEF IInv
  <2> QED
    BY <2>1, <2>2
<1>15. CASE CommitUnanswered
  <2>1. EndPass /\ Apply /\ pc = "commit" /\ tip' = tip
    BY <1>15 DEF CommitUnanswered
  <2>2. TypeOK' /\ HeightsHonest' /\ BlocksComplete'
    BY <2>1, ApplyIInv DEF EndPass, IInv, TypeOK, Points
  <2>3. PassInv'
    BY <2>1 DEF EndPass, PassInv
  <2> QED
    BY <2>2, <2>3 DEF IInv
<1>16. CASE Fail
  BY <1>16, EndPassIInv DEF Fail
<1>17. CASE StoreRefused
  BY <1>17, EndPassIInv DEF StoreRefused
<1>18. CASE UNCHANGED vars
  <2>1. TypeOK'
    BY <1>18 DEF vars, IInv, TypeOK, tables, local, Rows
  <2>2. HeightsHonest' /\ BlocksComplete'
    BY <1>18, TablesKeepIInv DEF vars
  <2>3. PassInv'
    BY <1>18 DEF vars, IInv, PassInv, tables, local, Active, Rows,
                 RowsAfter, BlockWrites, MetaWrites
  <2> QED
    BY <2>1, <2>2, <2>3 DEF IInv
<1> QED
  BY <1>1, <1>2, <1>3, <1>4, <1>5, <1>6, <1>7, <1>8, <1>9, <1>10, <1>11,
     <1>12, <1>13, <1>14, <1>15, <1>16, <1>17, <1>18
  DEF Next, Head, Scan, Load, StoreBlock

LEMMA Invariance == Spec => []IInv
BY InitIInv, NextIInv, PTL DEF Spec

(***************************************************************************)
(* What holds whatever the node, the network and the process do.           *)
(***************************************************************************)

\* Every variable keeps its type.
THEOREM TypeCorrect == Spec => []TypeOK
BY Invariance, PTL DEF IInv

\* A block is indexed with all that belongs to it or not at all.
THEOREM BlocksAreComplete == Spec => []BlocksComplete
BY Invariance, PTL DEF IInv

\* Heights are those of the chain, or mark an orphan; the mempool's row stays.
THEOREM HeightsAreHonest == Spec => []HeightsHonest
BY Invariance, PTL DEF IInv

\* The steps of a pass may rely on what the steps before them established.
THEOREM PassInvHolds == Spec => []PassInv
BY Invariance, PTL DEF IInv

\* The block to be stored never runs into unique_height_index.
THEOREM NoConflict == Spec => []NeverConflicts
<1>1. IInv => NeverConflicts
  <2> SUFFICES ASSUME IInv,
                      pc \in {"fetch", "get", "store", "meta", "commit"}
               PROVE  Active \cap orphans = {} /\ (pc = "store" => ~HeightTaken(blk))
    BY DEF NeverConflicts
  <2>1. Active \cap orphans = {}
    BY DEF IInv, PassInv
  <2>2. ASSUME pc = "store" PROVE ~HeightTaken(blk)
    <3>1. blk \in Blocks /\ \A b \in Active : dbHeight[b] < Height[blk]
      BY <2>2 DEF IInv, PassInv
    <3>2. Height[blk] \in Nat
      BY <3>1, TreeAssumption
    <3> QED
      BY <3>1, <3>2 DEF HeightTaken, Active
  <2> QED
    BY <2>1, <2>2
<1> QED
  BY <1>1, Invariance, PTL

\* The spaces outputs of a block that is shown are never inserted again.
THEOREM NoReinsert == Spec => NoReinsertWhileActive
<1>1. ASSUME IInv, [Next]_vars
      PROVE  [\A b \in Blocks :
                metaCopies'[b] # metaCopies[b] => b \notin Active]_vars
  <2> SUFFICES ASSUME NEW b \in Blocks, metaCopies'[b] # metaCopies[b]
               PROVE  b \notin Active
    OBVIOUS
  <2>1. pc = "commit" /\ Apply
    BY <1>1 DEF Next, Head, Scan, Load, StoreBlock, NodeMoves, BeginPass,
      ScanMatches, ScanDiffers, ScanExhausted, ScanFails, MarkOrphans,
      DemoteOrphans, FetchHash, NothingToFetch, GetBlock, StoreBitcoinBlock,
      StoreSpacesTransactions, StoreRefused, Commit, CommitUnanswered, Fail,
      vars, tables
  <2>2. b = blk
    BY <1>1, <2>1 DEF Apply, CopiedTxs, InsertedOutputs, IInv, TypeOK
  <2>3. /\ blk \in Blocks /\ Height[blk] \in Nat
        /\ \A c \in Active : dbHeight[c] < Height[blk]
    BY <1>1, <2>1, <2>2, TreeAssumption
    DEF IInv, TypeOK, PassInv, HeightsHonest, Active
  <2>4. blk \in Active => dbHeight[blk] = Height[blk]
    BY <1>1, <2>3, SyncAssumption DEF IInv, HeightsHonest, Active
  <2> QED
    BY <2>2, <2>3, <2>4
<1> QED
  BY <1>1, Invariance, PTL DEF Spec, NoReinsertWhileActive
=============================================================================
