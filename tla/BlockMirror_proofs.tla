------------------------- MODULE BlockMirror_proofs -------------------------
(***************************************************************************)
(* BlockSync implements ChainMirror, and shows one linked chain of blocks, *)
(* where the node does not switch branches between the comparison of the   *)
(* hashes and the fetch of the next one, and no pass ends between the two  *)
(* statements that turn rows into orphans.  Without either restriction the *)
(* claim is false: see the runs reorg_in_window and crash_while_demoting.  *)
(*                                                                         *)
(* A pass that runs out of blocks then ends with the chain of a block it   *)
(* found to be the node's last (EInv).  And whatever the node does, the    *)
(* second restriction alone keeps the heights without holes and the        *)
(* demotions above the synced height (HeightsInv).                         *)
(***************************************************************************)
EXTENDS BlockSync_proofs

Calm ==
  /\ ReorgPoints \cap {"mark", "demote", "fetch"} = {}
  /\ "demote" \notin FaultPoints

LInv == IInv /\ ActiveChainLinked /\ PassFollowsChain

\* Nothing that is marked is still shown once a pass has ended.
LEMMA EndPassFollows ==
  ASSUME PassFollowsChain, pc # "demote", EndPass, UNCHANGED tables
  PROVE  PassFollowsChain'
BY DEF PassFollowsChain, EndPass, tables, Active, Rows

\* The blocks stay linked where the tables stay as they are.
LEMMA TablesKeepLinks ==
  ASSUME ActiveChainLinked, UNCHANGED tables
  PROVE  ActiveChainLinked' /\ Active' = Active /\ Rows' = Rows
BY DEF ActiveChainLinked, Linked, tables, Active, Rows

\* The heights of the blocks that are shown are their own.
LEMMA ActiveHeights ==
  ASSUME IInv, NEW b \in Active
  PROVE  b \in Blocks /\ dbHeight[b] = Height[b] /\ Height[b] \in Nat
BY TreeAssumption, SyncAssumption DEF IInv, TypeOK, HeightsHonest, Active

\* A stored block is shown on top of the others.
LEMMA ApplyGrows ==
  ASSUME IInv, pc = "commit", Apply
  PROVE  Active' = Active \cup {blk} /\ blk \in Blocks
<1>1. blk \in Blocks /\ Height[blk] \in Nat
  BY TreeAssumption DEF IInv, PassInv
<1>2. Active' \subseteq Active \cup {blk}
  BY <1>1, ApplyIInv DEF Active
<1>3. Active \cup {blk} \subseteq Active'
  BY <1>1, ApplyIInv DEF Active
<1> QED
  BY <1>1, <1>2, <1>3

LEMMA ApplyLinks ==
  ASSUME LInv, pc = "commit", Apply
  PROVE  ActiveChainLinked' /\ (Active \cap orphans)' = {}
<1>1. Active' = Active \cup {blk} /\ orphans' = orphans \ {blk}
  BY ApplyGrows, ApplyIInv DEF LInv
<1>2. Active \cap orphans = {}
  BY DEF LInv, PassFollowsChain
<1>3. ActiveChainLinked'
  BY <1>1 DEF LInv, ActiveChainLinked, Linked, PassFollowsChain
<1> QED
  BY <1>1, <1>2, <1>3

\* After the demotion exactly the blocks up to the synced height are shown.
LEMMA DemotionCuts ==
  ASSUME IInv, DemoteOrphans, Active \cap orphans \subseteq RowsAfter(head)
  PROVE  /\ Active' = {b \in Active : Height[b] <= head}
         /\ (Active \cap orphans)' = {}
<1>1. /\ Rows' = Rows /\ orphans' = orphans
      /\ \A b \in Rows : dbHeight'[b] = IF b \in orphans THEN -2 ELSE dbHeight[b]
  BY DEF DemoteOrphans, Demoted, Rows
<1>2. Active' = {b \in Active : b \notin orphans}
  BY <1>1 DEF Active
<1>3. \A b \in Active : b \in orphans <=> dbHeight[b] > head
  BY DEF DemoteOrphans, IInv, PassInv, RowsAfter, Active
<1>4. \A b \in Active : b \notin orphans <=> Height[b] <= head
  BY <1>3, ActiveHeights DEF IInv, TypeOK
<1> QED
  BY <1>1, <1>2, <1>4

LEMMA DemoteCuts ==
  ASSUME LInv, DemoteOrphans
  PROVE  /\ Active' = {b \in Active : Height[b] <= head}
         /\ (Active \cap orphans)' = {}
BY DemotionCuts DEF LInv, PassFollowsChain, DemoteOrphans

LEMMA InitLInv == Init => LInv
<1> SUFFICES ASSUME Init PROVE LInv
  OBVIOUS
<1>1. Active = {}
  BY DEF Init, Active, Rows
<1> QED
  BY <1>1, InitIInv
  DEF Init, LInv, ActiveChainLinked, PassFollowsChain

LEMMA NextLInv ==
  ASSUME Calm, LInv, [Next]_vars
  PROVE  LInv'
<1>1. IInv'
  BY NextIInv DEF LInv
<1>2. CASE NodeMoves
  <2>1. UNCHANGED tables /\ UNCHANGED local
    BY <1>2 DEF NodeMoves
  <2>2. ActiveChainLinked' /\ Active' = Active /\ Rows' = Rows
    BY <2>1, TablesKeepLinks DEF LInv
  <2>3. ASSUME pc \in {"mark", "demote", "fetch"}
        PROVE  Ancestors[tip] \subseteq Ancestors[tip']
    BY <1>2, <2>3, ChainOfAncestor DEF Calm, NodeMoves
  <2>4. PassFollowsChain'
    BY <2>1, <2>2, <2>3
    DEF LInv, PassFollowsChain, Linked, tables, local, RowsAfter, NodeHas
  <2> QED
    BY <1>1, <2>2, <2>4 DEF LInv
<1>3. CASE BeginPass
  <2>1. ActiveChainLinked' /\ Active' = Active
    BY <1>3, TablesKeepLinks DEF LInv, BeginPass
  <2>2. PassFollowsChain'
    BY <1>3, <2>1 DEF LInv, BeginPass, PassFollowsChain, tables
  <2> QED
    BY <1>1, <2>1, <2>2 DEF LInv
<1>4. CASE ScanMatches
  <2>1. ActiveChainLinked' /\ Active' = Active
    BY <1>4, TablesKeepLinks DEF LInv, ScanMatches
  <2>2. \E b \in Active : dbHeight[b] = head /\ NodeHas(head, b)
    BY <1>4 DEF ScanMatches, HeightLeft, Agreed, Active
  <2>3. PassFollowsChain'
    BY <1>4, <2>1, <2>2
    DEF LInv, ScanMatches, PassFollowsChain, tables, node, NodeHas
  <2> QED
    BY <1>1, <2>1, <2>3 DEF LInv
<1>5. CASE ScanDiffers \/ ScanExhausted
  <2>1. ActiveChainLinked' /\ Active' = Active
    BY <1>5, TablesKeepLinks DEF LInv, ScanDiffers, ScanExhausted
  <2>2. head \in Int
    BY DEF LInv, IInv, TypeOK
  <2>3. PassFollowsChain'
    BY <1>5, <2>1, <2>2
    DEF LInv, ScanDiffers, ScanExhausted, HeightLeft, PassFollowsChain, tables
  <2> QED
    BY <1>1, <2>1, <2>3 DEF LInv
<1>6. CASE ScanFails \/ NothingToFetch \/ StoreRefused \/ Fail
  <2>1. EndPass /\ UNCHANGED tables /\ pc # "demote"
    BY <1>6 DEF ScanFails, NothingToFetch, StoreRefused, Fail, Calm
  <2>2. ActiveChainLinked' /\ PassFollowsChain'
    BY <2>1, EndPassFollows, TablesKeepLinks DEF LInv
  <2> QED
    BY <1>1, <2>2 DEF LInv
<1>7. CASE MarkOrphans
  <2>1. /\ Active' = Active /\ Rows' = Rows /\ dbHeight' = dbHeight
        /\ head' = head /\ tip' = tip /\ pc' = "demote"
        /\ orphans' = orphans \cup RowsAfter(head)
    BY <1>7 DEF MarkOrphans, Active, Rows, node
  <2>2. Active \cap orphans = {}
    BY <1>7 DEF LInv, MarkOrphans, PassFollowsChain
  <2>3. ActiveChainLinked'
    BY <2>1 DEF LInv, ActiveChainLinked, Linked
  <2>4. PassFollowsChain'
    BY <1>7, <2>1, <2>2
    DEF LInv, MarkOrphans, PassFollowsChain, RowsAfter, NodeHas
  <2> QED
    BY <1>1, <2>3, <2>4 DEF LInv
<1>8. CASE DemoteOrphans
  <2>1. /\ Active' = {b \in Active : Height[b] <= head}
        /\ (Active \cap orphans)' = {}
    BY <1>8, DemoteCuts
  <2>2. \A b \in Active' : dbHeight'[b] = dbHeight[b]
    BY <1>8 DEF DemoteOrphans, Demoted, Active, Rows
  <2>3. ActiveChainLinked'
    <3> SUFFICES ASSUME NEW b \in Active', Height[b] # FastSyncHeight + 1
                 PROVE  Height[b] > FastSyncHeight + 1 /\ Parent[b] \in Active'
      BY DEF ActiveChainLinked, Linked
    <3>1. /\ b \in Active /\ Height[b] <= head
          /\ Height[b] > FastSyncHeight + 1 /\ Parent[b] \in Active
      BY <2>1 DEF LInv, ActiveChainLinked, Linked
    <3>2. b \in Blocks /\ Parent[b] \in Blocks
      BY <3>1, ActiveHeights DEF LInv
    <3>3. Height[Parent[b]] \in Nat /\ Height[b] \in Nat /\ head \in Int
      BY <3>2, TreeAssumption DEF LInv, IInv, TypeOK
    <3>4. Height[Parent[b]] <= Height[b]
      BY <3>2, <3>3, TreeAssumption
    <3> QED
      BY <2>1, <3>1, <3>3, <3>4
  <2>4. PassFollowsChain'
    <3>1. pc' = "fetch" /\ head' = head /\ tip' = tip
      BY <1>8 DEF DemoteOrphans, node
    <3>2. ASSUME head >= 0
          PROVE  \E b \in Active' : dbHeight'[b] = head /\ NodeHas(head, b)
      <4>1. PICK b \in Active : dbHeight[b] = head /\ NodeHas(head, b)
        BY <1>8, <3>2 DEF LInv, DemoteOrphans, PassFollowsChain
      <4>2. Height[b] = head /\ Height[b] \in Nat
        BY <4>1, ActiveHeights DEF LInv
      <4>3. b \in Active'
        BY <2>1, <4>2
      <4> QED
        BY <2>2, <4>1, <4>2, <4>3
    <3> QED
      BY <2>1, <3>1, <3>2 DEF PassFollowsChain, NodeHas
  <2> QED
    BY <1>1, <2>3, <2>4 DEF LInv
<1>9. CASE FetchHash
  <2>1. /\ ActiveChainLinked' /\ Active' = Active
        /\ orphans' = orphans /\ pc' = "get"
    BY <1>9, TablesKeepLinks DEF LInv, FetchHash, tables
  <2>2. NodeHas(ResumeHeight(head), blk')
    BY <1>9 DEF FetchHash
  <2>3. head \in Int /\ FastSyncHeight \in Int /\ FastSyncHeight >= -1
    BY SyncAssumption DEF LInv, IInv, TypeOK
  <2>4. ASSUME Height[blk'] # FastSyncHeight + 1
        PROVE  Height[blk'] > FastSyncHeight + 1 /\ Parent[blk'] \in Active
    <3>1. /\ ResumeHeight(head) = head + 1 /\ head >= 0
          /\ Height[blk'] > FastSyncHeight + 1
      BY <2>2, <2>3, <2>4 DEF NodeHas, ResumeHeight
    <3>2. PICK b \in Active : dbHeight[b] = head /\ NodeHas(head, b)
      BY <1>9, <3>1 DEF LInv, FetchHash, PassFollowsChain
    <3>3. tip \in Blocks /\ blk' \in Ancestors[tip] /\ Height[blk'] = head + 1
      BY <2>2, <3>1 DEF NodeHas, LInv, IInv, TypeOK
    <3>4. blk' \in Blocks /\ blk' # Genesis
      BY <2>3, <3>1, <3>3, TreeAssumption
    <3>5. Parent[blk'] \in Ancestors[tip]
      BY <3>3, <3>4, ParentOnChain
    <3>6. Height[Parent[blk']] = head
      <4>1. Height[blk'] = Height[Parent[blk']] + 1
        BY <3>4, TreeAssumption
      <4>2. Height[Parent[blk']] \in Nat
        BY <3>4, TreeAssumption
      <4> QED
        BY <2>3, <3>3, <4>1, <4>2
    <3> QED
      BY <3>1, <3>2, <3>3, <3>5, <3>6, OneBlockPerHeight DEF NodeHas
  <2>5. PassFollowsChain'
    BY <1>9, <2>1, <2>4 DEF LInv, FetchHash, PassFollowsChain, Linked
  <2> QED
    BY <1>1, <2>1, <2>5 DEF LInv
<1>10. CASE GetBlock
  <2>1. /\ ActiveChainLinked' /\ Active' = Active
        /\ orphans' = orphans /\ pc' = "store" /\ blk' = blk
    BY <1>10, TablesKeepLinks DEF LInv, GetBlock, tables
  <2>2. nxt' # NoBlock => Parent[nxt'] = blk
    BY <1>10 DEF GetBlock, Successors
  <2>3. PassFollowsChain'
    BY <1>10, <2>1, <2>2 DEF LInv, GetBlock, PassFollowsChain, Linked
  <2> QED
    BY <1>1, <2>1, <2>3 DEF LInv
<1>11. CASE StoreBitcoinBlock \/ StoreSpacesTransactions
  <2>1. /\ ActiveChainLinked' /\ Active' = Active
        /\ orphans' = orphans /\ blk' = blk /\ nxt' = nxt
        /\ pc \in {"store", "meta"} /\ pc' \in {"meta", "commit"}
    BY <1>11, TablesKeepLinks
    DEF LInv, StoreBitcoinBlock, StoreSpacesTransactions, tables
  <2>2. PassFollowsChain'
    BY <2>1 DEF LInv, PassFollowsChain, Linked
  <2> QED
    BY <1>1, <2>1, <2>2 DEF LInv
<1>12. CASE Commit \/ CommitUnanswered
  <2>1. pc = "commit" /\ Apply
    BY <1>12 DEF Commit, CommitUnanswered
  <2>2. /\ ActiveChainLinked' /\ (Active \cap orphans)' = {}
        /\ Active' = Active \cup {blk}
    BY <2>1, ApplyLinks, ApplyGrows DEF LInv
  <2>3. \/ pc' = "idle"
        \/ nxt # NoBlock /\ pc' = "get" /\ blk' = nxt
    BY <1>12 DEF Commit, CommitUnanswered, EndPass
  <2>4. nxt # NoBlock => /\ Parent[nxt] = blk
                         /\ Height[nxt] = Height[blk] + 1
                         /\ Height[blk] >= FastSyncHeight + 1
    BY <2>1, SyncAssumption, TreeAssumption
    DEF LInv, IInv, PassInv, PassFollowsChain, Linked
  <2>5. nxt # NoBlock => Height[nxt] > FastSyncHeight + 1
    BY <2>1, <2>4, SyncAssumption, TreeAssumption DEF LInv, IInv, PassInv
  <2>6. PassFollowsChain'
    BY <2>2, <2>3, <2>4, <2>5 DEF PassFollowsChain, Linked
  <2> QED
    BY <1>1, <2>2, <2>6 DEF LInv
<1>13. CASE UNCHANGED vars
  <2>1. ActiveChainLinked' /\ Active' = Active /\ Rows' = Rows
    BY <1>13, TablesKeepLinks DEF LInv, vars
  <2>2. PassFollowsChain'
    BY <1>13, <2>1
    DEF vars, local, tables, node, LInv, PassFollowsChain, Linked, RowsAfter, NodeHas
  <2> QED
    BY <1>1, <2>1, <2>2 DEF LInv
<1> QED
  BY <1>2, <1>3, <1>4, <1>5, <1>6, <1>7, <1>8, <1>9, <1>10, <1>11, <1>12,
     <1>13
  DEF Next, Head, Scan, Load, StoreBlock

LEMMA LInvariance ==
  ASSUME Calm
  PROVE  Spec => []LInv
<1>1. LInv /\ [Next]_vars => LInv'
  BY NextLInv
<1> QED
  BY <1>1, InitLInv, PTL DEF Spec

\* Under every block that is shown, down to the first indexed height, is its
\* parent.
THEOREM ChainLinked ==
  ASSUME Calm
  PROVE  Spec => []ActiveChainLinked
BY LInvariance, PTL DEF LInv

\* From the comparison of the hashes to the store, the pass stays on the node's
\* chain.
THEOREM FollowsChain ==
  ASSUME Calm
  PROVE  Spec => []PassFollowsChain
BY LInvariance, PTL DEF LInv

\* Any other step leaves the blocks shown as they are.
LEMMA OthersStutter ==
  ASSUME IInv, [Next]_vars, ~DemoteOrphans,
         ~(pc = "commit" /\ Apply)
  PROVE  Active' = Active
<1>1. \/ UNCHANGED tables
      \/ MarkOrphans
  BY DEF Next, Head, Scan, Load, StoreBlock, NodeMoves, BeginPass, ScanMatches,
    ScanDiffers, ScanExhausted, ScanFails, FetchHash, NothingToFetch, GetBlock,
    StoreBitcoinBlock, StoreSpacesTransactions, StoreRefused, Commit,
    CommitUnanswered, Fail, vars
<1> QED
  BY <1>1 DEF MarkOrphans, tables, Active, Rows

-----------------------------------------------------------------------------
(***************************************************************************)
(* The refinement.                                                         *)
(***************************************************************************)

\* A chain that hangs together and is not empty reaches the first height.
LEMMA ReachesBase ==
  ASSUME LInv, Active # {}
  PROVE  \E b \in Active : Height[b] = FastSyncHeight + 1
<1>1. Active \in SUBSET Blocks
  BY ActiveHeights DEF LInv
<1>2. PICK b \in Active : \A c \in Active : Height[b] <= Height[c]
  BY <1>1, LowestBlock
<1>3. CASE Height[b] = FastSyncHeight + 1
  BY <1>3
<1>4. CASE Height[b] > FastSyncHeight + 1 /\ Parent[b] \in Active
  <2>1. b \in Blocks \ {Genesis}
    BY <1>1, <1>4, SyncAssumption, TreeAssumption
  <2>2. Height[b] = Height[Parent[b]] + 1 /\ Height[Parent[b]] \in Nat
    BY <2>1, TreeAssumption
  <2> QED
    BY <1>2, <1>4, <2>2
<1> QED
  BY <1>3, <1>4 DEF LInv, ActiveChainLinked, Linked

\* A commit is a step of the mirror: its first block or a child of its last.
LEMMA CommitRefines ==
  ASSUME LInv, pc = "commit", Apply
  PROVE  \E b \in Blocks : Mirror!Start(b) \/ Mirror!Grow(b)
<1>1. /\ blk \in Blocks /\ Height[blk] \in Nat
      /\ \A b \in Active : dbHeight[b] < Height[blk]
      /\ Linked(blk)
  BY TreeAssumption DEF LInv, IInv, PassInv, PassFollowsChain
<1>2. \A b \in Active : Height[b] < Height[blk]
  BY <1>1, ActiveHeights DEF LInv
<1>3. Active' = Active \cup {blk}
  BY ApplyGrows DEF LInv
<1>4. CASE Height[blk] = FastSyncHeight + 1
  <2>1. Active = {}
    BY <1>1, <1>2, <1>4, ReachesBase
  <2> QED
    BY <1>1, <1>3, <1>4, <2>1 DEF Mirror!Start
<1>5. CASE Parent[blk] \in Active
  BY <1>1, <1>2, <1>3, <1>5 DEF Mirror!Grow
<1> QED
  BY <1>1, <1>4, <1>5 DEF Linked

\* The demotion is one too: it cuts the mirror back to the synced block.
LEMMA DemoteRefines ==
  ASSUME LInv, DemoteOrphans
  PROVE  \E t \in Active : Mirror!CutBack(t)
<1>1. Active' = {b \in Active : Height[b] <= head}
  BY DemoteCuts
<1>2. PICK t \in Active : dbHeight[t] = head
  BY DEF LInv, IInv, PassInv, PassFollowsChain, DemoteOrphans
<1>3. Height[t] = head
  BY <1>2, ActiveHeights DEF LInv
<1> QED
  BY <1>1, <1>2, <1>3 DEF Mirror!CutBack

\* The blocks shown are one path of the tree that grows at its end and is cut
\* back to one of its own blocks, and never anything else.
THEOREM MirrorImplemented ==
  ASSUME Calm
  PROVE  Spec => ImplementsMirror
<1>1. Init => Mirror!Init
  BY DEF Init, Mirror!Init, Active, Rows
<1>2. LInv /\ [Next]_vars => [Mirror!Next]_Active
  <2> SUFFICES ASSUME LInv, [Next]_vars
               PROVE  [Mirror!Next]_Active
    OBVIOUS
  <2>1. CASE DemoteOrphans
    BY <2>1, DemoteRefines DEF Mirror!Next
  <2>2. CASE pc = "commit" /\ Apply
    BY <2>2, CommitRefines DEF Mirror!Next
  <2>3. CASE ~DemoteOrphans /\ ~(pc = "commit" /\ Apply)
    BY <2>3, OthersStutter DEF LInv
  <2> QED
    BY <2>1, <2>2, <2>3
<1> QED
  BY <1>1, <1>2, LInvariance, PTL DEF Spec, ImplementsMirror, Mirror!Spec

-----------------------------------------------------------------------------
(***************************************************************************)
(* What is shown is exactly what the pass can get to, where it ends.       *)
(***************************************************************************)

OneRowPerHeight == \A b, c \in Active : Height[b] = Height[c] => b = c

\* Rows are only demoted, or one is added above all the others.
LEMMA NextOneRow ==
  ASSUME LInv, OneRowPerHeight, [Next]_vars
  PROVE  OneRowPerHeight'
<1>1. CASE DemoteOrphans
  BY <1>1, DemoteCuts DEF OneRowPerHeight
<1>2. CASE pc = "commit" /\ Apply
  <2>1. Active' = Active \cup {blk} /\ blk \in Blocks
    BY <1>2, ApplyGrows DEF LInv
  <2>2. \A b \in Active : Height[b] < Height[blk] /\ Height[b] \in Nat
    BY <1>2, ActiveHeights DEF LInv, IInv, PassInv
  <2>3. Height[blk] \in Nat
    BY <2>1, TreeAssumption
  <2> QED
    BY <2>1, <2>2, <2>3 DEF OneRowPerHeight
<1>3. CASE ~DemoteOrphans /\ ~(pc = "commit" /\ Apply)
  BY <1>3, OthersStutter DEF LInv, OneRowPerHeight
<1> QED
  BY <1>1, <1>2, <1>3

\* No block is shown that the store does not know how to store.
ShownStorable ==
  /\ \A b \in Active : Storable(b)
  /\ pc = "commit" => Storable(blk)

LEMMA NextStorable ==
  ASSUME LInv, ShownStorable, [Next]_vars
  PROVE  ShownStorable'
<1>1. \A b : Storable(b)' <=> Storable(b)
  BY DEF Storable, MetaWrites
<1>2. Active' \subseteq Active \/ (pc = "commit" /\ Active' = Active \cup {blk})
  <2>1. CASE DemoteOrphans
    BY <2>1, DemoteCuts
  <2>2. CASE pc = "commit" /\ Apply
    BY <2>2, ApplyGrows DEF LInv
  <2>3. CASE ~DemoteOrphans /\ ~(pc = "commit" /\ Apply)
    BY <2>3, OthersStutter DEF LInv
  <2> QED
    BY <2>1, <2>2, <2>3
<1>3. \A b \in Active' : Storable(b)
  BY <1>2 DEF ShownStorable
<1>4. pc' = "commit" => \/ StoreSpacesTransactions
                        \/ pc = "commit" /\ blk' = blk
  BY DEF Next, Head, Scan, Load, StoreBlock, NodeMoves, BeginPass, ScanMatches,
    ScanDiffers, ScanExhausted, ScanFails, MarkOrphans, DemoteOrphans, FetchHash,
    NothingToFetch, GetBlock, StoreBitcoinBlock, StoreRefused, Commit,
    CommitUnanswered, Fail, EndPass, vars, local
<1>5. pc' = "commit" => Storable(blk')
  BY <1>4 DEF ShownStorable, StoreSpacesTransactions
<1> QED
  BY <1>1, <1>3, <1>5 DEF ShownStorable

EInv == LInv /\ OneRowPerHeight /\ ShownStorable

\* Linked blocks reach down to the first indexed height.
LEMMA ShownDownwards ==
  ASSUME IInv, ActiveChainLinked,
         NEW b \in Active, NEW d \in Ancestors[b], Height[d] > FastSyncHeight
  PROVE  d \in Active
<1> DEFINE S == {x \in Active : \E e \in Ancestors[x] :
                   Height[e] > FastSyncHeight /\ e \notin Active}
<1>1. SUFFICES ASSUME S # {} PROVE FALSE
  OBVIOUS
<1>2. S \subseteq Blocks
  BY ActiveHeights
<1>3. PICK x \in S : \A y \in S : Height[x] <= Height[y]
  BY <1>1, <1>2, LowestBlock
<1>4. PICK e \in Ancestors[x] : Height[e] > FastSyncHeight /\ e \notin Active
  OBVIOUS
<1>5. x \in Blocks /\ x \in Active /\ x # e
  BY <1>2, <1>4
<1>6. x # Genesis
  BY <1>4, <1>5, TreeAssumption
<1>7. /\ Parent[x] \in Blocks
      /\ Height[x] = Height[Parent[x]] + 1
      /\ e \in Ancestors[Parent[x]]
  BY <1>4, <1>5, <1>6, TreeAssumption
<1>8. Height[e] \in Nat /\ Height[Parent[x]] \in Nat /\ FastSyncHeight \in Int
  BY <1>4, <1>5, <1>7, TreeAssumption, SyncAssumption
<1>9. Height[e] <= Height[Parent[x]]
  <2>1. e # Parent[x] => Height[e] < Height[Parent[x]]
    BY <1>7, EndIsHighest
  <2> QED
    BY <1>8, <2>1
<1>10. Parent[x] \in Active
  <2>1. Height[x] # FastSyncHeight + 1
    BY <1>4, <1>7, <1>8, <1>9
  <2> QED
    BY <1>5, <2>1 DEF ActiveChainLinked, Linked
<1>11. Parent[x] \in S
  BY <1>4, <1>7, <1>10
<1> HIDE DEF S
<1> QED
  BY <1>3, <1>7, <1>8, <1>11

\* Below a block that is shown nothing is shown but its chain.
LEMMA ShownBelow ==
  ASSUME EInv, NEW b \in Active, NEW c \in Active, Height[c] <= Height[b]
  PROVE  c \in Ancestors[b]
<1>1. /\ b \in Blocks /\ c \in Blocks
      /\ Height[c] \in Nat /\ Height[b] \in Nat /\ FastSyncHeight \in Int
  BY ActiveHeights, SyncAssumption DEF EInv, LInv
<1>2. Height[c] > FastSyncHeight
  BY <1>1 DEF EInv, LInv, ActiveChainLinked, Linked
<1>3. PICK d \in Ancestors[b] : Height[d] = Height[c]
  BY <1>1, ChainHasHeight
<1>4. d \in Active
  BY <1>2, <1>3, ShownDownwards DEF EInv, LInv
<1> QED
  BY <1>3, <1>4 DEF EInv, OneRowPerHeight

\* A block that is shown on the node's chain is one that the pass can get to.
LEMMA ShownIsReachable ==
  ASSUME EInv, NEW c \in Active, c \in Ancestors[tip]
  PROVE  c \in Reachable
<1>1. c \in Blocks /\ Height[c] \in Nat /\ FastSyncHeight \in Int
  BY ActiveHeights, SyncAssumption DEF EInv, LInv
<1>2. Height[c] > FastSyncHeight
  BY <1>1 DEF EInv, LInv, ActiveChainLinked, Linked
<1>3. \A d \in Ancestors[c] : Height[d] > FastSyncHeight => Storable(d)
  BY ShownDownwards DEF EInv, LInv, ShownStorable
<1> QED
  BY <1>2, <1>3 DEF Reachable

\* The block to be stored stands on the blocks that are shown, and all of them
\* are below it on its chain.
LEMMA ShownUnderBlk ==
  ASSUME EInv, pc \in {"get", "store", "meta", "commit"}
  PROVE  /\ blk \in Blocks /\ Height[blk] > FastSyncHeight
         /\ Active = {c \in Ancestors[blk] \ {blk} : Height[c] > FastSyncHeight}
<1>1. /\ blk \in Blocks /\ Height[blk] \in Nat /\ FastSyncHeight \in Int
      /\ FastSyncHeight >= -1
      /\ Linked(blk) /\ \A c \in Active : Height[c] < Height[blk]
  BY TreeAssumption, SyncAssumption, ActiveHeights
  DEF EInv, LInv, IInv, PassInv, PassFollowsChain
<1>2. Height[blk] > FastSyncHeight
  BY <1>1 DEF Linked
<1>3. Height[blk] # FastSyncHeight + 1 =>
        /\ blk # Genesis /\ Parent[blk] \in Active
        /\ Height[blk] = Height[Parent[blk]] + 1 /\ Height[Parent[blk]] \in Nat
        /\ Ancestors[blk] = Ancestors[Parent[blk]] \cup {blk}
  BY <1>1, TreeAssumption DEF Linked
<1>4. ASSUME NEW c \in Active
      PROVE  c \in Ancestors[blk] \ {blk} /\ Height[c] > FastSyncHeight
  <2>1. Height[c] > FastSyncHeight /\ Height[c] < Height[blk] /\ Height[c] \in Nat
    BY <1>1, ActiveHeights DEF EInv, LInv, ActiveChainLinked, Linked
  <2>2. Height[blk] # FastSyncHeight + 1
    BY <1>1, <2>1
  <2>3. c \in Ancestors[Parent[blk]]
    BY <1>3, <2>1, <2>2, ShownBelow
  <2> QED
    BY <1>1, <1>3, <2>1, <2>2, <2>3
<1>5. ASSUME NEW c \in Ancestors[blk] \ {blk}, Height[c] > FastSyncHeight
      PROVE  c \in Active
  <2>1. Height[c] \in Nat /\ Height[c] < Height[blk]
    BY <1>1, EndIsHighest, TreeAssumption
  <2>2. Height[blk] # FastSyncHeight + 1
    BY <1>1, <1>5, <2>1
  <2> QED
    BY <1>3, <1>5, <2>2, ShownDownwards DEF EInv, LInv
<1> QED
  BY <1>1, <1>2, <1>4, <1>5

LEMMA SyncedWhereItEnds ==
  ASSUME EInv
  PROVE  EndsSynced
<1>1. tip \in Blocks /\ head \in Int /\ FastSyncHeight \in Int /\ FastSyncHeight >= -1
  BY SyncAssumption DEF EInv, LInv, IInv, TypeOK
<1>2. Height[tip] \in Nat /\ \A b \in Ancestors[tip] : b \in Blocks /\ Height[b] \in Nat
  BY <1>1, TreeAssumption
<1>3. ASSUME pc = "fetch", NothingAbove
      PROVE  Active = Reachable
  <2>1. \A b \in Active : Height[b] <= head
    BY <1>1, <1>3, ActiveHeights DEF EInv, LInv, IInv, PassInv, RowsAfter, Active
  <2>2. CASE head < 0
    <3>1. Active = {}
      BY <1>1, <2>1, <2>2, ActiveHeights DEF EInv, LInv
    <3>2. Height[tip] <= FastSyncHeight
      BY <1>1, <1>2, <1>3, <2>2 DEF NothingAbove, OutOfRange, ResumeHeight
    <3>3. \A b \in Ancestors[tip] : Height[b] <= FastSyncHeight
      BY <1>1, <1>2, <3>2, EndIsHighest
    <3> QED
      BY <1>1, <1>2, <3>1, <3>3 DEF Reachable
  <2>3. CASE head >= 0
    <3>1. PICK b \in Active : dbHeight[b] = head /\ NodeHas(head, b)
      BY <1>3, <2>3 DEF EInv, LInv, PassFollowsChain
    <3>2. b \in Blocks /\ b \in Ancestors[tip] /\ Height[b] = head
      BY <1>2, <3>1 DEF NodeHas
    <3>3. head > FastSyncHeight
      BY <1>1, <3>1, <3>2 DEF EInv, LInv, ActiveChainLinked, Linked
    <3>4. Height[tip] <= head
      BY <1>1, <1>2, <1>3, <3>3 DEF NothingAbove, OutOfRange, ResumeHeight
    <3>5. b = tip
      BY <1>1, <1>2, <3>2, <3>4, EndIsHighest
    <3>6. Active \subseteq Reachable
      BY <2>1, <3>2, <3>1, <3>5, ShownBelow, ShownIsReachable
    <3>7. Reachable \subseteq Active
      BY <3>1, <3>5, ShownDownwards DEF Reachable, EInv, LInv
    <3> QED
      BY <3>6, <3>7
  <2> QED
    BY <1>1, <2>2, <2>3
<1>4. ASSUME pc = "meta", blk \in Ancestors[tip], ~Storable(blk)
      PROVE  Active = Reachable
  <2>1. /\ blk \in Blocks /\ Height[blk] > FastSyncHeight
        /\ Active = {c \in Ancestors[blk] \ {blk} : Height[c] > FastSyncHeight}
    BY <1>4, ShownUnderBlk
  <2>2. Active \subseteq Reachable
    BY <1>1, <1>4, <2>1, ChainOfAncestor, ShownIsReachable
  <2>3. ASSUME NEW b \in Reachable
        PROVE  b \in Active
    <3>1. /\ b \in Ancestors[tip] /\ Height[b] > FastSyncHeight
          /\ blk \notin Ancestors[b]
      BY <1>4, <2>1 DEF Reachable
    <3>2. Height[b] < Height[blk]
      BY <1>1, <1>2, <1>4, <3>1, LowerOnChain
    <3>3. b \in Ancestors[blk] /\ b # blk
      BY <1>1, <1>2, <1>4, <3>1, <3>2, LowerOnChain
    <3> QED
      BY <2>1, <3>1, <3>3
  <2> QED
    BY <2>2, <2>3
<1>5. ASSUME pc = "commit", blk = tip
      PROVE  Active \cup {blk} = Reachable
  <2>1. /\ Height[blk] > FastSyncHeight
        /\ Active = {c \in Ancestors[blk] \ {blk} : Height[c] > FastSyncHeight}
    BY <1>5, ShownUnderBlk
  <2>2. Active \subseteq Reachable
    BY <1>5, <2>1, ShownIsReachable
  <2>3. \A c \in Ancestors[blk] : Height[c] > FastSyncHeight => Storable(c)
    BY <1>5, <2>1 DEF EInv, ShownStorable
  <2>4. blk \in Reachable
    BY <1>1, <1>5, <2>1, <2>3, EndOfChain DEF Reachable
  <2> QED
    BY <1>5, <2>1, <2>2, <2>4 DEF Reachable
<1> QED
  BY <1>3, <1>4, <1>5 DEF EndsSynced

\* A pass leaves nothing out and nothing too much.
THEOREM PassEndsSynced ==
  ASSUME Calm
  PROVE  Spec => []EndsSynced
<1>1. Init => EInv
  <2>1. Init => Active = {} /\ pc = "idle"
    BY DEF Init, Active, Rows
  <2> QED
    BY <2>1, InitLInv DEF EInv, OneRowPerHeight, ShownStorable
<1>2. EInv /\ [Next]_vars => EInv'
  BY NextLInv, NextOneRow, NextStorable DEF EInv
<1>3. EInv => EndsSynced
  BY SyncedWhereItEnds
<1> QED
  BY <1>1, <1>2, <1>3, PTL DEF Spec

-----------------------------------------------------------------------------
(***************************************************************************)
(* Only stale blocks are demoted, where no switch falls into the scan      *)
(* either: what the scan has passed is off the node's chain, and stays off *)
(* it however that chain grows, for the node has a block of its own there. *)
(***************************************************************************)

PassedIsStale ==
  pc \in {"scan", "mark", "demote"} =>
    \A b \in Active : Height[b] > head =>
      b \notin Ancestors[tip] /\ Height[b] <= Height[tip]

SInv == LInv /\ OneRowPerHeight /\ PassedIsStale

\* A block off the node's chain, where the node has another one of its height,
\* does not get on it as the chain grows.
LEMMA StaleStays ==
  ASSUME tip \in Blocks, tip' \in Blocks, tip \in Ancestors[tip'],
         NEW b \in Blocks, b \notin Ancestors[tip], Height[b] <= Height[tip]
  PROVE  b \notin Ancestors[tip'] /\ Height[b] <= Height[tip']
<1>1. b \notin Ancestors[tip']
  BY LowerOnChain
<1>2. Height[tip] <= Height[tip']
  BY EndIsHighest, TreeAssumption
<1>3. Height[b] \in Nat /\ Height[tip] \in Nat /\ Height[tip'] \in Nat
  BY TreeAssumption
<1> QED
  BY <1>1, <1>2, <1>3

LEMMA NextPassed ==
  ASSUME Calm, "scan" \notin ReorgPoints, SInv, [Next]_vars
  PROVE  PassedIsStale'
<1>1. /\ tip \in Blocks /\ head \in Int
      /\ \A b \in Active : b \in Blocks /\ dbHeight[b] = Height[b]
                         /\ Height[b] \in Nat
  BY ActiveHeights DEF SInv, LInv, IInv, TypeOK
<1>2. CASE NodeMoves
  <2>1. /\ UNCHANGED <<pc, head>> /\ Active' = Active /\ tip' \in Blocks
        /\ pc \in {"scan", "mark", "demote"} => tip \in Ancestors[tip']
    BY <1>2 DEF NodeMoves, Calm, local, tables, Active, Rows
  <2> QED
    BY <1>1, <2>1, StaleStays DEF SInv, PassedIsStale
<1>3. CASE BeginPass
  <2>1. \A b \in Active : dbHeight[b] <= head'
    BY <1>3 DEF BeginPass, Active
  <2>2. Active' = Active /\ head' \in Int
    BY <1>3, <1>1, NextIInv
    DEF BeginPass, tables, Active, Rows, SInv, LInv, IInv, TypeOK
  <2> QED
    BY <1>1, <2>1, <2>2 DEF PassedIsStale
<1>4. CASE ScanMatches \/ MarkOrphans
  <2>1. /\ pc \in {"scan", "mark"} /\ head' = head /\ tip' = tip
        /\ Active' = Active
    BY <1>4 DEF ScanMatches, MarkOrphans, node, tables, Active, Rows
  <2> QED
    BY <2>1 DEF SInv, PassedIsStale
<1>5. CASE ScanDiffers
  <2>1. /\ pc = "scan" /\ pc' = pc /\ head' = head - 1 /\ tip' = tip
        /\ Active' = Active /\ head >= 0 /\ head <= Height[tip]
    BY <1>5, <1>1, TreeAssumption
    DEF ScanDiffers, HeightLeft, OutOfRange, node, tables, Active, Rows
  <2>2. PICK c \in Active : Height[c] = head /\ c \notin Ancestors[tip]
    BY <1>5, <1>1, <2>1 DEF ScanDiffers, Agreed, NodeHas, Active
  <2>3. ASSUME NEW b \in Active, Height[b] > head - 1
        PROVE  b \notin Ancestors[tip] /\ Height[b] <= Height[tip]
    <3>1. CASE Height[b] = head
      BY <2>1, <2>2, <3>1 DEF SInv, OneRowPerHeight
    <3>2. CASE Height[b] > head
      BY <2>1, <3>2 DEF SInv, PassedIsStale
    <3> QED
      BY <1>1, <2>3, <3>1, <3>2
  <2> QED
    BY <2>1, <2>3 DEF PassedIsStale
<1>6. CASE UNCHANGED vars
  BY <1>6 DEF vars, node, local, tables, Active, Rows, SInv, PassedIsStale
<1>7. pc' \in {"scan", "mark", "demote"} =>
        \/ NodeMoves \/ BeginPass \/ ScanMatches \/ ScanDiffers
        \/ MarkOrphans \/ UNCHANGED vars
  BY DEF Next, Head, Scan, Load, StoreBlock, ScanExhausted, ScanFails,
    DemoteOrphans, FetchHash, NothingToFetch, GetBlock, StoreBitcoinBlock,
    StoreSpacesTransactions, StoreRefused, Commit, CommitUnanswered, Fail, EndPass
<1> QED
  BY <1>2, <1>3, <1>4, <1>5, <1>6, <1>7 DEF PassedIsStale

\* GetSyncedHead never takes a block off the explorer that the node still has.
THEOREM OnlyStaleDemoted ==
  ASSUME Calm, "scan" \notin ReorgPoints
  PROVE  Spec => DemotesOnlyStale
<1>1. Init => SInv
  <2>1. Init => Active = {} /\ pc = "idle"
    BY DEF Init, Active, Rows
  <2> QED
    BY <2>1, InitLInv DEF SInv, OneRowPerHeight, PassedIsStale
<1>2. SInv /\ [Next]_vars => SInv'
  BY NextLInv, NextOneRow, NextPassed DEF SInv
<1>3. ASSUME SInv, [Next]_vars
      PROVE  [\A b \in Active : b \in Ancestors[tip] => b \in Active']_vars
  <2>1. CASE DemoteOrphans
    <3>1. pc = "demote" /\ Active' = {b \in Active : Height[b] <= head}
      BY <1>3, <2>1, DemoteCuts DEF SInv, DemoteOrphans
    <3>2. \A b \in Active : Height[b] \in Nat /\ head \in Int
      BY <1>3, ActiveHeights DEF SInv, LInv, IInv, TypeOK
    <3> QED
      BY <1>3, <3>1, <3>2 DEF SInv, PassedIsStale
  <2>2. CASE pc = "commit" /\ Apply
    BY <1>3, <2>2, ApplyGrows DEF SInv, LInv
  <2>3. CASE ~DemoteOrphans /\ ~(pc = "commit" /\ Apply)
    BY <1>3, <2>3, OthersStutter DEF SInv, LInv
  <2> QED
    BY <2>1, <2>2, <2>3
<1> QED
  BY <1>1, <1>2, <1>3, PTL DEF Spec, DemotesOnlyStale

-----------------------------------------------------------------------------
(***************************************************************************)
(* The heights have no hole, wherever the node switches branches: a block  *)
(* is stored one above the synced height or above the last block stored,   *)
(* and a demotion takes all the heights above one that stays.              *)
(***************************************************************************)

\* b is the first block to index or stands on the height of another one.
StandsOn(b) ==
  \/ Height[b] = FastSyncHeight + 1
  \/ Height[b] > FastSyncHeight + 1 /\ \E c \in Active : Height[b] = Height[c] + 1

\* What the steps of a pass know of the heights; ActiveChainLinked and
\* PassFollowsChain without the blocks.
HeightsInv ==
  /\ pc # "demote" => Active \cap orphans = {}
  /\ pc = "demote" => Active \cap orphans \subseteq RowsAfter(head)
  /\ \A b \in Active : StandsOn(b)
  /\ pc = "scan" /\ head >= 0 => \E b \in Active : Height[b] >= head
  /\ pc \in {"mark", "demote", "fetch"} /\ head >= 0 =>
       \E b \in Active : Height[b] = head
  /\ pc \in {"get", "store", "meta", "commit"} => StandsOn(blk)

LEMMA NextHeights ==
  ASSUME "demote" \notin FaultPoints, IInv, HeightsInv, [Next]_vars
  PROVE  HeightsInv'
<1>1. /\ head \in Int /\ FastSyncHeight \in Int /\ FastSyncHeight >= -1
      /\ \A b \in Active : /\ b \in Blocks /\ b \in Rows /\ b # Deadbeef
                           /\ dbHeight[b] = Height[b] /\ Height[b] \in Nat
  BY ActiveHeights, SyncAssumption DEF IInv, TypeOK, Active
<1>2. ASSUME UNCHANGED tables
      PROVE  Active' = Active /\ \A b : StandsOn(b)' <=> StandsOn(b)
  BY <1>2 DEF tables, Active, Rows, StandsOn
<1>3. CASE NodeMoves \/ UNCHANGED vars
  BY <1>2, <1>3
  DEF NodeMoves, vars, local, HeightsInv, tables, RowsAfter, Rows, StandsOn
<1>4. CASE BeginPass
  <2>1. PICK b \in Rows : head' = dbHeight[b]
    BY <1>4 DEF BeginPass
  <2>2. /\ UNCHANGED tables /\ pc = "idle" /\ pc' = "scan" /\ Active' = Active
        /\ orphans' = orphans /\ \A c : StandsOn(c)' <=> StandsOn(c)
    BY <1>2, <1>4 DEF BeginPass, tables
  <2>3. head' >= 0 => b \in Active /\ Height[b] >= head'
    BY <1>1, <2>1 DEF Active
  <2> QED
    BY <2>2, <2>3 DEF HeightsInv
<1>5. CASE ScanMatches \/ ScanDiffers \/ ScanExhausted
  <2>1. /\ UNCHANGED tables /\ pc = "scan" /\ Active' = Active
        /\ orphans' = orphans /\ \A c : StandsOn(c)' <=> StandsOn(c)
    BY <1>2, <1>5 DEF ScanMatches, ScanDiffers, ScanExhausted, tables
  <2>2. CASE ScanMatches
    <3>1. PICK b \in Rows : dbHeight[b] = head /\ head >= 0
      BY <2>2 DEF ScanMatches, HeightLeft, Agreed
    <3>2. b \in Active /\ Height[b] = head
      BY <1>1, <3>1 DEF Active
    <3> QED
      BY <2>1, <2>2, <3>2 DEF HeightsInv, ScanMatches
  <2>3. CASE ScanDiffers
    <3>1. pc' = "scan" /\ head' = head - 1 /\ head >= 0
      BY <2>3 DEF ScanDiffers, HeightLeft
    <3>2. PICK b \in Active : Height[b] >= head
      BY <2>1, <3>1 DEF HeightsInv
    <3>3. Height[b] >= head'
      BY <1>1, <3>1, <3>2
    <3> QED
      BY <2>1, <3>1, <3>3 DEF HeightsInv
  <2>4. CASE ScanExhausted
    BY <2>1, <2>4 DEF HeightsInv, ScanExhausted, HeightLeft
  <2> QED
    BY <1>5, <2>2, <2>3, <2>4
<1>6. CASE ScanFails \/ NothingToFetch \/ StoreRefused \/ Fail
  <2>1. UNCHANGED tables /\ pc' = "idle" /\ pc # "demote"
    BY <1>6 DEF ScanFails, NothingToFetch, StoreRefused, Fail, EndPass
  <2> QED
    BY <1>2, <2>1 DEF HeightsInv, tables
<1>7. CASE MarkOrphans
  <2>1. /\ dbHeight' = dbHeight /\ head' = head /\ pc = "mark" /\ pc' = "demote"
        /\ orphans' = orphans \cup RowsAfter(head)
    BY <1>7 DEF MarkOrphans
  <2>2. /\ Active' = Active /\ RowsAfter(head)' = RowsAfter(head)
        /\ \A b : StandsOn(b)' <=> StandsOn(b)
    BY <2>1 DEF Active, Rows, RowsAfter, StandsOn
  <2> QED
    BY <2>1, <2>2 DEF HeightsInv
<1>8. CASE DemoteOrphans
  <2>1. pc = "demote" /\ pc' = "fetch" /\ head' = head
    BY <1>8 DEF DemoteOrphans
  <2>2. /\ Active' = {b \in Active : Height[b] <= head}
        /\ (Active \cap orphans)' = {}
    BY <1>8, <2>1, DemotionCuts DEF HeightsInv
  <2>3. ASSUME NEW b \in Active'
        PROVE  StandsOn(b)'
    <3>1. b \in Active /\ Height[b] <= head /\ StandsOn(b)
      BY <2>2 DEF HeightsInv
    <3>2. CASE Height[b] = FastSyncHeight + 1
      BY <3>2 DEF StandsOn
    <3>3. CASE Height[b] # FastSyncHeight + 1
      <4>1. PICK c \in Active : Height[b] = Height[c] + 1
        BY <3>1, <3>3 DEF StandsOn
      <4>2. c \in Active'
        BY <1>1, <2>2, <3>1, <4>1
      <4> QED
        BY <3>1, <3>3, <4>1, <4>2 DEF StandsOn
    <3> QED
      BY <3>2, <3>3
  <2>4. ASSUME head >= 0
        PROVE  \E b \in Active' : Height[b] = head
    BY <1>1, <2>1, <2>2, <2>4 DEF HeightsInv
  <2> QED
    BY <2>1, <2>2, <2>3, <2>4 DEF HeightsInv
<1>9. CASE FetchHash
  <2>1. /\ UNCHANGED tables /\ pc = "fetch" /\ pc' = "get"
        /\ Height[blk'] = ResumeHeight(head)
    BY <1>9 DEF FetchHash, NodeHas
  <2>2. CASE head > FastSyncHeight
    <3>1. Height[blk'] = head + 1 /\ head >= 0
      BY <1>1, <2>1, <2>2 DEF ResumeHeight
    <3>2. PICK b \in Active : Height[b] = head
      BY <2>1, <3>1 DEF HeightsInv
    <3>3. StandsOn(blk')
      BY <1>1, <2>2, <3>1, <3>2 DEF StandsOn
    <3> QED
      BY <1>2, <2>1, <3>3 DEF HeightsInv, tables, StandsOn
  <2>3. CASE ~(head > FastSyncHeight)
    <3>1. Height[blk'] = FastSyncHeight + 1
      BY <1>1, <2>1, <2>3 DEF ResumeHeight
    <3> QED
      BY <1>2, <2>1, <3>1 DEF HeightsInv, tables, StandsOn
  <2> QED
    BY <2>2, <2>3
<1>10. CASE GetBlock \/ StoreBitcoinBlock \/ StoreSpacesTransactions
  <2>1. /\ UNCHANGED tables /\ blk' = blk /\ pc \in {"get", "store", "meta"}
        /\ pc' \in {"store", "meta", "commit"}
    BY <1>10 DEF GetBlock, StoreBitcoinBlock, StoreSpacesTransactions
  <2> QED
    BY <1>2, <2>1 DEF HeightsInv, tables, StandsOn
<1>11. CASE Commit \/ CommitUnanswered
  <2>1. pc = "commit" /\ Apply
    BY <1>11 DEF Commit, CommitUnanswered
  <2>2. Active' = Active \cup {blk} /\ orphans' = orphans \ {blk}
    BY <2>1, ApplyGrows, ApplyIInv
  <2>3. StandsOn(blk) /\ Active \cap orphans = {}
    BY <2>1 DEF HeightsInv
  <2>4. \A b \in Active' : StandsOn(b)'
    BY <2>2, <2>3 DEF StandsOn, HeightsInv
  <2>5. \/ pc' = "idle"
        \/ nxt # NoBlock /\ pc' = "get" /\ blk' = nxt
    BY <1>11 DEF Commit, CommitUnanswered, EndPass
  <2>6. ASSUME nxt # NoBlock
        PROVE  /\ Height[nxt] > FastSyncHeight + 1
               /\ \E c \in Active' : Height[nxt] = Height[c] + 1
    <3>1. /\ Height[nxt] = Height[blk] + 1 /\ blk \in Active'
          /\ Height[blk] \in Nat
      BY <2>1, <2>2, <2>6, TreeAssumption DEF IInv, PassInv
    <3>2. Height[blk] > FastSyncHeight
      BY <1>1, <2>3, <3>1 DEF StandsOn
    <3> QED
      BY <1>1, <3>1, <3>2
  <2>7. pc' = "idle" \/ (pc' = "get" /\ StandsOn(blk)')
    BY <2>5, <2>6 DEF StandsOn
  <2> QED
    BY <2>2, <2>3, <2>4, <2>7 DEF HeightsInv
<1> QED
  BY <1>3, <1>4, <1>5, <1>6, <1>7, <1>8, <1>9, <1>10, <1>11
  DEF Next, Head, Scan, Load, StoreBlock

LEMMA WholeFromHeightsInv ==
  ASSUME IInv, HeightsInv
  PROVE  HeightsWhole
<1>1. /\ head \in Int /\ FastSyncHeight \in Int /\ FastSyncHeight >= -1
      /\ \A b \in Active : /\ b \in Blocks /\ dbHeight[b] = Height[b]
                           /\ Height[b] \in Nat
  BY ActiveHeights, SyncAssumption DEF IInv, TypeOK
<1> DEFINE Has(h) == \E c \in Active : Height[c] = h
           S == {b \in Active : \E h \in Int :
                   FastSyncHeight < h /\ h <= Height[b] /\ ~Has(h)}
<1>2. S = {}
  <2>1. SUFFICES ASSUME S # {} PROVE FALSE
    OBVIOUS
  <2>2. S \subseteq Blocks
    BY <1>1
  <2>3. PICK b \in S : \A c \in S : Height[b] <= Height[c]
    BY <2>1, <2>2, LowestBlock
  <2>4. PICK h \in Int : FastSyncHeight < h /\ h <= Height[b] /\ ~Has(h)
    OBVIOUS
  <2>5. b \in Active /\ StandsOn(b) /\ h # Height[b]
    BY <2>4 DEF HeightsInv
  <2>6. PICK c \in Active : Height[b] = Height[c] + 1
    BY <1>1, <2>4, <2>5 DEF StandsOn
  <2>7. h <= Height[c] /\ Height[c] < Height[b] /\ ~(Height[b] <= Height[c])
    BY <1>1, <2>4, <2>5, <2>6
  <2>8. c \in S
    BY <2>4, <2>6, <2>7
  <2> QED
    BY <2>3, <2>7, <2>8
<1>3. ASSUME NEW b \in Active, NEW h \in Int, FastSyncHeight < h, h <= Height[b]
      PROVE  Has(h)
  BY <1>2, <1>3
<1> HIDE DEF S
<1>4. ASSUME NEW b \in Active, NEW h \in (FastSyncHeight + 1)..dbHeight[b]
      PROVE  \E c \in Active : dbHeight[c] = h
  <2>1. h \in Int /\ FastSyncHeight < h /\ h <= Height[b]
    BY <1>1
  <2>2. PICK c \in Active : Height[c] = h
    BY <1>3, <2>1
  <2> QED
    BY <1>1, <2>2
<1>5. ASSUME pc = "scan", head > FastSyncHeight
      PROVE  \E c \in Active : dbHeight[c] = head
  <2>1. PICK b \in Active : Height[b] >= head
    BY <1>1, <1>5 DEF HeightsInv
  <2>2. PICK c \in Active : Height[c] = head
    BY <1>1, <1>3, <1>5, <2>1
  <2> QED
    BY <1>1, <2>2
<1> QED
  BY <1>4, <1>5 DEF HeightsWhole

LEMMA InitHeights == Init => HeightsInv
<1>1. Init => Active = {} /\ pc = "idle"
  BY DEF Init, Active, Rows
<1> QED
  BY <1>1 DEF HeightsInv

LEMMA HeightsInvariance ==
  ASSUME "demote" \notin FaultPoints
  PROVE  Spec => [](IInv /\ HeightsInv)
<1>1. IInv /\ HeightsInv /\ [Next]_vars => (IInv /\ HeightsInv)'
  BY NextIInv, NextHeights
<1> QED
  BY <1>1, InitIInv, InitHeights, PTL DEF Spec

\* The explorer has a block at every height up to the highest it shows.
THEOREM NoHeightMissing ==
  ASSUME "demote" \notin FaultPoints
  PROVE  Spec => []HeightsWhole
<1>1. IInv /\ HeightsInv => HeightsWhole
  BY WholeFromHeightsInv
<1> QED
  BY <1>1, HeightsInvariance, PTL

\* A pass demotes only blocks above the synced height.
THEOREM OnlyAboveDemoted ==
  ASSUME "demote" \notin FaultPoints
  PROVE  Spec => DemotesOnlyAbove
<1>1. ASSUME IInv /\ HeightsInv, [Next]_vars
      PROVE  [\A b \in Active \ Active' : Height[b] > head]_vars
  <2>1. CASE DemoteOrphans
    <3>1. \A b \in Active : Height[b] \in Nat /\ head \in Int
      BY <1>1, ActiveHeights DEF IInv, TypeOK
    <3>2. Active' = {b \in Active : Height[b] <= head}
      BY <1>1, <2>1, DemotionCuts DEF HeightsInv, DemoteOrphans
    <3> QED
      BY <3>1, <3>2
  <2>2. CASE pc = "commit" /\ Apply
    BY <1>1, <2>2, ApplyGrows
  <2>3. CASE ~DemoteOrphans /\ ~(pc = "commit" /\ Apply)
    BY <1>1, <2>3, OthersStutter
  <2> QED
    BY <2>1, <2>2, <2>3
<1> QED
  BY <1>1, HeightsInvariance, PTL DEF Spec, DemotesOnlyAbove
=============================================================================
