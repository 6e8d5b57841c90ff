------------------------- MODULE ChainMirror_proofs -------------------------
(***************************************************************************)
(* The abstract mirror keeps to one path of the tree.                      *)
(***************************************************************************)
EXTENDS ChainMirror, BlockTree_proofs

PathInv ==
  /\ chain \subseteq Blocks
  /\ chain # {} => Base \in Nat
  /\ OnePath

\* What StoreBlock and GetSyncedHead may do together to the blocks shown never
\* leaves two blocks of one height, or a block without the one below it.
THEOREM MirrorIsOnePath == Spec => []OnePath
<1>1. Init => PathInv
  BY DEF Init, PathInv, OnePath
<1>2. ASSUME PathInv, [Next]_chain
      PROVE  PathInv'
  <2> USE <1>2 DEF PathInv, OnePath
  <2>1. ASSUME NEW b \in Blocks, Start(b) PROVE PathInv'
    BY <2>1, TreeAssumption DEF Start
  <2>2. ASSUME NEW b \in Blocks, Grow(b) PROVE PathInv'
    <3>1. /\ chain' = chain \cup {b} /\ Parent[b] \in chain /\ b \notin chain
          /\ \A c \in chain : Height[c] < Height[b]
      BY <2>2 DEF Grow
    <3>2. \A c \in chain : Height[c] \in Nat
      BY TreeAssumption
    <3>3. Height[b] \in Nat
      BY TreeAssumption
    <3>4. \A c, d \in chain' : Height[c] = Height[d] => c = d
      BY <3>1, <3>2, <3>3
    <3>5. Height[b] > Base
      BY <3>1, <3>2, <3>3
    <3>6. \A c \in chain' :
            Height[c] = Base \/ (Height[c] > Base /\ Parent[c] \in chain')
      BY <3>1, <3>5
    <3> QED
      BY <3>1, <3>4, <3>6
  <2>3. ASSUME NEW t \in chain, CutBack(t) PROVE PathInv'
    <3>1. chain' = {b \in chain : Height[b] <= Height[t]}
      BY <2>3 DEF CutBack
    <3>2. ASSUME NEW b \in chain', Height[b] > Base, Parent[b] \in chain
          PROVE  Parent[b] \in chain'
      <4>1. b \in Blocks /\ Parent[b] \in Blocks /\ t \in Blocks
        BY <3>1, <3>2
      <4>2. /\ Height[b] \in Nat /\ Height[Parent[b]] \in Nat
            /\ Height[t] \in Nat
        BY <4>1, TreeAssumption
      <4>3. Height[Parent[b]] <= Height[b]
        BY <4>1, <4>2, TreeAssumption
      <4> QED
        BY <3>1, <3>2, <4>2, <4>3
    <3> QED
      BY <3>1, <3>2
  <2>4. CASE UNCHANGED chain
    BY <2>4
  <2> QED
    BY <1>2, <2>1, <2>2, <2>3, <2>4 DEF Next
<1> QED
  BY <1>1, <1>2, PTL DEF Spec, PathInv
=============================================================================
