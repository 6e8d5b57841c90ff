-------------------------- MODULE BlockTree_proofs --------------------------
(***************************************************************************)
(* Facts about the block tree that the proofs about its readers rest on.   *)
(* The library's induction theorems are out of the provers' reach, so each *)
(* induction over the tree looks at its lowest counterexample.             *)
(***************************************************************************)
EXTENDS BlockTree, WellFoundedInduction, TLAPS

\* Only Genesis has height 0: where the scan of GetSyncedHead must end.
LEMMA HeightZero ==
  ASSUME NEW b \in Blocks, Height[b] = 0
  PROVE  b = Genesis
<1>1. SUFFICES ASSUME b # Genesis PROVE FALSE
  OBVIOUS
<1>2. Height[b] = Height[Parent[b]] + 1 /\ Parent[b] \in Blocks
  BY <1>1, TreeAssumption
<1>3. Height[Parent[b]] \in Nat
  BY <1>2, TreeAssumption
<1> QED
  BY <1>2, <1>3

\* A nonempty set of blocks has a lowest one.
LEMMA LowestBlock ==
  ASSUME NEW S \in SUBSET Blocks, S # {}
  PROVE  \E b \in S : \A c \in S : Height[b] <= Height[c]
<1> DEFINE H == {Height[b] : b \in S}
           R == {ss \in Nat \X Nat : ss[1] < ss[2]}
<1>1. H \subseteq Nat /\ H # {}
  BY TreeAssumption
<1>2. IsWellFoundedOn(R, Nat)
  BY NatLessThanWellFounded DEF OpToRel
<1>3. \A m, n \in Nat : <<m, n>> \in R <=> m < n
  OBVIOUS
<1> HIDE DEF R, H
<1>4. PICK n \in H : \A m \in H : <<m, n>> \notin R
  BY <1>1, <1>2, WFMin
<1>5. ASSUME NEW m \in H PROVE n <= m
  <2>1. m \in Nat /\ n \in Nat
    BY <1>1
  <2>2. ~(m < n)
    BY <1>3, <1>4, <2>1
  <2> QED
    BY <2>1, <2>2
<1> QED
  BY <1>4, <1>5 DEF H

\* Every chain of the node begins with Genesis: by the lowest counterexample.
LEMMA GenesisOnEveryChain ==
  \A b \in Blocks : Genesis \in Ancestors[b]
<1> DEFINE S == {b \in Blocks : Genesis \notin Ancestors[b]}
<1>1. SUFFICES ASSUME S # {} PROVE FALSE
  OBVIOUS
<1>2. PICK b \in S : \A c \in S : Height[b] <= Height[c]
  BY <1>1, LowestBlock
<1>3. b # Genesis
  BY TreeAssumption
<1>4. /\ Parent[b] \in Blocks
      /\ Height[b] = Height[Parent[b]] + 1
      /\ Ancestors[b] = Ancestors[Parent[b]] \cup {b}
  BY <1>3, TreeAssumption
<1>5. Parent[b] \in S
  BY <1>4
<1>6. Height[Parent[b]] \in Nat
  BY <1>4, TreeAssumption
<1> QED
  BY <1>2, <1>4, <1>5, <1>6

\* The chain of a block contains the block.
LEMMA EndOfChain ==
  \A b \in Blocks : b \in Ancestors[b]
BY TreeAssumption

\* On the chain to t no block is higher than t, and t alone is as high.
LEMMA EndIsHighest ==
  \A t \in Blocks : \A b \in Ancestors[t] : b # t => Height[b] < Height[t]
<1> DEFINE S == {t \in Blocks :
                   \E b \in Ancestors[t] : b # t /\ ~(Height[b] < Height[t])}
<1>1. SUFFICES ASSUME S # {} PROVE FALSE
  OBVIOUS
<1>2. PICK t \in S : \A c \in S : Height[t] <= Height[c]
  BY <1>1, LowestBlock
<1>3. PICK b \in Ancestors[t] : b # t /\ ~(Height[b] < Height[t])
  OBVIOUS
<1>4. t # Genesis
  BY <1>3, TreeAssumption
<1>5. /\ Parent[t] \in Blocks
      /\ Height[t] = Height[Parent[t]] + 1
      /\ Ancestors[t] = Ancestors[Parent[t]] \cup {t}
  BY <1>4, TreeAssumption
<1>6. b \in Ancestors[Parent[t]] /\ b \in Blocks
  BY <1>3, <1>5, TreeAssumption
<1>7. Height[Parent[t]] \in Nat /\ Height[b] \in Nat
  BY <1>5, <1>6, TreeAssumption
<1>8. Parent[t] \notin S
  BY <1>2, <1>5, <1>7
<1>9. Height[b] <= Height[Parent[t]]
  <2>1. CASE b = Parent[t]
    BY <2>1, <1>7
  <2>2. CASE b # Parent[t]
    BY <2>2, <1>5, <1>6, <1>7, <1>8
  <2> QED
    BY <2>1, <2>2
<1> QED
  BY <1>3, <1>5, <1>7, <1>9

\* A chain has one block of each height.
LEMMA OneBlockPerHeight ==
  \A t \in Blocks : \A b, c \in Ancestors[t] : Height[b] = Height[c] => b = c
<1> DEFINE S == {t \in Blocks :
                   \E b, c \in Ancestors[t] : Height[b] = Height[c] /\ b # c}
<1>1. SUFFICES ASSUME S # {} PROVE FALSE
  OBVIOUS
<1>2. PICK t \in S : \A c \in S : Height[t] <= Height[c]
  BY <1>1, LowestBlock
<1>3. PICK b, c \in Ancestors[t] : Height[b] = Height[c] /\ b # c
  OBVIOUS
<1>4. b # t /\ c # t
  <2>1. \A d \in Ancestors[t] : Height[d] \in Nat
    BY TreeAssumption
  <2> QED
    BY <1>3, <2>1, EndIsHighest
<1>5. t # Genesis
  BY <1>3, TreeAssumption
<1>6. /\ Parent[t] \in Blocks
      /\ Height[t] = Height[Parent[t]] + 1
      /\ Ancestors[t] = Ancestors[Parent[t]] \cup {t}
  BY <1>5, TreeAssumption
<1>7. Parent[t] \in S
  BY <1>3, <1>4, <1>6
<1>8. Height[Parent[t]] \in Nat
  BY <1>6, TreeAssumption
<1> QED
  BY <1>2, <1>6, <1>7, <1>8

\* A chain contains the chain of each of its blocks.
LEMMA ChainOfAncestor ==
  \A t \in Blocks : \A b \in Ancestors[t] : Ancestors[b] \subseteq Ancestors[t]
<1> DEFINE S == {t \in Blocks :
                   \E b \in Ancestors[t] : ~(Ancestors[b] \subseteq Ancestors[t])}
<1>1. SUFFICES ASSUME S # {} PROVE FALSE
  OBVIOUS
<1>2. PICK t \in S : \A c \in S : Height[t] <= Height[c]
  BY <1>1, LowestBlock
<1>3. PICK b \in Ancestors[t] : ~(Ancestors[b] \subseteq Ancestors[t])
  OBVIOUS
<1>4. b # t
  BY <1>3
<1>5. t # Genesis
  BY <1>3, <1>4, TreeAssumption
<1>6. /\ Parent[t] \in Blocks
      /\ Height[t] = Height[Parent[t]] + 1
      /\ Ancestors[t] = Ancestors[Parent[t]] \cup {t}
  BY <1>5, TreeAssumption
<1>7. Parent[t] \in S
  BY <1>3, <1>4, <1>6
<1>8. Height[Parent[t]] \in Nat
  BY <1>6, TreeAssumption
<1> QED
  BY <1>2, <1>6, <1>7, <1>8

\* What lies on a chain no higher than one of its blocks is below that block.
LEMMA LowerOnChain ==
  \A t \in Blocks : \A a, b \in Ancestors[t] :
    Height[b] <= Height[a] => b \in Ancestors[a]
<1> DEFINE S == {t \in Blocks : \E a, b \in Ancestors[t] :
                   Height[b] <= Height[a] /\ b \notin Ancestors[a]}
<1>1. SUFFICES ASSUME S # {} PROVE FALSE
  OBVIOUS
<1>2. PICK t \in S : \A c \in S : Height[t] <= Height[c]
  BY <1>1, LowestBlock
<1>3. PICK a, b \in Ancestors[t] : Height[b] <= Height[a] /\ b \notin Ancestors[a]
  OBVIOUS
<1>4. a # t
  BY <1>3
<1>5. t # Genesis
  BY <1>4, TreeAssumption
<1>6. /\ Parent[t] \in Blocks
      /\ Height[t] = Height[Parent[t]] + 1
      /\ Ancestors[t] = Ancestors[Parent[t]] \cup {t}
  BY <1>5, TreeAssumption
<1>7. b # t
  <2>1. Height[a] < Height[t] /\ a \in Blocks
    BY <1>4, EndIsHighest, TreeAssumption
  <2>2. Height[a] \in Nat /\ Height[t] \in Nat
    BY <2>1, TreeAssumption
  <2> QED
    BY <1>3, <2>1, <2>2
<1>8. Parent[t] \in S
  BY <1>3, <1>4, <1>6, <1>7
<1>9. Height[Parent[t]] \in Nat
  BY <1>6, TreeAssumption
<1> QED
  BY <1>2, <1>6, <1>8, <1>9

\* The parent of a block is on every chain that the block is on.
LEMMA ParentOnChain ==
  ASSUME NEW t \in Blocks, NEW b \in Ancestors[t], b # Genesis
  PROVE  Parent[b] \in Ancestors[t]
<1>1. b \in Blocks /\ Parent[b] \in Blocks
  BY TreeAssumption
<1>2. Ancestors[b] = Ancestors[Parent[b]] \cup {b}
  BY <1>1, TreeAssumption
<1> QED
  BY <1>1, <1>2, EndOfChain, ChainOfAncestor

\* Below the end of a chain there is less work.
LEMMA WorkGrows ==
  \A t \in Blocks : \A b \in Ancestors[t] : b # t => Work[b] < Work[t]
<1> DEFINE S == {t \in Blocks :
                   \E b \in Ancestors[t] : b # t /\ ~(Work[b] < Work[t])}
<1>1. SUFFICES ASSUME S # {} PROVE FALSE
  OBVIOUS
<1>2. PICK t \in S : \A c \in S : Height[t] <= Height[c]
  BY <1>1, LowestBlock
<1>3. PICK b \in Ancestors[t] : b # t /\ ~(Work[b] < Work[t])
  OBVIOUS
<1>4. t # Genesis
  BY <1>3, TreeAssumption
<1>5. /\ Parent[t] \in Blocks
      /\ Height[t] = Height[Parent[t]] + 1 /\ Work[t] > Work[Parent[t]]
      /\ Ancestors[t] = Ancestors[Parent[t]] \cup {t}
  BY <1>4, TreeAssumption
<1>6. b \in Ancestors[Parent[t]] /\ b \in Blocks
  BY <1>3, <1>5, TreeAssumption
<1>7. /\ Height[Parent[t]] \in Nat
      /\ Work[Parent[t]] \in Nat /\ Work[b] \in Nat /\ Work[t] \in Nat
  BY <1>5, <1>6, TreeAssumption
<1>8. Parent[t] \notin S
  BY <1>2, <1>5, <1>7
<1>9. Work[b] <= Work[Parent[t]]
  BY <1>5, <1>6, <1>7, <1>8
<1> QED
  BY <1>3, <1>5, <1>7, <1>9

\* On its way up a chain has a next block everywhere but at its end.
LEMMA HasSuccessor ==
  \A t \in Blocks : \A b \in Ancestors[t] : b # t => Successors(b, t) # {}
<1> DEFINE S == {t \in Blocks :
                   \E b \in Ancestors[t] : b # t /\ Successors(b, t) = {}}
<1>1. SUFFICES ASSUME S # {} PROVE FALSE
  OBVIOUS
<1>2. PICK t \in S : \A c \in S : Height[t] <= Height[c]
  BY <1>1, LowestBlock
<1>3. PICK b \in Ancestors[t] : b # t /\ Successors(b, t) = {}
  OBVIOUS
<1>4. t # Genesis
  BY <1>3, TreeAssumption
<1>5. /\ Parent[t] \in Blocks
      /\ Height[t] = Height[Parent[t]] + 1
      /\ Ancestors[t] = Ancestors[Parent[t]] \cup {t}
  BY <1>4, TreeAssumption
<1>6. b # Parent[t]
  BY <1>3, <1>4, <1>5 DEF Successors
<1>7. b \in Ancestors[Parent[t]] /\ Successors(b, Parent[t]) = {}
  BY <1>3, <1>5 DEF Successors
<1>8. Parent[t] \in S
  BY <1>5, <1>6, <1>7
<1>9. Height[Parent[t]] \in Nat
  BY <1>5, TreeAssumption
<1> QED
  BY <1>2, <1>5, <1>8, <1>9

\* A chain has a block of every height up to that of its end.
LEMMA ChainHasHeight ==
  \A t \in Blocks : \A h \in Nat :
    h <= Height[t] => \E b \in Ancestors[t] : Height[b] = h
<1> DEFINE S == {t \in Blocks : \E h \in Nat :
                   h <= Height[t] /\ \A b \in Ancestors[t] : Height[b] # h}
<1>1. SUFFICES ASSUME S # {} PROVE FALSE
  OBVIOUS
<1>2. PICK t \in S : \A c \in S : Height[t] <= Height[c]
  BY <1>1, LowestBlock
<1>3. PICK h \in Nat : h <= Height[t] /\ \A b \in Ancestors[t] : Height[b] # h
  OBVIOUS
<1>4. h # Height[t] /\ Height[t] \in Nat
  BY <1>3, EndOfChain, TreeAssumption
<1>5. t # Genesis
  BY <1>3, <1>4, TreeAssumption
<1>6. /\ Parent[t] \in Blocks
      /\ Height[t] = Height[Parent[t]] + 1
      /\ Ancestors[t] = Ancestors[Parent[t]] \cup {t}
  BY <1>5, TreeAssumption
<1>7. Height[Parent[t]] \in Nat
  BY <1>6, TreeAssumption
<1>8. Parent[t] \in S
  BY <1>3, <1>4, <1>6, <1>7
<1> QED
  BY <1>2, <1>6, <1>7, <1>8
=============================================================================
