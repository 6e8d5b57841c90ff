----------------------------- MODULE ChainMirror -----------------------------
(***************************************************************************)
(* What the explorer is promised of the blocks it shows: at any moment     *)
(* they are one path of the block tree, from the first indexed height up.  *)
(* The path grows by a child of its last block or is cut back to one of    *)
(* its own blocks, and never anything else.                                *)
(***************************************************************************)
EXTENDS BlockTree

CONSTANT Base    \* the first height to index

VARIABLE chain   \* the blocks shown

Init == chain = {}

\* The first block.
Start(b) ==
  /\ chain = {}
  /\ Height[b] = Base
  /\ chain' = {b}

\* A child of the last block.
Grow(b) ==
  /\ b \notin chain
  /\ Parent[b] \in chain
  /\ \A c \in chain : Height[c] < Height[b]
  /\ chain' = chain \cup {b}

\* A reorganisation: everything above the block t goes.
CutBack(t) == chain' = {b \in chain : Height[b] <= Height[t]}

Next ==
  \/ \E b \in Blocks : Start(b) \/ Grow(b)
  \/ \E t \in chain : CutBack(t)

Spec == Init /\ [][Next]_chain

\* No two blocks on it compete for a height, and none hangs in the air: the
\* explorer can page through the heights and follow every parent link.
OnePath ==
  /\ \A b, c \in chain : Height[b] = Height[c] => b = c
  /\ \A b \in chain : Height[b] = Base \/ (Height[b] > Base /\ Parent[b] \in chain)
=============================================================================
