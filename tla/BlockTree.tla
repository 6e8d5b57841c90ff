------------------------------ MODULE BlockTree ------------------------------
(***************************************************************************)
(* The tree of Bitcoin blocks the node knows about.  The node itself is    *)
(* external: the indexer only sees it through getblockhash and getblock    *)
(* (pkg/node/bitcoin.go), so the tree is a set of constants.  A block      *)
(* stands for its hash, its header and its transactions.                   *)
(***************************************************************************)
EXTENDS Integers

CONSTANTS
  Blocks,      \* the blocks, each with its hash
  Genesis,     \* the block of height 0
  Parent,      \* Parent[b]: the previousblockhash of b (Genesis for Genesis)
  Height,      \* Height[b]: the distance of b from Genesis
  Work,        \* Work[b]: the accumulated work of the chain that ends in b
  Ancestors    \* Ancestors[b]: the chain from Genesis to b, both included

(***************************************************************************)
(* What makes these constants a tree rooted at Genesis, and Ancestors its  *)
(* root paths.  Work grows along every path, not only the longest one:     *)
(* a shorter branch may carry more of it.                                  *)
(***************************************************************************)
ASSUME TreeAssumption ==
  /\ Genesis \in Blocks
  /\ Parent \in [Blocks -> Blocks]
  /\ Height \in [Blocks -> Nat]
  /\ Work \in [Blocks -> Nat]
  /\ Ancestors \in [Blocks -> SUBSET Blocks]
  /\ Height[Genesis] = 0
  /\ Parent[Genesis] = Genesis
  /\ Ancestors[Genesis] = {Genesis}
  /\ \A b \in Blocks \ {Genesis} :
       /\ Height[b] = Height[Parent[b]] + 1
       /\ Work[b] > Work[Parent[b]]
       /\ Ancestors[b] = Ancestors[Parent[b]] \cup {b}

\* The blocks that directly extend b on the chain that ends in t.
Successors(b, t) == {c \in Ancestors[t] \ {Genesis} : Parent[c] = b}

=============================================================================
