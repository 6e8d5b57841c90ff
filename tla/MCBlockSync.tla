----------------------------- MODULE MCBlockSync -----------------------------
(***************************************************************************)
(* Small block trees for BlockSync.  A tree is given by its parent links   *)
(* and its work; heights and root paths follow.                            *)
(***************************************************************************)
EXTENDS BlockSync

CONSTANT Top   \* the largest height on any branch, at most 5

\* Three branches that can overtake each other at every height, so that blocks
\* become orphans, come back, and become orphans again:
\*
\*   g -- a1 -- a2 -- a3 -- a4 -- a5
\*    \           \-- c3 -- c4 -- c5
\*     \-- b1 -- b2 -- b3 -- b4 -- b5
BranchedParent ==
  [a1 |-> "g", a2 |-> "a1", a3 |-> "a2", a4 |-> "a3", a5 |-> "a4",
   b1 |-> "g", b2 |-> "b1", b3 |-> "b2", b4 |-> "b3", b5 |-> "b4",
   c3 |-> "a2", c4 |-> "c3", c5 |-> "c4", g |-> "g"]

AncestorsAndSelf[b \in DOMAIN BranchedParent] ==
  IF b = "g" THEN {b} ELSE AncestorsAndSelf[BranchedParent[b]] \cup {b}

Depth[b \in DOMAIN BranchedParent] ==
  IF b = "g" THEN 0 ELSE Depth[BranchedParent[b]] + 1

MCBlocks == {b \in DOMAIN BranchedParent : Depth[b] <= Top}
MCParent == [b \in Blocks |-> BranchedParent[b]]
MCHeight == [b \in Blocks |-> Depth[b]]
MCAncestors == [b \in Blocks |-> AncestorsAndSelf[b]]

\* The two branches that share a1 and a2.
LateForkBlocks == MCBlocks \ {"b1", "b2", "b3", "b4", "b5"}

\* Branch b has more work per block: b2 already outweighs a3 and c3.
HeavyWork ==
  [b \in Blocks |-> IF b \in {"b1", "b2", "b3", "b4", "b5"}
                      THEN 2 * Depth[b] ELSE Depth[b]]

\* FAST_SYNC_BLOCK_HEIGHT is not set.
FullSync == -1

Anywhere == Points
AnyFault == Points \ {"idle"}

\* Not between the comparison of the hashes and the fetch of the next one.
OutsideWindow == Points \ {"mark", "demote", "fetch"}

\* And not while the scan goes down the heights either.
OutsideScan == OutsideWindow \ {"scan"}

\* Not between the two statements that turn rows into orphans.
NotAtDemote == AnyFault \ {"demote"}
=============================================================================
