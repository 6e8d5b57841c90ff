---------------------------- MODULE MCMempoolSync ----------------------------
(***************************************************************************)
(* Small mempools for MempoolSync: a spends nothing unconfirmed, b spends  *)
(* a, and c both of them or b alone, so that a group may hold its          *)
(* grandparent or lack it; u has a covenant the store does not know.       *)
(***************************************************************************)
EXTENDS MempoolSync

MCTxs == {"a", "b", "c", "u"}

Triangle ==
  [t \in MCTxs |-> CASE t = "b" -> {"a"}
                     [] t = "c" -> {"a", "b"}
                     [] OTHER -> {}]
Chain ==
  [t \in MCTxs |-> CASE t = "b" -> {"a"}
                     [] t = "c" -> {"b"}
                     [] OTHER -> {}]

\* All change spaces, or all but the first ancestor.
AllSpaces == Txs
PlainAncestor == Txs \ {"a"}
MCUnstorable == Txs \cap {"u"}

\* For the counterexample: b spends a.
PairOnPlain == {"a", "b"}
PairOnPlainDepends == [t \in PairOnPlain |-> IF t = "b" THEN {"a"} ELSE {}]

Anywhere == Points
AnyFault == Points \ {"idle"}
BetweenCycles == {"idle"}
=============================================================================
