------------------------------ MODULE MCIndexer ------------------------------
(***************************************************************************)
(* A small instance of Indexer:                                            *)
(*                                                                         *)
(*   g -- a1 {a} -- a2 {b}                                                 *)
(*    \-- b1 ------ b2 {a} -- b3 {u}                                       *)
(*                                                                         *)
(* Transaction b spends a.  Both can be mined, come back when the node     *)
(* switches to the other branch, and be mined again; u can be stored       *)
(* nowhere, and neither can b3.                                            *)
(***************************************************************************)
EXTENDS Indexer

MCBlocks == {"g", "a1", "a2", "b1", "b2", "b3"}
MCParent ==
  [g |-> "g", a1 |-> "g", a2 |-> "a1",
   b1 |-> "g", b2 |-> "b1", b3 |-> "b2"]
MCHeight == [g |-> 0, a1 |-> 1, a2 |-> 2, b1 |-> 1, b2 |-> 2, b3 |-> 3]
MCAncestors ==
  [g |-> {"g"}, a1 |-> {"g", "a1"}, a2 |-> {"g", "a1", "a2"},
   b1 |-> {"g", "b1"},
   b2 |-> {"g", "b1", "b2"}, b3 |-> {"g", "b1", "b2", "b3"}]
MCTxsOf ==
  [c \in MCBlocks |-> CASE c \in {"a1", "b2"} -> {"a"}
                        [] c = "a2" -> {"b"}
                        [] c = "b3" -> {"u"}
                        [] OTHER -> {}]
MCDepends == [t \in {"a", "b", "u"} |-> IF t = "b" THEN {"a"} ELSE {}]

FullSync == -1
\* Written out: B!Points would be an instance of the constants defined by it.
AnyPass ==
  {"idle", "scan", "mark", "demote", "fetch", "get", "store", "meta", "commit"}
AnyCycle == {"idle", "read", "clean", "pick", "lookup", "check", "commit"}
\* Not between the two statements that turn rows into orphans: see BlockSync.
NotAtDemote == AnyPass \ {"idle", "demote"}
AnyCycleFault == AnyCycle \ {"idle"}
=============================================================================
