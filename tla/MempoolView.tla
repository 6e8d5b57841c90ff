----------------------------- MODULE MempoolView -----------------------------
(***************************************************************************)
(* What the explorer is promised of the transactions it lists as           *)
(* unconfirmed.  From time to time it visits the node's mempool and looks  *)
(* at it once.  During the visit it stops showing what was not in it, all  *)
(* at once, and after that begins to show what was, one transaction at a   *)
(* time; between two visits nothing changes.  So a transaction stays on    *)
(* the explorer as long as every look finds it, and none gets there by     *)
(* another way.                                                            *)
(***************************************************************************)

CONSTANT Txs

VARIABLES
  pool,      \* the node's mempool
  visiting,  \* the explorer has looked at it and may act on what it saw
  seen,      \* what it was at that look; nothing between two visits
  view       \* the transactions shown

vars == <<pool, visiting, seen, view>>

Init == pool = {} /\ visiting = FALSE /\ seen = {} /\ view = {}

NodeMoves ==
  /\ pool' \in SUBSET Txs
  /\ UNCHANGED <<visiting, seen, view>>

Look ==
  /\ ~visiting
  /\ visiting' = TRUE
  /\ seen' = pool
  /\ UNCHANGED <<pool, view>>

Leave == visiting' = FALSE /\ seen' = {}

\* A visit may end before the view is what was seen.
Forget == visiting /\ Leave /\ UNCHANGED <<pool, view>>

\* A change of the view is during a visit, and may be the last of it.
Act ==
  /\ visiting
  /\ UNCHANGED <<visiting, seen>> \/ Leave
  /\ UNCHANGED pool

Drop == Act /\ view' = view \cap seen

Show(t) ==
  /\ Act
  /\ view \subseteq seen
  /\ t \in seen \ view
  /\ view' = view \cup {t}

Next == NodeMoves \/ Look \/ Forget \/ Drop \/ \E t \in Txs : Show(t)

Spec == Init /\ [][Next]_vars
=============================================================================
