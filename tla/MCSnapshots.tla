----------------------------- MODULE MCSnapshots -----------------------------
(***************************************************************************)
(* A small instance of Snapshots:  g -- a1 -- a2                           *)
(*                                  \-- b1                                 *)
(* Name s moves from batch 0 to batch 1 in a1 and is rolled out in a2, so  *)
(* that a run through the batches may meet it twice or never; with b1 the  *)
(* node lists a name that ends the process, until it goes back to a2.      *)
(***************************************************************************)
EXTENDS Snapshots

MCBlocks == {"g", "a1", "a2", "b1"}
MCParent == [b \in MCBlocks |-> IF b = "a2" THEN "a1" ELSE "g"]
MCHeight == [b \in MCBlocks |-> CASE b = "g" -> 0 [] b = "a2" -> 2 [] OTHER -> 1]
MCWork == [b \in MCBlocks |->
             CASE b = "g" -> 0 [] b = "a1" -> 1 [] b = "b1" -> 2 [] b = "a2" -> 3]
MCAncestors == [b \in MCBlocks |->
                  CASE b = "a2" -> {"g", "a1", "a2"} [] OTHER -> {"g", b}]

MCListing ==
  [b \in MCBlocks |->
     [i \in 0..1 |->
        CASE b = "g"  -> IF i = 0 THEN {"s"} ELSE {"t"}
          [] b = "a1" -> IF i = 0 THEN {"t"} ELSE {"s"}
          [] b = "a2" -> IF i = 0 THEN {"t"} ELSE {}
          [] b = "b1" -> IF i = 0 THEN {"s"} ELSE {"bad"}]]

AnyFault == Points \ {"idle"}
=============================================================================
