CONSTANTS
  Top = 5
  Blocks <- MCBlocks
  Genesis = "g"
  Parent <- MCParent
  Height <- MCHeight
  Work <- HeavyWork
  Ancestors <- MCAncestors
  Deadbeef = "deadbeef"
  NoBlock = "nil"
  ActivationHeight = 2
  FastSyncHeight <- FullSync
  Unstorable = {"b3"}
  ReorgPoints <- Anywhere
  FaultPoints <- AnyFault
SPECIFICATION Spec
INVARIANTS TypeOK BlocksComplete HeightsHonest PassInv NeverConflicts
PROPERTIES NoReinsertWhileActive
