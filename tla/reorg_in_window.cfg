CONSTANTS
  Top = 4
  Blocks <- MCBlocks
  Genesis = "g"
  Parent <- MCParent
  Height <- MCHeight
  Work <- MCHeight
  Ancestors <- MCAncestors
  Deadbeef = "deadbeef"
  NoBlock = "nil"
  ActivationHeight = 2
  FastSyncHeight <- FullSync
  Unstorable = {}
  ReorgPoints <- Anywhere
  FaultPoints <- NotAtDemote
SPECIFICATION Spec
INVARIANTS ActiveChainLinked
