CONSTANTS
  Top = 5
  Blocks <- MCBlocks
  Genesis = "g"
  Parent <- MCParent
  Height <- MCHeight
  Work <- MCHeight
  Ancestors <- MCAncestors
  Deadbeef = "deadbeef"
  NoBlock = "nil"
  ActivationHeight = 2
  FastSyncHeight <- FullSync
  Unstorable = {"c4"}
  ReorgPoints <- OutsideScan
  FaultPoints <- NotAtDemote
SPECIFICATION Spec
INVARIANTS ActiveChainLinked PassFollowsChain EndsSynced
PROPERTIES ImplementsMirror DemotesOnlyAbove DemotesOnlyStale
