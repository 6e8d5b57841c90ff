CONSTANTS
  Top = 5
  Blocks <- LateForkBlocks
  Genesis = "g"
  Parent <- MCParent
  Height <- MCHeight
  Work <- MCHeight
  Ancestors <- MCAncestors
  Deadbeef = "deadbeef"
  NoBlock = "nil"
  ActivationHeight = 2
  FastSyncHeight = 1
  Unstorable = {"c4"}
  ReorgPoints <- OutsideWindow
  FaultPoints <- NotAtDemote
SPECIFICATION FairSpec
PROPERTIES Converges
