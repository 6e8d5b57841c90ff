CONSTANTS
  Top = 4
  Blocks <- MCBlocks
  Genesis = "g"
  Parent <- MCParent
  Height <- MCHeight
  Work <- MCHeight
  Ancestors <- MCAncestors
  Deadbeef = "deadbeef"
  NoBlock = "nil"
  ActivationHeight = 2
  FastSyncHeight <- FullSync
  Unstorable = {}
  ReorgPoints <- OutsideWindow
  FaultPoints <- AnyFault
SPECIFICATION Spec
PROPERTIES DemotesOnlyAbove
