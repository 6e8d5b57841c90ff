CONSTANTS
  Blocks <- MCBlocks
  Genesis = "g"
  Parent <- MCParent
  Height <- MCHeight
  Work <- MCHeight
  Ancestors <- MCAncestors
  Deadbeef = "deadbeef"
  NoBlock = "nil"
  ActivationHeight = 1
  FastSyncHeight <- FullSync
  NoTx = "none"
  Txs = {"a", "b", "u"}
  Depends <- MCDepends
  Spaces = {"a", "b", "u"}
  Unstorable = {"u"}
  TxIndex = TRUE
  SpacesBehind = FALSE
  LookupErrors = FALSE
  EvictPoints <- AnyCycle
  TxsOf <- MCTxsOf
  PassReorgs <- AnyPass
  CycleReorgs <- AnyCycle
  PassFaults <- NotAtDemote
  CycleFaults <- AnyCycleFault
SPECIFICATION FairSpec
INVARIANTS FreshTip OneStatus NoHoles FreshChain
PROPERTIES HiddenOnlyLate TipIndexed Settles
