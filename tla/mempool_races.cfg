CONSTANTS
  Txs <- MCTxs
  NoTx = "none"
  Depends <- Triangle
  Spaces <- PlainAncestor
  Unstorable <- MCUnstorable
  TxIndex = FALSE
  SpacesBehind = TRUE
  LookupErrors = TRUE
  EvictPoints <- Anywhere
  ReorgPoints <- Anywhere
  FaultPoints <- AnyFault
SPECIFICATION Spec
INVARIANTS TypeOK NoClash OnlySnapshot CycleInv
PROPERTIES ImplementsView
