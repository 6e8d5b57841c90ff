CONSTANTS
  Txs <- MCTxs
  NoTx = "none"
  Depends <- Chain
  Spaces <- AllSpaces
  Unstorable <- MCUnstorable
  TxIndex = TRUE
  SpacesBehind = FALSE
  LookupErrors = FALSE
  EvictPoints <- BetweenCycles
  ReorgPoints <- BetweenCycles
  FaultPoints <- AnyFault
SPECIFICATION Spec
INVARIANTS MetasOnce NothingMissed
PROPERTIES RowsComplete
