CONSTANTS
  Txs <- PairOnPlain
  NoTx = "none"
  Depends <- PairOnPlainDepends
  Spaces <- AllSpaces
  Unstorable <- MCUnstorable
  TxIndex = TRUE
  SpacesBehind = FALSE
  LookupErrors = FALSE
  EvictPoints <- Anywhere
  ReorgPoints <- Anywhere
  FaultPoints <- AnyFault
SPECIFICATION Spec
INVARIANTS MetasOnce
