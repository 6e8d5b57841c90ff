CONSTANTS
  ActivationHeight = 1
  TopHeight = 4
  SyncEndHeight <- ToTheLatest
  Batch = 2
  Unstorable = {}
  FaultPoints <- AnyFault
SPECIFICATION Spec
CHECK_DEADLOCK FALSE
INVARIANTS PopulatedOnce
