CONSTANTS
  ActivationHeight = 1
  TopHeight = 4
  SyncEndHeight <- ToTheLatest
  Batch = 2
  Unstorable = {4}
  FaultPoints <- AnyFault
SPECIFICATION FairSpec
INVARIANTS TypeOK DoneComplete AddsFromBelow EarlyFailureLeavesNothing
PROPERTIES FinishesOrLoses
CHECK_DEADLOCK FALSE
