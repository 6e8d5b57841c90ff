CONSTANTS
  Blocks <- MCBlocks
  Genesis = "g"
  Parent <- MCParent
  Height <- MCHeight
  Work <- MCWork
  Ancestors <- MCAncestors
  NoBlock = "nil"
  ActivationHeight = 1
  Batches = 2
  Names = {"s", "t", "bad"}
  Listing <- MCListing
  BadNames = {"bad"}
  Anchoring = {"g", "a2", "b1"}
  FaultPoints <- AnyFault
SPECIFICATION FairSpec
INVARIANTS TypeOK RolloutsWhole StoredOnFresh FreshIfStill
PROPERTIES NeverOlder FreshInTheEnd AnchorsArrive
