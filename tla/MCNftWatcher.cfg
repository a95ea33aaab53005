SPECIFICATION FairSpec
CONSTANTS
  o1 = o1  o2 = o2
  x1 = x1  x2 = x2
  g1 = g1
  None = None
  Loop = Loop
  Owners = {o1, o2}
  NFTs = {x1, x2}
  Requests = {g1}
  MaxMoves = 2
  MaxFaults = 1
INVARIANTS
  ExactIfQuiet
  IInv
PROPERTIES
  FailureKeepsListing
  EventuallyFresh
  EveryoneScanned
