SPECIFICATION FairSpec
CONSTANTS
  u1 = u1  u2 = u2  b1 = b1  good = good  bad = bad
  near = near  far = far  none = none  A = A  B = B
  r1 = r1  r2 = r2  r3 = r3  i1 = i1  i2 = i2  c1 = c1  c2 = c2
  None = None
  Users = {u1}
  Chains = {1}
  Addresses = {b1}
  PubKeys = {good}
  GoodKeys = {good}
  Networks = {near}
  Bridges = {A}
  BridgeByNetwork <- MCBridgeByNetwork
  BridgeChain <- MCBridgeChain
  Requests = {r1, r2}
  RowIds = {i1}
  Cids = {c1}
  MaxRestarts = 1
  MaxOutages = 1
INVARIANTS
  NilPoolOnlyAfterRestart
PROPERTIES
  PoolSettledOnce
  EveryRequestEnds
