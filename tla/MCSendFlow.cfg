SPECIFICATION Spec
CHECK_DEADLOCK FALSE
CONSTANTS
  a1 = a1  a2 = a2  b1 = b1  b2 = b2  near = near  A = A
  t1 = t1  t2 = t2  p1 = p1  p2 = p2  s1 = s1  s2 = s2  q1 = q1
  None = None
  Accounts = {a1, a2}
  Recipients = {b1, b2}
  Chains = {1, 2}
  NftChains = {1, 2}
  Networks = {near}
  Bridges = {A}
  BridgeByNetwork <- MCBridgeByNetwork
  BridgeChain <- MCBridgeChain
  RpcByNetwork <- MCRpcByNetwork
  Pages = {p1, p2}
  Sends = {s1, s2}
  Scans = {q1}
  TokenIds = {t1, t2}
  Window = 1
  MaxActs = 1
  MaxFaults = 1
  MaxHead <- MCMaxHead
SYMMETRY Symmetry
INVARIANTS
  IInv
  LockedAsSent
  DoneIsLocked
  SentIsListed
  ListedIsSent
