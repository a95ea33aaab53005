SPECIFICATION Spec
CONSTANTS
  a1 = a1  a2 = a2
  n1 = n1  n2 = n2  n3 = n3
  t1 = t1  t2 = t2  t3 = t3  t4 = t4
  v1 = v1  v2 = v2  r1 = r1  r2 = r2
  None = None
  Accounts = {a1}
  Spellings = {"0x"}
  Canonical = "0x"
  Chains = {1}
  Origins = {"app"}
  Nonces = {n1, n2}
  Tokens = {t1, t2, t3}
  Verifiers = {v1, v2}
  Refreshers = {r1}
  NonceTTL = 1
  AccessTTL = 1
  RefreshTTL = 1
  MaxTime = 2
SYMMETRY Symmetry
INVARIANTS
  NonceOneTime
