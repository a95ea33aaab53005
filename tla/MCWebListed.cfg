SPECIFICATION Spec
CHECK_DEADLOCK FALSE
CONSTANTS
  a1 = a1  a2 = a2  l1 = l1  l2 = l2  t1 = t1  t2 = t2  c1 = c1  c2 = c2
  None = None
  Owners = {a1, a2}
  Logins = {l1, l2}
  OwnerOf <- MCOwnerOf
  Tabs = {t1}
  Calls = {c1, c2}
  TabOf <- MCOneTab
  MaxExpiries = 0
  MaxFaults = 0
INVARIANTS
  ListedIsOwn
