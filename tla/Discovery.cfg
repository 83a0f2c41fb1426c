SPECIFICATION Spec
CONSTANTS
  s1 = s1
  s2 = s2
  i1 = i1
  i2 = i2
  Session = {s1, s2}
  Owner = {1, 2, 3}
  Object = {1, 2, 3}
  Published = {1}
  OwnerOf <- MCOwnerOf
  Bytes <- MCBytes
  Inventory = {i1, i2}
  Capacity = {7}
  Limit = 9
  MaxAge = 1
  MaxTime = 2
  Skew = {0, 1}
  Expiry = {1, 2}
  Changes = 4
  Samples = 3
  None = None
ACTION_CONSTRAINT InScope
CHECK_DEADLOCK FALSE
INVARIANTS NotTorn GuardSeesNoChange EvidenceIsOfThisState SlicesShareBudget
