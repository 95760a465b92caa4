SPECIFICATION FairSpec
CONSTANTS
  w1 = w1
  w2 = w2
  w3 = w3
  d1 = d1
  d2 = d2
  Wizards = {w1, w2, w3}
  Outputs = {d1, d2}
  Home <- MCHome
  Keys = {k1, k2}
  Leaves = {l1, l2}
  None = None
  MaxChanges = 1
  MaxFaults = 1
INVARIANT OneKey
INVARIANT OneLeaf
PROPERTY Recovers
