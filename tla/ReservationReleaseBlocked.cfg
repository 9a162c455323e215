CONSTANTS
  a1 = a1  a2 = a2  i1 = i1  i2 = i2  i3 = i3
  Account = {a1}
  Intent = {i1, i2}
  Amount = {1, 2}
  Limits = {1, 4}
SPECIFICATION LedgerSpec
INVARIANTS ReleaseFrees
