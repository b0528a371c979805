CONSTANTS
  Accounts = {a1, a2}
  Owned = {a1, a2}
  MaxRows = 1
  MaxFaults = 1
  Requests = {r1, r2}
  NoAccount = NoAccount
  NoRow = NoRow
  NoTarget = NoTarget
SPECIFICATION Spec
SYMMETRY Interchangeable
INVARIANTS
  TypeOK
  RecordIsTrue
  NeverSplit
