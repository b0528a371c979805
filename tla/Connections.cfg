CONSTANTS
  Accounts = {a1, a2}
  Owned = {a1}
  MaxRows = 2
  MaxFaults = 1
  Requests = {r1, r2}
  NoAccount = NoAccount
  NoRow = NoRow
  NoTarget = NoTarget
SPECIFICATION ConnectionSpec
INVARIANTS
  BrokenSaysWhy
PROPERTIES
  ExternalIdKept
  VerdictCatchesUp
