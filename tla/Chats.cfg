CONSTANTS
  cheap = cheap
  dear = dear
  wrong = wrong
  Docs <- ThreeDocs
  Faulty <- WrongOnly
  Cost <- Costs
  Amounts = {1, 3}
  Requests = {r1, r2}
  MaxVersions = 3
  MaxMessages = 4
  NoDoc = NoDoc
SPECIFICATION Spec
SYMMETRY RequestSymmetry
INVARIANTS
  TypeOK
  HistoryIsChain
  EveryVersionNarrated
  EditShowsNoStaleChange
PROPERTIES
  BudgetBindsItsTurn
