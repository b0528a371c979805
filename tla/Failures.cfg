CONSTANTS
  Resources = {r1, r2}
  Echoes = {"timeout", "account_problem"}
  MaxMatches = 2
  Nothing = Nothing
SPECIFICATION Spec
CHECK_DEADLOCK FALSE
INVARIANTS
  OnlyWordsHideDoubt
  OutputDoesNotClassify
  FlagsSurviveStorage
