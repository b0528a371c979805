CONSTANTS
  c1 = c1
  w1 = w1
  w2 = w2
  Chats = {c1}
  Deps <- TwoDeps
  ChatOf <- OneChat
  Jobs <- SixJobs
  JobDep <- ThreeEach
  Workers = {w1, w2}
  Requests = {r1}
  Ops = {"destroy"}
  MaxAttempts = 1
  Faults = {}
  MaxFaults = 0
  Teardown = TRUE
  Nothing = Nothing
  NoJob = NoJob
  NoDep = NoDep
SPECIFICATION Spec
SYMMETRY WorkerSymmetry
CHECK_DEADLOCK FALSE
INVARIANTS
  AppliedExists
