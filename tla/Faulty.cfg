CONSTANTS
  c1 = c1
  w1 = w1
  w2 = w2
  Chats = {c1}
  Deps <- TwoDeps
  ChatOf <- OneChat
  Jobs <- SixJobs
  JobDep <- ThreeEach
  Workers = {w1, w2}
  Requests = {r1}
  Ops = {"destroy", "resolve"}
  MaxAttempts = 1
  Faults = {"crash", "statement", "precondition", "abandon", "disk"}
  MaxFaults = 1
  Teardown = TRUE
  Nothing = Nothing
  NoJob = NoJob
  NoDep = NoDep
SPECIFICATION Spec
SYMMETRY WorkerSymmetry
CHECK_DEADLOCK FALSE
INVARIANTS
  TypeOK
  OnePerChat
  ApplyHoldsLock
  AwaitedPlanStaysValid
  LiveIsRecorded
  DestroyOnlyTornDown
PROPERTIES
  LegalTransitions
  ImplementsSlot
