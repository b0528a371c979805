CONSTANTS
  c1 = c1
  w1 = w1
  w2 = w2
  Chats = {c1}
  Deps <- OneDep
  ChatOf <- Alone
  Jobs <- FourJobs
  JobDep <- AllOne
  Workers = {w1, w2}
  Requests = {r1}
  Ops = {"destroy", "cancel"}
  MaxAttempts = 2
  Faults = {"crash", "half_recorded", "statement", "precondition", "abandon", "disk"}
  MaxFaults = 2
  Teardown = TRUE
  Nothing = Nothing
  NoJob = NoJob
  NoDep = NoDep
SPECIFICATION Spec
SYMMETRY WorkerSymmetry
CHECK_DEADLOCK FALSE
INVARIANTS
  OneTerraformPerChat
  AttemptsBounded
  ApplyRunsApprovedPlan
  InFlightHasWork
  LossIsOnRecord
PROPERTIES
  UnknownJobIsFinal
