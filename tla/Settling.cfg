CONSTANTS
  c1 = c1
  w1 = w1
  w2 = w2
  Chats = {c1}
  Deps <- TwoDeps
  ChatOf <- OneChat
  Jobs <- FiveJobs
  JobDep <- ThreeAndTwo
  Workers = {w1, w2}
  Requests = {r1}
  Ops = {"destroy"}
  MaxAttempts = 1
  Faults = {"crash", "half_recorded"}
  MaxFaults = 1
  Teardown = TRUE
  Nothing = Nothing
  NoJob = NoJob
  NoDep = NoDep
SPECIFICATION LiveSpec
CHECK_DEADLOCK FALSE
PROPERTIES
  DeploymentsSettle
  JobsSettle
