SPECIFICATION Spec
CONSTANTS
  r1 = r1
  r2 = r2
  r3 = r3
  Nobody = Nobody
  Requests = {r1, r2}
  Models <- MCModels
  Needs <- MCNeeds
  Evicts = TRUE
  MaxGeneration = 6
CHECK_DEADLOCK FALSE
INVARIANTS
  AcceptedWorkFinishes
