SPECIFICATION EnginesFairSpec
CONSTANTS
  r1 = r1
  r2 = r2
  r3 = r3
  boot = boot
  c1 = c1
  c2 = c2
  Nobody = Nobody
  Requests = {r1, r2, r3}
  Models <- MCModels
  Needs <- MCNeeds
  Evicts = TRUE
  MaxGeneration = 8
  Callers = {boot, c1, c2}
  Startup = boot
  Enhancers = {c1}
  MaxStarts = 3
  MaxPipe = 2
  Deadline = 2
CHECK_DEADLOCK FALSE
INVARIANTS
  EnginesTypeOK
  HeldWhileUsed
  FullIdlePeriod
  OwnAnswers
  WorkOnProved
  NoneLeftBehind
PROPERTIES
  IdleModelsGo
  LockComesBack
