SPECIFICATION Spec
CONSTANTS
  r1 = r1
  r2 = r2
  r3 = r3
  r4 = r4
  r5 = r5
  r6 = r6
  Nobody = Nobody
  Requests = {r1, r3}
  Uploads = {r1}
  TaskOf <- MCTaskOf
  TokenOf <- MCTokenOf
  InputOf <- MCInputOf
  SizeOf <- MCSizeOf
  MaxBytes = 3
CHECK_DEADLOCK FALSE
PROPERTIES
  CachedIsFound
