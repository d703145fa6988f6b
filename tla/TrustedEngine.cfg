SPECIFICATION FairSpec
CONSTANTS
  t1 = t1
  t2 = t2
  t3 = t3
  t4 = t4
  id1 = id1
  id2 = id2
  id3 = id3
  Nobody = Nobody
  Requests = {t1, t2, t3, t4}
  RequestIds = {id1, id2, id3}
  IdOf <- MCIdOf
  Kind <- MCKind
  MaxCompleted = 1
  MaxInflight = 3
  MaxUpdates = 1
CHECK_DEADLOCK FALSE
PROPERTIES
  TakesTurns
  EveryTicketServed
INVARIANTS
  TypeOK
  GateInHands
  StatusOfOne
