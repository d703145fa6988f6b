SPECIFICATION Spec
CONSTANTS
  r1 = r1
  r2 = r2
  r3 = r3
  w1 = w1
  w2 = w2
  id1 = id1
  id2 = id2
  b1 = b1
  b2 = b2
  NoOne = NoOne
  Requests = {r1, r2, r3}
  RequestIds = {id1, id2}
  Workers = {w1}
  Backends = {b1}
  IdOf <- MCIdOf
  Ask <- MCAsk
  Skill <- MCSkill
  MaxInflight = 2
  MaxCompleted = 1
  MaxSpeed = 1
CHECK_DEADLOCK FALSE
INVARIANTS
  TypeOK
  BooksAgree
