\* Without clients nothing happens.
SPECIFICATION Spec
CHECK_DEADLOCK FALSE
CONSTANTS
  c1 = c1
  c2 = c2
  Conns = {c1, c2}
  MaxConnections = 2
INVARIANTS TypeOK CountIsSessions ReaderIsWoken
PROPERTIES LoginEnds IdleUserRemoved
