\* The server stops after a signal.
SPECIFICATION Spec
CHECK_DEADLOCK FALSE
CONSTANTS
  main = main
  w1 = w1
  w2 = w2
  w3 = w3
  w4 = w4
  CommandLines <- MCCommandLines
  CoreCounts = {0, 4}
  IntLimit = 1048576
  SizeLimit = 16777216
  Threads = {main, w1, w2, w3, w4}
  Main = main
  MaxReady = 3
INVARIANTS TypeOK OptionsInRange OneHandlerAtATime
PROPERTY StopEnds
