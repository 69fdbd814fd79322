SPECIFICATION Spec
CONSTANTS
  main = main
  t1 = t1
  t2 = t2
  Threads = {main, t1, t2}
  Parent = main
  Gdb = gdb
  NoThread = none
  FirstClone = FALSE
  COUNT_RANGE = 8
  MaxNested = 1
  Overlaps = {}
CHECK_DEADLOCK TRUE
INVARIANTS TypeOK CountExact PausedMeansStopped OnlyMissed
PROPERTIES CommandsEnd StopEnds
