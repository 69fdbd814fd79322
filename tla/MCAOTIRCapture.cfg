SPECIFICATION Spec
CONSTANTS
  t1 = t1
  t2 = t2
  Threads = {t1, t2}
  Main = Main
  RIPs = {1, 2}
  v1 = v1
  v2 = v2
  Versions = {v1, v2}
  None = None
  Limit = 1
  Early = {2}
  DiskFails = TRUE
  RemapsAnytime = FALSE
  Modes = {"capture", "generate", "load"}
  MaxWrites = 1
  MaxProcesses = 2
SYMMETRY ThreadSymmetry
CHECK_DEADLOCK FALSE
INVARIANTS TypeOK OneFlusher LongQueueFlushed PublishedWhole NothingLost RecordsFaithful
PROPERTY FetchesCurrent
