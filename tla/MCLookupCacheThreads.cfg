SPECIFICATION Spec
CONSTANTS
  Addrs <- HighAddrs
  ExitOf <- Next3
  HostCodes = {1, 2, 3}
  Buffer <- TwoBuffers
  LastBuffer = 1
  L1_ENTRIES = 2
  PAGE = 2
  VirtualMemSize = 8
  CODE_PAGES = 2
  CrossThread = TRUE
  TSOAutoMigration = TRUE
  Signals = TRUE
CHECK_DEADLOCK TRUE
INVARIANTS NoFreedCode L2Sound
