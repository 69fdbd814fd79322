SPECIFICATION Spec
CONSTANTS
  Addrs <- HighAddrs
  ExitOf <- Next3
  HostCodes = {1, 2, 3}
  Buffer <- OneBuffer
  LastBuffer = 0
  L1_ENTRIES = 2
  PAGE = 2
  VirtualMemSize = 8
  CODE_PAGES = 2
  CrossThread = FALSE
  TSOAutoMigration = FALSE
  Signals = FALSE
CHECK_DEADLOCK TRUE
INVARIANTS LookupSound LinkSound
PROPERTIES NoStaleEntry ImplementsBlockMap
