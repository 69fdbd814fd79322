SPECIFICATION Spec
CONSTANTS
  t1 = t1
  t2 = t2
  p1 = p1
  p2 = p2
  b1 = b1
  b2 = b2
  Threads = {t1, t2}
  Pages = {p1, p2}
  Mirrors = {}
  Blocks = {b1, b2}
  Span <- BothSpans
  Syscalls = {"mmap", "munmap", "mprotect"}
  Overlaps = {}
SYMMETRY ThreadSymmetry
CHECK_DEADLOCK TRUE
INVARIANTS NoStaleCode ProtectionKept ProtectSucceeds
