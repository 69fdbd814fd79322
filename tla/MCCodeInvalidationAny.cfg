SPECIFICATION Spec
CONSTANTS
  t1 = t1
  t2 = t2
  p1 = p1
  p2 = p2
  b1 = b1
  b2 = b2
  Threads = {t1, t2}
  Pages = {p1, p2}
  Mirrors = {p2}
  Blocks = {b2}
  Span <- WideSpan
  Syscalls = {"mmap", "munmap", "mprotect", "mremap", "shmdt"}
  Overlaps = {"syscall", "fault", "compile"}
SYMMETRY ThreadSymmetry
CHECK_DEADLOCK FALSE
INVARIANTS Registered
