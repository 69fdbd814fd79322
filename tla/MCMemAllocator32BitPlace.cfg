SPECIFICATION Spec
CONSTANTS
  Threads = {t1, t2}
  NoThread = none
  Movers = {t1}
  BASE_KEY = 2
  TOP_KEY = 5
  TOP_KEY32BIT = 3
  Lengths = {1, 2}
  Segments = {s1}
  NoSegment = noseg
  SegPages <- TwoPages
  SegFloor <- OnePage
  MaxSegPages = 2
  Foreign = {2}
CHECK_DEADLOCK TRUE
INVARIANTS Tracked FindsHighest
PROPERTY NoClobber
