SPECIFICATION TrackSpec
CONSTANTS
  PageCount = 4
  Resources = {"shm", "file"}
  Segments = {"shm"}
  ResourceLength = 2
  NoResource = "none"
  EndInside = FALSE
  Interleaved = FALSE
CHECK_DEADLOCK TRUE
INVARIANTS Disjoint MirrorsListed
INVARIANTS TracksGuestMap MirrorsFound
