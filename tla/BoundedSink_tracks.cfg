SPECIFICATION Spec
CONSTANTS
  MaxLens = {None}
  Sizes = {1}
  MaxFileLen = 3
  Pipe = 2
  MaxOrphans = 2
  DiskErrors = FALSE
  None = None
INVARIANT TracksBytesWritten
