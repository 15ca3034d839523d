SPECIFICATION Spec
CONSTANTS
  MaxLens = {3, None}
  Sizes = {1, 2, 3}
  MaxFileLen = 5
  Pipe = 2
  MaxOrphans = 2
  DiskErrors = TRUE
  None = None
INVARIANT CountedBytesAccounted NeverBeyondMax
PROPERTY FlushOkMeansWritten
