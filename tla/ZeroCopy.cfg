SPECIFICATION FairSpec
CONSTANTS
  MaxU64 = 5
  Numbers = {0, 1, 2, 3}
  MaxFileLen = 4
  OverflowChecks = TRUE
  None = None
  Platforms = {"linux", "macos"}
  Capacity = 2
INVARIANTS DeliveredIsSlicePrefix ShortMeansFileWasShort UnshrunkFileIsCopiedWhole
PROPERTIES CopyTerminates ImplementsTransfer
