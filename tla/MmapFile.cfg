SPECIFICATION MmapSpec
CONSTANTS
  Users = {u1, u2}
  Len = 2
  MaxWrites = 1
  None = None
  Callers = {c1, c2}
  Owner = c1
  Lens = {1, 2}
  Existing = {None, 2}
INVARIANT MmapTypeOK FlushedSurvives MappingInsideFile
PROPERTY FlushEnds
