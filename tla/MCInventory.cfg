CONSTANTS
  Objects = 3
  ChunkRecords = 2
  FanIn = 2
  PageRecords = 2
  MaxReferences = 4
SPECIFICATION Spec
INVARIANT OnlyGarbageOffered
INVARIANT NothingForgotten
INVARIANT FailsForCause
