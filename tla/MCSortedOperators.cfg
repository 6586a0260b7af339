CONSTANTS
  Sides = {0, 1}
  RunRows = 1
  StartRows = 2
  CeilingRows = 3
  MaxRows = 5
  IoCells = 3
  BatchRows = 2
  OutputRows = 2
  ReadAhead = 1
  Queries <- MCQueries
  Verdict <- MCVerdict
SPECIFICATION Spec
INVARIANT NothingInternal
PROPERTIES ImplementsStream EveryQueryEnds
