CONSTANTS
  MaxInteger = 7
  ExactDouble = 4
  MaxDouble = 8
  MaxRows = 5
  BatchRows = 2
  Quantum = 4
  ArgumentRows = 1
  Queries <- MCQueries
SPECIFICATION Spec
PROPERTIES ImplementsStream EveryQueryEnds SpentLimitsRest
