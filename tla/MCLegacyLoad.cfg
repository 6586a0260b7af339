CONSTANTS
  Unreadable = Unreadable
  MaxIssued = 3
  Columns = 2
  Rows <- Rewritten
SPECIFICATION Spec
INVARIANT RootsFindTheirUnit
INVARIANT ChargeCoversFiles
PROPERTY ImplementsPromise
