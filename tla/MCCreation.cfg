CONSTANTS
  Process = {p1, p2}
  Nobody = Nobody
  MaxCreations = 2
SPECIFICATION Spec
SYMMETRY Processes
INVARIANT OneActor
INVARIANT OpenedStaysWhole
INVARIANT CreatedIsDurable
INVARIANT FailedIsGone
