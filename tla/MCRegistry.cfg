CONSTANTS
  Thread = {t1, t2, t3}
  Free = Free
  Slots = 3
  MaxPins = 2
  MaxIssued = 3
  MaxSuccesses = 2
SPECIFICATION Spec
SYMMETRY Threads
INVARIANT PinnedFilesExist
INVARIANT PinnedSlotsKeepTheirView
INVARIANT WriterSlotUnpinned
INVARIANT AnswersAreTrue
INVARIANT GenerationNotBehind
PROPERTY SnapshotsAreFresh
