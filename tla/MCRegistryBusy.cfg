CONSTANTS
  Thread = {t1, t2}
  Free = Free
  Slots = 2
  MaxPins = 1
  MaxIssued = 1
  MaxSuccesses = 1
SPECIFICATION Spec
PROPERTY ReadersNeverDisable
