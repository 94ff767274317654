CONSTANTS
  Training = {t1, t2}
  Declaration = declaration
  Agreement = agreement
  Scarce = {t1}
  Countersigned = FALSE
  MaxEdits = 1
  MaxFaults = 0
SPECIFICATION Spec
INVARIANT FinishedHasSeats
CHECK_DEADLOCK FALSE
