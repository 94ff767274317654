CONSTANTS
  Training = {t1, t2}
  Declaration = declaration
  Agreement = agreement
  Scarce = {}
  Countersigned = FALSE
  MaxEdits = 1
  MaxFaults = 0
SPECIFICATION Spec
INVARIANT AgreementNeedsAll
CHECK_DEADLOCK FALSE
