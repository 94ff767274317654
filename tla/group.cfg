SPECIFICATION FairSpec
CONSTANTS
  Training = {t1, t2}
  Declaration = declaration
  Agreement = agreement
  Scarce = {t1}
  Countersigned = TRUE
  MaxEdits = 1
  MaxFaults = 1
INVARIANTS
  TypeOK
  SignedOnce
  DraftIsCurrent
PROPERTIES
  SignedInTurn
  StepCompletes
CHECK_DEADLOCK FALSE
