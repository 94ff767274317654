SPECIFICATION FairSpec
CONSTANTS
  Request = {r1, r2, r3}
  MaxRotations = 1
  WorkersTimeOut = TRUE
  None = None
INVARIANTS
  TypeOK
  SingleSubmitter
  OneSubmission
  SubmittedIsBacked
PROPERTIES
  DraftHasOneOutcome
  ClaimEnds
CHECK_DEADLOCK FALSE
