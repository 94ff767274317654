CONSTANTS
  Request = {r1, r2}
  MaxRotations = 1
  WorkersTimeOut = TRUE
  None = None
SPECIFICATION Spec
SYMMETRY Symmetry
PROPERTY SubmittedStays
CHECK_DEADLOCK FALSE
