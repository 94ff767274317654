CONSTANTS
  Clerk = {c1, c2}
  MaxJobs = 3
  None = None
SPECIFICATION CaseSpec
PROPERTIES FailedEditKeepsCase
CHECK_DEADLOCK FALSE
