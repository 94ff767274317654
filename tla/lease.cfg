SPECIFICATION FairSpec
CONSTANTS
  Request = {r1, r2, r3}
  Doc = {declaration, agreement}
  Declaration = declaration
  Agreement = agreement
  None = None
INVARIANTS
  TypeOK
  HolderKeepsLease
  AdvancedOnce
PROPERTIES
  Exclusive
  LeaseEnds
CHECK_DEADLOCK FALSE
