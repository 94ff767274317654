SPECIFICATION Spec
CONSTANTS
  Submission = {s1, s2}
  MaxSeats = 1
  Composite = {s1}
  Nobody = Nobody
INVARIANTS
  TypeOK
  GrantsFitCapacity
PROPERTIES
  GrantsAreAPool
  OnlyCancellationFreesSeat
