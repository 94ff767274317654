SPECIFICATION Spec
SYMMETRY Symmetry
CONSTANTS
  Submission = {s1, s2}
  MaxSeats = 1
  Composite = {}
  Nobody = Nobody
INVARIANT NoOverbooking
