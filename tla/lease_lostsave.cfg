CONSTANTS
  Request = {r1, r2}
  Doc = {declaration, agreement}
  Declaration = declaration
  Agreement = agreement
  None = None
SPECIFICATION Spec
SYMMETRY Symmetry
PROPERTY ClaimKeepsDocuments
CHECK_DEADLOCK FALSE
