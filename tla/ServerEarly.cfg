SPECIFICATION Spec
CONSTANTS
  Requests = {r1, r2}
  MaxOutputs = 2
  None = None
INVARIANTS
  NothingDecodedForNobody
CHECK_DEADLOCK FALSE
