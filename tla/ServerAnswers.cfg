SPECIFICATION FairSpec
CONSTANTS
  Requests = {r1, r2}
  MaxOutputs = 2
  None = None
INVARIANTS
  WorksForSomebody
  WholeAnswer
PROPERTIES
  NobodyStranded
CHECK_DEADLOCK FALSE
