SPECIFICATION Spec
CONSTANTS
  Vocab <- SmallVocab
  EosIds = {"eos"}
  StopLists <- SmallStops
  MaxTokens = 4
  None = None
INVARIANTS
  StreamIsFullText
  CutAtFirstStop
  StopOnlyInTail
CHECK_DEADLOCK FALSE
