SPECIFICATION Spec
CONSTANTS
  Seqs = {s1, s2}
  NumBlocks = 3
  BlockSize = 2
  NumCpuBlocks = 2
  WatermarkBlocks = 0
  PrefixCaching = TRUE
  None = None
  Tokens = {0, 1}
  Prompts <- SharedPrompts
  MaxTokens = 5
SYMMETRY Symmetry
INVARIANTS
  NoLeak
  PublishedIsComputed
PROPERTY ImplementsPool
CHECK_DEADLOCK FALSE
