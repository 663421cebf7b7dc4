SPECIFICATION Spec
CONSTANTS
  s1 = s1
  s2 = s2
  s3 = s3
  s4 = s4
  Seqs = {s1, s2, s3, s4}
  NumBlocks = 4
  BlockSize = 2
  NumCpuBlocks = 0
  WatermarkBlocks = 0
  PrefixCaching = FALSE
  None = None
  Chunked = FALSE
  SwapMode = FALSE
  MaxNumSeqs = 4
  MaxBatchTokens = 3
  MaxModelLen = 3
  Tokens = {0}
  Prompt <- TinyPrompt
  MaxTokens <- TwoTokens
  Policy = "fcfs"
  AgingRate = 0
  Priority <- NoPriority
  FailPoints = {"execute"}
INVARIANTS
  WithinBudget
CHECK_DEADLOCK FALSE
