SPECIFICATION EngineSpec
CONSTANTS
  s1 = s1
  s2 = s2
  s3 = s3
  s4 = s4
  Seqs = {s1, s2, s3}
  NumBlocks = 4
  BlockSize = 2
  NumCpuBlocks = 2
  WatermarkBlocks = 0
  PrefixCaching = TRUE
  None = None
  Chunked = TRUE
  SwapMode = TRUE
  MaxNumSeqs = 4
  MaxBatchTokens = 4
  MaxModelLen = 8
  Tokens = {0, 1}
  Prompt <- PairPrompt
  MaxTokens <- PairMaxTokens
  Policy = "fcfs"
  AgingRate = 0
  Priority <- NoPriority
  FailPoints = {"execute"}
  CudaGraphs = TRUE
INVARIANTS
  WritesArePrivate
  ReadsOwnContext
  PublishedIsContent
  HostKeepsContext
CHECK_DEADLOCK FALSE
