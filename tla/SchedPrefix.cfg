SPECIFICATION Spec
CONSTANTS
  s1 = s1
  s2 = s2
  s3 = s3
  s4 = s4
  Seqs = {s1, s2, s3, s4}
  NumBlocks = 3
  BlockSize = 2
  NumCpuBlocks = 0
  WatermarkBlocks = 1
  PrefixCaching = TRUE
  None = None
  Chunked = FALSE
  SwapMode = FALSE
  MaxNumSeqs = 3
  MaxBatchTokens = 8
  MaxModelLen = 8
  Tokens = {0, 1}
  Prompt <- SharedPrompt
  MaxTokens <- SharedMaxTokens
  Policy = "fcfs"
  AgingRate = 0
  Priority <- NoPriority
  FailPoints = {"update"}
INVARIANTS
  TypeOK
  FirstComeFirstServed
  PeekIsFirst
  NeverStuck
CHECK_DEADLOCK FALSE
