SPECIFICATION FairSpec
CONSTANTS
  s1 = s1
  s2 = s2
  s3 = s3
  s4 = s4
  Seqs = {s1, s2, s3}
  NumBlocks = 3
  BlockSize = 2
  NumCpuBlocks = 1
  WatermarkBlocks = 0
  PrefixCaching = FALSE
  None = None
  Chunked = TRUE
  SwapMode = TRUE
  MaxNumSeqs = 3
  MaxBatchTokens = 3
  MaxModelLen = 8
  Tokens = {0}
  Prompt <- MCPrompt
  MaxTokens <- MCMaxTokens
  Policy = "sjf"
  AgingRate = 0
  Priority <- NoPriority
  FailPoints = {"execute"}
INVARIANTS
  QueuesAgree
  BlocksAccounted
  OnePrefill
  WithinBudget
  EveryRunningAdvances
  BatchHasSlots
PROPERTIES
  EveryRequestEnds
  ImplementsLifecycle
CHECK_DEADLOCK FALSE
