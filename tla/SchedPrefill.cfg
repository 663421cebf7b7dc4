SPECIFICATION FairSpec
CONSTANTS
  s1 = s1
  s2 = s2
  s3 = s3
  s4 = s4
  Seqs = {s1, s2, s3}
  NumBlocks = 3
  BlockSize = 2
  NumCpuBlocks = 3
  WatermarkBlocks = 0
  PrefixCaching = TRUE
  None = None
  Chunked = FALSE
  SwapMode = TRUE
  MaxNumSeqs = 3
  MaxBatchTokens = 8
  MaxModelLen = 8
  Tokens = {0}
  Prompt <- LongPrompt
  MaxTokens <- LongMaxTokens
  Policy = "priority"
  AgingRate = 1
  Priority <- UrgentPriority
  FailPoints = {"execute"}
INVARIANTS
  FailsOnlyIfTooLarge
  NeverStuck
  OvertakingIsEarned
PROPERTIES
  EveryRequestEnds
CHECK_DEADLOCK FALSE
