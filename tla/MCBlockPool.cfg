SPECIFICATION Spec
CONSTANTS
  Seqs = {s1, s2, s3}
  Blocks = {b1, b2, b3, b4}
  CpuBlocks = {c1, c2}
  Hashes = {h1, h2}
  None = None
  Chains <- AllChains
  MaxChain = 2
SYMMETRY Symmetry
CONSTRAINT Bound
INVARIANTS
  TypeOK
  RefCountsAreHolders
  OnePool
  CacheConsistent
  SharedIsPublished
  RightContent
  HostPool
PROPERTY HeldStaysPublished
