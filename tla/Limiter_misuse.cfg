\* Two callers that also call Release without an Acquire.
CONSTANTS
  o1 = o1
  o2 = o2
  o3 = o3
  Ops <- MCTwoOps
  TierCap <- OneEach
  GlobalMax = 1
  MaxLarge = 0
  MaxStrays = 2
SPECIFICATION MisuseSpec
INVARIANT MisuseContained
