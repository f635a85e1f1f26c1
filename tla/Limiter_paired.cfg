\* Three callers, one slot per tier, a global cap of two: every channel is
\* contended, and the global slot is held while the tier is waited for.
CONSTANTS
  o1 = o1
  o2 = o2
  o3 = o3
  Ops <- MCOps
  TierCap <- OneEach
  GlobalMax = 2
  MaxLarge = 1
  MaxStrays = 0
SPECIFICATION LiveSpec
INVARIANTS TypeOK SlotAccounting NoMisrelease
PROPERTIES ImplementsPool Served
