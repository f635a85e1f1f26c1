SPECIFICATION FairSpec
CONSTANTS
  Calls = {c1, c2}
  Methods <- MCMethods
  Capacity <- MCCapacity
  Stuck = {}
INVARIANTS
  TypeOK
  ProcessHasSlot
  FilesAreWhole
  WriterLeftAlone
PROPERTIES
  OneSlotAtATime
  CancelledCallsEnd
CHECK_DEADLOCK FALSE
