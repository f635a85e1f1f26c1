\* One caller whose context ends while its detection runs.
CONSTANTS
  t1 = t1
  t2 = t2
  Threads <- MCThreads
  HwOnly = TRUE
  MaxRuns = 1
SPECIFICATION Spec
INVARIANT CancelDoesNotStick
