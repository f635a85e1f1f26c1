\* Two goroutines, detections on a host that changes, hardware required; no symmetry.
CONSTANTS
  t1 = t1
  t2 = t2
  Threads <- MCThreads
  HwOnly = TRUE
  MaxRuns = 3
SPECIFICATION LiveSpec
INVARIANTS TypeOK OkMeansDetected NoForeignCancel
PROPERTIES DetectsOnce CallsReturn
