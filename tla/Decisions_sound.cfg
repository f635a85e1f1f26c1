SPECIFICATION Spec
CONSTANTS
  VideoScale = 6
  AudioScale = 4
  Resolution = 12
  Tolerance = 6
  MaxV0 = 60
  MinBytes = 64
  InferredScales <- MCInferredScales
  Plausible <- MCPlausible
INVARIANTS
  PlanServes
  JobsFollowPlan
  MediaJobsSound
  FragmentsSound
  EncodersHonoured
  DevicesHonoured
  FramesArrive
CHECK_DEADLOCK FALSE
