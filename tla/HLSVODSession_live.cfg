\* One client, both kinds of job, a crash, requests past the end, whatever an earlier run
\* left in the directory; no symmetry.
CONSTANTS
  c1 = c1
  c2 = c2
  Clients <- OneClient
  N = 2
  Requests = {0, 1, 2}
  Gap = 1
  Kinds = {TRUE, FALSE}
  Clear = TRUE
  Cached = {"frag", "full"}
  MaxJobs = 2
  MaxCrashes = 1
SPECIFICATION LiveSpec
PROPERTIES Returns NoRestartLoop GapIsFilled
