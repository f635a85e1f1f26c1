\* Two clients, transcode (temp_file) and explicit-cut copy jobs: two jobs are
\* enough for a kill, a rewrite and a cached tail.
CONSTANTS
  c1 = c1
  c2 = c2
  Clients <- MCClients
  N = 2
  Requests = {0, 1}
  Gap = 1
  Kinds = {TRUE, FALSE}
  Clear = TRUE
  Cached = {}
  MaxJobs = 2
  MaxCrashes = 0
SPECIFICATION Spec
INVARIANTS TypeOK OneActiveJob NoOrphanJob JobIsWatched PendingHasReader
SYMMETRY Swap
