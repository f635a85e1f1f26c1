\* A job starts at a segment that got ready after the client looked for it.
CONSTANTS
  c1 = c1
  c2 = c2
  Clients <- OneClient
  N = 3
  Requests = {1}
  Gap = 1
  Kinds = {FALSE}
  Clear = TRUE
  Cached = {}
  MaxJobs = 2
  MaxCrashes = 0
SPECIFICATION Spec
PROPERTY TailKept
