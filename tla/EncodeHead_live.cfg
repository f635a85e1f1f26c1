\* Two refreshes, both kinds of job: two jobs, one segment unlinked under them, and the
\* head after the last event; no symmetry.
CONSTANTS
  t1 = t1
  t2 = t2
  Threads <- MCThreads
  N = 2
  Kinds = {TRUE, FALSE}
  MaxJobs = 2
  MaxUnlinks = 1
SPECIFICATION LiveSpec
INVARIANTS TypeOK HeadBacked
PROPERTY HeadCatchesUp
