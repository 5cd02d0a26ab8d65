CONSTANTS
  w1 = w1
  w2 = w2
  w3 = w3
  Worker <- TwoWorkers
  JobCounts <- NoThreads
SPECIFICATION FairSpec
PROPERTY Termination
\* -j=0 is accepted and leaves the main thread waiting for ever.
CHECK_DEADLOCK FALSE
