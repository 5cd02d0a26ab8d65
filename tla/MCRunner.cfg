CONSTANTS
  w1 = w1
  w2 = w2
  w3 = w3
  Worker <- ThreeWorkers
  JobCounts <- RealPools
SPECIFICATION FairSpec
INVARIANTS
  TypeOK
  ExitCodeSound
  OptionsSettled
  OneAstOwner
  CleanShutdown
PROPERTIES
  ImplementsCompilation
  Termination
