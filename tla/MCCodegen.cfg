CONSTANTS
  i1 = i1
  i2 = i2
  nobody = nobody
  Invocation <- TwoInvocations
  Source <- Stems
  Jobs <- BuildJobs
  Nobody <- nobody
  RenameCanFail <- Second
  DiskCanFill <- OneInvocation
SPECIFICATION Spec
INVARIANTS
  TypeOK
  ImportsAreChecked
  SuccessMeansModuleFile
  NoTemporariesLeft
  SuccessMeansOutput
  RejectionKeepsOutput
PROPERTY SuccessLasts
