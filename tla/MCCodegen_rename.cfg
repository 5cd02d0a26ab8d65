CONSTANTS
  i1 = i1
  i2 = i2
  nobody = nobody
  Invocation <- OneInvocation
  Source <- Stems
  Jobs <- OneJob
  Nobody <- nobody
  RenameCanFail <- OneInvocation
  DiskCanFill = {}
SPECIFICATION Spec
INVARIANT RenameIsNoticed
