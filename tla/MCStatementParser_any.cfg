CONSTANTS
  Inputs <- AnyTokens
  Correct <- Programs
SPECIFICATION FairSpec
INVARIANTS
  TypeOK
  AcceptedIsProgram
  CorrectIsAccepted
PROPERTY Termination
