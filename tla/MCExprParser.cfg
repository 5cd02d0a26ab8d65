CONSTANTS
  Inputs <- AnyInput
  Correct <- Statements
SPECIFICATION FairSpec
INVARIANTS
  TypeOK
  ParensCounted
  StackSorted
  NullMeansError
  ReadAsExpected
PROPERTY Termination
