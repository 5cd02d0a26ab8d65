CONSTANTS
  Programs <- MCPrograms
  GivenTypes <- MCTypes
  GivenVariables <- MCVariables
  Functions <- MCFunctions
  Returns = "i32"
  NoName = NoName
SPECIFICATION Spec
INVARIANTS
  TypeOK
  ForbiddenIsRejected
  AllowedIsGenerated
  RunsAsWritten
CHECK_DEADLOCK FALSE
