CONSTANTS
  Inputs <- SignInParens
  Correct <- SignInParens
SPECIFICATION Spec
INVARIANT OperandsPresent
