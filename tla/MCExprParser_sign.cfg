CONSTANTS
  Inputs <- SignFirst
  Correct <- SignFirst
SPECIFICATION Spec
INVARIANT ReadAsExpected
