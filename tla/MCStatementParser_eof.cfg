CONSTANTS
  Inputs <- OneToken
  Correct <- NoPrograms
SPECIFICATION Spec
INVARIANT EofIsReached
