CONSTANTS
  Texts <- MCTexts
  Keywords <- MCKeywords
SPECIFICATION FairSpec
INVARIANTS
  TypeOK
  TokensTile
  RefusedForCause
  LocationsExact
  UndefinedOnlyWhen
PROPERTY Termination
