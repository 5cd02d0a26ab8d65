CONSTANTS
  NoName = "-"
  Programs <- MCPrograms
SPECIFICATION Spec
INVARIANTS TypeOK FollowsSource WellFormedCode NamesResolve ScopesNest StoredBeforeRead
