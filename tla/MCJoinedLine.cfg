SPECIFICATION Spec
CONSTANTS
  Characters <- MCCharacters
  Conventions <- MCConventions
  Lines <- MCLines
  Lists <- MCLists
CHECK_DEADLOCK FALSE
INVARIANTS
  JoinedIsSame
