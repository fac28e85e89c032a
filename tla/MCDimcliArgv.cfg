SPECIFICATION FairSpec
CONSTANTS
  Characters <- MCCharacters
  Conventions <- MCConventions
  Lines <- MCLines
  Lists <- MCLists
CHECK_DEADLOCK FALSE
INVARIANTS
  ArgvTypeOK
  ParsesBack
  GnuRules
  NoBareWhite
PROPERTIES
  Splits
