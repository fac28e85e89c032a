SPECIFICATION MainSpec
CONSTANTS
  Letters <- MCLetters
  Programs <- MCMainPrograms
  FileSystems <- MCFileSystems
  Argvs <- MCArgvs
CHECK_DEADLOCK FALSE
INVARIANTS
  ParseReturns
