SPECIFICATION MainSpec
CONSTANTS
  Letters <- MCLetters
  Programs <- MCFinalPrograms
  FileSystems <- MCFileSystems
  Argvs <- MCArgvs
CHECK_DEADLOCK FALSE
INVARIANT
  FinalEndsOptions
