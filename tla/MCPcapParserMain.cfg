SPECIFICATION FairMainSpec
CONSTANTS
  Letters <- MCLetters
  Programs <- MCPrograms
  FileSystems <- MCFileSystems
  Argvs <- MCArgvs
CHECK_DEADLOCK FALSE
INVARIANTS
  CommandTypeOK
  ExpandsAll
  OperandsInOrder
  AcceptedIsComplete
  FinalEndsOptions
  ExitTells
  SecondParseAgrees
PROPERTIES
  ProgramEnds
