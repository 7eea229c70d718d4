CONSTANTS
  MaxNodes = 4
  StrictJumps = FALSE
SPECIFICATION SpecExec
INVARIANTS
  EmissionInv
  InsertBlockOpen
  AllBlocksTerminated
  TargetsInFunction
  DefaultBlockEmptyIffUnvisited
PROPERTIES
  TerminatorsFinal
  ImplementsSource
