CONSTANTS
  MaxNodes = 9
  RhsMayBranch = FALSE
  Word = 2
  Byte = 2
  Jobs <- MCJobs
SPECIFICATION MCSpec
INVARIANTS
  PhiCoversPredecessors
  LoweringIsComplete
  HelpersDoNotRecur
  ComputesTheSame
PROPERTIES
  ImplementsShortCircuit
  ConditionEnds
  Terminates
