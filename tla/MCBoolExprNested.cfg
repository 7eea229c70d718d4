CONSTANTS
  MaxNodes = 5
  RhsMayBranch = TRUE
SPECIFICATION Spec
INVARIANT PhiCoversPredecessors
