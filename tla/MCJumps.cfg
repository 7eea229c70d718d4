CONSTANTS
  MaxNodes = 2
  StrictJumps = FALSE
SPECIFICATION Spec
INVARIANT JumpsAreInLoops
