SPECIFICATION Spec
CONSTANTS
    Sources <- MCSources
    MaxMade = 8
    MaxOperators = 3
    MaxSample = 4
INVARIANTS
    
    UnreportedIsRead
PROPERTIES
    ParseEnds
CHECK_DEADLOCK FALSE
