CONSTANTS
  Invocations <- MCInvocations
  NoFile = NoFile
SPECIFICATION Spec
INVARIANTS
  DriverInv
  ExitCodeIsRight
  OutputsAreComplete
  OutputsPrecedeErrors
