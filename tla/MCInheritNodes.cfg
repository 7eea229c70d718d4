CONSTANTS
  Contracts <- MCContracts
  Graphs <- MCGraphs
  Programs <- MCPrograms
  Names <- MCNames
  NoContract = 0
SPECIFICATION SpecNodes
INVARIANTS
  LinearizationsAreC3
  BasesComeFirst
  RefusalsHaveReason
  VisibleAreMostDerived
  AcceptedIffLicensed
  UniqueNamesDistinct
PROPERTY SolveTerminates
