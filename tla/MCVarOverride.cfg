CONSTANTS
  Contracts <- MCContracts
  Graphs <- MCGraphs
  Programs <- MCPrograms
  Names <- MCNames
  NoContract = 0
SPECIFICATION SpecNodes
INVARIANT FunctionOverrideIsReported
