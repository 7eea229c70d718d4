INIT MCInit
NEXT MCNext
CONSTANTS
  Programs <- MCPrograms
  WordBytes = 3
  ByteBits = 3
  MaxDepth = 4
  Types <- MCTypes
  Contracts <- MCContracts
  Keys = {1, 2}
  Strings <- MCStrings
  Junk = {1, 2}
  MaxAssigns = 3
INVARIANTS
  EncodingIsStandard
  WritesStayInside
  PackedIsStandard
  ArgumentsArrive
  ResultIsFaithful
  SlotsAreApart
  ReadsLastAssigned
  PackedReadsBack
  IndexIsChecked
