CONSTANTS
  Names <- MatrixNames
  Places <- MCPlaces
  Visits <- MatrixVisits
  NoDecl = NoDecl
SPECIFICATION Spec
INVARIANT LatestDeclarationIsMeant
