CONSTANTS
  Names <- MCNames
  Places <- MCPlaces
  Visits <- MCVisits
  NoDecl = NoDecl
SPECIFICATION Spec
INVARIANT AssertionNeverFails
