CONSTANTS
  Names <- MCNames
  Places <- MCPlaces
  Visits <- MCVisits
  NoDecl = NoDecl
SPECIFICATION Spec
INVARIANTS
  NothingIsLost
  FollowsScopeRules
PROPERTY BindingsAreFinal
