\* The name that the second read asks for, for every map.
SPECIFICATION Spec
CONSTANTS
  Token <- Tokens
  Map <- Maps
  Leftover <- Leftovers
  File <- Files
  NoFile = NoFile
INVARIANT
  CleanNameIsAsked
