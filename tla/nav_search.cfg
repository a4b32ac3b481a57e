\* Searches one after the other, while files come and go.
SPECIFICATION Spec
CONSTANTS
  Token <- Tokens
  Map <- Maps
  Leftover <- Leftovers
  File <- Files
  NoFile = NoFile
INVARIANTS
  TypeOK
  ResultTells
  NothingPassedOver
