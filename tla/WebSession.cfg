SPECIFICATION Spec
CONSTANTS
  Tab = {b1, b2}
  Call = {c1, c2}
  MaxMinted = 2
INVARIANTS
  TypeOK
  StoredTokenIsUsable
  NoSelfReplay
PROPERTIES
  CallsEnd
