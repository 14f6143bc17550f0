SPECIFICATION Spec
CONSTANTS
  Tab = {b1}
  Call = {c1, c2}
  MaxMinted = 2
INVARIANTS
  LogoutSignsOut
