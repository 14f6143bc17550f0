SPECIFICATION Spec
CONSTANTS
  None = None
  User = {u1, u2}
  Token = {t1, t2, t3}
  Family = {f1, f2}
  Request = {r1, r2}
  MaxEpoch = 1
SYMMETRY Symmetry
INVARIANTS
  TypeOK
PROPERTIES
  RevocationIsPermanent
  OverIsFinal
  TokensAreExchanged
  BarredStaysOut
