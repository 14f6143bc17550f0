SPECIFICATION Spec
CONSTANTS
  None = None
  User = {u1}
  Token = {t1, t2, t3}
  Family = {f1, f2}
  Request = {r1, r2}
  MaxEpoch = 1
INVARIANTS
  NoSessionOutlivesItsPassword
