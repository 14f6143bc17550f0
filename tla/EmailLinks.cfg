SPECIFICATION Spec
CONSTANTS
  None = None
  User = {u1, u2}
  Link = {l1, l2, l3}
  Request = {r1, r2}
  MaxEpoch = 2
CHECK_DEADLOCK FALSE
SYMMETRY Symmetry
INVARIANTS
  TypeOK
  RedeemedOnce
  EveryEffectHasItsLink
PROPERTIES
  LinksAreSingleUse
