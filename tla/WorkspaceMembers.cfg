SPECIFICATION Spec
CONSTANTS
  None = None
  User = {u1, u2}
  Workspace = {w1, w2}
  Request = {r1, r2}
  Role = {"owner", "admin", "viewer"}
  Superuser = {u2}
  Elsewhere = {u2}
CHECK_DEADLOCK FALSE
SYMMETRY Symmetry
INVARIANTS
  TypeOK
  OwnerIsMember
  GrantedFromAbove
  KeepsAWorkspace
PROPERTIES
  RankIsRespected
