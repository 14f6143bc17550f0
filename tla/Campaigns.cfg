SPECIFICATION Spec
CONSTANTS
  None = None
  Workspace = {w1, w2}
  Brand = {b1, b2}
  Campaign = {c1, c2}
  Conversation = {v1}
  Request = {r1, r2, r3}
CHECK_DEADLOCK FALSE
SYMMETRY Symmetry
INVARIANTS
  TypeOK
  EverythingAtHome
PROPERTIES
  CascadeIsExact
