SPECIFICATION Spec
CONSTANTS
  None = None
  Worker = {w1, w2, w3}
  Configuration <- Configurations
INVARIANTS
  TypeOK
  WorkersAgree
  ProductionIsReal
PROPERTIES
  KeysArrive
CHECK_DEADLOCK FALSE
