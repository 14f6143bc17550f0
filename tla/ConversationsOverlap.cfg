SPECIFICATION Spec
CONSTANTS
  None = None
  Workspace = {w1}
  Conversation = {c1}
  Turn = {t1, t2}
CHECK_DEADLOCK FALSE
SYMMETRY Symmetry
INVARIANTS
  SequencesAreUnique
