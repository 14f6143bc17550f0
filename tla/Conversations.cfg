SPECIFICATION Spec
CONSTANTS
  None = None
  Workspace = {w1, w2}
  Conversation = {c1, c2}
  Turn = {t1, t2, t3}
CHECK_DEADLOCK FALSE
SYMMETRY Symmetry
INVARIANTS
  TypeOK
  MessagesHaveAHome
  ReplyFollowsItsPrompt
  SequencesHaveNoGaps
  
  UniqueUnlessCrowded
