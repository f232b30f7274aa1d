SPECIFICATION LinkSpec
CONSTANTS
  Peers = {q1, q2}
  Slots = {1, 2}
  Handles = {1, 2}
INVARIANT AnswerIsItsOwn
CHECK_DEADLOCK FALSE
