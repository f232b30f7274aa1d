SPECIFICATION MeetSpec
CONSTANTS
  Sessions = {s1, s2}
  Participants = {p1, p2}
  RunMax = 2
INVARIANT SavedProofVerifies
CHECK_DEADLOCK FALSE
