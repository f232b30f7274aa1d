SPECIFICATION Spec
CONSTANTS
  MessageMax = 3
  FrameMax = 2
  Peers = {q1, q2}
  Slots = {1, 2}
  Handles = {1, 2}
  Sessions = {s1, s2}
  Participants = {p1, p2}
  RunMax = 3
  Badges = {b1, b2}
  MatchMax = 2
  MoveMax = 2
  SendMax = 3
INVARIANTS TypeOK ReceivedWasSent OnlyDisconnectsMislead AdvertisingAsWanted NonceSignsOnce SavedTextIsSigned NotBothClients
SYMMETRY Symmetry
CHECK_DEADLOCK FALSE
