SPECIFICATION TasksSpec
CONSTANTS
  QueueCapacityMax = 2
  Payloads = {p1}
  SessionMax = 2
  NoteMax = 2
  RequestMax = 3
  DebounceSamples = 2
  LongPress = 6
  DoubleClick = 5
  RepeatDelay = 2
  RepeatInterval = 2
  Half = 8
  PollMax = 18
  RxDepth = 2
  PacketMax = 3
  DimAfter = 1
  OffAfter = 2
  FlashTicks = 2
  Depth = 3
INVARIANT HoldIsDetected
CHECK_DEADLOCK FALSE
