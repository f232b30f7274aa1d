SPECIFICATION TasksSpec
CONSTANTS
  QueueCapacityMax = 2
  Payloads = {p1}
  SessionMax = 2
  NoteMax = 2
  RequestMax = 3
  DebounceSamples = 2
  LongPress = 6
  DoubleClick = 5
  RepeatDelay = 2
  RepeatInterval = 2
  Half = 100
  PollMax = 14
  RxDepth = 2
  PacketMax = 3
  DimAfter = 1
  OffAfter = 2
  FlashTicks = 2
  Depth = 3
INVARIANTS NoStaleRequest DevicesTypeOK PlaysOneThenSilent ClicksAccountedFor ToldTheTruth PanelFollowsPower
PROPERTIES ImplementsChannel LatestIsPlayed OledIsCurrent
CHECK_DEADLOCK FALSE
