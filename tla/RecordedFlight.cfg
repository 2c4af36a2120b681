SPECIFICATION FlightTrafficSpec
CONSTANTS
  Frames <- MCFrames
  NoFrame = NoFrame
  Seconds = {s1, s2}
  NoLog = NoLog
  MaxFrames = 3
  MaxBatch = 2
  LocalPosition = 32
  KnownMessages = {32, 36, 77}
  MinimumPayload <- MCMinimumPayload
  MaxUnknownTypes = 1
  InitialCapacity = 1
INVARIANTS
  FlightTypeOK
  StatsAddUp
  UnknownCountsExact
  LogIsPrefix
  NothingUnwritten
  ReplaysTheFlight
PROPERTIES
  StopsOnInterrupt
  EarlierLogsKept
  ImplementsFlightLog
CHECK_DEADLOCK FALSE
