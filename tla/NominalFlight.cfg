SPECIFICATION NominalSpec
CONSTANTS
  SetpointInterval = 1
  RetryInterval = 2
  HeartbeatTimeout = 3
  LocalPositionPoll = 2
  DisarmTimeout = 4
  MaxLate = 1
  MaxAttempts = 4
  PrestreamCount = 2
  FiniteLimit = 10
  SendOutcomes = {TRUE}
  Trajectory <- MCTrajectory
  Origins <- MCOrigins
  Components = {px4}
  Autopilot = px4
  MaxInbox = 3
  MaxUplink = 6
  ForeignCommands = {}
  HeartbeatPeriod = 2
  PositionPeriod = 1
  ResponseTime = 2
  LandingTime = 1
  MaxLines = 1
  NoPosition = NoPosition
  NoTarget = NoTarget
INVARIANTS
  NeverAborts
  FliesArmedInOffboard
PROPERTIES
  FlightCompletes
