SPECIFICATION FairSpec
CONSTANTS
  SetpointInterval = 2
  RetryInterval = 3
  HeartbeatTimeout = 4
  LocalPositionPoll = 3
  DisarmTimeout = 4
  MaxLate = 2
  MaxAttempts = 2
  PrestreamCount = 2
  FiniteLimit = 10
  SendOutcomes = {TRUE, FALSE}
  Trajectory <- MCTrajectory
  Origins <- MCOrigins
  Components = {px4}
  NoPosition = NoPosition
  NoTarget = NoTarget
INVARIANTS
  TypeOK
  ConnectionLossDetected
  AckWaitBounded
  StreamContinuity
  SetpointsInVehicleFrame
PROPERTIES
  RetrySpacing
  NoBurst
  ImplementsMission
  StartupEnds
  LandingEnds
