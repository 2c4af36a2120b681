SPECIFICATION SessionSpec
CONSTANTS
  SetpointInterval = 1
  RetryInterval = 1
  HeartbeatTimeout = 2
  LocalPositionPoll = 1
  DisarmTimeout = 2
  MaxLate = 0
  MaxAttempts = 2
  PrestreamCount = 1
  FiniteLimit = 10
  SendOutcomes = {TRUE, FALSE}
  Trajectory <- MCTrajectory
  Origins <- MCOrigins
  Components = {px4, gimbal}
  Autopilot = px4
  MaxInbox = 2
  MaxUplink = 2
  ForeignCommands = {"arm"}
  NoPosition = NoPosition
  NoTarget = NoTarget
INVARIANTS
  AcknowledgedWereAccepted
  WrongTargetNeverFlies
PROPERTIES
  CompletesDisarmed
  AwaitedAckActedOn
