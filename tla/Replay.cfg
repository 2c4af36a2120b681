SPECIFICATION Spec
CONSTANTS
  Recordings <- MCRecordings
  NonFinite = NonFinite
  Interval = 2
  WordSize = 12
  MaximumAltitude = 2
  MaximumHorizontalDistance = 1
  Speed = 1
  TotalDuration = 7
  PreviewDuration = 6
INVARIANTS
  TypeOK
  BracketExists
  OnRecordedPath
  ReadyIsFlyable
  PreviewHolds
