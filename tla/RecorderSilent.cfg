SPECIFICATION SilentSpec
CONSTANTS
  Frames = {a, b}
  NoFrame = NoFrame
  Seconds = {s1}
  NoLog = NoLog
  MaxFrames = 4
  MaxBatch = 2
PROPERTIES
  StopsOnInterrupt
CHECK_DEADLOCK FALSE
