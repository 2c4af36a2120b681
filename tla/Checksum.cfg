SPECIFICATION Spec
CONSTANTS
  Frames <- MCFrames
  crc_extra <- MCextra
  Known <- MCKnown
  Flips <- MCFlips
INVARIANTS
  CorruptionDetected
CHECK_DEADLOCK FALSE
