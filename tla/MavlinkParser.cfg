SPECIFICATION Spec
CONSTANTS
  MaxByte = 3
  Magic = 3
  HeaderLength = 4
  ChecksumLength = 1
  SignatureLength = 1
  MaxFrameLength = 9
  SentFrames <- MCAnyFrames
  MaxAstray = 20
INVARIANTS
  TypeOK
  RecoveryBounded
PROPERTIES
  IntactFrameCompleted
