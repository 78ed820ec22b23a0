CONSTANTS
  Byte <- MCByte
  Code <- MCCode
  HexDigit <- MCHexDigit
  HexBase = 4
  CheckSize = 16
  Unescaped <- MCUnescaped
  kMaxPacketSize = 2
  kInterruptPollSteps = 3
  RxSize = 2
  Frames <- MCFrames
  Noise <- MCNoise
  MaxSends = 3
SPECIFICATION FairSpec
INVARIANTS InputInv PacketsInOrder
PROPERTIES StopsForAReason InterruptAnswered
