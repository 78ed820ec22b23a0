CONSTANTS
  ByteSize <- MCByteSize
  WordBits <- MCWordBits
  MemBytes = 32
  kExceptionVector = 192
  Fields <- MCFields
  BitAnd <- MCBitAnd
  Shl <- MCShl
  Shr <- MCShr
  Alphabets = {{5, 13, 24, 25}, {1, 5, 13, 24}}
  Handlers = {27}
  Programs <- MCPrograms
  LoadAddrs = {8, 12}
  ResetModes = {TRUE}
SPECIFICATION FairSpec
INVARIANTS TypeOK ShownDestinationIsWritten
PROPERTIES ImplementsArch RetiresEachOnce CommitsForever HaltIsReported
