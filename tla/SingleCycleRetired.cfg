CONSTANTS
  ByteSize <- MCByteSize
  WordBits <- MCWordBits
  MemBytes = 32
  kExceptionVector = 192
  Fields <- MCFields
  BitAnd <- MCBitAnd
  Shl <- MCShl
  Shr <- MCShr
  Alphabets = {{1, 19, 30}}
  Programs <- MCPrograms
  LoadAddrs = {8}
  ResetModes = {}
SPECIFICATION CpuSpec
INVARIANTS RetiredOnlyWithoutTrap
