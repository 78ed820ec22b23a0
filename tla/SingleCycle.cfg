CONSTANTS
  ByteSize <- MCByteSize
  WordBits <- MCWordBits
  MemBytes = 32
  kExceptionVector = 12
  Fields <- MCFields
  BitAnd <- MCBitAnd
  Shl <- MCShl
  Shr <- MCShr
  Alphabets = {{21, 22, 27, 31, 35, 36, 42}, {21, 22, 24, 27, 28, 31, 38, 41}}
  Programs <- MCPrograms
  LoadAddrs = {8}
  ResetModes = {TRUE}
SPECIFICATION CpuSpec
INVARIANTS CpuInv EretUndoesTrap ArithmeticIsExact
PROPERTIES EretReturnsToFirstFault
