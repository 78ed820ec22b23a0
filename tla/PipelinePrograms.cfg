CONSTANTS
  ByteSize <- MCByteSize
  WordBits <- MCWordBits
  MemBytes = 32
  kExceptionVector = 16
  Fields <- MCFields
  BitAnd <- MCBitAnd
  Shl <- MCShl
  Shr <- MCShr
  Alphabets = {{7, 31, 34, 35}, {12, 17, 18, 40}, {3, 20, 29, 32}, {19, 23, 30, 33}, {1, 2, 5, 8, 10}, {5, 11, 13, 14, 16, 18}, {21, 22, 24, 25, 26, 27, 28}}
  Handlers = {15}
  Programs <- MCPrograms
  LoadAddrs = {8}
  ResetModes = {}
SPECIFICATION DisciplinedSpec
INVARIANTS TrapIsPrecise OperandsAreArchitectural HaltIsFinal
PROPERTIES ImplementsArch
