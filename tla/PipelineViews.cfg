CONSTANTS
  ByteSize <- MCByteSize
  WordBits <- MCWordBits
  MemBytes = 32
  kExceptionVector = 20
  Fields <- MCFields
  BitAnd <- MCBitAnd
  Shl <- MCShl
  Shr <- MCShr
  Programs <- MCPrograms
  LoadAddrs = {0}
  ResetModes = {TRUE}
  kMaxCycles = 6
  kMaxEntries = 6
  kTraceMaxRows = 6
  kTraceMaxCycles = 10
  MaxCycles = 10
  MaxBursts = 1
  MaxClears = 1
SPECIFICATION ViewsSpec
INVARIANTS RowsAreExecutions LogLosesOnlyRepeats GridTellsTheStage
PROPERTIES TokensFollowInstructions
CHECK_DEADLOCK FALSE
