CONSTANTS
  ImmSize = 4
  JumpSize = 4
  ShamtSize = 4
  IntSize = 16
  Registers = {0, 1, 2, 3}
  SourceLines <- MCSourceLines
  MaxLines = 4
  Files <- MCFiles
  MemSize = 4
  kAddressSpaceEnd = 8
  PhdrSize = 1
  MaxLoads = 2
  ValueSize = 32
  HexWordSize = 8
  Radix <- MCRadix
  Texts <- MCTexts
  HexTexts <- MCHexTexts
  MaxHexLines = 3
SPECIFICATION ToolSpec
INVARIANTS AssemblerIsExact LoaderInv
PROPERTIES ConverterFollowsEdits HexProgramIsWhole
CHECK_DEADLOCK FALSE
