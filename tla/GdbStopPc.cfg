CONSTANTS
  ByteSize <- MCByteSize
  WordBits <- MCWordBits
  MemBytes = 32
  kExceptionVector = 192
  Fields <- MCFields
  BitAnd <- MCBitAnd
  Shl <- MCShl
  Shr <- MCShr
  kBreakWord = 20
  Images <- MCImages
  BpAddrs = {4, 12, 13, 64}
  ResumeAddrs <- MCResumeAddrs
  RegWrites <- MCRegWrites
  RegBlocks <- MCRegBlocks
  MemWrites <- MCMemWrites
SPECIFICATION Spec
PROPERTIES StopIsAtFault
