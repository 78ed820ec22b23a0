CONSTANTS
  Programs = {"small", "large"}
  Fits = {"small"}
  Pcs <- MCPcs
  Outcomes <- MCUiOutcomes
  CycleWidth = 8
  TraceLength = 2
  RunBudget = 3
  MaxCycles = 4
  MaxPending = 2
  IdlePeriod = 2
  Page = 8
  AddressSpace = 16
SPECIFICATION UiFairSpec
INVARIANTS UiInv
PROPERTIES OnlyControlsMove AutoRunAdvances ExitEnds
CHECK_DEADLOCK FALSE
