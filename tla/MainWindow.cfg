CONSTANTS
  Programs = {"small", "large"}
  Fits = {"small"}
  Pcs <- MCPcs
  Outcomes <- MCWindowOutcomes
  CycleWidth = 3
  EmitPeriod = 2
  WindowSpeeds = {60, 100}
  MaxTimers = 1
SPECIFICATION WindowSpec
INVARIANTS WindowInv
PROPERTIES DialogsDoAsAsked StopIsShown
