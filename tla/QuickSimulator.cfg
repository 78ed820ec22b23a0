CONSTANTS
  Programs = {"small", "large"}
  Fits = {"small"}
  Pcs <- MCPcs
  Outcomes <- MCOutcomes
  CycleWidth = 6
  EmitPeriod = 3
  Speeds = {60, 100}
SPECIFICATION QuickFairSpec
INVARIANTS QuickInv ShownIsCurrent
PROPERTIES RunStopsAtBreakpoints RunIsShown
