SPECIFICATION Spec
CONSTANTS
  Bits = 4
  Fuel = 60
  Inputs = {0, 1, 3}
  GlobalsInit <- MCGlobalsInit
  Jobs <- MCHoists
  MaxRuns = 2
  PassNames <- MCPassNames
  Strangers = {" Mem2Reg"}
  MaxNames = 2
  MaxEdits = 2
INVARIANTS
  FlowMeaningKept
\* The optimiser exits.
CHECK_DEADLOCK FALSE
