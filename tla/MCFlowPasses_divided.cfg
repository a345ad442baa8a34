SPECIFICATION Spec
CONSTANTS
  Bits = 4
  Fuel = 60
  Inputs = {0, 1, 3}
  GlobalsInit <- MCGlobalsInit
  Jobs <- MCDivided
  MaxRuns = 2
  PassNames <- MCPassNames
  Strangers = {" Mem2Reg"}
  MaxNames = 2
  MaxEdits = 2
PROPERTY
  Optimised
\* The optimiser exits.
CHECK_DEADLOCK FALSE
