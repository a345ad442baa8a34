SPECIFICATION Spec
CONSTANTS
  Bits = 4
  Fuel = 60
  Inputs = {0, 1, 3}
  GlobalsInit <- MCGlobalsInit
  Jobs <- MCJobs
  MaxRuns = 2
  PassNames <- MCPassNames
  Strangers = {" Mem2Reg"}
  MaxNames = 2
  MaxEdits = 1
INVARIANTS
  FlowMeaningKept
  ModuleWellFormed
  WorkIsThere
  EdgesRecordedOnce
  SummariesDescribeSources
PROPERTY
  Optimised
\* The optimiser exits.
CHECK_DEADLOCK FALSE
