SPECIFICATION Spec
CONSTANTS
  a = a
  b = b
  NoReg = NoReg
  MaxBody = 1
  MaxArgs = 3
  VReg <- MCVReg
  Sym <- MCSym
  PhysRegs = {"t4", "t6"}
  ForceSpillModes = {TRUE}
  Value <- MCValue
  Programs <- MCPrograms
  Entry = "B0"
  SPValue = 1
  SymAddr <- MCSymAddr
  InitRegs <- MCInitRegs
  InitMems <- MCInitMems
  Alu <- MCAlu
  LoadResult <- MCLoadResult
  StoreResult <- MCStoreResult
  Layout <- MCLayout
  ArgRegs <- MCArgRegs
  FrameSlots <- MCFrameSlots
PROPERTY
  ArgumentsReachCallee
\* The function returns, and then nothing runs.
CHECK_DEADLOCK FALSE
