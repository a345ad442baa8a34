SPECIFICATION Spec
CONSTANTS
  v1 = v1
  v2 = v2
  v3 = v3
  v4 = v4
  NoReg = NoReg
  Sym = {"T", "F", "G"}
  MaxBlockLen = 4
  VReg <- MCVReg
  PhysRegs = {t0, t1}
  ForceSpillModes = {TRUE, FALSE}
  Functions <- MCFunctions
INVARIANTS
  TypeOK
  NoSharedRegister
  NoStaleAssignment
  ScanSpillsUnderPressure
\* emitFunction returns after the last block.
CHECK_DEADLOCK FALSE
