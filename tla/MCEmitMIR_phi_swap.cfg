SPECIFICATION Spec
CONSTANTS
  vx = vx
  vy = vy
  vd = vd
  ve = ve
  vq = vq
  vr = vr
  t1 = t1
  t2 = t2
  t3 = t3
  t4 = t4
  t5 = t5
  t6 = t6
  t7 = t7
  t8 = t8
  NoReg = NoReg
  NoVal = NoVal
  Bits = 4
  ArgValues = {0, 1, 3, 7, 8, 15}
  IrVal <- MCIrVal
  VReg <- MCVReg
  Sym <- MCSym
  IrEntry = "B0"
  SymAddr <- MCSymAddr
  SPValue = 2
  InitVals <- MCInitVals
  InitMems <- MCInitMems
  IrModules <- MCSwapModules
  ByteBase = 4
  Layout <- MCLayout
  Temps <- MCTemps
  EdgeLabels <- MCEdgeLabels
PROPERTY
  ImplementsIR
\* The function returns, and then nothing runs.
CHECK_DEADLOCK FALSE
