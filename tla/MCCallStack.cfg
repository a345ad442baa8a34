SPECIFICATION Spec
CONSTANTS
  Programs <- MCPrograms
  TempSlots = 2
  Int32Limit = 256
  Value = {1}
  NArgRegs = 2
  StackBase = 192
  Used <- MCUsed
INVARIANTS
  LayoutTypeOK
  FramesSound
  FramePointerKept
  AllocasAligned
PROPERTY
  ImplementsActivations
\* main returns, and a call for which the modelled stack has no room stops.
CHECK_DEADLOCK FALSE
