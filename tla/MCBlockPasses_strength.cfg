SPECIFICATION Spec
CONSTANTS
  Bits = 4
  Scalars = {"g", "h"}
  Arrays = {"A"}
  Inputs = {0, 1, 7, 8, 15}
  InitOf <- MCInitOf
  Pipelines <- MCStrength
  Modules <- MCProducts
INVARIANT
  MeaningKept
\* The pipeline ends.
CHECK_DEADLOCK FALSE
