SPECIFICATION Spec
CONSTANTS
  Patchable <- Places
  MaxPatches = 1
  MaxPrepares = 1
  MaxRows = 1
INVARIANT ParamsConversionHonoured
CHECK_DEADLOCK FALSE
