SPECIFICATION Spec
CONSTANTS
  Vars <- OneVariable
  MaxSteps = 4
INVARIANT ReadsAreInitialized
CHECK_DEADLOCK FALSE
