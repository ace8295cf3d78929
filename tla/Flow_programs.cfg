SPECIFICATION Spec
CONSTANTS
  Vars <- OneVariable
  MaxSteps = 4
INVARIANT ExitsAreReal
INVARIANT FallthroughIsPrevented
INVARIANT MisreadsAreReported
INVARIANT ReportsAreMisreads
INVARIANT FieldsAreInitialized
CHECK_DEADLOCK FALSE
