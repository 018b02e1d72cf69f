CONSTANTS
  MaxObjects = 4
  Inputs <- MCInputs
SPECIFICATION Spec
INVARIANT MissingMeansAbsent
