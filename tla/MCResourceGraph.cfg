CONSTANTS
  MaxObjects = 4
  Inputs <- MCInputs
SPECIFICATION Spec
INVARIANTS
  TypeOK
  OneNodePerKey
  GraphOfSnapshot
  LookupFindsObject
  MissingReported
