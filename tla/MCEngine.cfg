CONSTANTS
  Inputs <- MCInputs
SPECIFICATION Spec
INVARIANTS
  TypeOK
  HealthyIsTrue
  NearestFaultsReported
  ScanIsLastResort
PROPERTIES
  DiagnosisEnds
  ImplementsContract
