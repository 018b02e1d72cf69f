CONSTANTS
  r1 = r1
  r2 = r2
  o1 = o1
  o2 = o2
  Jobs <- MCJobs
  Required <- MCRequired
  FetchConcurrency = 2
  ParentMayEnd = TRUE
SPECIFICATION Spec
INVARIANTS
  TypeOK
  CompleteOrError
  ReportsRootFailure
  NoLostFailure
PROPERTIES
  CallReturns
