CONSTANTS
  c1 = c1
  c2 = c2
  e1 = e1
  e2 = e2
  b1 = b1
  x1 = x1
  x2 = x2
  Jobs <- MCJobs
  Required <- MCCore
  CoreJobs <- MCCore
  ExtendedJobs <- MCExtended
  BuiltinDynamicJobs <- MCBuiltinDynamic
  CustomJobs <- MCCustom
  RelatedJobs <- MCRelated
  FetchConcurrency = 2
  ParentMayEnd = TRUE
SPECIFICATION FetchSpec
INVARIANTS
  SnapshotAlwaysComplete
