CONSTANTS
  Graphs <- MCGraphs
  Target = "t"
  RawLists <- MCRawLists
  IdRank <- MCIdRank
SPECIFICATION Spec
INVARIANTS
  TypeOK
  NothingSilenced
  RootCauseMostSevere
  ChainMatchesRootCause
  EvaluationOrderIrrelevant
  DependenciesFirst
