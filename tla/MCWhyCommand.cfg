CONSTANTS
  FetchConcurrency = 2
  NoVersion = NoVersion
  BuiltinCatalog <- MCCatalog
  RuleIDs <- MCRuleIDs
  AskingRules <- MCAskingRules
  LogRule = "builtin/log-signal"
  Calls <- MCCalls
SPECIFICATION Spec
INVARIANTS
  TypeOK
  OwnEntries
  SecondLookOnlyNearer
  SilentLogsChangeNothing
  NearerSignalsUnread
  NameIsUnambiguous
PROPERTIES
  CommandEnds
