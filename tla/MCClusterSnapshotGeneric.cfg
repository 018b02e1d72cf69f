CONSTANTS
  EventWindow = 1
  NoContainer = NoContainer
  NoImage = NoImage
  Owners <- MCOwners
  Image = "app:1"
  ImageNames <- MCImageNames
  MaxTime = 2
  MaxUid = 2
  MaxRuns = 3
  MaxChanges = 3
  MaxEvents = 2
SPECIFICATION Spec
CHECK_DEADLOCK FALSE
INVARIANT GenericWarningGivesWay
