SPECIFICATION Spec
CONSTANTS
  Built <- BuiltOf
  FirstMatch <- FirstMatchOf
  NextMatch <- NextMatchOf
  Means <- MeansOf
  Sections <- MCSections
  Unwritten <- MCUnwritten
  DriveLists <- MCDriveLists
  Instances <- MCInstances
  OneLetter <- MCOneLetter
  MaxTime = 5
INVARIANTS
  SearchIsRight
  TakenBack
  
  GroupsOfPreferred
  VisitsInOrder
  FetchedIsDeclared
  LoadIsOfInterval
CHECK_DEADLOCK FALSE
