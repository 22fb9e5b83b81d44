SPECIFICATION FairSpec
CONSTANTS
  NumContainers = 2
  NumRoles = 1
  RoleOf <- SharedRole
  FirstActive <- FirstIsActive
  Redundancy <- NoneNone
  TestTargets = {}
  Faults = {}
PROPERTIES
  ExchangeHappens
  StopIsBounded
  CrashIsNoticed
