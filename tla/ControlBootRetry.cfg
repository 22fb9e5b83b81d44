SPECIFICATION UnattendedSpec
CONSTANTS
  NumContainers = 1
  NumRoles = 1
  RoleOf <- OneGuest
  FirstActive <- FirstIsActive
  Redundancy <- OneFsck
  TestTargets = {}
  Faults = {}
PROPERTY
  StartIsRetried
