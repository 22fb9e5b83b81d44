SPECIFICATION Spec
CONSTANTS
  NumContainers = 3
  NumRoles = 2
  RoleOf <- TwoRoles
  FirstActive <- SecondIsDummy
  Redundancy <- FailoverNoneAb
  TestTargets = {}
  Faults = {"monitor", "manager"}
PROPERTY
  LaunchIsDue
