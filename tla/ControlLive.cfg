SPECIFICATION FairSpec
CONSTANTS
  NumContainers = 2
  NumRoles = 1
  RoleOf <- SharedRole
  FirstActive <- FirstIsActive
  Redundancy <- FsckAndNone
  TestTargets = {}
  Faults = {"plugin"}
PROPERTIES
  ShutdownCompletes
  DeadIsRelaunched
  WorkerIsReaped
