SPECIFICATION Spec
CONSTANTS
  NumContainers = 2
  NumRoles = 1
  RoleOf <- SharedRole
  FirstActive <- FirstIsActive
  Redundancy <- FsckAndNone
  TestTargets = {2}
  Faults = {"start", "shutdown", "thread", "plugin", "repair"}
INVARIANTS
  TypeOK
  RoleExclusive
  InstanceMatchesStatus
  WorkerOwnsDisk
  NoLaunchInShutdown
  RunningGuestWatched
  NoStaleExit
  ExitLeavesNoGuest
PROPERTIES
  RoleServices
  WorkqueueUse
