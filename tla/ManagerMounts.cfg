SPECIFICATION FairSpec
CONSTANTS
  NumDisks = 4
  Redundancy <- RepairFirst
  Faults = {"setup", "thread", "fork", "pidfd", "poll"}
INVARIANTS
  DispatchedUntilAnswered
  ResponsesAreTrue
  FlagMatchesTable
  TerminateReleases
PROPERTIES
  WorkCompletes
  ShutdownEnds
