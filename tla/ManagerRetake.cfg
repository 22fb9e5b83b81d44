SPECIFICATION FairSpec
CONSTANTS
  NumDisks = 2
  Redundancy <- FsckDisks
  Faults = {}
PROPERTIES
  CompletionIsSeen
