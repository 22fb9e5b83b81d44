SPECIFICATION Spec
CONSTANTS
  Retries = 3
  Blocks = 2
  MaxJobs = 3
  Faults = {"args", "device", "open", "fork", "pidfd", "poll"}
INVARIANTS
  PluginStaysLoaded
  DiskReleased
  NoWorkOnMountedDisk
  FormatAfterErase
  ReleasedQueueIsQuiet
  OnlyRefusedPluginsStay
PROPERTIES
  ServiceSpec
  ServiceLive
  CancelEnds
