SPECIFICATION Spec
CONSTANTS
  stick = stick
  pad = pad
  port = port
  NumContainers = 2
  Device = {stick, pad, port}
  Kind <- KindOf
  FsOf <- FsOnStick
  Items <- TwoGuests
  MaxStarts = 3
  MaxPlugs = 2
  MaxUevents = 2
  Faults = {"mknod", "cgroup", "overrun"}
CHECK_DEADLOCK FALSE
INVARIANTS
  AccessRevoked
PROPERTY
  InjectedIsUsable
