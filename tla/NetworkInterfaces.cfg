SPECIFICATION Spec
CONSTANTS
  NumContainers = 2
  NumInterfaces = 2
  eth = eth
  Names = {eth}
  NameOf <- OneName
  Wanted <- BothWant
  MaxStarts = 2
  MaxSocket = 3
  Faults = {"overrun"}
CHECK_DEADLOCK FALSE
INVARIANTS
  ClaimsAgree
  ListFollowsHost
PROPERTY
  InterfaceDelivered
