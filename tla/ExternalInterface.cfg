SPECIFICATION Spec
CONSTANTS
  ivi = ivi
  ivi2 = ivi2
  meter = meter
  k1 = k1
  k2 = k2
  k3 = k3
  Dummy = Dummy
  Guest = {ivi, ivi2, meter}
  GuestLimit = 3
  Priority <- PriorityFor
  Autoboot = {ivi, ivi2}
  NameOf <- NameFor
  RoleOf <- RoleFor
  Client = {k1, k2, k3}
  Requests <- SomeRequests
  MaxBacklog = 2
CHECK_DEADLOCK FALSE
INVARIANTS
  AnswerIsTrue
  RoleListsAgree
PROPERTY
  ClientIsServed
