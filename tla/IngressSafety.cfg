SPECIFICATION ControllerSpec
CONSTANTS
  a = a
  b = b
  Keys = {a, b}
  Obj <- ServiceObj
  HandlersMayPanic = TRUE
  Absent = Absent
  Deleted = Deleted
  FinalStateUnknown = FinalStateUnknown
  None = None
  NoEvent = NoEvent
  NoUrl = NoUrl
  MaxWatch = 1
  MaxDeltas = 1
  IngressNames <- SharedAndOwn
  Hosts = {"shared", "user"}
  AddName <- SharedName
  TrimmedName <- SharedName
  OwnName <- SameName
  HostOf <- SharedName
  Specs = {"ports", "portless", "malformed"}
  UserSpecs = {"ports"}
  Filtered <- SharedAndOwn
  Services = {}
  UserBackend = UserBackend
  UserHost = "user"
  OneShot = TRUE
  Faults = {"write"}
  MaxFaults = 1
  UserOps = {"mark", "delete", "ingress", "rule", "cleanup"}
  UserMarks = {"none", "expose"}
  MaxEdits = 2
SYMMETRY Alike
INVARIANTS
  ControllerTypeOK
  NoDuplicateBackend
  OneShotExposes
PROPERTIES
  BackendsPreserved
  ImplementsExposure
  CleanupSpares
CHECK_DEADLOCK FALSE
