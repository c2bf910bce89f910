SPECIFICATION FairControllerSpec
CONSTANTS
  Keys = {"a"}
  Obj <- ServiceObj
  HandlersMayPanic = TRUE
  Absent = Absent
  Deleted = Deleted
  FinalStateUnknown = FinalStateUnknown
  None = None
  NoEvent = NoEvent
  NoUrl = NoUrl
  MaxWatch = 1
  MaxDeltas = 1
  IngressNames = {"a"}
  Hosts = {"a", "user"}
  AddName <- SameName
  TrimmedName <- SameName
  OwnName <- SameName
  HostOf <- SameName
  Specs = {"ports", "portless", "malformed"}
  UserSpecs = {"ports", "portless", "malformed"}
  Filtered = {"a"}
  Services = {}
  UserBackend = UserBackend
  UserHost = "user"
  OneShot = FALSE
  Faults = {"get", "write", "patch", "delete", "panic", "crash"}
  MaxFaults = 1
  UserOps = {"create", "delete", "mark", "ingress", "rule", "cleanup"}
  UserMarks = {"none", "expose"}
  MaxEdits = 2
PROPERTIES
  ExposedEventually
  RelatedEventually
  UnexposedEventually
  StoreConverges
