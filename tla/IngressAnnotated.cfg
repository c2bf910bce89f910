SPECIFICATION FairControllerSpec
CONSTANTS
  Keys = {"a"}
  Obj <- ServiceObj
  HandlersMayPanic = TRUE
  Absent = Absent
  Deleted = Deleted
  FinalStateUnknown = FinalStateUnknown
  None = None
  NoEvent = NoEvent
  NoUrl = NoUrl
  MaxWatch = 1
  MaxDeltas = 2
  IngressNames = {"a"}
  Hosts = {"a", "user"}
  AddName <- SameName
  TrimmedName <- SameName
  OwnName <- SameName
  HostOf <- SameName
  Specs = {"ports", "portless", "malformed"}
  UserSpecs = {"ports"}
  Filtered = {"a"}
  Services = {}
  UserBackend = UserBackend
  UserHost = "user"
  OneShot = FALSE
  Faults = {}
  MaxFaults = 0
  UserOps = {"mark"}
  UserMarks = {"none", "expose"}
  MaxEdits = 2
PROPERTIES
  AnnotatedEventually
