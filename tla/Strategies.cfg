SPECIFICATION MCSpec
CONSTANTS
  Keys = {"a"}
  Obj <- ServiceObj
  HandlersMayPanic = TRUE
  Absent = Absent
  Deleted = Deleted
  FinalStateUnknown = FinalStateUnknown
  None = None
  NoEvent = NoEvent
  NoUrl = NoUrl
  MaxWatch = 1
  MaxDeltas = 1
  Hosts <- SomeHosts
  Specs <- ServiceSpec
  DefaultHost = "default"
  UserBackend = UserBackend
  NodePorts = {"p1", "p2"}
  NoPort = "0"
  NoIP = ""
  Services = {}
  OneShot = FALSE
  Faults = {"get", "write", "patch", "delete", "crash"}
  MaxFaults = 1
  UserOps = {"delete", "mark", "spec", "route"}
  UserMarks = {"none", "expose"}
  UserSpecs <- SomeSpecs
  MaxEdits = 2
INVARIANTS
  StrategiesTypeOK
PROPERTIES
  ImplementsExposure
  UserChangesKept
  UserRoutesKept
  ReachableEventually
  
