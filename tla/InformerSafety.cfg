SPECIFICATION Spec
CONSTANTS
  Keys = {k1, k2}
  Obj = {o1, o2}
  Absent = Absent
  Deleted = Deleted
  FinalStateUnknown = FinalStateUnknown
  None = None
  NoEvent = NoEvent
  MaxWatch = 2
  MaxDeltas = 2
  HandlersMayPanic = TRUE
SYMMETRY Symmetry
INVARIANTS
  TypeOK
  QueueItemsAgree
  SyncedMeansHandled
  NoLostUpdate
