SPECIFICATION RelatedSpec
CONSTANTS
  ExposeUrls <- OneUrl
  NoUrl = NoUrl
  ConfigMaps = {"own", "a", "b"}
  Own = "own"
  ListOrder <- OwnLast
  Wants <- Stripping
  OwnWants = {}
  OtherData = {"own"}
  Deployments = {}
  UpdateOnChange <- RollsOwn
  OpenShift = FALSE
  Empty = Empty
  Fixed = Fixed
  UserValue = UserValue
  RootPath = RootPath
  Absent = Absent
  Original = "original"
  Faults = {}
  MaxFaults = 0
  MaxEdits = 0
  MaxLines = 1
INVARIANTS
  PlainHasProtocol
