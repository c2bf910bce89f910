SPECIFICATION FairRelatedSpec
CONSTANTS
  ExposeUrls <- OneUrl
  NoUrl = NoUrl
  ConfigMaps = {"own"}
  Own = "own"
  ListOrder <- OwnOnly
  Wants <- NoForms
  OwnWants = {"url"}
  OtherData = {"own"}
  Deployments = {"d"}
  UpdateOnChange <- RollsOwn
  OpenShift = FALSE
  Empty = Empty
  Fixed = Fixed
  UserValue = UserValue
  RootPath = RootPath
  Absent = Absent
  Original = "original"
  Faults = {"roll"}
  MaxFaults = 1
  MaxEdits = 0
  MaxLines = 1
PROPERTIES
  RolledOutEventually
