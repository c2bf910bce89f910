SPECIFICATION FairRelatedSpec
CONSTANTS
  ExposeUrls <- OneUrl
  NoUrl = NoUrl
  ConfigMaps = {"own"}
  Own = "own"
  ListOrder <- OwnOnly
  Wants <- NoForms
  OwnWants = {}
  OtherData = {"own"}
  Deployments = {}
  UpdateOnChange <- RollsOwn
  OpenShift = TRUE
  Empty = Empty
  Fixed = Fixed
  UserValue = UserValue
  RootPath = RootPath
  Absent = Absent
  Original = "original"
  Faults = {"crash"}
  MaxFaults = 1
  MaxEdits = 0
  MaxLines = 1
PROPERTIES
  RedirectEventually
