SPECIFICATION FairRelatedSpec
CONSTANTS
  ExposeUrls <- TwoUrls
  NoUrl = NoUrl
  ConfigMaps = {"own", "a", "b"}
  Own = "own"
  ListOrder <- OwnFirst
  Wants <- Stripping
  OwnWants = {"url", "ifEmpty"}
  OtherData = {}
  Deployments = {"d"}
  UpdateOnChange <- RollsAll
  OpenShift = TRUE
  Empty = Empty
  Fixed = Fixed
  UserValue = UserValue
  RootPath = RootPath
  Absent = Absent
  Original = "original"
  Faults = {"get", "update", "listDeployments", "roll", "getClient", "deleteClient", "createClient", "list", "inject", "crash"}
  MaxFaults = 1
  MaxEdits = 2
  MaxLines = 1
INVARIANTS
  RelatedTypeOK
  FormsRight
PROPERTIES
  InjectedEventually
  RestsEventually
