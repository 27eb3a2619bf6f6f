SPECIFICATION FairSpec
CONSTANTS
  LogLength = 5
  Kept = 2
  MaxIterations = 3
  TextLength = 2
  MaxVisits = 2
  TOAST_LIMIT = 1
  MaxToasts = 3
  MaxSlides = 3
  Agents = {a1, a2, a3}
  None = None
  Nothing = Nothing
  Undefined = Undefined
  NoSelection = NoSelection
  MaxNodes = 3
  Checks = {k1, k2}
  Outages = {"refused"}
CHECK_DEADLOCK FALSE
INVARIANTS
  ButtonsTellTheTruth
  GraphTypeOK
  EdgesAgree
  Forest
  PanelTellsTheTruth
PROPERTIES
  HealthConverges
  LandingSettles
  ToastsComeAndGo
  CardsOpenByClick
  TogglesWhatIsShown
