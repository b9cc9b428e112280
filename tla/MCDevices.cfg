SPECIFICATION MCSpec
CONSTANTS
  Client = {c1}
  Ender = {e1}
  MaxMade = 2
  MaxRun = 2
  Caller = {c1, c2}
  Device = {d1, d2}
  MaxEngine = 3
  Viewer = {v1, v2}
  Buffer = 2
  MaxSample = 4
  MaxConfig = 1
  p = p
  q = q
  Point = {p, q}
  NoPoint = NoPoint
  MaxScreen = 2
  MaxInput = 3
  Shows <- MCShows
  Place = {1, 2, 3}
  MaxNode = 4
  Kinds <- MCKinds
  ElementKind <- MCElementKind
  Interactive = {"button"}
  MaxUid = 3
  MaxMove = 2
  Retries = 3
  MaxUse = 2
  Rows = 3
  Screens <- MCScreens
  MaxMoves = 1
INVARIANTS
  EndedIsGone
  NoTearing
  TouchClosedAfter
  MaskedIfSeen
  TapsWhatIsShown
  ReplayFindsTouched
  RefsHold
  ToldTheTruth
  LeftAsFound
  LandsInApp
PROPERTIES
  EvictsOnlyItsOwn
  WarmUpReported
